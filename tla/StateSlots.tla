----------------------------- MODULE StateSlots -----------------------------
(***************************************************************************)
(* The two durable slots of the dashboard's state (dashboard_state.py), as *)
(* the publishing workflows use them.  The refs dashboard-state and        *)
(* dashboard-state-previous each name an immutable parentless commit.  A   *)
(* job first restores: it probes both refs, repairs the pair from its      *)
(* valid slots and falls back to the rollback slot.  A collection then     *)
(* builds a candidate on the restored state and rotates it in; a deployment *)
(* rebuilds the restored state, and promotes the rollback slot when that   *)
(* one alone can be rebuilt.  Every change of the pair is one atomic push  *)
(* with an exact lease on both refs.                                       *)
(***************************************************************************)
EXTENDS Integers, FiniteSets

CONSTANTS
    Jobs,               \* publishing jobs, each started at most once
    Seeds,              \* names of the states published before
    Exclusive,          \* TRUE: the gh-pages-deploy lock admits one job
    BootstrapAllowed,   \* policy.bootstrap_allowed
    PushRetries,        \* re-sends of one push before push_refs gives up
    MaxDamage,          \* bound of the model on damage done from outside
    MaxMain             \* bound of the model on merges to the default branch

ASSUME SlotsAssumption ==
    /\ Jobs \cap (Seeds \cup {"absent", "damaged"}) = {}
    /\ Seeds \cap {"absent", "damaged"} = {}
    /\ {Exclusive, BootstrapAllowed} \subseteq BOOLEAN
    /\ {PushRetries, MaxDamage, MaxMain} \subseteq Nat

VARIABLES
    slots,      \* what the two refs name
    wire,       \* pushes sent to the git server and not yet decided
    main,       \* the code on the default branch
    damage,     \* how often a slot was damaged from outside
    job         \* the progress of each job

vars == <<slots, wire, main, damage, job>>

----------------------------------------------------------------------------
(* States *)

\* How much of the validation a state passes: none of it, the bounded check
\* of metadata, the full check of its content, and a rebuild of the site.
Grades == 0..3
MetadataValid == 1
FullyValid == 2
Deployable == 3

\* A version of the code, in the linear history of the default branch, with
\* the version of the workflow files in it.
Code == [version : Nat, workflows : Nat]

FirstCode == [version |-> 0, workflows |-> 0]

\* A state, by the job that made it, with the state it was built on and the
\* code that made it, whose files it carries.
State == [id : Jobs \cup Seeds \cup {"absent", "damaged"},
          base : Jobs \cup Seeds \cup {"absent", "damaged"},
          grade : Grades,
          code : Code]

Absent == [id |-> "absent", base |-> "absent", grade |-> 0,
           code |-> FirstCode]

Pair == [current : State, previous : State]

Valid(s) == s.grade >= FullyValid

\* A change of the pair, with the lease it is sent under.
Push == [by : Jobs, rotates : BOOLEAN, lease : Pair, new : Pair]

NoPush == [by |-> "nobody"]

Stages == {"unstarted", "probing", "probed", "repairing", "validating",
           "promoting", "building", "rotating", "assembling", "reverting",
           "done", "failed", "superseded"}

JobRecord ==
    [kind : {"collect", "deploy"},
     stage : Stages,
     code : Code,                   \* what the job pinned
     saw : Pair,                    \* the pair it expects on the remote
     candidate : State,
     push : Push \cup {NoPush},
     resends : Nat]

TypeOK ==
    /\ slots \in Pair
    /\ wire \subseteq Push
    /\ main \in Code
    /\ damage \in Nat
    /\ job \in [Jobs -> JobRecord]

Running(j) == job[j].stage \notin {"unstarted", "done", "failed", "superseded"}

NoPair == [current |-> Absent, previous |-> Absent]

Unstarted(kind) ==
    [kind |-> kind, stage |-> "unstarted", code |-> FirstCode, saw |-> NoPair,
     candidate |-> Absent, push |-> NoPush, resends |-> 0]

Init ==
    /\ \E s \in [id : Seeds, base : {"absent"}, grade : {FullyValid, Deployable},
                 code : {FirstCode}] :
          slots \in {[current |-> s, previous |-> s]}
                       \cup (IF BootstrapAllowed THEN {NoPair} ELSE {})
    /\ wire = {}
    /\ main = FirstCode
    /\ damage = 0
    /\ \E kind \in [Jobs -> {"collect", "deploy"}] :
          job = [j \in Jobs |-> Unstarted(kind[j])]

----------------------------------------------------------------------------
(* Restoring *)

\* Mutant of Start: the job does not wait for the lock.
StartUnlocked(j) ==
    /\ job[j].stage = "unstarted"
    /\ job' = [job EXCEPT ![j].stage = "probing", ![j].code = main]
    /\ UNCHANGED <<slots, wire, main, damage>>

\* A job starts, when it has the lock, and pins the code of the default
\* branch.
Start(j) ==
    /\ job[j].stage = "unstarted"
    /\ Exclusive => \A k \in Jobs : ~Running(k)
    /\ job' = [job EXCEPT ![j].stage = "probing", ![j].code = main]
    /\ UNCHANGED <<slots, wire, main, damage>>

\* probe_ref of the current slot, then of the previous one: a pair that
\* never existed may be seen.
ProbeCurrent(j) ==
    /\ job[j].stage = "probing"
    /\ job' = [job EXCEPT ![j].stage = "probed", ![j].saw.current = slots.current]
    /\ UNCHANGED <<slots, wire, main, damage>>

ProbePrevious(j) ==
    /\ job[j].stage = "probed"
    /\ LET saw == [job[j].saw EXCEPT !.previous = slots.previous]
       IN  IF saw = NoPair
           THEN IF job[j].kind = "collect" /\ BootstrapAllowed
                THEN job' = [job EXCEPT ![j].stage = "building", ![j].saw = saw]
                ELSE job' = [job EXCEPT ![j].stage = "failed"]
           ELSE job' = [job EXCEPT ![j].stage = "repairing", ![j].saw = saw]
    /\ UNCHANGED <<slots, wire, main, damage>>

Idle(j) == job[j].push = NoPush

\* Send an atomic push of a new pair, leased on the pair the job saw.
Send(j, rotates, new) ==
    LET p == [by |-> j, rotates |-> rotates, lease |-> job[j].saw, new |-> new]
    IN  /\ wire' = wire \cup {p}
        /\ job' = [job EXCEPT ![j].push = p, ![j].resends = PushRetries]

Both(s) == [current |-> s, previous |-> s]

\* The command finds the remote pair as expected.  (Its two lookups are one
\* step: the lease of the push decides in any case.)
Expected(j) == slots = job[j].saw

\* add_slot_proof: the metadata is valid, and the code that made the state is
\* in the history of the code the job pinned.
Proven(j, s) ==
    /\ s.grade >= MetadataValid
    /\ s.code.version =< job[j].code.version

\* The slot repair keeps, when it has no proof for both.
Survivor(j) ==
    IF Proven(j, job[j].saw.current) THEN job[j].saw.current ELSE job[j].saw.previous

\* repair_state_slots: keep two proven slots, copy a sole proven one to both,
\* refuse when there is none.
Repair(j) ==
    /\ job[j].stage = "repairing" /\ Idle(j) /\ Expected(j)
    /\ \/ /\ Proven(j, job[j].saw.current) /\ Proven(j, job[j].saw.previous)
          /\ job' = [job EXCEPT ![j].stage = "validating"]
          /\ UNCHANGED wire
       \/ /\ \E s \in {"current", "previous"} : ~Proven(j, job[j].saw[s])
          /\ Proven(j, Survivor(j))
          /\ Send(j, FALSE, Both(Survivor(j)))
    /\ UNCHANGED <<slots, main, damage>>

Restored(j) == IF job[j].kind = "collect" THEN "building" ELSE "assembling"

\* full_validate_state of the current slot, and of the rollback slot when
\* that fails.  A rollback slot that passes is promoted by a repair that is
\* given its proof alone.
FullValidate(j) ==
    /\ job[j].stage = "validating"
    /\ \/ /\ Valid(job[j].saw.current)
          /\ job' = [job EXCEPT ![j].stage = Restored(j)]
       \/ /\ ~Valid(job[j].saw.current)
          /\ Valid(job[j].saw.previous)
          /\ job' = [job EXCEPT ![j].stage = "promoting"]
    /\ UNCHANGED <<slots, wire, main, damage>>

\* repair_state_slots with the proof of the rollback slot alone.
Promote(j) ==
    /\ job[j].stage \in {"promoting", "reverting"} /\ Idle(j) /\ Expected(j)
    /\ Send(j, FALSE, Both(job[j].saw.previous))
    /\ UNCHANGED <<slots, main, damage>>

----------------------------------------------------------------------------
(* Publishing *)

\* A collection builds its candidate on the restored current state, and
\* validates it in full; whether it can be rebuilt later is another matter.
Build(j, grade) ==
    /\ job[j].stage = "building"
    /\ job' = [job EXCEPT ![j].stage = "rotating",
                          ![j].candidate = [id |-> j, base |-> job[j].saw.current.id,
                                            grade |-> grade,
                                            code |-> job[j].code]]
    /\ UNCHANGED <<slots, wire, main, damage>>

\* Mutant of NewPair: the rollback slot is left as it is.
NewPairKeepsPrevious(j) ==
    [current |-> job[j].candidate,
     previous |-> IF job[j].saw.previous = Absent
                  THEN job[j].candidate ELSE job[j].saw.previous]

\* The pair a rotation writes: bootstrap creates both slots alike.
NewPair(j) ==
    [current |-> job[j].candidate,
     previous |-> IF job[j].saw.current = Absent
                  THEN job[j].candidate ELSE job[j].saw.current]

\* rotate_state_refs: the drift preflight compares the workflow files with
\* main's, unless it cannot reach main.
Rotate(j) ==
    /\ job[j].stage = "rotating" /\ Idle(j) /\ Expected(j)
    /\ \/ /\ job[j].code.workflows # main.workflows
          /\ job' = [job EXCEPT ![j].stage = "superseded"]
          /\ UNCHANGED wire
       \/ Send(j, TRUE, NewPair(j))
    /\ UNCHANGED <<slots, main, damage>>

\* Mutant of CanRevert: the rollback slot is promoted without a rebuild.
CanRevertUnproved(j) == job[j].saw.previous # job[j].saw.current

\* The rollback slot is another state, and the site can be rebuilt from it.
CanRevert(j) ==
    /\ job[j].saw.previous # job[j].saw.current
    /\ job[j].saw.previous.grade = Deployable

\* A deployment rebuilds the current state, and if that fails twice the same
\* way the rollback slot, which is promoted when it can be rebuilt.
Assemble(j) ==
    /\ job[j].stage = "assembling"
    /\ \/ /\ job[j].saw.current.grade = Deployable
          /\ job' = [job EXCEPT ![j].stage = "done"]
       \/ /\ job[j].saw.current.grade # Deployable
          /\ CanRevert(j)
          /\ job' = [job EXCEPT ![j].stage = "reverting"]
    /\ UNCHANGED <<slots, wire, main, damage>>

----------------------------------------------------------------------------
(* Pushing *)

\* Mutant of Resend: the retries are not counted down to a stop.
ResendForever(j) ==
    /\ ~Idle(j)
    /\ wire' = wire \cup {p \in {job[j].push} : p.lease = slots}
    /\ job' = [job EXCEPT ![j].resends = @ - 1]
    /\ UNCHANGED <<slots, main, damage>>

\* push_refs sends again after a transient failure, unless it sees that the
\* lease no longer holds.
Resend(j) ==
    /\ ~Idle(j) /\ job[j].resends > 0
    /\ wire' = wire \cup {p \in {job[j].push} : p.lease = slots}
    /\ job' = [job EXCEPT ![j].resends = @ - 1]
    /\ UNCHANGED <<slots, main, damage>>

\* push_refs returns: both refs name what it pushed.
Confirm(j) ==
    /\ ~Idle(j)
    /\ slots = job[j].push.new
    /\ job' = [job EXCEPT ![j].push = NoPush, ![j].resends = 0, ![j].saw = slots,
                          ![j].stage = CASE @ = "repairing" -> "validating"
                                         [] @ = "promoting" -> Restored(j)
                                         [] OTHER -> "done"]
    /\ UNCHANGED <<slots, wire, main, damage>>

\* Mutant of FailedStage: a rotation that did not converge is taken for one
\* that the server refused.
FailedStageSuperseded(j) ==
    IF job[j].stage = "rotating" THEN "superseded" ELSE "failed"

FailedStage(j) == "failed"

\* The job fails, times out or is cancelled; what it sent may still land.
Fail(j) ==
    /\ Running(j)
    /\ job' = [job EXCEPT ![j].stage = FailedStage(j), ![j].push = NoPush,
                          ![j].resends = 0]
    /\ UNCHANGED <<slots, wire, main, damage>>

LeaseHolds(p) == p.lease = slots

\* The server takes no workflow file that main does not have.
Admitted(p) == p.rotates => p.new.current.code.workflows = main.workflows

\* The server applies both refs of a push or none.
Apply(p) ==
    /\ LeaseHolds(p) /\ Admitted(p)
    /\ slots' = p.new
    /\ wire' = wire \ {p}
    /\ UNCHANGED <<main, damage, job>>

\* The server refuses a rotation for its workflow files, and its job is told.
Refuse(p) ==
    /\ LeaseHolds(p) /\ ~Admitted(p)
    /\ wire' = wire \ {p}
    /\ job' = IF job[p.by].push = p
              THEN [job EXCEPT ![p.by].stage = "superseded", ![p.by].push = NoPush,
                               ![p.by].resends = 0]
              ELSE job
    /\ UNCHANGED <<slots, main, damage>>

\* A push is lost, or refused for its lease.
Lose(p) ==
    /\ wire' = wire \ {p}
    /\ UNCHANGED <<slots, main, damage, job>>

----------------------------------------------------------------------------
(* The outside *)

\* A slot is deleted or overwritten from outside the workflows.
Damage(slot, s) ==
    /\ damage < MaxDamage
    /\ damage' = damage + 1
    /\ slots' = [slots EXCEPT ![slot] = s]
    /\ UNCHANGED <<wire, main, job>>

\* Newer code is merged to the default branch.
Merge(workflows) ==
    /\ main.version < MaxMain
    /\ main' = [version |-> main.version + 1, workflows |-> workflows]
    /\ UNCHANGED <<slots, wire, damage, job>>

Damaged == [id : {"damaged"}, base : {"damaged"}, grade : {0, MetadataValid},
            code : {FirstCode}]

JobStep(j) ==
    \/ Start(j) \/ ProbeCurrent(j) \/ ProbePrevious(j)
    \/ Repair(j) \/ FullValidate(j) \/ Promote(j)
    \/ \E grade \in {FullyValid, Deployable} : Build(j, grade)
    \/ Rotate(j) \/ Assemble(j)
    \/ Resend(j) \/ Confirm(j) \/ Fail(j)

Next ==
    \/ \E j \in Jobs : JobStep(j)
    \/ \E p \in wire : Apply(p) \/ Refuse(p) \/ Lose(p)
    \/ \E slot \in {"current", "previous"}, s \in Damaged \cup {Absent} : Damage(slot, s)
    \/ \E workflows \in {main.workflows, main.workflows + 1} : Merge(workflows)

Spec == Init /\ [][Next]_vars

----------------------------------------------------------------------------
(* Properties *)

Untouched == damage' = damage

\* No job destroys the last fully valid state: however stale what a job saw,
\* and whatever another one does in between, a pair that holds a valid state
\* holds one after every step that is not damage from outside.
LastValidKept ==
    [][Untouched /\ (\E s \in {"current", "previous"} : Valid(slots[s]))
          => \E s \in {"current", "previous"} : Valid(slots'[s])]_vars

\* A published state is dropped from the pair only after it was found bad:
\* the current state of one moment survives every step of a job as the
\* rollback slot, unless it cannot be deployed.
GoodCurrentKept ==
    [][Untouched /\ slots.current.grade = Deployable
          => slots.current \in {slots'.current, slots'.previous}]_vars

\* No update is lost: a candidate replaces exactly the state it was built
\* on, which becomes the rollback slot (bootstrap has none).
BuildsOnReplaced ==
    [][Untouched /\ slots'.current # slots.current /\ slots'.current.id \in Jobs
          /\ slots'.current # slots.previous
             => /\ slots'.current.base = slots.current.id
                /\ slots'.previous = IF slots.current = Absent
                                     THEN slots'.current ELSE slots.current]_vars

\* A job that reports that it was superseded has published nothing: its
\* candidate is in no slot, then and later.
SupersededMovedNothing ==
    \A j \in Jobs : job[j].stage = "superseded" =>
        \A s \in {"current", "previous"} : slots[s].id # j
=============================================================================
