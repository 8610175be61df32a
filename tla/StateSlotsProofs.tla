-------------------------- MODULE StateSlotsProofs --------------------------
(***************************************************************************)
(* What holds of the two state slots for every number of jobs and retries. *)
(* The leases alone make every change of the pair one that its job was     *)
(* allowed to make on the pair it replaces (LegalPush), which is why no    *)
(* update is lost.  That a change also keeps what is good in the pair      *)
(* (SafePush) needs the lock: a job that pinned older code than the one    *)
(* that made a state cannot prove that state, and would repair it away.    *)
(* The leases also suffice for CandidateInv: a candidate is nowhere before *)
(* its job sends it, and nowhere after a refusal.                          *)
(***************************************************************************)
EXTENDS StateSlots, TLAPS

\* A push is what its command computes from the pair it is leased on.
LegalPush(p) ==
    IF p.rotates
    THEN /\ p.new.current.id = p.by
         /\ p.new.current.base = p.lease.current.id
         /\ Valid(p.new.current)
         /\ p.new.previous = IF p.lease.current = Absent
                             THEN p.new.current ELSE p.lease.current
    ELSE \/ p.new = Both(p.lease.current)
         \/ p.new = Both(p.lease.previous)

\* The stages in which a job may have a push under way.
Pushing == {"repairing", "promoting", "reverting", "rotating"}

LegalJob(j) ==
    /\ job[j].push # NoPush => /\ job[j].push.by = j
                               /\ job[j].push.lease = job[j].saw
                               /\ LegalPush(job[j].push)
                               /\ job[j].stage \in Pushing
    /\ job[j].stage = "rotating" => /\ job[j].candidate.id = j
                                    /\ job[j].candidate.base = job[j].saw.current.id
                                    /\ job[j].candidate.code = job[j].code
                                    /\ Valid(job[j].candidate)

\* The inductive invariant that the leases give.
LeaseInv ==
    /\ TypeOK
    /\ \A p \in wire : LegalPush(p)
    /\ \A j \in Jobs : LegalJob(j)

Holds(pair, j) == j \in {pair.current.id, pair.previous.id}

\* The candidates of j that can still land.
Offers(j) == {p \in wire : p.by = j /\ p.rotates}

\* A job with this record has not sent its candidate and, if it is superseded,
\* never will.
Unsent(x) ==
    /\ x.stage \notin {"done", "failed"}
    /\ x.stage = "rotating" => x.push = NoPush

\* Where the candidate of a job with record x can be.
Owns(j, x) ==
    /\ x.stage \notin {"done", "failed"} => ~Holds(x.saw, j)
    /\ Unsent(x) => ~Holds(slots, j) /\ Offers(j) = {}
    /\ x.stage = "rotating" => Offers(j) \subseteq {x.push}
    /\ x.push # NoPush => (x.push.rotates <=> x.stage = "rotating")

\* A candidate is in no slot before its job sent it, which the lease of every
\* other push turns into: nobody can carry it there.
CandidateInv ==
    /\ LeaseInv
    /\ \A j \in Jobs : Owns(j, job[j])

\* A push keeps a valid state if there was one, and the current state if it
\* can be deployed.
SafePush(p) ==
    /\ Valid(p.lease.current) \/ Valid(p.lease.previous)
          => Valid(p.new.current) \/ Valid(p.new.previous)
    /\ p.lease.current.grade = Deployable
          => p.lease.current \in {p.new.current, p.new.previous}

\* Neither state of a pair was made by code newer than version v.
UpTo(pair, v) ==
    /\ pair.current.code.version =< v
    /\ pair.previous.code.version =< v

IsRunning(x) == x.stage \notin {"unstarted", "done", "failed", "superseded"}

\* What the lock gives for the record x of a job.
Locked(x) ==
    /\ x.code.version =< main.version
    /\ UpTo(x.saw, main.version)
    /\ IsRunning(x) => /\ UpTo(slots, x.code.version)
                       /\ UpTo(x.saw, x.code.version)
                       /\ \A p \in wire : UpTo(p.new, x.code.version)
    /\ x.push # NoPush => /\ IsRunning(x)
                          /\ SafePush(x.push)
                          /\ UpTo(x.push.new, x.code.version)
    /\ x.stage = "promoting" => ~Valid(x.saw.current) /\ Valid(x.saw.previous)
    /\ x.stage = "reverting" => /\ x.saw.current.grade # Deployable
                                /\ x.saw.previous.grade = Deployable

\* The inductive invariant that the lock gives on top of it.
LockInv ==
    /\ \A j, k \in Jobs : IsRunning(job[j]) /\ IsRunning(job[k]) => j = k
    /\ UpTo(slots, main.version)
    /\ \A p \in wire : SafePush(p) /\ UpTo(p.new, main.version)
    /\ \A j \in Jobs : Locked(job[j])
----------------------------------------------------------------------------
(* Type correctness *)

LEMMA BothIsPair ==
    ASSUME NEW s \in State
    PROVE  Both(s) \in Pair
BY DEF Both, Pair

LEMMA StateTypes ==
    /\ Absent \in State /\ NoPair \in Pair /\ FirstCode \in Code
    /\ Damaged \subseteq State
    /\ PushRetries \in Nat
BY SlotsAssumption DEF Absent, NoPair, FirstCode, Code, Damaged, State, Pair, Grades,
   MetadataValid

LEMMA JobUpdate ==
    ASSUME job \in [Jobs -> JobRecord], NEW j \in Jobs, NEW x \in JobRecord,
           job' = [job EXCEPT ![j] = x]
    PROVE  job' \in [Jobs -> JobRecord]
OBVIOUS

LEMMA SendType ==
    ASSUME TypeOK, NEW j \in Jobs, NEW rotates \in BOOLEAN, NEW new \in Pair,
           Send(j, rotates, new)
    PROVE  wire' \subseteq Push /\ job' \in [Jobs -> JobRecord]
<1> DEFINE p == [by |-> j, rotates |-> rotates, lease |-> job[j].saw, new |-> new]
<1>1. job[j] \in JobRecord
    BY DEF TypeOK
<1>2. p \in Push
    BY <1>1 DEF Push, JobRecord
<1>3. [job[j] EXCEPT !.push = p, !.resends = PushRetries] \in JobRecord
    BY <1>1, <1>2, StateTypes DEF JobRecord
<1>4. /\ wire' = wire \cup {p}
      /\ job' = [job EXCEPT ![j] = [job[j] EXCEPT !.push = p, !.resends = PushRetries]]
    BY DEF Send
<1> HIDE DEF p
<1> QED
    BY <1>2, <1>3, <1>4, JobUpdate DEF TypeOK
LEMMA TypeStep ==
    ASSUME TypeOK, [Next]_vars
    PROVE  TypeOK'
<1> USE DEF TypeOK
<1>1. ASSUME NEW j \in Jobs, Start(j) PROVE TypeOK'
  <2> DEFINE x == [job[j] EXCEPT !.stage = "probing", !.code = main]
  <2>1. x \in JobRecord
    BY DEF JobRecord, Stages
  <2>2. job' = [job EXCEPT ![j] = x]
    BY <1>1 DEF Start
  <2> HIDE DEF x
  <2> QED
    BY <1>1, <2>1, <2>2, JobUpdate DEF Start
<1>2. ASSUME NEW j \in Jobs, ProbeCurrent(j) PROVE TypeOK'
  <2> DEFINE x == [job[j] EXCEPT !.stage = "probed", !.saw.current = slots.current]
  <2>1. x \in JobRecord
    BY DEF JobRecord, Stages, Pair
  <2>2. job' = [job EXCEPT ![j] = x]
    BY <1>2 DEF ProbeCurrent
  <2> HIDE DEF x
  <2> QED
    BY <1>2, <2>1, <2>2, JobUpdate DEF ProbeCurrent
<1>3. ASSUME NEW j \in Jobs, ProbePrevious(j) PROVE TypeOK'
  <2> DEFINE saw == [job[j].saw EXCEPT !.previous = slots.previous]
  <2>1. saw \in Pair
    BY DEF JobRecord, Pair
  <2>2. PICK st \in Stages : job' = [job EXCEPT ![j] = [job[j] EXCEPT !.stage = st, !.saw = saw]]
                          \/ job' = [job EXCEPT ![j] = [job[j] EXCEPT !.stage = st]]
    BY <1>3 DEF ProbePrevious, Stages
  <2> HIDE DEF saw
  <2>3. [job[j] EXCEPT !.stage = st, !.saw = saw] \in JobRecord
    BY <2>1 DEF JobRecord
  <2>4. [job[j] EXCEPT !.stage = st] \in JobRecord
    BY DEF JobRecord
  <2> QED
    BY <1>3, <2>2, <2>3, <2>4, JobUpdate DEF ProbePrevious
<1>4. ASSUME NEW j \in Jobs, Repair(j) PROVE TypeOK'
  <2>1. CASE job' = [job EXCEPT ![j].stage = "validating"] /\ UNCHANGED wire
    BY <1>4, <2>1 DEF Repair, JobRecord, Stages
  <2>2. CASE Send(j, FALSE, Both(Survivor(j)))
    <3>1. Survivor(j) \in State
      BY DEF Survivor, JobRecord, Pair
    <3> QED
      BY <1>4, <2>2, <3>1, BothIsPair, SendType DEF Repair
  <2> QED
    BY <1>4, <2>1, <2>2 DEF Repair
<1>5. ASSUME NEW j \in Jobs, FullValidate(j) PROVE TypeOK'
  <2>1. Restored(j) \in Stages
    BY DEF Restored, Stages
  <2> QED
    BY <1>5, <2>1 DEF FullValidate, JobRecord, Stages
<1>6. ASSUME NEW j \in Jobs, Promote(j) PROVE TypeOK'
  <2>1. job[j].saw.previous \in State
    BY DEF JobRecord, Pair
  <2> QED
    BY <1>6, <2>1, BothIsPair, SendType DEF Promote
<1>7. ASSUME NEW j \in Jobs, NEW grade \in {FullyValid, Deployable}, Build(j, grade)
      PROVE  TypeOK'
  <2> DEFINE c == [id |-> j, base |-> job[j].saw.current.id, grade |-> grade,
                   code |-> job[j].code]
  <2>1. c \in State
    BY DEF JobRecord, Pair, State, Grades, FullyValid, Deployable
  <2> HIDE DEF c
  <2> DEFINE x == [job[j] EXCEPT !.stage = "rotating", !.candidate = c]
  <2>2. x \in JobRecord
    BY <2>1 DEF JobRecord, Stages
  <2>3. job' = [job EXCEPT ![j] = x]
    BY <1>7 DEF Build, c
  <2> HIDE DEF x
  <2> QED
    BY <1>7, <2>2, <2>3, JobUpdate DEF Build
<1>8. ASSUME NEW j \in Jobs, Rotate(j) PROVE TypeOK'
  <2>1. CASE job' = [job EXCEPT ![j].stage = "superseded"] /\ UNCHANGED wire
    BY <1>8, <2>1 DEF Rotate, JobRecord, Stages
  <2>2. CASE Send(j, TRUE, NewPair(j))
    <3>1. NewPair(j) \in Pair
      BY DEF NewPair, JobRecord, Pair
    <3> QED
      BY <1>8, <2>2, <3>1, SendType DEF Rotate
  <2> QED
    BY <1>8, <2>1, <2>2 DEF Rotate
<1>9. ASSUME NEW j \in Jobs, Assemble(j) PROVE TypeOK'
    BY <1>9 DEF Assemble, JobRecord, Stages
<1>10. ASSUME NEW j \in Jobs, Resend(j) PROVE TypeOK'
  <2>1. job[j].push \in Push
    BY <1>10 DEF Resend, Idle, JobRecord
  <2> QED
    BY <1>10, <2>1 DEF Resend, JobRecord
<1>11. ASSUME NEW j \in Jobs, Confirm(j) PROVE TypeOK'
  <2>1. PICK st \in Stages :
          job' = [job EXCEPT ![j] = [job[j] EXCEPT !.push = NoPush, !.resends = 0,
                                                   !.saw = slots, !.stage = st]]
    BY <1>11 DEF Confirm, Restored, Stages
  <2>2. [job[j] EXCEPT !.push = NoPush, !.resends = 0, !.saw = slots, !.stage = st]
           \in JobRecord
    BY DEF JobRecord
  <2> QED
    BY <1>11, <2>1, <2>2, JobUpdate DEF Confirm
<1>12. ASSUME NEW j \in Jobs, Fail(j) PROVE TypeOK'
  <2> DEFINE x == [job[j] EXCEPT !.stage = "failed", !.push = NoPush, !.resends = 0]
  <2>1. x \in JobRecord
    BY DEF JobRecord, Stages
  <2>2. job' = [job EXCEPT ![j] = x]
    BY <1>12 DEF Fail, FailedStage
  <2> HIDE DEF x
  <2> QED
    BY <1>12, <2>1, <2>2, JobUpdate DEF Fail, FailedStage
<1>13. ASSUME NEW p \in wire, Apply(p) PROVE TypeOK'
    BY <1>13 DEF Apply, Push
<1>14. ASSUME NEW p \in wire, Refuse(p) PROVE TypeOK'
  <2>1. p.by \in Jobs
    BY DEF Push
  <2>2. [job[p.by] EXCEPT !.stage = "superseded", !.push = NoPush, !.resends = 0]
           \in JobRecord
    BY <2>1 DEF JobRecord, Stages
  <2> QED
    BY <1>14, <2>1, <2>2, JobUpdate DEF Refuse
<1>15. ASSUME NEW p \in wire, Lose(p) PROVE TypeOK'
    BY <1>15 DEF Lose
<1>16. ASSUME NEW slot \in {"current", "previous"}, NEW s \in Damaged \cup {Absent},
              Damage(slot, s)
       PROVE  TypeOK'
    BY <1>16, StateTypes DEF Damage, Pair
<1>17. ASSUME NEW workflows \in {main.workflows, main.workflows + 1}, Merge(workflows)
       PROVE  TypeOK'
    BY <1>17 DEF Merge, Code
<1>18. CASE UNCHANGED vars
    BY <1>18 DEF vars
<1> QED
    BY <1>1, <1>2, <1>3, <1>4, <1>5, <1>6, <1>7, <1>8, <1>9, <1>10, <1>11, <1>12,
       <1>13, <1>14, <1>15, <1>16, <1>17, <1>18 DEF Next, JobStep

LEMMA TypeInit == Init => TypeOK
BY StateTypes DEF Init, TypeOK, Pair, State, Grades, Code, FirstCode, FullyValid, Deployable,
   Unstarted, JobRecord, Stages

\* Every slot, push and job always has the shape its readers expect.
THEOREM SlotsTypeCorrect == Spec => []TypeOK
<1> QED
    BY TypeInit, TypeStep, PTL DEF Spec
----------------------------------------------------------------------------
(* What the leases give *)

\* LegalJob of a record that is to become the record of j.
LegalRecord(j, x) ==
    /\ x.push # NoPush => /\ x.push.by = j
                          /\ x.push.lease = x.saw
                          /\ LegalPush(x.push)
                          /\ x.stage \in Pushing
    /\ x.stage = "rotating" => /\ x.candidate.id = j
                               /\ x.candidate.base = x.saw.current.id
                               /\ x.candidate.code = x.code
                               /\ Valid(x.candidate)

Legal ==
    /\ \A p \in wire : LegalPush(p)
    /\ \A j \in Jobs : LegalJob(j)

LEMMA LegalUpdate ==
    ASSUME TypeOK, \A k \in Jobs : LegalJob(k), NEW j \in Jobs, NEW x, LegalRecord(j, x),
           job' = [job EXCEPT ![j] = x]
    PROVE  \A k \in Jobs : LegalJob(k)'
<1> SUFFICES ASSUME NEW k \in Jobs PROVE LegalJob(k)'
    OBVIOUS
<1>1. job'[k] = IF k = j THEN x ELSE job[k]
    BY DEF TypeOK
<1>2. CASE k = j
    BY <1>1, <1>2 DEF LegalJob, LegalRecord
<1>3. CASE k # j
    BY <1>1, <1>3 DEF LegalJob
<1> QED
    BY <1>2, <1>3

LEMMA SendLegal ==
    ASSUME LeaseInv, NEW j \in Jobs, NEW rotates \in BOOLEAN, NEW new \in Pair,
           Send(j, rotates, new), job[j].stage \in Pushing,
           LegalPush([by |-> j, rotates |-> rotates, lease |-> job[j].saw, new |-> new])
    PROVE  Legal'
<1> DEFINE p == [by |-> j, rotates |-> rotates, lease |-> job[j].saw, new |-> new]
           x == [job[j] EXCEPT !.push = p, !.resends = PushRetries]
<1>1. wire' = wire \cup {p} /\ job' = [job EXCEPT ![j] = x]
    BY DEF Send
<1>2. p.by = j /\ p.lease = job[j].saw
    OBVIOUS
<1>3. job[j] \in JobRecord /\ LegalJob(j)
    BY DEF LeaseInv, TypeOK
<1>4. LegalPush(p)
    OBVIOUS
<1> HIDE DEF p
<1>5. LegalRecord(j, x)
    BY <1>2, <1>3, <1>4 DEF LegalRecord, LegalJob, JobRecord
<1> HIDE DEF x
<1> QED
    BY <1>1, <1>4, <1>5, LegalUpdate DEF LeaseInv, Legal

LEMMA LeaseStep ==
    ASSUME LeaseInv, [Next]_vars
    PROVE  LeaseInv'
<1> SUFFICES Legal'
    BY TypeStep DEF LeaseInv, Legal
<1> USE DEF LeaseInv
<1>0. \A j \in Jobs : job[j] \in JobRecord /\ LegalRecord(j, job[j])
    BY DEF TypeOK, LegalJob, LegalRecord
<1>1. ASSUME NEW j \in Jobs, Start(j) PROVE Legal'
  <2> DEFINE x == [job[j] EXCEPT !.stage = "probing", !.code = main]
  <2>1. job' = [job EXCEPT ![j] = x] /\ UNCHANGED wire
    BY <1>1 DEF Start
  <2>2. LegalRecord(j, x)
    BY <1>1, <1>0 DEF Start, LegalRecord, JobRecord, Pushing
  <2> HIDE DEF x
  <2> QED
    BY <2>1, <2>2, LegalUpdate DEF Legal
<1>2. ASSUME NEW j \in Jobs, ProbeCurrent(j) PROVE Legal'
  <2> DEFINE x == [job[j] EXCEPT !.stage = "probed", !.saw.current = slots.current]
  <2>1. job' = [job EXCEPT ![j] = x] /\ UNCHANGED wire
    BY <1>2 DEF ProbeCurrent
  <2>2. LegalRecord(j, x)
    BY <1>2, <1>0 DEF ProbeCurrent, LegalRecord, JobRecord, Pushing
  <2> HIDE DEF x
  <2> QED
    BY <2>1, <2>2, LegalUpdate DEF Legal
<1>3. ASSUME NEW j \in Jobs, ProbePrevious(j) PROVE Legal'
  <2> DEFINE saw == [job[j].saw EXCEPT !.previous = slots.previous]
  <2>1. PICK st \in Stages \ {"rotating"} :
             job' = [job EXCEPT ![j] = [job[j] EXCEPT !.stage = st, !.saw = saw]]
          \/ job' = [job EXCEPT ![j] = [job[j] EXCEPT !.stage = st]]
    BY <1>3 DEF ProbePrevious, Stages
  <2> HIDE DEF saw
  <2>2. job[j].push = NoPush
    BY <1>3, <1>0 DEF ProbePrevious, LegalRecord, Pushing
  <2>3. LegalRecord(j, [job[j] EXCEPT !.stage = st, !.saw = saw])
    BY <1>0, <2>2 DEF JobRecord, LegalRecord
  <2>4. LegalRecord(j, [job[j] EXCEPT !.stage = st])
    BY <1>0, <2>2 DEF JobRecord, LegalRecord
  <2> QED
    BY <1>3, <2>1, <2>3, <2>4, LegalUpdate DEF ProbePrevious, Legal
<1>4. ASSUME NEW j \in Jobs, Repair(j) PROVE Legal'
  <2>1. CASE job' = [job EXCEPT ![j].stage = "validating"] /\ UNCHANGED wire
    <3> DEFINE x == [job[j] EXCEPT !.stage = "validating"]
    <3>1. LegalRecord(j, x)
      BY <1>4, <1>0 DEF Repair, Idle, LegalRecord, JobRecord
    <3> HIDE DEF x
    <3>2. job' = [job EXCEPT ![j] = x]
      BY <2>1 DEF x
    <3> QED
      BY <2>1, <3>1, <3>2, LegalUpdate DEF Legal
  <2>2. CASE Send(j, FALSE, Both(Survivor(j)))
    <3>1. /\ Survivor(j) \in {job[j].saw.current, job[j].saw.previous}
          /\ Survivor(j) \in State
      BY <1>0 DEF Survivor, JobRecord, Pair
    <3>2. LegalPush([by |-> j, rotates |-> FALSE, lease |-> job[j].saw,
                     new |-> Both(Survivor(j))])
      BY <3>1 DEF LegalPush
    <3>3. job[j].stage \in Pushing
      BY <1>4 DEF Repair, Pushing
    <3> QED
      BY <2>2, <3>1, <3>2, <3>3, BothIsPair, SendLegal
  <2> QED
    BY <1>4, <2>1, <2>2 DEF Repair
<1>5. ASSUME NEW j \in Jobs, FullValidate(j) PROVE Legal'
  <2>1. PICK st \in {"building", "assembling", "promoting"} :
          job' = [job EXCEPT ![j] = [job[j] EXCEPT !.stage = st]]
    BY <1>5 DEF FullValidate, Restored
  <2>2. LegalRecord(j, [job[j] EXCEPT !.stage = st])
    BY <1>5, <1>0 DEF FullValidate, LegalRecord, JobRecord, Pushing
  <2> QED
    BY <1>5, <2>1, <2>2, LegalUpdate DEF FullValidate, Legal
<1>6. ASSUME NEW j \in Jobs, Promote(j) PROVE Legal'
  <2>1. job[j].saw.previous \in State /\ job[j].stage \in Pushing
    BY <1>6, <1>0 DEF Promote, JobRecord, Pair, Pushing
  <2>2. LegalPush([by |-> j, rotates |-> FALSE, lease |-> job[j].saw,
                   new |-> Both(job[j].saw.previous)])
    BY DEF LegalPush
  <2> QED
    BY <1>6, <2>1, <2>2, BothIsPair, SendLegal DEF Promote
<1>7. ASSUME NEW j \in Jobs, NEW grade \in {FullyValid, Deployable}, Build(j, grade)
      PROVE  Legal'
  <2> DEFINE c == [id |-> j, base |-> job[j].saw.current.id, grade |-> grade,
                   code |-> job[j].code]
             x == [job[j] EXCEPT !.stage = "rotating", !.candidate = c]
  <2>1. job' = [job EXCEPT ![j] = x] /\ UNCHANGED wire
    BY <1>7 DEF Build
  <2>2. /\ c.id = j /\ c.base = job[j].saw.current.id /\ c.code = job[j].code
        /\ Valid(c)
    BY DEF Valid, FullyValid, Deployable
  <2> HIDE DEF c
  <2>3. LegalRecord(j, x)
    BY <1>7, <1>0, <2>2 DEF Build, LegalRecord, JobRecord, Pushing
  <2> HIDE DEF x
  <2> QED
    BY <2>1, <2>3, LegalUpdate DEF Legal
<1>8. ASSUME NEW j \in Jobs, Rotate(j) PROVE Legal'
  <2>1. CASE job' = [job EXCEPT ![j].stage = "superseded"] /\ UNCHANGED wire
    <3> DEFINE x == [job[j] EXCEPT !.stage = "superseded"]
    <3>1. LegalRecord(j, x)
      BY <1>8, <1>0 DEF Rotate, Idle, LegalRecord, JobRecord
    <3> HIDE DEF x
    <3>2. job' = [job EXCEPT ![j] = x]
      BY <2>1 DEF x
    <3> QED
      BY <2>1, <3>1, <3>2, LegalUpdate DEF Legal
  <2>2. CASE Send(j, TRUE, NewPair(j))
    <3>1. NewPair(j) \in Pair
      BY <1>0 DEF NewPair, JobRecord, Pair
    <3>2. /\ job[j].candidate.id = j
          /\ job[j].candidate.base = job[j].saw.current.id
          /\ Valid(job[j].candidate)
          /\ job[j].stage \in Pushing
      BY <1>8, <1>0 DEF Rotate, LegalRecord, Pushing
    <3>3. LegalPush([by |-> j, rotates |-> TRUE, lease |-> job[j].saw, new |-> NewPair(j)])
      BY <3>2 DEF LegalPush, NewPair
    <3> QED
      BY <2>2, <3>1, <3>2, <3>3, SendLegal
  <2> QED
    BY <1>8, <2>1, <2>2 DEF Rotate
<1>9. ASSUME NEW j \in Jobs, Assemble(j) PROVE Legal'
  <2>1. PICK st \in {"done", "reverting"} :
          job' = [job EXCEPT ![j] = [job[j] EXCEPT !.stage = st]]
    BY <1>9 DEF Assemble
  <2>2. LegalRecord(j, [job[j] EXCEPT !.stage = st])
    BY <1>9, <1>0 DEF Assemble, LegalRecord, JobRecord, Pushing
  <2> QED
    BY <1>9, <2>1, <2>2, LegalUpdate DEF Assemble, Legal
<1>10. ASSUME NEW j \in Jobs, Resend(j) PROVE Legal'
  <2> DEFINE x == [job[j] EXCEPT !.resends = @ - 1]
  <2>1. LegalPush(job[j].push)
    BY <1>10, <1>0 DEF Resend, Idle, LegalRecord
  <2>2. job' = [job EXCEPT ![j] = x]
    BY <1>10 DEF Resend
  <2>3. LegalRecord(j, x)
    BY <1>0 DEF LegalRecord, JobRecord
  <2> HIDE DEF x
  <2>4. \A q \in wire' : q \in wire \/ q = job[j].push
    BY <1>10 DEF Resend
  <2> QED
    BY <2>1, <2>2, <2>3, <2>4, LegalUpdate DEF Legal
<1>11. ASSUME NEW j \in Jobs, Confirm(j) PROVE Legal'
  <2>1. PICK st \in {"validating", "building", "assembling", "done"} :
          job' = [job EXCEPT ![j] = [job[j] EXCEPT !.push = NoPush, !.resends = 0,
                                                   !.saw = slots, !.stage = st]]
    BY <1>11 DEF Confirm, Restored, Stages
  <2>2. LegalRecord(j, [job[j] EXCEPT !.push = NoPush, !.resends = 0, !.saw = slots,
                                      !.stage = st])
    BY <1>0 DEF LegalRecord, JobRecord
  <2> QED
    BY <1>11, <2>1, <2>2, LegalUpdate DEF Confirm, Legal
<1>12. ASSUME NEW j \in Jobs, Fail(j) PROVE Legal'
  <2> DEFINE x == [job[j] EXCEPT !.stage = "failed", !.push = NoPush, !.resends = 0]
  <2>1. job' = [job EXCEPT ![j] = x] /\ UNCHANGED wire
    BY <1>12 DEF Fail, FailedStage
  <2>2. LegalRecord(j, x)
    BY <1>12, <1>0 DEF Fail, LegalRecord, JobRecord, Pushing, FailedStage
  <2> HIDE DEF x
  <2> QED
    BY <2>1, <2>2, LegalUpdate DEF Legal
<1>13. ASSUME NEW p \in wire, Apply(p) PROVE Legal'
    BY <1>13 DEF Apply, Legal, LegalJob
<1>14. ASSUME NEW p \in wire, Refuse(p) PROVE Legal'
  <2> DEFINE x == [job[p.by] EXCEPT !.stage = "superseded", !.push = NoPush, !.resends = 0]
  <2>1. p.by \in Jobs
    BY DEF Push, TypeOK
  <2>2. LegalRecord(p.by, x)
    BY <1>0, <2>1 DEF LegalRecord, JobRecord
  <2>3. /\ job' = [job EXCEPT ![p.by] = x] \/ job' = job
        /\ wire' \subseteq wire
    BY <1>14 DEF Refuse
  <2> HIDE DEF x
  <2>4. CASE job' = [job EXCEPT ![p.by] = x]
    BY <2>1, <2>2, <2>3, <2>4, LegalUpdate DEF Legal
  <2>5. CASE job' = job
    BY <2>3, <2>5 DEF Legal, LegalJob
  <2> QED
    BY <2>3, <2>4, <2>5
<1>15. ASSUME NEW p \in wire, Lose(p) PROVE Legal'
    BY <1>15 DEF Lose, Legal, LegalJob
<1>16. ASSUME wire' = wire, job' = job PROVE Legal'
    BY <1>16 DEF Legal, LegalJob
<1> QED
    BY <1>1, <1>2, <1>3, <1>4, <1>5, <1>6, <1>7, <1>8, <1>9, <1>10, <1>11, <1>12,
       <1>13, <1>14, <1>15, <1>16 DEF Next, JobStep, Damage, Merge, vars

LEMMA LeaseInit == Init => LeaseInv
BY TypeInit DEF Init, LeaseInv, LegalJob, Unstarted

\* Every push that can still land was legal for the pair it is leased on, and
\* every job expects what a legal step would leave.
THEOREM LeaseInvariant == Spec => []LeaseInv
<1> QED
    BY LeaseInit, LeaseStep, PTL DEF Spec

\* Only the git server moves the pair, and what happens outside.
LEMMA OnlyApplyMoves ==
    ASSUME TypeOK, [Next]_vars, Untouched, slots' # slots
    PROVE  \E p \in wire : Apply(p)
<1>1. ASSUME NEW j \in Jobs, JobStep(j) PROVE slots' = slots
    BY <1>1 DEF JobStep, Start, ProbeCurrent, ProbePrevious, Repair, FullValidate, Promote,
       Build, Rotate, Assemble, Resend, Confirm, Fail
<1>2. ASSUME NEW p \in wire, Refuse(p) \/ Lose(p) PROVE slots' = slots
    BY <1>2 DEF Refuse, Lose
<1>3. ASSUME NEW slot, NEW s, Damage(slot, s) PROVE FALSE
    BY <1>3 DEF Damage, Untouched, TypeOK
<1>4. ASSUME NEW workflows, Merge(workflows) PROVE slots' = slots
    BY <1>4 DEF Merge
<1> QED
    BY <1>1, <1>2, <1>3, <1>4 DEF Next, vars

LEMMA ReplacesItsBase ==
    ASSUME LeaseInv, [Next]_vars, Untouched, slots'.current # slots.current,
           slots'.current # slots.previous
    PROVE  /\ slots'.current.base = slots.current.id
           /\ slots'.previous = IF slots.current = Absent
                                THEN slots'.current ELSE slots.current
<1>1. PICK p \in wire : Apply(p)
    BY OnlyApplyMoves DEF LeaseInv
<1>2. LegalPush(p) /\ slots = p.lease /\ slots' = p.new
    BY <1>1 DEF LeaseInv, Apply, LeaseHolds
<1> QED
    BY <1>2 DEF LegalPush, Both

\* With or without the lock, no job's update is lost.
THEOREM UpdatesBuildOnReplaced == Spec => BuildsOnReplaced
<1>1. LeaseInv /\ [Next]_vars =>
        [Untouched /\ slots'.current # slots.current /\ slots'.current.id \in Jobs
          /\ slots'.current # slots.previous
             => /\ slots'.current.base = slots.current.id
                /\ slots'.previous = IF slots.current = Absent
                                     THEN slots'.current ELSE slots.current]_vars
    BY ReplacesItsBase
<1> QED
    BY <1>1, LeaseInvariant, PTL DEF Spec, BuildsOnReplaced
----------------------------------------------------------------------------
(* What becomes of a superseded job *)

\* A legal push brings no state of j into the pair, unless it is j's rotation.
LEMMA NobodyElseCarries ==
    ASSUME NEW p, LegalPush(p), NEW j, Holds(p.new, j), ~Holds(p.lease, j)
    PROVE  p.by = j /\ p.rotates
BY DEF LegalPush, Holds, Both

LEMMA OwnUpdate ==
    ASSUME TypeOK, \A k \in Jobs : Owns(k, job[k]), NEW j \in Jobs, NEW x, Owns(j, x),
           job' = [job EXCEPT ![j] = x], slots' = slots,
           wire' \subseteq wire
    PROVE  (\A k \in Jobs : Owns(k, job[k]))'
<1> SUFFICES ASSUME NEW k \in Jobs PROVE Owns(k, job[k])'
    OBVIOUS
<1>1. job'[k] = IF k = j THEN x ELSE job[k]
    BY DEF TypeOK
<1>2. Owns(k, job'[k])
    BY <1>1
<1>3. Offers(k)' \subseteq Offers(k)
    BY DEF Offers
<1> QED
    BY <1>2, <1>3 DEF Owns

\* The step of a job that sends p, or sends it again, in a stage that fits p.
LEMMA OwnSend ==
    ASSUME TypeOK, \A k \in Jobs : Owns(k, job[k]), NEW j \in Jobs, NEW p, NEW n,
           p # NoPush, p.by = j, p.rotates <=> job[j].stage = "rotating",
           job[j].push \in {NoPush, p}, job[j].stage \in Pushing,
           job' = [job EXCEPT ![j] = [job[j] EXCEPT !.push = p, !.resends = n]],
           slots' = slots,
           \A q \in wire' : q \in wire \/ q = p
    PROVE  (\A k \in Jobs : Owns(k, job[k]))'
<1> DEFINE x == [job[j] EXCEPT !.push = p, !.resends = n]
<1>1. job[j] \in JobRecord
    BY DEF TypeOK
<1>2. x.push = p /\ x.stage = job[j].stage /\ x.saw = job[j].saw
    BY <1>1 DEF JobRecord
<1>3. \A k \in Jobs : job'[k] = IF k = j THEN x ELSE job[k]
    BY DEF TypeOK
<1> HIDE DEF x
<1>4. ASSUME NEW k \in Jobs, k # j PROVE Owns(k, job[k])'
  <2>1. Offers(k)' \subseteq Offers(k)
    BY <1>4 DEF Offers
  <2> QED
    BY <1>3, <1>4, <2>1 DEF Owns
<1>5. Owns(j, job[j])'
  <2>1. Offers(j)' \subseteq Offers(j) \cup {p}
    BY DEF Offers
  <2>2. CASE job[j].stage = "rotating"
    <3>1. Offers(j) \subseteq {p}
      BY <2>2 DEF Owns, Unsent
    <3>2. ~Unsent(x) /\ ~Holds(x.saw, j)
      BY <1>2, <2>2 DEF Owns, Unsent
    <3> QED
      BY <1>2, <1>3, <2>1, <2>2, <3>1, <3>2 DEF Owns, Unsent
  <2>3. CASE job[j].stage # "rotating"
    <3>1. Offers(j)' \subseteq Offers(j)
      BY <2>3 DEF Offers
    <3>2. Unsent(job[j])
      BY <2>3 DEF Unsent, Pushing
    <3>3. Offers(j) = {} /\ ~Holds(slots, j) /\ ~Holds(x.saw, j)
      BY <1>2, <2>3, <3>2 DEF Owns, Unsent
    <3> QED
      BY <1>2, <1>3, <2>3, <3>1, <3>3 DEF Owns, Unsent
  <2> QED
    BY <2>2, <2>3
<1> QED
    BY <1>4, <1>5

LEMMA CandidateStep ==
    ASSUME CandidateInv, [Next]_vars
    PROVE  CandidateInv'
<1> DEFINE Own == \A k \in Jobs : Owns(k, job[k])
<1> SUFFICES Own'
    BY LeaseStep DEF CandidateInv
<1>0. /\ LeaseInv /\ TypeOK /\ Own
      /\ \A j \in Jobs : /\ job[j] \in JobRecord
                         /\ LegalRecord(j, job[j])
                         /\ Owns(j, job[j])
    BY DEF CandidateInv, LeaseInv, TypeOK, LegalJob, LegalRecord
<1>1. ASSUME NEW j \in Jobs, Start(j) PROVE Own'
  <2> DEFINE x == [job[j] EXCEPT !.stage = "probing", !.code = main]
  <2>1. job' = [job EXCEPT ![j] = x] /\ UNCHANGED <<slots, wire>>
    BY <1>1 DEF Start
  <2>2. Owns(j, x)
    BY <1>1, <1>0 DEF Start, Owns, Unsent, JobRecord, LegalRecord, Pushing
  <2> HIDE DEF x
  <2> QED
    BY <1>0, <2>1, <2>2, OwnUpdate
<1>2. ASSUME NEW j \in Jobs, ProbeCurrent(j) PROVE Own'
  <2> DEFINE x == [job[j] EXCEPT !.stage = "probed", !.saw.current = slots.current]
  <2>1. job' = [job EXCEPT ![j] = x] /\ UNCHANGED <<slots, wire>>
    BY <1>2 DEF ProbeCurrent
  <2>2. job[j].push = NoPush /\ Unsent(job[j])
    BY <1>2, <1>0 DEF ProbeCurrent, LegalRecord, Pushing, Unsent
  <2>3. ~Holds(slots, j) /\ ~Holds(job[j].saw, j) /\ Offers(j) = {}
    BY <1>0, <2>2 DEF Owns, Unsent
  <2>4. Owns(j, x)
    BY <1>0, <2>2, <2>3 DEF Owns, Holds, JobRecord, Pair
  <2> HIDE DEF x
  <2> QED
    BY <1>0, <2>1, <2>4, OwnUpdate
<1>3. ASSUME NEW j \in Jobs, ProbePrevious(j) PROVE Own'
  <2> DEFINE saw == [job[j].saw EXCEPT !.previous = slots.previous]
  <2>1. PICK st \in Stages \ {"rotating"} :
             job' = [job EXCEPT ![j] = [job[j] EXCEPT !.stage = st, !.saw = saw]]
          \/ job' = [job EXCEPT ![j] = [job[j] EXCEPT !.stage = st]]
    BY <1>3 DEF ProbePrevious, Stages
  <2>2. job[j].push = NoPush /\ Unsent(job[j])
    BY <1>3, <1>0 DEF ProbePrevious, LegalRecord, Pushing, Unsent
  <2>3. ~Holds(slots, j) /\ ~Holds(job[j].saw, j) /\ Offers(j) = {}
    BY <1>0, <2>2 DEF Owns, Unsent
  <2>4. ~Holds(saw, j)
    BY <1>0, <2>3 DEF Holds, JobRecord, Pair
  <2> HIDE DEF saw
  <2>5. Owns(j, [job[j] EXCEPT !.stage = st, !.saw = saw])
    BY <1>0, <2>2, <2>3, <2>4 DEF Owns, JobRecord
  <2>6. Owns(j, [job[j] EXCEPT !.stage = st])
    BY <1>0, <2>2, <2>3 DEF Owns, JobRecord
  <2>7. UNCHANGED <<slots, wire>>
    BY <1>3 DEF ProbePrevious
  <2> QED
    BY <1>0, <2>1, <2>5, <2>6, <2>7, OwnUpdate
<1>4. ASSUME NEW j \in Jobs, NEW st \in Stages \ {"done", "failed"}, Unsent(job[j]),
             job[j].push = NoPush,
             \E c : job' = [job EXCEPT ![j] = [job[j] EXCEPT !.stage = st,
                                                            !.candidate = c]],
             UNCHANGED <<slots, wire>>
      PROVE  Own'
  <2>1. PICK c : job' = [job EXCEPT ![j] = [job[j] EXCEPT !.stage = st, !.candidate = c]]
    BY <1>4
  <2>2. ~Holds(slots, j) /\ ~Holds(job[j].saw, j) /\ Offers(j) = {}
    BY <1>0, <1>4 DEF Owns, Unsent
  <2>3. Owns(j, [job[j] EXCEPT !.stage = st, !.candidate = c])
    BY <1>0, <1>4, <2>2 DEF Owns, JobRecord
  <2> QED
    BY <1>0, <1>4, <2>1, <2>3, OwnUpdate
<1>5. ASSUME NEW j \in Jobs, NEW st \in Stages \ {"failed", "rotating"}, Unsent(job[j]),
             job[j].push = NoPush,
             job' = [job EXCEPT ![j] = [job[j] EXCEPT !.stage = st]],
             UNCHANGED <<slots, wire>>
      PROVE  Own'
  <2>1. ~Holds(slots, j) /\ ~Holds(job[j].saw, j) /\ Offers(j) = {}
    BY <1>0, <1>5 DEF Owns, Unsent
  <2>2. Owns(j, [job[j] EXCEPT !.stage = st])
    BY <1>0, <1>5, <2>1 DEF Owns, JobRecord
  <2> QED
    BY <1>0, <1>5, <2>2, OwnUpdate
<1>6. ASSUME NEW j \in Jobs, NEW rotates \in BOOLEAN, NEW new, Send(j, rotates, new),
             Idle(j), job[j].stage \in Pushing,
             rotates <=> job[j].stage = "rotating", UNCHANGED slots
      PROVE  Own'
  <2> DEFINE p == [by |-> j, rotates |-> rotates, lease |-> job[j].saw, new |-> new]
  <2>1. /\ wire' = wire \cup {p}
        /\ job' = [job EXCEPT ![j] = [job[j] EXCEPT !.push = p, !.resends = PushRetries]]
    BY <1>6 DEF Send
  <2>2. p.by = j /\ p.rotates = rotates /\ p # NoPush
    BY DEF NoPush
  <2>3. job[j].push = NoPush
    BY <1>6 DEF Idle
  <2> HIDE DEF p
  <2> QED
    BY <1>0, <1>6, <2>1, <2>2, <2>3, OwnSend
<1>7. ASSUME NEW j \in Jobs, Repair(j) PROVE Own'
  <2>1. job[j].push = NoPush /\ Unsent(job[j])
    BY <1>7, <1>0 DEF Repair, Idle, Unsent
  <2>2. CASE job' = [job EXCEPT ![j].stage = "validating"] /\ UNCHANGED wire
    BY <1>5, <1>7, <2>1, <2>2 DEF Repair, Stages
  <2>3. CASE Send(j, FALSE, Both(Survivor(j)))
    BY <1>6, <1>7, <2>3 DEF Repair, Pushing
  <2> QED
    BY <1>7, <2>2, <2>3 DEF Repair
<1>8. ASSUME NEW j \in Jobs, FullValidate(j) PROVE Own'
  <2>1. PICK st \in {"building", "assembling", "promoting"} :
          job' = [job EXCEPT ![j] = [job[j] EXCEPT !.stage = st]]
    BY <1>8 DEF FullValidate, Restored
  <2>2. job[j].push = NoPush /\ Unsent(job[j])
    BY <1>8, <1>0 DEF FullValidate, LegalRecord, Pushing, Unsent
  <2> QED
    BY <1>5, <1>8, <2>1, <2>2 DEF FullValidate, Stages
<1>9. ASSUME NEW j \in Jobs, Promote(j) PROVE Own'
    BY <1>6, <1>9 DEF Promote, Pushing
<1>10. ASSUME NEW j \in Jobs, NEW grade, Build(j, grade) PROVE Own'
  <2>1. job[j].push = NoPush /\ Unsent(job[j])
    BY <1>10, <1>0 DEF Build, LegalRecord, Pushing, Unsent
  <2> QED
    BY <1>4, <1>10, <2>1 DEF Build, Stages
<1>11. ASSUME NEW j \in Jobs, Rotate(j) PROVE Own'
  <2>1. job[j].push = NoPush /\ Unsent(job[j])
    BY <1>11, <1>0 DEF Rotate, Idle, Unsent
  <2>2. CASE job' = [job EXCEPT ![j].stage = "superseded"] /\ UNCHANGED wire
    BY <1>5, <1>11, <2>1, <2>2 DEF Rotate, Stages
  <2>3. CASE Send(j, TRUE, NewPair(j))
    BY <1>6, <1>11, <2>3 DEF Rotate, Pushing
  <2> QED
    BY <1>11, <2>2, <2>3 DEF Rotate
<1>12. ASSUME NEW j \in Jobs, Assemble(j) PROVE Own'
  <2>1. PICK st \in {"done", "reverting"} :
          job' = [job EXCEPT ![j] = [job[j] EXCEPT !.stage = st]]
    BY <1>12 DEF Assemble
  <2>2. job[j].push = NoPush /\ Unsent(job[j])
    BY <1>12, <1>0 DEF Assemble, LegalRecord, Pushing, Unsent
  <2> QED
    BY <1>5, <1>12, <2>1, <2>2 DEF Assemble, Stages
<1>13. ASSUME NEW j \in Jobs, Resend(j) PROVE Own'
  <2> DEFINE p == job[j].push
  <2>1. p # NoPush /\ p.by = j /\ (p.rotates <=> job[j].stage = "rotating")
        /\ job[j].stage \in Pushing
    BY <1>0, <1>13 DEF Resend, Idle, LegalRecord, Owns
  <2>2. PICK n : job' = [job EXCEPT ![j] = [job[j] EXCEPT !.resends = n]]
    BY <1>13 DEF Resend
  <2>3. [job[j] EXCEPT !.resends = n] = [job[j] EXCEPT !.push = p, !.resends = n]
    BY <1>0 DEF JobRecord
  <2>4. slots' = slots /\ \A q \in wire' : q \in wire \/ q = p
    BY <1>13 DEF Resend
  <2> QED
    BY <1>0, <2>1, <2>2, <2>3, <2>4, OwnSend
<1>14. ASSUME NEW j \in Jobs, Confirm(j) PROVE Own'
  <2>1. PICK st \in {"validating", "building", "assembling", "done"} :
          /\ job' = [job EXCEPT ![j] = [job[j] EXCEPT !.push = NoPush, !.resends = 0,
                                                    !.saw = slots, !.stage = st]]
          /\ st # "done" => job[j].stage \in {"repairing", "promoting"}
    BY <1>14 DEF Confirm, Restored, Stages
  <2>2. st # "done" => ~Holds(slots, j) /\ Offers(j) = {}
    BY <1>0, <2>1 DEF Owns, Unsent
  <2>3. Owns(j, [job[j] EXCEPT !.push = NoPush, !.resends = 0, !.saw = slots,
                               !.stage = st])
    BY <1>0, <2>2 DEF Owns, Unsent, JobRecord
  <2> QED
    BY <1>0, <1>14, <2>1, <2>3, OwnUpdate DEF Confirm
<1>15. ASSUME NEW j \in Jobs, Fail(j) PROVE Own'
  <2> DEFINE x == [job[j] EXCEPT !.stage = "failed", !.push = NoPush, !.resends = 0]
  <2>1. job' = [job EXCEPT ![j] = x] /\ UNCHANGED <<slots, wire>>
    BY <1>15 DEF Fail, FailedStage
  <2>2. Owns(j, x)
    BY <1>0 DEF Owns, Unsent, JobRecord
  <2> HIDE DEF x
  <2> QED
    BY <1>0, <2>1, <2>2, OwnUpdate
<1>16. ASSUME NEW p \in wire, Apply(p) PROVE Own'
  <2>1. p.lease = slots /\ slots' = p.new /\ wire' \subseteq wire /\ job' = job
    BY <1>16 DEF Apply, LeaseHolds
  <2>2. ASSUME NEW k \in Jobs PROVE Owns(k, job[k])'
    <3>1. Offers(k)' \subseteq Offers(k)
      BY <2>1 DEF Offers
    <3>2. Unsent(job[k]) => ~Holds(p.new, k)
      BY <1>0, <2>1, NobodyElseCarries DEF LeaseInv, Owns, Offers
    <3> QED
      BY <1>0, <2>1, <3>1, <3>2 DEF Owns
  <2> QED
    BY <2>2
<1>17. ASSUME NEW p \in wire, Refuse(p) PROVE Own'
  <2>1. /\ p.lease = slots /\ p.rotates /\ p.by \in Jobs
        /\ wire' = wire \ {p} /\ slots' = slots
    BY <1>0, <1>17 DEF Refuse, LeaseHolds, Admitted, TypeOK, Push
  <2>2. CASE job[p.by].push = p
    <3> DEFINE j == p.by
               x == [job[j] EXCEPT !.stage = "superseded", !.push = NoPush, !.resends = 0]
    <3>0. j \in Jobs
      BY <2>1
    <3>1. p # NoPush
      BY <1>0 DEF TypeOK, Push, NoPush
    <3>2. job[j].stage = "rotating" /\ p.lease = job[j].saw
      BY <1>0, <2>1, <2>2, <3>1 DEF Owns, LegalRecord
    <3>3. Offers(j)' = {}
      BY <1>0, <2>1, <2>2, <3>2 DEF Owns, Offers
    <3>4. ~Holds(slots, j)
      BY <1>0, <2>1, <3>2 DEF Owns
    <3>5. job' = [job EXCEPT ![j] = x]
      BY <1>17, <2>2 DEF Refuse
    <3>6. x.stage = "superseded" /\ x.push = NoPush /\ x.saw = slots
      BY <1>0, <2>1, <3>2 DEF JobRecord
    <3>7. \A k \in Jobs : job'[k] = IF k = j THEN x ELSE job[k]
      BY <1>0, <3>5 DEF TypeOK
    <3> HIDE DEF j, x
    <3>8. Owns(j, job[j])'
      <4>1. /\ job'[j].stage = "superseded" /\ job'[j].push = NoPush
            /\ ~Holds(job'[j].saw, j) /\ ~Holds(slots', j)
        BY <2>1, <3>0, <3>4, <3>6, <3>7
      <4> QED
        BY <3>3, <4>1 DEF Owns
    <3>9. ASSUME NEW k \in Jobs, k # j PROVE Owns(k, job[k])'
      <4>1. Offers(k)' \subseteq Offers(k)
        BY <2>1 DEF Offers
      <4> QED
        BY <1>0, <2>1, <3>7, <3>9, <4>1 DEF Owns
    <3>10. ASSUME NEW k \in Jobs PROVE Owns(k, job[k])'
      <4>1. CASE k = j
        BY <3>8, <4>1
      <4> QED
        BY <3>9, <4>1
    <3> QED
      BY <3>10
  <2>3. CASE job[p.by].push # p
    <3>1. \A k \in Jobs : Offers(k)' \subseteq Offers(k)
      BY <2>1 DEF Offers
    <3>2. job' = job
      BY <1>17, <2>3 DEF Refuse
    <3> QED
      BY <1>0, <2>1, <3>1, <3>2 DEF Owns
  <2> QED
    BY <2>2, <2>3
<1>18. ASSUME NEW p \in wire, Lose(p) PROVE Own'
  <2>1. \A k \in Jobs : Offers(k)' \subseteq Offers(k)
    BY <1>18 DEF Lose, Offers
  <2> QED
    BY <1>0, <1>18, <2>1 DEF Lose, Owns
<1>19. ASSUME NEW slot \in {"current", "previous"}, NEW s \in Damaged \cup {Absent},
              Damage(slot, s)
       PROVE  Own'
  <2>1. \A k \in Jobs : s.id # k
    BY SlotsAssumption DEF Damaged, Absent
  <2>2. \A k \in Jobs : Holds(slots', k) => Holds(slots, k)
    BY <1>0, <1>19, <2>1 DEF Damage, Holds, TypeOK, Pair
  <2>3. \A k \in Jobs : Offers(k)' = Offers(k)
    BY <1>19 DEF Damage, Offers
  <2> QED
    BY <1>0, <1>19, <2>2, <2>3 DEF Damage, Owns
<1>20. ASSUME UNCHANGED <<slots, wire, job>> PROVE Own'
    BY <1>0, <1>20 DEF Owns, Offers
<1> QED
    BY <1>1, <1>2, <1>3, <1>7, <1>8, <1>9, <1>10, <1>11, <1>12, <1>13, <1>14, <1>15,
       <1>16, <1>17, <1>18, <1>19, <1>20 DEF Next, JobStep, Merge, vars

LEMMA CandidateInit == Init => CandidateInv
<1> SUFFICES ASSUME Init PROVE CandidateInv
    OBVIOUS
<1>1. wire = {} /\ \A j \in Jobs : \E kind : job[j] = Unstarted(kind)
    BY DEF Init
<1>2. \A j \in Jobs : ~Holds(slots, j) /\ ~Holds(NoPair, j)
    BY SlotsAssumption DEF Init, Holds, NoPair, Absent
<1>3. ASSUME NEW j \in Jobs PROVE Owns(j, job[j])
  <2>0. PICK kind : job[j] = Unstarted(kind)
    BY <1>1
  <2>1. job[j].stage = "unstarted" /\ job[j].push = NoPush /\ job[j].saw = NoPair
    BY <2>0 DEF Unstarted
  <2> QED
    BY <1>1, <1>2, <2>1 DEF Owns, Offers
<1> QED
    BY <1>3, LeaseInit DEF CandidateInv

\* A candidate is in no pair and on no wire before its job sends it, and the
\* refusal that makes a job superseded leaves it nowhere.
THEOREM CandidateInvariant == Spec => []CandidateInv
<1> QED
    BY CandidateInit, CandidateStep, PTL DEF Spec

\* With or without the lock, a job that reports that it was superseded has
\* published nothing and never will.
THEOREM SupersededIsSafe == Spec => []SupersededMovedNothing
<1>1. CandidateInv => SupersededMovedNothing
    BY DEF CandidateInv, Owns, Unsent, Holds, SupersededMovedNothing
<1> QED
    BY <1>1, CandidateInvariant, PTL
----------------------------------------------------------------------------
(* What the lock gives *)

\* The step of a job that sends nothing.
LEMMA LockUpdate ==
    ASSUME TypeOK, LockInv, NEW j \in Jobs, NEW x, Locked(x),
           IsRunning(x) => IsRunning(job[j]),
           job' = [job EXCEPT ![j] = x], UNCHANGED <<slots, wire, main>>
    PROVE  LockInv'
<1>1. \A k \in Jobs : job'[k] = IF k = j THEN x ELSE job[k]
    BY DEF TypeOK
<1>2. \A k \in Jobs : Locked(job'[k])
    BY <1>1 DEF LockInv
<1>3. \A k \in Jobs : Locked(job[k])'
    BY <1>2 DEF Locked
<1>4. \A k, l \in Jobs : IsRunning(job'[k]) /\ IsRunning(job'[l]) => k = l
    BY <1>1 DEF LockInv
<1> QED
    BY <1>3, <1>4 DEF LockInv

\* The step of a running job that sends p, or sends it again.
LEMMA LockSend ==
    ASSUME TypeOK, LockInv, NEW j \in Jobs, IsRunning(job[j]), NEW p, NEW n,
           SafePush(p), UpTo(p.new, job[j].code.version), p # NoPush,
           p.new.current.code.version \in Nat, p.new.previous.code.version \in Nat,
           \A q \in wire' : q \in wire \/ q = p,
           job' = [job EXCEPT ![j] = [job[j] EXCEPT !.push = p, !.resends = n]],
           UNCHANGED <<slots, main>>
    PROVE  LockInv'
<1> DEFINE x == [job[j] EXCEPT !.push = p, !.resends = n]
<1>0. job[j] \in JobRecord /\ main \in Code /\ job[j].code \in Code
    BY DEF TypeOK, JobRecord
<1>1. /\ x.code = job[j].code /\ x.saw = job[j].saw /\ x.stage = job[j].stage
      /\ x.push = p
    BY <1>0 DEF JobRecord
<1>2. \A k \in Jobs : job'[k] = IF k = j THEN x ELSE job[k]
    BY DEF TypeOK
<1> HIDE DEF x
<1>3. UpTo(p.new, main.version)
    BY <1>0 DEF LockInv, Locked, UpTo, Code
<1>4. Locked(job[j])'
    BY <1>1, <1>2 DEF LockInv, Locked, IsRunning
<1>5. \A k \in Jobs : IsRunning(job'[k]) = IsRunning(job[k])
    BY <1>1, <1>2 DEF IsRunning
<1>6. ASSUME NEW k \in Jobs, k # j PROVE Locked(job[k])'
  <2>1. job'[k] = job[k] /\ ~IsRunning(job[k])
    BY <1>2, <1>6 DEF LockInv
  <2> QED
    BY <2>1 DEF LockInv, Locked
<1>7. \A k \in Jobs : Locked(job[k])'
    BY <1>4, <1>6
<1>8. \A q \in wire' : SafePush(q) /\ UpTo(q.new, main.version)
    BY <1>3 DEF LockInv
<1> QED
    BY <1>5, <1>7, <1>8 DEF LockInv
LEMMA VersionsAreNat ==
    ASSUME TypeOK
    PROVE  /\ main.version \in Nat
           /\ \A pair \in Pair : /\ pair.current.code.version \in Nat
                                 /\ pair.previous.code.version \in Nat
           /\ \A j \in Jobs : job[j].code.version \in Nat /\ job[j].saw \in Pair
           /\ slots \in Pair
           /\ \A p \in Push : p.new \in Pair /\ p # NoPush
BY DEF TypeOK, Code, Pair, State, JobRecord, Push, NoPush

LEMMA LockStep ==
    ASSUME Exclusive, LeaseInv, LockInv, [Next]_vars
    PROVE  LockInv'
<1> USE DEF LeaseInv
<1>0. \A j \in Jobs : /\ job[j] \in JobRecord
                      /\ LegalRecord(j, job[j])
                      /\ Locked(job[j])
    BY DEF TypeOK, LegalJob, LegalRecord, LockInv
<1>1. ASSUME NEW j \in Jobs, Start(j) PROVE LockInv'
  <2> DEFINE x == [job[j] EXCEPT !.stage = "probing", !.code = main]
  <2>1. job' = [job EXCEPT ![j] = x] /\ UNCHANGED <<slots, wire, main>>
    BY <1>1 DEF Start
  <2>2. \A k \in Jobs : ~IsRunning(job[k])
    BY <1>1 DEF Start, Running, IsRunning
  <2>3. x.code = main /\ x.stage = "probing" /\ x.saw = job[j].saw /\ x.push = NoPush
    BY <1>0, <2>2 DEF JobRecord, Locked
  <2>4. \A k \in Jobs : job'[k] = IF k = j THEN x ELSE job[k]
    BY <2>1 DEF TypeOK
  <2> HIDE DEF x
  <2>5. Locked(job[j])'
    BY <1>0, <2>1, <2>3, <2>4, VersionsAreNat DEF LockInv, Locked
  <2>6. ASSUME NEW k \in Jobs, k # j PROVE Locked(job[k])'
    BY <1>0, <2>1, <2>2, <2>4, <2>6 DEF Locked
  <2> QED
    BY <2>1, <2>2, <2>4, <2>5, <2>6 DEF LockInv
<1>2. ASSUME NEW j \in Jobs, ProbeCurrent(j) PROVE LockInv'
  <2> DEFINE x == [job[j] EXCEPT !.stage = "probed", !.saw.current = slots.current]
  <2>1. job' = [job EXCEPT ![j] = x] /\ UNCHANGED <<slots, wire, main>>
    BY <1>2 DEF ProbeCurrent
  <2>2. /\ x.code = job[j].code /\ x.stage = "probed" /\ x.push = job[j].push
        /\ x.saw.current = slots.current /\ x.saw.previous = job[j].saw.previous
        /\ IsRunning(job[j]) /\ job[j].push = NoPush
    BY <1>2, <1>0 DEF ProbeCurrent, JobRecord, Pair, IsRunning, LegalRecord, Pushing
  <2> HIDE DEF x
  <2>3. Locked(x)
    BY <1>0, <2>2 DEF LockInv, Locked, UpTo
  <2> QED
    BY <2>1, <2>2, <2>3, LockUpdate
<1>3. ASSUME NEW j \in Jobs, ProbePrevious(j) PROVE LockInv'
  <2> DEFINE saw == [job[j].saw EXCEPT !.previous = slots.previous]
  <2>1. PICK st \in {"building", "failed", "repairing"} :
             job' = [job EXCEPT ![j] = [job[j] EXCEPT !.stage = st, !.saw = saw]]
          \/ job' = [job EXCEPT ![j] = [job[j] EXCEPT !.stage = st]]
    BY <1>3 DEF ProbePrevious
  <2>2. /\ job[j].push = NoPush /\ IsRunning(job[j])
        /\ saw.current = job[j].saw.current /\ saw.previous = slots.previous
    BY <1>3, <1>0 DEF ProbePrevious, LegalRecord, Pushing, IsRunning, JobRecord, Pair
  <2> HIDE DEF saw
  <2>3. Locked([job[j] EXCEPT !.stage = st, !.saw = saw])
    BY <1>0, <2>2 DEF JobRecord, LockInv, Locked, UpTo
  <2>4. Locked([job[j] EXCEPT !.stage = st])
    BY <1>0, <2>2 DEF JobRecord, Locked
  <2> QED
    BY <1>3, <2>1, <2>2, <2>3, <2>4, LockUpdate DEF ProbePrevious
<1>4. ASSUME NEW j \in Jobs, Repair(j) PROVE LockInv'
  <2>0. IsRunning(job[j]) /\ job[j].push = NoPush
    BY <1>4 DEF Repair, IsRunning, Idle
  <2>1. CASE job' = [job EXCEPT ![j].stage = "validating"] /\ UNCHANGED wire
    <3> DEFINE x == [job[j] EXCEPT !.stage = "validating"]
    <3>1. Locked(x)
      BY <2>0, <1>0 DEF Locked, IsRunning, JobRecord
    <3> HIDE DEF x
    <3>2. job' = [job EXCEPT ![j] = x]
      BY <2>1 DEF x
    <3> QED
      BY <1>4, <2>0, <2>1, <3>1, <3>2, LockUpdate DEF Repair
  <2>2. CASE /\ \E s \in {"current", "previous"} : ~Proven(j, job[j].saw[s])
             /\ Proven(j, Survivor(j))
             /\ Send(j, FALSE, Both(Survivor(j)))
    <3> DEFINE p == [by |-> j, rotates |-> FALSE, lease |-> job[j].saw,
                     new |-> Both(Survivor(j))]
    <3>1. /\ p.lease = job[j].saw /\ p.new = Both(Survivor(j))
          /\ UpTo(job[j].saw, job[j].code.version)
      BY <1>0, <2>0 DEF Locked
    <3>2. Survivor(j) \in State /\ Both(Survivor(j)) \in Pair
      BY <1>0, BothIsPair DEF Survivor, JobRecord, Pair
    <3>3. p \in Push
      BY <1>0, <3>2 DEF Push, JobRecord
    <3>4. job' = [job EXCEPT ![j] = [job[j] EXCEPT !.push = p, !.resends = PushRetries]]
          /\ wire' = wire \cup {p}
      BY <2>2 DEF Send
    <3> HIDE DEF p
    <3>5. SafePush(p) /\ UpTo(p.new, job[j].code.version)
      <4>1. job[j].saw.current.grade \in Nat /\ job[j].saw.previous.grade \in Nat
        BY <1>0 DEF JobRecord, Pair, State, Grades
      <4> QED
        BY <2>2, <3>1, <4>1 DEF SafePush, UpTo, Survivor, Proven, Both, Valid,
           MetadataValid, FullyValid, Deployable
    <3> QED
      BY <1>4, <2>0, <3>3, <3>4, <3>5, LockSend, VersionsAreNat DEF Repair
  <2> QED
    BY <1>4, <2>1, <2>2 DEF Repair
<1>5. ASSUME NEW j \in Jobs, FullValidate(j) PROVE LockInv'
  <2>1. PICK st \in {"building", "assembling", "promoting"} :
          /\ job' = [job EXCEPT ![j] = [job[j] EXCEPT !.stage = st]]
          /\ st = "promoting" => ~Valid(job[j].saw.current) /\ Valid(job[j].saw.previous)
    BY <1>5 DEF FullValidate, Restored
  <2>2. IsRunning(job[j]) /\ job[j].push = NoPush
    BY <1>5, <1>0 DEF FullValidate, IsRunning, LegalRecord, Pushing
  <2>3. Locked([job[j] EXCEPT !.stage = st])
    BY <1>0, <2>1, <2>2 DEF Locked, IsRunning, JobRecord
  <2> QED
    BY <1>5, <2>1, <2>2, <2>3, LockUpdate DEF FullValidate
<1>6. ASSUME NEW j \in Jobs, Promote(j) PROVE LockInv'
  <2> DEFINE p == [by |-> j, rotates |-> FALSE, lease |-> job[j].saw,
                   new |-> Both(job[j].saw.previous)]
  <2>1. /\ p.lease = job[j].saw /\ p.new = Both(job[j].saw.previous)
        /\ IsRunning(job[j])
    BY <1>6 DEF Promote, IsRunning
  <2>2. job[j].saw.previous \in State /\ job[j].saw \in Pair
    BY <1>0 DEF JobRecord, Pair
  <2>3. p \in Push
    BY <2>2, BothIsPair DEF Push
  <2>4. job' = [job EXCEPT ![j] = [job[j] EXCEPT !.push = p, !.resends = PushRetries]]
        /\ wire' = wire \cup {p}
    BY <1>6 DEF Promote, Send
  <2> HIDE DEF p
  <2>5. SafePush(p) /\ UpTo(p.new, job[j].code.version)
    BY <1>6, <1>0, <2>1 DEF Promote, Locked, SafePush, UpTo, Both, Valid, FullyValid,
       Deployable
  <2> QED
    BY <1>6, <2>1, <2>3, <2>4, <2>5, LockSend, VersionsAreNat DEF Promote
<1>7. ASSUME NEW j \in Jobs, NEW grade \in {FullyValid, Deployable}, Build(j, grade)
      PROVE  LockInv'
  <2> DEFINE c == [id |-> j, base |-> job[j].saw.current.id, grade |-> grade,
                   code |-> job[j].code]
             x == [job[j] EXCEPT !.stage = "rotating", !.candidate = c]
  <2>1. job' = [job EXCEPT ![j] = x] /\ UNCHANGED <<slots, wire, main>>
    BY <1>7 DEF Build
  <2> HIDE DEF c
  <2>2. IsRunning(job[j]) /\ job[j].push = NoPush
    BY <1>7, <1>0 DEF Build, IsRunning, LegalRecord, Pushing
  <2>3. Locked(x)
    BY <1>0, <2>2 DEF Locked, IsRunning, JobRecord
  <2> HIDE DEF x
  <2> QED
    BY <2>1, <2>2, <2>3, LockUpdate
<1>8. ASSUME NEW j \in Jobs, Rotate(j) PROVE LockInv'
  <2>0. IsRunning(job[j]) /\ job[j].push = NoPush
    BY <1>8 DEF Rotate, IsRunning, Idle
  <2>1. CASE job' = [job EXCEPT ![j].stage = "superseded"] /\ UNCHANGED wire
    <3> DEFINE x == [job[j] EXCEPT !.stage = "superseded"]
    <3>1. Locked(x)
      BY <2>0, <1>0 DEF Locked, IsRunning, JobRecord
    <3> HIDE DEF x
    <3>2. job' = [job EXCEPT ![j] = x]
      BY <2>1 DEF x
    <3> QED
      BY <1>8, <2>0, <2>1, <3>1, <3>2, LockUpdate DEF Rotate
  <2>2. CASE Send(j, TRUE, NewPair(j))
    <3> DEFINE p == [by |-> j, rotates |-> TRUE, lease |-> job[j].saw, new |-> NewPair(j)]
    <3>1. /\ p.lease = job[j].saw /\ p.new = NewPair(j)
          /\ UpTo(job[j].saw, job[j].code.version)
      BY <1>0, <2>0 DEF Locked
    <3>2. p \in Push
      BY <1>0 DEF NewPair, JobRecord, Pair, Push
    <3>3. job' = [job EXCEPT ![j] = [job[j] EXCEPT !.push = p, !.resends = PushRetries]]
          /\ wire' = wire \cup {p}
      BY <2>2 DEF Send
    <3> HIDE DEF p
    <3>4. /\ Valid(job[j].candidate) /\ job[j].candidate.code = job[j].code
          /\ job[j].code.version \in Nat
      BY <1>8, <1>0, VersionsAreNat DEF Rotate, LegalRecord
    <3>5. SafePush(p) /\ UpTo(p.new, job[j].code.version)
      BY <3>1, <3>4 DEF SafePush, UpTo, NewPair, Valid, Absent, FullyValid, Deployable
    <3> QED
      BY <1>8, <2>0, <3>2, <3>3, <3>5, LockSend, VersionsAreNat DEF Rotate
  <2> QED
    BY <1>8, <2>1, <2>2 DEF Rotate
<1>9. ASSUME NEW j \in Jobs, Assemble(j) PROVE LockInv'
  <2>1. PICK st \in {"done", "reverting"} :
          /\ job' = [job EXCEPT ![j] = [job[j] EXCEPT !.stage = st]]
          /\ st = "reverting" => /\ job[j].saw.current.grade # Deployable
                                 /\ job[j].saw.previous.grade = Deployable
    BY <1>9 DEF Assemble, CanRevert
  <2>2. IsRunning(job[j]) /\ job[j].push = NoPush
    BY <1>9, <1>0 DEF Assemble, IsRunning, LegalRecord, Pushing
  <2>3. Locked([job[j] EXCEPT !.stage = st])
    BY <1>0, <2>1, <2>2 DEF Locked, IsRunning, JobRecord
  <2> QED
    BY <1>9, <2>1, <2>2, <2>3, LockUpdate DEF Assemble
<1>10. ASSUME NEW j \in Jobs, Resend(j) PROVE LockInv'
  <2>1. job[j].push \in Push
    BY <1>10, <1>0 DEF Resend, Idle, JobRecord
  <2>2. /\ IsRunning(job[j]) /\ SafePush(job[j].push)
        /\ UpTo(job[j].push.new, job[j].code.version)
    BY <1>10, <1>0 DEF Resend, Idle, Locked
  <2>3. job' = [job EXCEPT ![j] = [job[j] EXCEPT !.push = job[j].push,
                                                 !.resends = job[j].resends - 1]]
    BY <1>10, <1>0 DEF Resend, JobRecord
  <2>4. \A q \in wire' : q \in wire \/ q = job[j].push
    BY <1>10 DEF Resend
  <2> QED
    BY <1>10, <2>1, <2>2, <2>3, <2>4, LockSend, VersionsAreNat DEF Resend
<1>11. ASSUME NEW j \in Jobs, Confirm(j) PROVE LockInv'
  <2>1. PICK st \in {"validating", "building", "assembling", "done"} :
          job' = [job EXCEPT ![j] = [job[j] EXCEPT !.push = NoPush, !.resends = 0,
                                                   !.saw = slots, !.stage = st]]
    BY <1>11 DEF Confirm, Restored
  <2>2. IsRunning(job[j])
    BY <1>11, <1>0 DEF Confirm, Idle, Locked
  <2>3. Locked([job[j] EXCEPT !.push = NoPush, !.resends = 0, !.saw = slots, !.stage = st])
    BY <1>0, <2>2 DEF Locked, IsRunning, JobRecord, LockInv
  <2> QED
    BY <1>11, <2>1, <2>2, <2>3, LockUpdate DEF Confirm
<1>12. ASSUME NEW j \in Jobs, Fail(j) PROVE LockInv'
  <2> DEFINE x == [job[j] EXCEPT !.stage = "failed", !.push = NoPush, !.resends = 0]
  <2>1. job' = [job EXCEPT ![j] = x]
    BY <1>12 DEF Fail, FailedStage
  <2>2. Locked(x) /\ ~IsRunning(x)
    BY <1>0 DEF Locked, IsRunning, JobRecord
  <2> HIDE DEF x
  <2> QED
    BY <1>12, <2>1, <2>2, LockUpdate DEF Fail
<1>13. ASSUME NEW p \in wire, Apply(p) PROVE LockInv'
  <2>1. \A k \in Jobs : Locked(job[k])'
    BY <1>13, <1>0 DEF Apply, Locked, LockInv
  <2> QED
    BY <1>13, <2>1 DEF Apply, LockInv
<1>14. ASSUME NEW p \in wire, Refuse(p) \/ Lose(p) PROVE LockInv'
  <2> DEFINE x == [job[p.by] EXCEPT !.stage = "superseded", !.push = NoPush, !.resends = 0]
  <2>1. p.by \in Jobs
    BY DEF Push, TypeOK
  <2>2. Locked(x) /\ ~IsRunning(x)
    BY <1>0, <2>1 DEF Locked, IsRunning, JobRecord
  <2>3. /\ job' = [job EXCEPT ![p.by] = x] \/ job' = job
        /\ wire' \subseteq wire /\ UNCHANGED <<slots, main>>
    BY <1>14 DEF Refuse, Lose
  <2>4. \A k \in Jobs : job'[k] = job[k] \/ job'[k] = x
    BY <2>1, <2>3 DEF TypeOK
  <2> HIDE DEF x
  <2>5. \A k \in Jobs : Locked(job'[k])
    BY <1>0, <2>2, <2>4
  <2>6. \A k \in Jobs : Locked(job[k])'
    BY <2>3, <2>5 DEF Locked
  <2> QED
    BY <2>2, <2>3, <2>4, <2>6 DEF LockInv
<1>15. ASSUME NEW slot \in {"current", "previous"}, NEW s \in Damaged \cup {Absent},
              Damage(slot, s)
       PROVE  LockInv'
  <2>1. slots' = [slots EXCEPT ![slot] = s] /\ UNCHANGED <<wire, main, job>>
    BY <1>15 DEF Damage
  <2>2. s.code.version = 0
    BY DEF Damaged, Absent, FirstCode
  <2>3. \A v \in Nat : UpTo(slots, v) => UpTo(slots', v)
    BY <2>1, <2>2 DEF UpTo, TypeOK, Pair
  <2>4. \A k \in Jobs : Locked(job[k])'
    BY <1>0, <2>1, <2>3, VersionsAreNat DEF Locked
  <2> QED
    BY <2>1, <2>3, <2>4, VersionsAreNat DEF LockInv
<1>16. ASSUME NEW workflows, Merge(workflows) PROVE LockInv'
  <2>1. main'.version = main.version + 1 /\ UNCHANGED <<slots, wire, job>>
    BY <1>16 DEF Merge
  <2>2. \A pair \in Pair : UpTo(pair, main.version) => UpTo(pair, main'.version)
    BY <2>1, VersionsAreNat DEF UpTo
  <2>3. \A k \in Jobs : Locked(job[k])'
    BY <1>0, <2>1, <2>2, VersionsAreNat DEF Locked
  <2> QED
    BY <2>1, <2>2, <2>3, VersionsAreNat DEF LockInv, TypeOK
<1>17. CASE UNCHANGED vars
    BY <1>17 DEF vars, LockInv, Locked
<1> QED
    BY <1>1, <1>2, <1>3, <1>4, <1>5, <1>6, <1>7, <1>8, <1>9, <1>10, <1>11, <1>12,
       <1>13, <1>14, <1>15, <1>16, <1>17 DEF Next, JobStep

LEMMA LockInit == Init => LockInv
<1> SUFFICES ASSUME Init PROVE LockInv
    OBVIOUS
<1>1. main = FirstCode /\ wire = {} /\ UpTo(slots, 0)
    BY DEF Init, UpTo, NoPair, Absent, FirstCode
<1>2. \A j \in Jobs : /\ job[j].stage = "unstarted" /\ job[j].code = FirstCode
                      /\ job[j].saw = NoPair /\ job[j].push = NoPush
    BY DEF Init, Unstarted
<1>3. UpTo(NoPair, 0)
    BY DEF UpTo, NoPair, Absent, FirstCode
<1>4. \A j \in Jobs : Locked(job[j]) /\ ~IsRunning(job[j])
    BY <1>1, <1>2, <1>3 DEF Locked, IsRunning, FirstCode
<1> QED
    BY <1>1, <1>4 DEF LockInv, FirstCode

\* Under the gh-pages-deploy lock one job works at a time, and every push that
\* can still land, of this job or of an ended one, keeps what is good.
THEOREM LockInvariant == ASSUME Exclusive PROVE Spec => [](LeaseInv /\ LockInv)
<1>1. LeaseInv /\ LockInv /\ [Next]_vars => (LeaseInv /\ LockInv)'
    BY LeaseStep, LockStep
<1> QED
    BY <1>1, LeaseInit, LockInit, PTL DEF Spec

LEMMA SafeStep ==
    ASSUME LeaseInv, LockInv, [Next]_vars, Untouched, slots' # slots
    PROVE  \E p \in wire : SafePush(p) /\ slots = p.lease /\ slots' = p.new
BY OnlyApplyMoves DEF LeaseInv, LockInv, Apply, LeaseHolds

\* Under the lock, no job destroys the last fully valid state.
THEOREM LastValidIsKept == ASSUME Exclusive PROVE Spec => LastValidKept
<1>1. LeaseInv /\ LockInv /\ [Next]_vars =>
        [Untouched /\ (\E s \in {"current", "previous"} : Valid(slots[s]))
           => \E s \in {"current", "previous"} : Valid(slots'[s])]_vars
    BY SafeStep DEF SafePush
<1> QED
    BY <1>1, LockInvariant, PTL DEF Spec, LastValidKept

\* Under the lock, a current state that can be deployed is never dropped.
THEOREM GoodCurrentIsKept == ASSUME Exclusive PROVE Spec => GoodCurrentKept
<1>1. LeaseInv /\ LockInv /\ [Next]_vars =>
        [Untouched /\ slots.current.grade = Deployable
           => slots.current \in {slots'.current, slots'.previous}]_vars
    BY SafeStep DEF SafePush
<1> QED
    BY <1>1, LockInvariant, PTL DEF Spec, GoodCurrentKept
=============================================================================
