--------------------------- MODULE AttemptLedger ---------------------------
(***************************************************************************)
(* The durable attempt ledger of request_bearing_attempt_budget.py, as the *)
(* workflows use it.  A workflow run reserves a collection attempt in a    *)
(* ledger kept on a git ref, collects, and records how the attempt ended.  *)
(* Every command reads the ref, computes a new ledger, and pushes it with  *)
(* a lease on what it read (github_write.push_refs); pushes may be lost,   *)
(* may take effect late, and their answers may be lost.  A ledger commit   *)
(* is a function of its content, so the ref is modelled by that content.   *)
(***************************************************************************)
EXTENDS Integers, FiniteSets

CONSTANTS
    Runs,               \* workflow run attempts; ids grow with their start
    Legacy,             \* attempts seeded from before the ledger existed
    Window,             \* hours a reservation is charged for
    Cap,                \* guarded attempts allowed in one window
    SuccessInterval,    \* start-to-start cadence after a success
    RetryInterval,      \* first retry backoff
    OverlapCap,         \* cap on all rows while legacy rows remain
    OverlapRuntimeCap,  \* cap on guarded rows while legacy rows remain
    Collection,         \* TRUE for the data_collection producer
    PushRetries,        \* re-sends of one push before push_refs gives up
    MarkTries,          \* times the workflow runs a mark command
    RunLimit,           \* the job timeout
    MaxConcurrent,      \* bound of the model on the jobs at work at once
    SeedTimes,          \* when the seeded attempts were reserved
    MaxClock            \* bound of the model on the clock

ASSUME LedgerAssumption ==
    /\ Runs \subseteq Int /\ Legacy \subseteq Int
    /\ Runs \cap Legacy = {}
    /\ IsFiniteSet(Runs) /\ IsFiniteSet(Legacy)
    /\ {Window, Cap, SuccessInterval, RetryInterval, OverlapCap,
         OverlapRuntimeCap, MarkTries, RunLimit} \subseteq Nat \ {0}
    /\ {PushRetries, MaxConcurrent, MaxClock} \subseteq Nat
    /\ OverlapRuntimeCap =< Cap /\ Cap =< OverlapCap
    /\ 2 * RunLimit < Window   \* 75 minutes against 25 hours
    \* 30 minutes, 2 hours and 25 hours in every policy of config/
    /\ RetryInterval =< SuccessInterval /\ SuccessInterval =< Window
    /\ SeedTimes \subseteq (1 - Window)..0
    /\ Collection \in BOOLEAN

VARIABLES
    clock,      \* the runners' common clock
    ledger,     \* the content of the ledger ref
    wire,       \* pushes sent to the git server and not yet decided
    run,        \* the progress of each workflow run
    charges     \* history: every guarded reservation the ref ever held

vars == <<clock, ledger, wire, run, charges>>

----------------------------------------------------------------------------
(* Ledgers *)

Row == [at : Int,                                   \* reserved_at
        codeChange : BOOLEAN,                       \* first attempt of a push run
        outcome : {"open", "published", "superseded"},
        evidence : {"none", "clean", "retry"},      \* what was published
        pending : BOOLEAN]                          \* inherited retry intent

\* The attempts on a ledger: a function from their ids to their rows.
IsRows(f) ==
    /\ DOMAIN f \subseteq Runs \cup Legacy
    /\ f \in [DOMAIN f -> Row]

IsLedger(l) ==
    /\ l \in [updated : Int, rows : {l.rows}]
    /\ IsRows(l.rows)

\* A push of a new ledger whose lease is the old one.
IsPush(p) ==
    /\ p \in [by : Runs, old : {p.old}, new : {p.new}]
    /\ IsLedger(p.old)
    /\ IsLedger(p.new)

NoPush == [by |-> "nobody"]

Guarded(rows) == DOMAIN rows \cap Runs

\* The guarded rows, as what the history keeps of them.
ChargesOf(rows) == {[who |-> r, at |-> rows[r].at] : r \in Guarded(rows)}

\* Mutant of Active: the window keeps the row that just left it.
ActiveInclusive(rows, now) ==
    [i \in {j \in DOMAIN rows : rows[j].at >= now - Window} |-> rows[i]]

Active(rows, now) ==
    [i \in {j \in DOMAIN rows : rows[j].at > now - Window} |-> rows[i]]

WithRow(rows, i, row) ==
    [j \in DOMAIN rows \cup {i} |-> IF j = i THEN row ELSE rows[j]]

Later(rows, i, j) ==
    \/ rows[i].at > rows[j].at
    \/ rows[i].at = rows[j].at /\ i > j

Newest(rows, ids) == CHOOSE i \in ids : \A j \in ids \ {i} : Later(rows, i, j)

OldestAt(rows, ids) ==
    rows[CHOOSE i \in ids : \A j \in ids : rows[i].at =< rows[j].at].at

Complete(row) ==
    /\ row.outcome = "published"
    /\ row.evidence # "retry"
    /\ ~row.pending

\* The collection retry a ledger still asks for.  All its rows count, the
\* expired ones too: an outage can outlast the whole accounting window.
CarriesRetry(rows) ==
    LET telling == {i \in DOMAIN rows : \/ rows[i].outcome = "published"
                                        \/ rows[i].pending}
        latest  == Newest(rows, telling)
    IN  /\ Collection
        /\ telling # {}
        /\ latest \in Runs
        /\ rows[latest].pending \/ rows[latest].evidence = "retry"

----------------------------------------------------------------------------
(* The gate: when may the next attempt be reserved? *)

\* Mutant of Gating: an attempt that has not ended does not gate the next.
GatingEnded(rows) == {i \in DOMAIN rows : rows[i].outcome = "published"}

\* Superseded rows neither gate nor extend a failure streak.
Gating(rows) == {i \in DOMAIN rows : rows[i].outcome # "superseded"}

\* The newest gating row and the incomplete rows that directly precede it.
FailureStreak(rows) ==
    LET older == Gating(rows) \ {Newest(rows, Gating(rows))}
    IN  1 + Cardinality({i \in older :
                \A j \in older : j = i \/ Later(rows, j, i) => ~Complete(rows[j])})

Capped(interval) == IF interval < SuccessInterval THEN interval ELSE SuccessInterval

\* Each failure doubles the wait, up to the cadence after a success.
Backoff[failures \in 1..Cardinality(Runs \cup Legacy)] ==
    Capped(IF failures = 1 THEN RetryInterval ELSE 2 * Backoff[failures - 1])

CadenceInterval(rows, retryRequired, migrating) ==
    IF Complete(rows[Newest(rows, Gating(rows))]) /\ ~retryRequired
    THEN IF migrating THEN RetryInterval ELSE SuccessInterval
    ELSE Backoff[IF Collection THEN FailureStreak(rows) ELSE 1]

\* When the cadence gate opens.
CadenceOpens(rows, retryRequired, migrating) ==
    rows[Newest(rows, Gating(rows))].at
        + CadenceInterval(rows, retryRequired, migrating)

\* The row sets whose size is limited, with their limits.
Limits(rows) ==
    IF DOMAIN rows \cap Legacy # {}
    THEN {<<DOMAIN rows, OverlapCap>>, <<Guarded(rows), OverlapRuntimeCap>>}
    ELSE {<<Guarded(rows), Cap>>}

\* Mutant of Reached: one row too many.
ReachedLate(limit) == Cardinality(limit[1]) > limit[2]

Reached(limit) == Cardinality(limit[1]) >= limit[2]

\* When each limit that is reached lets go of its oldest row.
CapBlocks(rows) ==
    {OldestAt(rows, l[1]) + Window : l \in {m \in Limits(rows) : Reached(m)}}

CadenceGated(rows, now, codeChange, retryRequired, migrating) ==
    /\ Gating(rows) # {}
    /\ ~codeChange
    /\ now < CadenceOpens(rows, retryRequired, migrating)

RequestMode(rows, now, codeChange, retryRequired, migrating) ==
    IF CadenceGated(rows, now, codeChange, retryRequired, migrating)
    THEN "cadence_gated"
    ELSE IF CapBlocks(rows) # {} THEN "cap_gated" ELSE "reserved"

\* The available_at the gate reports.
AvailableAt(rows, now, codeChange, retryRequired, migrating) ==
    IF CadenceGated(rows, now, codeChange, retryRequired, migrating)
    THEN CadenceOpens(rows, retryRequired, migrating)
    ELSE CHOOSE t \in CapBlocks(rows) : \A u \in CapBlocks(rows) : u =< t

----------------------------------------------------------------------------
(* Runs *)

\* A run that is over without a replacement dispatched for its superseded
\* candidate, because it believes that one was dispatched, is "silenced".
Stages == {"unstarted", "reserving", "collecting", "publishing",
           "superseding", "dispatching", "ended", "silenced"}

IsRun(x) ==
    /\ x \in [stage : Stages,
              command : {"idle", "reading", "pushing"},  \* of the ledger
              began : Int,                     \* when the job started
              now : Int,                       \* the command's decision time
              push : {x.push},                 \* what the command pushes
              resends : Nat,                   \* retries push_refs has left
              tries : Nat,                     \* mark commands still allowed
              evidence : {"none", "clean", "retry"}]  \* of the publication
    /\ IF x.command = "pushing" THEN IsPush(x.push) ELSE x.push = NoPush

Unstarted ==
    [stage |-> "unstarted", command |-> "idle", began |-> 0, now |-> 0,
     push |-> NoPush, resends |-> 0, tries |-> 0, evidence |-> "none"]

Finished(stage) == [Unstarted EXCEPT !.stage = stage]

Running(r) == run[r].stage \notin {"unstarted", "ended", "silenced"}

TypeOK ==
    /\ clock \in Int
    /\ IsLedger(ledger)
    /\ \A p \in wire : IsPush(p)
    /\ run \in [Runs -> {run[r] : r \in Runs}]
    /\ \A r \in Runs : IsRun(run[r])
    /\ charges \subseteq [who : Runs, at : Int]

\* initialize: a nonempty seed of unproven attempts inside the window.
Init ==
    /\ clock = 0
    /\ \E ids \in SUBSET Legacy :
          /\ ids # {} /\ Cardinality(ids) =< OverlapCap
          /\ ledger \in [updated : {0},
                         rows : [ids -> [at : SeedTimes,
                                         codeChange : {FALSE},
                                         outcome : {"open", "published"},
                                         evidence : {"none"},
                                         pending : {FALSE}]]]
    /\ wire = {}
    /\ run = [r \in Runs |-> Unstarted]
    /\ charges = {}

\* Time passes, but a job is killed when its timeout is over.
Tick ==
    /\ clock < MaxClock
    /\ \A r \in Runs : Running(r) => clock - run[r].began < RunLimit
    /\ clock' = clock + 1
    /\ UNCHANGED <<ledger, wire, run, charges>>

\* The job reaches its reserve step; the command takes its decision time
\* before it reads the ref.  Ids grow with the start of their runs.
Begin(r) ==
    /\ run[r].stage = "unstarted"
    /\ \A q \in Runs : q < r => run[q].stage # "unstarted"
    /\ Cardinality({q \in Runs : Running(q)}) < MaxConcurrent
    /\ run' = [run EXCEPT ![r] =
          [Unstarted EXCEPT !.stage = "reserving", !.command = "reading",
                            !.began = clock, !.now = clock]]
    /\ UNCHANGED <<clock, ledger, wire, charges>>

\* The rows a command of r works on: those of the ref it reads that are still
\* active at its decision time.
Seen(r) == Active(ledger.rows, run[r].now)

\* Mutant of RecoveryRows: the retry is sought among the active rows alone.
RecoveryRowsActive(r) == Seen(r)

\* The rows that tell whether a collection retry is due.
RecoveryRows(r) == ledger.rows

\* A command that read the ref and may go on: the ledger is not from its
\* future.  (A ref that moves between lookup and fetch fails the command.)
Reads(r) ==
    /\ run[r].command = "reading"
    /\ ledger.updated =< run[r].now

\* Send the new ledger with a lease on the one that was read.
SendPush(r, rows) ==
    LET p == [by |-> r, old |-> ledger,
              new |-> [updated |-> run[r].now, rows |-> rows]]
    IN  /\ wire' = wire \cup {p}
        /\ run' = [run EXCEPT ![r].command = "pushing", ![r].push = p,
                              ![r].resends = PushRetries]

\* reserve: refuse a reused id, apply the gate, charge a new row.  The row
\* inherits an unresolved retry in the same leased commit.
Reserve(r, codeChange, migrating) ==
    LET retry == CarriesRetry(RecoveryRows(r))
        mode  == RequestMode(Seen(r), run[r].now, codeChange, retry, migrating)
        row   == [at |-> run[r].now, codeChange |-> codeChange,
                  outcome |-> "open", evidence |-> "none", pending |-> retry]
    IN  /\ run[r].stage = "reserving" /\ Reads(r)
        /\ migrating => ~Collection
        /\ r \notin DOMAIN Seen(r)
        /\ \/ /\ mode = "reserved"
              /\ SendPush(r, WithRow(Seen(r), r, row))
           \/ /\ mode # "reserved"
              /\ run' = [run EXCEPT ![r] = Finished("ended")]
              /\ UNCHANGED wire
        /\ UNCHANGED <<clock, ledger, charges>>

\* The collection ends with a durable publication, whose evidence says
\* whether some surface must be collected again ...
Publish(r, evidence) ==
    /\ run[r].stage = "collecting"
    /\ run' = [run EXCEPT ![r].stage = "publishing", ![r].tries = MarkTries,
                          ![r].evidence = evidence]
    /\ UNCHANGED <<clock, ledger, wire, charges>>

\* ... or with a candidate that main's newer code replaced.
Supersede(r) ==
    /\ Collection
    /\ run[r].stage = "collecting"
    /\ run' = [run EXCEPT ![r].stage = "superseding", ![r].tries = MarkTries]
    /\ UNCHANGED <<clock, ledger, wire, charges>>

\* The workflow runs (or runs again) the mark command.
StartMark(r) ==
    /\ run[r].stage \in {"publishing", "superseding"}
    /\ run[r].command = "idle"
    /\ run[r].tries > 0
    /\ run' = [run EXCEPT ![r].command = "reading", ![r].now = clock,
                          ![r].tries = @ - 1]
    /\ UNCHANGED <<clock, ledger, wire, charges>>

\* mark_success: idempotent for the same publication.
MarkSuccess(r) ==
    /\ run[r].stage = "publishing" /\ Reads(r)
    /\ r \in DOMAIN Seen(r)
    /\ \/ /\ Seen(r)[r].outcome = "open"
          /\ SendPush(r, WithRow(Seen(r), r,
                [Seen(r)[r] EXCEPT !.outcome = "published",
                                   !.evidence = run[r].evidence,
                                   !.pending = FALSE]))
       \/ /\ Seen(r)[r].outcome = "published"
          /\ run' = [run EXCEPT ![r] = Finished("ended")]
          /\ UNCHANGED wire
    /\ UNCHANGED <<clock, ledger, charges>>

\* Mutant of FirstMark: an existing mark always means another's dispatch.
AnyMark(r) == TRUE

\* The workflow is in its first try of the mark command.
FirstMark(r) == run[r].tries = MarkTries - 1

\* mark_superseded.  Only the call that records it reports a new
\* supersession; an existing mark found by the workflow's first call means
\* that a replacement was dispatched before.
MarkSuperseded(r) ==
    /\ run[r].stage = "superseding" /\ Reads(r)
    /\ r \in DOMAIN Seen(r)
    /\ \/ /\ Seen(r)[r].outcome = "open"
          /\ SendPush(r, WithRow(Seen(r), r,
                [Seen(r)[r] EXCEPT !.outcome = "superseded"]))
       \/ /\ Seen(r)[r].outcome = "superseded"
          /\ run' = [run EXCEPT ![r] =
                IF FirstMark(r)
                THEN Finished("silenced")
                ELSE [@ EXCEPT !.stage = "dispatching", !.command = "idle"]]
          /\ UNCHANGED wire
    /\ UNCHANGED <<clock, ledger, charges>>

\* Mutant of LeaseHolds: a forced push without a lease.
NoLease(p, content) == TRUE

\* --force-with-lease: the ref still holds what the command read.
LeaseHolds(p, content) == p.old = content

\* Mutant of Resend: the retries are not counted down to a stop.
ResendForever(r) ==
    /\ run[r].command = "pushing"
    /\ wire' = wire \cup {p \in {run[r].push} : LeaseHolds(p, ledger)}
    /\ run' = [run EXCEPT ![r].resends = @ - 1]
    /\ UNCHANGED <<clock, ledger, charges>>

\* push_refs sends again after a transient failure.  A lease that no longer
\* holds is refused, a commit that landed before is up to date.
Resend(r) ==
    /\ run[r].command = "pushing"
    /\ run[r].resends > 0
    /\ wire' = wire \cup {p \in {run[r].push} : LeaseHolds(p, ledger)}
    /\ run' = [run EXCEPT ![r].resends = @ - 1]
    /\ UNCHANGED <<clock, ledger, charges>>

\* Mutant of Landed: a transient error is taken for a lost answer.
AssumedLanded(r) == TRUE

\* ls-remote shows the pushed commit on the ref.
Landed(r) == ledger = run[r].push.new

\* push_refs returns: it saw its own commit on the ref.
Confirm(r) ==
    /\ run[r].command = "pushing"
    /\ Landed(r)
    /\ run' = [run EXCEPT ![r] =
          CASE run[r].stage = "reserving" ->
                 [@ EXCEPT !.stage = "collecting", !.command = "idle",
                           !.push = NoPush, !.resends = 0]
            [] run[r].stage = "publishing" -> Finished("ended")
            [] OTHER ->
                 [@ EXCEPT !.stage = "dispatching", !.command = "idle",
                           !.push = NoPush, !.resends = 0]]
    /\ UNCHANGED <<clock, ledger, wire, charges>>

\* The command fails: unreadable ref, refused lease, or a push that did not
\* converge.  It may have taken effect, or may still take effect later.
CommandFails(r) ==
    /\ run[r].command # "idle"
    /\ run' = [run EXCEPT ![r] =
          IF run[r].tries > 0
          THEN [@ EXCEPT !.command = "idle", !.push = NoPush, !.resends = 0]
          ELSE Finished("ended")]
    /\ UNCHANGED <<clock, ledger, wire, charges>>

\* The replacement collection is dispatched on main.
Dispatch(r) ==
    /\ run[r].stage = "dispatching"
    /\ run' = [run EXCEPT ![r] = Finished("ended")]
    /\ UNCHANGED <<clock, ledger, wire, charges>>

\* A job is cancelled, times out, or fails outside the ledger commands.
Abort(r) ==
    /\ Running(r)
    /\ run' = [run EXCEPT ![r] = Finished("ended")]
    /\ UNCHANGED <<clock, ledger, wire, charges>>

\* The git server applies a push whose lease holds, and refuses the others
\* that the new commit makes stale: a ledger never returns to an old content.
Apply(p) ==
    /\ LeaseHolds(p, ledger)
    /\ ledger' = p.new
    /\ wire' = {q \in wire \ {p} : LeaseHolds(q, p.new)}
    /\ charges' = charges \cup ChargesOf(p.new.rows)
    /\ UNCHANGED <<clock, run>>

\* A push is lost.
Lose(p) ==
    /\ wire' = wire \ {p}
    /\ UNCHANGED <<clock, ledger, run, charges>>

RunStep(r) ==
    \/ Begin(r)
    \/ \E codeChange, migrating \in BOOLEAN : Reserve(r, codeChange, migrating)
    \/ \E e \in (IF Collection THEN {"clean", "retry"} ELSE {"none"}) : Publish(r, e)
    \/ Supersede(r)
    \/ StartMark(r)
    \/ MarkSuccess(r)
    \/ MarkSuperseded(r)
    \/ Resend(r)
    \/ Confirm(r)
    \/ CommandFails(r)
    \/ Dispatch(r)
    \/ Abort(r)

Next ==
    \/ Tick
    \/ \E r \in Runs : RunStep(r)
    \/ \E p \in wire : Apply(p) \/ Lose(p)

Spec == Init /\ [][Next]_vars

----------------------------------------------------------------------------
(* Properties *)

\* The ledger implements the rolling budget it stands for, with the history
\* of the ref as the history of charges: however the pushes of concurrent
\* runs are lost, delayed, repeated or refused, no window of Window units
\* ever holds more than Cap guarded reservations, and pruning old rows at
\* each commit loses none that still counts.
Budget == INSTANCE RollingBudget WITH Clients <- Runs, Times <- 0..MaxClock
ImplementsBudget == Budget!BudgetSpec

\* A run that collects was charged for it first, and as long as the charge
\* counts its row is on the ref: no other run's push removed it.  push_refs
\* may report success only for a commit that really landed.
PermitCharged ==
    \A r \in Runs :
        run[r].stage \in {"collecting", "publishing", "superseding", "dispatching"} =>
            \E c \in charges :
                /\ c.who = r
                /\ c.at > ledger.updated - Window =>
                      /\ r \in DOMAIN ledger.rows
                      /\ ledger.rows[r].at = c.at

\* Two reservations on the ledger are at least the first retry backoff apart,
\* unless a code change forced the later one or the earlier was superseded,
\* even when both runs passed the gate on ledgers they read concurrently.
RetrySpacing ==
    LET rows == ledger.rows
        Excused(i, j) == rows[i].codeChange \/ rows[j].outcome = "superseded"
    IN  \A i, j \in Guarded(rows) :
            i # j /\ rows[j].at =< rows[i].at =>
                \/ rows[i].at >= rows[j].at + RetryInterval
                \/ Excused(i, j)
                \/ rows[i].at = rows[j].at /\ Excused(j, i)

\* A retry that an incomplete publication asked for is forgotten only in the
\* step that records a clean publication, whatever fails, is superseded or
\* expires in between.
RetryIntentSurvives ==
    [][CarriesRetry(ledger.rows) /\ ~CarriesRetry(ledger'.rows) =>
          \E r \in Guarded(ledger.rows) \cap Guarded(ledger'.rows) :
              /\ ledger.rows[r].outcome = "open"
              /\ ledger'.rows[r].outcome = "published"
              /\ ledger'.rows[r].evidence = "clean"]_vars

\* What the ledger says about how an attempt ended never changes: a published
\* attempt is not superseded later, a superseded one is not published, and a
\* delayed push does not bring an older account of it back.
OutcomeFinal ==
    [][\A r \in Guarded(ledger.rows) \cap Guarded(ledger'.rows) :
          ledger.rows[r].outcome # "open" =>
              /\ ledger'.rows[r].outcome = ledger.rows[r].outcome
              /\ ledger'.rows[r].evidence = ledger.rows[r].evidence]_vars

\* A lost answer never silences a replacement: a run whose supersession is
\* recorded does not conclude that somebody else dispatched for it.
NeverSilenced == \A r \in Runs : run[r].stage # "silenced"

\* The gate is honest about when it opens: what it reports as available_at
\* lies ahead, no further than one window, and then the same gate is open.
GateOpens ==
    LET rows == Active(ledger.rows, clock)
    IN  \A codeChange, retry \in BOOLEAN, migrating \in {FALSE, ~Collection} :
            LET mode  == RequestMode(rows, clock, codeChange, retry, migrating)
                opens == AvailableAt(rows, clock, codeChange, retry, migrating)
            IN  mode # "reserved" =>
                    /\ opens > clock /\ opens =< clock + Window
                    /\ RequestMode(Active(rows, opens), opens, codeChange,
                                   retry, migrating) # mode
=============================================================================
