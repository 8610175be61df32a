--------------------------- MODULE RequestLedgers ---------------------------
(***************************************************************************)
(* The request ledgers of the queue monitor (queue_request_budget.py) and  *)
(* of the DNS scan (dns_request_budget.py): one protocol with two gates.   *)
(* A behavior is about one of them, "service".  An operator initializes    *)
(* the ref from verified telemetry; each run reads the ref, decides, and   *)
(* pushes a new ledger with a lease on what it read; pushes and answers    *)
(* may be lost and pushes may land late.  A ledger commit has no parent    *)
(* and is a function of its content, so the ref is modelled by that.       *)
(***************************************************************************)
EXTENDS WeightedBudget

CONSTANTS
    MetricsStarts, DetailsStarts,       \* request starts of the queue lanes
    MetricsInterval, DetailsInterval,   \* least time between reservations
    ScanStarts,                         \* request starts of one DNS scan
    ScanInterval,                       \* least age of the state to rescan
    RetryDelay,                         \* wait after a failed scan
    MaxReservations,                    \* rows a ledger may hold
    PushRetries,                        \* re-sends before push_refs gives up
    MaxConcurrent,                      \* bound on the runs at work at once
    SeedTimes, SeedStarts               \* bounds on the telemetry seeded

ASSUME LedgersAssumption ==
    /\ {MetricsStarts, DetailsStarts, MetricsInterval, DetailsInterval,
        ScanStarts, RetryDelay, MaxReservations} \subseteq Nat \ {0}
    /\ {ScanInterval, PushRetries, MaxConcurrent} \subseteq Nat
    /\ MetricsStarts + DetailsStarts =< Cap
    /\ ScanStarts =< Cap
    /\ MetricsInterval =< Window /\ DetailsInterval =< Window
    /\ IsFiniteSet(Legacy)
    /\ SeedTimes \subseteq Int /\ SeedStarts \subseteq Nat \ {0}
    /\ Kinds = {"metrics", "details", "scan"}

VARIABLES
    service,    \* which ledger this is: "queue" or "dns"
    ledger,     \* the content of the ref
    wire,       \* pushes sent to the git server and not yet decided
    run,        \* the progress of each run
    scanned,    \* generated_at of the published scanner state, a set
    failures    \* when scans of the current code failed

vars == <<clock, granted, service, ledger, wire, run, scanned, failures>>

----------------------------------------------------------------------------
(* Ledgers and gates *)

Absent == [updated |-> 0, debt |-> FALSE, rows |-> {}]

\* _normalize_ledger: the shape that every ledger read or created must have.
ValidLedger(l) ==
    /\ Cardinality(l.rows) \in 1..MaxReservations
    /\ \A row \in l.rows : row.at =< l.updated /\ row.at > l.updated - Window
    /\ \A a, b \in l.rows : a.id = b.id /\ a.kind = b.kind => a = b
    /\ IF l.debt
       THEN Used(l.rows) > Cap /\ RuntimeRows(l.rows) = {}
       ELSE Used(l.rows) =< Cap

\* Mutant of Active: rows leave the window one unit early.
ActiveEarly(rows, now) == {row \in rows : row.at > now - Window + 1}

Active(rows, now) == {row \in rows : row.at > now - Window}

\* The rows that tell when a lane was last served: seeds until it has one.
Telling(rows, kind) ==
    LET typed == {row \in rows : row.kind = kind}
    IN  IF typed # {} THEN typed ELSE {row \in rows : row.kind = "legacy_seed"}

\* Mutant of Due: a lane is due one unit early.
DueEarly(rows, kind, interval, now) ==
    \A row \in Telling(rows, kind) : now - row.at >= interval - 1

Due(rows, kind, interval, now) ==
    \A row \in Telling(rows, kind) : now - row.at >= interval

RowOf(r, kind, now) ==
    [id |-> r, kind |-> kind, at |-> now,
     starts |-> CASE kind = "metrics" -> MetricsStarts
                  [] kind = "details" -> DetailsStarts
                  [] kind = "scan"    -> ScanStarts]

\* What a run asks for.
Batch(r, rows, now) ==
    IF service = "dns" THEN {RowOf(r, "scan", now)}
    ELSE {RowOf(r, "metrics", now)} \cup
         (IF Due(rows, "details", DetailsInterval, now)
          THEN {RowOf(r, "details", now)} ELSE {})

\* _scanner_requires_requests, or the interval of the metrics lane.
IntervalGated(rows, loaded, now) ==
    IF service = "dns" THEN \E t \in loaded : now - t < ScanInterval
    ELSE ~Due(rows, "metrics", MetricsInterval, now)

CapacityGated(rows, batch) == Used(rows) + Used(batch) > Cap

\* dns_retry_available_at: when the latest failed scan may be repeated.
RetryTimes(now) ==
    {t \in {f + RetryDelay : f \in failures} : service = "dns" /\ t > now}

Latest(S) == CHOOSE t \in S : \A u \in S : u =< t

\* Mutant of NextAvailable: the first expiry is reported, however little it
\* sets free.
NextAvailableFirst(rows, amount) ==
    CHOOSE e \in {row.at + Window : row \in rows} :
        \A row \in rows : e =< row.at + Window

\* _next_available_at: the first expiry that sets enough free.
NextAvailable(rows, amount) ==
    LET enough == {e \in {row.at + Window : row \in rows} :
                      Used({row \in rows : row.at + Window > e}) + amount =< Cap}
    IN  CHOOSE e \in enough : \A d \in enough : e =< d

\* The available_at of a run that is gated for capacity or for a retry.
AvailableAt(rows, batch, retries) ==
    Latest(retries \cup
           (IF CapacityGated(rows, batch)
            THEN {NextAvailable(rows, Used(batch))} ELSE {}))

----------------------------------------------------------------------------
(* Runs *)

NoPush == [by |-> "nobody"]

IdleRun == [stage |-> "unstarted", now |-> 0, loaded |-> {}, retries |-> {},
            push |-> NoPush, resends |-> 0]

Ended == [IdleRun EXCEPT !.stage = "ended"]

Working(r) == run[r].stage \notin {"unstarted", "ended"}

\* The operator's initialize sends the first ledger; the branch is absent.
Init ==
    /\ BudgetInit
    /\ service \in {"queue", "dns"}
    /\ ledger = Absent
    /\ \E ids \in SUBSET Legacy \ {{}} :
          \E at \in [ids -> SeedTimes], starts \in [ids -> SeedStarts] :
             LET rows  == {[id |-> i, kind |-> "legacy_seed", at |-> at[i],
                            starts |-> starts[i]] : i \in ids}
                 first == [updated |-> 0, debt |-> Used(rows) > Cap, rows |-> rows]
             IN  /\ ValidLedger(first)
                 /\ wire = {[by |-> "operator", old |-> Absent, new |-> first]}
    /\ run = [r \in Runs |-> IdleRun]
    /\ scanned = {}
    /\ failures = {}

Tick ==
    /\ PassTime
    /\ UNCHANGED <<service, ledger, wire, run, scanned, failures>>

\* The job starts; a DNS job restores the scanner state.
Begin(r) ==
    /\ run[r].stage = "unstarted"
    /\ Cardinality({q \in Runs : Working(q)}) < MaxConcurrent
    /\ run' = [run EXCEPT ![r].stage = "restored", ![r].loaded = scanned]
    /\ UNCHANGED <<clock, granted, service, ledger, wire, scanned, failures>>

\* The reserve command lists the failed runs, then takes its time.
Observe(r) ==
    /\ run[r].stage = "restored"
    /\ run' = [run EXCEPT ![r].stage = "deciding", ![r].now = clock,
                          ![r].retries = RetryTimes(clock)]
    /\ UNCHANGED <<clock, granted, service, ledger, wire, scanned, failures>>

\* What a command reads from the ref: never a ledger from its future.
Seen(r) == Active(ledger.rows, run[r].now)

Decides(r) ==
    /\ run[r].stage = "deciding"
    /\ ledger # Absent /\ ledger.updated =< run[r].now

\* interval_gated, capacity_gated or retry_gated: the ref is left alone and
\* the run gets no request starts.
Gated(r) ==
    LET batch == Batch(r, Seen(r), run[r].now)
    IN  /\ Decides(r)
        /\ \/ IntervalGated(Seen(r), run[r].loaded, run[r].now)
           \/ CapacityGated(Seen(r), batch)
           \/ run[r].retries # {}
        /\ run' = [run EXCEPT ![r] = Ended]
        /\ UNCHANGED <<clock, granted, service, ledger, wire, scanned, failures>>

\* The rows are appended and pushed with a lease; a ledger that would be too
\* long is refused before it is sent.
Reserve(r) ==
    LET batch == Batch(r, Seen(r), run[r].now)
        next  == [updated |-> run[r].now, debt |-> FALSE,
                  rows |-> Seen(r) \cup batch]
        p     == [by |-> r, old |-> ledger, new |-> next]
    IN  /\ Decides(r)
        /\ ~IntervalGated(Seen(r), run[r].loaded, run[r].now)
        /\ ~CapacityGated(Seen(r), batch)
        /\ run[r].retries = {}
        /\ \A row \in Seen(r) : row.id # r
        /\ ValidLedger(next)
        /\ wire' = wire \cup {p}
        /\ run' = [run EXCEPT ![r].stage = "pushing", ![r].push = p,
                              ![r].resends = PushRetries]
        /\ UNCHANGED <<clock, granted, service, ledger, scanned, failures>>

\* Mutant of LeaseHolds: a forced push without a lease.
NoLease(p, content) == TRUE

LeaseHolds(p, content) == p.old = content

\* push_refs sends again after a transient failure.
Resend(r) ==
    /\ run[r].stage = "pushing" /\ run[r].resends > 0
    /\ wire' = wire \cup {p \in {run[r].push} : LeaseHolds(p, ledger)}
    /\ run' = [run EXCEPT ![r].resends = @ - 1]
    /\ UNCHANGED <<clock, granted, service, ledger, scanned, failures>>

\* push_refs saw its commit on the ref: the run may send its request starts.
Confirm(r) ==
    /\ run[r].stage = "pushing"
    /\ ledger = run[r].push.new
    /\ run' = [run EXCEPT ![r] = [IdleRun EXCEPT !.stage = "permitted"]]
    /\ UNCHANGED <<clock, granted, service, ledger, wire, scanned, failures>>

\* The run publishes; a DNS run replaces the scanner state.
Publish(r) ==
    /\ run[r].stage = "permitted"
    /\ run' = [run EXCEPT ![r] = Ended]
    /\ scanned' = IF service = "dns" THEN {clock} ELSE scanned
    /\ UNCHANGED <<clock, granted, service, ledger, wire, failures>>

\* The command or the job fails, or is cancelled.  A reservation it sent may
\* have landed, or may still land.
Fail(r) ==
    /\ Working(r)
    /\ run' = [run EXCEPT ![r] = Ended]
    /\ failures' = IF service = "dns" THEN failures \cup {clock} ELSE failures
    /\ UNCHANGED <<clock, granted, service, ledger, wire, scanned>>

\* Failures of other code do not gate the scan.
CodeChange ==
    /\ failures # {}
    /\ failures' = {}
    /\ UNCHANGED <<clock, granted, service, ledger, wire, run, scanned>>

\* The git server applies a push whose lease holds, and refuses the others
\* that the new commit makes stale.
Apply(p) ==
    /\ LeaseHolds(p, ledger)
    /\ ledger' = p.new
    /\ wire' = {q \in wire \ {p} : LeaseHolds(q, p.new)}
    /\ granted' = granted \cup p.new.rows
    /\ UNCHANGED <<clock, service, run, scanned, failures>>

\* A push of a run is lost.  (An operator repeats a lost initialize.)
Lose(p) ==
    /\ p.by # "operator"
    /\ wire' = wire \ {p}
    /\ UNCHANGED <<clock, granted, service, ledger, run, scanned, failures>>

Next ==
    \/ Tick
    \/ \E r \in Runs :
          \/ Begin(r) \/ Observe(r) \/ Gated(r) \/ Reserve(r)
          \/ Resend(r) \/ Confirm(r) \/ Publish(r) \/ Fail(r)
    \/ CodeChange
    \/ \E p \in wire : Apply(p) \/ Lose(p)

Spec == Init /\ [][Next]_vars

----------------------------------------------------------------------------
(* Properties *)

\* What is on the ref is always a ledger that the next command accepts, and
\* nothing a window still counts was ever dropped from it.
LedgerOK ==
    /\ BudgetTypeOK
    /\ ledger # Absent => ValidLedger(ledger)
    /\ InWindow(granted, ledger.updated) = ledger.rows

\* The ledgers implement the weighted budget: however the pushes of
\* concurrent runs are lost, delayed or repeated, a batch is recorded whole
\* or not at all, and only into a window that has room for it.
ImplementsBudget == BudgetSpec

\* The lanes of the queue monitor keep their cadence over the whole history,
\* also between runs that read the ref concurrently: metrics MetricsInterval
\* apart, details DetailsInterval apart, and none sooner after the newest
\* seed while the lane has no reservation of its own.
CadenceKept ==
    LET Spaced(kind, interval) ==
            \A a, b \in granted :
                /\ a.kind = kind /\ a # b /\ a.at >= b.at
                /\ \/ b.kind = kind
                   \/ /\ b.kind = "legacy_seed"
                      /\ ~\E c \in granted : c.kind = kind /\ c.at < a.at
                => a.at - b.at >= interval
    IN  /\ Spaced("metrics", MetricsInterval)
        /\ Spaced("details", DetailsInterval)

\* The time reported to a gated run is the first at which its request starts
\* fit, if nobody else reserves, and a failed scan may be repeated.
GateHonest ==
    \A r \in Runs :
        LET rows    == Active(ledger.rows, clock)
            batch   == Batch(r, rows, clock)
            retries == RetryTimes(clock)
            Open(t) == /\ Used(InWindow(ledger.rows, t)) + Used(batch) =< Cap
                       /\ \A u \in retries : u =< t
            opens   == AvailableAt(rows, batch, retries)
        IN  CapacityGated(rows, batch) \/ retries # {} =>
                /\ opens > clock
                /\ Open(opens)
                /\ \A t \in clock..(opens - 1) : ~Open(t)
=============================================================================
