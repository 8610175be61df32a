---------------------------- MODULE RequestGuard ----------------------------
(***************************************************************************)
(* The transport guard of a collection (buildkite_request_guard.py) on top *)
(* of the durable ledger it belongs to.  A run takes a time, is charged,   *)
(* and creates a counter file.  Each of its collector processes charges    *)
(* that counter under a file lock before every request it sends, and is    *)
(* refused when the allowance is spent or the run's transport window is    *)
(* over.  The ledger appears as the budget it implements (RollingBudget):  *)
(* its clients are the runs.                                               *)
(***************************************************************************)
EXTENDS RollingBudget

CONSTANTS
    Processes,      \* what sends requests in one run: processes and threads
    Allowance,      \* request_start_allowance
    Duration,       \* the guard's --max-duration-seconds
    Lag,            \* longest time from a charge of the counter to its send
    Rolling         \* the day for which the number of requests is promised

\* 24 hours, 50 minutes and the 10 minutes that are left, against 25 hours.
ASSUME GuardAssumption ==
    /\ {Allowance, Duration, Lag, Rolling} \subseteq Nat
    /\ Rolling + Duration + Lag =< Window

VARIABLES
    job,            \* how far each run is, with its anchor
    counter,        \* request_starts in each run's file
    proc,           \* what each process of each run is doing
    requests        \* history: the requests sent to Buildkite

vars == <<clock, charges, job, counter, proc, requests>>

----------------------------------------------------------------------------

JobRecord == [stage : {"unstarted", "anchored", "reserved", "guarded", "over"},
              anchor : Times]       \* REQUEST_WINDOW_START_NS

ProcRecord ==
    [stage : {"idle", "holding", "charged"},
     starts : Nat,                  \* the count it read, then the one it wrote
     since : Times]                 \* when it wrote that

Request == [who : Clients, by : Processes, number : Nat \ {0}, at : Times]

IdleProc == [stage |-> "idle", starts |-> 0, since |-> 0]

GuardTypeOK ==
    /\ BudgetTypeOK
    /\ job \in [Clients -> JobRecord]
    /\ counter \in [Clients -> 0..Allowance]
    /\ proc \in [Clients -> [Processes -> ProcRecord]]
    /\ requests \subseteq Request

GuardInit ==
    /\ BudgetInit
    /\ job = [r \in Clients |-> [stage |-> "unstarted", anchor |-> 0]]
    /\ counter = [r \in Clients |-> 0]
    /\ proc = [r \in Clients |-> [p \in Processes |-> IdleProc]]
    /\ requests = {}

\* Time passes; a process that charged its request sends it within Lag.
GuardPassTime ==
    /\ \A r \in Clients, p \in Processes :
          proc[r][p].stage = "charged" => clock - proc[r][p].since < Lag
    /\ PassTime
    /\ UNCHANGED <<job, counter, proc, requests>>

\* The reserve step notes the time before it asks the ledger.
Anchor(r) ==
    /\ job[r].stage = "unstarted"
    /\ job' = [job EXCEPT ![r] = [stage |-> "anchored", anchor |-> clock]]
    /\ UNCHANGED <<clock, charges, counter, proc, requests>>

\* The ledger charges the run, for the time the reserve command began.
Reserved(r, at) ==
    /\ job[r].stage = "anchored"
    /\ job[r].anchor =< at
    /\ Charge([who |-> r, at |-> at])
    /\ job' = [job EXCEPT ![r].stage = "reserved"]
    /\ UNCHANGED <<counter, proc, requests>>

\* Mutant of InTransportWindow: the guard has no deadline.
AnyTime(r) == TRUE

InTransportWindow(r) == clock < job[r].anchor + Duration

\* initialize: refuses a window that is already over.
Initialize(r) ==
    /\ job[r].stage = "reserved"
    /\ InTransportWindow(r)
    /\ job' = [job EXCEPT ![r].stage = "guarded"]
    /\ UNCHANGED <<clock, charges, counter, proc, requests>>

\* Mutant of Unlocked: the counter is read without the lock.
AlwaysUnlocked(r) == TRUE

\* No process holds the file lock.
Unlocked(r) == \A p \in Processes : proc[r][p].stage # "holding"

\* consume: lock the file and read it.
Lock(r, p) ==
    /\ job[r].stage = "guarded"
    /\ proc[r][p].stage = "idle"
    /\ Unlocked(r)
    /\ proc' = [proc EXCEPT ![r][p].stage = "holding", ![r][p].starts = counter[r]]
    /\ UNCHANGED <<clock, charges, job, counter, requests>>

\* Mutant of Left: one request too many.
LeftLate(r, p) == proc[r][p].starts =< Allowance

Left(r, p) == proc[r][p].starts < Allowance

\* consume writes the next count, unless the window is over or the allowance
\* is spent: then the request is blocked.
Consume(r, p) ==
    /\ proc[r][p].stage = "holding"
    /\ IF InTransportWindow(r) /\ Left(r, p)
       THEN /\ counter' = [counter EXCEPT ![r] = proc[r][p].starts + 1]
            /\ proc' = [proc EXCEPT ![r][p] =
                  [stage |-> "charged", starts |-> @.starts + 1, since |-> clock]]
       ELSE /\ proc' = [proc EXCEPT ![r][p] = IdleProc]
            /\ UNCHANGED counter
    /\ UNCHANGED <<clock, charges, job, requests>>

\* guarded_send passes the request on.
Send(r, p) ==
    /\ proc[r][p].stage = "charged"
    /\ requests' = requests \cup
          {[who |-> r, by |-> p, number |-> proc[r][p].starts, at |-> clock]}
    /\ proc' = [proc EXCEPT ![r][p] = IdleProc]
    /\ UNCHANGED <<clock, charges, job, counter>>

\* A process dies, and with it its lock.
Die(r, p) ==
    /\ proc[r][p].stage # "idle"
    /\ proc' = [proc EXCEPT ![r][p] = IdleProc]
    /\ UNCHANGED <<clock, charges, job, counter, requests>>

\* The run ends, in whatever state its processes are: after a gated or failed
\* reservation, an expired window, a cancellation, or its last step.
End(r) ==
    /\ job[r].stage \notin {"unstarted", "over"}
    /\ job' = [job EXCEPT ![r].stage = "over"]
    /\ proc' = [proc EXCEPT ![r] = [p \in Processes |-> IdleProc]]
    /\ UNCHANGED <<clock, charges, counter, requests>>

GuardNext ==
    \/ GuardPassTime
    \/ \E r \in Clients :
          \/ Anchor(r)
          \/ \E at \in Times : Reserved(r, at)
          \/ Initialize(r)
          \/ \E p \in Processes :
                Lock(r, p) \/ Consume(r, p) \/ Send(r, p) \/ Die(r, p)
          \/ End(r)

GuardSpec == GuardInit /\ [][GuardNext]_vars

----------------------------------------------------------------------------
(* Properties *)

\* The ceiling the two mechanisms give together: no rolling day, wherever it
\* ends, sees more requests than the ledger's cap times the allowance of one
\* run, although a run is charged at one time and sends at others.
RollingCeiling ==
    \A t \in Times :
        Cardinality({q \in requests : t - Rolling < q.at /\ q.at =< t})
            =< Cap * Allowance

\* The count a run reports covers every request it sent, however its processes
\* interleave and die: no two requests are charged as one.
CountCovers ==
    \A r \in Clients : Cardinality({q \in requests : q.who = r}) =< counter[r]
=============================================================================
