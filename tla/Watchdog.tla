------------------------------- MODULE Watchdog -------------------------------
(***************************************************************************)
(* The publication watchdog (publication-watchdog.yml with                 *)
(* plan_publication_watchdog.py, observe_watchdog_collection_admission.py  *)
(* and plan_stuck_run_cancellation.py), and the workflow runs it looks at. *)
(* A pass routes the public state to one recovery workflow, waits for a    *)
(* near collector gate, lists the runs of that workflow, dispatches a      *)
(* recovery unless one is active or has just failed, and force-cancels     *)
(* stuck runs.  Runs fail, hang, are replaced while they wait, and share   *)
(* one concurrency group per workflow.  Time is kept as ages, which stop   *)
(* counting where nothing tells them apart any more.                       *)
(***************************************************************************)
EXTENDS Naturals, FiniteSets

CONSTANTS
    Slots,           \* 1..n: the run records that matter at a time (bound)
    Scopes,          \* sets of workflows that a behavior is about (bound)
    ActiveMax,       \* age until which an active run suppresses a recovery
    DockerActiveMax, \* the same for Docker Build Monitor
    Cooldown,        \* time after a failed recovery, per workflow
    MaxWait,         \* longest wait for the collector gate
    JanitorLimit,    \* job timeouts plus margin: an older active run is stuck
    GhostAge,        \* age from which an active run is an orphaned record
    MaxCancellations,
    Period,          \* longest time from one pass to the next
    Sends,           \* tries of one dispatch
    RetryGate, SuccessGate,  \* time until the ledger admits the next attempt
    MaxStuck         \* bound on the runs that hang at one time

Targets == {"collector", "deploy-pages", "dns-health", "docker-builds"}

ASSUME WatchdogAssumption ==
    /\ Scopes \subseteq SUBSET Targets
    /\ Cooldown \in [Targets -> Nat]
    /\ {ActiveMax, DockerActiveMax, MaxWait, MaxStuck, JanitorLimit, GhostAge}
         \subseteq Nat
    /\ {Period, Sends, RetryGate, SuccessGate, MaxCancellations}
         \subseteq Nat \ {0}
    /\ JanitorLimit + Period + MaxWait < GhostAge

VARIABLES
    scope,      \* the workflows that have work, and may fail, here
    pages,      \* "exact", or how it departs from the durable state
    status,     \* the class of the published status
    gate,       \* per ledger: time until it admits an attempt
    code,       \* the code on main
    runs,       \* the workflow runs that are still listed
    pass,       \* the progress of the pass: its group has one at a time
    quiet       \* time since a pass last got through

site == <<scope, pages, status, gate, code>>
vars == <<scope, pages, status, gate, code, runs, pass, quiet>>

----------------------------------------------------------------------------
(* Runs *)

Free == [state |-> "none"]

Active(run) == run.state \in {"queued", "in_progress"}
Ended(run)  == run.state \in {"failed", "succeeded"}

\* Queue and DNS reconciliations carry their own mode tag and group.
Attempts(run, t) ==
    run # Free /\ run.target = t /\ run.mode = "full"

Group(run) == <<run.target, run.mode>>

\* Pages runs queue; in the other groups a new run replaces a pending one.
Replaces(new, old) ==
    /\ old.state = "queued" /\ ~old.stuck
    /\ Group(old) = Group(new) /\ new.target # "deploy-pages"

\* The recovery key in the title of a run; a run of another trigger has none.
NoKey == [target |-> "none", reason |-> "none", fresh |-> FALSE]

NewRun(t, key, mode) ==
    [state |-> "queued", target |-> t, key |-> key, mode |-> mode, age |-> 0,
     stuck |-> FALSE, reserved |-> FALSE, code |-> code,
     tries |-> IF key = NoKey THEN 0 ELSE pass.sends]

Smaller(a, b) == IF a < b THEN a ELSE b

\* A run ends.  A listing that returns it tells the planner something only if
\* it can cool a recovery down; the record of any other is left out.
Settled(run, state) ==
    IF run.target = "dns-health" \/ (run.key # NoKey /\ state = "failed")
    THEN [run EXCEPT !.state = state, !.age = 0, !.stuck = FALSE,
                     !.reserved = FALSE, !.tries = 0]
    ELSE Free

\* A run is requested: one more record, and perhaps a pending one cancelled.
Enqueue(s, t, key, mode) ==
    LET new == NewRun(t, key, mode)
    IN  /\ runs[s] = Free /\ \A q \in Slots : runs[q] = Free => s =< q
        /\ runs' = [q \in Slots |->
             IF q = s THEN new
             ELSE IF runs[q] # Free /\ Replaces(new, runs[q])
             THEN Settled(runs[q], "failed") ELSE runs[q]]

\* The schedule, a webhook, a merge or an operator starts a run (bound: it
\* leaves a record free).
OtherStart(s) ==
    /\ Cardinality({q \in Slots : runs[q] = Free}) > 1
    /\ \E t \in scope, mode \in {"full", "queue"} :
          /\ mode = "queue" => t = "collector"
          /\ Enqueue(s, t, NoKey, mode)
    /\ UNCHANGED <<site, pass, quiet>>

\* GitHub starts the oldest queued run of a group that nobody holds.
Start(s) ==
    /\ runs[s] # Free /\ runs[s].state = "queued" /\ ~runs[s].stuck
    /\ \A q \in Slots \ {s} :
          runs[q] # Free /\ Group(runs[q]) = Group(runs[s]) =>
             /\ runs[q].state # "in_progress"
             /\ runs[q].state = "queued" /\ ~runs[q].stuck =>
                   runs[q].age =< runs[s].age
    /\ runs' = [runs EXCEPT ![s].state = "in_progress"]
    /\ UNCHANGED <<site, pass, quiet>>

Ledgers == {"collector", "docker-builds"}

\* A request-bearing run takes an attempt; its ledger then closes the gate.
Reserve(s) ==
    /\ runs[s] # Free /\ runs[s].state = "in_progress" /\ ~runs[s].stuck
    /\ runs[s].target \in Ledgers /\ runs[s].mode = "full"
    /\ ~runs[s].reserved /\ gate[runs[s].target] = 0
    /\ runs' = [runs EXCEPT ![s].reserved = TRUE]
    /\ gate' = [gate EXCEPT ![runs[s].target] = RetryGate]
    /\ UNCHANGED <<scope, pages, status, code, pass, quiet>>

\* Keys name the generation they saw: TRUE while it is the published one.
\* (Bound: older generations are not told apart.)
Aged(run) == IF run # Free /\ run.key # NoKey
             THEN [run EXCEPT !.key.fresh = FALSE] ELSE run

\* A collector run that finds its gate closed ends without doing anything.
Publishes(run) ==
    run.target = "collector" /\ (run.reserved \/ run.mode = "queue")

\* What a run that succeeds changes on the site.
Effect(run) ==
    /\ CASE Publishes(run) ->
              /\ pages' = "exact"
              /\ status' \in {"valid"} \cup
                   (IF "dns-health" \in scope THEN {"dns-only"} ELSE {})
         [] run.target = "deploy-pages" ->
              /\ pages' = "exact"
              /\ status' = IF status = "invalid" THEN "valid" ELSE status
         [] run.target = "dns-health" ->
              /\ status' \in {status, IF status = "dns-only" THEN "valid" ELSE status}
              /\ UNCHANGED pages
         [] OTHER -> UNCHANGED <<pages, status>>
    /\ gate' = IF run.reserved
               THEN [gate EXCEPT ![run.target] = SuccessGate] ELSE gate

Succeed(s) ==
    LET after == [runs EXCEPT ![s] = Settled(@, "succeeded")]
    IN  /\ runs[s] # Free /\ runs[s].state = "in_progress" /\ ~runs[s].stuck
        /\ runs[s].target \in Ledgers /\ runs[s].mode = "full" =>
              runs[s].reserved \/ gate[runs[s].target] > 0
        /\ Effect(runs[s])
        /\ IF Publishes(runs[s])
           THEN /\ runs' = [q \in Slots |-> Aged(after[q])]
                /\ pass' = [pass EXCEPT !.fresh = FALSE]
           ELSE runs' = after /\ UNCHANGED pass
        /\ UNCHANGED <<scope, code, quiet>>

\* A run fails, is cancelled or times out.
FailRun(s) ==
    /\ runs[s] # Free /\ runs[s].state = "in_progress" /\ ~runs[s].stuck
    /\ runs' = [runs EXCEPT ![s] = Settled(@, "failed")]
    /\ UNCHANGED <<site, pass, quiet>>

\* GitHub leaves a run active although nothing of it will ever end.
Hang(s) ==
    /\ runs[s] # Free /\ Active(runs[s]) /\ ~runs[s].stuck
    /\ Cardinality({q \in Slots : runs[q] # Free /\ Active(runs[q])
                                                 /\ runs[q].stuck}) < MaxStuck
    /\ runs' = [runs EXCEPT ![s].stuck = TRUE]
    /\ UNCHANGED <<site, pass, quiet>>

----------------------------------------------------------------------------
(* A pass of the watchdog *)

NoPass == [stage |-> "off", target |-> "none", reason |-> "none", fresh |-> FALSE,
           patience |-> 0, sends |-> 0, code |-> 0]

To(stage) == [NoPass EXCEPT !.stage = stage]

\* Availability comes before freshness: a projection that departs from the
\* durable state is deployed again before its age is looked at.  The verdict
\* is that of the synthetic checks after a failed Site Health run.
RouteOf(verdict) ==
    LET By(target, reason, g) == [target |-> target, reason |-> reason, fresh |-> g]
    IN  IF pages # "exact" THEN By("deploy-pages", pages, FALSE)
        ELSE IF verdict = "deploy-pages" THEN By(verdict, "site-health-failed", FALSE)
        ELSE IF verdict = "collector" THEN By(verdict, "site-health-stale", TRUE)
        ELSE IF gate["collector"] = 0 THEN By("collector", "collection-due", TRUE)
        ELSE CASE status = "valid"    -> By("collector", "none", TRUE)
               [] status = "dns-only" -> By("dns-health", "dns-only", TRUE)
               [] status = "invalid"  -> By("deploy-pages", "status-invalid", FALSE)

Route(verdict) ==
    LET route == RouteOf(verdict)
    IN  /\ pass.stage = "off"
        /\ pass' = [stage |-> IF route.target = "collector" THEN "admit" ELSE "plan",
                    target |-> route.target, reason |-> route.reason,
                    fresh |-> route.fresh, code |-> code, sends |-> 0,
                    patience |-> IF route.target = "collector" THEN MaxWait ELSE 0]
        /\ UNCHANGED <<site, runs, quiet>>

\* The clock or the end of a watched run starts a pass.
ClockPass == Route("none")

\* A failed Site Health run does; fresh checks confirm the failure.
HealthPass == \E verdict \in {"collector", "deploy-pages"} \cap scope :
                  Route(verdict)

\* observe_admission: an open gate lets the plan go on, with a reason if the
\* route had none (one label stands for those that the ages choose); a gate that opens
\* too late, or is still closed at the deadline, ends the recovery.  A near
\* gate is awaited: neither is enabled until time has passed.
Admit ==
    /\ pass.stage = "admit"
    /\ \/ /\ gate["collector"] = 0
          /\ pass' = [pass EXCEPT !.stage = "plan", !.patience = 0,
                !.reason = IF @ = "none" THEN "publication-stale" ELSE @]
       \/ /\ gate["collector"] > pass.patience
          /\ pass' = To("docker")
    /\ UNCHANGED <<site, runs, quiet>>

Key == [target |-> pass.target, reason |-> pass.reason, fresh |-> pass.fresh]

\* Mutant of Suppresses: reconciliations of queue and DNS data count.
SuppressesAll(run, t) ==
    run # Free /\ run.target = t /\ Active(run) /\ run.age =< ActiveMax

\* Mutant of Suppresses: a run that waits for its group is overlooked.
SuppressesStarted(run, t) ==
    Attempts(run, t) /\ run.state = "in_progress" /\ run.age =< ActiveMax

\* An active run suppresses the recovery, as long as it can be alive.
Suppresses(run, t) ==
    Attempts(run, t) /\ Active(run) /\ run.age =< ActiveMax

\* The same incident was tried a moment ago.  A DNS scan that failed, keyed
\* or not, and one that did not help, cools down the code that it ran.
CoolsDown(run) ==
    /\ run # Free /\ Ended(run)
    /\ run.age =< Cooldown[pass.target]
    /\ IF pass.target = "dns-health"
       THEN /\ run.code = pass.code
            /\ \/ run.key = Key
               \/ run.target = "dns-health" /\ run.key = NoKey /\ run.state = "failed"
       ELSE run.key = Key /\ run.state = "failed"

Required ==
    /\ pass.stage = "plan"
    /\ \A s \in Slots : ~Suppresses(runs[s], pass.target) /\ ~CoolsDown(runs[s])

\* The runs of the target are listed and the decision is made.
Plan ==
    /\ pass.stage = "plan"
    /\ pass' = IF Required THEN [pass EXCEPT !.stage = "dispatch", !.sends = Sends]
               ELSE To("docker")
    /\ UNCHANGED <<site, runs, quiet>>

\* A dispatch lands; if its answer is lost, it is sent again.
Dispatch ==
    /\ pass.stage = "dispatch"
    /\ \E s \in Slots : Enqueue(s, pass.target, Key, "full")
    /\ \/ pass' = To("docker")
       \/ pass.sends > 1 /\ pass' = [pass EXCEPT !.sends = @ - 1]
    /\ UNCHANGED <<site, quiet>>

\* docker_builds_decision: a monitor whose ledger is due, and not active.
DockerDue ==
    /\ gate["docker-builds"] = 0
    /\ \A s \in Slots : ~(/\ Attempts(runs[s], "docker-builds")
                           /\ Active(runs[s])
                           /\ runs[s].age =< DockerActiveMax)

Docker ==
    /\ pass.stage = "docker"
    /\ IF DockerDue
       THEN \E s \in Slots : Enqueue(s, "docker-builds", NoKey, "full")
       ELSE UNCHANGED runs
    /\ pass' = To("janitor")
    /\ UNCHANGED <<site, quiet>>

\* A step fails.  A pass that fails before it dispatches is one that fails to
\* dispatch; Docker and the janitor have their turn all the same.
Abort ==
    /\ pass.stage \in {"dispatch", "docker"}
    /\ pass' = To(IF pass.stage = "docker" THEN "janitor" ELSE "docker")
    /\ UNCHANGED <<site, runs, quiet>>

\* Mutant of IsStuck: the margin is counted twice.
IsStuckLate(run) ==
    run # Free /\ Active(run) /\ run.age > 2 * JanitorLimit /\ run.age < GhostAge

\* select_stuck_runs: active for too long, and not yet an orphaned record.
IsStuck(run) ==
    run # Free /\ Active(run) /\ run.age > JanitorLimit /\ run.age < GhostAge

\* The oldest stuck runs are force-cancelled, and the pass is over.
Janitor ==
    LET stuck == {s \in Slots : IsStuck(runs[s])}
    IN  /\ pass.stage = "janitor"
        /\ \E chosen \in SUBSET stuck :
              /\ Cardinality(chosen) = Smaller(Cardinality(stuck), MaxCancellations)
              /\ \A s \in chosen, q \in stuck \ chosen : runs[q].age =< runs[s].age
              /\ runs' = [s \in Slots |-> IF s \in chosen
                            THEN Settled(runs[s], "failed") ELSE runs[s]]
        /\ pass' = NoPass
        /\ quiet' = 0
        /\ UNCHANGED site

----------------------------------------------------------------------------
(* Time and the rest of the world *)

\* An ended run that can cool nothing down any more is left out, too.
Older(run) ==
    IF run = Free THEN Free
    ELSE IF Ended(run) /\ run.age >= Cooldown[run.target] THEN Free
    ELSE [run EXCEPT !.age = Smaller(@ + 1, GhostAge)]

\* (Bound: the next pass is at work Period after the last one ended.)
Tick ==
    /\ quiet < Period \/ pass.patience > 0
    /\ quiet' = Smaller(quiet + 1, Period)
    /\ runs' = [s \in Slots |-> Older(runs[s])]
    /\ gate' = [l \in Ledgers |-> IF l \in scope /\ gate[l] > 0 THEN gate[l] - 1
                              ELSE gate[l]]
    /\ pass' = IF pass.patience > 0 THEN [pass EXCEPT !.patience = @ - 1] ELSE pass
    /\ UNCHANGED <<scope, pages, status, code>>

\* The projection departs from the durable state, its status is damaged, or
\* main moves.
Drift ==
    /\ \/ /\ "deploy-pages" \in scope
          /\ \/ pages' = "state-pages-mismatch" /\ UNCHANGED status
             \/ status' = "invalid" /\ UNCHANGED pages
          /\ UNCHANGED code
       \/ /\ "dns-health" \in scope
          /\ \/ status' = "dns-only" /\ UNCHANGED code
             \/ code' = 1 - code /\ UNCHANGED status
          /\ UNCHANGED pages
    /\ UNCHANGED <<scope, gate, runs, pass, quiet>>

Init ==
    /\ scope \in Scopes
    /\ pages = "exact" /\ status = "valid"
    /\ code = 0
    /\ gate = [l \in Ledgers |-> IF l \in scope THEN 0 ELSE SuccessGate]
    /\ runs = [s \in Slots |-> Free]
    /\ pass = NoPass
    /\ quiet = 0

Next ==
    \/ Tick \/ Drift
    \/ \E s \in Slots : \/ OtherStart(s) \/ Start(s) \/ Reserve(s)
                        \/ Succeed(s) \/ FailRun(s) \/ Hang(s)
    \/ ClockPass \/ HealthPass \/ Admit \/ Plan \/ Dispatch
    \/ Docker \/ Abort \/ Janitor

\* The clock wakes the watchdog again and again, its steps do not fail for
\* ever, GitHub starts what it queued, and a run ends by itself unless it
\* hangs.  Nothing is assumed of the other triggers, nor of how runs end.
Fairness ==
    /\ WF_vars(Tick)
    /\ \A s \in Slots : WF_vars(Start(s)) /\ WF_vars(Succeed(s) \/ FailRun(s))
    /\ SF_vars(ClockPass) /\ WF_vars(Admit) /\ WF_vars(Plan)
    /\ SF_vars(Dispatch \/ (DockerDue /\ Docker))
    /\ WF_vars(Docker \/ Abort) /\ WF_vars(Janitor)

Spec == Init /\ [][Next]_vars /\ Fairness

----------------------------------------------------------------------------
(* Properties *)

\* The workflow whose turn it is to repair the site.
Needs(t) ==
    CASE t = "deploy-pages"  -> pages # "exact"
      [] t = "collector"     -> pages = "exact" /\ gate["collector"] = 0
      [] t = "dns-health"    -> pages = "exact" /\ gate["collector"] > 0
                                /\ status = "dns-only"
      [] t = "docker-builds" -> gate["docker-builds"] = 0

NewAttempt(t) ==
    \E s \in Slots : Attempts(runs[s], t) /\ runs[s].state = "queued"
                                         /\ runs[s].age = 0

\* However runs hang, fail and cool down, whatever else republishes, and
\* whatever fails in the watchdog itself: a workflow that the site needs is
\* started again and again until the site does not need it.
NeverSilenced ==
    []<>(\A t \in scope : Needs(t) => NewAttempt(t))

\* Nothing that hangs holds up a group for ever: a queued run is started, or
\* replaced, or cancelled.
QueueMoves ==
    \A s \in Slots : []<>(runs[s].state # "queued")

\* Two recoveries of one incident that may be alive are of one dispatch, sent
\* again because its answer was lost: passes do not pile recoveries up.
NoPileUp ==
    \A s, q \in Slots :
        LET Alive(r) == runs[r] # Free /\ Active(runs[r]) /\ runs[r].age =< ActiveMax
        IN  Alive(s) /\ Alive(q) /\ s # q /\ runs[s].key = runs[q].key =>
                runs[s].key = NoKey \/ runs[s].tries # runs[q].tries
=============================================================================
