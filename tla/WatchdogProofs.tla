--------------------------- MODULE WatchdogProofs ---------------------------
(***************************************************************************)
(* Passes of the watchdog do not pile recoveries up, for every number of   *)
(* run records, every limit and every cooldown.  A pass dispatches only    *)
(* after a listing without a recovery of its workflow that may be alive;   *)
(* until the pass is over nothing else dispatches one, and of the runs it  *)
(* dispatches itself, each was sent in a later try than the ones before.   *)
(***************************************************************************)
EXTENDS Watchdog, TLAPS

States == {"queued", "in_progress", "failed", "succeeded"}
Reasons == {"none", "state-pages-mismatch", "site-health-failed", "site-health-stale",
            "collection-due", "publication-stale", "dns-only", "status-invalid"}
Pages == {"exact", "state-pages-mismatch"}
Keys == [target : Targets, reason : Reasons, fresh : BOOLEAN]

IsRun(run) ==
    /\ run \in [state : States, target : Targets, key : Keys \cup {NoKey},
                mode : {"full", "queue"}, age : Nat, stuck : BOOLEAN,
                reserved : BOOLEAN, code : {0, 1}, tries : 0..Sends]
    /\ run.age =< GhostAge
    /\ run.key # NoKey => run.key.target = run.target /\ run.mode = "full"

Passes ==
    [stage : {"off", "admit", "plan", "dispatch", "docker", "janitor"},
     target : Targets \cup {"none"}, reason : Reasons, fresh : BOOLEAN,
     patience : Nat, sends : 0..Sends, code : {0, 1}]

IsPass ==
    /\ pass \in Passes
    /\ pass.stage \in {"admit", "plan", "dispatch"} => pass.target \in Targets
    /\ pass.stage = "dispatch" => pass.sends > 0

Shapes ==
    /\ pages \in Pages /\ code \in {0, 1}
    /\ \A s \in Slots : runs[s] = Free \/ IsRun(runs[s])
    /\ runs = [s \in Slots |-> runs[s]]
    /\ IsPass

\* A recovery of the workflow t that may be alive.
Recovers(run, t) ==
    /\ run # Free /\ Active(run) /\ run.age =< ActiveMax
    /\ run.key # NoKey /\ run.target = t

\* Whatever their keys say by now: the live recoveries of a workflow are of
\* different tries, and those that a pass finds at work are of earlier ones.
Apart ==
    /\ \A t \in Targets : \A s, q \in Slots :
          Recovers(runs[s], t) /\ Recovers(runs[q], t) /\ s # q =>
              runs[s].tries # runs[q].tries
    /\ pass.stage = "dispatch" =>
          \A s \in Slots : Recovers(runs[s], pass.target) => runs[s].tries > pass.sends

PileInv == Shapes /\ Apart

----------------------------------------------------------------------------
(* Runs *)

\* A step never brings a recovery back to life, nor changes its try.
Keeps(old, new) ==
    /\ new = Free \/ IsRun(new)
    /\ \A t \in Targets : Recovers(new, t) => Recovers(old, t) /\ new.tries = old.tries

LEMMA FreeKept ==
    ASSUME NEW old
    PROVE  Keeps(old, Free)
BY DEF Keeps, Recovers

LEMMA SameKept ==
    ASSUME NEW run, run = Free \/ IsRun(run)
    PROVE  Keeps(run, run)
BY DEF Keeps

LEMMA NotFree ==
    ASSUME NEW run, IsRun(run)
    PROVE  run # Free
BY DEF IsRun, Free, States

\* A run that has ended recovers nothing.
LEMMA SettledKept ==
    ASSUME NEW run, IsRun(run), NEW state \in {"failed", "succeeded"}
    PROVE  Keeps(run, Settled(run, state))
<1> DEFINE new == [run EXCEPT !.state = state, !.age = 0, !.stuck = FALSE,
                              !.reserved = FALSE, !.tries = 0]
<1>1. IsRun(new) /\ new.state = state
  <2>1. 0 \in 0..Sends /\ 0 =< GhostAge /\ state \in States
      BY WatchdogAssumption DEF States
  <2>2. /\ new.target = run.target /\ new.key = run.key /\ new.mode = run.mode
        /\ new.age = 0 /\ new.state = state
      BY DEF IsRun
  <2> QED
      BY <2>1, <2>2 DEF IsRun
<1>2. \A t : ~Recovers(new, t)
    BY <1>1 DEF Recovers, Active
<1>3. Settled(run, state) = new \/ Settled(run, state) = Free
    BY DEF Settled
<1> HIDE DEF new
<1> QED
    BY <1>1, <1>2, <1>3, FreeKept DEF Keeps

LEMMA AgedKept ==
    ASSUME NEW run, run = Free \/ IsRun(run)
    PROVE  Keeps(run, Aged(run))
<1>1. CASE run # Free /\ run.key # NoKey
  <2> DEFINE key == [run.key EXCEPT !.fresh = FALSE]
             new == [run EXCEPT !.key = key]
  <2>1. run.key \in Keys
      BY <1>1 DEF IsRun
  <2>2. key \in Keys /\ key.target = run.key.target
      BY <2>1 DEF Keys
  <2>3. run.key # NoKey
      BY <1>1
  <2> HIDE DEF key
  <2>4. /\ new.key = key /\ new.target = run.target /\ new.mode = run.mode
        /\ new.age = run.age /\ new.state = run.state /\ new.tries = run.tries
        /\ IsRun(new)
      BY <1>1, <2>1, <2>2 DEF IsRun
  <2>5. Aged(run) = new
      BY <1>1 DEF Aged, key
  <2> HIDE DEF new
  <2> QED
      BY <1>1, <2>4, <2>5 DEF Keeps, Recovers, Active
<1>2. CASE ~(run # Free /\ run.key # NoKey)
    BY <1>2, SameKept DEF Aged
<1> QED
    BY <1>1, <1>2

LEMMA OlderKept ==
    ASSUME NEW run, run = Free \/ IsRun(run)
    PROVE  Keeps(run, Older(run))
<1>1. CASE run = Free
    BY <1>1, SameKept DEF Older
<1>2. CASE Older(run) = Free
    BY <1>2, FreeKept
<1>3. CASE run # Free /\ Older(run) = [run EXCEPT !.age = Smaller(@ + 1, GhostAge)]
  <2> DEFINE age == Smaller(run.age + 1, GhostAge)
             new == [run EXCEPT !.age = age]
  <2>1. age \in Nat /\ run.age =< age /\ age =< GhostAge
      BY <1>3, WatchdogAssumption DEF IsRun, Smaller
  <2>2. Older(run) = new
      BY <1>3
  <2> HIDE DEF age
  <2>3. /\ new.key = run.key /\ new.target = run.target /\ new.state = run.state
        /\ new.tries = run.tries /\ new.age = age
        /\ IsRun(new)
      BY <1>3, <2>1 DEF IsRun
  <2> HIDE DEF new
  <2> QED
    <3>1. ASSUME NEW t \in Targets, Recovers(new, t)
          PROVE  Recovers(run, t)
      <4>1. run.age =< ActiveMax
        <5>1. run.age \in Nat /\ new.age =< ActiveMax
            BY <1>3, <3>1 DEF Recovers, IsRun
        <5> QED
            BY <2>1, <2>3, <5>1, WatchdogAssumption
      <4> QED
          BY <1>3, <2>3, <3>1, <4>1 DEF Recovers, Active
    <3> QED
        BY <2>2, <2>3, <3>1 DEF Keeps
<1> QED
    BY <1>1, <1>2, <1>3 DEF Older

LEMMA NewRunIs ==
    ASSUME PileInv, NEW t \in Targets, NEW key \in Keys \cup {NoKey},
           NEW mode \in {"full", "queue"},
           key # NoKey => key.target = t /\ mode = "full"
    PROVE  LET new == NewRun(t, key, mode)
           IN  /\ IsRun(new) /\ new.key = key /\ new.target = t
               /\ new.tries = IF key = NoKey THEN 0 ELSE pass.sends
BY WatchdogAssumption DEF NewRun, IsRun, States, PileInv, Shapes, IsPass, Passes

----------------------------------------------------------------------------
(* Steps *)

\* What the pass does not change while it dispatches.
SamePass ==
    pass'.stage = "dispatch" =>
        /\ pass.stage = "dispatch"
        /\ pass'.target = pass.target /\ pass'.sends = pass.sends

LEMMA KeepsApart ==
    ASSUME PileInv, pages' \in Pages, code' \in {0, 1},
           runs' = [s \in Slots |-> runs'[s]],
           \A s \in Slots : Keeps(runs[s], runs'[s]),
           IsPass', SamePass
    PROVE  PileInv'
<1>1. Shapes'
    BY DEF Shapes, Keeps, IsRun
<1>2. ASSUME NEW t \in Targets, NEW s \in Slots, NEW q \in Slots, s # q,
             Recovers(runs'[s], t), Recovers(runs'[q], t)
      PROVE  runs'[s].tries # runs'[q].tries
    BY <1>2 DEF PileInv, Apart, Keeps
<1>3. ASSUME pass'.stage = "dispatch", NEW s \in Slots, Recovers(runs'[s], pass'.target)
      PROVE  runs'[s].tries > pass'.sends
  <2>1. pass.stage = "dispatch" /\ pass'.target = pass.target /\ pass'.sends = pass.sends
      BY <1>3 DEF SamePass
  <2>2. pass.target \in Targets
      BY <2>1 DEF PileInv, Shapes, IsPass
  <2> QED
      BY <1>3, <2>1, <2>2 DEF PileInv, Apart, Keeps
<1>4. Apart'
    BY <1>2, <1>3 DEF Apart, Recovers, Active
<1> QED
    BY <1>1, <1>4 DEF PileInv

LEMMA SlotRuns ==
    ASSUME PileInv, NEW s \in Slots
    PROVE  runs[s] = Free \/ IsRun(runs[s])
BY DEF PileInv, Shapes

\* The old runs when one more is requested.
LEMMA EnqueueKeeps ==
    ASSUME PileInv, NEW s \in Slots, NEW t \in Targets, NEW key \in Keys \cup {NoKey},
           NEW mode \in {"full", "queue"}, Enqueue(s, t, key, mode)
    PROVE  /\ runs' = [q \in Slots |-> runs'[q]]
           /\ runs'[s] = NewRun(t, key, mode)
           /\ \A q \in Slots \ {s} : Keeps(runs[q], runs'[q])
<1> DEFINE new == NewRun(t, key, mode)
<1>1. runs' = [q \in Slots |->
             IF q = s THEN new
             ELSE IF runs[q] # Free /\ Replaces(new, runs[q])
             THEN Settled(runs[q], "failed") ELSE runs[q]]
    BY DEF Enqueue
<1> HIDE DEF new
<1>2. ASSUME NEW q \in Slots \ {s}
      PROVE  Keeps(runs[q], runs'[q])
    BY <1>1, SlotRuns, SettledKept, SameKept
<1>3. runs'[s] = new
    BY <1>1
<1>4. runs' = [q \in Slots |-> runs'[q]]
    BY <1>1
<1> QED
    BY <1>2, <1>3, <1>4 DEF new

\* A run that is no recovery may be requested at any time.
LEMMA RequestKeeps ==
    ASSUME PileInv, NEW s \in Slots, NEW t \in Targets, NEW mode \in {"full", "queue"},
           Enqueue(s, t, NoKey, mode)
    PROVE  /\ runs' = [q \in Slots |-> runs'[q]]
           /\ \A q \in Slots : Keeps(runs[q], runs'[q])
<1>1. /\ IsRun(NewRun(t, NoKey, mode))
      /\ NewRun(t, NoKey, mode).key = NoKey
    BY NewRunIs
<1>2. Keeps(runs[s], NewRun(t, NoKey, mode))
    BY <1>1 DEF Keeps, Recovers
<1> QED
    BY <1>2, EnqueueKeeps
LEMMA RunsDomain ==
    ASSUME PileInv, NEW s \in Slots, NEW x
    PROVE  LET rs == [runs EXCEPT ![s] = x]
           IN  /\ rs = [q \in Slots |-> rs[q]]
               /\ rs[s] = x
               /\ \A q \in Slots \ {s} : rs[q] = runs[q]
BY DEF PileInv, Shapes

LEMMA OneRunKeeps ==
    ASSUME PileInv, NEW s \in Slots, NEW x, Keeps(runs[s], x),
           runs' = [runs EXCEPT ![s] = x]
    PROVE  /\ runs' = [q \in Slots |-> runs'[q]]
           /\ \A q \in Slots : Keeps(runs[q], runs'[q])
BY RunsDomain, SlotRuns, SameKept

LEMMA SitesKept ==
    ASSUME PileInv
    PROVE  /\ pages \in Pages /\ code \in {0, 1} /\ IsPass
           /\ runs = [q \in Slots |-> runs[q]]
           /\ \A q \in Slots : Keeps(runs[q], runs[q])
BY SlotRuns, SameKept DEF PileInv, Shapes

LEMMA PassKept ==
    ASSUME PileInv, pass' = pass
    PROVE  IsPass' /\ SamePass
BY DEF PileInv, Shapes, IsPass, SamePass

LEMMA NoPassIs == NoPass \in Passes /\ NoPass.stage = "off"
<1>1. 0 \in 0..Sends /\ 0 \in Nat /\ 0 \in {0, 1}
    BY WatchdogAssumption
<1>2. FALSE \in BOOLEAN
    OBVIOUS
<1>3. "none" \in Reasons
    BY DEF Reasons
<1> QED
    BY <1>1, <1>2, <1>3 DEF NoPass, Passes

\* A pass that goes on to another stage dispatches nothing.
LEMMA ToStage ==
    ASSUME NEW stage \in {"docker", "janitor"}, pass' = To(stage)
    PROVE  IsPass' /\ SamePass
<1>1. To(stage) \in Passes /\ To(stage).stage = stage
    BY NoPassIs DEF To, Passes
<1> QED
    BY <1>1 DEF IsPass, SamePass

LEMMA OffPass ==
    ASSUME pass' = NoPass
    PROVE  IsPass' /\ SamePass
BY NoPassIs DEF IsPass, SamePass

----------------------------------------------------------------------------
(* The actions *)

LEMMA OtherStartPile ==
    ASSUME PileInv, NEW s \in Slots, OtherStart(s), scope \subseteq Targets
    PROVE  PileInv'
<1>1. PICK t \in scope, mode \in {"full", "queue"} : Enqueue(s, t, NoKey, mode)
    BY DEF OtherStart
<1>2. /\ runs' = [q \in Slots |-> runs'[q]]
      /\ \A q \in Slots : Keeps(runs[q], runs'[q])
    BY <1>1, RequestKeeps
<1>3. pages' \in Pages /\ code' \in {0, 1} /\ IsPass' /\ SamePass
    BY SitesKept, PassKept DEF OtherStart, site
<1> QED
    BY <1>2, <1>3, KeepsApart

LEMMA RunChangePile ==
    ASSUME PileInv, NEW s \in Slots, NEW x, Keeps(runs[s], x),
           runs' = [runs EXCEPT ![s] = x], UNCHANGED <<pages, code, pass>>
    PROVE  PileInv'
BY OneRunKeeps, SitesKept, PassKept, KeepsApart

\* A change of a run that its recovery does not depend on.
LEMMA StartPile ==
    ASSUME PileInv, NEW s \in Slots, Start(s)
    PROVE  PileInv'
<1> DEFINE x == [runs[s] EXCEPT !.state = "in_progress"]
<1>1. IsRun(runs[s]) /\ runs[s].state = "queued"
    BY SlotRuns DEF Start
<1>2. /\ IsRun(x)
      /\ x.key = runs[s].key /\ x.target = runs[s].target
      /\ x.age = runs[s].age /\ x.tries = runs[s].tries
    BY <1>1 DEF IsRun, States
<1>3. runs' = [runs EXCEPT ![s] = x] /\ UNCHANGED <<pages, code, pass>>
    BY DEF Start, site
<1> HIDE DEF x
<1>4. Keeps(runs[s], x)
    BY <1>1, <1>2, NotFree DEF Keeps, Recovers, Active
<1> QED
    BY <1>3, <1>4, RunChangePile

LEMMA ReservePile ==
    ASSUME PileInv, NEW s \in Slots, Reserve(s)
    PROVE  PileInv'
<1> DEFINE x == [runs[s] EXCEPT !.reserved = TRUE]
<1>1. IsRun(runs[s])
    BY SlotRuns DEF Reserve
<1>2. /\ IsRun(x)
      /\ x.key = runs[s].key /\ x.target = runs[s].target /\ x.state = runs[s].state
      /\ x.age = runs[s].age /\ x.tries = runs[s].tries
    BY <1>1 DEF IsRun, States
<1>3. runs' = [runs EXCEPT ![s] = x] /\ UNCHANGED <<pages, code, pass>>
    BY DEF Reserve
<1> HIDE DEF x
<1>4. Keeps(runs[s], x)
    BY <1>1, <1>2, NotFree DEF Keeps, Recovers, Active
<1> QED
    BY <1>3, <1>4, RunChangePile

LEMMA HangPile ==
    ASSUME PileInv, NEW s \in Slots, Hang(s)
    PROVE  PileInv'
<1> DEFINE x == [runs[s] EXCEPT !.stuck = TRUE]
<1>1. IsRun(runs[s])
    BY SlotRuns DEF Hang
<1>2. /\ IsRun(x)
      /\ x.key = runs[s].key /\ x.target = runs[s].target /\ x.state = runs[s].state
      /\ x.age = runs[s].age /\ x.tries = runs[s].tries
    BY <1>1 DEF IsRun, States
<1>3. runs' = [runs EXCEPT ![s] = x] /\ UNCHANGED <<pages, code, pass>>
    BY DEF Hang, site
<1> HIDE DEF x
<1>4. Keeps(runs[s], x)
    BY <1>1, <1>2, NotFree DEF Keeps, Recovers, Active
<1> QED
    BY <1>3, <1>4, RunChangePile

LEMMA FailRunPile ==
    ASSUME PileInv, NEW s \in Slots, FailRun(s)
    PROVE  PileInv'
<1>1. IsRun(runs[s])
    BY SlotRuns DEF FailRun
<1>2. Keeps(runs[s], Settled(runs[s], "failed"))
    BY <1>1, SettledKept
<1>3. runs' = [runs EXCEPT ![s] = Settled(runs[s], "failed")]
      /\ UNCHANGED <<pages, code, pass>>
    BY DEF FailRun, site
<1> QED
    BY <1>2, <1>3, RunChangePile

LEMMA SucceedPile ==
    ASSUME PileInv, NEW s \in Slots, Succeed(s)
    PROVE  PileInv'
<1> DEFINE after == [runs EXCEPT ![s] = Settled(runs[s], "succeeded")]
<1>1. IsRun(runs[s])
    BY SlotRuns DEF Succeed
<1>2. Keeps(runs[s], Settled(runs[s], "succeeded"))
    BY <1>1, SettledKept
<1>3. /\ after = [q \in Slots |-> after[q]]
      /\ \A q \in Slots : Keeps(runs[q], after[q])
    BY <1>2, RunsDomain, SlotRuns, SameKept
<1>4. pages' \in Pages /\ code' \in {0, 1}
  <2>1. Effect(runs[s]) /\ code' = code
      BY DEF Succeed
  <2>2. CASE Publishes(runs[s])
      BY <2>1, <2>2, SitesKept DEF Effect, Publishes, Pages
  <2>3. CASE ~Publishes(runs[s]) /\ runs[s].target = "deploy-pages"
      BY <2>1, <2>3, SitesKept DEF Effect, Publishes, Pages
  <2>4. CASE ~Publishes(runs[s]) /\ runs[s].target = "dns-health"
      BY <2>1, <2>4, SitesKept DEF Effect, Publishes, Pages
  <2>5. CASE ~Publishes(runs[s]) /\ runs[s].target \notin {"deploy-pages", "dns-health"}
      BY <2>1, <2>5, SitesKept DEF Effect, Pages
  <2> QED
      BY <2>2, <2>3, <2>4, <2>5
<1>5. CASE Publishes(runs[s])
  <2>1. /\ runs' = [q \in Slots |-> Aged(after[q])]
        /\ pass' = [pass EXCEPT !.fresh = FALSE]
      BY <1>5 DEF Succeed
  <2> HIDE DEF after
  <2>2. ASSUME NEW q \in Slots
        PROVE  Keeps(runs[q], runs'[q])
    <3>1. Keeps(after[q], Aged(after[q]))
        BY <1>3, AgedKept DEF Keeps
    <3> QED
        BY <1>3, <2>1, <3>1 DEF Keeps
  <2>3. IsPass' /\ SamePass
      BY <2>1, SitesKept DEF IsPass, SamePass, Passes
  <2>4. runs' = [q \in Slots |-> runs'[q]]
      BY <2>1
  <2> QED
      BY <1>4, <2>2, <2>3, <2>4, KeepsApart
<1>6. CASE ~Publishes(runs[s])
  <2>1. runs' = after /\ pass' = pass
      BY <1>6 DEF Succeed
  <2> HIDE DEF after
  <2> QED
      BY <1>3, <1>4, <2>1, PassKept, KeepsApart
<1> QED
    BY <1>5, <1>6
\* A pass that looks at the site, or waits, dispatches nothing yet.
LEMMA PassChangePile ==
    ASSUME PileInv, IsPass', SamePass, UNCHANGED <<pages, code, runs>>
    PROVE  PileInv'
<1>1. runs' = [q \in Slots |-> runs'[q]] /\ \A q \in Slots : Keeps(runs[q], runs'[q])
    BY SitesKept
<1>2. pages' \in Pages /\ code' \in {0, 1}
    BY SitesKept
<1> QED
    BY <1>1, <1>2, KeepsApart

LEMMA RoutePile ==
    ASSUME PileInv, NEW verdict \in {"none", "collector", "deploy-pages"}, Route(verdict),
           status \in {"valid", "dns-only", "invalid"}
    PROVE  PileInv'
<1> DEFINE route == RouteOf(verdict)
<1>1. route.target \in Targets /\ route.reason \in Reasons /\ route.fresh \in BOOLEAN
  <2>1. pages \in Pages
      BY SitesKept
  <2> QED
      BY <2>1 DEF RouteOf, Targets, Reasons, Pages
<1> HIDE DEF route
<1>2. /\ pass' = [stage |-> IF route.target = "collector" THEN "admit" ELSE "plan",
                   target |-> route.target, reason |-> route.reason,
                   fresh |-> route.fresh, code |-> code, sends |-> 0,
                   patience |-> IF route.target = "collector" THEN MaxWait ELSE 0]
      /\ UNCHANGED <<pages, code, runs>>
    BY DEF Route, site, route
<1>3. code \in {0, 1} /\ 0 \in 0..Sends /\ MaxWait \in Nat
    BY SitesKept, WatchdogAssumption
<1>4. pass' \in Passes
    BY <1>1, <1>2, <1>3 DEF Passes
<1>5. IsPass' /\ SamePass
    BY <1>1, <1>2, <1>4 DEF IsPass, SamePass
<1> QED
    BY <1>2, <1>5, PassChangePile

LEMMA AdmitPile ==
    ASSUME PileInv, Admit
    PROVE  PileInv'
<1>1. UNCHANGED <<pages, code, runs>>
    BY DEF Admit, site
<1>2. pass \in Passes /\ pass.target \in Targets
    BY SitesKept DEF IsPass, Admit
<1>3. CASE pass' = [pass EXCEPT !.stage = "plan", !.patience = 0,
                        !.reason = IF @ = "none" THEN "publication-stale" ELSE @]
  <2>1. pass' \in Passes /\ pass'.stage = "plan" /\ pass'.target = pass.target
      BY <1>2, <1>3 DEF Passes, Reasons
  <2> QED
      BY <1>1, <1>2, <2>1, PassChangePile DEF IsPass, SamePass
<1>4. CASE pass' = To("docker")
    BY <1>1, <1>4, ToStage, PassChangePile
<1> QED
    BY <1>3, <1>4 DEF Admit

\* The listing the plan is made from shows no recovery that may be alive.
LEMMA PlanPile ==
    ASSUME PileInv, Plan
    PROVE  PileInv'
<1>1. UNCHANGED <<pages, code, runs>>
    BY DEF Plan, site
<1>2. CASE ~Required
  <2>1. pass' = To("docker")
      BY <1>2 DEF Plan
  <2> QED
      BY <1>1, <2>1, ToStage, PassChangePile
<1>3. CASE Required
  <2>1. pass' = [pass EXCEPT !.stage = "dispatch", !.sends = Sends]
      BY <1>3 DEF Plan
  <2>2. pass \in Passes /\ pass.target \in Targets
      BY SitesKept DEF IsPass, Plan
  <2>3. pass' \in Passes /\ pass'.target = pass.target /\ pass'.sends = Sends
    <3>1. Sends \in 0..Sends
        BY WatchdogAssumption
    <3> QED
        BY <2>1, <2>2, <3>1 DEF Passes
  <2>4. IsPass'
      BY <2>2, <2>3, WatchdogAssumption DEF IsPass
  <2>5. ASSUME NEW s \in Slots, Recovers(runs[s], pass.target)
        PROVE  FALSE
    <3>1. runs[s] # Free /\ IsRun(runs[s])
        BY <2>5, SlotRuns DEF Recovers
    <3>2. Attempts(runs[s], pass.target)
        BY <2>5, <3>1 DEF Recovers, Attempts, IsRun
    <3>3. Suppresses(runs[s], pass.target)
        BY <2>5, <3>2 DEF Recovers, Suppresses
    <3> QED
        BY <1>3, <3>3 DEF Required
  <2>6. Shapes'
      BY <1>1, <2>4 DEF PileInv, Shapes
  <2>7. Apart'
      BY <1>1, <2>3, <2>5 DEF PileInv, Apart
  <2> QED
      BY <2>6, <2>7 DEF PileInv
<1> QED
    BY <1>2, <1>3

\* The recoveries of the workflow that are at work are of earlier tries of this
\* pass, so a new one has a try of its own; the next one will have a later one.
LEMMA DispatchPile ==
    ASSUME PileInv, Dispatch
    PROVE  PileInv'
<1>1. /\ pass \in Passes /\ pass.target \in Targets
      /\ pass.sends \in 0..Sends /\ pass.sends > 0 /\ pass.stage = "dispatch"
      /\ pages \in Pages /\ code \in {0, 1}
    BY SitesKept DEF IsPass, Dispatch, Passes
<1>2. Key \in Keys /\ Key.target = pass.target /\ Key # NoKey
    BY <1>1 DEF Key, Keys, NoKey, Passes, Targets
<1>3. PICK s \in Slots : Enqueue(s, pass.target, Key, "full")
    BY DEF Dispatch
<1> DEFINE new == NewRun(pass.target, Key, "full")
<1>4. /\ IsRun(new) /\ new.key = Key /\ new.target = pass.target
      /\ new.tries = pass.sends
    BY <1>1, <1>2, NewRunIs
<1>5. /\ runs' = [q \in Slots |-> runs'[q]]
      /\ runs'[s] = new
      /\ \A q \in Slots \ {s} : Keeps(runs[q], runs'[q])
    BY <1>1, <1>2, <1>3, EnqueueKeeps
<1> HIDE DEF new
<1>6. pages' = pages /\ code' = code
    BY DEF Dispatch, site
<1>7. IsPass' /\ (pass'.stage = "dispatch" =>
                      pass'.target = pass.target /\ pass'.sends = pass.sends - 1)
  <2>1. CASE pass' = To("docker")
    <3>1. pass'.stage = "docker"
        BY <2>1, NoPassIs DEF To, Passes
    <3> QED
        BY <2>1, <3>1, ToStage
  <2>2. CASE pass.sends > 1 /\ pass' = [pass EXCEPT !.sends = @ - 1]
    <3>1. pass.sends - 1 \in 0..Sends /\ pass.sends - 1 > 0
        BY <1>1, <2>2, WatchdogAssumption
    <3>2. /\ pass' \in Passes /\ pass'.target = pass.target
          /\ pass'.sends = pass.sends - 1
        BY <1>1, <2>2, <3>1 DEF Passes
    <3> QED
        BY <1>1, <3>1, <3>2 DEF IsPass
  <2> QED
      BY <2>1, <2>2 DEF Dispatch
<1>8. Shapes'
    BY <1>1, <1>4, <1>5, <1>6, <1>7 DEF Shapes, Keeps, IsRun
<1>9. \A t \in Targets : Recovers(runs'[s], t) => t = pass.target
    BY <1>4, <1>5 DEF Recovers
<1>10. ASSUME NEW q \in Slots \ {s}, Recovers(runs'[q], pass.target)
       PROVE  runs'[q].tries > pass.sends
  <2>1. Recovers(runs[q], pass.target) /\ runs'[q].tries = runs[q].tries
      BY <1>1, <1>5, <1>10 DEF Keeps
  <2> QED
      BY <1>1, <2>1 DEF PileInv, Apart
<1>11. ASSUME NEW t \in Targets, NEW a \in Slots, NEW b \in Slots, a # b,
              Recovers(runs'[a], t), Recovers(runs'[b], t)
       PROVE  runs'[a].tries # runs'[b].tries
  <2>1. CASE a = s
    <3>1. t = pass.target /\ b \in Slots \ {s}
        BY <1>9, <1>11, <2>1
    <3>2. runs'[b].tries > pass.sends
        BY <1>10, <1>11, <3>1
    <3>3. runs'[a].tries = pass.sends
        BY <1>4, <1>5, <2>1
    <3> QED
        BY <1>1, <3>2, <3>3
  <2>2. CASE b = s
    <3>1. t = pass.target /\ a \in Slots \ {s}
        BY <1>9, <1>11, <2>2
    <3>2. runs'[a].tries > pass.sends
        BY <1>10, <1>11, <3>1
    <3>3. runs'[b].tries = pass.sends
        BY <1>4, <1>5, <2>2
    <3> QED
        BY <1>1, <3>2, <3>3
  <2>3. CASE a # s /\ b # s
      BY <1>5, <1>11, <2>3 DEF PileInv, Apart, Keeps
  <2> QED
      BY <2>1, <2>2, <2>3
<1>12. ASSUME pass'.stage = "dispatch", NEW q \in Slots, Recovers(runs'[q], pass'.target)
       PROVE  runs'[q].tries > pass'.sends
  <2>1. pass'.target = pass.target /\ pass'.sends = pass.sends - 1
      BY <1>7, <1>12
  <2>2. CASE q = s
    <3>1. runs'[q].tries = pass.sends
        BY <1>4, <1>5, <2>2
    <3> QED
        BY <1>1, <2>1, <3>1
  <2>3. CASE q # s
    <3>1. runs'[q].tries > pass.sends
        BY <1>10, <1>12, <2>1, <2>3
    <3>2. IsRun(runs'[q])
        BY <1>5, <1>12, <2>3 DEF Keeps, Recovers
    <3>3. runs'[q].tries \in Nat
        BY <3>2, WatchdogAssumption DEF IsRun
    <3> QED
        BY <1>1, <2>1, <3>1, <3>3
  <2> QED
      BY <2>2, <2>3
<1>13. Apart'
    BY <1>11, <1>12 DEF Apart, Recovers, Active
<1> QED
    BY <1>8, <1>13 DEF PileInv

LEMMA DockerPile ==
    ASSUME PileInv, Docker
    PROVE  PileInv'
<1>1. pages' \in Pages /\ code' \in {0, 1}
    BY SitesKept DEF Docker, site
<1>2. IsPass' /\ SamePass
    BY ToStage DEF Docker
<1>3. CASE DockerDue
  <2>1. PICK s \in Slots : Enqueue(s, "docker-builds", NoKey, "full")
      BY <1>3 DEF Docker
  <2>2. /\ runs' = [q \in Slots |-> runs'[q]]
        /\ \A q \in Slots : Keeps(runs[q], runs'[q])
      BY <2>1, RequestKeeps DEF Targets
  <2> QED
      BY <1>1, <1>2, <2>2, KeepsApart
<1>4. CASE ~DockerDue
  <2>1. runs' = runs
      BY <1>4 DEF Docker
  <2> QED
      BY <1>1, <1>2, <2>1, SitesKept, KeepsApart
<1> QED
    BY <1>3, <1>4

LEMMA AbortPile ==
    ASSUME PileInv, Abort
    PROVE  PileInv'
<1>1. UNCHANGED <<pages, code, runs>>
    BY DEF Abort, site
<1>2. pass' = To("janitor") \/ pass' = To("docker")
    BY DEF Abort
<1>3. IsPass' /\ SamePass
    BY <1>2, ToStage
<1> QED
    BY <1>1, <1>3, PassChangePile

LEMMA JanitorPile ==
    ASSUME PileInv, Janitor
    PROVE  PileInv'
<1> DEFINE stuck == {s \in Slots : IsStuck(runs[s])}
<1>1. PICK chosen \in SUBSET stuck :
          runs' = [s \in Slots |-> IF s \in chosen THEN Settled(runs[s], "failed")
                                   ELSE runs[s]]
    BY DEF Janitor
<1>2. ASSUME NEW s \in Slots
      PROVE  Keeps(runs[s], runs'[s])
  <2>1. CASE s \in chosen
    <3>1. IsRun(runs[s])
        BY <2>1, SlotRuns DEF IsStuck
    <3> QED
        BY <1>1, <2>1, <3>1, SettledKept
  <2>2. CASE s \notin chosen
      BY <1>1, <2>2, SlotRuns, SameKept
  <2> QED
      BY <2>1, <2>2
<1>3. runs' = [s \in Slots |-> runs'[s]]
    BY <1>1
<1>4. IsPass' /\ SamePass
    BY OffPass DEF Janitor
<1>5. pages' \in Pages /\ code' \in {0, 1}
    BY SitesKept DEF Janitor, site
<1> QED
    BY <1>2, <1>3, <1>4, <1>5, KeepsApart

LEMMA TickPile ==
    ASSUME PileInv, Tick
    PROVE  PileInv'
<1>1. runs' = [s \in Slots |-> Older(runs[s])]
    BY DEF Tick
<1>2. \A s \in Slots : Keeps(runs[s], runs'[s])
    BY <1>1, SlotRuns, OlderKept
<1>3. runs' = [s \in Slots |-> runs'[s]]
    BY <1>1
<1>4. IsPass' /\ SamePass
  <2>1. CASE pass.patience > 0
    <3>1. pass \in Passes /\ pass' = [pass EXCEPT !.patience = pass.patience - 1]
        BY <2>1, SitesKept DEF Tick, IsPass
    <3>2. pass.patience - 1 \in Nat
        BY <2>1, <3>1 DEF Passes
    <3>3. /\ pass' \in Passes /\ pass'.stage = pass.stage
          /\ pass'.target = pass.target /\ pass'.sends = pass.sends
        BY <3>1, <3>2 DEF Passes
    <3> QED
        BY <3>3, SitesKept DEF IsPass, SamePass
  <2>2. CASE ~(pass.patience > 0)
      BY <2>2, PassKept DEF Tick
  <2> QED
      BY <2>1, <2>2
<1>5. pages' \in Pages /\ code' \in {0, 1}
    BY SitesKept DEF Tick
<1> QED
    BY <1>2, <1>3, <1>4, <1>5, KeepsApart

LEMMA DriftPile ==
    ASSUME PileInv, Drift
    PROVE  PileInv'
<1>1. pages' \in Pages
    BY SitesKept DEF Drift, Pages
<1>2. code' \in {0, 1}
    BY SitesKept DEF Drift
<1>3. UNCHANGED <<runs, pass>>
    BY DEF Drift
<1> QED
    BY <1>1, <1>2, <1>3, SitesKept, PassKept, KeepsApart

----------------------------------------------------------------------------
(* The theorems *)

\* The part of the site that the routes read.
SiteOK == scope \subseteq Targets /\ status \in {"valid", "dns-only", "invalid"}

LEMMA InitPile == Init => PileInv /\ SiteOK
<1> SUFFICES ASSUME Init
             PROVE  PileInv /\ SiteOK
    OBVIOUS
<1>1. SiteOK
    BY WatchdogAssumption DEF Init, SiteOK
<1>2. IsPass
    BY NoPassIs DEF Init, IsPass
<1>3. Shapes
    BY <1>2 DEF Init, Shapes, Pages
<1>4. Apart
  <2>1. \A s \in Slots : runs[s] = Free
      BY DEF Init
  <2>2. pass.stage # "dispatch"
      BY NoPassIs DEF Init
  <2> QED
      BY <2>1, <2>2 DEF Apart, Recovers
<1> QED
    BY <1>1, <1>3, <1>4 DEF PileInv

LEMMA NextSite ==
    ASSUME SiteOK, [Next]_vars
    PROVE  SiteOK'
<1>1. CASE UNCHANGED site
    BY <1>1 DEF site, SiteOK
<1>2. CASE Tick
    BY <1>2 DEF Tick, SiteOK
<1>3. CASE Drift
    BY <1>3 DEF Drift, SiteOK
<1>4. ASSUME NEW s \in Slots, Reserve(s)
      PROVE  SiteOK'
    BY <1>4 DEF Reserve, SiteOK
<1>5. ASSUME NEW s \in Slots, Succeed(s)
      PROVE  SiteOK'
  <2>1. scope' = scope /\ Effect(runs[s])
      BY <1>5 DEF Succeed
  <2>2. CASE Publishes(runs[s])
      BY <2>1, <2>2 DEF Effect, SiteOK
  <2>3. CASE ~Publishes(runs[s]) /\ runs[s].target = "deploy-pages"
      BY <2>1, <2>3 DEF Effect, SiteOK
  <2>4. CASE ~Publishes(runs[s]) /\ runs[s].target = "dns-health"
      BY <2>1, <2>4 DEF Effect, SiteOK
  <2>5. CASE ~Publishes(runs[s]) /\ runs[s].target \notin {"deploy-pages", "dns-health"}
      BY <2>1, <2>5 DEF Effect, SiteOK
  <2> QED
      BY <2>2, <2>3, <2>4, <2>5
<1> QED
    BY <1>1, <1>2, <1>3, <1>4, <1>5
       DEF Next, vars, site, OtherStart, Start, FailRun, Hang, ClockPass, HealthPass, Route,
           Admit, Plan, Dispatch, Docker, Abort, Janitor

LEMMA NextPile ==
    ASSUME PileInv, SiteOK, [Next]_vars
    PROVE  PileInv'
<1>1. ASSUME NEW s \in Slots, \/ OtherStart(s) \/ Start(s) \/ Reserve(s)
                              \/ Succeed(s) \/ FailRun(s) \/ Hang(s)
      PROVE  PileInv'
    BY <1>1, OtherStartPile, StartPile, ReservePile, SucceedPile, FailRunPile, HangPile
       DEF SiteOK
<1>2. CASE ClockPass \/ HealthPass
    BY <1>2, RoutePile DEF ClockPass, HealthPass, SiteOK
<1>3. CASE Admit \/ Plan \/ Dispatch
    BY <1>3, AdmitPile, PlanPile, DispatchPile
<1>4. CASE Docker \/ Abort \/ Janitor
    BY <1>4, DockerPile, AbortPile, JanitorPile
<1>5. CASE Tick \/ Drift
    BY <1>5, TickPile, DriftPile
<1>6. CASE UNCHANGED vars
    BY <1>6, SitesKept, PassKept, PassChangePile DEF vars, site
<1> QED
    BY <1>1, <1>2, <1>3, <1>4, <1>5, <1>6 DEF Next

\* The live recoveries of a workflow are of different tries, and those a pass finds
\* at work while it dispatches are of its own earlier tries: the inductive invariant.
THEOREM PileInvariant == Spec => []PileInv
<1>1. Init => PileInv /\ SiteOK
    BY InitPile
<1>2. PileInv /\ SiteOK /\ [Next]_vars => PileInv' /\ SiteOK'
    BY NextPile, NextSite
<1> QED
    BY <1>1, <1>2, PTL DEF Spec

\* However runs hang, fail and age, and whatever answers of dispatches are lost: two
\* live recoveries of one incident come from one dispatch that was sent again.
THEOREM RecoveriesDoNotPileUp == Spec => []NoPileUp
<1>1. PileInv => NoPileUp
  <2> SUFFICES ASSUME PileInv, NEW s \in Slots, NEW q \in Slots, s # q,
                      runs[s] # Free, Active(runs[s]), runs[s].age =< ActiveMax,
                      runs[q] # Free, Active(runs[q]), runs[q].age =< ActiveMax,
                      runs[s].key = runs[q].key, runs[s].key # NoKey
               PROVE  runs[s].tries # runs[q].tries
      BY DEF NoPileUp
  <2>1. IsRun(runs[s]) /\ IsRun(runs[q])
      BY SlotRuns
  <2>2. runs[s].target \in Targets /\ runs[q].target = runs[s].target
      BY <2>1 DEF IsRun
  <2>3. Recovers(runs[s], runs[s].target) /\ Recovers(runs[q], runs[s].target)
      BY <2>2 DEF Recovers
  <2> QED
      BY <2>2, <2>3 DEF PileInv, Apart
<1> QED
    BY <1>1, PileInvariant, PTL
=============================================================================
