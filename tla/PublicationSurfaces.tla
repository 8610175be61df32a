------------------------ MODULE PublicationSurfaces ------------------------
(***************************************************************************)
(* Which data a collection publishes (select_publication_surfaces.py).  The *)
(* data of the dashboard is divided into surfaces; a surface whose fresh    *)
(* data fails is restored, whole, from the published state and keeps the    *)
(* clock of its fallback.  Every selection is rebuilt and audited again     *)
(* until nothing fails: an audit may find that another surface has to be    *)
(* restored too, or that the restored data fails as well, and then the      *)
(* surface is published as unavailable, with the codes that are accepted.   *)
(*                                                                         *)
(* A full collection collects the surfaces anew.  A reconciliation refreshes *)
(* one and carries the others over as they were published.  Either may keep *)
(* the published files of some surfaces without recording it (Retainable).  *)
(***************************************************************************)
EXTENDS Integers, FiniteSets

CONSTANTS
    Surfaces,     \* the publication surfaces
    Refreshable,  \* those a reconciliation refreshes
    Retainable,   \* those whose published files a collection may keep, unrecorded
    RetryPair,    \* those that show one build, which may be retried once published
    Findings,     \* what an audit may find; records, see FindingType
    MaxPresent,   \* bound: how many of them, of failed collectors and of kept surfaces
                  \* a collection meets
    MaxAge        \* how long restored data may be published as such

Levels == {"error", "budget", "degradation", "build"}

\* A finding is there while the surfaces of cand show collected data and those of
\* rest the published data; it is routed to the surfaces it names, if any.  Some are
\* found early, before anything is restored: by the preflight or, while a published
\* build is retried, by the audits of the surfaces that show it.  An error over a byte
\* budget is never accepted; a build error stops the build of the derived data.
FindingType ==
    [code : Nat, level : Levels, early : {"no", "retry", "preflight"},
     cand : SUBSET Surfaces, rest : SUBSET Surfaces, surfaces : SUBSET Surfaces]

ASSUME SurfaceAssumption ==
    /\ IsFiniteSet(Surfaces) /\ Refreshable \subseteq Surfaces
    /\ RetryPair \subseteq Surfaces /\ Retainable \subseteq Surfaces
    /\ Findings \subseteq FindingType
    /\ \A f \in Findings : f.level = "build" => f.early = "no"
    /\ MaxPresent \in Nat /\ MaxAge \in Nat

VARIABLES
    pub,          \* the published selection
    sel           \* the selection of the running collection

vars == <<pub, sel>>

Expired == 0      \* the code of data restored for too long
Codes == {f.code : f \in Findings} \cup {Expired}
None == [s \in Surfaces |-> {}]
Current == -1     \* the age of a surface that is not restored

Restored(p) == {s \in Surfaces : p.age[s] # Current}

----------------------------------------------------------------------------
\* The audit of the tree as it is now.

\* The surfaces whose files are those of the published state: restored ones, and
\* those that were not collected.
Old(x) == x.restored \cup (Surfaces \ x.collected)

Present(x) == {f \in x.world : f.cand \cap Old(x) = {} /\ f.rest \subseteq Old(x)}

\* Mutant: the clock starts again with every publication.
AgeAnew(x, s) == 0

\* _start_times: a surface that was published as restored keeps its clock.
AgeAtStart(x, s) == IF x.before[s] = Current THEN 0 ELSE x.before[s]

\* Past the bound the age of a fallback makes no difference.
Bounded(age) == IF age > MaxAge THEN MaxAge + 1 ELSE age

Age(x, s) == Bounded(AgeAtStart(x, s) + x.elapsed)

Declared(x) == {s \in Surfaces : x.unavailable[s] # {}}

\* Mutant: what is declared does not count.
OverdueAnyway(x) == \E s \in x.restored : Age(x, s) > MaxAge

\* fallback_surfaces: restored data that is too old and not declared fails, and no
\* declaration is accepted then.
Overdue(x) == \E s \in x.restored \ Declared(x) : Age(x, s) > MaxAge

\* accept_unavailable_surfaces.
Accepted(x) ==
    {f \in Present(x) : /\ f.level = "error" /\ f.surfaces # {} /\ ~Overdue(x)
                        /\ f.surfaces \subseteq x.restored
                        /\ \A s \in f.surfaces : f.code \in x.unavailable[s]}

Errors(x) == {f \in Present(x) : f.level \in {"error", "budget"}} \ Accepted(x)

Degradations(x) == {f \in Present(x) : f.level = "degradation"} \cup Accepted(x)

Implicated(fs) == UNION {f.surfaces : f \in fs}

\* A finding that names no surface is a hard stop.
Unrouted(fs) == \E f \in fs : f.surfaces = {}

BuildBroken(x) == \E f \in Present(x) : f.level = "build"

----------------------------------------------------------------------------
\* select_publication.

Blocked(x) == [x EXCEPT !.stage = "blocked"]

FallBack(x, surfaces) ==
    [x EXCEPT !.fallback = @ \cup surfaces, !.fresh = @ \ (x.fallback \cup surfaces)]

\* restore_active_fallback: data past the bound is declared unavailable.
ExpiredNow(x) == {s \in x.fallback : AgeAtStart(x, s) > MaxAge}

Restore(x) ==
    [x EXCEPT !.restored = x.fallback,
              !.unavailable = [s \in Surfaces |->
                  IF s \in ExpiredNow(x) THEN @[s] \cup {Expired} ELSE @[s]]]

\* rebuild_operations_with_baseline_recovery: everything is restored once.
Rebuild(x) == IF BuildBroken(x) THEN Restore(FallBack(x, Surfaces)) ELSE x

AllCurrent == [age |-> [s \in Surfaces |-> Current], fresh |-> {}, unavailable |-> None]

Idle == [stage |-> "idle", collected |-> {}, kept |-> {}, forced |-> {},
         world |-> {}, retry |-> "none", elapsed |-> 0,
         before |-> [s \in Surfaces |-> Current],
         fallback |-> {}, fresh |-> {}, restored |-> {}, unavailable |-> None, odd |-> FALSE]

\* What a collection of some surfaces meets: surfaces it keeps as published, collectors
\* that fail, findings, and a published build that is retried, of which an older one is
\* proved complete or not.
Troubles(surfaces) ==
    {t \in [kept : SUBSET (surfaces \cap Retainable), forced : SUBSET surfaces,
            world : SUBSET Findings, retry : {"none", "proved", "unproved"}] :
        /\ t.forced \cap t.kept = {}
        /\ Cardinality(t.kept) + Cardinality(t.forced) + Cardinality(t.world)
             + (IF t.retry = "none" THEN 0 ELSE 1) =< MaxPresent}

Init ==
    /\ pub = AllCurrent
    /\ sel = Idle

Begin(surfaces, t, fallback, fresh, unavailable) ==
    /\ sel.stage = "idle"
    /\ sel' = [Idle EXCEPT !.stage = "preflight", !.collected = surfaces \ t.kept,
                           !.kept = t.kept, !.forced = t.forced,
                           !.world = t.world, !.retry = t.retry,
                           !.before = pub.age,
                           !.fallback = fallback, !.fresh = fresh,
                           !.unavailable = unavailable]
    /\ UNCHANGED pub

\* Mutant: the lanes are those that were published.
CollectOn(t) == Begin(Surfaces, t, Restored(pub) \cup t.forced, pub.fresh, None)

\* A full collection.  The surfaces whose collector failed are restored, whatever their
\* files are; while a published build is retried, those that show it are restored
\* together.  The kept ones are those whose live data is unavailable or older than the
\* published files (DNS health, Docker builds), or whose published files are recent
\* (GitHub home): their files stay, and no lane says so.  How recent is not modelled.
Collect(t) ==
    Begin(Surfaces, t, t.forced \cup (IF t.retry = "none" THEN {} ELSE RetryPair), {}, None)

\* A reconciliation carries what was published of the other surfaces.  It may keep the
\* files of its own as well, if they are no older than what it was asked for.
Refresh(r, t) ==
    /\ t.retry = "none"
    /\ Begin({r}, t, (Restored(pub) \ {r}) \cup t.forced, pub.fresh \ {r},
             [pub.unavailable EXCEPT ![r] = {}])

FoundEarly(x) ==
    {f \in Present(x) : f.early = "preflight" \/ (f.early = "retry" /\ x.retry # "none")}

Hard(fs) == {f \in fs : f.level \in {"error", "budget"}}

\* The collected cohort of an older build replaces the retried one if it is complete
\* and nothing is wrong with it.
Admits(x) ==
    /\ x.retry = "proved"
    /\ \A f \in Hard(FoundEarly(x)) :
          f.surfaces # {} /\ f.surfaces \cap RetryPair = {}

Admit(x) ==
    IF Admits(x)
    THEN [x EXCEPT !.retry = "admitted", !.fallback = @ \ (RetryPair \ x.forced)]
    ELSE x

\* The preflight parses the collected files, before anything is restored.
Preflight ==
    /\ sel.stage = "preflight"
    /\ LET found == FoundEarly(sel)
           degraded == Implicated(found \ Hard(found))
           x == FallBack([Admit(sel) EXCEPT !.fresh = @ \cup degraded],
                         Implicated(Hard(found)))
       IN  sel' = IF Unrouted(found) THEN Blocked(x)
                  ELSE [Restore(x) EXCEPT !.stage = "candidate"]
    /\ UNCHANGED pub

\* One of an admitted pair fails with the other.
Together(x, surfaces) ==
    IF x.retry = "admitted" /\ surfaces \cap RetryPair # {}
    THEN surfaces \cup RetryPair ELSE surfaces

CandidateAudit ==
    /\ sel.stage = "candidate"
    /\ LET x == Rebuild(sel)
           y == FallBack([x EXCEPT !.fresh = @ \cup Implicated(Degradations(x))],
                         Together(x, Implicated(Errors(x))))
       IN  sel' = IF BuildBroken(x) \/ Overdue(x) \/ Unrouted(Errors(x) \cup Degradations(x))
                  THEN Blocked(y)
                  ELSE [y EXCEPT !.stage = IF y.fallback = {} THEN "selected" ELSE "final"]
    /\ UNCHANGED pub

\* Mutant: what was declared once stays declared.
NeededBefore(x) == x.unavailable

\* Mutant: only what the audit accepted.
NeededNow(x) ==
    [s \in Surfaces |-> {f.code : f \in {g \in Accepted(x) : s \in g.surfaces}}]

\* accepted_unavailable_declarations.
Needed(x) ==
    [s \in Surfaces |->
        {f.code : f \in {g \in Accepted(x) : s \in g.surfaces}}
        \cup IF s \in ExpiredNow(x) THEN {Expired} ELSE {}]

Declare(x, fs) ==
    [x EXCEPT !.unavailable =
        [s \in Surfaces |-> @[s] \cup {f.code : f \in {g \in fs : s \in g.surfaces}}]]

\* One pass of the loop that reconciles the selection to a fixed point.  The passes are
\* told apart by odd, so that a loop that changes nothing else is a behaviour as well.
FinalPass ==
    /\ sel.stage = "final"
    /\ LET r == Restore([sel EXCEPT !.odd = ~@])
           x == Rebuild(r)
           errors == Errors(x)
           y == [x EXCEPT !.fresh = (@ \cup Implicated(Degradations(x)))
                                    \ (x.fallback \cup Implicated(errors))]
           more == Implicated(errors) \ x.restored
           undeclared == {f \in errors : \E s \in f.surfaces : f.code \notin x.unavailable[s]}
       IN  sel' =
             IF BuildBroken(x) \/ Overdue(x) \/ Unrouted(errors \cup Degradations(x))
             THEN Blocked(y)
             ELSE IF errors = {}
             THEN IF Needed(y) = y.unavailable THEN [y EXCEPT !.stage = "selected"]
                  ELSE [y EXCEPT !.unavailable = Needed(y)]
             ELSE IF more # {} THEN FallBack(y, more)
             ELSE IF undeclared = {} \/ (\E f \in errors : f.level = "budget")
             THEN Blocked(y)
             ELSE Declare(y, undeclared)
    /\ UNCHANGED pub

----------------------------------------------------------------------------
\* The selection is published, or the job ends before that.

End == sel' = Idle

Publish ==
    /\ sel.stage = "selected"
    /\ pub' = [age |-> [s \in Surfaces |->
                          IF s \in sel.fallback THEN Age(sel, s) ELSE Current],
               fresh |-> sel.fresh,
               unavailable |-> sel.unavailable]
    /\ End

Discard ==
    /\ sel.stage # "idle"
    /\ End
    /\ UNCHANGED pub

\* An hour passes, at most once in a selection.
Tick ==
    /\ sel.elapsed = 0
    /\ pub' = [pub EXCEPT !.age = [s \in Surfaces |->
                  IF @[s] = Current THEN Current ELSE Bounded(@[s] + 1)]]
    /\ pub' # pub
    /\ sel' = IF sel.stage = "idle" THEN sel ELSE [sel EXCEPT !.elapsed = 1]

Next ==
    \/ \E t \in Troubles(Surfaces) : Collect(t)
    \/ \E r \in Refreshable : \E t \in Troubles({r}) : Refresh(r, t)
    \/ Preflight \/ CandidateAudit \/ FinalPass
    \/ Publish \/ Discard
    \/ Tick

----------------------------------------------------------------------------
\* Correctness.

\* What was published of a surface, in the state a selection was chosen from or in
\* the tree as it stands, explains a declaration.
Cause(x, s, code) ==
    \/ code = Expired /\ AgeAtStart(x, s) > MaxAge
    \/ \E f \in Present(x) : f.level = "error" /\ s \in f.surfaces /\ f.code = code

\* A selection that may be published is what its lanes say: the restored surfaces
\* are those of the fallback lane and no other, every collector that failed is among
\* them, a build under retry is shown by none of its surfaces, none is called fresh;
\* every error of the tree lies on restored surfaces that are declared unavailable for
\* it, data past the age bound is declared, and nothing is declared without a cause
\* (select_publication's loop and its exits).
SelectedSound ==
    sel.stage = "selected" =>
      /\ sel.restored = sel.fallback /\ sel.forced \subseteq sel.restored
      /\ sel.retry \in {"proved", "unproved"} => RetryPair \subseteq sel.restored
      /\ sel.fresh \cap sel.restored = {}
      /\ \A f \in Present(sel) :
            /\ f.level \notin {"budget", "build"}
            /\ f.level = "error" =>
                 f.surfaces \subseteq {s \in sel.restored : f.code \in sel.unavailable[s]}
            /\ f.level = "degradation" => f.surfaces \subseteq sel.fresh \cup sel.restored
      /\ \A s \in Surfaces : \A code \in sel.unavailable[s] :
            s \in sel.restored /\ Cause(sel, s, code)
      /\ \A s \in sel.restored :
            AgeAtStart(sel, s) > MaxAge => Expired \in sel.unavailable[s]

\* A collection is given up only for a reason no restored data can cure: a finding
\* that names no surface, an error over a byte budget or a failing build in data that
\* is all restored where it matters, or a fallback that grew too old meanwhile.  A
\* surface with nothing usable never stops the others from being published.
BlocksForCause ==
    sel.stage = "blocked" =>
      \/ \E f \in Present(sel) : f.surfaces = {}
      \/ \E f \in sel.world : f.surfaces = {} /\ f.early # "no"
      \/ \E f \in Present(sel) : f.level = "budget" /\ f.surfaces \subseteq sel.restored
      \/ BuildBroken(sel) /\ sel.restored = Surfaces
      \/ \E s \in sel.restored : AgeAtStart(sel, s) =< MaxAge /\ Age(sel, s) > MaxAge

\* A surface that was published as restored stays restored and its clock never goes
\* back, until a collection collected it and the audits accepted it (_start_times, and
\* what a reconciliation carries over).  There is one exception, which is the code's: a
\* collection that keeps the published files of a surface it should collect forgets that
\* they are restored, unless an audit fails them again.
ClockKept ==
    [][ \A s \in Surfaces :
          /\ pub.age[s] # Current /\ pub' # pub
          /\ sel.stage = "selected" =>
               s \in sel.restored \cup (Surfaces \ (sel.collected \cup sel.kept))
          => pub'.age[s] >= pub.age[s] ]_vars

\* The loop that reconciles a selection ends, that of a full collection as that of a
\* reconciliation: it is selected, blocked or dropped (select_publication's final loop,
\* which has no bound on its passes).
Settles == []<>(sel.stage # "final")

\* Once the collections find nothing wrong, whatever they keep, everything is
\* current again and again: no fallback, degradation or declaration is carried along for ever.
Heals ==
    <>[](sel.world = {} /\ sel.forced = {} /\ sel.retry = "none") => []<>(pub = AllCurrent)

\* The collections of all surfaces, as opposed to reconciliations.
Full(x) == Surfaces \subseteq x.collected \cup x.kept

\* A job goes on: the first two conjuncts are the weak fairness of the steps of each
\* stage, stated by what these steps change.  They say nothing of how long the loop
\* goes on.  As long as jobs end, full collections are dispatched again, and not every
\* one is dropped before it has audited its candidate, or once it is selected.
Fairness ==
    /\ []<>(sel.stage \notin {"preflight", "candidate", "selected", "blocked"})
    /\ \A p \in BOOLEAN : []<>(sel.stage = "final" => sel.odd = p)
    /\ []<>(sel.stage = "idle") =>
          []<>(Full(sel) /\ sel.stage \in {"final", "selected", "blocked"})
    /\ SF_vars(Full(sel) /\ Publish)

Spec == Init /\ [][Next]_vars /\ Fairness

=============================================================================
