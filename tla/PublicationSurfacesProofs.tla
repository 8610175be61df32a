---------------------- MODULE PublicationSurfacesProofs ----------------------
(***************************************************************************)
(* What holds of a selection for every set of surfaces and every set of     *)
(* findings an audit may make, of which TLC meets one of each kind.  The    *)
(* argument is about the lanes: whatever a collection meets, its fallback   *)
(* lane holds every failed collector, every surface it carries over that    *)
(* was published as restored and every surface with a declaration, and a    *)
(* pass of the audit only ever moves surfaces into it (Lanes); what is      *)
(* restored is that lane as it was at the last restore, with the data past  *)
(* the age bound declared (Settled).  The published clocks move with the    *)
(* clock of the running selection (ClocksAgree).                            *)
(***************************************************************************)
EXTENDS PublicationSurfaces, TLAPS

----------------------------------------------------------------------------
(* The inductive invariant *)

Stages == {"idle", "preflight", "candidate", "final", "selected", "blocked"}

Ages == -1..(MaxAge + 1)

Selection ==
    [stage : Stages, collected : SUBSET Surfaces, kept : SUBSET Surfaces,
     forced : SUBSET Surfaces, world : SUBSET Findings,
     retry : {"none", "proved", "unproved", "admitted"},
     elapsed : 0..1, before : [Surfaces -> Ages],
     fallback : SUBSET Surfaces, fresh : SUBSET Surfaces, restored : SUBSET Surfaces,
     unavailable : [Surfaces -> SUBSET Nat], odd : BOOLEAN]

Publication ==
    [age : [Surfaces -> Ages], fresh : SUBSET Surfaces,
     unavailable : [Surfaces -> SUBSET Nat]]

\* What the fallback lane of a selection holds in every case.
Lanes(x) ==
    /\ x.forced \subseteq x.fallback
    /\ x.retry \in {"proved", "unproved"} => RetryPair \subseteq x.fallback
    /\ x.retry # "none" => Full(x)
    /\ \A s \in Surfaces : x.unavailable[s] # {} => s \in x.fallback
    /\ \A s \in Surfaces \ (x.collected \cup x.kept) : x.before[s] # Current => s \in x.fallback

\* A surface that is restored for longer than the bound is declared.
OldDeclared(x) ==
    \A s \in x.restored : AgeAtStart(x, s) > MaxAge => Expired \in x.unavailable[s]

Settled(x) == x.restored = x.fallback /\ OldDeclared(x)

\* SelectedSound and BlocksForCause of one record.
Sound(x) ==
    /\ x.restored = x.fallback /\ x.forced \subseteq x.restored
    /\ x.retry \in {"proved", "unproved"} => RetryPair \subseteq x.restored
    /\ x.fresh \cap x.restored = {}
    /\ \A f \in Present(x) :
          /\ f.level \notin {"budget", "build"}
          /\ f.level = "error" =>
               f.surfaces \subseteq {s \in x.restored : f.code \in x.unavailable[s]}
          /\ f.level = "degradation" => f.surfaces \subseteq x.fresh \cup x.restored
    /\ \A s \in Surfaces : \A code \in x.unavailable[s] :
          s \in x.restored /\ Cause(x, s, code)
    /\ OldDeclared(x)

Caused(x) ==
    \/ \E f \in Present(x) : f.surfaces = {}
    \/ \E f \in x.world : f.surfaces = {} /\ f.early # "no"
    \/ \E f \in Present(x) : f.level = "budget" /\ f.surfaces \subseteq x.restored
    \/ BuildBroken(x) /\ x.restored = Surfaces
    \/ \E s \in x.restored : AgeAtStart(x, s) =< MaxAge /\ Age(x, s) > MaxAge

\* What holds of a selection in its stage.
Staged(x) ==
    /\ x.stage \in {"preflight", "candidate", "final", "selected"} => Lanes(x)
    /\ x.stage = "preflight" /\ x.retry # "none" => x.unavailable = None
    /\ x.stage = "candidate" => Settled(x)
    /\ x.stage = "selected" => Sound(x)
    /\ x.stage = "blocked" => Caused(x)

\* The published clocks are those the selection began with, and the time since.
ClocksAgree(p, x) ==
    x.stage # "idle" =>
        \A s \in Surfaces :
            p.age[s] = IF x.before[s] = Current THEN Current
                       ELSE Bounded(x.before[s] + x.elapsed)

\* Only a restored surface is published with a declaration.
DeclaredRestored(p) == \A s \in Surfaces : p.unavailable[s] # {} => p.age[s] # Current

SurfacesInv ==
    /\ pub \in Publication /\ sel \in Selection
    /\ Staged(sel)
    /\ ClocksAgree(pub, sel)
    /\ DeclaredRestored(pub)

----------------------------------------------------------------------------
(* The operators of a selection *)

\* What no step of an audit changes.
SameGround(x, y) ==
    /\ y.collected = x.collected /\ y.kept = x.kept /\ y.forced = x.forced /\ y.world = x.world
    /\ y.before = x.before /\ y.elapsed = x.elapsed

LEMMA FindingFacts ==
    /\ \A f \in Findings : f.code \in Nat /\ f.surfaces \subseteq Surfaces
    /\ RetryPair \subseteq Surfaces /\ Refreshable \subseteq Surfaces /\ MaxAge \in Nat
BY SurfaceAssumption DEF FindingType

LEMMA AuditSets ==
    ASSUME NEW x \in Selection
    PROVE  /\ Present(x) \subseteq Findings
           /\ Accepted(x) \subseteq Present(x)
           /\ Errors(x) \subseteq Present(x)
           /\ Degradations(x) \subseteq Present(x)
           /\ FoundEarly(x) \subseteq Present(x)
           /\ Present(x) \subseteq x.world
BY DEF Present, Accepted, Errors, Degradations, FoundEarly, Selection

LEMMA ImplicatedSurfaces ==
    ASSUME NEW fs, fs \subseteq Findings
    PROVE  /\ Implicated(fs) \subseteq Surfaces
           /\ \A f \in fs : f.surfaces \subseteq Implicated(fs)
BY FindingFacts DEF Implicated

\* The audit sees the tree: what is collected, restored and wrong with it.
LEMMA PresentDepends ==
    ASSUME NEW x, NEW y, y.collected = x.collected, y.world = x.world,
           y.restored = x.restored
    PROVE  Present(y) = Present(x) /\ (BuildBroken(y) <=> BuildBroken(x))
BY DEF Present, Old, BuildBroken

LEMMA AgesAre ==
    ASSUME NEW x \in Selection, NEW s \in Surfaces
    PROVE  /\ AgeAtStart(x, s) \in 0..(MaxAge + 1)
           /\ Age(x, s) \in 0..(MaxAge + 1)
           /\ Age(x, s) > MaxAge <=> AgeAtStart(x, s) + x.elapsed > MaxAge
           /\ x.elapsed \in 0..1
BY FindingFacts DEF Selection, AgeAtStart, Age, Bounded, Ages, Current

LEMMA AgesDepend ==
    ASSUME NEW x, NEW y, y.before = x.before, NEW s
    PROVE  /\ AgeAtStart(y, s) = AgeAtStart(x, s)
           /\ y.elapsed = x.elapsed => Age(y, s) = Age(x, s)
BY DEF AgeAtStart, Age

LEMMA FallBackIs ==
    ASSUME NEW x \in Selection, NEW S \in SUBSET Surfaces
    PROVE  LET y == FallBack(x, S)
           IN  /\ y \in Selection /\ SameGround(x, y)
               /\ y.stage = x.stage /\ y.retry = x.retry
               /\ y.restored = x.restored /\ y.unavailable = x.unavailable
               /\ y.fallback = x.fallback \cup S
               /\ y.fresh = x.fresh \ (x.fallback \cup S)
BY DEF FallBack, Selection, SameGround

LEMMA RestoreIs ==
    ASSUME NEW x \in Selection
    PROVE  LET y == Restore(x)
           IN  /\ y \in Selection /\ SameGround(x, y)
               /\ y.stage = x.stage /\ y.retry = x.retry /\ y.fresh = x.fresh
               /\ y.restored = x.fallback /\ y.fallback = x.fallback
               /\ y.unavailable = [s \in Surfaces |->
                     IF s \in ExpiredNow(x) THEN x.unavailable[s] \cup {Expired}
                     ELSE x.unavailable[s]]
<1> DEFINE u == [s \in Surfaces |->
                     IF s \in ExpiredNow(x) THEN x.unavailable[s] \cup {Expired}
                     ELSE x.unavailable[s]]
<1>1. u \in [Surfaces -> SUBSET Nat]
    BY DEF Selection, Expired
<1>2. Restore(x) = [x EXCEPT !.restored = x.fallback, !.unavailable = u]
    BY DEF Restore
<1> HIDE DEF u
<1>3. /\ Restore(x) \in Selection /\ SameGround(x, Restore(x))
      /\ Restore(x).stage = x.stage /\ Restore(x).retry = x.retry
      /\ Restore(x).fresh = x.fresh
      /\ Restore(x).restored = x.fallback /\ Restore(x).fallback = x.fallback
      /\ Restore(x).unavailable = u
    BY <1>1, <1>2 DEF Selection, SameGround
<1> QED
    BY <1>3 DEF u

\* Lanes only ever grow.
LEMMA LanesGrow ==
    ASSUME NEW x \in Selection, NEW y \in Selection, Lanes(x), SameGround(x, y),
           y.retry = x.retry, x.fallback \subseteq y.fallback,
           \A s \in Surfaces : y.unavailable[s] # {} => s \in y.fallback
    PROVE  Lanes(y)
BY DEF Lanes, SameGround, Full

LEMMA RestoreSettles ==
    ASSUME NEW x \in Selection, Lanes(x)
    PROVE  Lanes(Restore(x)) /\ Settled(Restore(x))
<1> DEFINE y == Restore(x)
<1>1. /\ y \in Selection /\ SameGround(x, y) /\ y.retry = x.retry
      /\ y.restored = x.fallback /\ y.fallback = x.fallback
      /\ y.unavailable = [s \in Surfaces |->
            IF s \in ExpiredNow(x) THEN x.unavailable[s] \cup {Expired}
            ELSE x.unavailable[s]]
    BY RestoreIs
<1> HIDE DEF y
<1>2. \A s \in Surfaces : y.unavailable[s] # {} => s \in y.fallback
    BY <1>1 DEF ExpiredNow, Lanes
<1>3. Lanes(y)
    BY <1>1, <1>2, LanesGrow
<1>4. ASSUME NEW s \in y.restored, AgeAtStart(y, s) > MaxAge
      PROVE  Expired \in y.unavailable[s]
  <2>1. s \in Surfaces /\ AgeAtStart(x, s) > MaxAge
    BY <1>1, <1>4, AgesDepend DEF SameGround, Selection
  <2> QED
    BY <1>1, <2>1 DEF ExpiredNow
<1> QED
    BY <1>1, <1>3, <1>4 DEF Settled, OldDeclared, y

LEMMA RebuildIs ==
    ASSUME NEW x \in Selection, Lanes(x), Settled(x)
    PROVE  LET y == Rebuild(x)
           IN  /\ y \in Selection /\ SameGround(x, y)
               /\ y.stage = x.stage /\ y.retry = x.retry
               /\ x.fallback \subseteq y.fallback
               /\ Lanes(y) /\ Settled(y)
               /\ BuildBroken(y) => y.restored = Surfaces
<1>1. CASE ~BuildBroken(x)
    BY <1>1 DEF Rebuild, SameGround
<1>2. CASE BuildBroken(x)
  <2> DEFINE z == FallBack(x, Surfaces)
  <2>1. /\ z \in Selection /\ SameGround(x, z) /\ z.stage = x.stage /\ z.retry = x.retry
        /\ z.unavailable = x.unavailable /\ z.fallback = x.fallback \cup Surfaces
    BY FallBackIs
  <2> HIDE DEF z
  <2>2. Lanes(z)
    BY <2>1, LanesGrow DEF Lanes
  <2>3. Rebuild(x) = Restore(z)
    BY <1>2 DEF Rebuild, z
  <2>4. z.fallback = Surfaces
    BY <2>1 DEF Selection
  <2> DEFINE y == Restore(z)
  <2>5. /\ y \in Selection /\ SameGround(z, y) /\ y.stage = z.stage /\ y.retry = z.retry
        /\ y.restored = Surfaces /\ y.fallback = Surfaces
    BY <2>1, <2>4, RestoreIs
  <2>6. Lanes(y) /\ Settled(y)
    BY <2>1, <2>2, RestoreSettles
  <2> HIDE DEF y
  <2>7. SameGround(x, y) /\ x.fallback \subseteq y.fallback
    BY <2>1, <2>5 DEF SameGround, Selection
  <2> QED
    BY <2>1, <2>3, <2>5, <2>6, <2>7 DEF y
<1> QED
    BY <1>1, <1>2

----------------------------------------------------------------------------
(* The stages of a selection *)

LEMMA AdmitIs ==
    ASSUME NEW x \in Selection, Lanes(x), x.retry # "none" => x.unavailable = None
    PROVE  LET y == Admit(x)
           IN  /\ y \in Selection /\ SameGround(x, y) /\ y.stage = x.stage
               /\ y.restored = x.restored /\ Lanes(y)
<1>1. CASE ~Admits(x)
    BY <1>1 DEF Admit, SameGround
<1>2. CASE Admits(x)
  <2> DEFINE y == [x EXCEPT !.retry = "admitted",
                            !.fallback = x.fallback \ (RetryPair \ x.forced)]
  <2>1. Admit(x) = y
    BY <1>2 DEF Admit
  <2>2. /\ y \in Selection /\ SameGround(x, y) /\ y.stage = x.stage
        /\ y.restored = x.restored /\ y.unavailable = x.unavailable
        /\ y.retry = "admitted" /\ y.fallback = x.fallback \ (RetryPair \ x.forced)
    BY DEF Selection, SameGround
  <2>3. x.unavailable = None /\ Full(x)
    BY <1>2 DEF Admits, Lanes
  <2> HIDE DEF y
  <2>4. Lanes(y)
    BY <2>2, <2>3 DEF Lanes, SameGround, None, Full
  <2> QED
    BY <2>1, <2>2, <2>4
<1> QED
    BY <1>1, <1>2

\* The step a stage takes, seen from its record.
Stepped(x, y) == y \in Selection /\ Staged(y) /\ SameGround(x, y) /\ y.stage # "idle"

LEMMA FreshIs ==
    ASSUME NEW x \in Selection, NEW S \in SUBSET Surfaces
    PROVE  LET y == [x EXCEPT !.fresh = S]
           IN  /\ y \in Selection /\ SameGround(x, y)
               /\ y.stage = x.stage /\ y.retry = x.retry
               /\ y.restored = x.restored /\ y.unavailable = x.unavailable
               /\ y.fallback = x.fallback /\ y.fresh = S
BY DEF Selection, SameGround

LEMMA StageIs ==
    ASSUME NEW x \in Selection, NEW st \in Stages
    PROVE  LET y == [x EXCEPT !.stage = st]
           IN  /\ y \in Selection /\ SameGround(x, y)
               /\ y.stage = st /\ y.retry = x.retry
               /\ y.restored = x.restored /\ y.unavailable = x.unavailable
               /\ y.fallback = x.fallback /\ y.fresh = x.fresh
BY DEF Selection, SameGround

\* Lanes, Settled, Sound and Caused do not read the stage.
LEMMA StageApart ==
    ASSUME NEW x \in Selection, NEW st \in Stages
    PROVE  LET y == [x EXCEPT !.stage = st]
           IN  /\ Lanes(x) => Lanes(y)
               /\ Settled(x) => Settled(y)
               /\ Sound(x) => Sound(y)
               /\ Caused(x) => Caused(y)
<1> DEFINE y == [x EXCEPT !.stage = st]
<1>1. /\ y \in Selection /\ SameGround(x, y) /\ y.retry = x.retry
      /\ y.restored = x.restored /\ y.unavailable = x.unavailable
      /\ y.fallback = x.fallback /\ y.fresh = x.fresh
    BY StageIs
<1> HIDE DEF y
<1>2. Present(y) = Present(x) /\ (BuildBroken(y) <=> BuildBroken(x))
    BY <1>1, PresentDepends DEF SameGround
<1>3. \A s : AgeAtStart(y, s) = AgeAtStart(x, s) /\ Age(y, s) = Age(x, s)
    BY <1>1, AgesDepend DEF SameGround
<1>4. Lanes(x) => Lanes(y)
    BY <1>1 DEF Lanes, SameGround, Full
<1>5. OldDeclared(x) => OldDeclared(y)
    BY <1>1, <1>3 DEF OldDeclared
<1>6. Sound(x) => Sound(y)
    BY <1>1, <1>2, <1>3, <1>5 DEF Sound, Cause, SameGround
<1>7. Caused(x) => Caused(y)
    BY <1>1, <1>2, <1>3 DEF Caused, SameGround
<1> QED
    BY <1>1, <1>4, <1>5, <1>6, <1>7 DEF Settled, y

LEMMA BlockedIs ==
    ASSUME NEW x \in Selection, NEW y \in Selection, SameGround(x, y), Caused(y)
    PROVE  Stepped(x, Blocked(y))
<1> DEFINE z == [y EXCEPT !.stage = "blocked"]
<1>1. z \in Selection /\ SameGround(y, z) /\ z.stage = "blocked" /\ Caused(z)
    BY StageIs, StageApart DEF Stages
<1>2. Blocked(y) = z
    BY DEF Blocked
<1> HIDE DEF z
<1> QED
    BY <1>1, <1>2 DEF Stepped, Staged, SameGround

LEMMA PreflightStep ==
    ASSUME sel \in Selection, Staged(sel), Preflight
    PROVE  Stepped(sel, sel')
<1> DEFINE found == FoundEarly(sel)
           degraded == Implicated(found \ Hard(found))
           a == Admit(sel)
           b == [a EXCEPT !.fresh = a.fresh \cup degraded]
           x == FallBack(b, Implicated(Hard(found)))
           z == Restore(x)
<1>1. sel' = IF Unrouted(found) THEN Blocked(x) ELSE [z EXCEPT !.stage = "candidate"]
    BY DEF Preflight
<1>2. Lanes(sel) /\ (sel.retry # "none" => sel.unavailable = None)
    BY DEF Preflight, Staged
<1>3. a \in Selection /\ SameGround(sel, a) /\ a.restored = sel.restored /\ Lanes(a)
    BY <1>2, AdmitIs
<1>4. /\ found \subseteq Findings /\ found \subseteq sel.world
      /\ Hard(found) \subseteq Findings
    BY AuditSets DEF Hard
<1>5. degraded \in SUBSET Surfaces /\ Implicated(Hard(found)) \in SUBSET Surfaces
    BY <1>4, ImplicatedSurfaces
<1> HIDE DEF a, degraded
<1>6. a.fresh \cup degraded \in SUBSET Surfaces
    BY <1>3, <1>5 DEF Selection
<1>7. b \in Selection /\ SameGround(a, b) /\ b.retry = a.retry
      /\ b.unavailable = a.unavailable /\ b.fallback = a.fallback
    BY <1>3, <1>6, FreshIs
<1> HIDE DEF b
<1>8. Lanes(b)
    BY <1>3, <1>7 DEF Lanes, SameGround, Full
<1>9. x \in Selection /\ SameGround(b, x) /\ x.retry = b.retry
      /\ x.unavailable = b.unavailable /\ b.fallback \subseteq x.fallback
    BY <1>5, <1>7, FallBackIs
<1> HIDE DEF x
<1>10. Lanes(x)
    BY <1>7, <1>8, <1>9, LanesGrow DEF Lanes
<1>11. SameGround(sel, x)
    BY <1>3, <1>7, <1>9 DEF SameGround
<1>12. CASE Unrouted(found)
  <2>1. Caused(x)
    BY <1>4, <1>11, <1>12 DEF Unrouted, FoundEarly, Caused, SameGround
  <2> QED
    BY <1>1, <1>9, <1>11, <1>12, <2>1, BlockedIs
<1>13. CASE ~Unrouted(found)
  <2>1. z \in Selection /\ SameGround(x, z) /\ Lanes(z) /\ Settled(z)
    BY <1>9, <1>10, RestoreIs, RestoreSettles
  <2> HIDE DEF z
  <2> DEFINE c == [z EXCEPT !.stage = "candidate"]
  <2>2. /\ c \in Selection /\ SameGround(z, c) /\ c.stage = "candidate"
        /\ Lanes(c) /\ Settled(c)
    BY <2>1, StageIs, StageApart DEF Stages
  <2>3. sel' = c
    BY <1>1, <1>13
  <2> HIDE DEF c
  <2> QED
    BY <1>11, <2>1, <2>2, <2>3 DEF Stepped, Staged, SameGround
<1> QED
    BY <1>12, <1>13

\* What the audits block for, of the record x they look at.
LEMMA OverdueCaused ==
    ASSUME NEW x \in Selection, OldDeclared(x), Overdue(x)
    PROVE  \E s \in x.restored : AgeAtStart(x, s) =< MaxAge /\ Age(x, s) > MaxAge
<1>1. PICK s \in x.restored \ Declared(x) : Age(x, s) > MaxAge
    BY DEF Overdue
<1>2. s \in Surfaces
    BY <1>1 DEF Selection
<1>3. x.unavailable[s] = {}
    BY <1>1, <1>2 DEF Declared
<1>4. ~(AgeAtStart(x, s) > MaxAge)
    BY <1>1, <1>3 DEF OldDeclared
<1> QED
    BY <1>1, <1>2, <1>4, AgesAre, FindingFacts

LEMMA CausedDepends ==
    ASSUME NEW x, NEW y, SameGround(x, y), y.restored = x.restored, Caused(x)
    PROVE  Caused(y)
<1>1. Present(y) = Present(x) /\ (BuildBroken(y) <=> BuildBroken(x))
    BY PresentDepends DEF SameGround
<1>2. \A s : AgeAtStart(y, s) = AgeAtStart(x, s) /\ Age(y, s) = Age(x, s)
    BY AgesDepend DEF SameGround
<1> QED
    BY <1>1, <1>2 DEF Caused, SameGround

LEMMA AuditCaused ==
    ASSUME NEW x \in Selection, Settled(x), BuildBroken(x) => x.restored = Surfaces,
           BuildBroken(x) \/ Overdue(x) \/ Unrouted(Errors(x) \cup Degradations(x))
    PROVE  Caused(x)
<1>1. CASE BuildBroken(x)
    BY <1>1 DEF Caused
<1>2. CASE Overdue(x)
    BY <1>2, OverdueCaused DEF Caused, Settled
<1>3. CASE Unrouted(Errors(x) \cup Degradations(x))
    BY <1>3, AuditSets DEF Unrouted, Caused
<1> QED
    BY <1>1, <1>2, <1>3

\* The two exits of the audits to a selection: with nothing restored and no error,
\* and with restored surfaces that are declared for what is wrong with them.
LEMMA NothingRestored ==
    ASSUME NEW x \in Selection, NEW y \in Selection, SameGround(x, y), Lanes(y),
           x.restored = {}, y.restored = {}, y.fallback = {},
           Implicated(Errors(x)) = {}, ~Unrouted(Errors(x) \cup Degradations(x)),
           ~BuildBroken(x), Implicated(Degradations(x)) \subseteq y.fresh
    PROVE  Sound(y)
<1>1. Present(y) = Present(x)
    BY PresentDepends DEF SameGround
<1>2. Accepted(x) = {}
    BY DEF Accepted
<1>3. Errors(x) = {}
  <2> SUFFICES ASSUME NEW f \in Errors(x) PROVE FALSE
    OBVIOUS
  <2>1. f.surfaces # {}
    BY DEF Unrouted
  <2>2. f.surfaces \subseteq Implicated(Errors(x))
    BY AuditSets, ImplicatedSurfaces
  <2> QED
    BY <2>1, <2>2
<1>4. ASSUME NEW f \in Present(x)
      PROVE  /\ f.level \notin {"error", "budget", "build"}
             /\ f.level = "degradation" => f.surfaces \subseteq y.fresh
  <2>1. f.level \notin {"error", "budget"}
    BY <1>2, <1>3 DEF Errors
  <2>2. f.level # "build"
    BY DEF BuildBroken
  <2>3. f.level = "degradation" => f.surfaces \subseteq Implicated(Degradations(x))
    BY DEF Degradations, Implicated
  <2> QED
    BY <2>1, <2>2, <2>3
<1>5. \A s \in Surfaces : y.unavailable[s] = {}
    BY DEF Lanes
<1>6. y.forced \subseteq y.restored
      /\ (y.retry \in {"proved", "unproved"} => RetryPair \subseteq y.restored)
    BY DEF Lanes
<1> QED
    BY <1>1, <1>4, <1>5, <1>6 DEF Sound, OldDeclared

LEMMA AcceptedDepends ==
    ASSUME NEW x, NEW y, SameGround(x, y), y.restored = x.restored,
           y.unavailable = x.unavailable
    PROVE  Accepted(y) = Accepted(x)
<1>1. Present(y) = Present(x)
    BY PresentDepends DEF SameGround
<1>2. \A s : Age(y, s) = Age(x, s)
    BY AgesDepend DEF SameGround
<1>3. Overdue(y) <=> Overdue(x)
    BY <1>2 DEF Overdue, Declared
<1> QED
    BY <1>1, <1>3 DEF Accepted

LEMMA EverythingDeclared ==
    ASSUME NEW x \in Selection, NEW y \in Selection, SameGround(x, y), Lanes(y), Settled(y),
           y.restored = x.restored, y.unavailable = x.unavailable,
           Errors(x) = {}, ~BuildBroken(x), Needed(y) = y.unavailable,
           y.fresh \cap y.restored = {},
           Implicated(Degradations(x)) \subseteq y.fresh \cup y.restored
    PROVE  Sound(y)
<1>1. Present(y) = Present(x) /\ Accepted(y) = Accepted(x)
    BY PresentDepends, AcceptedDepends DEF SameGround
<1>2. ASSUME NEW f \in Present(x)
      PROVE  /\ f.level \notin {"budget", "build"}
             /\ f.level = "error" =>
                  f.surfaces \subseteq {s \in y.restored : f.code \in y.unavailable[s]}
             /\ f.level = "degradation" => f.surfaces \subseteq y.fresh \cup y.restored
  <2>1. f.level \in {"error", "budget"} => f \in Accepted(x)
    BY DEF Errors
  <2>2. f.level # "build"
    BY DEF BuildBroken
  <2>3. f \in Accepted(x) =>
          /\ f.level = "error"
          /\ f.surfaces \subseteq {s \in y.restored : f.code \in y.unavailable[s]}
    BY DEF Accepted
  <2>4. f.level = "degradation" => f.surfaces \subseteq Implicated(Degradations(x))
    BY DEF Degradations, Implicated
  <2> QED
    BY <2>1, <2>2, <2>3, <2>4
<1>3. ASSUME NEW s \in Surfaces, NEW code \in y.unavailable[s]
      PROVE  s \in y.restored /\ Cause(y, s, code)
  <2>1. code \in Needed(y)[s]
    OBVIOUS
  <2>2. CASE \E g \in Accepted(y) : s \in g.surfaces /\ code = g.code
    BY <2>2 DEF Accepted, Cause
  <2>3. CASE s \in ExpiredNow(y) /\ code = Expired
    BY <2>3 DEF ExpiredNow, Cause, Settled
  <2> QED
    BY <2>1, <2>2, <2>3 DEF Needed
<1>4. /\ y.restored = y.fallback /\ OldDeclared(y) /\ y.forced \subseteq y.restored
      /\ y.retry \in {"proved", "unproved"} => RetryPair \subseteq y.restored
    BY DEF Settled, Lanes
<1> QED
    BY <1>1, <1>2, <1>3, <1>4 DEF Sound

LEMMA CandidateStep ==
    ASSUME sel \in Selection, Staged(sel), CandidateAudit
    PROVE  Stepped(sel, sel')
<1> DEFINE x == Rebuild(sel)
           errors == Implicated(Errors(x))
           degraded == Implicated(Degradations(x))
           T == Together(x, errors)
           w == [x EXCEPT !.fresh = x.fresh \cup degraded]
           y == FallBack(w, T)
           broken == BuildBroken(x) \/ Overdue(x) \/ Unrouted(Errors(x) \cup Degradations(x))
<1>1. sel' = IF broken THEN Blocked(y)
             ELSE [y EXCEPT !.stage = IF y.fallback = {} THEN "selected" ELSE "final"]
    BY DEF CandidateAudit
<1>2. Lanes(sel) /\ Settled(sel)
    BY DEF CandidateAudit, Staged
<1>3. /\ x \in Selection /\ SameGround(sel, x) /\ x.retry = sel.retry
      /\ sel.fallback \subseteq x.fallback /\ Lanes(x) /\ Settled(x)
      /\ BuildBroken(x) => x.restored = Surfaces
    BY <1>2, RebuildIs
<1> HIDE DEF x
<1>4. errors \in SUBSET Surfaces /\ degraded \in SUBSET Surfaces
  <2>1. Errors(x) \subseteq Findings /\ Degradations(x) \subseteq Findings
    BY <1>3, AuditSets
  <2> QED
    BY <2>1, ImplicatedSurfaces
<1>5. T \in SUBSET Surfaces /\ errors \subseteq T
    BY <1>4, FindingFacts DEF Together
<1> HIDE DEF errors, degraded, T
<1>6. /\ w \in Selection /\ SameGround(x, w) /\ w.retry = x.retry
      /\ w.restored = x.restored /\ w.unavailable = x.unavailable
      /\ w.fallback = x.fallback /\ w.fresh = x.fresh \cup degraded
  <2>1. x.fresh \cup degraded \in SUBSET Surfaces
    BY <1>3, <1>4 DEF Selection
  <2> QED
    BY <1>3, <2>1, FreshIs
<1> HIDE DEF w
<1>7. /\ y \in Selection /\ SameGround(w, y) /\ y.retry = w.retry
      /\ y.restored = w.restored /\ y.unavailable = w.unavailable
      /\ y.fallback = w.fallback \cup T /\ y.fresh = w.fresh \ (w.fallback \cup T)
    BY <1>5, <1>6, FallBackIs
<1> HIDE DEF y
<1>8. SameGround(x, y) /\ SameGround(sel, y) /\ Lanes(y)
  <2>1. SameGround(x, y) /\ SameGround(sel, y)
    BY <1>3, <1>6, <1>7 DEF SameGround
  <2> QED
    BY <1>3, <1>6, <1>7, <2>1, LanesGrow DEF Lanes
<1>9. CASE broken
  <2>1. Caused(y)
    BY <1>3, <1>6, <1>7, <1>8, <1>9, AuditCaused, CausedDepends
  <2> QED
    BY <1>1, <1>7, <1>8, <1>9, <2>1, BlockedIs
<1>10. CASE ~broken /\ y.fallback = {}
  <2>1. x.restored = {} /\ T = {} /\ errors = {} /\ y.restored = {} /\ degraded \subseteq y.fresh
    BY <1>3, <1>5, <1>6, <1>7, <1>10 DEF Settled
  <2>2. Sound(y)
    BY <1>3, <1>7, <1>8, <1>10, <2>1, NothingRestored DEF errors, degraded
  <2> DEFINE z == [y EXCEPT !.stage = "selected"]
  <2>3. z \in Selection /\ SameGround(y, z) /\ z.stage = "selected" /\ Sound(z) /\ Lanes(z)
    BY <1>7, <1>8, <2>2, StageIs, StageApart DEF Stages
  <2>4. sel' = z
    BY <1>1, <1>10
  <2> HIDE DEF z
  <2> QED
    BY <1>8, <2>3, <2>4 DEF Stepped, Staged, SameGround
<1>11. CASE ~broken /\ y.fallback # {}
  <2> DEFINE z == [y EXCEPT !.stage = "final"]
  <2>1. z \in Selection /\ SameGround(y, z) /\ z.stage = "final" /\ Lanes(z)
    BY <1>7, <1>8, StageIs, StageApart DEF Stages
  <2>2. sel' = z
    BY <1>1, <1>11
  <2> HIDE DEF z
  <2> QED
    BY <1>8, <2>1, <2>2 DEF Stepped, Staged, SameGround
<1> QED
    BY <1>9, <1>10, <1>11

LEMMA UnavailableIs ==
    ASSUME NEW x \in Selection, NEW u \in [Surfaces -> SUBSET Nat]
    PROVE  LET y == [x EXCEPT !.unavailable = u]
           IN  /\ y \in Selection /\ SameGround(x, y)
               /\ y.stage = x.stage /\ y.retry = x.retry
               /\ y.restored = x.restored /\ y.unavailable = u
               /\ y.fallback = x.fallback
BY DEF Selection, SameGround

\* A pass that ends with other declarations.
LEMMA Redeclared ==
    ASSUME NEW x \in Selection, Lanes(x), x.stage = "final",
           NEW u \in [Surfaces -> SUBSET Nat],
           \A s \in Surfaces : u[s] # {} => s \in x.fallback
    PROVE  Stepped(x, [x EXCEPT !.unavailable = u])
<1> DEFINE y == [x EXCEPT !.unavailable = u]
<1>1. /\ y \in Selection /\ SameGround(x, y) /\ y.stage = "final" /\ y.retry = x.retry
      /\ y.unavailable = u /\ y.fallback = x.fallback
    BY UnavailableIs
<1> HIDE DEF y
<1>2. Lanes(y)
    BY <1>1, LanesGrow
<1>3. Stepped(x, y)
    BY <1>1, <1>2 DEF Stepped, Staged
<1> QED
    BY <1>3 DEF y

LEMMA FinalStep ==
    ASSUME sel \in Selection, Staged(sel), FinalPass
    PROVE  Stepped(sel, sel')
<1> DEFINE o == [sel EXCEPT !.odd = ~@]
           r == Restore(o)
           x == Rebuild(r)
           errors == Errors(x)
           fresh == (x.fresh \cup Implicated(Degradations(x)))
                      \ (x.fallback \cup Implicated(errors))
           y == [x EXCEPT !.fresh = fresh]
           more == Implicated(errors) \ x.restored
           undeclared == {f \in errors : \E s \in f.surfaces : f.code \notin x.unavailable[s]}
           broken == BuildBroken(x) \/ Overdue(x) \/ Unrouted(errors \cup Degradations(x))
<1>1. sel' =
        IF broken THEN Blocked(y)
        ELSE IF errors = {}
        THEN IF Needed(y) = y.unavailable THEN [y EXCEPT !.stage = "selected"]
             ELSE [y EXCEPT !.unavailable = Needed(y)]
        ELSE IF more # {} THEN FallBack(y, more)
        ELSE IF undeclared = {} \/ (\E f \in errors : f.level = "budget")
        THEN Blocked(y)
        ELSE Declare(y, undeclared)
    BY DEF FinalPass
<1>2. Lanes(sel) /\ sel.stage = "final"
    BY DEF FinalPass, Staged
<1>3. o \in Selection /\ SameGround(sel, o) /\ o.stage = "final" /\ Lanes(o)
  <2>1. /\ o \in Selection /\ SameGround(sel, o) /\ o.stage = "final"
        /\ o.retry = sel.retry /\ o.fallback = sel.fallback
        /\ o.unavailable = sel.unavailable
    BY <1>2 DEF Selection, SameGround
  <2> QED
    BY <1>2, <2>1 DEF Lanes, SameGround, Full
<1> HIDE DEF o
<1>4. r \in Selection /\ SameGround(o, r) /\ r.stage = "final" /\ Lanes(r) /\ Settled(r)
    BY <1>3, RestoreIs, RestoreSettles
<1> HIDE DEF r
<1>5. /\ x \in Selection /\ SameGround(r, x) /\ x.stage = "final"
      /\ Lanes(x) /\ Settled(x)
      /\ BuildBroken(x) => x.restored = Surfaces
    BY <1>4, RebuildIs
<1> HIDE DEF x
<1>6. /\ errors \subseteq Findings /\ Implicated(errors) \in SUBSET Surfaces
      /\ Implicated(Degradations(x)) \in SUBSET Surfaces
  <2>1. errors \subseteq Findings /\ Degradations(x) \subseteq Findings
    BY <1>5, AuditSets
  <2> QED
    BY <2>1, ImplicatedSurfaces
<1>7. fresh \in SUBSET Surfaces
    BY <1>5, <1>6 DEF Selection
<1>8. /\ y \in Selection /\ SameGround(x, y) /\ y.stage = "final" /\ y.retry = x.retry
      /\ y.restored = x.restored /\ y.unavailable = x.unavailable
      /\ y.fallback = x.fallback /\ y.fresh = fresh
    BY <1>5, <1>7, FreshIs
<1> HIDE DEF y
<1>9. SameGround(sel, y) /\ Lanes(y) /\ Settled(y)
  <2>1. SameGround(sel, y)
    BY <1>3, <1>4, <1>5, <1>8 DEF SameGround
  <2>2. Lanes(y)
    BY <1>5, <1>8 DEF Lanes, SameGround, Full
  <2>3. \A s : AgeAtStart(y, s) = AgeAtStart(x, s)
    BY <1>8, AgesDepend DEF SameGround
  <2>4. Settled(y)
    BY <1>5, <1>8, <2>3 DEF Settled, OldDeclared
  <2> QED
    BY <2>1, <2>2, <2>4
<1>10. \A z : Stepped(y, z) => Stepped(sel, z)
    BY <1>9 DEF Stepped, SameGround
<1>11. CASE broken
  <2>1. Caused(y)
    BY <1>5, <1>8, <1>11, AuditCaused, CausedDepends
  <2> QED
    BY <1>1, <1>8, <1>9, <1>11, <2>1, BlockedIs
<1>12. CASE ~broken /\ errors = {} /\ Needed(y) = y.unavailable
  <2>1. Implicated(errors) = {}
    BY <1>12 DEF Implicated
  <2>2. /\ y.fresh \cap y.restored = {}
        /\ Implicated(Degradations(x)) \subseteq y.fresh \cup y.restored
    <3>1. y.restored = x.fallback
      BY <1>5, <1>8 DEF Settled
    <3> QED
      BY <1>8, <2>1, <3>1
  <2>3. Sound(y)
    BY <1>5, <1>8, <1>9, <1>12, <2>2, EverythingDeclared
  <2> DEFINE z == [y EXCEPT !.stage = "selected"]
  <2>4. z \in Selection /\ SameGround(y, z) /\ z.stage = "selected" /\ Sound(z) /\ Lanes(z)
    BY <1>8, <1>9, <2>3, StageIs, StageApart DEF Stages
  <2>5. sel' = z
    BY <1>1, <1>12
  <2> HIDE DEF z
  <2> QED
    BY <1>9, <2>4, <2>5 DEF Stepped, Staged, SameGround
<1>13. CASE ~broken /\ errors = {} /\ Needed(y) # y.unavailable
  <2>1. \A f \in Accepted(y) : f.code \in Nat /\ f.surfaces \subseteq y.restored
    BY <1>8, AuditSets, FindingFacts DEF Accepted
  <2>2. Needed(y) \in [Surfaces -> SUBSET Nat]
    BY <2>1 DEF Needed, Expired
  <2>3. \A s \in Surfaces : Needed(y)[s] # {} => s \in y.fallback
    BY <1>9, <2>1 DEF Needed, ExpiredNow, Settled
  <2> QED
    BY <1>1, <1>8, <1>9, <1>10, <1>13, <2>2, <2>3, Redeclared
<1>14. CASE ~broken /\ errors # {} /\ more # {}
  <2> DEFINE z == FallBack(y, more)
  <2>1. /\ z \in Selection /\ SameGround(y, z) /\ z.stage = "final" /\ z.retry = y.retry
        /\ z.unavailable = y.unavailable /\ y.fallback \subseteq z.fallback
    BY <1>6, <1>8, FallBackIs
  <2>2. sel' = z
    BY <1>1, <1>14
  <2> HIDE DEF z
  <2>3. Lanes(z)
    BY <1>8, <1>9, <2>1, LanesGrow DEF Lanes
  <2> QED
    BY <1>10, <2>1, <2>2, <2>3 DEF Stepped, Staged
<1>15. CASE /\ ~broken /\ errors # {} /\ more = {}
            /\ undeclared = {} \/ (\E f \in errors : f.level = "budget")
  <2>1. Implicated(errors) \subseteq x.restored
    BY <1>15
  <2>2. \E f \in errors : f.level = "budget"
    <3> SUFFICES ASSUME undeclared = {}, \A f \in errors : f.level # "budget" PROVE FALSE
      BY <1>15
    <3>1. PICK f \in errors : TRUE
      BY <1>15
    <3>2. f \in Present(x) /\ f.level = "error" /\ f \notin Accepted(x)
      BY <3>1 DEF Errors
    <3>3. f.surfaces # {} /\ ~Overdue(x)
      BY <1>15 DEF Unrouted
    <3>4. f.surfaces \subseteq x.restored
      BY <1>6, <2>1, ImplicatedSurfaces
    <3>5. \A s \in f.surfaces : f.code \in x.unavailable[s]
      OBVIOUS
    <3> QED
      BY <3>2, <3>3, <3>4, <3>5 DEF Accepted
  <2>3. PICK f \in errors : f.level = "budget"
    BY <2>2
  <2>4. f \in Present(x) /\ f.surfaces \subseteq x.restored
    BY <1>5, <1>6, <2>1, AuditSets, ImplicatedSurfaces
  <2>5. Caused(x)
    BY <2>3, <2>4 DEF Caused
  <2>6. Caused(y)
    BY <1>8, <2>5, CausedDepends
  <2> QED
    BY <1>1, <1>8, <1>9, <1>15, <2>6, BlockedIs
<1>16. CASE /\ ~broken /\ errors # {} /\ more = {}
            /\ ~(undeclared = {} \/ (\E f \in errors : f.level = "budget"))
  <2> DEFINE u == [s \in Surfaces |-> y.unavailable[s]
                                        \cup {f.code : f \in {g \in undeclared : s \in g.surfaces}}]
  <2>1. sel' = [y EXCEPT !.unavailable = u]
    BY <1>1, <1>16 DEF Declare
  <2>2. \A f \in undeclared : f.code \in Nat /\ f.surfaces \subseteq x.restored
    <3>1. \A f \in undeclared : f.surfaces \subseteq Implicated(errors)
      BY <1>6, ImplicatedSurfaces
    <3> QED
      BY <1>6, <1>16, <3>1, FindingFacts
  <2> HIDE DEF undeclared
  <2>3. u \in [Surfaces -> SUBSET Nat]
    BY <1>8, <2>2 DEF Selection
  <2>4. \A s \in Surfaces : u[s] # {} => s \in y.fallback
    BY <1>8, <1>9, <2>2 DEF Lanes, Settled
  <2> HIDE DEF u
  <2> QED
    BY <1>8, <1>9, <1>10, <2>1, <2>3, <2>4, Redeclared
<1> QED
    BY <1>11, <1>12, <1>13, <1>14, <1>15, <1>16

----------------------------------------------------------------------------
(* The collections, and what is published *)

LEMMA IdleIs ==
    /\ Idle \in Selection /\ Staged(Idle) /\ Idle.stage = "idle" /\ Idle.elapsed = 0
    /\ AllCurrent \in Publication /\ DeclaredRestored(AllCurrent)
<1>1. None \in [Surfaces -> SUBSET Nat]
    BY DEF None
<1>2. [s \in Surfaces |-> Current] \in [Surfaces -> Ages]
    BY FindingFacts DEF Ages, Current
<1>3. Idle \in Selection /\ Idle.stage = "idle" /\ Idle.elapsed = 0
    BY <1>1, <1>2 DEF Idle, Selection, Stages
<1>4. AllCurrent \in Publication /\ DeclaredRestored(AllCurrent)
    BY <1>1, <1>2 DEF AllCurrent, Publication, DeclaredRestored, None
<1> QED
    BY <1>3, <1>4 DEF Staged

LEMMA SurfacesInit == Init => SurfacesInv
BY IdleIs DEF Init, SurfacesInv, ClocksAgree

LEMMA BeginStep ==
    ASSUME SurfacesInv, NEW surfaces \in SUBSET Surfaces, NEW t,
           t.kept \in SUBSET Surfaces, t.forced \in SUBSET Surfaces, t.world \in SUBSET Findings,
           t.retry \in {"none", "proved", "unproved"},
           NEW fallback \in SUBSET Surfaces, NEW fresh \in SUBSET Surfaces,
           NEW unavailable \in [Surfaces -> SUBSET Nat],
           Begin(surfaces, t, fallback, fresh, unavailable),
           t.forced \subseteq fallback,
           t.retry # "none" =>
               /\ RetryPair \subseteq fallback /\ unavailable = None
               /\ Surfaces \subseteq surfaces,
           \A s \in Surfaces : unavailable[s] # {} => s \in fallback,
           \A s \in Surfaces \ surfaces : pub.age[s] # Current => s \in fallback
    PROVE  SurfacesInv'
<1> DEFINE x == [Idle EXCEPT !.stage = "preflight", !.collected = surfaces \ t.kept,
                             !.kept = t.kept, !.forced = t.forced,
                             !.world = t.world, !.retry = t.retry,
                             !.before = pub.age,
                             !.fallback = fallback, !.fresh = fresh,
                             !.unavailable = unavailable]
<1>1. sel' = x /\ pub' = pub
    BY DEF Begin
<1>2. /\ x \in Selection
      /\ x.stage = "preflight" /\ x.collected = surfaces \ t.kept /\ x.kept = t.kept
      /\ x.forced = t.forced
      /\ x.retry = t.retry /\ x.before = pub.age /\ x.elapsed = 0
      /\ x.fallback = fallback /\ x.unavailable = unavailable
    BY IdleIs DEF SurfacesInv, Selection, Publication, Stages
<1> HIDE DEF x
<1>3. Lanes(x)
    BY <1>2 DEF Lanes, Full
<1>4. Staged(x)
    BY <1>2, <1>3 DEF Staged
<1>5. ClocksAgree(pub, x)
  <2>1. \A s \in Surfaces : pub.age[s] \in Ages
    BY DEF SurfacesInv, Publication
  <2> QED
    BY <1>2, <2>1, FindingFacts DEF ClocksAgree, Ages, Bounded, Current
<1> QED
    BY <1>1, <1>2, <1>4, <1>5 DEF SurfacesInv

LEMMA TroubleTypes ==
    ASSUME NEW surfaces \in SUBSET Surfaces, NEW t \in Troubles(surfaces)
    PROVE  /\ t.kept \in SUBSET Surfaces /\ t.forced \in SUBSET Surfaces
           /\ t.world \in SUBSET Findings /\ t.retry \in {"none", "proved", "unproved"}
BY DEF Troubles

LEMMA SurfacesStep ==
    ASSUME SurfacesInv, [Next]_vars
    PROVE  SurfacesInv'
<1>0. /\ pub \in Publication /\ sel \in Selection /\ Staged(sel)
      /\ ClocksAgree(pub, sel) /\ DeclaredRestored(pub)
    BY DEF SurfacesInv
<1>1. ASSUME NEW t \in Troubles(Surfaces), Collect(t) PROVE SurfacesInv'
  <2> DEFINE fallback == t.forced \cup (IF t.retry = "none" THEN {} ELSE RetryPair)
  <2>1. Begin(Surfaces, t, fallback, {}, None)
    BY <1>1 DEF Collect
  <2>2. fallback \in SUBSET Surfaces /\ t.forced \subseteq fallback
        /\ (t.retry # "none" => RetryPair \subseteq fallback)
    BY TroubleTypes, FindingFacts
  <2>3. None \in [Surfaces -> SUBSET Nat] /\ \A s \in Surfaces : None[s] = {}
    BY DEF None
  <2> HIDE DEF fallback
  <2> QED
    BY <2>1, <2>2, <2>3, TroubleTypes, BeginStep
<1>2. ASSUME NEW r \in Refreshable, NEW t \in Troubles({r}), Refresh(r, t) PROVE SurfacesInv'
  <2> DEFINE fallback == (Restored(pub) \ {r}) \cup t.forced
             fresh == pub.fresh \ {r}
             unavailable == [pub.unavailable EXCEPT ![r] = {}]
  <2>1. r \in Surfaces /\ {r} \in SUBSET Surfaces
    BY FindingFacts
  <2>2. Begin({r}, t, fallback, fresh, unavailable) /\ t.retry = "none"
    BY <1>2 DEF Refresh
  <2>3. t.kept \in SUBSET Surfaces /\ t.forced \in SUBSET Surfaces /\ t.world \in SUBSET Findings
    BY <2>1, TroubleTypes
  <2>4. fallback \in SUBSET Surfaces /\ t.forced \subseteq fallback /\ fresh \in SUBSET Surfaces
    BY <1>0, <2>3 DEF Restored, Publication
  <2>5. unavailable \in [Surfaces -> SUBSET Nat]
    BY <1>0 DEF Publication
  <2>6. \A s \in Surfaces \ {r} : pub.age[s] # Current => s \in fallback
    BY DEF Restored
  <2>7. \A s \in Surfaces : unavailable[s] # {} => s \in fallback
    BY <1>0, <2>6 DEF Publication, DeclaredRestored
  <2> HIDE DEF fallback, fresh, unavailable
  <2> QED
    BY <2>1, <2>2, <2>3, <2>4, <2>5, <2>6, <2>7, BeginStep
<1>3. ASSUME Preflight \/ CandidateAudit \/ FinalPass PROVE SurfacesInv'
  <2>1. Stepped(sel, sel') /\ pub' = pub /\ sel.stage # "idle"
    BY <1>0, <1>3, PreflightStep, CandidateStep, FinalStep
       DEF Preflight, CandidateAudit, FinalPass
  <2>2. ClocksAgree(pub, sel')
    BY <1>0, <2>1 DEF ClocksAgree, Stepped, SameGround
  <2> QED
    BY <1>0, <2>1, <2>2 DEF SurfacesInv, Stepped
<1>4. ASSUME Publish PROVE SurfacesInv'
  <2> DEFINE age == [s \in Surfaces |-> IF s \in sel.fallback THEN Age(sel, s) ELSE Current]
  <2>1. /\ sel' = Idle
        /\ pub' = [age |-> age, fresh |-> sel.fresh, unavailable |-> sel.unavailable]
    BY <1>4 DEF Publish, End
  <2>2. \A s \in Surfaces : Age(sel, s) \in Ages /\ Age(sel, s) # Current
    BY <1>0, AgesAre, FindingFacts DEF Ages, Current
  <2>3. age \in [Surfaces -> Ages]
    BY <2>2, FindingFacts DEF Ages, Current
  <2>4. Sound(sel)
    BY <1>0, <1>4 DEF Publish, Staged
  <2>5. \A s \in Surfaces : sel.unavailable[s] # {} => age[s] # Current
    BY <2>2, <2>4 DEF Sound
  <2> HIDE DEF age
  <2>6. pub' \in Publication /\ DeclaredRestored(pub')
    BY <1>0, <2>1, <2>3, <2>5 DEF Publication, Selection, DeclaredRestored
  <2> QED
    BY <2>1, <2>6, IdleIs DEF SurfacesInv, ClocksAgree
<1>5. ASSUME Discard PROVE SurfacesInv'
    BY <1>0, <1>5, IdleIs DEF Discard, End, SurfacesInv, ClocksAgree
<1>6. ASSUME Tick PROVE SurfacesInv'
  <2> DEFINE age == [s \in Surfaces |->
                       IF pub.age[s] = Current THEN Current ELSE Bounded(pub.age[s] + 1)]
             x == [sel EXCEPT !.elapsed = 1]
  <2>1. /\ sel.elapsed = 0 /\ pub' = [pub EXCEPT !.age = age]
        /\ sel' = IF sel.stage = "idle" THEN sel ELSE x
    BY <1>6 DEF Tick
  <2>2. \A s \in Surfaces :
           /\ pub.age[s] \in Ages
           /\ (IF pub.age[s] = Current THEN Current ELSE Bounded(pub.age[s] + 1)) \in Ages
           /\ age[s] = Current <=> pub.age[s] = Current
    BY <1>0, FindingFacts DEF Publication, Ages, Bounded, Current
  <2>3. age \in [Surfaces -> Ages]
    BY <2>2
  <2>4. pub' \in Publication /\ pub'.age = age /\ DeclaredRestored(pub')
    BY <1>0, <2>1, <2>2, <2>3 DEF Publication, DeclaredRestored
  <2>5. CASE sel.stage = "idle"
    BY <1>0, <2>1, <2>4, <2>5 DEF SurfacesInv, ClocksAgree
  <2>6. CASE sel.stage # "idle"
    <3>1. /\ x \in Selection /\ x.stage = sel.stage /\ x.before = sel.before /\ x.elapsed = 1
          /\ x.collected = sel.collected /\ x.kept = sel.kept
          /\ x.world = sel.world /\ x.forced = sel.forced
          /\ x.restored = sel.restored /\ x.fallback = sel.fallback /\ x.fresh = sel.fresh
          /\ x.unavailable = sel.unavailable /\ x.retry = sel.retry
      BY <1>0 DEF Selection
    <3> HIDE DEF x
    <3>2. Present(x) = Present(sel) /\ (BuildBroken(x) <=> BuildBroken(sel))
      BY <3>1, PresentDepends
    <3>3. \A s : AgeAtStart(x, s) = AgeAtStart(sel, s)
      BY <3>1, AgesDepend
    <3>4. \A s \in Surfaces : Age(sel, s) > MaxAge => Age(x, s) > MaxAge
      BY <1>0, <3>1, <3>3, AgesAre, FindingFacts
    <3>5. Lanes(sel) => Lanes(x)
      BY <3>1 DEF Lanes, Full
    <3>6. OldDeclared(sel) => OldDeclared(x)
      BY <3>1, <3>3 DEF OldDeclared
    <3>7. Sound(sel) => Sound(x)
      BY <3>1, <3>2, <3>3, <3>6 DEF Sound, Cause
    <3>8. sel.restored \subseteq Surfaces
      BY <1>0 DEF Selection
    <3>9. Caused(sel) => Caused(x)
      BY <3>1, <3>2, <3>3, <3>4, <3>8 DEF Caused
    <3>10. Staged(x)
      BY <1>0, <3>1, <3>5, <3>6, <3>7, <3>9 DEF Staged, Settled
    <3>11. ClocksAgree(pub', x)
      <4>1. \A s \in Surfaces : sel.before[s] \in Ages
        BY <1>0 DEF Selection
      <4> QED
        BY <1>0, <2>1, <2>2, <2>4, <2>6, <3>1, <4>1, FindingFacts
           DEF ClocksAgree, Bounded, Ages, Current
    <3> QED
      BY <2>1, <2>4, <2>6, <3>1, <3>10, <3>11 DEF SurfacesInv
  <2> QED
    BY <2>5, <2>6
<1>7. CASE UNCHANGED vars
    BY <1>0, <1>7 DEF vars, SurfacesInv
<1> QED
    BY <1>1, <1>2, <1>3, <1>4, <1>5, <1>6, <1>7 DEF Next

\* The fallback lane of every selection holds what it must, and the published
\* clocks move with it, whatever the collections meet.
THEOREM SurfacesInvariant == Spec => []SurfacesInv
<1> QED
    BY SurfacesInit, SurfacesStep, PTL DEF Spec

----------------------------------------------------------------------------
(* The properties *)

\* Whatever an audit may find, a selection that reaches publication is what its
\* lanes say, and every error of its tree lies on data declared for it.
THEOREM SelectionsAreSound == Spec => []SelectedSound
<1>1. SurfacesInv => SelectedSound
    BY DEF SurfacesInv, Staged, Sound, OldDeclared, SelectedSound
<1> QED
    BY <1>1, SurfacesInvariant, PTL

\* Whatever an audit may find, a collection is given up only for a reason that no
\* restored data can cure.
THEOREM BlocksAreCaused == Spec => []BlocksForCause
<1>1. SurfacesInv => BlocksForCause
    BY DEF SurfacesInv, Staged, Caused, BlocksForCause
<1> QED
    BY <1>1, SurfacesInvariant, PTL

LEMMA ClockStep ==
    ASSUME SurfacesInv, [Next]_vars, NEW s \in Surfaces,
           pub.age[s] # Current, pub' # pub,
           sel.stage = "selected" =>
               s \in sel.restored \cup (Surfaces \ (sel.collected \cup sel.kept))
    PROVE  pub'.age[s] >= pub.age[s]
<1>0. /\ pub \in Publication /\ sel \in Selection /\ Staged(sel)
      /\ ClocksAgree(pub, sel) /\ pub.age[s] \in Ages
    BY DEF SurfacesInv, Publication
<1>1. Publish \/ Tick
    BY DEF Next, vars, Collect, Refresh, Begin, Preflight, CandidateAudit, FinalPass, Discard
<1>2. CASE Publish
  <2>1. Sound(sel) /\ Lanes(sel) /\ sel.stage = "selected"
    BY <1>0, <1>2 DEF Publish, Staged
  <2>2. pub.age[s] = Bounded(sel.before[s] + sel.elapsed) /\ sel.before[s] # Current
    BY <1>0, <2>1 DEF ClocksAgree
  <2>3. s \in sel.fallback
    BY <2>1, <2>2, <1>2 DEF Sound, Lanes
  <2>4. pub'.age[s] = Age(sel, s)
    BY <1>2, <2>3 DEF Publish
  <2>5. Age(sel, s) = pub.age[s]
    BY <2>2 DEF Age, AgeAtStart
  <2> QED
    BY <1>0, <2>4, <2>5 DEF Ages
<1>3. CASE Tick
  <2>1. pub'.age[s] = Bounded(pub.age[s] + 1)
    BY <1>0, <1>3 DEF Tick, Publication
  <2> QED
    BY <1>0, <2>1, FindingFacts DEF Bounded, Ages
<1> QED
    BY <1>1, <1>2, <1>3

\* A surface that was published as restored stays restored and its clock never goes
\* back, however many collections and reconciliations carry it on, until its collected
\* data is accepted or a collection that should collect it keeps its published files.
THEOREM ClocksAreKept == Spec => ClockKept
<1>1. SurfacesInv /\ [Next]_vars =>
        [ \A s \in Surfaces :
            /\ pub.age[s] # Current /\ pub' # pub
            /\ sel.stage = "selected" =>
                 s \in sel.restored \cup (Surfaces \ (sel.collected \cup sel.kept))
            => pub'.age[s] >= pub.age[s] ]_vars
    BY ClockStep
<1> QED
    BY <1>1, SurfacesInvariant, PTL DEF Spec, ClockKept
=============================================================================
