-------------------------- MODULE FailureWatchProofs --------------------------
(***************************************************************************)
(* The incidents of the watcher and of the pulse, for any number of groups  *)
(* and builds: WatchInv relates every incident to the builds it rests on     *)
(* and to the fence of its group, in each copy of the state, and orders the  *)
(* copies by their fences.                                                   *)
(***************************************************************************)
EXTENDS FailureWatch, FiniteSetTheorems, SequenceTheorems, WellFoundedInduction,
        NaturalsInduction, TLAPS

Incident == [status : {"clear", "pending", "confirmed"}, start : 0..N, last : 0..N]
Fence == [build : 0..N, result : {"none", "pass", "soft", "hard"}]
State == [inc : [Groups -> Incident], fence : [Groups -> Fence],
          done : SUBSET Builds, through : 0..N]
Branch == [inc : [Groups -> Incident], fence : [Groups -> Fence],
           done : SUBSET Builds, cursor : 0..N]

Results(R) ==
    /\ DOMAIN R \subseteq Builds
    /\ \A n \in DOMAIN R : /\ DOMAIN R[n] \subseteq Groups
                           /\ \A g \in DOMAIN R[n] : R[n][g] \in {"pass", "soft", "hard"}

\* What group g showed in build n.
Gave(R, g, n, r) == n \in DOMAIN R /\ g \in DOMAIN R[n] /\ R[n][g] = r

\* The failures that confirm an incident from build a to build b.
Backed(R, g, a, b) ==
    \/ \E n \in a..b : Gave(R, g, n, "hard")
    \/ \E m, n \in a..b : m # n /\ Gave(R, g, m, "soft") /\ Gave(R, g, n, "soft")

\* An incident e of group g with the builds it rests on, ...
Evident(R, g, e) ==
    /\ e.status = "clear" => e.start = 0 /\ e.last = 0
    /\ e.status = "pending" => e.start = e.last /\ Gave(R, g, e.last, "soft")
    /\ e.status = "confirmed" => Backed(R, g, e.start, e.last)

\* ... and with the fence f of the group: it says the same and is not older.
Agrees(R, g, e, f) ==
    /\ f.result # "none" => Gave(R, g, f.build, f.result)
    /\ f.result = "none" => f.build = 0
    /\ f.result \in {"none", "pass"} => e.status = "clear"
    /\ f.result = "soft" => e.status # "clear"
    /\ f.result = "hard" => e.status = "confirmed"
    /\ e.last =< f.build

Fits(R, g, e, f) == Evident(R, g, e) /\ Agrees(R, g, e, f)

Good(R, s) ==
    /\ s.inc \in [Groups -> Incident]
    /\ s.fence \in [Groups -> Fence]
    /\ \A g \in Groups : Fits(R, g, s.inc[g], s.fence[g])

Behind(s, z) == \A g \in Groups : s.fence[g].build =< z.fence[g].build

----------------------------------------------------------------------------
\* Numbers.

LEMMA Bounds == N \in Nat /\ N > 0 /\ Builds = 1..N /\ Gaps \in BOOLEAN
BY WatchAssumption DEF WatchAssumption, Builds

\* What a build may show.
LEMMA OutcomeIs ==
    ASSUME NEW n \in Builds, NEW o \in Outcomes[n]
    PROVE  /\ DOMAIN o \subseteq Groups
           /\ \A g \in DOMAIN o : o[g] \in {"pass", "soft", "hard"}
<1>1. DOMAIN o \subseteq Groups /\ o \in [DOMAIN o -> {"pass", "soft", "hard"}]
    BY WatchAssumption DEF WatchAssumption, Builds
<1> QED
    BY <1>1

LEMMA LeastNatural ==
    ASSUME NEW T, T \subseteq Nat, T # {}
    PROVE  \E x \in T : \A y \in T : x =< y
<1> DEFINE R == OpToRel(<, Nat)
<1>1. IsWellFoundedOn(R, Nat)
    BY NatLessThanWellFounded
<1>2. \A x, y \in Nat : y < x => <<y, x>> \in R
    BY DEF OpToRel
<1> HIDE DEF R
<1>3. PICK x \in T : \A y \in T : ~ (<<y, x>> \in R)
    BY <1>1, WFMin
<1>4. x \in Nat /\ \A y \in T : y \in Nat
    OBVIOUS
<1>5. \A y \in T : ~ (y < x)
    BY <1>2, <1>3, <1>4
<1>6. \A y \in T : x =< y
    BY <1>4, <1>5
<1> QED
    BY <1>6

LEMMA MinIs ==
    ASSUME NEW S, S \subseteq 0..N, S # {}
    PROVE  Min(S) \in S /\ \A y \in S : Min(S) =< y
<1>1. S \subseteq Nat
    BY Bounds
<1>2. \E x \in S : \A y \in S : x =< y
    BY <1>1, LeastNatural
<1> QED
    BY <1>2 DEF Min

LEMMA MaxIs ==
    ASSUME NEW S, S \subseteq 0..N, S # {}
    PROVE  Max(S) \in S /\ \A y \in S : Max(S) >= y
<1> DEFINE T == {N - x : x \in S}
<1>1. T \subseteq Nat /\ T # {}
  <2>1. \A x \in S : x \in 0..N /\ N - x \in Nat
      BY Bounds
  <2> QED
      BY <2>1
<1> HIDE DEF T
<1>2. PICK t \in T : \A u \in T : t =< u
    BY <1>1, LeastNatural
<1> USE DEF T
<1>3. PICK x \in S : t = N - x
    BY <1>2
<1>4. \A y \in S : N - x =< N - y
    BY <1>2, <1>3
<1>5. \A y \in S : x >= y
    BY <1>4, Bounds
<1> QED
    BY <1>5 DEF Max

----------------------------------------------------------------------------
\* One result.

LEMMA ConfirmedIs ==
    ASSUME NEW e \in Incident, NEW n \in Builds
    PROVE  /\ Confirmed(e, n) \in Incident
           /\ Confirmed(e, n).status = "confirmed"
           /\ Confirmed(e, n).last = n
           /\ Confirmed(e, n).start = IF e.start = 0 THEN n ELSE e.start
<1> DEFINE k == IF e.start = 0 THEN n ELSE e.start
<1>1. Confirmed(e, n) = [e EXCEPT !.status = "confirmed", !.last = n, !.start = k]
    BY DEF Confirmed
<1>2. k \in 0..N /\ n \in 0..N
    BY Bounds DEF Incident
<1> HIDE DEF k
<1>3. /\ Confirmed(e, n) \in Incident
      /\ Confirmed(e, n).status = "confirmed"
      /\ Confirmed(e, n).last = n
      /\ Confirmed(e, n).start = k
    BY <1>1, <1>2 DEF Incident
<1> QED
    BY <1>3 DEF k

LEMMA BackedBy ==
    ASSUME NEW R, NEW g, NEW a, NEW b, NEW n \in a..b, Gave(R, g, n, "hard")
    PROVE  Backed(R, g, a, b)
BY DEF Backed

LEMMA BackedTwice ==
    ASSUME NEW R, NEW g, NEW a, NEW b, NEW m \in a..b, NEW n \in a..b, m # n,
           Gave(R, g, m, "soft"), Gave(R, g, n, "soft")
    PROVE  Backed(R, g, a, b)
BY DEF Backed

LEMMA BackedLonger ==
    ASSUME NEW R, NEW g, NEW a \in 0..N, NEW b \in 0..N, NEW c \in 0..N, b =< c,
           Backed(R, g, a, b)
    PROVE  Backed(R, g, a, c)
<1>1. a..b \subseteq a..c
    BY Bounds
<1>2. CASE \E n \in a..b : Gave(R, g, n, "hard")
    BY <1>1, <1>2 DEF Backed
<1>3. CASE \E m, n \in a..b : m # n /\ Gave(R, g, m, "soft") /\ Gave(R, g, n, "soft")
    BY <1>1, <1>3 DEF Backed
<1> QED
    BY <1>2, <1>3 DEF Backed

\* Only a pass ends a confirmed incident e for the incident a.
Passing(e, r, a) == \/ e.status # "confirmed" \/ r = "pass" \/ a.status = "confirmed"

\* A result in a build that is newer than the fence leaves an incident that fits it.
LEMMA AdvanceFits ==
    ASSUME NEW R, Results(R), NEW g, NEW e \in Incident, NEW f \in Fence,
           Fits(R, g, e, f), NEW n \in Builds, f.build < n,
           NEW r \in {"pass", "soft", "hard"}, Gave(R, g, n, r)
    PROVE  /\ Advance(e, r, n) \in Incident
           /\ Fits(R, g, Advance(e, r, n), [build |-> n, result |-> r])
           /\ Passing(e, r, Advance(e, r, n))
<1> DEFINE a == Advance(e, r, n)
           h == [build |-> n, result |-> r]
<1>1. /\ n \in 1..N /\ e.start \in 0..N /\ e.last \in 0..N /\ f.build \in 0..N
      /\ e.status \in {"clear", "pending", "confirmed"} /\ e.last < n
    BY Bounds DEF Incident, Fence, Fits, Agrees
<1>2. h.build = n /\ h.result = r
    OBVIOUS
<1>3. CASE r = "pass"
  <2>1. a = Clear
      BY <1>3 DEF Advance
  <2>4. Clear \in Incident
      BY Bounds DEF Clear, Incident
  <2>2. Evident(R, g, Clear)
      BY DEF Evident, Clear
  <2>3. Agrees(R, g, Clear, h)
      BY <1>1, <1>2, <1>3, Bounds DEF Agrees, Clear
  <2> QED
      BY <1>3, <2>1, <2>2, <2>3, <2>4 DEF Passing, Fits
<1>4. CASE r = "hard"
  <2>1. a = Confirmed(e, n)
      BY <1>4 DEF Advance
  <2>2. a \in Incident /\ a.status = "confirmed" /\ a.last = n
        /\ a.start = (IF e.start = 0 THEN n ELSE e.start)
      BY <2>1, ConfirmedIs
  <2>3. e.start =< n
    <3>1. CASE e.status = "clear"
        BY <1>1, <3>1 DEF Fits, Evident
    <3>2. CASE e.status = "pending"
        BY <1>1, <3>2 DEF Fits, Evident
    <3>3. CASE e.status = "confirmed"
      <4>1. Backed(R, g, e.start, e.last)
          BY <3>3 DEF Fits, Evident
      <4>2. \E m \in e.start..e.last : TRUE
          BY <4>1 DEF Backed
      <4> QED
          BY <1>1, <4>2
    <3> QED
        BY <1>1, <3>1, <3>2, <3>3
  <2>4. n \in a.start..a.last
      BY <1>1, <2>2, <2>3
  <2> HIDE DEF a, h
  <2>5. Backed(R, g, a.start, a.last)
      BY <1>4, <2>4, BackedBy
  <2>6. Evident(R, g, a)
      BY <2>2, <2>5 DEF Evident
  <2>7. Agrees(R, g, a, h)
      BY <1>1, <1>2, <1>4, <2>2 DEF Agrees
  <2>8. a \in Incident /\ Fits(R, g, a, h) /\ a.status = "confirmed"
      BY <2>2, <2>6, <2>7 DEF Fits
  <2> QED
      BY <2>8 DEF Passing, a, h
<1>5. CASE r = "soft" /\ e.status = "confirmed"
  <2>1. a = [e EXCEPT !.last = n]
      BY <1>5 DEF Advance
  <2>2. a \in Incident /\ a.status = "confirmed" /\ a.last = n /\ a.start = e.start
      BY <1>1, <1>5, <2>1, Bounds DEF Incident
  <2> HIDE DEF a, h
  <2>3. Backed(R, g, e.start, e.last)
      BY <1>5 DEF Fits, Evident
  <2>4. Backed(R, g, e.start, n)
      BY <1>1, <2>3, Bounds, BackedLonger
  <2>5. Evident(R, g, a)
      BY <2>2, <2>4 DEF Evident
  <2>6. Agrees(R, g, a, h)
      BY <1>1, <1>2, <1>5, <2>2 DEF Agrees
  <2>7. a \in Incident /\ Fits(R, g, a, h) /\ a.status = "confirmed"
      BY <2>2, <2>5, <2>6 DEF Fits
  <2> QED
      BY <2>7 DEF Passing, a, h
<1>6. CASE r = "soft" /\ e.status = "pending"
  <2>1. a = Confirmed(e, n)
      BY <1>1, <1>6 DEF Advance
  <2>2. e.start = e.last /\ Gave(R, g, e.last, "soft")
      BY <1>6 DEF Fits, Evident
  <2>3. e.start \in 1..N
      BY <1>1, <2>2, Bounds DEF Gave, Results
  <2>4. a \in Incident /\ a.status = "confirmed" /\ a.last = n
        /\ a.start = e.start
      BY <2>1, <2>3, ConfirmedIs
  <2>5. e.start \in a.start..a.last /\ n \in a.start..a.last /\ e.start # n
      BY <1>1, <2>2, <2>3, <2>4
  <2> HIDE DEF a, h
  <2>6. Backed(R, g, a.start, a.last)
      BY <1>6, <2>2, <2>5, BackedTwice
  <2>7. Evident(R, g, a)
      BY <2>4, <2>6 DEF Evident
  <2>8. Agrees(R, g, a, h)
      BY <1>1, <1>2, <1>6, <2>4 DEF Agrees
  <2>9. a \in Incident /\ Fits(R, g, a, h)
      BY <2>4, <2>7, <2>8 DEF Fits
  <2> QED
      BY <1>6, <2>9 DEF Passing, a, h
<1>7. CASE r = "soft" /\ e.status = "clear"
  <2>1. a = [e EXCEPT !.status = "pending", !.start = n, !.last = n]
      BY <1>7 DEF Advance
  <2>2. a \in Incident /\ a.status = "pending" /\ a.last = n /\ a.start = n
    <3>1. n \in 0..N /\ "pending" \in {"clear", "pending", "confirmed"}
        BY Bounds
    <3> HIDE DEF a
    <3> QED
        BY <2>1, <3>1 DEF Incident
  <2> HIDE DEF a, h
  <2>3. Evident(R, g, a)
      BY <1>7, <2>2 DEF Evident
  <2>4. Agrees(R, g, a, h)
      BY <1>1, <1>2, <1>7, <2>2 DEF Agrees
  <2>5. a \in Incident /\ Fits(R, g, a, h)
      BY <2>2, <2>3, <2>4 DEF Fits
  <2> QED
      BY <1>7, <2>5 DEF Passing, a, h
<1> QED
    BY <1>1, <1>3, <1>4, <1>5, <1>6, <1>7

----------------------------------------------------------------------------
\* A build.

\* Group g passed in a build after n.
PassedAfter(R, g, n) == \E m \in DOMAIN R : m > n /\ Gave(R, g, m, "pass")

\* What processing builds makes of a state s: the incidents fit, the fences grow,
\* and a confirmed incident ends for a newer pass only.
From(R, s, z) ==
    /\ z \in State /\ Good(R, z)
    /\ z.done = s.done /\ z.through = s.through
    /\ Behind(s, z)
    /\ \A g \in Groups : s.inc[g].status = "confirmed" =>
          z.inc[g].status = "confirmed" \/ PassedAfter(R, g, s.fence[g].build)

LEMMA FenceIs ==
    ASSUME NEW n \in Builds, NEW r \in {"pass", "soft", "hard"}
    PROVE  [build |-> n, result |-> r] \in Fence
BY Bounds DEF Fence

LEMMA ObserveIs ==
    ASSUME NEW z \in State, NEW n, DOMAIN runs[n] \subseteq Groups
    PROVE  /\ Observe(z, n).done = z.done /\ Observe(z, n).through = z.through
           /\ Observe(z, n).inc = [g \in Groups |->
                 IF g \in DOMAIN runs[n] /\ ~Fenced(z, g, n)
                 THEN Advance(z.inc[g], runs[n][g], n) ELSE z.inc[g]]
           /\ Observe(z, n).fence = [g \in Groups |->
                 IF g \in DOMAIN runs[n] /\ ~Fenced(z, g, n)
                 THEN [build |-> n, result |-> runs[n][g]] ELSE z.fence[g]]
           /\ Observe(z, n) = [inc |-> Observe(z, n).inc, fence |-> Observe(z, n).fence,
                               done |-> z.done, through |-> z.through]
<1> DEFINE new == {g \in DOMAIN runs[n] : ~Fenced(z, g, n)}
           inc == [g \in Groups |->
                     IF g \in new THEN Advance(z.inc[g], runs[n][g], n) ELSE z.inc[g]]
           fence == [g \in Groups |->
                       IF g \in new THEN [build |-> n, result |-> runs[n][g]] ELSE z.fence[g]]
<1>1. Observe(z, n) = [z EXCEPT !.inc = inc, !.fence = fence]
    BY DEF Observe
<1>2. \A g \in Groups : g \in new <=> g \in DOMAIN runs[n] /\ ~Fenced(z, g, n)
    OBVIOUS
<1> HIDE DEF new
<1>3. /\ inc = [g \in Groups |->
                  IF g \in DOMAIN runs[n] /\ ~Fenced(z, g, n)
                  THEN Advance(z.inc[g], runs[n][g], n) ELSE z.inc[g]]
      /\ fence = [g \in Groups |->
                    IF g \in DOMAIN runs[n] /\ ~Fenced(z, g, n)
                    THEN [build |-> n, result |-> runs[n][g]] ELSE z.fence[g]]
    BY <1>2
<1> HIDE DEF inc, fence
<1>4. Observe(z, n) = [inc |-> inc, fence |-> fence, done |-> z.done, through |-> z.through]
    BY <1>1 DEF State
<1> QED
    BY <1>3, <1>4

LEMMA ObserveKeeps ==
    ASSUME NEW s \in State, NEW z, From(runs, s, z), Results(runs), NEW n \in DOMAIN runs
    PROVE  From(runs, s, Observe(z, n))
<1> DEFINE o == Observe(z, n)
           new(g) == g \in DOMAIN runs[n] /\ ~Fenced(z, g, n)
<1>1. /\ n \in Builds /\ DOMAIN runs[n] \subseteq Groups
      /\ \A g \in DOMAIN runs[n] : runs[n][g] \in {"pass", "soft", "hard"}
    BY DEF Results
<1>2. z \in State /\ Good(runs, z) /\ Behind(s, z)
    BY DEF From
<1>3. /\ o.done = z.done /\ o.through = z.through
      /\ o.inc = [g \in Groups |->
                    IF new(g) THEN Advance(z.inc[g], runs[n][g], n) ELSE z.inc[g]]
      /\ o.fence = [g \in Groups |->
                      IF new(g) THEN [build |-> n, result |-> runs[n][g]] ELSE z.fence[g]]
      /\ o = [inc |-> o.inc, fence |-> o.fence, done |-> z.done, through |-> z.through]
    BY <1>1, <1>2, ObserveIs
<1>4. \A g \in Groups : new(g) => z.fence[g].build < n
  <2>1. \A g \in Groups : z.fence[g].build \in 0..N
      BY <1>2 DEF State, Fence
  <2> QED
      BY <1>1, <2>1, Bounds DEF Fenced
<1> HIDE DEF o, new
<1>5. ASSUME NEW g \in Groups
      PROVE  /\ o.inc[g] \in Incident /\ o.fence[g] \in Fence
             /\ Fits(runs, g, o.inc[g], o.fence[g])
             /\ s.fence[g].build =< o.fence[g].build
             /\ s.inc[g].status = "confirmed" =>
                   o.inc[g].status = "confirmed" \/ PassedAfter(runs, g, s.fence[g].build)
  <2>1. /\ z.inc[g] \in Incident /\ z.fence[g] \in Fence
        /\ Fits(runs, g, z.inc[g], z.fence[g])
        /\ s.fence[g].build =< z.fence[g].build
        /\ s.inc[g].status = "confirmed" =>
              z.inc[g].status = "confirmed" \/ PassedAfter(runs, g, s.fence[g].build)
      BY <1>2 DEF State, Good, Behind, From
  <2>2. CASE ~new(g)
    <3>1. o.inc[g] = z.inc[g] /\ o.fence[g] = z.fence[g]
        BY <1>3, <2>2
    <3> QED
        BY <2>1, <3>1
  <2>3. CASE new(g)
    <3> DEFINE r == runs[n][g]
               a == Advance(z.inc[g], r, n)
               h == [build |-> n, result |-> r]
    <3>1. o.inc[g] = a /\ o.fence[g] = h
        BY <1>3, <2>3
    <3>2. g \in DOMAIN runs[n]
        BY <2>3 DEF new
    <3>3. r \in {"pass", "soft", "hard"} /\ Gave(runs, g, n, r)
        BY <1>1, <3>2 DEF Gave
    <3>4. z.fence[g].build < n
        BY <1>4, <2>3
    <3>5. h \in Fence /\ h.build = n
        BY <1>1, <3>3, FenceIs
    <3> HIDE DEF r, h
    <3>6. /\ a \in Incident
          /\ Fits(runs, g, a, [build |-> n, result |-> r])
          /\ Passing(z.inc[g], r, a)
      <4>1. n \in Builds /\ z.inc[g] \in Incident /\ z.fence[g] \in Fence
            /\ Fits(runs, g, z.inc[g], z.fence[g])
          BY <1>1, <2>1
      <4> QED
          BY <3>3, <3>4, <4>1, AdvanceFits
    <3> HIDE DEF a
    <3>7. s.fence[g].build < n
      <4>1. s.fence[g].build \in Nat /\ z.fence[g].build \in Nat /\ n \in Nat
          BY <1>1, <2>1, Bounds DEF State, Fence
      <4> QED
          BY <2>1, <3>4, <4>1
    <3>8. s.fence[g].build =< h.build
      <4>1. s.fence[g].build \in Nat /\ n \in Nat
          BY <1>1, Bounds DEF State, Fence
      <4> QED
          BY <3>5, <3>7, <4>1
    <3>9. r = "pass" => PassedAfter(runs, g, s.fence[g].build)
      <4>1. n > s.fence[g].build
        <5>1. s.fence[g].build \in Nat /\ n \in Nat
            BY <1>1, Bounds DEF State, Fence
        <5> QED
            BY <3>7, <5>1
      <4> QED
          BY <3>3, <4>1 DEF PassedAfter
    <3>10. Fits(runs, g, a, h)
        BY <3>6 DEF h
    <3> QED
        BY <2>1, <3>1, <3>5, <3>6, <3>8, <3>9, <3>10 DEF Passing
  <2> QED
      BY <2>2, <2>3
<1>6. o.inc \in [Groups -> Incident] /\ o.fence \in [Groups -> Fence]
    BY <1>3, <1>5
<1>7. o \in State
    BY <1>2, <1>3, <1>6 DEF State
<1>8. Good(runs, o)
    BY <1>5, <1>6 DEF Good
<1>9. o.done = s.done /\ o.through = s.through
    BY <1>3 DEF From
<1>10. From(runs, s, o)
    BY <1>5, <1>7, <1>8, <1>9 DEF From, Behind
<1> QED
    BY <1>10 DEF o

\* The builds one after the other.
LEMMA ReplayKeeps ==
    ASSUME NEW s \in State, Good(runs, s), Results(runs), NEW builds \in SUBSET DOMAIN runs
    PROVE  From(runs, s, Replay(s, builds))
<1> DEFINE todo == {n \in builds \ s.done : n > s.through}
           after[n \in 0..N] == IF n = 0 THEN s
                                ELSE IF n \in todo THEN Observe(after[n - 1], n)
                                ELSE after[n - 1]
           Solves(f, n) == f = [m \in 0..n |-> IF m = 0 THEN s
                                                ELSE IF m \in todo THEN Observe(f[m - 1], m)
                                                ELSE f[m - 1]]
           unsolved == {n \in 0..N : ~ \E f : Solves(f, n)}
<1>1. Replay(s, builds) = after[N]
    BY DEF Replay
<1>2. todo \subseteq DOMAIN runs
    OBVIOUS
<1> HIDE DEF todo
<1>3. ASSUME unsolved # {} PROVE FALSE
  <2>1. unsolved \subseteq Nat
      BY Bounds
  <2>2. PICK n \in unsolved : \A m \in unsolved : n =< m
    <3> HIDE DEF unsolved
    <3> QED
        BY <1>3, <2>1, LeastNatural
  <2>3. n \in 0..N /\ ~ \E f : Solves(f, n)
      OBVIOUS
  <2>4. n # 0
    <3>1. Solves([m \in 0..0 |-> s], 0)
        OBVIOUS
    <3> QED
        BY <2>3, <3>1
  <2>5. n - 1 \in 0..N /\ n - 1 \notin unsolved
    <3> HIDE DEF unsolved
    <3> QED
        BY <2>2, <2>3, <2>4, Bounds
  <2>6. PICK f : Solves(f, n - 1)
    <3> HIDE DEF Solves
    <3> QED
        BY <2>5
  <2> DEFINE h == [m \in 0..n |-> IF m = 0 THEN s
                                   ELSE IF m \in todo THEN Observe(f[m - 1], m)
                                   ELSE f[m - 1]]
  <2>7. \A m \in 0..(n - 1) : h[m] = f[m]
      BY <2>3, <2>6
  <2>8. \A m \in 0..n : m # 0 => m - 1 \in 0..(n - 1)
      BY <2>3, Bounds
  <2>9. Solves(h, n)
      BY <2>7, <2>8
  <2> QED
      BY <2>3, <2>9
<1>4. PICK f : Solves(f, N)
  <2>1. N \in 0..N
      BY Bounds
  <2> HIDE DEF Solves
  <2> QED
      BY <1>3, <2>1
<1>5. Solves(after, N)
    BY <1>4
<1>6. \A n \in 0..N : after[n] = IF n = 0 THEN s
                                  ELSE IF n \in todo THEN Observe(after[n - 1], n)
                                  ELSE after[n - 1]
  <2> HIDE DEF after
  <2> QED
    BY <1>5
<1> HIDE DEF after, Solves, unsolved
<1> DEFINE bad == {n \in 0..N : ~From(runs, s, after[n])}
<1>7. ASSUME bad # {} PROVE FALSE
  <2>1. bad \subseteq Nat
      BY Bounds
  <2>2. PICK n \in bad : \A m \in bad : n =< m
    <3> HIDE DEF bad
    <3> QED
        BY <1>7, <2>1, LeastNatural
  <2>3. n \in 0..N /\ ~From(runs, s, after[n])
      OBVIOUS
  <2>4. n # 0
    <3>1. Behind(s, s)
      <4>1. \A g \in Groups : s.fence[g].build \in Nat
          BY Bounds DEF State, Fence
      <4> QED
          BY <4>1 DEF Behind
    <3>2. From(runs, s, s)
        BY <3>1 DEF From
    <3>3. after[0] = s
        BY <1>6, Bounds
    <3> QED
        BY <2>3, <3>2, <3>3
  <2>5. n - 1 \in 0..N /\ n - 1 \notin bad
    <3> HIDE DEF bad
    <3> QED
        BY <2>2, <2>3, <2>4, Bounds
  <2>6. From(runs, s, after[n - 1])
      BY <2>5
  <2>7. CASE n \in todo
    <3>1. after[n] = Observe(after[n - 1], n) /\ n \in DOMAIN runs
        BY <1>2, <1>6, <2>3, <2>4, <2>7
    <3> QED
        BY <2>3, <2>6, <3>1, ObserveKeeps
  <2>8. CASE n \notin todo
    <3>1. after[n] = after[n - 1]
        BY <1>6, <2>3, <2>4, <2>8
    <3> QED
        BY <2>3, <2>6, <3>1
  <2> QED
      BY <2>7, <2>8
<1>8. From(runs, s, after[N])
    BY <1>7, Bounds
<1> QED
    BY <1>1, <1>8

----------------------------------------------------------------------------
\* Whole states.

LEMMA BlankFits ==
    ASSUME NEW R, NEW g
    PROVE  Clear \in Incident /\ NoFence \in Fence /\ Fits(R, g, Clear, NoFence)
BY Bounds DEF Clear, NoFence, Incident, Fence, Fits, Evident, Agrees

LEMMA BlankGood ==
    ASSUME NEW R
    PROVE  /\ Initial \in State /\ Good(R, Initial)
           /\ NoOverlay \in Branch /\ Good(R, NoOverlay)
<1>1. AllClear \in [Groups -> Incident] /\ NoFences \in [Groups -> Fence]
    BY BlankFits DEF AllClear, NoFences
<1>2. \A g \in Groups : Fits(R, g, AllClear[g], NoFences[g])
    BY BlankFits DEF AllClear, NoFences
<1>3. /\ Initial.inc = AllClear /\ Initial.fence = NoFences
      /\ NoOverlay.inc = AllClear /\ NoOverlay.fence = NoFences
    BY DEF Initial, NoOverlay
<1>4. Good(R, Initial) /\ Good(R, NoOverlay)
    BY <1>1, <1>2, <1>3 DEF Good
<1>5. Initial \in State /\ NoOverlay \in Branch
    BY <1>1, Bounds DEF Initial, NoOverlay, State, Branch
<1> QED
    BY <1>4, <1>5

\* More results leave what fits.
LEMMA GoodLater ==
    ASSUME NEW R, NEW Q, DOMAIN R \subseteq DOMAIN Q, \A n \in DOMAIN R : Q[n] = R[n],
           NEW s, Good(R, s)
    PROVE  Good(Q, s)
<1>1. \A g, n, r : Gave(R, g, n, r) => Gave(Q, g, n, r)
    BY DEF Gave
<1>2. \A g, a, b : Backed(R, g, a, b) => Backed(Q, g, a, b)
    BY <1>1 DEF Backed
<1>3. \A g, e, f : Fits(R, g, e, f) => Fits(Q, g, e, f)
    BY <1>1, <1>2 DEF Fits, Evident, Agrees
<1> QED
    BY <1>3 DEF Good

LEMMA FenceNumbers ==
    ASSUME NEW R, NEW s, Good(R, s), NEW g \in Groups
    PROVE  s.fence[g] \in Fence /\ s.fence[g].build \in 0..N /\ s.fence[g].build \in Nat
<1>1. s.fence[g] \in Fence
    BY DEF Good
<1> QED
    BY <1>1, Bounds DEF Fence

LEMMA MergeKeeps ==
    ASSUME NEW R, NEW s \in State, Good(R, s), NEW o, Good(R, o)
    PROVE  /\ Merge(s, o) \in State /\ Good(R, Merge(s, o))
           /\ Behind(s, Merge(s, o)) /\ Behind(o, Merge(s, o))
           /\ \A g \in Groups :
                 IF Newer(o.fence[g], s.fence[g])
                 THEN Merge(s, o).inc[g] = o.inc[g] /\ Merge(s, o).fence[g] = o.fence[g]
                 ELSE Merge(s, o).inc[g] = s.inc[g] /\ Merge(s, o).fence[g] = s.fence[g]
<1> DEFINE newer(g) == Newer(o.fence[g], s.fence[g])
           inc == [g \in Groups |-> IF newer(g) THEN o.inc[g] ELSE s.inc[g]]
           fence == [g \in Groups |-> IF newer(g) THEN o.fence[g] ELSE s.fence[g]]
           m == Merge(s, o)
<1>1. m = [s EXCEPT !.inc = inc, !.fence = fence]
    BY DEF Merge
<1>2. \A g \in Groups : newer(g) <=> o.fence[g].build > s.fence[g].build
    BY DEF Newer
<1>3. /\ \A g \in Groups : inc[g] = IF newer(g) THEN o.inc[g] ELSE s.inc[g]
      /\ \A g \in Groups : fence[g] = IF newer(g) THEN o.fence[g] ELSE s.fence[g]
    OBVIOUS
<1>4. inc \in [Groups -> Incident] /\ fence \in [Groups -> Fence]
    BY DEF Good
<1> HIDE DEF inc, fence, m
<1>5. m = [inc |-> inc, fence |-> fence, done |-> s.done, through |-> s.through]
    BY <1>1 DEF State
<1>6. m \in State /\ m.inc = inc /\ m.fence = fence
    BY <1>4, <1>5 DEF State
<1>7. ASSUME NEW g \in Groups
      PROVE  /\ Fits(R, g, m.inc[g], m.fence[g])
             /\ s.fence[g].build =< m.fence[g].build
             /\ o.fence[g].build =< m.fence[g].build
             /\ IF newer(g) THEN m.inc[g] = o.inc[g] /\ m.fence[g] = o.fence[g]
                ELSE m.inc[g] = s.inc[g] /\ m.fence[g] = s.fence[g]
  <2>1. s.fence[g].build \in Nat /\ o.fence[g].build \in Nat
      BY FenceNumbers
  <2>2. CASE newer(g)
    <3>1. m.inc[g] = o.inc[g] /\ m.fence[g] = o.fence[g]
        BY <1>3, <1>6, <2>2
    <3> QED
        BY <1>2, <2>1, <2>2, <3>1 DEF Good
  <2>3. CASE ~newer(g)
    <3>1. m.inc[g] = s.inc[g] /\ m.fence[g] = s.fence[g]
        BY <1>3, <1>6, <2>3
    <3> QED
        BY <1>2, <2>1, <2>3, <3>1 DEF Good
  <2> QED
      BY <2>2, <2>3
<1>8. Good(R, m)
    BY <1>4, <1>6, <1>7 DEF Good
<1>9. Behind(s, m) /\ Behind(o, m)
    BY <1>7 DEF Behind
<1> QED
    BY <1>6, <1>7, <1>8, <1>9 DEF m

LEMMA PrunedKeeps ==
    ASSUME NEW R, NEW z \in State, Good(R, z), NEW cohort
    PROVE  /\ Pruned(z, cohort) \in State /\ Good(R, Pruned(z, cohort))
           /\ Pruned(z, cohort).inc = z.inc
           /\ \A g \in Groups :
                 \/ Pruned(z, cohort).fence[g] = z.fence[g]
                 \/ ~ (z.fence[g].build >= Min(cohort))
<1> DEFINE keep(g) == Held(z, g) \/ z.fence[g].build >= Min(cohort)
           fence == [g \in Groups |-> IF keep(g) THEN z.fence[g] ELSE NoFence]
           p == Pruned(z, cohort)
<1>1. p = [z EXCEPT !.fence = fence]
    BY DEF Pruned
<1>2. \A g \in Groups : fence[g] = IF keep(g) THEN z.fence[g] ELSE NoFence
    OBVIOUS
<1>3. fence \in [Groups -> Fence]
    BY BlankFits DEF Good
<1> HIDE DEF fence, p
<1>4. p \in State /\ p.inc = z.inc /\ p.fence = fence
    BY <1>1, <1>3 DEF State
<1>5. ASSUME NEW g \in Groups
      PROVE  Fits(R, g, p.inc[g], p.fence[g])
  <2>1. Fits(R, g, z.inc[g], z.fence[g]) /\ z.inc[g] \in Incident
      BY DEF Good
  <2>2. CASE keep(g)
      BY <1>2, <1>4, <2>1, <2>2
  <2>3. CASE ~keep(g)
    <3>1. z.inc[g].status = "clear"
        BY <2>3 DEF Held
    <3>2. p.inc[g] = z.inc[g] /\ p.fence[g] = NoFence
        BY <1>2, <1>4, <2>3
    <3>3. z.inc[g].last = 0
        BY <2>1, <3>1 DEF Fits, Evident
    <3> QED
        BY <2>1, <3>1, <3>2, <3>3 DEF Fits, Agrees, NoFence
  <2> QED
      BY <2>2, <2>3
<1>6. Good(R, p)
    BY <1>3, <1>4, <1>5 DEF Good
<1> QED
    BY <1>2, <1>4, <1>6 DEF p

LEMMA WatchedKeeps ==
    ASSUME NEW s \in State, Good(runs, s), Results(runs),
           NEW cohort \in SUBSET DOMAIN runs, cohort # {}
    PROVE  /\ Watched(s, cohort) \in State /\ Good(runs, Watched(s, cohort))
           /\ \A g \in Groups, k \in {0} \cup cohort :
                 k =< s.fence[g].build => k =< Watched(s, cohort).fence[g].build
           /\ \A g \in Groups : s.inc[g].status = "confirmed" =>
                 \/ Watched(s, cohort).inc[g].status = "confirmed"
                 \/ PassedAfter(runs, g, s.fence[g].build)
<1> DEFINE z == Replay(s, cohort)
           p == Pruned(z, cohort)
           w == Watched(s, cohort)
<1>1. From(runs, s, z)
    BY ReplayKeeps
<1>2. cohort \subseteq 1..N /\ cohort \subseteq 0..N
    BY Bounds DEF Results
<1> HIDE DEF z
<1>3. z \in State /\ Good(runs, z) /\ Behind(s, z) /\ z.through = s.through
    BY <1>1 DEF From
<1>4. /\ p \in State /\ Good(runs, p) /\ p.inc = z.inc
      /\ \A g \in Groups : p.fence[g] = z.fence[g] \/ ~ (z.fence[g].build >= Min(cohort))
    BY <1>3, PrunedKeeps
<1>5. w = [p EXCEPT !.done = cohort, !.through = Max(cohort \cup {@})]
    BY DEF Watched, z
<1> HIDE DEF p, w
<1> DEFINE t == Max(cohort \cup {p.through})
<1>6. t \in 0..N
  <2>1. p.through \in 0..N
      BY <1>4 DEF State
  <2>2. cohort \cup {p.through} \subseteq 0..N
      BY <1>2, <2>1
  <2> QED
      BY <2>2, MaxIs
<1> HIDE DEF t
<1>7. w = [p EXCEPT !.done = cohort, !.through = t]
    BY <1>5 DEF t
<1>8. w \in State /\ w.inc = p.inc /\ w.fence = p.fence
    BY <1>2, <1>4, <1>6, <1>7, Bounds DEF State
<1>9. Good(runs, w)
    BY <1>4, <1>8 DEF Good
<1>10. ASSUME NEW g \in Groups, NEW k \in {0} \cup cohort, k =< s.fence[g].build
       PROVE  k =< w.fence[g].build
  <2>1. /\ s.fence[g].build \in Nat /\ z.fence[g].build \in Nat
        /\ w.fence[g].build \in Nat
      BY <1>3, <1>9, FenceNumbers
  <2>2. k \in Nat
      BY <1>2, Bounds
  <2>3. k =< z.fence[g].build
      BY <1>3, <1>10, <2>1, <2>2 DEF Behind
  <2>4. CASE p.fence[g] = z.fence[g]
      BY <1>8, <2>3, <2>4
  <2>5. CASE ~ (z.fence[g].build >= Min(cohort))
    <3>1. Min(cohort) \in cohort /\ \A y \in cohort : Min(cohort) =< y
        BY <1>2, MinIs
    <3>2. Min(cohort) \in Nat
        BY <1>2, <3>1, Bounds
    <3>3. CASE k = 0
        BY <2>1, <3>3
    <3>4. CASE k \in cohort
        BY <2>1, <2>2, <2>3, <2>5, <3>1, <3>2, <3>4
    <3> QED
        BY <3>3, <3>4
  <2> QED
      BY <1>4, <2>4, <2>5
<1>11. \A g \in Groups : s.inc[g].status = "confirmed" =>
          w.inc[g].status = "confirmed" \/ PassedAfter(runs, g, s.fence[g].build)
    BY <1>1, <1>4, <1>8 DEF From
<1> QED
    BY <1>8, <1>9, <1>10, <1>11 DEF w

LEMMA OverlayKeeps ==
    ASSUME NEW R, NEW base, Good(R, base), NEW s, Good(R, s),
           NEW done \in SUBSET Builds, NEW cursor \in 0..N
    PROVE  /\ Overlay(base, s, done, cursor) \in Branch
           /\ Good(R, Overlay(base, s, done, cursor))
           /\ \A g \in Groups :
                 \/ Overlay(base, s, done, cursor).fence[g] = s.fence[g]
                 \/ s.fence[g].build =< base.fence[g].build
<1> DEFINE newer(g) == Newer(s.fence[g], base.fence[g])
           inc == [g \in Groups |-> IF newer(g) THEN s.inc[g] ELSE Clear]
           fence == [g \in Groups |-> IF newer(g) THEN s.fence[g] ELSE NoFence]
           o == Overlay(base, s, done, cursor)
<1>1. o = [inc |-> inc, fence |-> fence, done |-> done \ base.done, cursor |-> cursor]
    BY DEF Overlay
<1>2. /\ \A g \in Groups : inc[g] = IF newer(g) THEN s.inc[g] ELSE Clear
      /\ \A g \in Groups : fence[g] = IF newer(g) THEN s.fence[g] ELSE NoFence
    OBVIOUS
<1>3. inc \in [Groups -> Incident] /\ fence \in [Groups -> Fence]
    BY BlankFits DEF Good
<1> HIDE DEF inc, fence, o
<1>4. o \in Branch /\ o.inc = inc /\ o.fence = fence
    BY <1>1, <1>3 DEF Branch
<1>5. ASSUME NEW g \in Groups
      PROVE  /\ Fits(R, g, o.inc[g], o.fence[g])
             /\ o.fence[g] = s.fence[g] \/ s.fence[g].build =< base.fence[g].build
  <2>1. s.fence[g].build \in Nat /\ base.fence[g].build \in Nat
      BY FenceNumbers
  <2>2. CASE newer(g)
    <3>1. o.inc[g] = s.inc[g] /\ o.fence[g] = s.fence[g]
        BY <1>2, <1>4, <2>2
    <3> QED
        BY <3>1 DEF Good
  <2>3. CASE ~newer(g)
    <3>1. o.inc[g] = Clear /\ o.fence[g] = NoFence
        BY <1>2, <1>4, <2>3
    <3>2. s.fence[g].build =< base.fence[g].build
        BY <2>1, <2>3 DEF Newer
    <3> QED
        BY <3>1, <3>2, BlankFits
  <2> QED
      BY <2>2, <2>3
<1>6. Good(R, o)
    BY <1>3, <1>4, <1>5 DEF Good
<1> QED
    BY <1>4, <1>5, <1>6 DEF o

----------------------------------------------------------------------------
\* The invariant.

Stages == {"idle", "listed", "watched"}

ShapeOK ==
    /\ finished \in Seq(Builds) /\ ToSet(finished) = DOMAIN runs /\ Results(runs)
    /\ authority \in State /\ overlay \in Branch
    /\ pulse \in [reads : BOOLEAN, state : State]
    /\ collect \in [stage : Stages, cohort : SUBSET Builds, state : State]
    /\ collect.cohort \subseteq DOMAIN runs

AllGood ==
    /\ Good(runs, authority) /\ Good(runs, overlay)
    /\ Good(runs, pulse.state) /\ Good(runs, collect.state)

\* A running collection has listed every build the published fences rest on; what
\* the pulse has read is older than the published state, what the collection will
\* publish is newer.
Ordered ==
    /\ Behind(pulse.state, authority)
    /\ collect.stage # "idle" =>
          /\ collect.cohort # {}
          /\ \A g \in Groups : authority.fence[g].build \in {0} \cup collect.cohort
    /\ collect.stage = "watched" => Behind(authority, collect.state)

WatchInv == ShapeOK /\ AllGood /\ Ordered

LEMMA BehindSelf ==
    ASSUME NEW R, NEW s, Good(R, s)
    PROVE  Behind(s, s)
BY FenceNumbers DEF Behind

LEMMA BehindInitial ==
    ASSUME NEW R, NEW s, Good(R, s)
    PROVE  Behind(Initial, s)
<1>1. \A g \in Groups : Initial.fence[g].build = 0
    BY DEF Initial, NoFences, NoFence
<1>2. \A g \in Groups : 0 =< s.fence[g].build
    BY FenceNumbers
<1> QED
    BY <1>1, <1>2 DEF Behind

\* A fence rests on a finished build.
LEMMA FenceFinished ==
    ASSUME NEW R, NEW s, Good(R, s), NEW g \in Groups
    PROVE  s.fence[g].build \in {0} \cup DOMAIN R
BY DEF Good, Fits, Agrees, Gave

LEMMA InitInv == Init => WatchInv
<1> SUFFICES ASSUME Init PROVE WatchInv
    OBVIOUS
<1>1. /\ finished = <<>> /\ runs = [n \in {} |-> {}]
      /\ authority = Initial /\ overlay = NoOverlay
      /\ pulse = [reads |-> FALSE, state |-> Initial]
      /\ collect = [stage |-> "idle", cohort |-> {}, state |-> Initial]
    BY DEF Init
<1>2. DOMAIN runs = {} /\ finished \in Seq(Builds) /\ ToSet(finished) = {}
    BY <1>1 DEF ToSet
<1>3. Results(runs)
    BY <1>2 DEF Results
<1>4. /\ Initial \in State /\ Good(runs, Initial)
      /\ NoOverlay \in Branch /\ Good(runs, NoOverlay)
    BY BlankGood
<1>5. ShapeOK
    BY <1>1, <1>2, <1>3, <1>4 DEF ShapeOK, Stages
<1>6. AllGood
    BY <1>1, <1>4 DEF AllGood
<1>7. Ordered
    BY <1>1, <1>4, BehindSelf DEF Ordered
<1> QED
    BY <1>5, <1>6, <1>7 DEF WatchInv

LEMMA FinishInv == WatchInv /\ Finish => WatchInv'
<1> SUFFICES ASSUME WatchInv, Finish PROVE WatchInv'
    OBVIOUS
<1>1. PICK n \in Builds \ ToSet(finished) : \E o \in Outcomes[n] :
         /\ finished' = Append(finished, n)
         /\ runs' = [m \in DOMAIN runs \cup {n} |-> IF m = n THEN o ELSE runs[m]]
    BY DEF Finish
<1>a. PICK o \in Outcomes[n] :
         /\ finished' = Append(finished, n)
         /\ runs' = [m \in DOMAIN runs \cup {n} |-> IF m = n THEN o ELSE runs[m]]
    BY <1>1
<1>2. UNCHANGED <<authority, overlay, pulse, collect>>
    BY DEF Finish
<1>3. /\ finished \in Seq(Builds) /\ ToSet(finished) = DOMAIN runs /\ Results(runs)
      /\ collect.cohort \subseteq DOMAIN runs
    BY DEF WatchInv, ShapeOK
<1>4. /\ DOMAIN runs' = DOMAIN runs \cup {n} /\ runs'[n] = o
      /\ \A m \in DOMAIN runs : runs'[m] = runs[m]
    BY <1>a, <1>3
<1>5. finished' \in Seq(Builds) /\ ToSet(finished') = DOMAIN runs'
  <2>1. finished' \in Seq(Builds) /\ Len(finished') = Len(finished) + 1
        /\ Len(finished) \in Nat
      BY <1>a, <1>3
  <2>2. /\ DOMAIN finished' = 1..(Len(finished) + 1) /\ DOMAIN finished = 1..Len(finished)
        /\ \A i \in 1..Len(finished) : finished'[i] = finished[i]
        /\ finished'[Len(finished) + 1] = n
      BY <1>a, <1>3, <2>1
  <2>3. ToSet(finished') = ToSet(finished) \cup {n}
      BY <2>1, <2>2 DEF ToSet
  <2> QED
      BY <1>3, <1>4, <2>1, <2>3
<1>6. Results(runs')
  <2>1. DOMAIN o \subseteq Groups /\ \A g \in DOMAIN o : o[g] \in {"pass", "soft", "hard"}
      BY <1>a, OutcomeIs
  <2> QED
      BY <1>a, <1>3, <1>4, <2>1 DEF Results
<1>7. ShapeOK'
    BY <1>2, <1>3, <1>4, <1>5, <1>6 DEF WatchInv, ShapeOK
<1>8. AllGood'
  <2>1. \A s : Good(runs, s) => Good(runs', s)
      BY <1>4, GoodLater
  <2> QED
      BY <1>2, <2>1 DEF WatchInv, AllGood
<1>9. Ordered'
    BY <1>2 DEF WatchInv, Ordered
<1> QED
    BY <1>7, <1>8, <1>9 DEF WatchInv

LEMMA PulseReadInv == WatchInv /\ PulseRead => WatchInv'
<1> SUFFICES ASSUME WatchInv, PulseRead PROVE WatchInv'
    OBVIOUS
<1>1. /\ pulse' = [reads |-> TRUE, state |-> authority]
      /\ UNCHANGED <<finished, runs, authority, overlay, collect>>
    BY DEF PulseRead
<1>2. pulse'.state = authority
    BY <1>1
<1>3. ShapeOK'
    BY <1>1 DEF WatchInv, ShapeOK
<1>4. AllGood'
    BY <1>1, <1>2 DEF WatchInv, AllGood
<1>5. Ordered'
  <2>1. Behind(authority, authority)
      BY BehindSelf DEF WatchInv, AllGood
  <2> QED
      BY <1>1, <1>2, <2>1 DEF WatchInv, Ordered
<1> QED
    BY <1>3, <1>4, <1>5 DEF WatchInv

LEMMA PulseGone ==
    ASSUME WatchInv, pulse' = [reads |-> FALSE, state |-> Initial], overlay' \in Branch,
           Good(runs, overlay'), UNCHANGED <<finished, runs, authority, collect>>
    PROVE  WatchInv'
<1>1. pulse'.state = Initial
    OBVIOUS
<1>2. Initial \in State /\ Good(runs, Initial)
    BY BlankGood
<1>3. ShapeOK'
    BY <1>2 DEF WatchInv, ShapeOK
<1>4. AllGood'
    BY <1>1, <1>2 DEF WatchInv, AllGood
<1>5. Ordered'
  <2>1. Behind(Initial, authority)
      BY BehindInitial DEF WatchInv, AllGood
  <2> QED
      BY <1>1, <2>1 DEF WatchInv, Ordered
<1> QED
    BY <1>3, <1>4, <1>5 DEF WatchInv

LEMMA PulseFailInv == WatchInv /\ PulseFail => WatchInv'
<1> SUFFICES ASSUME WatchInv, PulseFail PROVE WatchInv'
    OBVIOUS
<1>1. /\ pulse' = [reads |-> FALSE, state |-> Initial]
      /\ UNCHANGED <<finished, runs, authority, overlay, collect>>
    BY DEF PulseFail
<1>2. overlay' \in Branch /\ Good(runs, overlay')
    BY <1>1 DEF WatchInv, ShapeOK, AllGood
<1> QED
    BY <1>1, <1>2, PulseGone

\* What the pulse publishes fits, and shows nothing older than its branch and the
\* published state did.
LEMMA PulsePublishes ==
    ASSUME WatchInv, PulsePublish
    PROVE  /\ overlay' \in Branch /\ Good(runs, overlay')
           /\ \A g \in Groups : \/ overlay.fence[g].build =< overlay'.fence[g].build
                                \/ overlay.fence[g].build =< authority.fence[g].build
<1>1. PICK from \in 0..N, cursor \in 0..N :
        LET slice == ToSet(SubSeq(finished, from + 1, Len(finished)))
            merged == Merge(pulse.state, overlay)
            base == [merged EXCEPT !.done = @ \cup overlay.done]
        IN  overlay' = Overlay(pulse.state, Replay(base, slice), overlay.done \cup slice, cursor)
    BY DEF PulsePublish
<1> DEFINE slice == ToSet(SubSeq(finished, from + 1, Len(finished)))
           merged == Merge(pulse.state, overlay)
           base == [merged EXCEPT !.done = @ \cup overlay.done]
           z == Replay(base, slice)
<1>2. overlay' = Overlay(pulse.state, z, overlay.done \cup slice, cursor)
    BY <1>1
<1>3. /\ Good(runs, pulse.state) /\ Good(runs, overlay) /\ Results(runs)
      /\ pulse.state \in State /\ overlay \in Branch /\ Behind(pulse.state, authority)
      /\ finished \in Seq(Builds) /\ ToSet(finished) = DOMAIN runs /\ Good(runs, authority)
    BY DEF WatchInv, ShapeOK, AllGood, Ordered
<1>4. slice \subseteq DOMAIN runs
  <2> DEFINE q == SubSeq(finished, from + 1, Len(finished))
  <2>1. Len(finished) \in Nat /\ DOMAIN finished = 1..Len(finished)
      BY <1>3
  <2>2. from + 1 \in Int /\ Len(finished) \in Int /\ from + 1 >= 1
      BY <2>1, Bounds
  <2>3. \A i \in from + 1..Len(finished) : finished[i] \in ToSet(finished)
      BY <2>1, <2>2 DEF ToSet
  <2>4. q \in Seq(ToSet(finished))
      BY <2>2, <2>3, SubSeqProperties
  <2> HIDE DEF q
  <2>5. slice = {q[i] : i \in DOMAIN q}
      BY DEF ToSet, q
  <2> HIDE DEF slice
  <2>6. \A i \in DOMAIN q : q[i] \in ToSet(finished)
      BY <2>4
  <2> QED
      BY <1>3, <2>5, <2>6
<1> HIDE DEF slice
<1>5. /\ merged \in State /\ Good(runs, merged) /\ Behind(overlay, merged)
    BY <1>3, MergeKeeps
<1> HIDE DEF merged
<1>6. base \in State /\ base.inc = merged.inc /\ base.fence = merged.fence
  <2>1. overlay.done \subseteq Builds
      BY <1>3 DEF Branch
  <2> QED
      BY <1>5, <2>1 DEF State
<1> HIDE DEF base
<1>7. Good(runs, base) /\ Behind(overlay, base)
    BY <1>5, <1>6 DEF Good, Behind
<1>8. From(runs, base, z)
    BY <1>3, <1>4, <1>6, <1>7, ReplayKeeps
<1> HIDE DEF z
<1>9. Good(runs, z) /\ Behind(base, z)
    BY <1>8 DEF From
<1>10. overlay.done \cup slice \subseteq Builds
    BY <1>3, <1>4 DEF Branch, Results
<1>11. /\ overlay' \in Branch /\ Good(runs, overlay')
       /\ \A g \in Groups : \/ overlay'.fence[g] = z.fence[g]
                            \/ z.fence[g].build =< pulse.state.fence[g].build
    BY <1>2, <1>3, <1>9, <1>10, OverlayKeeps
<1>12. ASSUME NEW g \in Groups
       PROVE  \/ overlay.fence[g].build =< overlay'.fence[g].build
              \/ overlay.fence[g].build =< authority.fence[g].build
  <2>1. /\ overlay.fence[g].build =< base.fence[g].build
        /\ base.fence[g].build =< z.fence[g].build
        /\ pulse.state.fence[g].build =< authority.fence[g].build
      BY <1>3, <1>7, <1>9 DEF Behind
  <2>2. /\ overlay.fence[g].build \in Nat /\ base.fence[g].build \in Nat
        /\ z.fence[g].build \in Nat /\ pulse.state.fence[g].build \in Nat
        /\ authority.fence[g].build \in Nat
      BY <1>3, <1>7, <1>9, FenceNumbers
  <2>3. CASE overlay'.fence[g] = z.fence[g]
      BY <2>1, <2>2, <2>3
  <2>4. CASE z.fence[g].build =< pulse.state.fence[g].build
      BY <2>1, <2>2, <2>4
  <2> QED
      BY <1>11, <2>3, <2>4
<1> QED
    BY <1>11, <1>12

LEMMA PulsePublishInv == WatchInv /\ PulsePublish => WatchInv'
<1> SUFFICES ASSUME WatchInv, PulsePublish PROVE WatchInv'
    OBVIOUS
<1>1. overlay' \in Branch /\ Good(runs, overlay')
    BY PulsePublishes
<1>2. /\ pulse' = [reads |-> FALSE, state |-> Initial]
      /\ UNCHANGED <<finished, runs, authority, collect>>
    BY DEF PulsePublish
<1> QED
    BY <1>1, <1>2, PulseGone

LEMMA CollectListInv == WatchInv /\ CollectList => WatchInv'
<1> SUFFICES ASSUME WatchInv, CollectList PROVE WatchInv'
    OBVIOUS
<1>1. /\ finished # <<>>
      /\ collect' = [collect EXCEPT !.stage = "listed", !.cohort = ToSet(finished)]
      /\ UNCHANGED <<finished, runs, authority, overlay, pulse>>
    BY DEF CollectList
<1>2. /\ collect \in [stage : Stages, cohort : SUBSET Builds, state : State]
      /\ finished \in Seq(Builds) /\ ToSet(finished) = DOMAIN runs
      /\ DOMAIN runs \subseteq Builds /\ Good(runs, authority)
    BY DEF WatchInv, ShapeOK, AllGood, Results
<1>3. /\ collect'.stage = "listed" /\ collect'.cohort = DOMAIN runs
      /\ collect'.state = collect.state
      /\ collect' \in [stage : Stages, cohort : SUBSET Builds, state : State]
    BY <1>1, <1>2 DEF Stages
<1>4. ToSet(finished) # {}
  <2>1. finished[1] \in ToSet(finished)
      BY <1>1, <1>2 DEF ToSet
  <2> QED
      BY <2>1
<1>5. ShapeOK'
    BY <1>1, <1>3 DEF WatchInv, ShapeOK
<1>6. AllGood'
    BY <1>1, <1>3 DEF WatchInv, AllGood
<1>7. Ordered'
  <2>1. \A g \in Groups : authority.fence[g].build \in {0} \cup DOMAIN runs
      BY <1>2, FenceFinished
  <2> QED
      BY <1>1, <1>2, <1>3, <1>4, <2>1 DEF WatchInv, Ordered
<1> QED
    BY <1>5, <1>6, <1>7 DEF WatchInv

\* What a collection has watched fits, is not older than the published state, and
\* has ended a confirmed incident only for a newer pass.
LEMMA CollectWatches ==
    ASSUME WatchInv, CollectWatch
    PROVE  /\ collect'.stage = "watched" /\ collect'.cohort = collect.cohort
           /\ collect'.state \in State /\ Good(runs, collect'.state)
           /\ Behind(authority, collect'.state)
           /\ \A g \in Groups :
                 authority.inc[g].status = "confirmed" /\ View.inc[g].status = "confirmed" =>
                 \/ collect'.state.inc[g].status = "confirmed"
                 \/ PassedAfter(runs, g, authority.fence[g].build)
<1>1. PICK export \in {overlay, NoOverlay} :
         collect' = [collect EXCEPT !.stage = "watched",
                                    !.state = Watched(Merge(authority, export), collect.cohort)]
    BY DEF CollectWatch
<1> DEFINE s == Merge(authority, export)
           w == Watched(s, collect.cohort)
<1>2. /\ collect \in [stage : Stages, cohort : SUBSET Builds, state : State]
      /\ authority \in State /\ Good(runs, authority) /\ Good(runs, overlay)
      /\ Results(runs) /\ collect.cohort \subseteq DOMAIN runs /\ collect.cohort # {}
      /\ \A g \in Groups : authority.fence[g].build \in {0} \cup collect.cohort
    BY DEF WatchInv, ShapeOK, AllGood, Ordered, CollectWatch
<1>3. Good(runs, export)
    BY <1>2, BlankGood
<1>4. /\ s \in State /\ Good(runs, s) /\ Behind(authority, s)
      /\ \A g \in Groups :
            IF Newer(export.fence[g], authority.fence[g])
            THEN s.inc[g] = export.inc[g] /\ s.fence[g] = export.fence[g]
            ELSE s.inc[g] = authority.inc[g] /\ s.fence[g] = authority.fence[g]
    BY <1>2, <1>3, MergeKeeps
<1>5. \A g \in Groups :
         authority.inc[g].status = "confirmed" /\ View.inc[g].status = "confirmed" =>
         s.inc[g].status = "confirmed"
  <2>1. CASE export = overlay
      BY <2>1 DEF View
  <2>2. CASE export = NoOverlay
    <3>1. \A g \in Groups : NoOverlay.fence[g].build = 0
        BY DEF NoOverlay, NoFences, NoFence
    <3>2. \A g \in Groups : authority.fence[g].build \in Nat
        BY <1>2, FenceNumbers
    <3>3. \A g \in Groups : ~Newer(export.fence[g], authority.fence[g])
        BY <2>2, <3>1, <3>2 DEF Newer
    <3> QED
        BY <1>4, <3>3
  <2> QED
      BY <2>1, <2>2
<1> HIDE DEF s
<1>6. /\ w \in State /\ Good(runs, w)
      /\ \A g \in Groups, k \in {0} \cup collect.cohort :
            k =< s.fence[g].build => k =< w.fence[g].build
      /\ \A g \in Groups : s.inc[g].status = "confirmed" =>
            w.inc[g].status = "confirmed" \/ PassedAfter(runs, g, s.fence[g].build)
    BY <1>2, <1>4, WatchedKeeps
<1>7. collect' = [collect EXCEPT !.stage = "watched", !.state = w]
    BY <1>1 DEF s
<1> HIDE DEF w
<1>8. /\ collect'.stage = "watched" /\ collect'.cohort = collect.cohort
      /\ collect'.state = w
    BY <1>2, <1>7
<1>9. Behind(authority, w)
    BY <1>2, <1>4, <1>6 DEF Behind
<1>10. ASSUME NEW g \in Groups, PassedAfter(runs, g, s.fence[g].build)
       PROVE  PassedAfter(runs, g, authority.fence[g].build)
  <2>1. PICK m \in DOMAIN runs : m > s.fence[g].build /\ Gave(runs, g, m, "pass")
      BY <1>10 DEF PassedAfter
  <2>2. /\ authority.fence[g].build =< s.fence[g].build /\ m \in Nat
        /\ authority.fence[g].build \in Nat /\ s.fence[g].build \in Nat
      BY <1>2, <1>4, FenceNumbers, Bounds DEF Behind, Results
  <2>3. m > authority.fence[g].build
      BY <2>1, <2>2
  <2> QED
      BY <2>1, <2>3 DEF PassedAfter
<1>11. ASSUME NEW g \in Groups,
              authority.inc[g].status = "confirmed", View.inc[g].status = "confirmed"
       PROVE  \/ w.inc[g].status = "confirmed"
              \/ PassedAfter(runs, g, authority.fence[g].build)
    BY <1>5, <1>6, <1>10, <1>11
<1> QED
    BY <1>6, <1>8, <1>9, <1>11

LEMMA CollectWatchInv == WatchInv /\ CollectWatch => WatchInv'
<1> SUFFICES ASSUME WatchInv, CollectWatch PROVE WatchInv'
    OBVIOUS
<1>1. /\ collect.stage = "listed"
      /\ UNCHANGED <<finished, runs, authority, overlay, pulse>>
      /\ \E x : collect' = [collect EXCEPT !.stage = "watched", !.state = x]
    BY DEF CollectWatch
<1>2. /\ collect'.stage = "watched" /\ collect'.cohort = collect.cohort
      /\ collect'.state \in State /\ Good(runs, collect'.state)
      /\ Behind(authority, collect'.state)
    BY CollectWatches
<1>3. collect' \in [stage : Stages, cohort : SUBSET Builds, state : State]
  <2>1. collect \in [stage : Stages, cohort : SUBSET Builds, state : State]
      BY DEF WatchInv, ShapeOK
  <2>2. PICK x : collect' = [collect EXCEPT !.stage = "watched", !.state = x]
      BY <1>1
  <2>3. collect'.state = x
      BY <2>1, <2>2
  <2>4. x \in State
      BY <1>2, <2>3
  <2> QED
      BY <2>1, <2>2, <2>4 DEF Stages
<1>4. ShapeOK'
    BY <1>1, <1>2, <1>3 DEF WatchInv, ShapeOK
<1>5. AllGood'
    BY <1>1, <1>2 DEF WatchInv, AllGood
<1>6. Ordered'
    BY <1>1, <1>2 DEF WatchInv, Ordered
<1> QED
    BY <1>4, <1>5, <1>6 DEF WatchInv

LEMMA BehindTrans ==
    ASSUME NEW R, NEW a, NEW b, NEW c, Good(R, a), Good(R, b), Good(R, c),
           Behind(a, b), Behind(b, c)
    PROVE  Behind(a, c)
<1> SUFFICES ASSUME NEW g \in Groups PROVE a.fence[g].build =< c.fence[g].build
    BY DEF Behind
<1>1. /\ a.fence[g].build \in Nat /\ b.fence[g].build \in Nat /\ c.fence[g].build \in Nat
    BY FenceNumbers
<1>2. a.fence[g].build =< b.fence[g].build /\ b.fence[g].build =< c.fence[g].build
    BY DEF Behind
<1> QED
    BY <1>1, <1>2

\* A collection that ends leaves a state that is not older.
LEMMA CollectEnds ==
    ASSUME WatchInv, CollectEnd, authority' \in State, Good(runs, authority'),
           Behind(authority, authority')
    PROVE  WatchInv'
<1>1. /\ collect' = [stage |-> "idle", cohort |-> {}, state |-> Initial]
      /\ UNCHANGED <<finished, runs, overlay, pulse>>
    BY DEF CollectEnd
<1>2. /\ collect'.stage = "idle" /\ collect'.cohort = {} /\ collect'.state = Initial
    BY <1>1
<1>3. Initial \in State /\ Good(runs, Initial)
    BY BlankGood
<1>4. ShapeOK'
    BY <1>1, <1>2, <1>3 DEF WatchInv, ShapeOK, Stages
<1>5. AllGood'
    BY <1>1, <1>2, <1>3 DEF WatchInv, AllGood
<1>6. Behind(pulse.state, authority')
    BY BehindTrans DEF WatchInv, AllGood, Ordered
<1>7. Ordered'
    BY <1>1, <1>2, <1>6 DEF Ordered
<1> QED
    BY <1>4, <1>5, <1>7 DEF WatchInv

LEMMA CollectPublishInv == WatchInv /\ CollectPublish => WatchInv' /\ Behind(authority, authority')
<1> SUFFICES ASSUME WatchInv, CollectPublish PROVE WatchInv' /\ Behind(authority, authority')
    OBVIOUS
<1>1. collect.stage = "watched" /\ authority' = collect.state /\ CollectEnd
    BY DEF CollectPublish
<1>2. authority' \in State /\ Good(runs, authority') /\ Behind(authority, authority')
    BY <1>1 DEF WatchInv, ShapeOK, AllGood, Ordered
<1> QED
    BY <1>1, <1>2, CollectEnds

LEMMA CollectFailInv == WatchInv /\ CollectFail => WatchInv'
<1> SUFFICES ASSUME WatchInv, CollectFail PROVE WatchInv'
    OBVIOUS
<1>1. authority' = authority /\ CollectEnd
    BY DEF CollectFail
<1>2. authority' \in State /\ Good(runs, authority') /\ Behind(authority, authority')
    BY <1>1, BehindSelf DEF WatchInv, ShapeOK, AllGood
<1> QED
    BY <1>1, <1>2, CollectEnds

LEMMA NextInv == WatchInv /\ [Next]_vars => WatchInv'
<1> SUFFICES ASSUME WatchInv, [Next]_vars PROVE WatchInv'
    OBVIOUS
<1>1. CASE UNCHANGED vars
    BY <1>1 DEF WatchInv, ShapeOK, AllGood, Ordered, vars
<1>2. CASE Finish
    BY <1>2, FinishInv
<1>3. CASE PulseRead
    BY <1>3, PulseReadInv
<1>4. CASE PulsePublish
    BY <1>4, PulsePublishInv
<1>5. CASE PulseFail
    BY <1>5, PulseFailInv
<1>6. CASE CollectList
    BY <1>6, CollectListInv
<1>7. CASE CollectWatch
    BY <1>7, CollectWatchInv
<1>8. CASE CollectPublish
    BY <1>8, CollectPublishInv
<1>9. CASE CollectFail
    BY <1>9, CollectFailInv
<1> QED
    BY <1>1, <1>2, <1>3, <1>4, <1>5, <1>6, <1>7, <1>8, <1>9 DEF Next

\* Every copy of the watcher's state has incidents that rest on the results of their
\* group and agree with its fence; what a pulse has read is older than the published
\* state, what a collection will publish is newer.
THEOREM WatchInvariant == Spec => []WatchInv
<1>1. Init => WatchInv
    BY InitInv
<1>2. WatchInv /\ [Next]_vars => WatchInv'
    BY NextInv
<1> QED
    BY <1>1, <1>2, PTL DEF Spec

\* The variables of the model keep their shapes.
THEOREM TypeCorrect == Spec => []TypeOK
<1>1. ASSUME WatchInv PROVE TypeOK
  <2>1. /\ ToSet(finished) = DOMAIN runs /\ DOMAIN runs \subseteq Builds
        /\ collect.stage \in {"idle", "listed", "watched"}
      BY <1>1 DEF WatchInv, ShapeOK, Stages, Results
  <2>2. ASSUME NEW s \in State \cup Branch, NEW g \in Groups
        PROVE  /\ s.inc[g].status \in {"clear", "pending", "confirmed"}
               /\ s.fence[g].build \in 0..N
               /\ s.done \subseteq Builds
    <3>1. s.inc \in [Groups -> Incident] /\ s.fence \in [Groups -> Fence]
          /\ s.done \subseteq Builds
        BY DEF State, Branch
    <3>2. s.inc[g] \in Incident /\ s.fence[g] \in Fence
        BY <3>1
    <3> QED
        BY <3>1, <3>2 DEF Incident, Fence
  <2>3. /\ authority \in State /\ overlay \in Branch
        /\ pulse.state \in State /\ collect.state \in State
      BY <1>1 DEF WatchInv, ShapeOK
  <2> QED
      BY <2>1, <2>2, <2>3 DEF TypeOK
<1> QED
    BY <1>1, WatchInvariant, PTL

----------------------------------------------------------------------------
\* What the invariant is for.

LEMMA ViewKeeps ==
    ASSUME WatchInv
    PROVE  /\ Good(runs, View) /\ Behind(authority, View) /\ Behind(overlay, View)
           /\ \A g \in Groups : \/ View.fence[g] = overlay.fence[g]
                                \/ View.fence[g] = authority.fence[g]
<1>1. authority \in State /\ Good(runs, authority) /\ Good(runs, overlay)
    BY DEF WatchInv, ShapeOK, AllGood
<1> QED
    BY <1>1, MergeKeeps DEF View

LEMMA GoodTruthful ==
    ASSUME NEW s, Good(runs, s)
    PROVE  Truthful(s)
<1> SUFFICES ASSUME NEW g \in Groups
             PROVE  CASE s.fence[g].result = "pass" -> ~Held(s, g)
                      [] s.fence[g].result = "hard" -> s.inc[g].status = "confirmed"
                      [] s.fence[g].result = "soft" -> Held(s, g)
                      [] OTHER -> ~Held(s, g)
    BY DEF Truthful
<1>1. /\ s.fence[g].result \in {"none", "pass", "soft", "hard"}
      /\ Agrees(runs, g, s.inc[g], s.fence[g])
    BY DEF Good, Fits, Fence
<1>2. CASE s.fence[g].result \in {"none", "pass"}
    BY <1>1, <1>2 DEF Agrees, Held
<1>3. CASE s.fence[g].result = "soft"
    BY <1>1, <1>3 DEF Agrees, Held
<1>4. CASE s.fence[g].result = "hard"
    BY <1>1, <1>4 DEF Agrees, Held
<1> QED
    BY <1>1, <1>2, <1>3, <1>4

LEMMA GoodSound ==
    ASSUME NEW s, Good(runs, s), Results(runs)
    PROVE  Sound(s)
<1> SUFFICES ASSUME NEW g \in Groups, s.inc[g].status = "confirmed"
             PROVE  LET with(r) == {n \in DOMAIN runs :
                                      /\ n >= s.inc[g].start /\ n <= s.inc[g].last
                                      /\ g \in DOMAIN runs[n] /\ runs[n][g] = r}
                    IN  with("hard") # {} \/ Cardinality(with("soft")) >= 2
    BY DEF Sound
<1> DEFINE with(r) == {n \in DOMAIN runs : /\ n >= s.inc[g].start /\ n <= s.inc[g].last
                                           /\ g \in DOMAIN runs[n] /\ runs[n][g] = r}
           a == s.inc[g].start
           b == s.inc[g].last
<1>1. Backed(runs, g, a, b)
    BY DEF Good, Fits, Evident
<1>2. DOMAIN runs \subseteq 1..N
    BY Bounds DEF Results
<1>3. \A n \in a..b : \A r : Gave(runs, g, n, r) => n \in with(r)
  <2>1. s.inc[g] \in Incident
      BY DEF Good
  <2>2. a \in Int /\ b \in Int
      BY <2>1, Bounds DEF Incident
  <2> QED
      BY <2>2 DEF Gave
<1> HIDE DEF a, b
<1>4. CASE \E n \in a..b : Gave(runs, g, n, "hard")
    BY <1>3, <1>4
<1>5. CASE \E m, n \in a..b : m # n /\ Gave(runs, g, m, "soft") /\ Gave(runs, g, n, "soft")
  <2>1. PICK m \in a..b, n \in a..b :
           m # n /\ Gave(runs, g, m, "soft") /\ Gave(runs, g, n, "soft")
      BY <1>5
  <2>2. {m, n} \subseteq with("soft")
      BY <1>3, <2>1
  <2>3. IsFiniteSet(with("soft"))
    <3>1. with("soft") \subseteq 1..N
        BY <1>2
    <3>2. IsFiniteSet(1..N)
        BY Bounds, FS_Interval
    <3> HIDE DEF with
    <3> QED
        BY <3>1, <3>2, FS_Subset
  <2> HIDE DEF with
  <2>4. Cardinality({m, n}) =< Cardinality(with("soft"))
      BY <2>2, <2>3, FS_Subset
  <2>5. Cardinality({m, n}) = 2
    <3>1. IsFiniteSet({m}) /\ Cardinality({m}) = 1
        BY FS_Singleton
    <3>2. Cardinality({m} \cup {n}) = Cardinality({m}) + 1
        BY <2>1, <3>1, FS_AddElement
    <3>3. {m, n} = {m} \cup {n}
        OBVIOUS
    <3> QED
        BY <3>1, <3>2, <3>3
  <2>6. Cardinality(with("soft")) \in Nat
      BY <2>3, FS_CardinalityType
  <2>7. Cardinality(with("soft")) >= 2
      BY <2>4, <2>5, <2>6
  <2> QED
      BY <2>7 DEF with
<1> QED
    BY <1>1, <1>4, <1>5 DEF Backed

\* For any number of groups and builds, in whatever order they finish: the incident of
\* a group and its fence say the same, in what is published and in what is shown.
THEOREM FencesTellTheTruth == Spec => []FenceTruth
<1>1. ASSUME WatchInv PROVE FenceTruth
  <2>1. Good(runs, authority) /\ Good(runs, View)
      BY <1>1, ViewKeeps DEF WatchInv, AllGood
  <2> QED
      BY <2>1, GoodTruthful DEF FenceTruth
<1> QED
    BY <1>1, WatchInvariant, PTL

\* No incident is confirmed without a hard failure of its group or soft failures of
\* two builds.
THEOREM IncidentsAreSound == Spec => []SoftTwice
<1>1. ASSUME WatchInv PROVE SoftTwice
  <2>1. Good(runs, authority) /\ Good(runs, View) /\ Results(runs)
      BY <1>1, ViewKeeps DEF WatchInv, AllGood, ShapeOK
  <2> QED
      BY <2>1, GoodSound DEF SoftTwice
<1> QED
    BY <1>1, WatchInvariant, PTL

\* What is shown is not older when the published state and the branch are not.
LEMMA ViewGrows ==
    ASSUME WatchInv, WatchInv', Behind(authority, authority'),
           \A g \in Groups : \/ overlay.fence[g].build =< overlay'.fence[g].build
                            \/ overlay.fence[g].build =< authority.fence[g].build
    PROVE  \A g \in Groups : View'.fence[g].build >= View.fence[g].build
<1> SUFFICES ASSUME NEW g \in Groups
             PROVE  View'.fence[g].build >= View.fence[g].build
    OBVIOUS
<1>1. \/ View.fence[g] = overlay.fence[g] \/ View.fence[g] = authority.fence[g]
    BY ViewKeeps
<1>2. /\ Good(runs', View') /\ Behind(authority', View') /\ Behind(overlay', View')
  <2>1. authority' \in State /\ Good(runs', authority') /\ Good(runs', overlay')
      BY DEF WatchInv, ShapeOK, AllGood
  <2>2. View' = Merge(authority', overlay')
      BY DEF View, Merge, Newer
  <2> QED
      BY <2>1, <2>2, MergeKeeps
<1>3. /\ authority'.fence[g].build =< View'.fence[g].build
      /\ overlay'.fence[g].build =< View'.fence[g].build
      /\ authority.fence[g].build =< authority'.fence[g].build
    BY <1>2 DEF Behind
<1>4. /\ Good(runs, authority) /\ Good(runs, overlay)
      /\ Good(runs', authority') /\ Good(runs', overlay')
    BY DEF WatchInv, AllGood
<1>5. /\ authority.fence[g].build \in Nat /\ overlay.fence[g].build \in Nat
      /\ authority'.fence[g].build \in Nat /\ overlay'.fence[g].build \in Nat
      /\ View'.fence[g].build \in Nat
    BY <1>2, <1>4, FenceNumbers
<1>6. authority.fence[g].build =< View'.fence[g].build
    BY <1>3, <1>5
<1>7. overlay.fence[g].build =< View'.fence[g].build
    BY <1>3, <1>5, <1>6
<1> QED
    BY <1>1, <1>5, <1>6, <1>7

\* Whoever publishes, pulses and collections side by side, no group goes back to an
\* older result.
THEOREM NothingGoesBack == Spec => NoRegress
<1>1. ASSUME WatchInv, WatchInv', [Next]_vars
      PROVE  [\A g \in Groups : View'.fence[g].build >= View.fence[g].build]_vars
  <2>1. CASE UNCHANGED vars
      BY <2>1
  <2> DEFINE Kept == \A g \in Groups :
                       \/ overlay.fence[g].build =< overlay'.fence[g].build
                       \/ overlay.fence[g].build =< authority.fence[g].build
  <2>2. Good(runs, authority) /\ Good(runs, overlay)
      BY <1>1 DEF WatchInv, AllGood
  <2>3. overlay' = overlay => Kept
    <3>1. \A g \in Groups : overlay.fence[g].build \in Nat
        BY <2>2, FenceNumbers
    <3> QED
        BY <3>1
  <2>4. authority' = authority => Behind(authority, authority')
      BY <2>2, BehindSelf
  <2>5. CASE CollectPublish
    <3>1. Behind(authority, authority') /\ overlay' = overlay
        BY <1>1, <2>5, CollectPublishInv DEF CollectPublish, CollectEnd
    <3> QED
        BY <1>1, <2>3, <3>1, ViewGrows
  <2>6. CASE PulsePublish
    <3>1. Kept /\ authority' = authority
        BY <1>1, <2>6, PulsePublishes DEF PulsePublish
    <3> QED
        BY <1>1, <2>4, <3>1, ViewGrows
  <2>7. CASE Finish \/ PulseRead \/ PulseFail \/ CollectList \/ CollectWatch \/ CollectFail
    <3>1. authority' = authority /\ overlay' = overlay
        BY <2>7 DEF Finish, PulseRead, PulseFail, CollectList, CollectWatch, CollectFail,
                    CollectEnd
    <3> QED
        BY <1>1, <2>3, <2>4, <3>1, ViewGrows
  <2> QED
      BY <1>1, <2>1, <2>5, <2>6, <2>7 DEF Next
<1> QED
    BY <1>1, WatchInvariant, PTL DEF Spec, NoRegress

\* However the builds of the pulse and of the collection overlap, the watcher of a
\* collection ends a confirmed incident only for a newer pass.
THEOREM IncidentsAreKept == Spec => IncidentKept
<1>1. ASSUME WatchInv, [Next]_vars
      PROVE  [\A g \in Groups :
                (/\ collect.stage = "listed" /\ collect'.stage = "watched"
                 /\ authority.inc[g].status = "confirmed" /\ View.inc[g].status = "confirmed"
                 /\ collect'.state.inc[g].status # "confirmed") =>
                \E n \in DOMAIN runs :
                   n > authority.fence[g].build /\ g \in DOMAIN runs[n] /\ runs[n][g] = "pass"]_vars
  <2>1. CASE CollectWatch
    <3>1. \A g \in Groups :
             authority.inc[g].status = "confirmed" /\ View.inc[g].status = "confirmed" =>
             \/ collect'.state.inc[g].status = "confirmed"
             \/ PassedAfter(runs, g, authority.fence[g].build)
        BY <1>1, <2>1, CollectWatches
    <3> QED
        BY <3>1 DEF PassedAfter, Gave
  <2>2. CASE Finish \/ PulseRead \/ PulsePublish \/ PulseFail
      BY <2>2 DEF Finish, PulseRead, PulsePublish, PulseFail
  <2>3. CASE CollectList
    <3>1. collect \in [stage : Stages, cohort : SUBSET Builds, state : State]
        BY <1>1 DEF WatchInv, ShapeOK
    <3>2. collect'.stage = "listed"
        BY <2>3, <3>1 DEF CollectList
    <3> QED
        BY <3>2
  <2>4. CASE CollectPublish \/ CollectFail
    <3>1. collect'.stage = "idle"
        BY <2>4 DEF CollectPublish, CollectFail, CollectEnd
    <3> QED
        BY <3>1
  <2> QED
      BY <1>1, <2>1, <2>2, <2>3, <2>4 DEF Next
<1> QED
    BY <1>1, WatchInvariant, PTL DEF Spec, IncidentKept
=============================================================================
