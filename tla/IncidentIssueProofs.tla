------------------------- MODULE IncidentIssueProofs -------------------------
(***************************************************************************)
(* What holds of the incident issue for every number of issues, states and *)
(* signals, unless an older workflow opened an unmarked issue after the    *)
(* incident was closed (the finding of run incident_slots).  One issue at  *)
(* most is marked current, and it is the target of the job that works, so  *)
(* the credits of a recovery and the signal that people closed are those   *)
(* of this one issue, and what the history says can be read off it.        *)
(***************************************************************************)
EXTENDS IncidentIssue, FiniteSetTheorems, WellFoundedInduction, TLAPS

Issue == [status : {None, "open", "closed"}, mark : {"plain", "current", "superseded"},
          recovered : BOOLEAN, signal : Signals \cup {None}, streak : 0..2,
          ids : SUBSET Pub]

Job == [kind : {"fail", "transient", "heal", "confirm"}, signal : Signals \cup {None},
        pub : Pub \cup {NoPub}, source : {"full", "targeted", "site"}, target : Issues,
        seen : {None, "open", "closed"}, todo : SUBSET Issues, tries : {0, 1}]

Shapes ==
    /\ issues \in [Issues -> Issue]
    /\ health \in {"ok", "transient"} \cup Signals
    /\ published \in Pub \cup {NoPub} /\ proof \in Pub \cup {NoPub}
    /\ job \in Job \cup {Idle}
    /\ acts \in 0..Acts
    /\ good \subseteq States /\ muted \in Signals \cup {None}

Exists(b) == b.status # None
Current(b) == b.mark = "current"
PlainOpen(b) == b.mark = "plain" /\ b.status = "open"

\* The healthy states a body has credits of were healthy since the last failure on
\* record.
Credits(b, g) ==
    /\ \A id \in b.ids : id.state \in g
    /\ b.streak = 0 <=> b.ids = {}
    /\ b.streak = 2 => Cardinality(g) >= 2

\* What a body may say, whatever the others say.
Sensible(b) ==
    /\ Current(b) => Exists(b)
    /\ b.mark = "plain" => b.status # "closed"
    /\ ~Current(b) => b.ids = {} /\ b.streak = 0 /\ ~b.recovered
    /\ Credits(b, good)

\* The issue that people closed on a signal.
MutedOn(b) == Current(b) /\ b.status = "closed" /\ ~b.recovered /\ b.signal = muted

Book ==
    /\ \A i \in Issues : Sensible(issues[i])
    /\ \A i, j \in Issues : Current(issues[i]) /\ Current(issues[j]) => i = j
    /\ (\E i \in Issues : PlainOpen(issues[i])) =>
          \E i \in Issues : Current(issues[i]) /\ issues[i].status = "open"
    \* what older workflows left is there in the worlds without people only
    /\ acts > 0 => \A i \in Issues : Exists(issues[i]) => Current(issues[i])
    /\ muted # None => \E i \in Issues : MutedOn(issues[i])

\* What a job that works may rely on.
Reliable ==
    /\ job.todo # {}
    /\ \A i \in job.todo \ {job.target} : Exists(issues[i])
    /\ \A i \in Issues : Current(issues[i]) => i = job.target
    /\ job.kind = "fail" => job.signal \in Signals
    /\ job.seen = None => job.kind = "fail"
    /\ job.seen = None /\ job.target \in job.todo => ~Exists(issues[job.target])
    /\ job.seen # None => Current(issues[job.target])
    /\ job.kind \in {"heal", "confirm"} =>
          /\ job.target \in job.todo
          /\ \A i \in Issues : PlainOpen(issues[i]) => i \in job.todo
    /\ job.kind = "heal" =>
          /\ job.pub.state \in good
          /\ job.source = "targeted" => issues[job.target].signal \in Targeted
    /\ job.kind = "confirm" =>
          /\ published = job.pub
          /\ issues[job.target].streak >= 1

IssueInv == Shapes /\ Book /\ (job # Idle => Reliable)

----------------------------------------------------------------------------
(* Bodies *)

LEMMA PubStates ==
    ASSUME NEW id \in Pub
    PROVE  id.state \in States
BY DEF Pub

\* Two elements of a finite set are two.
LEMMA TwoAreTwo ==
    ASSUME NEW S, IsFiniteSet(S), NEW x \in S, NEW y \in S, x # y
    PROVE  Cardinality(S) \in Nat /\ Cardinality(S) >= 2
<1>1. {x, y} \subseteq S /\ {x, y} = {x} \cup {y}
    OBVIOUS
<1>2. IsFiniteSet({x}) /\ Cardinality({x}) = 1
    BY FS_Singleton
<1>3. Cardinality({x, y}) = 2
    BY <1>1, <1>2, FS_AddElement
<1>4. Cardinality({x, y}) <= Cardinality(S)
    BY <1>1, FS_Subset
<1>5. Cardinality(S) \in Nat
    BY FS_CardinalityType
<1> QED
    BY <1>3, <1>4, <1>5

LEMMA GoodFinite ==
    ASSUME NEW g \in SUBSET States
    PROVE  IsFiniteSet(g) /\ Cardinality(g) \in Nat
BY IncidentAssumption, FS_Subset, FS_CardinalityType

\* More healthy states only help.
LEMMA CreditsGrow ==
    ASSUME NEW b, NEW g, NEW h, Credits(b, g), g \subseteq h,
           Cardinality(g) >= 2 => Cardinality(h) >= 2
    PROVE  Credits(b, h)
BY DEF Credits

LEMMA MarkCurrentIs ==
    ASSUME NEW b \in Issue
    PROVE  /\ MarkCurrent(b) \in Issue
           /\ MarkCurrent(b).mark = "current"
           /\ MarkCurrent(b).status = b.status /\ MarkCurrent(b).signal = b.signal
           /\ MarkCurrent(b).recovered = b.recovered
           /\ MarkCurrent(b).streak = b.streak /\ MarkCurrent(b).ids = b.ids
BY DEF MarkCurrent, Issue

LEMMA ResetIs ==
    ASSUME NEW b \in Issue
    PROVE  /\ Reset(b) \in Issue
           /\ Reset(b).mark = b.mark
           /\ Reset(b).status = b.status /\ Reset(b).signal = b.signal
           /\ Reset(b).recovered = FALSE
           /\ Reset(b).streak = 0 /\ Reset(b).ids = {}
<1>1. 0 \in 0..2 /\ {} \in SUBSET Pub
    OBVIOUS
<1> QED
    BY <1>1 DEF Reset, Issue

LEMMA FreshIs ==
    ASSUME NEW signal \in Signals \cup {None}, NEW status \in {None, "open", "closed"}
    PROVE  /\ Fresh(signal, status) \in Issue
           /\ Fresh(signal, status).mark = "current"
           /\ Fresh(signal, status).status = status
           /\ Fresh(signal, status).signal = signal
           /\ Fresh(signal, status).recovered = FALSE
           /\ Fresh(signal, status).streak = 0 /\ Fresh(signal, status).ids = {}
<1>1. 0 \in 0..2 /\ {} \in SUBSET Pub
    OBVIOUS
<1> QED
    BY <1>1 DEF Fresh, Issue

LEMMA NoIssueIs ==
    /\ NoIssue \in Issue
    /\ NoIssue.status = None /\ NoIssue.mark = "plain" /\ NoIssue.ids = {}
    /\ NoIssue.streak = 0 /\ NoIssue.recovered = FALSE
<1>1. 0 \in 0..2 /\ {} \in SUBSET Pub /\ None \in Signals \cup {None}
    OBVIOUS
<1> QED
    BY <1>1 DEF NoIssue, Issue

LEMMA SupersedeIs ==
    ASSUME NEW b
    PROVE  /\ Supersede(b) \in Issue
           /\ Supersede(b).mark = "superseded" /\ Supersede(b).status = "closed"
           /\ Supersede(b).recovered = FALSE
           /\ Supersede(b).streak = 0 /\ Supersede(b).ids = {}
BY NoIssueIs DEF Supersede, Issue

\* One more credit for a state that is healthy.
LEMMA AdvanceIs ==
    ASSUME NEW b \in Issue, NEW pub \in Pub, NEW g \in SUBSET States, Credits(b, g),
           pub.state \in g
    PROVE  /\ Advance(b, pub) \in Issue
           /\ Advance(b, pub).mark = b.mark
           /\ Advance(b, pub).status = b.status /\ Advance(b, pub).signal = b.signal
           /\ Advance(b, pub).recovered = b.recovered
           /\ Advance(b, pub).streak >= 1
           /\ Advance(b, pub).streak >= b.streak
           /\ Credits(Advance(b, pub), g)
<1> DEFINE ids == b.ids \cup {pub}
           streak == IF Credited(b, pub) \/ b.streak = 2 THEN b.streak ELSE b.streak + 1
<1>1. b.ids \in SUBSET Pub /\ b.streak \in 0..2
    BY DEF Issue
<1>2. ids \in SUBSET Pub /\ ids # {}
    BY <1>1
<1>3. streak \in 0..2 /\ streak >= b.streak
    BY <1>1
<1>4. streak >= 1
    BY <1>1 DEF Credited, Credits
<1>5. streak = 2 => Cardinality(g) >= 2
  <2> SUFFICES ASSUME streak = 2, b.streak # 2
               PROVE  Cardinality(g) >= 2
      BY DEF Credits
  <2>1. b.streak = 1 /\ ~Credited(b, pub)
      BY <1>1
  <2>2. PICK id \in b.ids : TRUE
      BY <2>1 DEF Credits
  <2>3. id.state \in g /\ id.state # pub.state
      BY <2>1, <2>2 DEF Credits, Credited
  <2> QED
      BY <2>3, GoodFinite, TwoAreTwo
<1>6. Advance(b, pub) = [b EXCEPT !.ids = ids, !.streak = streak]
    BY DEF Advance
<1>7. \A id \in ids : id.state \in g
    BY DEF Credits
<1> HIDE DEF ids, streak
<1>8. /\ Advance(b, pub) \in Issue
      /\ Advance(b, pub).mark = b.mark
      /\ Advance(b, pub).status = b.status /\ Advance(b, pub).signal = b.signal
      /\ Advance(b, pub).recovered = b.recovered
      /\ Advance(b, pub).streak = streak /\ Advance(b, pub).ids = ids
    BY <1>2, <1>3, <1>6 DEF Issue
<1> QED
    BY <1>2, <1>3, <1>4, <1>5, <1>7, <1>8 DEF Credits

LEMMA RecoverIs ==
    ASSUME NEW b \in Issue, NEW seen
    PROVE  /\ Recover(b, seen) \in Issue
           /\ Recover(b, seen).mark = b.mark /\ Recover(b, seen).signal = b.signal
           /\ Recover(b, seen).recovered = TRUE
           /\ Recover(b, seen).streak = b.streak /\ Recover(b, seen).ids = b.ids
           /\ Recover(b, seen).status = IF seen = "open" THEN "closed" ELSE b.status
BY DEF Recover, Issue
\* A body as a job leaves it: it is the current one, and it has the credits it says.
Written(r, g) == r \in Issue /\ Current(r) /\ Credits(r, g)

LEMMA NoCredits ==
    ASSUME NEW r, NEW g, r.streak = 0, r.ids = {}
    PROVE  Credits(r, g)
BY DEF Credits

LEMMA SameCredits ==
    ASSUME NEW b, NEW r, NEW g, Credits(b, g), r.streak = b.streak, r.ids = b.ids
    PROVE  Credits(r, g)
BY DEF Credits

\* A failing run keeps an incident closed only when its signal was suppressed or it
\* was closed in between.
LEMMA AfterFailureIs ==
    ASSUME NEW b \in Issue, NEW seen \in {None, "open", "closed"}, NEW signal \in Signals,
           NEW g, seen # None => Current(b)
    PROVE  LET r == AfterFailure(b, seen, signal)
           IN  /\ Written(r, g)
               /\ r.signal = signal /\ ~r.recovered
               /\ r.status \in {b.status, "open"}
               /\ r.status # b.status => seen # "open" /\ ~Suppressed(b, seen, signal)
               /\ seen = None => r.status = "open"
<1>1. CASE Suppressed(b, seen, signal)
  <2>1. AfterFailure(b, seen, signal) = Reset(MarkCurrent(b))
      BY <1>1 DEF AfterFailure
  <2>2. b.signal = signal /\ seen = "closed"
      BY <1>1 DEF Suppressed
  <2> DEFINE r == Reset(MarkCurrent(b))
  <2>3. /\ r \in Issue /\ r.mark = "current" /\ r.status = b.status
        /\ r.signal = b.signal /\ r.recovered = FALSE /\ r.streak = 0 /\ r.ids = {}
      BY MarkCurrentIs, ResetIs
  <2> HIDE DEF r
  <2>4. Credits(r, g)
      BY <2>3, NoCredits
  <2> QED
      BY <2>1, <2>2, <2>3, <2>4 DEF Written, Current, None, r
<1>2. CASE ~Suppressed(b, seen, signal)
  <2>1. PICK st \in {None, "open", "closed"} :
            /\ AfterFailure(b, seen, signal) = Fresh(signal, st)
            /\ st \in {b.status, "open"}
            /\ st # b.status => seen # "open"
            /\ seen = None => st = "open"
    <3> DEFINE status == IF seen = "open" THEN b.status ELSE "open"
    <3>1. AfterFailure(b, seen, signal) = Fresh(signal, status)
        BY <1>2 DEF AfterFailure
    <3>2. status \in {None, "open", "closed"}
        BY DEF Issue
    <3> QED
        BY <3>1, <3>2 DEF None
  <2> DEFINE r == Fresh(signal, st)
  <2>2. signal \in Signals \cup {None}
      OBVIOUS
  <2>3. /\ r \in Issue /\ r.mark = "current" /\ r.status = st
        /\ r.signal = signal /\ r.recovered = FALSE /\ r.streak = 0 /\ r.ids = {}
    <3>1. r \in Issue
        BY <2>2, FreshIs
    <3> QED
        BY <3>1 DEF Fresh
  <2> HIDE DEF r
  <2>4. Credits(r, g)
      BY <2>3, NoCredits
  <2> QED
      BY <1>2, <2>1, <2>3, <2>4 DEF Written, Current, r
<1> QED
    BY <1>1, <1>2

LEMMA AfterTransientIs ==
    ASSUME NEW b \in Issue, NEW seen \in {"open", "closed"}, NEW g, NEW h, Credits(b, g)
    PROVE  LET r == AfterTransient(b, seen)
           IN  /\ r \in Issue /\ Current(r)
               /\ r.status = b.status /\ r.signal = b.signal
               /\ r.recovered => b.recovered
               /\ seen = "closed" /\ b.recovered => Credits(r, g)
               /\ ~(seen = "closed" /\ b.recovered) => Credits(r, h) /\ ~r.recovered
<1>1. CASE ShouldReset(b, seen)
  <2>1. AfterTransient(b, seen) = Reset(MarkCurrent(b))
      BY <1>1 DEF AfterTransient
  <2> DEFINE r == Reset(MarkCurrent(b))
  <2>2. /\ r \in Issue /\ r.mark = "current" /\ r.status = b.status
        /\ r.signal = b.signal /\ r.recovered = FALSE /\ r.streak = 0 /\ r.ids = {}
      BY MarkCurrentIs, ResetIs
  <2> HIDE DEF r
  <2>3. Credits(r, g) /\ Credits(r, h)
      BY <2>2, NoCredits
  <2> QED
      BY <2>1, <2>2, <2>3 DEF Current, r
<1>2. CASE ~ShouldReset(b, seen)
  <2>1. AfterTransient(b, seen) = MarkCurrent(b)
      BY <1>2 DEF AfterTransient
  <2>2. seen = "closed" /\ (b.recovered \/ b.streak = 0)
      BY <1>2 DEF ShouldReset, Issue
  <2>3. b.streak = 0 => b.ids = {}
      BY DEF Credits
  <2>4. Credits(MarkCurrent(b), g)
      BY MarkCurrentIs DEF Credits
  <2>5. ~b.recovered => Credits(MarkCurrent(b), h)
      BY <2>2, <2>3, MarkCurrentIs, NoCredits
  <2>6. b.recovered \in BOOLEAN
      BY DEF Issue
  <2> QED
      BY <2>1, <2>2, <2>4, <2>5, <2>6, MarkCurrentIs DEF Current
<1> QED
    BY <1>1, <1>2

\* A healthy run recovers an incident that has the credits it needs.
LEMMA AfterHealthyIs ==
    ASSUME NEW b \in Issue, NEW seen, NEW pub \in Pub, NEW source,
           NEW g \in SUBSET States, Credits(b, g), pub.state \in g
    PROVE  LET r == AfterHealthy(b, seen, pub, source)
           IN  /\ Written(r, g)
               /\ r.signal = b.signal
               /\ r.status \in {b.status, "closed"}
               /\ r.status # b.status => r.recovered
               /\ (r.recovered /\ (~b.recovered \/ r.status # b.status)) =>
                      Cardinality(g) >= 2 \/ source = "targeted"
<1> DEFINE next == Advance(MarkCurrent(b), pub)
<1>1. MarkCurrent(b) \in Issue /\ Credits(MarkCurrent(b), g)
    BY MarkCurrentIs DEF Credits
<1>2. /\ next \in Issue
      /\ next.mark = "current" /\ next.status = b.status /\ next.signal = b.signal
      /\ next.recovered = b.recovered
      /\ Credits(next, g)
    BY <1>1, AdvanceIs, MarkCurrentIs
<1>3. CASE seen = "closed" /\ b.recovered
  <2>1. AfterHealthy(b, seen, pub, source) = MarkCurrent(b)
      BY <1>3 DEF AfterHealthy
  <2> QED
      BY <1>1, <1>3, <2>1, MarkCurrentIs DEF Written, Current
<1>4. CASE ~(seen = "closed" /\ b.recovered) /\ next.streak < Required(source)
  <2>1. AfterHealthy(b, seen, pub, source) = next
      BY <1>4 DEF AfterHealthy
  <2> HIDE DEF next
  <2> QED
      BY <1>2, <2>1 DEF Written, Current, Issue
<1>5. CASE ~(seen = "closed" /\ b.recovered) /\ ~(next.streak < Required(source))
  <2>1. AfterHealthy(b, seen, pub, source) = Recover(next, seen)
      BY <1>5 DEF AfterHealthy
  <2> HIDE DEF next
  <2>2. source # "targeted" => Cardinality(g) >= 2
    <3>1. next.streak \in 0..2
        BY <1>2 DEF Issue
    <3> QED
        BY <1>2, <1>5, <3>1 DEF Required, Credits
  <2> DEFINE r == Recover(next, seen)
  <2>3. /\ r \in Issue /\ r.mark = "current" /\ r.signal = b.signal
        /\ r.recovered = TRUE /\ r.streak = next.streak /\ r.ids = next.ids
        /\ r.status \in {b.status, "closed"}
    <3>1. next \in Issue
        BY <1>2
    <3>2. /\ r \in Issue /\ r.mark = next.mark /\ r.signal = next.signal
          /\ r.recovered = TRUE /\ r.streak = next.streak /\ r.ids = next.ids
          /\ r.status = IF seen = "open" THEN "closed" ELSE next.status
        BY <3>1, RecoverIs
    <3> HIDE DEF r
    <3> QED
        BY <1>2, <3>2
  <2> HIDE DEF r
  <2>4. Credits(r, g)
      BY <1>2, <2>3, SameCredits
  <2> QED
      BY <2>1, <2>2, <2>3, <2>4 DEF Written, Current, r
<1> QED
    BY <1>3, <1>4, <1>5

LEMMA ConfirmedIs ==
    ASSUME NEW b \in Issue, NEW seen, NEW g, Credits(b, g), Current(b)
    PROVE  LET r == Recover(b, seen)
           IN  /\ Written(r, g)
               /\ r.signal = b.signal /\ r.recovered /\ r.streak = b.streak
               /\ r.status \in {b.status, "closed"}
<1> DEFINE r == Recover(b, seen)
<1>1. /\ r \in Issue /\ r.mark = b.mark /\ r.signal = b.signal
      /\ r.recovered = TRUE /\ r.streak = b.streak /\ r.ids = b.ids
      /\ r.status \in {b.status, "closed"}
    BY RecoverIs
<1> HIDE DEF r
<1>2. Credits(r, g)
    BY <1>1, SameCredits
<1> QED
    BY <1>1, <1>2 DEF Written, Current, r

----------------------------------------------------------------------------
(* The canonical incident *)

LEMMA IssueIs ==
    ASSUME Shapes, NEW i \in Issues
    PROVE  issues[i] \in Issue
BY DEF Shapes

\* Without an unmarked incident left over, the candidates are the current issue.
LEMMA CandidatesCurrent ==
    ASSUME Shapes, Book
    PROVE  /\ Candidates \subseteq {i \in Issues : Current(issues[i])}
           /\ Candidates = {} => /\ \A i \in Issues : ~Current(issues[i])
                                 /\ \A i \in Issues : ~PlainOpen(issues[i])
<1> DEFINE active == {i \in Open : issues[i].mark # "superseded"}
           current == {i \in active : issues[i].mark = "current"}
           closed == {i \in Issues : issues[i].status = "closed" /\ issues[i].mark = "current"}
<1>1. Candidates = IF current # {} THEN current ELSE IF active # {} THEN active ELSE closed
    BY DEF Candidates
<1>2. \A i \in Issues : /\ issues[i].status \in {None, "open", "closed"}
                        /\ issues[i].mark \in {"plain", "current", "superseded"}
    BY IssueIs DEF Issue
<1>3. active # {} => current # {}
  <2> SUFFICES ASSUME NEW i \in active, issues[i].mark # "current"
               PROVE  current # {}
      OBVIOUS
  <2>1. i \in Issues /\ PlainOpen(issues[i])
      BY <1>2 DEF Open, PlainOpen
  <2>2. PICK c \in Issues : Current(issues[c]) /\ issues[c].status = "open"
      BY <2>1 DEF Book
  <2>3. c \in current
      BY <2>2 DEF Current, Open
  <2> QED
      BY <2>3
<1>4. Candidates \subseteq {i \in Issues : Current(issues[i])}
    BY <1>1, <1>3 DEF Current, Open
<1>5. ASSUME Candidates = {}, NEW i \in Issues
      PROVE  ~Current(issues[i]) /\ ~PlainOpen(issues[i])
  <2>1. active = {} /\ closed = {}
      BY <1>1, <1>3, <1>5
  <2>2. ~PlainOpen(issues[i])
      BY <2>1 DEF Open, PlainOpen
  <2>3. ASSUME Current(issues[i])
        PROVE  FALSE
    <3>1. issues[i].status # None
        BY <2>3 DEF Book, Sensible, Exists
    <3>2. issues[i].status \in {"open", "closed"}
        BY <1>2, <3>1
    <3>3. issues[i].mark = "current"
        BY <2>3 DEF Current
    <3>4. issues[i].status # "open"
        BY <2>1, <3>3 DEF Open
    <3>5. issues[i].status # "closed"
        BY <2>1, <3>3
    <3> QED
        BY <3>2, <3>4, <3>5
  <2> QED
      BY <2>2, <2>3
<1> QED
    BY <1>4, <1>5

LEMMA CanonicalIs ==
    ASSUME Shapes, Book
    PROVE  \/ /\ Canonical = 0
              /\ \A i \in Issues : ~Current(issues[i]) /\ ~PlainOpen(issues[i])
           \/ /\ Canonical \in Issues /\ Canonical # 0
              /\ Current(issues[Canonical]) /\ Exists(issues[Canonical])
              /\ \A i \in Issues : Current(issues[i]) => i = Canonical
<1>1. CASE Candidates = {}
    BY <1>1, CandidatesCurrent DEF Canonical
<1>2. CASE Candidates # {}
  <2>1. Canonical \in Candidates
      BY <1>2 DEF Canonical
  <2>2. Canonical \in Issues /\ Current(issues[Canonical])
      BY <2>1, CandidatesCurrent
  <2>3. Canonical # 0
      BY <2>2, IncidentAssumption
  <2> QED
      BY <2>2, <2>3 DEF Book, Sensible
<1> QED
    BY <1>1, <1>2
\* A nonempty set of natural numbers has a least element.
LEMMA LeastNatural ==
    ASSUME NEW T, T \subseteq Nat, T # {}
    PROVE  \E x \in T : \A y \in T : x =< y
<1> DEFINE R == OpToRel(<, Nat)
<1>1. IsWellFoundedOn(R, Nat)
    BY NatLessThanWellFounded
<1>2. \A x, y \in Nat : y < x => <<y, x>> \in R
    BY DEF OpToRel
<1> HIDE DEF R
<1>3. PICK x \in T : \A y \in T : ~ (<<y, x>> \in R)
    BY <1>1, WFMin
<1>4. x \in Nat /\ \A y \in T : y \in Nat
    OBVIOUS
<1>5. \A y \in T : ~ (y < x)
    BY <1>2, <1>3, <1>4
<1>6. \A y \in T : x =< y
    BY <1>4, <1>5
<1> QED
    BY <1>6

\* What a job has found it may rely on: its target is the current incident, or a
\* new issue when there is none.
LEMMA FindReliable ==
    ASSUME Shapes, Book, NEW kind \in {"fail", "transient", "heal", "confirm"},
           NEW signal \in Signals \cup {None}, NEW pub \in Pub \cup {NoPub},
           NEW source \in {"full", "targeted", "site"},
           Find(kind, signal, pub, source), issues' = issues,
           kind = "fail" => signal \in Signals,
           kind = "heal" => pub.state \in good',
           kind = "confirm" => published' = pub
    PROVE  job' \in Job \cup {Idle} /\ (job' # Idle => Reliable')
<1> SUFFICES ASSUME job' # Idle
             PROVE  job' \in Job /\ Reliable'
    OBVIOUS
<1> DEFINE target == IF Canonical = 0
                     THEN CHOOSE i \in FreeIssue : \A j \in FreeIssue : i <= j
                     ELSE Canonical
<1>1. /\ ~Ambiguous
      /\ IF Canonical = 0 THEN kind = "fail" /\ FreeIssue # {} ELSE Admitted(kind, source)
      /\ job' = [kind |-> kind, signal |-> signal, pub |-> pub, source |-> source,
                 target |-> target, seen |-> issues[target].status,
                 todo |-> Others \cup {target}, tries |-> 0]
    BY DEF Find
<1>2. \/ /\ Canonical = 0 /\ kind = "fail" /\ target \in FreeIssue
         /\ \A i \in Issues : ~Current(issues[i]) /\ ~PlainOpen(issues[i])
      \/ /\ Canonical # 0 /\ target = Canonical /\ Admitted(kind, source)
         /\ target \in Issues /\ Current(issues[target]) /\ Exists(issues[target])
         /\ \A i \in Issues : Current(issues[i]) => i = target
  <2>1. CASE Canonical = 0
    <3>1. FreeIssue # {} /\ FreeIssue \subseteq Nat
        BY <1>1, <2>1, IncidentAssumption DEF FreeIssue
    <3>2. \E i \in FreeIssue : \A j \in FreeIssue : i <= j
        BY <3>1, LeastNatural
    <3>3. target \in FreeIssue
        BY <2>1, <3>2
    <3> QED
        BY <1>1, <2>1, <3>3, CanonicalIs
  <2>2. CASE Canonical # 0
      BY <1>1, <2>2, CanonicalIs
  <2> QED
      BY <2>1, <2>2
<1> HIDE DEF target
<1>3. target \in Issues
    BY <1>2 DEF FreeIssue
<1>4. issues[target] \in Issue
    BY <1>3, IssueIs
<1>5. Others \subseteq Open /\ Open \subseteq Issues
    BY DEF Others, Open
<1>6. /\ job'.kind = kind /\ job'.signal = signal /\ job'.pub = pub
      /\ job'.source = source /\ job'.target = target
      /\ job'.seen = issues[target].status /\ job'.todo = Others \cup {target}
    BY <1>1
<1>7. job' \in Job
    BY <1>1, <1>3, <1>4, <1>5 DEF Job, Issue
<1>8. \A i \in job'.todo \ {target} : Exists(issues[i])
    BY <1>5, <1>6 DEF Open, Exists, None
<1>9. \A i \in Issues : Current(issues[i]) => i = target
    BY <1>2
<1>10. /\ issues[target].status = None => kind = "fail"
       /\ issues[target].status = None => ~Exists(issues[target])
       /\ issues[target].status # None => Current(issues[target])
    BY <1>2 DEF Exists, FreeIssue
<1>11. ASSUME kind \in {"heal", "confirm"}, NEW i \in Issues, PlainOpen(issues[i])
       PROVE  i \in job'.todo
  <2>1. Canonical # 0 /\ target = Canonical
      BY <1>2, <1>11
  <2>2. i \in Open
      BY <1>11 DEF PlainOpen, Open
  <2>3. PICK c \in Issues : Current(issues[c]) /\ issues[c].status = "open"
      BY <1>11 DEF Book
  <2>4. c = Canonical
      BY <1>2, <2>1, <2>3
  <2>5. issues[Canonical].status # "closed"
      BY <2>3, <2>4
  <2>6. Others = Open \ {Canonical}
      BY <2>5 DEF Others
  <2> QED
      BY <1>6, <2>1, <2>2, <2>6
<1>12. kind = "heal" => (source = "targeted" => issues[target].signal \in Targeted)
    BY <1>2 DEF Admitted
<1>13. kind = "confirm" => issues[target].streak >= 1
    BY <1>2 DEF Admitted
<1>14. Reliable'
    BY <1>6, <1>8, <1>9, <1>10, <1>11, <1>12, <1>13
       DEF Reliable, Exists, Current, PlainOpen
<1> QED
    BY <1>7, <1>14

----------------------------------------------------------------------------
(* Requests *)

LEMMA JobIs ==
    ASSUME IssueInv, Works
    PROVE  /\ job \in Job /\ Shapes /\ Book /\ Reliable
           /\ job.target \in Issues /\ issues[job.target] \in Issue
           /\ Sensible(issues[job.target])
<1>1. job \in Job /\ Shapes /\ Book /\ Reliable
    BY DEF IssueInv, Works, Shapes
<1>2. job.target \in Issues
    BY <1>1 DEF Job
<1> QED
    BY <1>1, <1>2, IssueIs DEF Book

\* What a request to the target leaves: the body of the incident goes on, or
\* starts anew with the history.
Goes(b, r) ==
    /\ Written(r, good') /\ Exists(r)
    /\ good' \subseteq States
    /\ \/ good' = good
       \/ good' = {} /\ job.kind \in {"fail", "transient"}
    /\ r.status # b.status =>
          \/ r.status = "open" /\ job.kind = "fail"
          \/ r.status = "closed" /\ job.kind \in {"heal", "confirm"} /\ r.recovered
    /\ job.kind \in {"heal", "confirm"} => good' = good /\ r.signal = b.signal
    /\ job.kind = "confirm" => r.streak = b.streak
    /\ muted' \in Signals \cup {None}
    /\ muted' # None => /\ r.status = "closed" /\ ~r.recovered /\ r.signal = muted'
    /\ r.recovered /\ (~b.recovered \/ r.status # b.status) => Earned(job.target)
    /\ b.status # "open" /\ r.status = "open" => muted # r.signal
\* The incident that people closed is the one the job works on.
LEMMA MutedTarget ==
    ASSUME IssueInv, Works, muted # None
    PROVE  MutedOn(issues[job.target])
BY JobIs DEF Book, Reliable, MutedOn

LEMMA DueTodo ==
    ASSUME IssueInv, Works
    PROVE  /\ Due \subseteq job.todo
           /\ job.target \in Due /\ job.kind \in {"heal", "confirm"} => job.todo = {job.target}
<1>1. job.todo # {}
    BY JobIs DEF Reliable
<1> QED
    BY <1>1 DEF Due

LEMMA FailGoes ==
    ASSUME IssueInv, Works, job.target \in Due, Apply(job.target), job.kind = "fail"
    PROVE  Goes(issues[job.target], Settled)
<1> DEFINE b == issues[job.target]
           r == AfterFailure(b, job.seen, job.signal)
<1>1. /\ b \in Issue /\ job \in Job /\ Sensible(b) /\ Reliable /\ Shapes
      /\ job.seen \in {None, "open", "closed"} /\ job.signal \in Signals
    BY JobIs DEF Job, Reliable
<1>2. Settled = r
    BY DEF Settled
<1>3. issues' = [issues EXCEPT ![job.target] = Settled] /\ OnRecord(b)
    BY DEF Apply
<1>4. issues'[job.target] = r
    BY <1>2, <1>3, JobIs DEF Shapes
<1>5. good' = {}
    BY <1>3 DEF OnRecord
<1>6. muted' = IF r.recovered THEN None
               ELSE IF muted # None
                    THEN IF r.status = "open" THEN None ELSE job.signal
               ELSE muted
    BY <1>3, <1>4 DEF OnRecord
<1>7. job.seen # None => Current(b)
    BY <1>1 DEF Reliable
<1>8. /\ Written(r, {})
      /\ r.signal = job.signal /\ ~r.recovered
      /\ r.status \in {b.status, "open"}
      /\ r.status # b.status => job.seen # "open" /\ ~Suppressed(b, job.seen, job.signal)
      /\ job.seen = None => r.status = "open"
    BY <1>1, <1>7, AfterFailureIs
<1>9. muted # None => /\ b.status = "closed" /\ Current(b) /\ ~b.recovered
                      /\ b.signal = muted
    BY MutedTarget DEF MutedOn
<1>10. Exists(r)
    BY <1>1, <1>7, <1>8 DEF Sensible, Exists, None
<1>11. muted' # None => r.status = "closed" /\ r.signal = muted'
    BY <1>6, <1>8, <1>9
<1>12. ASSUME b.status # "open", r.status = "open", muted = r.signal
       PROVE  FALSE
  <2>1. muted # None /\ muted = job.signal
      BY <1>1, <1>8, <1>12, IncidentAssumption DEF None
  <2>2. b.status = "closed" /\ ~b.recovered /\ b.signal = job.signal
      BY <1>9, <2>1
  <2>3. job.seen # "open" /\ ~Suppressed(b, job.seen, job.signal)
      BY <1>8, <1>12
  <2>4. job.seen = None
      BY <1>1, <2>2, <2>3 DEF Suppressed
  <2>5. job.target \in job.todo
      BY DueTodo
  <2>6. b.status = None
      BY <1>1, <2>4, <2>5 DEF Reliable, Exists
  <2> QED
      BY <2>2, <2>6 DEF None
<1>13. muted' \in Signals \cup {None}
    BY <1>1, <1>6 DEF Shapes
<1> HIDE DEF b, r
<1>14. Goes(b, r)
    BY <1>5, <1>8, <1>10, <1>11, <1>12, <1>13 DEF Goes
<1> QED
    BY <1>2, <1>14 DEF b

LEMMA TransientGoes ==
    ASSUME IssueInv, Works, job.target \in Due, Apply(job.target), job.kind = "transient"
    PROVE  Goes(issues[job.target], Settled)
<1> DEFINE b == issues[job.target]
           r == AfterTransient(b, job.seen)
<1>1. /\ b \in Issue /\ job \in Job /\ Sensible(b) /\ Reliable /\ Shapes
      /\ job.seen \in {"open", "closed"}
    BY JobIs DEF Job, Reliable
<1>2. Settled = r
    BY DEF Settled
<1>3. issues' = [issues EXCEPT ![job.target] = Settled] /\ OnRecord(b)
    BY DEF Apply
<1>4. issues'[job.target] = r
    BY <1>2, <1>3, JobIs DEF Shapes
<1>5. good' = IF job.seen = "closed" /\ b.recovered THEN good ELSE {}
    BY <1>3 DEF OnRecord
<1>6. muted' = IF r.recovered THEN None ELSE muted
    BY <1>3, <1>4 DEF OnRecord
<1>7. Credits(b, good)
    BY <1>1 DEF Sensible
<1>8. /\ r \in Issue /\ Current(r)
      /\ r.status = b.status /\ r.signal = b.signal
      /\ r.recovered => b.recovered
      /\ job.seen = "closed" /\ b.recovered => Credits(r, good)
      /\ ~(job.seen = "closed" /\ b.recovered) => Credits(r, {}) /\ ~r.recovered
    BY <1>1, <1>7, AfterTransientIs
<1>9. Credits(r, good')
    BY <1>5, <1>8
<1>10. muted # None => /\ b.status = "closed" /\ ~b.recovered /\ b.signal = muted
    BY MutedTarget DEF MutedOn
<1>11. Exists(b)
    BY <1>1 DEF Sensible, Reliable, None
<1>12. good' \subseteq States /\ muted' \in Signals \cup {None}
    BY <1>1, <1>5, <1>6 DEF Shapes
<1>13. good' = good \/ good' = {}
    BY <1>5
<1> HIDE DEF b, r
<1>14. Goes(b, r)
    BY <1>6, <1>8, <1>9, <1>10, <1>11, <1>12, <1>13 DEF Goes, Written, Exists
<1> QED
    BY <1>2, <1>14 DEF b

LEMMA HealGoes ==
    ASSUME IssueInv, Works, job.target \in Due, Apply(job.target), job.kind = "heal"
    PROVE  Goes(issues[job.target], Settled)
<1> DEFINE b == issues[job.target]
           r == AfterHealthy(b, job.seen, job.pub, job.source)
<1>1. /\ b \in Issue /\ job \in Job /\ Sensible(b) /\ Reliable /\ Shapes
      /\ good \in SUBSET States /\ job.pub.state \in good
    BY JobIs DEF Reliable, Shapes
<1>2. job.pub \in Pub
  <2>1. job.pub.state \in States /\ 0 \notin States
      BY <1>1, IncidentAssumption
  <2>2. NoPub.state = 0
      BY DEF NoPub
  <2> QED
      BY <1>1, <2>1, <2>2 DEF Job
<1>3. Settled = r
    BY DEF Settled
<1>4. issues' = [issues EXCEPT ![job.target] = Settled] /\ OnRecord(b)
    BY DEF Apply
<1>5. issues'[job.target] = r
    BY <1>3, <1>4, JobIs DEF Shapes
<1>6. good' = good
    BY <1>4 DEF OnRecord
<1>7. muted' = IF r.recovered THEN None ELSE muted
    BY <1>4, <1>5 DEF OnRecord
<1>8. Credits(b, good)
    BY <1>1 DEF Sensible
<1>9. /\ Written(r, good)
      /\ r.signal = b.signal
      /\ r.status \in {b.status, "closed"}
      /\ r.status # b.status => r.recovered
      /\ (r.recovered /\ (~b.recovered \/ r.status # b.status)) =>
             Cardinality(good) >= 2 \/ job.source = "targeted"
  <2> DEFINE seen == job.seen
             pub == job.pub
             source == job.source
             g == good
  <2>1. b \in Issue /\ pub \in Pub /\ g \in SUBSET States /\ Credits(b, g) /\ pub.state \in g
      BY <1>1, <1>2, <1>8
  <2>2. r = AfterHealthy(b, seen, pub, source)
      OBVIOUS
  <2> HIDE DEF b, seen, pub, source, g, r
  <2>3. /\ Written(r, g)
        /\ r.signal = b.signal
        /\ r.status \in {b.status, "closed"}
        /\ r.status # b.status => r.recovered
        /\ (r.recovered /\ (~b.recovered \/ r.status # b.status)) =>
             Cardinality(g) >= 2 \/ source = "targeted"
      BY <2>1, <2>2, AfterHealthyIs
  <2> QED
      BY <2>3 DEF source, g
<1>10. muted # None => /\ b.status = "closed" /\ ~b.recovered /\ b.signal = muted
    BY MutedTarget DEF MutedOn
<1>11. Exists(b)
    BY <1>1 DEF Sensible, Reliable, None
<1>12. muted' \in Signals \cup {None}
    BY <1>1, <1>7 DEF Shapes
<1>13. Cardinality(good) >= 2 \/ job.source = "targeted" => Earned(job.target)
    BY <1>1 DEF Earned, Reliable
<1> HIDE DEF b, r
<1>14. Goes(b, r)
    BY <1>1, <1>6, <1>7, <1>9, <1>10, <1>11, <1>12, <1>13 DEF Goes, Exists, None
<1> QED
    BY <1>3, <1>14 DEF b

LEMMA ConfirmGoes ==
    ASSUME IssueInv, Works, job.target \in Due, Apply(job.target), job.kind = "confirm"
    PROVE  Goes(issues[job.target], Settled)
<1> DEFINE b == issues[job.target]
           r == Recover(b, job.seen)
<1>1. /\ b \in Issue /\ job \in Job /\ Sensible(b) /\ Reliable /\ Shapes
    BY JobIs
<1>2. Settled = r
    BY DEF Settled
<1>3. issues' = [issues EXCEPT ![job.target] = Settled] /\ OnRecord(b)
    BY DEF Apply
<1>4. issues'[job.target] = r
    BY <1>2, <1>3, JobIs DEF Shapes
<1>5. good' = good /\ good \subseteq States
    BY <1>1, <1>3 DEF OnRecord, Shapes
<1>6. Credits(b, good) /\ Current(b) /\ Exists(b)
    BY <1>1 DEF Sensible, Reliable, None
<1>7. /\ Written(r, good)
      /\ r.signal = b.signal /\ r.recovered /\ r.streak = b.streak
      /\ r.status \in {b.status, "closed"}
    BY <1>1, <1>6, ConfirmedIs
<1>8. muted' = None
    BY <1>3, <1>4, <1>7 DEF OnRecord
<1>9. Earned(job.target)
  <2>1. b.streak >= 1 /\ published = job.pub
      BY <1>1 DEF Reliable
  <2>2. PICK id \in b.ids : id.state \in good
      BY <1>6, <2>1 DEF Credits
  <2> QED
      BY <2>1, <2>2 DEF Earned
<1> HIDE DEF b, r
<1>10. Goes(b, r)
    BY <1>5, <1>6, <1>7, <1>8, <1>9 DEF Goes, Exists, None
<1> QED
    BY <1>2, <1>10 DEF b

LEMMA TargetGoes ==
    ASSUME IssueInv, Works, job.target \in Due, Apply(job.target)
    PROVE  /\ issues' = [issues EXCEPT ![job.target] = Settled]
           /\ Goes(issues[job.target], Settled)
<1>1. job.kind \in {"fail", "transient", "heal", "confirm"}
    BY JobIs DEF Job
<1> QED
    BY <1>1, FailGoes, TransientGoes, HealGoes, ConfirmGoes DEF Apply
LEMMA TargetBook ==
    ASSUME IssueInv, Works, job.target \in Due, Apply(job.target)
    PROVE  /\ issues' \in [Issues -> Issue] /\ issues'[job.target] = Settled
           /\ \A i \in Issues \ {job.target} : issues'[i] = issues[i]
           /\ good' \subseteq States /\ muted' \in Signals \cup {None}
           /\ Book'
<1> DEFINE t == job.target
           b == issues[t]
           r == Settled
<1>1. /\ t \in Issues /\ Shapes /\ Book /\ Reliable
      /\ job.kind \in {"fail", "transient", "heal", "confirm"}
    BY JobIs DEF Job
<1>2. issues' = [issues EXCEPT ![t] = r] /\ Goes(b, r)
    BY TargetGoes
<1> HIDE DEF r
<1>3. r \in Issue /\ Current(r) /\ Credits(r, good') /\ Exists(r)
    BY <1>2 DEF Goes, Written
<1>4. /\ issues' \in [Issues -> Issue] /\ issues'[t] = r
      /\ \A i \in Issues \ {t} : issues'[i] = issues[i]
    BY <1>1, <1>2, <1>3 DEF Shapes
<1>5. good' \subseteq States /\ muted' \in Signals \cup {None} /\ acts' = acts
    BY <1>2 DEF Goes, Works
<1>6. \A i \in Issues : Current(issues[i]) => i = t
    BY <1>1 DEF Reliable
<1>7. ASSUME NEW i \in Issues
      PROVE  Sensible(issues[i])'
  <2>1. CASE i = t
    <3>1. Sensible(issues[i])' <=>
            /\ Current(r) => Exists(r)
            /\ r.mark = "plain" => r.status # "closed"
            /\ ~Current(r) => r.ids = {} /\ r.streak = 0 /\ ~r.recovered
            /\ Credits(r, good')
        BY <1>4, <2>1 DEF Sensible, Current, Exists, Credits
    <3> QED
        BY <1>3, <3>1 DEF Current
  <2>2. CASE i # t
    <3>1. Sensible(issues[i]) /\ ~Current(issues[i]) /\ issues'[i] = issues[i]
        BY <1>1, <1>4, <1>6, <2>2 DEF Book
    <3>2. issues[i].streak = 0 /\ issues[i].ids = {}
        BY <3>1 DEF Sensible
    <3>3. Credits(issues[i], good')
        BY <3>2, NoCredits
    <3> QED
        BY <3>1, <3>3 DEF Sensible, Current, Exists, Credits
  <2> QED
      BY <2>1, <2>2
<1>8. \A i \in Issues : Current(issues'[i]) => i = t
    BY <1>4, <1>6
<1>9. ASSUME NEW i \in Issues, PlainOpen(issues'[i])
      PROVE  r.status = "open"
  <2>1. i # t /\ PlainOpen(issues[i])
      BY <1>3, <1>4, <1>9 DEF PlainOpen, Current
  <2>2. b.status = "open"
      BY <1>1, <1>6, <2>1 DEF Book
  <2>3. job.kind \notin {"heal", "confirm"}
      BY <1>1, <2>1, DueTodo DEF Reliable
  <2> QED
      BY <1>2, <2>2, <2>3 DEF Goes
<1>10. (\E i \in Issues : PlainOpen(issues'[i])) =>
            \E i \in Issues : Current(issues'[i]) /\ issues'[i].status = "open"
    BY <1>1, <1>3, <1>4, <1>9
<1>11. acts' > 0 => \A i \in Issues : Exists(issues'[i]) => Current(issues'[i])
    BY <1>1, <1>3, <1>4, <1>5 DEF Book
<1>12. muted' # None => /\ Current(issues'[t]) /\ issues'[t].status = "closed"
                        /\ ~issues'[t].recovered /\ issues'[t].signal = muted'
    BY <1>2, <1>3, <1>4 DEF Goes
<1>13. Book'
    BY <1>1, <1>7, <1>8, <1>10, <1>11, <1>12
       DEF Book, Current, PlainOpen, Exists, MutedOn
<1> QED
    BY <1>4, <1>5, <1>13 DEF r

LEMMA SettleInv ==
    ASSUME IssueInv, Settle
    PROVE  IssueInv'
<1> DEFINE t == job.target
<1>1. Works /\ t \in Due /\ Apply(t) /\ Proceed(t) /\ Reliable /\ Shapes /\ job \in Job
    BY JobIs DEF Settle
<1>2. /\ issues' \in [Issues -> Issue] /\ issues'[t] = Settled
      /\ \A i \in Issues \ {t} : issues'[i] = issues[i]
      /\ good' \subseteq States /\ muted' \in Signals \cup {None}
      /\ Book'
    BY <1>1, TargetBook
<1>3. UNCHANGED <<health, published, proof, acts>>
    BY <1>1 DEF Works
<1>4. CASE job' = Idle
    BY <1>1, <1>2, <1>3, <1>4 DEF IssueInv, Shapes
<1>5. CASE job' # Idle
  <2>1. job.todo # {t} /\ job' = [job EXCEPT !.todo = @ \ {t}]
      BY <1>1, <1>5 DEF Proceed
  <2>2. /\ job' \in Job
        /\ job'.kind = job.kind /\ job'.target = t /\ job'.seen = job.seen
        /\ job'.signal = job.signal /\ job'.todo = job.todo \ {t}
      BY <1>1, <2>1 DEF Job
  <2>3. job.kind \notin {"heal", "confirm"} /\ job.kind \in {"fail", "transient", "heal", "confirm"}
      BY <1>1, <2>1, DueTodo DEF Job
  <2>4. Written(Settled, good')
      BY <1>1, TargetGoes DEF Goes
  <2>5. Current(issues'[t])
      BY <1>2, <2>4 DEF Written
  <2>6. \A i \in Issues : Current(issues'[i]) => i = t
      BY <1>1, <1>2 DEF Reliable
  <2>7. job.todo \subseteq Issues /\ job.todo # {}
      BY <1>1 DEF Job, Reliable
  <2>8. \A i \in job'.todo \ {t} : Exists(issues'[i])
      BY <1>1, <1>2, <2>2, <2>7 DEF Reliable
  <2>9. Reliable'
      BY <1>1, <2>1, <2>2, <2>3, <2>5, <2>6, <2>7, <2>8 DEF Reliable, Exists, Current
  <2> QED
      BY <1>2, <1>3, <1>1, <2>2, <2>9 DEF IssueInv, Shapes
<1> QED
    BY <1>4, <1>5

LEMMA OtherBook ==
    ASSUME IssueInv, Works, NEW i \in Due \ {job.target}, Apply(i)
    PROVE  /\ issues' \in [Issues -> Issue] /\ ~PlainOpen(issues'[i]) /\ Exists(issues'[i])
           /\ i \in Issues /\ i \in job.todo
           /\ \A k \in Issues \ {i} : issues'[k] = issues[k]
           /\ \A k \in Issues : Current(issues'[k]) => k = job.target
           /\ UNCHANGED <<good, muted>>
           /\ Book'
<1> DEFINE t == job.target
           r == Supersede(issues[i])
<1>1. /\ t \in Issues /\ Shapes /\ Book /\ Reliable /\ job \in Job
      /\ i \in job.todo /\ i # t /\ i \in Issues
    BY JobIs, DueTodo DEF Job
<1>2. issues' = [issues EXCEPT ![i] = r] /\ UNCHANGED <<good, muted>>
    BY <1>1 DEF Apply
<1>3. /\ r \in Issue /\ r.mark = "superseded" /\ r.status = "closed"
      /\ r.recovered = FALSE /\ r.streak = 0 /\ r.ids = {}
    BY SupersedeIs
<1> HIDE DEF r
<1>4. /\ issues' \in [Issues -> Issue] /\ issues'[i] = r
      /\ \A k \in Issues \ {i} : issues'[k] = issues[k]
    BY <1>1, <1>2, <1>3 DEF Shapes
<1>5. ~PlainOpen(r) /\ Exists(r) /\ ~Current(r)
    BY <1>3 DEF PlainOpen, Exists, Current, None
<1>6. \A k \in Issues : Current(issues'[k]) => k = t
    BY <1>1, <1>4, <1>5 DEF Reliable
<1>7. ASSUME NEW k \in Issues
      PROVE  Sensible(issues[k])'
  <2>1. CASE k = i
    <3>1. Credits(r, good)
        BY <1>3, NoCredits
    <3> QED
        BY <1>2, <1>3, <1>4, <1>5, <2>1, <3>1 DEF Sensible, Current, Exists, Credits
  <2>2. CASE k # i
      BY <1>1, <1>2, <1>4, <2>2 DEF Book, Sensible, Current, Exists, Credits
  <2> QED
      BY <2>1, <2>2
<1>8. (\E k \in Issues : PlainOpen(issues'[k])) =>
            \E k \in Issues : Current(issues'[k]) /\ issues'[k].status = "open"
  <2> SUFFICES ASSUME NEW k \in Issues, PlainOpen(issues'[k])
               PROVE  Current(issues'[t]) /\ issues'[t].status = "open"
      BY <1>1
  <2>1. PlainOpen(issues[k])
      BY <1>4, <1>5
  <2>2. PICK c \in Issues : Current(issues[c]) /\ issues[c].status = "open"
      BY <1>1, <2>1 DEF Book
  <2>3. c = t
      BY <1>1, <2>2 DEF Reliable
  <2> QED
      BY <1>1, <1>4, <2>2, <2>3
<1>9. ~(acts' > 0)
  <2>1. acts' = acts
      BY DEF Works
  <2>2. Exists(issues[i]) /\ ~Current(issues[i])
      BY <1>1 DEF Reliable
  <2> QED
      BY <1>1, <2>1, <2>2 DEF Book
<1>10. muted' # None => /\ Current(issues'[t]) /\ issues'[t].status = "closed"
                        /\ ~issues'[t].recovered /\ issues'[t].signal = muted'
    BY <1>1, <1>2, <1>4, MutedTarget DEF MutedOn
<1>11. Book'
    BY <1>1, <1>6, <1>7, <1>8, <1>9, <1>10
       DEF Book, Current, PlainOpen, Exists, MutedOn
<1> QED
    BY <1>1, <1>2, <1>4, <1>5, <1>6, <1>11

\* The job may still rely on what it found when another issue was superseded.
LEMMA OtherReliable ==
    ASSUME IssueInv, Works, NEW i \in Due \ {job.target}, Apply(i)
    PROVE  /\ \A k \in job.todo \ {job.target} : Exists(issues'[k])
           /\ issues'[job.target] = issues[job.target]
           /\ \A k \in Issues : PlainOpen(issues'[k]) => PlainOpen(issues[k]) /\ k # i
<1>1. /\ job.target \in Issues /\ Reliable /\ job \in Job
      /\ job.todo \subseteq Issues
    BY JobIs DEF Job
<1> QED
    BY <1>1, OtherBook DEF Reliable

LEMMA SupersedeOtherInv ==
    ASSUME IssueInv, SupersedeOther
    PROVE  IssueInv'
<1>1. PICK i \in Due \ {job.target} : Apply(i) /\ Proceed(i)
    BY DEF SupersedeOther
<1>2. Works /\ Reliable /\ Shapes /\ job \in Job /\ job.target \in Issues
    BY JobIs DEF SupersedeOther
<1>3. /\ issues' \in [Issues -> Issue]
      /\ i \in job.todo
      /\ \A k \in Issues : Current(issues'[k]) => k = job.target
      /\ UNCHANGED <<good, muted>>
      /\ Book'
    BY <1>1, <1>2, OtherBook
<1>4. UNCHANGED <<health, published, proof, acts>>
    BY <1>2 DEF Works
<1>5. CASE job' = Idle
    BY <1>2, <1>3, <1>4, <1>5 DEF IssueInv, Shapes
<1>6. CASE job' # Idle
  <2>1. job.todo # {i} /\ job' = [job EXCEPT !.todo = @ \ {i}]
      BY <1>1, <1>6 DEF Proceed
  <2>2. /\ job' \in Job
        /\ job'.kind = job.kind /\ job'.target = job.target /\ job'.seen = job.seen
        /\ job'.signal = job.signal /\ job'.pub = job.pub /\ job'.source = job.source
        /\ job'.todo = job.todo \ {i}
      BY <1>2, <2>1 DEF Job
  <2>3. /\ \A k \in job.todo \ {job.target} : Exists(issues'[k])
        /\ issues'[job.target] = issues[job.target]
        /\ \A k \in Issues : PlainOpen(issues'[k]) => PlainOpen(issues[k]) /\ k # i
      BY <1>1, <1>2, OtherReliable
  <2>4. job'.todo # {} /\ job.target # i
      BY <1>1, <1>3, <2>1, <2>2
  <2>5. Reliable'
      BY <1>2, <1>3, <1>4, <2>2, <2>3, <2>4 DEF Reliable, Exists, Current, PlainOpen
  <2> QED
      BY <1>2, <1>3, <1>4, <2>2, <2>5 DEF IssueInv, Shapes
<1> QED
    BY <1>5, <1>6

LEMMA UnansweredInv ==
    ASSUME IssueInv, Unanswered
    PROVE  IssueInv'
<1>1. PICK i \in Due :
        /\ Apply(i) \/ UNCHANGED <<issues, good, muted>>
        /\ \/ job' = Idle
           \/ /\ i = job.target /\ job.tries = 0 /\ job.seen = "open"
              /\ job.kind \in {"heal", "confirm"}
              /\ Settled.status = "closed" /\ Settled.recovered
              /\ job' = [job EXCEPT !.tries = 1]
    BY DEF Unanswered
<1>2. Works /\ Reliable /\ Shapes /\ Book /\ job \in Job /\ job.target \in Issues
    BY JobIs DEF Unanswered
<1>3. UNCHANGED <<health, published, proof, acts>>
    BY <1>2 DEF Works
<1>4. /\ issues' \in [Issues -> Issue]
      /\ good' \subseteq States /\ muted' \in Signals \cup {None}
      /\ Book'
  <2>1. CASE UNCHANGED <<issues, good, muted>>
      BY <1>2, <1>3, <2>1
         DEF Book, Shapes, Sensible, Current, PlainOpen, Exists, MutedOn, Credits
  <2>2. CASE Apply(i) /\ i = job.target
      BY <1>2, <2>2, TargetBook
  <2>3. CASE Apply(i) /\ i # job.target
      BY <1>2, <2>3, OtherBook DEF Shapes
  <2> QED
      BY <1>1, <2>1, <2>2, <2>3
<1>5. CASE job' = Idle
    BY <1>2, <1>3, <1>4, <1>5 DEF IssueInv, Shapes
<1>6. CASE job' # Idle
  <2>1. /\ i = job.target /\ job.seen = "open" /\ job.kind \in {"heal", "confirm"}
        /\ job' = [job EXCEPT !.tries = 1]
      BY <1>1, <1>6
  <2>2. /\ job' \in Job
        /\ job'.kind = job.kind /\ job'.target = job.target /\ job'.seen = job.seen
        /\ job'.signal = job.signal /\ job'.pub = job.pub /\ job'.source = job.source
        /\ job'.todo = job.todo
      BY <1>2, <2>1 DEF Job
  <2>3. /\ \A k \in Issues \ {job.target} : issues'[k] = issues[k]
        /\ Current(issues'[job.target])
        /\ issues'[job.target].signal = issues[job.target].signal
        /\ job.kind = "confirm" => issues'[job.target].streak = issues[job.target].streak
        /\ good' = good
    <3>1. CASE UNCHANGED <<issues, good, muted>>
      <4>1. Current(issues[job.target])
          BY <1>2, <2>1 DEF Reliable, None
      <4> QED
          BY <3>1, <4>1
    <3>2. CASE Apply(i)
      <4>1. Apply(job.target) /\ job.target \in Due
          BY <2>1, <3>2
      <4>2. Goes(issues[job.target], Settled)
          BY <1>2, <4>1, TargetGoes
      <4>3. /\ issues'[job.target] = Settled
            /\ \A k \in Issues \ {job.target} : issues'[k] = issues[k]
          BY <1>2, <4>1, TargetBook
      <4> QED
          BY <2>1, <4>2, <4>3 DEF Goes, Written
    <3> QED
        BY <1>1, <3>1, <3>2
  <2>4. job.todo \subseteq Issues /\ \A k \in Issues : Current(issues'[k]) => k = job.target
      BY <1>2, <2>3 DEF Reliable, Job
  <2>5. \A k \in Issues : PlainOpen(issues'[k]) => PlainOpen(issues[k])
      BY <2>3 DEF PlainOpen, Current
  <2>6. \A k \in job.todo \ {job.target} : Exists(issues'[k])
      BY <1>2, <2>3, <2>4 DEF Reliable
  <2>7. Reliable'
      BY <1>2, <1>3, <2>1, <2>2, <2>3, <2>4, <2>5, <2>6
         DEF Reliable, Exists, Current, PlainOpen, None
  <2> QED
      BY <1>2, <1>3, <1>4, <2>2, <2>7 DEF IssueInv, Shapes
<1> QED
    BY <1>5, <1>6

----------------------------------------------------------------------------
(* Jobs that begin, and the world around them *)

\* Nothing was written, and a credit stays a credit.
LEMMA BookKept ==
    ASSUME Book, UNCHANGED <<issues, muted, acts>>,
           \A i \in Issues : Credits(issues[i], good')
    PROVE  Book'
<1>1. \A i \in Issues : Sensible(issues[i])'
    BY DEF Book, Sensible, Current, Exists, Credits
<1> QED
    BY <1>1 DEF Book, Current, PlainOpen, Exists, MutedOn

LEMMA CreditsNow ==
    ASSUME Book
    PROVE  \A i \in Issues : Credits(issues[i], good)
BY DEF Book, Sensible

LEMMA PubsAre ==
    ASSUME NEW pub \in NewPub \cup SamePub
    PROVE  pub \in Pub /\ pub.state \in States
BY DEF NewPub, SamePub, Pub

\* One more healthy state.
LEMMA GoodGrows ==
    ASSUME NEW s \in States, NEW g \in SUBSET States, NEW h,
           h = IF g \subseteq {s} THEN {s} ELSE States
    PROVE  /\ s \in h /\ h \subseteq States /\ g \subseteq h
           /\ Cardinality(g) >= 2 => Cardinality(h) >= 2
<1>1. CASE g \subseteq {s}
  <2>1. Cardinality({s}) = 1 /\ IsFiniteSet({s})
      BY FS_Singleton
  <2>2. Cardinality(g) <= 1 /\ Cardinality(g) \in Nat
      BY <1>1, <2>1, GoodFinite, FS_Subset
  <2> QED
      BY <1>1, <2>2
<1>2. CASE ~(g \subseteq {s})
    BY <1>2, IncidentAssumption
<1> QED
    BY <1>1, <1>2

LEMMA HealInv ==
    ASSUME IssueInv, NEW pub \in NewPub \cup SamePub, NEW source \in {"full", "targeted"},
           Heal(pub, source)
    PROVE  IssueInv'
<1>1. Shapes /\ Book /\ pub \in Pub /\ pub.state \in States
    BY PubsAre DEF IssueInv
<1>2. /\ published' = pub /\ Find("heal", None, pub, source)
      /\ UNCHANGED <<issues, health, proof, acts, muted>>
      /\ good' = IF good \subseteq {pub.state} THEN {pub.state} ELSE States
    BY DEF Heal
<1>3. /\ pub.state \in good' /\ good' \subseteq States /\ good \subseteq good'
      /\ Cardinality(good) >= 2 => Cardinality(good') >= 2
  <2> DEFINE s == pub.state
             g == good
             h == good'
  <2>1. s \in States /\ g \in SUBSET States /\ h = IF g \subseteq {s} THEN {s} ELSE States
      BY <1>1, <1>2 DEF Shapes
  <2> HIDE DEF s, g, h
  <2>2. /\ s \in h /\ h \subseteq States /\ g \subseteq h
        /\ Cardinality(g) >= 2 => Cardinality(h) >= 2
      BY <2>1, GoodGrows
  <2> QED
      BY <2>2 DEF s, g, h
<1>4. \A i \in Issues : Credits(issues[i], good')
    BY <1>1, <1>3, CreditsNow, CreditsGrow
<1>5. Book'
    BY <1>1, <1>2, <1>4, BookKept
<1>6. /\ None \in Signals \cup {None} /\ source \in {"full", "targeted", "site"}
      /\ pub \in Pub \cup {NoPub}
    BY <1>1
<1>7. job' \in Job \cup {Idle} /\ (job' # Idle => Reliable')
    BY <1>1, <1>2, <1>3, <1>6, FindReliable
<1> QED
    BY <1>1, <1>2, <1>3, <1>5, <1>7 DEF IssueInv, Shapes

LEMMA FailInv ==
    ASSUME IssueInv, Fail
    PROVE  IssueInv'
<1>1. Shapes /\ Book /\ None \in Signals \cup {None} /\ NoPub \in Pub \cup {NoPub}
    BY DEF IssueInv
<1>2. /\ published' \in {NoPub, published} /\ health # "ok"
      /\ UNCHANGED <<issues, health, proof, acts, good, muted>>
      /\ IF health = "transient" THEN Find("transient", None, NoPub, "full")
         ELSE Find("fail", health, NoPub, "full")
    BY DEF Fail
<1>3. health # "transient" => health \in Signals /\ health \in Signals \cup {None}
    BY <1>1, <1>2 DEF Shapes
<1>4. Book'
    BY <1>1, <1>2, CreditsNow, BookKept
<1>5. job' \in Job \cup {Idle} /\ (job' # Idle => Reliable')
  <2>1. CASE health = "transient"
      BY <1>1, <1>2, <2>1, FindReliable
  <2>2. CASE health # "transient"
      BY <1>1, <1>2, <1>3, <2>2, FindReliable
  <2> QED
      BY <2>1, <2>2
<1> QED
    BY <1>1, <1>2, <1>4, <1>5 DEF IssueInv, Shapes

LEMMA ConfirmInv ==
    ASSUME IssueInv, Confirm
    PROVE  IssueInv'
<1>1. Shapes /\ Book /\ None \in Signals \cup {None} /\ proof \in Pub \cup {NoPub}
    BY DEF IssueInv, Shapes
<1>2. /\ proof' = NoPub
      /\ UNCHANGED <<issues, health, published, acts, good, muted>>
      /\ IF IdentityStillCurrent THEN Find("confirm", None, proof, "site")
         ELSE job' = Idle
    BY DEF Confirm
<1>3. Book'
    BY <1>1, <1>2, CreditsNow, BookKept
<1>4. job' \in Job \cup {Idle} /\ (job' # Idle => Reliable')
  <2>1. CASE IdentityStillCurrent
    <3>1. published' = proof /\ Find("confirm", None, proof, "site") /\ issues' = issues
        BY <1>2, <2>1 DEF IdentityStillCurrent
    <3> QED
        BY <1>1, <3>1, FindReliable
  <2>2. CASE ~IdentityStillCurrent
      BY <1>2, <2>2
  <2> QED
      BY <2>1, <2>2
<1> QED
    BY <1>1, <1>2, <1>3, <1>4 DEF IssueInv, Shapes

\* What happens to the site and to the runs does not disturb a job.
LEMMA OutsideInv ==
    ASSUME IssueInv, Probe \/ Drift \/ UNCHANGED vars
    PROVE  IssueInv'
<1>1. Shapes /\ Book
    BY DEF IssueInv
<1>2. UNCHANGED <<issues, published, job, acts, good, muted>>
    BY DEF Probe, Drift, vars
<1>3. Book'
    BY <1>1, <1>2, CreditsNow, BookKept
<1>4. Reliable => Reliable'
    BY <1>2 DEF Reliable, Exists, Current, PlainOpen
<1>5. /\ proof' \in Pub \cup {NoPub}
      /\ health' \in {"ok", "transient"} \cup Signals
    BY <1>1 DEF Probe, Drift, vars, Shapes
<1> QED
    BY <1>1, <1>2, <1>3, <1>4, <1>5 DEF IssueInv, Shapes

\* People write the state of the one incident there is.
LEMMA PeopleInv ==
    ASSUME IssueInv, People
    PROVE  IssueInv'
<1>1. Shapes /\ Book /\ (job # Idle => Reliable)
    BY DEF IssueInv
<1>2. /\ acts > 0 /\ acts' = acts - 1
      /\ UNCHANGED <<health, published, proof, job, good>>
    BY DEF People
<1>3. PICK i \in Issues, st \in {"open", "closed"} :
        /\ issues[i].status \in {"open", "closed"} \ {st}
        /\ issues' = [issues EXCEPT ![i].status = st]
        /\ muted' = IF st = "open" THEN None
                    ELSE IF issues[i].recovered THEN muted ELSE issues[i].signal
    BY DEF People
<1> DEFINE b == issues[i]
           r == [b EXCEPT !.status = st]
<1>4. b \in Issue
    BY <1>1 DEF Shapes
<1>5. /\ r \in Issue /\ r.status = st /\ r.mark = b.mark /\ r.recovered = b.recovered
      /\ r.signal = b.signal /\ r.streak = b.streak /\ r.ids = b.ids
    BY <1>4 DEF Issue
<1> HIDE DEF r
<1>6. /\ issues' \in [Issues -> Issue] /\ issues'[i] = r
      /\ \A k \in Issues \ {i} : issues'[k] = issues[k]
    BY <1>1, <1>3, <1>5 DEF Shapes, r
<1>7. Current(b) /\ Exists(b) /\ Current(r) /\ Exists(r)
    BY <1>1, <1>2, <1>3, <1>5 DEF Book, Current, Exists, None
<1>8. \A k \in Issues : Current(issues[k]) => k = i
    BY <1>1, <1>7 DEF Book
<1>9. \A k \in Issues : Current(issues'[k]) => k = i
    BY <1>6, <1>8
<1>10. ASSUME NEW k \in Issues
       PROVE  Sensible(issues[k])' /\ ~PlainOpen(issues'[k])
  <2>1. CASE k = i
    <3>1. Credits(r, good)
        BY <1>1, <1>5, SameCredits DEF Book, Sensible
    <3> QED
        BY <1>2, <1>5, <1>6, <1>7, <2>1, <3>1
           DEF Sensible, Current, Exists, Credits, PlainOpen
  <2>2. CASE k # i
    <3>1. Sensible(issues[k]) /\ issues'[k] = issues[k] /\ ~Current(issues[k])
        BY <1>1, <1>6, <1>8, <2>2 DEF Book
    <3>2. ~Exists(issues[k])
        BY <1>1, <1>2, <3>1 DEF Book
    <3> QED
        BY <1>2, <3>1, <3>2 DEF Sensible, Current, Exists, Credits, PlainOpen, None
  <2> QED
      BY <2>1, <2>2
<1>11. \A k \in Issues : Exists(issues'[k]) => Current(issues'[k])
    BY <1>1, <1>2, <1>6, <1>7 DEF Book
<1>12. muted # None => b.status = "closed" /\ ~b.recovered
    BY <1>1, <1>8 DEF Book, MutedOn
<1>13. muted' # None => /\ r.status = "closed" /\ ~r.recovered /\ r.signal = muted'
    BY <1>3, <1>5, <1>12
<1>14. muted' \in Signals \cup {None}
    BY <1>1, <1>3, <1>4 DEF Shapes, Issue
<1>15. Book'
    BY <1>6, <1>7, <1>9, <1>10, <1>11, <1>13 DEF Book, Current, PlainOpen, Exists, MutedOn
<1>16. acts' \in 0..Acts
    BY <1>1, <1>2, IncidentAssumption DEF Shapes
<1>17. ASSUME job # Idle
       PROVE  Reliable'
  <2>1. Reliable /\ job \in Job /\ job.target = i
      BY <1>1, <1>7, <1>17 DEF Reliable, Shapes
  <2>2. \A k \in job.todo \ {job.target} : Exists(issues'[k])
      BY <1>6, <2>1 DEF Reliable, Job
  <2>3. job.seen = None => job.target \notin job.todo
      BY <1>7, <2>1 DEF Reliable
  <2>4. \A k \in Issues : ~PlainOpen(issues'[k])
      BY <1>10
  <2> QED
      BY <1>2, <1>5, <1>6, <1>7, <1>9, <2>1, <2>2, <2>3, <2>4
         DEF Reliable, Exists, Current, PlainOpen
<1> QED
    BY <1>1, <1>2, <1>6, <1>14, <1>15, <1>16, <1>17 DEF IssueInv, Shapes

----------------------------------------------------------------------------
(* The invariant *)

LEMMA IssueInit ==
    ASSUME "late" \notin Worlds, Init
    PROVE  IssueInv
<1>1. PICK world \in Worlds, s \in Signals :
        /\ issues = Start(world, s)
        /\ acts = IF world = "people" THEN Acts ELSE 0
    BY DEF Init
<1>2. world \in {"people", "duplicate"}
    BY IncidentAssumption
<1>3. /\ health \in {"ok", "transient"} \cup Signals
      /\ published = NoPub /\ proof = NoPub /\ job = Idle /\ good = {} /\ muted = None
    BY DEF Init
<1>4. acts \in 0..Acts
    BY <1>1, IncidentAssumption
<1> DEFINE first == Fresh(s, "open")
           old == [first EXCEPT !.mark = "plain"]
<1>5. /\ first \in Issue /\ first.mark = "current" /\ first.status = "open"
      /\ first.recovered = FALSE /\ first.streak = 0 /\ first.ids = {}
  <2>1. s \in Signals \cup {None}
      OBVIOUS
  <2>2. first \in Issue
      BY <2>1, FreshIs
  <2> QED
      BY <2>2 DEF Fresh
<1>6. /\ old \in Issue /\ old.mark = "plain" /\ old.status = "open"
      /\ old.recovered = FALSE /\ old.streak = 0 /\ old.ids = {}
  <2> HIDE DEF first
  <2> QED
      BY <1>5 DEF Issue
<1>7. CASE world = "people"
  <2>1. issues = [i \in Issues |-> NoIssue]
      BY <1>1, <1>7 DEF Start
  <2>2. Credits(NoIssue, good)
      BY NoIssueIs, NoCredits
  <2>3. ~Current(NoIssue) /\ ~PlainOpen(NoIssue) /\ ~Exists(NoIssue)
      BY NoIssueIs DEF Current, PlainOpen, Exists, None
  <2>4. Sensible(NoIssue)
      BY <2>2, <2>3, NoIssueIs DEF Sensible, None
  <2>5. \A i \in Issues : issues[i] = NoIssue
      BY <2>1
  <2>6. Book
      BY <1>3, <2>3, <2>4, <2>5 DEF Book
  <2>7. issues \in [Issues -> Issue]
      BY <2>1, NoIssueIs
  <2> QED
      BY <1>3, <1>4, <2>6, <2>7 DEF IssueInv, Shapes
<1>8. CASE world = "duplicate"
  <2>1. issues = [i \in Issues |-> IF i = 1 THEN first ELSE IF i = 2 THEN old ELSE NoIssue]
      BY <1>1, <1>8 DEF Start
  <2> HIDE DEF first, old
  <2>2. Credits(NoIssue, good) /\ Credits(first, good) /\ Credits(old, good)
      BY <1>5, <1>6, NoIssueIs, NoCredits
  <2>3. /\ ~Current(NoIssue) /\ ~PlainOpen(NoIssue)
        /\ ~Current(old)
        /\ Current(first) /\ Exists(first) /\ ~PlainOpen(first)
      BY <1>5, <1>6, NoIssueIs DEF Current, PlainOpen, Exists, None
  <2>4. Sensible(NoIssue) /\ Sensible(first) /\ Sensible(old)
      BY <1>5, <1>6, <2>2, <2>3, NoIssueIs DEF Sensible, None
  <2>5. 1 \in Issues /\ issues[1] = first
      BY <2>1, IncidentAssumption
  <2>6. \A i \in Issues \ {1} : issues[i] \in {old, NoIssue}
      BY <2>1
  <2>7. acts = 0
      BY <1>1, <1>8
  <2>8. \A i \in Issues : Current(issues[i]) => i = 1
      BY <2>3, <2>6
  <2>9. Current(issues[1]) /\ issues[1].status = "open"
      BY <1>5, <2>3, <2>5
  <2>10. \A i \in Issues : Sensible(issues[i])
      BY <2>4, <2>5, <2>6
  <2>11. Book
      BY <1>3, <2>5, <2>7, <2>8, <2>9, <2>10 DEF Book
  <2>12. issues \in [Issues -> Issue]
      BY <1>5, <1>6, <2>1, NoIssueIs
  <2> QED
      BY <1>3, <1>4, <2>11, <2>12 DEF IssueInv, Shapes
<1> QED
    BY <1>2, <1>7, <1>8

LEMMA IssueStep ==
    ASSUME IssueInv, [Next]_vars
    PROVE  IssueInv'
<1>1. ASSUME NEW pub \in NewPub \cup SamePub, NEW source \in {"full", "targeted"},
             Heal(pub, source)
      PROVE  IssueInv'
    BY <1>1, HealInv
<1>2. CASE Fail
    BY <1>2, FailInv
<1>3. CASE Confirm
    BY <1>3, ConfirmInv
<1>4. CASE SupersedeOther
    BY <1>4, SupersedeOtherInv
<1>5. CASE Settle
    BY <1>5, SettleInv
<1>6. CASE Unanswered
    BY <1>6, UnansweredInv
<1>7. CASE People
    BY <1>7, PeopleInv
<1>8. CASE Probe \/ Drift \/ UNCHANGED vars
    BY <1>8, OutsideInv
<1> QED
    BY <1>1, <1>2, <1>3, <1>4, <1>5, <1>6, <1>7, <1>8 DEF Next, Jobs

\* The current incident is one issue, and it is the one that a job works on.
THEOREM IssueInvariant == ASSUME "late" \notin Worlds PROVE Spec => []IssueInv
<1>1. Init => IssueInv
    BY IssueInit
<1>2. IssueInv /\ [Next]_vars => IssueInv'
    BY IssueStep
<1> QED
    BY <1>1, <1>2, PTL DEF Spec

\* findCanonicalIncident finds one incident at most, whatever requests fail and
\* whatever people close, unless an unmarked one is opened beside a closed one.
THEOREM OneIncident == ASSUME "late" \notin Worlds PROVE Spec => []OneSlot
<1>1. ASSUME IssueInv
      PROVE  OneSlot
  <2>1. Candidates \subseteq {i \in Issues : Current(issues[i])}
      BY <1>1, CandidatesCurrent DEF IssueInv
  <2>2. CASE Candidates = {}
      BY <2>2, FS_EmptySet DEF OneSlot, Ambiguous
  <2>3. CASE Candidates # {}
    <3>1. PICK c \in Candidates : TRUE
        BY <2>3
    <3>2. Candidates = {c}
        BY <1>1, <2>1, <3>1 DEF IssueInv, Book
    <3>3. Cardinality({c}) = 1
        BY FS_Singleton
    <3> QED
        BY <3>2, <3>3 DEF OneSlot, Ambiguous
  <2> QED
      BY <2>2, <2>3
<1> QED
    BY <1>1, IssueInvariant, PTL

----------------------------------------------------------------------------
(* What a step does to an issue *)

\* Only a request and people write an issue.
LEMMA WhoWrites ==
    ASSUME [Next]_vars
    PROVE  \/ UNCHANGED issues
           \/ People
           \/ Works /\ \E i \in Due : Apply(i)
BY DEF Next, Jobs, Heal, Fail, Confirm, Probe, Drift, vars, Settle, SupersedeOther, Unanswered

LEMMA StepEarns ==
    ASSUME IssueInv, [Next]_vars, NEW i \in Issues, issues'[i].recovered,
           ~issues[i].recovered \/ (issues'[i].status # issues[i].status /\ acts' = acts)
    PROVE  Earned(i)
<1>1. CASE UNCHANGED issues
    BY <1>1
<1>2. CASE People
  <2>1. acts > 0 /\ acts' = acts - 1 /\ acts \in 0..Acts
      BY <1>2 DEF People, IssueInv, Shapes
  <2>2. acts' # acts
      BY <2>1, IncidentAssumption
  <2>3. issues \in [Issues -> Issue]
      BY DEF IssueInv, Shapes
  <2>4. PICK k \in Issues, st \in {"open", "closed"} :
            issues' = [issues EXCEPT ![k].status = st]
      BY <1>2 DEF People
  <2>5. issues[k] \in Issue
      BY <2>3
  <2>6. [issues[k] EXCEPT !.status = st].recovered = issues[k].recovered
      BY <2>5 DEF Issue
  <2>7. issues'[i].recovered = issues[i].recovered
      BY <2>3, <2>4, <2>6
  <2> QED
      BY <2>2, <2>7
<1>3. ASSUME Works, NEW k \in Due, Apply(k)
      PROVE  Earned(i)
  <2>1. CASE k = job.target
    <3>1. /\ issues'[job.target] = Settled
          /\ \A j \in Issues \ {job.target} : issues'[j] = issues[j]
        BY <1>3, <2>1, TargetBook
    <3>2. i = job.target
        BY <3>1
    <3> QED
        BY <1>3, <2>1, <3>1, <3>2, TargetGoes DEF Goes
  <2>2. CASE k # job.target
    <3>1. \A j \in Issues \ {k} : issues'[j] = issues[j]
        BY <1>3, <2>2, OtherBook
    <3>2. i = k
        BY <3>1
    <3>3. issues \in [Issues -> Issue] /\ issues' = [issues EXCEPT ![k] = Supersede(issues[k])]
        BY <1>3, <2>2 DEF IssueInv, Shapes, Apply
    <3>4. issues'[k] = Supersede(issues[k])
        BY <3>2, <3>3
    <3> QED
        BY <3>2, <3>4, SupersedeIs
  <2> QED
      BY <2>1, <2>2
<1> QED
    BY <1>1, <1>2, <1>3, WhoWrites

\* A job closes the incident, or marks it as recovered, only when that was earned.
THEOREM RecoveriesAreEarned == ASSUME "late" \notin Worlds PROVE Spec => RecoveryEarned
<1>1. IssueInv /\ [Next]_vars =>
        [\A i \in Issues :
           (/\ issues'[i].recovered
            /\ ~issues[i].recovered \/ (issues'[i].status # issues[i].status /\ acts' = acts))
           => Earned(i)]_vars
    BY StepEarns
<1> QED
    BY <1>1, IssueInvariant, PTL DEF Spec, RecoveryEarned

LEMMA StepRespects ==
    ASSUME IssueInv, [Next]_vars, NEW i \in Issues, issues[i].status # "open",
           issues'[i].status = "open", acts' = acts
    PROVE  muted # issues'[i].signal
<1>1. CASE UNCHANGED issues
    BY <1>1
<1>2. CASE People
  <2>1. acts > 0 /\ acts' = acts - 1 /\ acts \in 0..Acts
      BY <1>2 DEF People, IssueInv, Shapes
  <2> QED
      BY <2>1, IncidentAssumption
<1>3. ASSUME Works, NEW k \in Due, Apply(k)
      PROVE  muted # issues'[i].signal
  <2>1. CASE k = job.target
    <3>1. /\ issues'[job.target] = Settled
          /\ \A j \in Issues \ {job.target} : issues'[j] = issues[j]
        BY <1>3, <2>1, TargetBook
    <3>2. i = job.target
        BY <3>1
    <3> QED
        BY <1>3, <2>1, <3>1, <3>2, TargetGoes DEF Goes
  <2>2. CASE k # job.target
    <3>1. \A j \in Issues \ {k} : issues'[j] = issues[j]
        BY <1>3, <2>2, OtherBook
    <3>2. i = k
        BY <3>1
    <3>3. issues \in [Issues -> Issue] /\ issues' = [issues EXCEPT ![k] = Supersede(issues[k])]
        BY <1>3, <2>2 DEF IssueInv, Shapes, Apply
    <3>4. issues'[k] = Supersede(issues[k])
        BY <3>2, <3>3
    <3> QED
        BY <3>2, <3>4, SupersedeIs
  <2> QED
      BY <2>1, <2>2
<1> QED
    BY <1>1, <1>2, <1>3, WhoWrites

\* A job never reopens an incident for the signal on which people closed it.
THEOREM SuppressionIsRespected == ASSUME "late" \notin Worlds PROVE Spec => SuppressionRespected
<1>1. IssueInv /\ [Next]_vars =>
        [\A i \in Issues :
           (issues[i].status # "open" /\ issues'[i].status = "open" /\ acts' = acts)
           => muted # issues'[i].signal]_vars
    BY StepRespects
<1> QED
    BY <1>1, IssueInvariant, PTL DEF Spec, SuppressionRespected
=============================================================================
