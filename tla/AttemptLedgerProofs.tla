------------------------ MODULE AttemptLedgerProofs ------------------------
(***************************************************************************)
(* What holds of the attempt ledger for every number of runs, window, cap  *)
(* and interval.  The charges a ref shows are safe because a push can only *)
(* be one its command was allowed to make (LegalPush), because a lease     *)
(* lets it apply only to the ledger it was computed from, and because the  *)
(* ref holds every charge of the history that is not yet out of window     *)
(* (HistoryAgrees).  These facts are LedgerInv, the inductive invariant;   *)
(* PermitCharged and the refinement of RollingBudget follow from it.       *)
(* What runs conclude from answers needs more (AnswerInv): a push rewrites *)
(* the open row of its run at most and hands the retry on, so a run finds  *)
(* on the ref only what it wrote there itself.                             *)
(***************************************************************************)
EXTENDS AttemptLedger, FiniteSetTheorems, FunctionTheorems, TLAPS

LEMMA ConstantTypes ==
    /\ Runs \subseteq Int /\ Legacy \subseteq Int /\ Runs \cap Legacy = {}
    /\ IsFiniteSet(Runs)
    /\ Window \in Nat /\ Window > 0
    /\ Cap \in Nat /\ Cap > 0
    /\ OverlapRuntimeCap \in Nat /\ OverlapRuntimeCap =< Cap
    /\ MarkTries \in Nat /\ MarkTries > 0
    /\ PushRetries \in Nat /\ MaxClock \in Nat
    /\ SeedTimes \subseteq Int
    /\ IsFiniteSet(Legacy)
    /\ RetryInterval \in Nat /\ RetryInterval > 0
    /\ SuccessInterval \in Nat /\ RetryInterval =< SuccessInterval
    /\ SuccessInterval =< Window
    /\ RunLimit \in Nat /\ 2 * RunLimit < Window
    /\ OverlapCap \in Nat /\ OverlapCap > 0 /\ OverlapRuntimeCap > 0
    /\ SeedTimes \subseteq (1 - Window)..0
BY LedgerAssumption

----------------------------------------------------------------------------
(* Finite sets of numbers, and the order of the rows *)

\* A finite nonempty set of integers has a greatest element.
LEMMA GreatestExists ==
    ASSUME NEW S, S \subseteq Int, IsFiniteSet(S), S # {}
    PROVE  \E x \in S : \A y \in S : y =< x
<1> DEFINE Above(x) == {y \in S : y >= x}
           F == {Above(x) : x \in S}
<1>1. F \subseteq FiniteSubsetsOf(S) /\ F # {}
  <2>1. \A x \in S : Above(x) \subseteq S
      OBVIOUS
  <2>2. \A x \in S : IsFiniteSet(Above(x))
    <3> HIDE DEF Above
    <3> QED
        BY <2>1, FS_Subset
  <2> HIDE DEF Above
  <2> QED
      BY <2>1, <2>2 DEF FiniteSubsetsOf
<1>2. PICK U \in F : \A T \in F : <<T, U>> \notin StrictSubsetOrdering(S)
  <2> HIDE DEF F
  <2> QED
      BY <1>1, FS_StrictSubsetOrderingWellFounded, WFMin
<1>3. PICK x \in S : U = Above(x)
    OBVIOUS
<1>4. ASSUME NEW y \in S, ~(y =< x)
      PROVE  FALSE
  <2>1. Above(y) \subseteq U /\ x \in U /\ x \notin Above(y)
    <3>1. x \in Int /\ y \in Int /\ x < y
        BY <1>4
    <3>2. U = {z \in S : z >= x} /\ Above(y) = {z \in S : z >= y}
        BY <1>3
    <3> HIDE DEF F, Above
    <3>3. \A z \in S : z \in Int
        OBVIOUS
    <3>4. ASSUME NEW z \in Above(y)
          PROVE  z \in U
      <4>1. z \in S /\ z >= y
          BY <3>2
      <4>2. z >= x
          BY <3>1, <3>3, <4>1
      <4> QED
          BY <3>2, <4>1, <4>2
    <3>5. x \in U
        BY <3>1, <3>2
    <3>6. x \notin Above(y)
        BY <3>1, <3>2
    <3> QED
        BY <3>4, <3>5, <3>6
  <2>2. Above(y) \in F
      OBVIOUS
  <2>3. U \subseteq S
      OBVIOUS
  <2>4. <<Above(y), U>> \in StrictSubsetOrdering(S)
    <3> HIDE DEF F, Above
    <3> QED
        BY <2>1, <2>3 DEF StrictSubsetOrdering
  <2> QED
      BY <1>2, <2>2, <2>4
<1> QED
    BY <1>4

\* A finite nonempty set of integers has a least element.
LEMMA LeastExists ==
    ASSUME NEW S, S \subseteq Int, IsFiniteSet(S), S # {}
    PROVE  \E x \in S : \A y \in S : x =< y
<1> DEFINE T == {-x : x \in S}
           f == [x \in S |-> -x]
<1>1. f \in Surjection(S, T)
    BY Fun_IsSurj
<1>2. IsFiniteSet(T)
    BY <1>1, FS_Surjection
<1>3. T \subseteq Int /\ T # {}
    OBVIOUS
<1>4. PICK m \in T : \A y \in T : y =< m
    BY <1>2, <1>3, GreatestExists
<1>5. PICK x \in S : m = -x
    OBVIOUS
<1>6. \A y \in S : -y \in T
    OBVIOUS
<1>7. \A y \in S : x =< y
    BY <1>4, <1>5, <1>6
<1> QED
    BY <1>7

\* A nonempty set of natural numbers has a least element.
LEMMA LeastNatural ==
    ASSUME NEW T, T \subseteq Nat, T # {}
    PROVE  \E x \in T : \A y \in T : x =< y
<1> DEFINE R == OpToRel(<, Nat)
<1>1. IsWellFoundedOn(R, Nat)
    BY NatLessThanWellFounded
<1>2. \A x, y \in Nat : y < x => <<y, x>> \in R
    BY DEF OpToRel
<1> HIDE DEF R
<1>3. PICK x \in T : \A y \in T : ~ (<<y, x>> \in R)
    BY <1>1, WFMin
<1>4. x \in Nat /\ \A y \in T : y \in Nat
    OBVIOUS
<1>5. \A y \in T : ~ (y < x)
    BY <1>2, <1>3, <1>4
<1>6. \A y \in T : x =< y
    BY <1>4, <1>5
<1> QED
    BY <1>6

LEMMA RowsFinite ==
    ASSUME NEW rows, IsRows(rows)
    PROVE  /\ IsFiniteSet(DOMAIN rows) /\ DOMAIN rows \subseteq Int
           /\ \A i \in DOMAIN rows : i \in Int /\ rows[i] \in Row /\ rows[i].at \in Int
<1>1. IsFiniteSet(Runs \cup Legacy) /\ Runs \cup Legacy \subseteq Int
    BY ConstantTypes, FS_Union
<1>2. DOMAIN rows \subseteq Runs \cup Legacy /\ \A i \in DOMAIN rows : rows[i] \in Row
    BY DEF IsRows
<1>3. IsFiniteSet(DOMAIN rows)
    BY <1>1, <1>2, FS_Subset
<1> QED
    BY <1>1, <1>2, <1>3 DEF Row

\* Of any rows one is the newest.
LEMMA NewestExists ==
    ASSUME NEW rows, IsRows(rows), NEW ids, ids \subseteq DOMAIN rows, ids # {}
    PROVE  /\ Newest(rows, ids) \in ids
           /\ \A j \in ids \ {Newest(rows, ids)} : Later(rows, Newest(rows, ids), j)
<1> DEFINE times == {rows[i].at : i \in ids}
           f == [i \in ids |-> rows[i].at]
<1>1. /\ IsFiniteSet(ids) /\ ids \subseteq Int
      /\ \A i \in ids : i \in Int /\ rows[i].at \in Int
    BY RowsFinite, FS_Subset
<1>2. f \in Surjection(ids, times)
    BY Fun_IsSurj
<1>3. IsFiniteSet(times)
    BY <1>1, <1>2, FS_Surjection
<1>4. PICK t \in times : \A u \in times : u =< t
  <2>1. times \subseteq Int /\ times # {}
      BY <1>1
  <2> HIDE DEF times
  <2> QED
      BY <1>3, <2>1, GreatestExists
<1> DEFINE last == {i \in ids : rows[i].at = t}
<1>5. PICK n \in last : \A i \in last : i =< n
  <2>1. last # {} /\ last \subseteq ids
      OBVIOUS
  <2> HIDE DEF last
  <2>2. IsFiniteSet(last) /\ last \subseteq Int
      BY <1>1, <2>1, FS_Subset
  <2> QED
      BY <2>1, <2>2, GreatestExists
<1>6. ASSUME NEW j \in ids \ {n}
      PROVE  Later(rows, n, j)
  <2>1. rows[j].at =< t /\ rows[n].at = t /\ n \in Int /\ j \in Int
      BY <1>1, <1>4
  <2>2. rows[j].at \in Int /\ rows[n].at \in Int
      BY <1>1
  <2>3. rows[j].at = t => j =< n
      BY <1>5
  <2> QED
      BY <2>1, <2>2, <2>3 DEF Later
<1>7. n \in ids
    OBVIOUS
<1> HIDE DEF times, last
<1> QED
    BY <1>6, <1>7 DEF Newest

LEMMA LaterIsOrder ==
    ASSUME NEW rows, IsRows(rows), NEW i \in DOMAIN rows, NEW j \in DOMAIN rows
    PROVE  /\ Later(rows, i, j) => ~Later(rows, j, i)
           /\ Later(rows, i, j) => rows[j].at =< rows[i].at
<1>1. i \in Int /\ j \in Int /\ rows[i].at \in Int /\ rows[j].at \in Int
    BY RowsFinite
<1> QED
    BY <1>1 DEF Later

----------------------------------------------------------------------------
(* Rows *)

LEMMA ActiveIsRows ==
    ASSUME NEW f, IsRows(f), NEW now \in Int
    PROVE  /\ IsRows(Active(f, now))
           /\ DOMAIN Active(f, now) \subseteq DOMAIN f
           /\ \A i \in DOMAIN Active(f, now) : Active(f, now)[i] = f[i]
BY DEF IsRows, Active

LEMMA WithRowIsRows ==
    ASSUME NEW f, IsRows(f), NEW i \in Runs, NEW row \in Row
    PROVE  /\ IsRows(WithRow(f, i, row))
           /\ DOMAIN WithRow(f, i, row) = DOMAIN f \cup {i}
           /\ WithRow(f, i, row)[i] = row
           /\ \A j \in DOMAIN f \ {i} : WithRow(f, i, row)[j] = f[j]
BY DEF IsRows, WithRow

----------------------------------------------------------------------------
(* Type correctness *)

LEMMA RunUpdate ==
    ASSUME TypeOK, NEW r \in Runs, NEW x, IsRun(x), run' = [run EXCEPT ![r] = x]
    PROVE  /\ run' \in [Runs -> {run'[q] : q \in Runs}]
           /\ \A q \in Runs : IsRun(run'[q])
<1>1. DOMAIN run = Runs /\ \A q \in Runs : IsRun(run[q])
    BY DEF TypeOK
<1>2. \A q \in Runs : run'[q] = IF q = r THEN x ELSE run[q]
    BY <1>1
<1>3. run' = [q \in Runs |-> run'[q]]
    BY <1>1
<1> QED
    BY <1>1, <1>2, <1>3

LEMMA SendPushType ==
    ASSUME TypeOK, NEW r \in Runs, NEW rows, IsRows(rows), SendPush(r, rows)
    PROVE  /\ \A p \in wire' : IsPush(p)
           /\ run' \in [Runs -> {run'[q] : q \in Runs}]
           /\ \A q \in Runs : IsRun(run'[q])
<1> DEFINE p == [by |-> r, old |-> ledger,
                 new |-> [updated |-> run[r].now, rows |-> rows]]
           x == [run[r] EXCEPT !.command = "pushing", !.push = p,
                               !.resends = PushRetries]
<1>1. IsRun(run[r]) /\ IsLedger(ledger) /\ run[r].now \in Int
    BY DEF TypeOK, IsRun
<1>2. IsPush(p)
    BY <1>1 DEF IsPush, IsLedger
<1>3. IsRun(x)
  <2> HIDE DEF p
  <2> QED
      BY <1>1, <1>2, ConstantTypes DEF IsRun
<1>4. run' = [run EXCEPT ![r] = x] /\ wire' = wire \cup {p}
    BY DEF SendPush
<1>5. \A q \in wire' : IsPush(q)
  <2> HIDE DEF p
  <2> QED
      BY <1>2, <1>4 DEF TypeOK
<1> QED
  <2> HIDE DEF x
  <2> QED
      BY <1>3, <1>4, <1>5, RunUpdate

LEMMA RunOnly ==
    ASSUME TypeOK, NEW r \in Runs, NEW x, IsRun(x), run' = [run EXCEPT ![r] = x],
           UNCHANGED <<clock, ledger, wire, charges>>
    PROVE  TypeOK'
BY RunUpdate DEF TypeOK

LEMMA FinishedIsRun ==
    ASSUME NEW stage \in {"ended", "silenced"}
    PROVE  IsRun(Finished(stage))
BY DEF IsRun, Finished, Unstarted, Stages

\* The row a decided command writes keeps the ledger well typed.
LEMMA SeenIsRows ==
    ASSUME TypeOK, NEW r \in Runs
    PROVE  /\ IsRows(Seen(r))
           /\ \A i \in DOMAIN Seen(r) : Seen(r)[i] \in Row
<1>1. IsRows(ledger.rows) /\ run[r].now \in Int
    BY DEF TypeOK, IsRun, IsLedger
<1> QED
    BY <1>1, ActiveIsRows DEF Seen, IsRows

LEMMA InitType == Init => TypeOK
<1> SUFFICES ASSUME Init PROVE TypeOK
    OBVIOUS
<1>1. IsLedger(ledger)
  <2> DEFINE Seeds == [at : SeedTimes, codeChange : {FALSE},
                       outcome : {"open", "published"},
                       evidence : {"none"}, pending : {FALSE}]
  <2>1. PICK ids \in SUBSET Legacy :
          ledger \in [updated : {0}, rows : [ids -> Seeds]]
      BY DEF Init
  <2>2. Seeds \subseteq Row
      BY ConstantTypes DEF Row
  <2>3. ledger.updated \in Int /\ ledger.rows \in [ids -> Row]
    <3> HIDE DEF Seeds
    <3> QED
        BY <2>1, <2>2
  <2>4. ledger = [updated |-> ledger.updated, rows |-> ledger.rows]
      BY <2>1
  <2> QED
      BY <2>3, <2>4 DEF IsLedger, IsRows
<1>2. run \in [Runs -> {run[r] : r \in Runs}] /\ \A r \in Runs : IsRun(run[r])
  <2>1. run = [r \in Runs |-> Unstarted]
      BY DEF Init
  <2>2. IsRun(Unstarted)
      BY DEF Unstarted, IsRun, Stages
  <2> QED
      BY <2>1, <2>2
<1> QED
    BY <1>1, <1>2 DEF Init, TypeOK

LEMMA ReserveType ==
    ASSUME TypeOK, NEW r \in Runs, NEW codeChange \in BOOLEAN,
           NEW migrating \in BOOLEAN, Reserve(r, codeChange, migrating)
    PROVE  TypeOK'
<1> DEFINE row == [at |-> run[r].now, codeChange |-> codeChange,
                   outcome |-> "open", evidence |-> "none",
                   pending |-> CarriesRetry(RecoveryRows(r))]
<1>1. CASE SendPush(r, WithRow(Seen(r), r, row))
  <2>1. run[r].now \in Int /\ CarriesRetry(RecoveryRows(r)) \in BOOLEAN
      BY DEF TypeOK, IsRun, CarriesRetry
  <2>2. row \in Row
      BY <2>1 DEF Row
  <2>3. IsRows(WithRow(Seen(r), r, row))
    <3> HIDE DEF row
    <3> QED
        BY <2>2, SeenIsRows, WithRowIsRows
  <2> HIDE DEF row
  <2>4. UNCHANGED <<clock, ledger, charges>>
      BY DEF Reserve
  <2> QED
      BY <1>1, <2>3, <2>4, SendPushType DEF TypeOK
<1>2. CASE run' = [run EXCEPT ![r] = Finished("ended")] /\ UNCHANGED wire
    BY <1>2, FinishedIsRun, RunOnly DEF Reserve
<1> QED
    BY <1>1, <1>2 DEF Reserve

LEMMA MarkSuccessType ==
    ASSUME TypeOK, NEW r \in Runs, MarkSuccess(r)
    PROVE  TypeOK'
<1> DEFINE row == [Seen(r)[r] EXCEPT !.outcome = "published",
                                     !.evidence = run[r].evidence,
                                     !.pending = FALSE]
<1>1. CASE SendPush(r, WithRow(Seen(r), r, row))
  <2>1. Seen(r)[r] \in Row /\ run[r].evidence \in {"none", "clean", "retry"}
      BY SeenIsRows DEF MarkSuccess, TypeOK, IsRun
  <2>2. row \in Row
      BY <2>1 DEF Row
  <2> HIDE DEF row
  <2>3. IsRows(WithRow(Seen(r), r, row))
      BY <2>2, SeenIsRows, WithRowIsRows
  <2>4. UNCHANGED <<clock, ledger, charges>>
      BY DEF MarkSuccess
  <2> QED
      BY <1>1, <2>3, <2>4, SendPushType DEF TypeOK
<1>2. CASE run' = [run EXCEPT ![r] = Finished("ended")] /\ UNCHANGED wire
    BY <1>2, FinishedIsRun, RunOnly DEF MarkSuccess
<1> QED
    BY <1>1, <1>2 DEF MarkSuccess

LEMMA MarkSupersededType ==
    ASSUME TypeOK, NEW r \in Runs, MarkSuperseded(r)
    PROVE  TypeOK'
<1> DEFINE row == [Seen(r)[r] EXCEPT !.outcome = "superseded"]
           next == [run[r] EXCEPT !.stage = "dispatching", !.command = "idle"]
<1>1. CASE SendPush(r, WithRow(Seen(r), r, row))
  <2>1. Seen(r)[r] \in Row
      BY SeenIsRows DEF MarkSuperseded
  <2>2. row \in Row
      BY <2>1 DEF Row
  <2> HIDE DEF row
  <2>3. IsRows(WithRow(Seen(r), r, row))
      BY <2>2, SeenIsRows, WithRowIsRows
  <2>4. UNCHANGED <<clock, ledger, charges>>
      BY DEF MarkSuperseded
  <2> QED
      BY <1>1, <2>3, <2>4, SendPushType DEF TypeOK
<1>2. CASE /\ run' = [run EXCEPT ![r] =
                        IF FirstMark(r) THEN Finished("silenced") ELSE next]
           /\ UNCHANGED wire
  <2>1. IsRun(run[r]) /\ run[r].command = "reading"
      BY DEF MarkSuperseded, Reads, TypeOK
  <2>2. IsRun(next)
      BY <2>1 DEF IsRun, Stages
  <2> HIDE DEF next
  <2>3. IsRun(IF FirstMark(r) THEN Finished("silenced") ELSE next)
      BY <2>2, FinishedIsRun
  <2> QED
      BY <1>2, <2>3, RunOnly DEF MarkSuperseded
<1>3. run[r] = run[r] /\ DOMAIN run = Runs
    BY DEF TypeOK
<1> QED
    BY <1>1, <1>2, <1>3 DEF MarkSuperseded

LEMMA ConfirmType ==
    ASSUME TypeOK, NEW r \in Runs, Confirm(r)
    PROVE  TypeOK'
<1> DEFINE going(stage) == [run[r] EXCEPT !.stage = stage, !.command = "idle",
                                          !.push = NoPush, !.resends = 0]
           x == CASE run[r].stage = "reserving" -> going("collecting")
                  [] run[r].stage = "publishing" -> Finished("ended")
                  [] OTHER -> going("dispatching")
<1>1. IsRun(run[r]) /\ DOMAIN run = Runs
    BY DEF TypeOK
<1>2. IsRun(going("collecting")) /\ IsRun(going("dispatching"))
    BY <1>1 DEF IsRun, Stages
<1>3. IsRun(x)
  <2> HIDE DEF going
  <2> QED
      BY <1>2, FinishedIsRun
<1>4. run' = [run EXCEPT ![r] = x]
    BY <1>1 DEF Confirm
<1> HIDE DEF x
<1> QED
    BY <1>3, <1>4, RunOnly DEF Confirm

LEMMA ApplyType ==
    ASSUME TypeOK, NEW p \in wire, Apply(p)
    PROVE  TypeOK'
<1>1. IsPush(p)
    BY DEF TypeOK
<1>2. IsLedger(p.new)
    BY <1>1 DEF IsPush
<1>3. ChargesOf(p.new.rows) \subseteq [who : Runs, at : Int]
    BY <1>2 DEF ChargesOf, Guarded, IsLedger, IsRows, Row
<1> QED
    BY <1>2, <1>3 DEF Apply, TypeOK

\* The remaining steps change only the progress of a run or the wire.
LEMMA SmallStepType ==
    ASSUME TypeOK, NEW r \in Runs,
           \/ Begin(r) \/ Supersede(r) \/ StartMark(r) \/ Resend(r)
           \/ CommandFails(r) \/ Dispatch(r) \/ Abort(r)
           \/ \E e \in {"none", "clean", "retry"} : Publish(r, e)
    PROVE  TypeOK'
<1>1. IsRun(run[r]) /\ DOMAIN run = Runs /\ clock \in Int
    BY DEF TypeOK
<1>2. CASE Begin(r)
  <2> DEFINE x == [Unstarted EXCEPT !.stage = "reserving", !.command = "reading",
                                    !.began = clock, !.now = clock]
  <2>1. IsRun(x)
      BY <1>1 DEF IsRun, Stages, Unstarted
  <2>2. run' = [run EXCEPT ![r] = x]
      BY <1>2 DEF Begin
  <2> HIDE DEF x
  <2> QED
      BY <1>2, <2>1, <2>2, RunOnly DEF Begin
<1>3. CASE Supersede(r)
  <2> DEFINE x == [run[r] EXCEPT !.stage = "superseding", !.tries = MarkTries]
  <2>1. IsRun(x)
      BY <1>1, ConstantTypes DEF IsRun, Stages
  <2>2. run' = [run EXCEPT ![r] = x]
      BY <1>3 DEF Supersede
  <2> HIDE DEF x
  <2> QED
      BY <1>3, <2>1, <2>2, RunOnly DEF Supersede
<1>4. CASE StartMark(r)
  <2> DEFINE x == [run[r] EXCEPT !.command = "reading", !.now = clock,
                                 !.tries = @ - 1]
  <2>1. IsRun(x)
      BY <1>1, <1>4 DEF IsRun, StartMark
  <2>2. run' = [run EXCEPT ![r] = x]
      BY <1>4 DEF StartMark
  <2> HIDE DEF x
  <2> QED
      BY <1>4, <2>1, <2>2, RunOnly DEF StartMark
<1>5. CASE Resend(r)
  <2> DEFINE x == [run[r] EXCEPT !.resends = @ - 1]
  <2>1. IsRun(x) /\ IsPush(run[r].push)
      BY <1>1, <1>5 DEF IsRun, Resend
  <2>2. run' = [run EXCEPT ![r] = x]
      BY <1>5 DEF Resend
  <2>3. \A p \in wire' : IsPush(p)
      BY <1>5, <2>1 DEF Resend, TypeOK
  <2> HIDE DEF x
  <2> QED
      BY <1>5, <2>1, <2>2, <2>3, RunUpdate DEF Resend, TypeOK
<1>6. CASE CommandFails(r)
  <2> DEFINE idle == [run[r] EXCEPT !.command = "idle", !.push = NoPush,
                                    !.resends = 0]
             x == IF run[r].tries > 0 THEN idle ELSE Finished("ended")
  <2>1. IsRun(idle)
      BY <1>1 DEF IsRun
  <2>2. run' = [run EXCEPT ![r] = x]
      BY <1>6 DEF CommandFails
  <2> HIDE DEF idle
  <2>3. IsRun(x)
      BY <2>1, FinishedIsRun
  <2> HIDE DEF x
  <2> QED
      BY <1>6, <2>2, <2>3, RunOnly DEF CommandFails
<1>7. CASE Dispatch(r) \/ Abort(r)
    BY <1>7, FinishedIsRun, RunOnly DEF Dispatch, Abort
<1>8. ASSUME NEW e \in {"none", "clean", "retry"}, Publish(r, e)
      PROVE  TypeOK'
  <2> DEFINE x == [run[r] EXCEPT !.stage = "publishing", !.tries = MarkTries,
                                 !.evidence = e]
  <2>1. IsRun(x)
      BY <1>1, ConstantTypes DEF IsRun, Stages
  <2>2. run' = [run EXCEPT ![r] = x]
      BY <1>8 DEF Publish
  <2> HIDE DEF x
  <2> QED
      BY <1>8, <2>1, <2>2, RunOnly DEF Publish
<1> QED
    BY <1>2, <1>3, <1>4, <1>5, <1>6, <1>7, <1>8

LEMMA NextType == TypeOK /\ [Next]_vars => TypeOK'
<1> SUFFICES ASSUME TypeOK, [Next]_vars PROVE TypeOK'
    OBVIOUS
<1>1. CASE Tick
    BY <1>1 DEF Tick, TypeOK
<1>2. ASSUME NEW r \in Runs, RunStep(r)
      PROVE  TypeOK'
    BY <1>2, ReserveType, MarkSuccessType, MarkSupersededType, ConfirmType,
       SmallStepType DEF RunStep
<1>3. ASSUME NEW p \in wire, Apply(p) \/ Lose(p)
      PROVE  TypeOK'
    BY <1>3, ApplyType DEF Lose, TypeOK
<1>4. CASE UNCHANGED vars
    BY <1>4 DEF vars, TypeOK
<1> QED
    BY <1>1, <1>2, <1>3, <1>4 DEF Next

\* Every reachable state is well typed, for all runs, windows and bounds.
THEOREM TypeCorrect == Spec => []TypeOK
BY InitType, NextType, PTL DEF Spec

----------------------------------------------------------------------------
(* The inductive invariant.  TypeOK says nothing of the pushes under way,   *)
(* which may still take effect: each of them keeps every row that still     *)
(* counts, and adds at most the row of its own run, for which the gate      *)
(* found a free slot.  The history and the ref agree on the current window. *)

LegalPush(p) ==
    /\ p.old.updated =< p.new.updated
    /\ p.new.updated \in 0..clock
    /\ p.by \in DOMAIN p.new.rows
    /\ \A i \in DOMAIN p.old.rows : p.old.rows[i].at > p.new.updated - Window =>
          i \in DOMAIN p.new.rows /\ p.new.rows[i].at = p.old.rows[i].at
    /\ \A i \in DOMAIN p.new.rows :
          \/ i \in DOMAIN p.old.rows /\ p.new.rows[i].at = p.old.rows[i].at
          \/ /\ i = p.by
             /\ p.new.rows[i].at = p.new.updated
             /\ Cardinality(Guarded(Active(p.old.rows, p.new.updated))) < Cap

Permitted == {"collecting", "publishing", "superseding", "dispatching"}

LegalRun(r, x) ==
    /\ x.now \in 0..clock
    /\ x.command = "pushing" => LegalPush(x.push) /\ x.push.by = r
    /\ x.stage \in Permitted => \E c \in charges : c.who = r

HistoryAgrees ==
    /\ clock \in 0..MaxClock
    /\ ledger.updated \in 0..clock
    /\ charges \subseteq [who : Runs, at : 0..MaxClock]
    /\ ChargesOf(ledger.rows) \subseteq charges
    /\ \A c \in charges : c.at =< ledger.updated
    /\ \A c \in charges : c.at > ledger.updated - Window =>
          c \in ChargesOf(ledger.rows)

LegalProgress ==
    /\ \A p \in wire : LegalPush(p)
    /\ \A r \in Runs : LegalRun(r, run[r])

LedgerInv == TypeOK /\ HistoryAgrees /\ LegalProgress

----------------------------------------------------------------------------
(* The gate leaves room *)

LEMMA GuardedFinite ==
    ASSUME NEW rows
    PROVE  /\ IsFiniteSet(Guarded(rows))
           /\ Cardinality(Guarded(rows)) \in Nat
BY ConstantTypes, FS_Subset, FS_CardinalityType DEF Guarded

\* When the gate answers "reserved", the window has a free guarded slot,
\* with or without legacy rows on the ledger.
LEMMA GateLeavesRoom ==
    ASSUME NEW rows, NEW now, NEW codeChange, NEW retry, NEW migrating,
           RequestMode(rows, now, codeChange, retry, migrating) = "reserved"
    PROVE  Cardinality(Guarded(rows)) < Cap
<1>1. CapBlocks(rows) = {}
    BY DEF RequestMode
<1>2. \A m \in Limits(rows) : ~Reached(m)
    BY <1>1 DEF CapBlocks
<1>3. CASE DOMAIN rows \cap Legacy # {}
  <2>1. <<Guarded(rows), OverlapRuntimeCap>> \in Limits(rows)
      BY <1>3 DEF Limits
  <2>2. ~(Cardinality(Guarded(rows)) >= OverlapRuntimeCap)
      BY <1>2, <2>1 DEF Reached
  <2> QED
      BY <2>2, GuardedFinite, ConstantTypes
<1>4. CASE DOMAIN rows \cap Legacy = {}
  <2>1. <<Guarded(rows), Cap>> \in Limits(rows)
      BY <1>4 DEF Limits
  <2>2. ~(Cardinality(Guarded(rows)) >= Cap)
      BY <1>2, <2>1 DEF Reached
  <2> QED
      BY <2>2, GuardedFinite, ConstantTypes
<1> QED
    BY <1>3, <1>4

\* The history of a ledger is no larger than its guarded rows.
LEMMA ChargesCount ==
    ASSUME NEW rows
    PROVE  /\ IsFiniteSet(ChargesOf(rows))
           /\ Cardinality(ChargesOf(rows)) =< Cardinality(Guarded(rows))
<1> DEFINE charge(r) == [who |-> r, at |-> rows[r].at]
<1>1. ChargesOf(rows) = {charge(r) : r \in Guarded(rows)}
    BY DEF ChargesOf
<1>2. IsFiniteSet(Guarded(rows))
    BY GuardedFinite
<1> DEFINE f == [r \in Guarded(rows) |-> charge(r)]
<1>3. f \in Surjection(Guarded(rows), ChargesOf(rows))
    BY <1>1 DEF Surjection
<1> QED
    BY <1>2, <1>3, FS_Surjection

----------------------------------------------------------------------------
(* Legal pushes *)

\* A command that rewrites the rows it saw, and adds its own only if the
\* gate found a free slot, sends a legal push.
LEMMA SendPushLegal ==
    ASSUME LedgerInv, NEW r \in Runs, Reads(r), NEW rows,
           r \in DOMAIN rows,
           \A i \in DOMAIN Seen(r) : i \in DOMAIN rows /\ rows[i].at = Seen(r)[i].at,
           DOMAIN rows \subseteq DOMAIN Seen(r) \cup {r},
           r \notin DOMAIN Seen(r) =>
               rows[r].at = run[r].now /\ Cardinality(Guarded(Seen(r))) < Cap,
           SendPush(r, rows), UNCHANGED <<clock, ledger, charges>>
    PROVE  HistoryAgrees' /\ LegalProgress'
<1> DEFINE p == [by |-> r, old |-> ledger,
                 new |-> [updated |-> run[r].now, rows |-> rows]]
           x == [run[r] EXCEPT !.command = "pushing", !.push = p,
                               !.resends = PushRetries]
<1>1. run' = [run EXCEPT ![r] = x] /\ wire' = wire \cup {p}
    BY DEF SendPush
<1>2. /\ DOMAIN run = Runs
      /\ \A q \in Runs : IsRun(run[q])
      /\ \A q \in Runs : LegalRun(q, run[q])
      /\ \A q \in wire : LegalPush(q)
    BY DEF LedgerInv, TypeOK, LegalProgress
<1>3. LegalPush(p)
  <2>1. run[r].now \in 0..clock /\ ledger.updated =< run[r].now
      BY <1>2 DEF LegalRun, Reads
  <2>2. /\ DOMAIN Seen(r) \subseteq DOMAIN ledger.rows
        /\ \A i \in DOMAIN Seen(r) : Seen(r)[i] = ledger.rows[i]
        /\ \A i \in DOMAIN ledger.rows :
              ledger.rows[i].at > run[r].now - Window => i \in DOMAIN Seen(r)
      BY DEF Seen, Active
  <2>3. Seen(r) = Active(p.old.rows, p.new.updated)
      BY DEF Seen
  <2>4. \A i \in DOMAIN rows :
          \/ i \in DOMAIN ledger.rows /\ rows[i].at = ledger.rows[i].at
          \/ /\ i = r
             /\ rows[i].at = run[r].now
             /\ Cardinality(Guarded(Seen(r))) < Cap
      BY <2>2
  <2> QED
      BY <2>1, <2>2, <2>3, <2>4 DEF LegalPush
<1>4. LegalRun(r, x)
  <2> HIDE DEF p
  <2>1. p.by = r
      BY DEF p
  <2>2. x.now = run[r].now /\ x.stage = run[r].stage /\ x.push = p
      BY <1>2 DEF IsRun
  <2> QED
      BY <1>2, <1>3, <2>1, <2>2 DEF LegalRun
<1> HIDE DEF p, x
<1>5. \A q \in Runs : LegalRun(q, run'[q])
    BY <1>1, <1>2, <1>4
<1>6. \A q \in wire' : LegalPush(q)
    BY <1>1, <1>2, <1>3
<1> QED
    BY <1>5, <1>6 DEF LedgerInv, HistoryAgrees, LegalProgress, LegalRun, LegalPush

\* A step that changes only one run, and it legally, keeps the invariant.
LEMMA RunOnlyLegal ==
    ASSUME LedgerInv, NEW r \in Runs, NEW x, LegalRun(r, x),
           run' = [run EXCEPT ![r] = x], wire' \subseteq wire \cup {run[r].push},
           wire' # wire => run[r].command = "pushing",
           UNCHANGED <<clock, ledger, charges>>
    PROVE  HistoryAgrees' /\ LegalProgress'
<1>1. DOMAIN run = Runs /\ \A q \in Runs : LegalRun(q, run[q])
    BY DEF LedgerInv, TypeOK, LegalProgress
<1>2. \A q \in Runs : LegalRun(q, run'[q])
    BY <1>1
<1>3. \A p \in wire' : LegalPush(p)
    BY <1>1 DEF LedgerInv, LegalProgress, LegalRun
<1> QED
    BY <1>2, <1>3 DEF LedgerInv, HistoryAgrees, LegalProgress, LegalRun, LegalPush

LEMMA FinishedLegal ==
    ASSUME LedgerInv, NEW r \in Runs, NEW stage \in {"ended", "silenced"}
    PROVE  LegalRun(r, Finished(stage))
BY ConstantTypes
   DEF LedgerInv, HistoryAgrees, LegalRun, Finished, Unstarted, Permitted

LEMMA ReserveLegal ==
    ASSUME LedgerInv, NEW r \in Runs, NEW codeChange \in BOOLEAN,
           NEW migrating \in BOOLEAN, Reserve(r, codeChange, migrating)
    PROVE  HistoryAgrees' /\ LegalProgress'
<1> DEFINE retry == CarriesRetry(RecoveryRows(r))
           row == [at |-> run[r].now, codeChange |-> codeChange,
                   outcome |-> "open", evidence |-> "none", pending |-> retry]
           rows == WithRow(Seen(r), r, row)
<1>1. UNCHANGED <<clock, ledger, charges>> /\ r \notin DOMAIN Seen(r) /\ Reads(r)
    BY DEF Reserve
<1>2. CASE /\ RequestMode(Seen(r), run[r].now, codeChange, retry, migrating) = "reserved"
           /\ SendPush(r, rows)
  <2>1. Cardinality(Guarded(Seen(r))) < Cap
      BY <1>2, GateLeavesRoom
  <2>2. /\ r \in DOMAIN rows
        /\ \A i \in DOMAIN Seen(r) : i \in DOMAIN rows /\ rows[i].at = Seen(r)[i].at
        /\ DOMAIN rows \subseteq DOMAIN Seen(r) \cup {r}
        /\ rows[r].at = run[r].now
      BY <1>1 DEF WithRow
  <2> HIDE DEF rows
  <2> QED
      BY <1>1, <1>2, <2>1, <2>2, SendPushLegal
<1>3. CASE run' = [run EXCEPT ![r] = Finished("ended")] /\ UNCHANGED wire
    BY <1>1, <1>3, FinishedLegal, RunOnlyLegal
<1> QED
    BY <1>2, <1>3 DEF Reserve

\* A mark command rewrites the row of its own run and no reservation time.
LEMMA MarkLegal ==
    ASSUME LedgerInv, NEW r \in Runs, Reads(r), r \in DOMAIN Seen(r),
           NEW row, row.at = Seen(r)[r].at, SendPush(r, WithRow(Seen(r), r, row)),
           UNCHANGED <<clock, ledger, charges>>
    PROVE  HistoryAgrees' /\ LegalProgress'
<1> DEFINE rows == WithRow(Seen(r), r, row)
<1>1. /\ r \in DOMAIN rows
      /\ \A i \in DOMAIN Seen(r) : i \in DOMAIN rows /\ rows[i].at = Seen(r)[i].at
      /\ DOMAIN rows \subseteq DOMAIN Seen(r) \cup {r}
    BY DEF WithRow
<1> HIDE DEF rows
<1>2. SendPush(r, rows)
    BY DEF rows
<1> QED
    BY <1>1, <1>2, SendPushLegal

LEMMA MarkSuccessLegal ==
    ASSUME LedgerInv, NEW r \in Runs, MarkSuccess(r)
    PROVE  HistoryAgrees' /\ LegalProgress'
<1> DEFINE row == [Seen(r)[r] EXCEPT !.outcome = "published",
                                     !.evidence = run[r].evidence,
                                     !.pending = FALSE]
<1>1. /\ UNCHANGED <<clock, ledger, charges>>
      /\ Reads(r) /\ r \in DOMAIN Seen(r)
    BY DEF MarkSuccess
<1>2. CASE SendPush(r, WithRow(Seen(r), r, row))
  <2>1. row.at = Seen(r)[r].at
      BY <1>1, SeenIsRows DEF LedgerInv, Row
  <2> HIDE DEF row
  <2> QED
      BY <1>1, <1>2, <2>1, MarkLegal
<1>3. CASE run' = [run EXCEPT ![r] = Finished("ended")] /\ UNCHANGED wire
    BY <1>1, <1>3, FinishedLegal, RunOnlyLegal
<1> QED
    BY <1>2, <1>3 DEF MarkSuccess

LEMMA MarkSupersededLegal ==
    ASSUME LedgerInv, NEW r \in Runs, MarkSuperseded(r)
    PROVE  HistoryAgrees' /\ LegalProgress'
<1> DEFINE row == [Seen(r)[r] EXCEPT !.outcome = "superseded"]
           going == [run[r] EXCEPT !.stage = "dispatching", !.command = "idle"]
           x == IF FirstMark(r) THEN Finished("silenced") ELSE going
<1>1. /\ UNCHANGED <<clock, ledger, charges>>
      /\ Reads(r) /\ r \in DOMAIN Seen(r)
      /\ run[r].stage = "superseding"
    BY DEF MarkSuperseded
<1>2. CASE SendPush(r, WithRow(Seen(r), r, row))
  <2>1. row.at = Seen(r)[r].at
      BY <1>1, SeenIsRows DEF LedgerInv, Row
  <2> HIDE DEF row
  <2> QED
      BY <1>1, <1>2, <2>1, MarkLegal
<1>3. CASE run' = [run EXCEPT ![r] = x] /\ UNCHANGED wire
  <2>1. LegalRun(r, run[r]) /\ IsRun(run[r])
      BY DEF LedgerInv, LegalProgress, TypeOK
  <2>2. LegalRun(r, going)
      BY <1>1, <2>1 DEF LegalRun, Permitted, IsRun
  <2> HIDE DEF going
  <2>3. LegalRun(r, x)
      BY <2>2, FinishedLegal
  <2> HIDE DEF x
  <2> QED
      BY <1>1, <1>3, <2>3, RunOnlyLegal
<1>4. DOMAIN run = Runs
    BY DEF LedgerInv, TypeOK
<1> QED
    BY <1>2, <1>3, <1>4 DEF MarkSuperseded

\* A command that sees its commit on the ref finds its run in the history.
LEMMA ConfirmLegal ==
    ASSUME LedgerInv, NEW r \in Runs, Confirm(r)
    PROVE  HistoryAgrees' /\ LegalProgress'
<1> DEFINE going(stage) == [run[r] EXCEPT !.stage = stage, !.command = "idle",
                                          !.push = NoPush, !.resends = 0]
           x == CASE run[r].stage = "reserving" -> going("collecting")
                  [] run[r].stage = "publishing" -> Finished("ended")
                  [] OTHER -> going("dispatching")
<1>1. LegalRun(r, run[r]) /\ IsRun(run[r]) /\ DOMAIN run = Runs
    BY DEF LedgerInv, LegalProgress, TypeOK
<1>2. \E c \in charges : c.who = r
  <2>1. LegalPush(run[r].push) /\ run[r].push.by = r /\ ledger = run[r].push.new
      BY <1>1 DEF Confirm, LegalRun, Landed
  <2>2. r \in Guarded(ledger.rows)
      BY <2>1 DEF LegalPush, Guarded
  <2>3. [who |-> r, at |-> ledger.rows[r].at] \in charges
      BY <2>2 DEF LedgerInv, HistoryAgrees, ChargesOf
  <2> QED
      BY <2>3
<1>3. LegalRun(r, going("collecting")) /\ LegalRun(r, going("dispatching"))
    BY <1>1, <1>2 DEF LegalRun, IsRun
<1>4. LegalRun(r, x)
  <2> HIDE DEF going
  <2> QED
      BY <1>3, FinishedLegal
<1>5. run' = [run EXCEPT ![r] = x]
    BY <1>1 DEF Confirm
<1> HIDE DEF x
<1> QED
    BY <1>4, <1>5, RunOnlyLegal DEF Confirm

\* The remaining steps of a run send nothing new and claim no new permit.
LEMMA SmallStepLegal ==
    ASSUME LedgerInv, NEW r \in Runs,
           \/ Begin(r) \/ Supersede(r) \/ StartMark(r) \/ Resend(r)
           \/ CommandFails(r) \/ Dispatch(r) \/ Abort(r)
           \/ \E e \in {"none", "clean", "retry"} : Publish(r, e)
    PROVE  HistoryAgrees' /\ LegalProgress'
<1>1. LegalRun(r, run[r]) /\ IsRun(run[r]) /\ DOMAIN run = Runs /\ clock \in Nat
    BY ConstantTypes DEF LedgerInv, LegalProgress, TypeOK, HistoryAgrees
<1>2. CASE Begin(r)
  <2> DEFINE x == [Unstarted EXCEPT !.stage = "reserving", !.command = "reading",
                                    !.began = clock, !.now = clock]
  <2>1. LegalRun(r, x)
      BY <1>1 DEF LegalRun, Unstarted, Permitted
  <2>2. run' = [run EXCEPT ![r] = x]
      BY <1>2 DEF Begin
  <2> HIDE DEF x
  <2> QED
      BY <1>2, <2>1, <2>2, RunOnlyLegal DEF Begin
<1>3. CASE Supersede(r)
  <2> DEFINE x == [run[r] EXCEPT !.stage = "superseding", !.tries = MarkTries]
  <2>1. LegalRun(r, x)
      BY <1>1, <1>3 DEF LegalRun, IsRun, Supersede, Permitted
  <2>2. run' = [run EXCEPT ![r] = x]
      BY <1>3 DEF Supersede
  <2> HIDE DEF x
  <2> QED
      BY <1>3, <2>1, <2>2, RunOnlyLegal DEF Supersede
<1>4. CASE StartMark(r)
  <2> DEFINE x == [run[r] EXCEPT !.command = "reading", !.now = clock,
                                 !.tries = @ - 1]
  <2>1. LegalRun(r, x)
      BY <1>1 DEF LegalRun, IsRun
  <2>2. run' = [run EXCEPT ![r] = x]
      BY <1>4 DEF StartMark
  <2> HIDE DEF x
  <2> QED
      BY <1>4, <2>1, <2>2, RunOnlyLegal DEF StartMark
<1>5. CASE Resend(r)
  <2> DEFINE x == [run[r] EXCEPT !.resends = @ - 1]
  <2>1. LegalRun(r, x)
      BY <1>1 DEF LegalRun, IsRun
  <2>2. run' = [run EXCEPT ![r] = x]
      BY <1>5 DEF Resend
  <2> HIDE DEF x
  <2> QED
      BY <1>5, <2>1, <2>2, RunOnlyLegal DEF Resend
<1>6. CASE CommandFails(r)
  <2> DEFINE idle == [run[r] EXCEPT !.command = "idle", !.push = NoPush,
                                    !.resends = 0]
             x == IF run[r].tries > 0 THEN idle ELSE Finished("ended")
  <2>1. LegalRun(r, idle)
      BY <1>1 DEF LegalRun, IsRun
  <2>2. run' = [run EXCEPT ![r] = x]
      BY <1>6 DEF CommandFails
  <2> HIDE DEF idle
  <2>3. LegalRun(r, x)
      BY <2>1, FinishedLegal
  <2> HIDE DEF x
  <2> QED
      BY <1>6, <2>2, <2>3, RunOnlyLegal DEF CommandFails
<1>7. CASE Dispatch(r) \/ Abort(r)
    BY <1>7, FinishedLegal, RunOnlyLegal DEF Dispatch, Abort
<1>8. ASSUME NEW e \in {"none", "clean", "retry"}, Publish(r, e)
      PROVE  HistoryAgrees' /\ LegalProgress'
  <2> DEFINE x == [run[r] EXCEPT !.stage = "publishing", !.tries = MarkTries,
                                 !.evidence = e]
  <2>1. LegalRun(r, x)
      BY <1>1, <1>8 DEF LegalRun, IsRun, Publish, Permitted
  <2>2. run' = [run EXCEPT ![r] = x]
      BY <1>8 DEF Publish
  <2> HIDE DEF x
  <2> QED
      BY <1>8, <2>1, <2>2, RunOnlyLegal DEF Publish
<1> QED
    BY <1>2, <1>3, <1>4, <1>5, <1>6, <1>7, <1>8

\* What the charges of a legal push are, when it applies to the ledger it was
\* computed from: those the history has, and at most one new one.
LEMMA PushCharges ==
    ASSUME LedgerInv, NEW p \in wire, p.old = ledger
    PROVE  LET c == [who |-> p.by, at |-> p.new.updated] IN
           /\ p.by \in Runs /\ p.new.updated \in 0..clock
           /\ ChargesOf(p.new.rows) \subseteq charges \cup {c}
           /\ \A d \in charges : d.at > p.new.updated - Window =>
                 d \in ChargesOf(Active(ledger.rows, p.new.updated))
                          \cap ChargesOf(p.new.rows)
           /\ c \in ChargesOf(p.new.rows) \ charges =>
                 Cardinality(Guarded(Active(ledger.rows, p.new.updated))) < Cap
<1> DEFINE c == [who |-> p.by, at |-> p.new.updated]
<1>1. LegalPush(p) /\ IsPush(p)
    BY DEF LedgerInv, LegalProgress, TypeOK
<1>2. p.by \in Runs /\ p.new.updated \in 0..clock
    BY <1>1 DEF LegalPush, IsPush
<1>3. ASSUME NEW i \in Guarded(p.new.rows)
      PROVE  \/ [who |-> i, at |-> p.new.rows[i].at] \in charges
             \/ /\ [who |-> i, at |-> p.new.rows[i].at] = c
                /\ Cardinality(Guarded(Active(ledger.rows, p.new.updated))) < Cap
  <2>1. CASE i \in DOMAIN ledger.rows /\ p.new.rows[i].at = ledger.rows[i].at
    <3>1. i \in Guarded(ledger.rows)
        BY <2>1 DEF Guarded
    <3> QED
        BY <2>1, <3>1 DEF LedgerInv, HistoryAgrees, ChargesOf
  <2> QED
      BY <1>1, <1>3, <2>1 DEF LegalPush, Guarded
<1>4. ChargesOf(p.new.rows) \subseteq charges \cup {c}
    BY <1>3 DEF ChargesOf
<1>5. ASSUME NEW d \in charges, d.at > p.new.updated - Window
      PROVE  d \in ChargesOf(Active(ledger.rows, p.new.updated))
                      \cap ChargesOf(p.new.rows)
  <2>1. d.at > ledger.updated - Window
      BY <1>1, <1>5, ConstantTypes DEF LedgerInv, HistoryAgrees, LegalPush
  <2>2. d \in ChargesOf(ledger.rows)
      BY <2>1 DEF LedgerInv, HistoryAgrees
  <2>3. PICK i \in Guarded(ledger.rows) : d = [who |-> i, at |-> ledger.rows[i].at]
      BY <2>2 DEF ChargesOf
  <2>4. i \in DOMAIN ledger.rows /\ i \in Runs
      BY DEF Guarded
  <2>5. i \in DOMAIN p.new.rows /\ p.new.rows[i].at = ledger.rows[i].at
      BY <1>1, <1>5, <2>3, <2>4 DEF LegalPush
  <2>6. /\ i \in DOMAIN Active(ledger.rows, p.new.updated)
        /\ Active(ledger.rows, p.new.updated)[i] = ledger.rows[i]
      BY <1>5, <2>3, <2>4 DEF Active
  <2> QED
      BY <2>3, <2>4, <2>5, <2>6 DEF ChargesOf, Guarded
<1>6. c \in ChargesOf(p.new.rows) \ charges =>
         Cardinality(Guarded(Active(ledger.rows, p.new.updated))) < Cap
    BY <1>3 DEF ChargesOf
<1> QED
    BY <1>2, <1>4, <1>5, <1>6

LEMMA ApplyLegal ==
    ASSUME LedgerInv, NEW p \in wire, Apply(p)
    PROVE  HistoryAgrees' /\ LegalProgress'
<1> DEFINE c == [who |-> p.by, at |-> p.new.updated]
<1>1. /\ p.old = ledger /\ ledger' = p.new
      /\ wire' \subseteq wire
      /\ charges' = charges \cup ChargesOf(p.new.rows)
      /\ UNCHANGED <<clock, run>>
    BY DEF Apply, LeaseHolds
<1>2. LegalPush(p)
    BY DEF LedgerInv, LegalProgress
<1>3. /\ c \in [who : Runs, at : 0..MaxClock]
      /\ c.at = ledger'.updated
      /\ charges' \subseteq charges \cup {c}
  <2>1. /\ p.by \in Runs /\ p.new.updated \in 0..clock
        /\ ChargesOf(p.new.rows) \subseteq charges \cup {c}
      BY <1>1, PushCharges
  <2>2. p.new.updated \in 0..MaxClock
      BY <2>1, ConstantTypes DEF LedgerInv, HistoryAgrees
  <2> QED
      BY <1>1, <2>1, <2>2
<1>4. \A d \in charges : d.at =< ledger'.updated
    BY <1>1, <1>2, ConstantTypes DEF LedgerInv, HistoryAgrees, LegalPush
<1>5. \A d \in charges' : d.at > ledger'.updated - Window =>
         d \in ChargesOf(ledger'.rows)
    BY <1>1, PushCharges
<1>6. HistoryAgrees'
  <2> HIDE DEF c
  <2>1. \A d \in charges' : d.at =< ledger'.updated
      BY <1>1, <1>2, <1>3, <1>4 DEF LegalPush
  <2>2. charges' \subseteq [who : Runs, at : 0..MaxClock]
      BY <1>3 DEF LedgerInv, HistoryAgrees
  <2>3. ledger'.updated \in 0..clock'
      BY <1>1, <1>2 DEF LegalPush
  <2>4. ChargesOf(ledger'.rows) \subseteq charges'
      BY <1>1
  <2>5. clock' \in 0..MaxClock
      BY <1>1 DEF LedgerInv, HistoryAgrees
  <2>6. ChargesOf(ledger.rows)' = ChargesOf(ledger'.rows)
      OBVIOUS
  <2> QED
      BY <1>5, <2>1, <2>2, <2>3, <2>4, <2>5, <2>6 DEF HistoryAgrees
<1>7. LegalProgress'
    BY <1>1 DEF LedgerInv, LegalProgress, LegalRun, LegalPush
<1> QED
    BY <1>6, <1>7

LEMMA InitLegal == Init => HistoryAgrees /\ LegalProgress
<1> SUFFICES ASSUME Init PROVE HistoryAgrees /\ LegalProgress
    OBVIOUS
<1>1. Guarded(ledger.rows) = {}
  <2>1. PICK ids \in SUBSET Legacy : DOMAIN ledger.rows = ids
      BY DEF Init
  <2> QED
      BY <2>1, ConstantTypes DEF Guarded
<1>2. ledger.updated = 0
    BY DEF Init
<1>3. HistoryAgrees
    BY <1>1, <1>2, ConstantTypes DEF Init, HistoryAgrees, ChargesOf
<1>4. LegalProgress
    BY DEF Init, LegalProgress, LegalRun, Unstarted, Permitted
<1> QED
    BY <1>3, <1>4

LEMMA NextLegal == LedgerInv /\ [Next]_vars => HistoryAgrees' /\ LegalProgress'
<1> SUFFICES ASSUME LedgerInv, [Next]_vars PROVE HistoryAgrees' /\ LegalProgress'
    OBVIOUS
<1>1. CASE Tick
  <2>1. /\ clock' = clock + 1 /\ clock' \in 0..MaxClock /\ clock \in Nat
        /\ UNCHANGED <<ledger, wire, run, charges>>
      BY <1>1, ConstantTypes DEF Tick, LedgerInv, HistoryAgrees
  <2>2. HistoryAgrees'
      BY <2>1 DEF LedgerInv, HistoryAgrees
  <2>3. ASSUME NEW p, LegalPush(p)
        PROVE  LegalPush(p)'
      BY <2>1, <2>3 DEF LegalPush
  <2>4. LegalProgress'
      BY <2>1, <2>3 DEF LedgerInv, LegalProgress, LegalRun
  <2> QED
      BY <2>2, <2>4
<1>2. ASSUME NEW r \in Runs, RunStep(r)
      PROVE  HistoryAgrees' /\ LegalProgress'
    BY <1>2, ReserveLegal, MarkSuccessLegal, MarkSupersededLegal, ConfirmLegal,
       SmallStepLegal DEF RunStep
<1>3. ASSUME NEW p \in wire, Apply(p) \/ Lose(p)
      PROVE  HistoryAgrees' /\ LegalProgress'
  <2>1. CASE Lose(p)
      BY <2>1 DEF Lose, LedgerInv, HistoryAgrees, LegalProgress, LegalRun, LegalPush
  <2> QED
      BY <1>3, <2>1, ApplyLegal
<1>4. CASE UNCHANGED vars
    BY <1>4 DEF vars, LedgerInv, HistoryAgrees, LegalProgress, LegalRun, LegalPush
<1> QED
    BY <1>1, <1>2, <1>3, <1>4 DEF Next

----------------------------------------------------------------------------
(* The theorems *)

\* Pushes under way are legal and the ref shows every charge that still
\* counts, in every reachable state and for all values of the constants.
THEOREM LedgerInvariant == Spec => []LedgerInv
<1>1. Init => LedgerInv
    BY InitType, InitLegal DEF LedgerInv
<1>2. LedgerInv /\ [Next]_vars => LedgerInv'
    BY NextType, NextLegal DEF LedgerInv
<1> QED
    BY <1>1, <1>2, PTL DEF Spec

\* A run that collects was charged, and while its charge counts no push of
\* another run has removed its row.
THEOREM PermitsAreCharged == Spec => []PermitCharged
<1>1. LedgerInv => PermitCharged
  <2> SUFFICES ASSUME LedgerInv, NEW r \in Runs, run[r].stage \in Permitted
               PROVE  \E c \in charges :
                         /\ c.who = r
                         /\ c.at > ledger.updated - Window =>
                               /\ r \in DOMAIN ledger.rows
                               /\ ledger.rows[r].at = c.at
      BY DEF PermitCharged, Permitted
  <2>1. PICK c \in charges : c.who = r
      BY DEF LedgerInv, LegalProgress, LegalRun
  <2>2. c.at > ledger.updated - Window =>
           r \in DOMAIN ledger.rows /\ ledger.rows[r].at = c.at
    <3> SUFFICES ASSUME c.at > ledger.updated - Window
                 PROVE  r \in DOMAIN ledger.rows /\ ledger.rows[r].at = c.at
        OBVIOUS
    <3>1. c \in ChargesOf(ledger.rows)
        BY DEF LedgerInv, HistoryAgrees
    <3> QED
        BY <2>1, <3>1 DEF ChargesOf, Guarded
  <2> QED
      BY <2>1, <2>2
<1> QED
    BY <1>1, LedgerInvariant, PTL

\* Every push that applies is at most one charge of the rolling budget.
LEMMA ApplyCharges ==
    ASSUME LedgerInv, NEW p \in wire, Apply(p), charges' # charges
    PROVE  \E c \in Budget!ChargeRecord : Budget!Charge(c)
<1> DEFINE c == [who |-> p.by, at |-> p.new.updated]
           active == Active(ledger.rows, p.new.updated)
<1>1. /\ p.old = ledger /\ charges' = charges \cup ChargesOf(p.new.rows)
      /\ clock' = clock
    BY DEF Apply, LeaseHolds
<1>2. LegalPush(p)
    BY DEF LedgerInv, LegalProgress
<1>3. c \in ChargesOf(p.new.rows) \ charges /\ charges' = charges \cup {c}
    BY <1>1, PushCharges
<1>4. c \in Budget!ChargeRecord /\ c.at =< clock
  <2>1. p.by \in Runs /\ p.new.updated \in 0..clock
      BY <1>1, PushCharges
  <2>2. p.new.updated \in 0..MaxClock /\ p.new.updated =< clock
      BY <2>1, ConstantTypes DEF LedgerInv, HistoryAgrees
  <2> QED
      BY <2>1, <2>2 DEF Budget!ChargeRecord
<1>5. \A d \in charges : d.at =< c.at
    BY <1>1, <1>2, ConstantTypes DEF LedgerInv, HistoryAgrees, LegalPush
<1>6. Cardinality(Budget!InWindow(c.at)) < Cap
  <2>1. Budget!InWindow(c.at) \subseteq ChargesOf(active)
      BY <1>1, PushCharges DEF Budget!InWindow
  <2>2. Cardinality(Guarded(active)) < Cap
      BY <1>1, <1>3, PushCharges
  <2> HIDE DEF active, c
  <2>3. /\ IsFiniteSet(ChargesOf(active))
        /\ Cardinality(ChargesOf(active)) =< Cardinality(Guarded(active))
      BY ChargesCount
  <2>4. /\ IsFiniteSet(Budget!InWindow(c.at))
        /\ Cardinality(Budget!InWindow(c.at)) =< Cardinality(ChargesOf(active))
      BY <2>1, <2>3, FS_Subset
  <2>5. /\ Cardinality(Budget!InWindow(c.at)) \in Nat
        /\ Cardinality(ChargesOf(active)) \in Nat
        /\ Cardinality(Guarded(active)) \in Nat
      BY <2>3, <2>4, FS_CardinalityType, GuardedFinite
  <2> QED
      BY <2>2, <2>3, <2>4, <2>5, ConstantTypes
<1>7. Budget!Charge(c)
  <2> HIDE DEF c
  <2>1. c \notin charges
      BY <1>3
  <2> QED
      BY <1>1, <1>3, <1>4, <1>5, <1>6, <2>1
         DEF Budget!Charge, Budget!Cardinality, Cardinality
<1> QED
    BY <1>4, <1>7

\* The ledger implements the rolling budget: every step of a run, of the
\* server or of the clock is the passing of time, one charge, or nothing.
THEOREM LedgerImplementsBudget == Spec => ImplementsBudget
<1>1. Init => Budget!BudgetInit
    BY DEF Init, Budget!BudgetInit
<1>2. LedgerInv /\ [Next]_vars => [Budget!BudgetNext]_(Budget!budgetVars)
  <2> SUFFICES ASSUME LedgerInv, [Next]_vars
               PROVE  \/ Budget!BudgetNext
                      \/ UNCHANGED <<clock, charges>>
      BY DEF Budget!budgetVars
  <2>1. CASE Tick
      BY <2>1, ConstantTypes DEF Tick, LedgerInv, HistoryAgrees,
                               Budget!BudgetNext, Budget!PassTime
  <2>2. ASSUME NEW r \in Runs, RunStep(r)
        PROVE  UNCHANGED <<clock, charges>>
      BY <2>2 DEF RunStep, Begin, Reserve, Publish, Supersede, StartMark,
                  MarkSuccess, MarkSuperseded, Resend, Confirm, CommandFails,
                  Dispatch, Abort
  <2>3. ASSUME NEW p \in wire, Apply(p) \/ Lose(p)
        PROVE  \/ \E c \in Budget!ChargeRecord : Budget!Charge(c)
               \/ UNCHANGED <<clock, charges>>
      BY <2>3, ApplyCharges DEF Apply, Lose
  <2>4. CASE UNCHANGED vars
      BY <2>4 DEF vars
  <2> QED
      BY <2>1, <2>2, <2>3, <2>4 DEF Next, Budget!BudgetNext
<1> QED
    BY <1>1, <1>2, LedgerInvariant, PTL
       DEF Spec, ImplementsBudget, Budget!BudgetSpec

LEMMA SameCount ==
    ASSUME NEW S
    PROVE  Budget!Cardinality(S) = Cardinality(S)
BY DEF Budget!Cardinality, Cardinality

\* The charges of the window that ends at t.
Charged(t) == {c \in charges : t - Window < c.at /\ c.at =< t}

WindowsHold ==
    /\ IsFiniteSet(charges)
    /\ \A t \in 0..MaxClock : Cardinality(Charged(t)) =< Cap

LEMMA ChargedFinite ==
    ASSUME WindowsHold, NEW t
    PROVE  IsFiniteSet(Charged(t)) /\ Cardinality(Charged(t)) \in Nat
<1>1. Charged(t) \subseteq charges /\ IsFiniteSet(charges)
    BY DEF Charged, WindowsHold
<1> QED
    BY <1>1, FS_Subset, FS_CardinalityType

\* A charge is added to the newest window, whose count was checked.
LEMMA WindowsStep ==
    ASSUME LedgerInv, WindowsHold, [Budget!BudgetNext]_(Budget!budgetVars)
    PROVE  WindowsHold'
<1>1. CASE charges' = charges
    BY <1>1 DEF WindowsHold, Charged
<1>2. ASSUME NEW c \in Budget!ChargeRecord, Budget!Charge(c)
      PROVE  WindowsHold'
  <2>0. IsFiniteSet(charges \cup {c})
      BY FS_AddElement DEF WindowsHold
  <2> SUFFICES ASSUME NEW t \in 0..MaxClock
               PROVE  Cardinality(Charged(t)') =< Cap
      BY <1>2, <2>0 DEF WindowsHold, Budget!Charge
  <2>1. /\ charges' = charges \cup {c}
        /\ c \notin charges
        /\ \A e \in charges : e.at =< c.at
        /\ Cardinality(Charged(c.at)) < Cap
      BY <1>2, SameCount DEF Budget!Charge, Budget!InWindow, Charged
  <2>2. c.at \in Int /\ t \in Int /\ \A e \in charges : e.at \in Int
      BY ConstantTypes DEF Budget!ChargeRecord, LedgerInv, TypeOK
  <2>3. CASE t - Window < c.at /\ c.at =< t
    <3>1. Charged(t)' = Charged(t) \cup {c}
        BY <2>1, <2>2, <2>3, ConstantTypes DEF Charged
    <3>2. Charged(t) \subseteq Charged(c.at)
        BY <2>1, <2>2, <2>3, ConstantTypes DEF Charged
    <3>3. Cardinality(Charged(t)) =< Cardinality(Charged(c.at))
        BY <3>2, ChargedFinite, FS_Subset
    <3>4. Cardinality(Charged(t) \cup {c}) = Cardinality(Charged(t)) + 1
        BY <2>1, ChargedFinite, FS_AddElement DEF Charged
    <3> QED
        BY <2>1, <3>1, <3>3, <3>4, ChargedFinite, ConstantTypes
  <2>4. CASE ~(t - Window < c.at /\ c.at =< t)
    <3>1. Charged(t)' = Charged(t)
        BY <2>1, <2>4 DEF Charged
    <3> QED
        BY <3>1 DEF WindowsHold
  <2> QED
      BY <2>3, <2>4
<1> QED
    BY <1>1, <1>2 DEF Budget!BudgetNext, Budget!PassTime, Budget!budgetVars

\* Hence no window of the ledger's whole history holds more than Cap guarded
\* reservations, whatever the interleaving of runs and the fate of pushes.
THEOREM LedgerWindowBound == Spec => []Budget!WindowBound
<1>1. Budget!BudgetInit => WindowsHold
  <2> SUFFICES ASSUME Budget!BudgetInit, NEW t \in 0..MaxClock
               PROVE  Cardinality(Charged(t)) =< Cap
      BY FS_EmptySet DEF WindowsHold, Budget!BudgetInit
  <2>1. Charged(t) = {}
      BY DEF Budget!BudgetInit, Charged
  <2> QED
      BY <2>1, FS_EmptySet, ConstantTypes
<1>2. LedgerInv /\ WindowsHold /\ [Budget!BudgetNext]_(Budget!budgetVars) => WindowsHold'
    BY WindowsStep
<1>3. WindowsHold => Budget!WindowBound
    BY SameCount DEF WindowsHold, Charged, Budget!WindowBound, Budget!InWindow
<1> QED
    BY <1>1, <1>2, <1>3, LedgerInvariant, LedgerImplementsBudget, PTL
       DEF ImplementsBudget, Budget!BudgetSpec

----------------------------------------------------------------------------
(* How the attempts end.  A push rewrites no row but that of its own run,  *)
(* and that one only while it is open; the ledgers it makes are spaced and *)
(* hand an unresolved retry on.  A run knows the reservation time of its   *)
(* own row, and until it has sent a mark nothing that bears its name says  *)
(* more than "open".                                                       *)

Telling(rows) == {i \in DOMAIN rows : rows[i].outcome = "published" \/ rows[i].pending}

Spaced(rows) ==
    \A i, j \in Guarded(rows) :
        i # j /\ rows[j].at =< rows[i].at =>
            \/ rows[i].at >= rows[j].at + RetryInterval
            \/ rows[i].codeChange \/ rows[j].outcome = "superseded"
            \/ /\ rows[i].at = rows[j].at
               /\ rows[j].codeChange \/ rows[i].outcome = "superseded"

\* The attempts that say nothing of the retry that is due were reserved
\* while the attempt that asked for it was still at work.
HandsOn(rows) ==
    CarriesRetry(rows) =>
        \A i \in Guarded(rows) \ Telling(rows) :
            rows[i].at =< rows[Newest(rows, Telling(rows))].at + RunLimit

\* No limit of the gate is exceeded; the legacy rows never come back.
Counted(rows) ==
    /\ Cardinality(Guarded(rows)) =< Cap
    /\ DOMAIN rows \cap Legacy # {} =>
          /\ Cardinality(DOMAIN rows) =< OverlapCap
          /\ Cardinality(Guarded(rows)) =< OverlapRuntimeCap

GoodLedger(l) ==
    /\ \A i \in DOMAIN l.rows : l.rows[i].at =< l.updated
    /\ Spaced(l.rows)
    /\ HandsOn(l.rows)
    /\ Counted(l.rows)

\* A push whose run has a row already rewrites its outcome, once.
KeepsRows(p) ==
    /\ \A i \in DOMAIN p.new.rows \ {p.by} :
          i \in DOMAIN p.old.rows /\ p.new.rows[i] = p.old.rows[i]
    /\ p.by \in DOMAIN p.old.rows => p.old.rows[p.by].outcome = "open"

KeepsRetry(p) ==
    CarriesRetry(p.old.rows) /\ ~CarriesRetry(p.new.rows) =>
        \E r \in Guarded(p.old.rows) \cap Guarded(p.new.rows) :
            /\ p.old.rows[r].outcome = "open"
            /\ p.new.rows[r].outcome = "published"
            /\ p.new.rows[r].evidence = "clean"

GoodPush(p) == KeepsRows(p) /\ KeepsRetry(p) /\ GoodLedger(p.new)

AtWork(x) == x.stage \notin {"unstarted", "ended", "silenced"}

\* A run that has not sent a mark of a superseded candidate yet.
Unmarked(x) ==
    \/ x.stage \in {"reserving", "collecting"}
    \/ /\ x.stage = "superseding"
       /\ \/ x.tries = MarkTries
          \/ x.tries = MarkTries - 1 /\ x.command = "reading"

\* What a ledger may say of the run r.
Own(r, x, l) ==
    r \in DOMAIN l.rows =>
        /\ l.rows[r].at = x.began
        /\ Unmarked(x) => l.rows[r].outcome = "open"

Fresh(x) ==
    \/ x.stage = "unstarted"
    \/ x.stage = "reserving" /\ x.command = "reading"

GoodRun(r, x) ==
    /\ x.stage # "silenced"
    /\ x.command = "pushing" => GoodPush(x.push) /\ Own(r, x, x.push.new)
    /\ x.command # "idle" => AtWork(x)
    /\ x.tries =< MarkTries
    /\ x.stage = "reserving" /\ x.command = "reading" => x.now = x.began
    /\ x.stage = "collecting" => x.command = "idle"
    /\ x.stage \in {"publishing", "superseding"} /\ x.tries = MarkTries =>
          x.command = "idle"
    /\ Collection /\ x.stage = "publishing" => x.evidence # "none"

OnTime(x, now) == AtWork(x) => now =< x.began + RunLimit

\* No ledger and no push under way says otherwise of the run.
Known(r, x, l, pushes) ==
    /\ AtWork(x) => Own(r, x, l) /\ \A p \in pushes : p.by = r => Own(r, x, p.new)
    /\ Fresh(x) => r \notin DOMAIN l.rows /\ \A p \in pushes : p.by # r

AnswersAgree ==
    /\ GoodLedger(ledger)
    /\ \A p \in wire : GoodPush(p)
    /\ \A r \in Runs :
          /\ GoodRun(r, run[r])
          /\ OnTime(run[r], clock)
          /\ Known(r, run[r], ledger, wire)

AnswerInv == LedgerInv /\ AnswersAgree

----------------------------------------------------------------------------
(* The backoff *)

MaxStreak == Cardinality(Runs \cup Legacy)

LEMMA MaxStreakNatural == IsFiniteSet(Runs \cup Legacy) /\ MaxStreak \in Nat
BY ConstantTypes, FS_Union, FS_CardinalityType DEF MaxStreak

\* The recursion of Backoff has a solution, built up one failure at a time.
LEMMA BackoffUnfolds ==
    \A n \in 1..MaxStreak :
        Backoff[n] = Capped(IF n = 1 THEN RetryInterval ELSE 2 * Backoff[n - 1])
<1> DEFINE Solves(g, n) ==
             g = [m \in 1..n |->
                     Capped(IF m = 1 THEN RetryInterval ELSE 2 * g[m - 1])]
           unsolved == {n \in 0..MaxStreak : ~ \E g : Solves(g, n)}
<1>1. ASSUME unsolved # {} PROVE FALSE
  <2>1. unsolved \subseteq Nat
      OBVIOUS
  <2>2. PICK n \in unsolved : \A m \in unsolved : n =< m
    <3> HIDE DEF unsolved
    <3> QED
        BY <1>1, <2>1, LeastNatural
  <2>3. n \in 0..MaxStreak /\ ~ \E g : Solves(g, n)
      OBVIOUS
  <2>4. n # 0
    <3>1. Solves([m \in 1..0 |-> 0], 0)
        OBVIOUS
    <3> QED
        BY <2>3, <3>1
  <2>5. n - 1 \in 0..MaxStreak /\ n - 1 \notin unsolved
    <3> HIDE DEF unsolved
    <3> QED
        BY <2>2, <2>3, <2>4, MaxStreakNatural
  <2>6. PICK g : Solves(g, n - 1)
    <3> HIDE DEF Solves
    <3> QED
        BY <2>5
  <2> DEFINE h == [m \in 1..n |->
                      Capped(IF m = 1 THEN RetryInterval ELSE 2 * g[m - 1])]
  <2>7. \A m \in 1..(n - 1) : h[m] = g[m]
      BY <2>3, <2>6
  <2>8. \A m \in 1..n : m # 1 => m - 1 \in 1..(n - 1)
      BY <2>3
  <2>9. Solves(h, n)
      BY <2>7, <2>8
  <2> QED
      BY <2>3, <2>9
<1>2. PICK g : Solves(g, MaxStreak)
  <2>1. MaxStreak \in 0..MaxStreak
      BY MaxStreakNatural
  <2> HIDE DEF Solves
  <2> QED
      BY <1>1, <2>1
<1>3. Solves(Backoff, MaxStreak)
    BY <1>2 DEF Backoff, MaxStreak
<1> QED
    BY <1>3

LEMMA CappedBounds ==
    ASSUME NEW t \in Int, RetryInterval =< t
    PROVE  /\ Capped(t) \in Int
           /\ RetryInterval =< Capped(t) /\ Capped(t) =< SuccessInterval
BY ConstantTypes DEF Capped

\* The waits lie between the two intervals.
LEMMA BackoffBounds ==
    \A n \in 1..MaxStreak :
        /\ Backoff[n] \in Int
        /\ RetryInterval =< Backoff[n] /\ Backoff[n] =< SuccessInterval
<1> DEFINE Fine(n) == /\ Backoff[n] \in Int
                      /\ RetryInterval =< Backoff[n] /\ Backoff[n] =< SuccessInterval
           broken == {n \in 1..MaxStreak : ~Fine(n)}
<1>1. ASSUME broken # {} PROVE FALSE
  <2>1. broken \subseteq Nat
      OBVIOUS
  <2>2. PICK n \in broken : \A m \in broken : n =< m
    <3> HIDE DEF broken
    <3> QED
        BY <1>1, <2>1, LeastNatural
  <2>3. n \in 1..MaxStreak /\ ~Fine(n)
      OBVIOUS
  <2>4. CASE n = 1
    <3>1. Backoff[n] = Capped(RetryInterval)
        BY <2>3, <2>4, BackoffUnfolds
    <3> QED
        BY <2>3, <3>1, CappedBounds, ConstantTypes
  <2>5. CASE n # 1
    <3>1. n - 1 \in 1..MaxStreak /\ n - 1 \notin broken
      <4> HIDE DEF broken
      <4> QED
          BY <2>2, <2>3, <2>5, MaxStreakNatural
    <3>2. Fine(n - 1)
        BY <3>1
    <3>3. 2 * Backoff[n - 1] \in Int /\ RetryInterval =< 2 * Backoff[n - 1]
        BY <3>2, ConstantTypes
    <3>4. Backoff[n] = Capped(2 * Backoff[n - 1])
        BY <2>3, <2>5, BackoffUnfolds
    <3> QED
        BY <2>3, <3>3, <3>4, CappedBounds
  <2> QED
      BY <2>4, <2>5
<1> QED
    BY <1>1

\* A longer streak never waits less.
LEMMA BackoffGrows ==
    \A n, m \in 1..MaxStreak : m =< n => Backoff[m] =< Backoff[n]
<1>1. ASSUME NEW n \in 1..MaxStreak, n # 1
      PROVE  Backoff[n - 1] =< Backoff[n]
  <2>1. n - 1 \in 1..MaxStreak
      BY <1>1, MaxStreakNatural
  <2>2. Backoff[n] = Capped(2 * Backoff[n - 1])
      BY <1>1, BackoffUnfolds
  <2> QED
      BY <2>1, <2>2, BackoffBounds, ConstantTypes DEF Capped
<1> DEFINE broken == {n \in 1..MaxStreak :
                         \E m \in 1..MaxStreak : m =< n /\ ~(Backoff[m] =< Backoff[n])}
<1>2. ASSUME broken # {} PROVE FALSE
  <2>1. broken \subseteq Nat
      OBVIOUS
  <2>2. PICK n \in broken : \A k \in broken : n =< k
    <3> HIDE DEF broken
    <3> QED
        BY <1>2, <2>1, LeastNatural
  <2>3. PICK m \in 1..MaxStreak : m =< n /\ ~(Backoff[m] =< Backoff[n])
      OBVIOUS
  <2>4. n \in 1..MaxStreak /\ Backoff[m] \in Int /\ Backoff[n] \in Int
      BY BackoffBounds
  <2>5. m # n
      BY <2>3, <2>4
  <2>6. n - 1 \in 1..MaxStreak /\ n - 1 \notin broken /\ m =< n - 1
    <3>1. n - 1 \in 1..MaxStreak /\ m =< n - 1
        BY <2>3, <2>4, <2>5, MaxStreakNatural
    <3> HIDE DEF broken
    <3> QED
        BY <2>2, <2>4, <3>1, MaxStreakNatural
  <2>7. Backoff[m] =< Backoff[n - 1]
      BY <2>6
  <2>8. Backoff[n - 1] =< Backoff[n] /\ Backoff[n - 1] \in Int
      BY <1>1, <2>3, <2>4, <2>5, <2>6, BackoffBounds
  <2> HIDE DEF broken
  <2> QED
      BY <2>3, <2>4, <2>7, <2>8
<1> QED
    BY <1>2

----------------------------------------------------------------------------
(* The gate keeps its distance *)

LEMMA StreakRange ==
    ASSUME NEW rows, IsRows(rows), Gating(rows) # {}
    PROVE  FailureStreak(rows) \in 1..MaxStreak
<1> DEFINE newest == Newest(rows, Gating(rows))
           older == Gating(rows) \ {newest}
           failed == {i \in older : \A j \in older :
                         j = i \/ Later(rows, j, i) => ~Complete(rows[j])}
<1>1. Gating(rows) \subseteq DOMAIN rows
    BY DEF Gating
<1>2. newest \in Gating(rows)
    BY <1>1, NewestExists
<1>3. IsFiniteSet(Gating(rows)) /\ Cardinality(Gating(rows)) =< MaxStreak
  <2>1. DOMAIN rows \subseteq Runs \cup Legacy
      BY DEF IsRows
  <2> QED
      BY <1>1, <2>1, MaxStreakNatural, FS_Subset DEF MaxStreak
<1>4. IsFiniteSet(older) /\ Cardinality(older) = Cardinality(Gating(rows)) - 1
    BY <1>2, <1>3, FS_RemoveElement
<1>5. IsFiniteSet(failed) /\ Cardinality(failed) =< Cardinality(older)
  <2>1. failed \subseteq older
      OBVIOUS
  <2> HIDE DEF failed, older
  <2> QED
      BY <1>4, <2>1, FS_Subset
<1>6. FailureStreak(rows) = 1 + Cardinality(failed)
    BY DEF FailureStreak
<1> HIDE DEF failed, older
<1>7. /\ Cardinality(failed) \in Nat /\ Cardinality(older) \in Nat
      /\ Cardinality(Gating(rows)) \in Nat
    BY <1>3, <1>4, <1>5, FS_CardinalityType
<1> QED
    BY <1>3, <1>4, <1>5, <1>6, <1>7, MaxStreakNatural

LEMMA IntervalBounds ==
    ASSUME NEW rows, IsRows(rows), Gating(rows) # {}, NEW retry, NEW migrating
    PROVE  /\ CadenceInterval(rows, retry, migrating) \in Int
           /\ RetryInterval =< CadenceInterval(rows, retry, migrating)
           /\ CadenceInterval(rows, retry, migrating) =< SuccessInterval
<1> DEFINE n == IF Collection THEN FailureStreak(rows) ELSE 1
<1>1. n \in 1..MaxStreak
    BY StreakRange, MaxStreakNatural
<1>2. /\ Backoff[n] \in Int
      /\ RetryInterval =< Backoff[n] /\ Backoff[n] =< SuccessInterval
  <2> HIDE DEF n
  <2> QED
      BY <1>1, BackoffBounds
<1>3. CadenceInterval(rows, retry, migrating) \in
         {Backoff[n], RetryInterval, SuccessInterval}
    BY DEF CadenceInterval
<1> HIDE DEF n
<1> QED
    BY <1>2, <1>3, ConstantTypes

\* What the gate admits is a first backoff away from every attempt that was
\* not superseded.
LEMMA ReservedSpaced ==
    ASSUME NEW rows, IsRows(rows), NEW now \in Int, NEW retry, NEW migrating,
           RequestMode(rows, now, FALSE, retry, migrating) = "reserved",
           NEW j \in DOMAIN rows, rows[j].outcome # "superseded"
    PROVE  rows[j].at + RetryInterval =< now
<1> DEFINE newest == Newest(rows, Gating(rows))
<1>1. j \in Gating(rows) /\ Gating(rows) \subseteq DOMAIN rows
    BY DEF Gating
<1>2. newest \in Gating(rows) /\ \A i \in Gating(rows) \ {newest} : Later(rows, newest, i)
    BY <1>1, NewestExists
<1>3. rows[j].at =< rows[newest].at
  <2>1. rows[j].at \in Int /\ rows[newest].at \in Int
      BY <1>1, <1>2, RowsFinite
  <2> HIDE DEF newest
  <2> QED
      BY <1>1, <1>2, <2>1, LaterIsOrder
<1>4. now >= CadenceOpens(rows, retry, migrating)
  <2>1. ~ (now < CadenceOpens(rows, retry, migrating))
      BY <1>1 DEF RequestMode, CadenceGated
  <2>2. CadenceOpens(rows, retry, migrating) \in Int
      BY <1>1, <1>2, RowsFinite, IntervalBounds DEF CadenceOpens
  <2> QED
      BY <2>1, <2>2
<1>5. CadenceOpens(rows, retry, migrating)
         = rows[newest].at + CadenceInterval(rows, retry, migrating)
    BY DEF CadenceOpens
<1>6. rows[j].at \in Int /\ rows[newest].at \in Int
    BY <1>1, <1>2, RowsFinite
<1> HIDE DEF newest
<1> QED
    BY <1>1, <1>3, <1>4, <1>5, <1>6, IntervalBounds, ConstantTypes

----------------------------------------------------------------------------
(* The retry is handed on *)

\* What a command of r makes of the rows it reads at the time now.
Rewrites(new, old, r, now) ==
    /\ IsRows(old) /\ IsRows(new) /\ r \in DOMAIN new
    /\ \A i \in DOMAIN new \ {r} :
          i \in DOMAIN old /\ new[i] = old[i] /\ old[i].at > now - Window
    /\ \A i \in DOMAIN old \ {r} : old[i].at > now - Window => i \in DOMAIN new

LEMMA WithRowRewrites ==
    ASSUME NEW old, IsRows(old), NEW r \in Runs, NEW now \in Int, NEW row \in Row
    PROVE  /\ Rewrites(WithRow(Active(old, now), r, row), old, r, now)
           /\ WithRow(Active(old, now), r, row)[r] = row
<1>1. IsRows(WithRow(Active(old, now), r, row))
    BY ActiveIsRows, WithRowIsRows
<1> QED
    BY <1>1 DEF Rewrites, WithRow, Active

Latest(rows) == Newest(rows, Telling(rows))

LEMMA LatestExists ==
    ASSUME NEW rows, IsRows(rows), Telling(rows) # {}
    PROVE  /\ Latest(rows) \in Telling(rows) /\ Latest(rows) \in DOMAIN rows
           /\ \A i \in Telling(rows) \ {Latest(rows)} : Later(rows, Latest(rows), i)
<1>1. Telling(rows) \subseteq DOMAIN rows
    BY DEF Telling
<1> QED
    BY <1>1, NewestExists DEF Latest

LEMMA CarriesLatest ==
    ASSUME NEW rows
    PROVE  CarriesRetry(rows) <=>
              /\ Collection /\ Telling(rows) # {} /\ Latest(rows) \in Runs
              /\ rows[Latest(rows)].pending \/ rows[Latest(rows)].evidence = "retry"
BY DEF CarriesRetry, Latest, Telling

\* The latest row that tells of a retry stays the latest, unless r's is.
LEMMA LatestKept ==
    ASSUME NEW new, NEW old, NEW r, NEW now \in Int, Rewrites(new, old, r, now),
           r \in Telling(old) => r \in Telling(new) /\ new[r].at = old[r].at,
           Telling(new) # {}, Latest(new) # r
    PROVE  /\ Telling(old) # {}
           /\ Latest(old) = Latest(new)
           /\ new[Latest(new)] = old[Latest(new)]
<1> DEFINE L == Latest(old)
           M == Latest(new)
<1>1. M \in Telling(new) \ {r} /\ \A i \in Telling(new) \ {M} : Later(new, M, i)
    BY LatestExists DEF Rewrites
<1>2. M \in Telling(old) /\ new[M] = old[M] /\ old[M].at > now - Window
    BY <1>1 DEF Rewrites, Telling
<1>3. L \in Telling(old) /\ \A i \in Telling(old) \ {L} : Later(old, L, i)
    BY <1>2, LatestExists DEF Rewrites
<1>4. ASSUME L # M PROVE FALSE
  <2>1. Later(old, L, M) /\ L \in DOMAIN old /\ M \in DOMAIN old
      BY <1>2, <1>3, <1>4 DEF Telling
  <2>2. old[M].at =< old[L].at /\ old[M].at \in Int /\ old[L].at \in Int
      BY <2>1, LaterIsOrder, RowsFinite DEF Rewrites
  <2>3. old[L].at > now - Window
      BY <1>2, <2>2, ConstantTypes
  <2>4. L \in Telling(new) /\ new[L].at = old[L].at
    <3>1. CASE L = r
        BY <1>3, <3>1
    <3>2. CASE L # r
      <4>1. L \in DOMAIN new /\ new[L] = old[L]
          BY <2>1, <2>3, <3>2 DEF Rewrites
      <4> QED
          BY <1>3, <4>1 DEF Telling
    <3> QED
        BY <3>1, <3>2
  <2>5. Later(new, M, L)
      BY <1>1, <1>4, <2>4
  <2>6. Later(old, M, L)
      BY <1>2, <2>4, <2>5 DEF Later
  <2> QED
      BY <2>1, <2>6, LaterIsOrder DEF Rewrites
<1> QED
    BY <1>2, <1>4

LEMMA ReserveRetry ==
    ASSUME NEW new, NEW old, NEW r \in Runs, NEW now \in Int, Rewrites(new, old, r, now),
           r \notin DOMAIN old, \A i \in DOMAIN old : old[i].at =< now,
           new[r].at = now, new[r].outcome = "open",
           new[r].pending = CarriesRetry(old)
    PROVE  /\ CarriesRetry(old) => CarriesRetry(new)
           /\ HandsOn(new)
<1> DEFINE M == Latest(new)
<1>1. r \notin Telling(old)
    BY DEF Telling
<1>2. r \in Telling(new) <=> CarriesRetry(old)
    BY DEF Telling, Rewrites
<1>3. ASSUME Telling(new) # {}, M # r
      PROVE  /\ CarriesRetry(new) <=> CarriesRetry(old)
             /\ CarriesRetry(new) => new[M].at >= now
  <2>1. Telling(old) # {} /\ Latest(old) = M /\ new[M] = old[M]
      BY <1>1, <1>3, LatestKept
  <2>2. CarriesRetry(new) <=> CarriesRetry(old)
      BY <1>3, <2>1, CarriesLatest
  <2>3. ASSUME CarriesRetry(new) PROVE new[M].at >= now
    <3>1. r \in Telling(new)
        BY <1>2, <2>2, <2>3
    <3>2. Later(new, M, r) /\ M \in DOMAIN new /\ r \in DOMAIN new
        BY <1>3, <3>1, LatestExists DEF Rewrites
    <3>3. new[M].at \in Int
        BY <3>2, RowsFinite DEF Rewrites
    <3> QED
        BY <3>2, <3>3, LaterIsOrder DEF Rewrites
  <2> QED
      BY <2>2, <2>3
<1>4. ASSUME CarriesRetry(old) PROVE CarriesRetry(new)
  <2>1. r \in Telling(new)
      BY <1>2, <1>4
  <2>2. CASE M = r
    <3>1. Collection /\ new[M].pending
        BY <1>4, <2>2 DEF CarriesRetry
    <3> QED
        BY <2>1, <2>2, <3>1, CarriesLatest
  <2>3. CASE M # r
      BY <1>3, <1>4, <2>1, <2>3
  <2> QED
      BY <2>2, <2>3
<1>5. ASSUME CarriesRetry(new), NEW i \in Guarded(new) \ Telling(new)
      PROVE  new[i].at =< new[M].at + RunLimit
  <2>1. i \in DOMAIN new /\ new[i].at \in Int
      BY RowsFinite DEF Guarded, Rewrites
  <2>2. new[i].at =< now
      BY <2>1 DEF Rewrites
  <2>3. Telling(new) # {}
      BY <1>5, CarriesLatest
  <2>4. new[M].at >= now /\ new[M].at \in Int
    <3>1. M \in DOMAIN new
        BY <2>3, LatestExists DEF Rewrites
    <3>2. new[M].at \in Int
        BY <3>1, RowsFinite DEF Rewrites
    <3> QED
        BY <1>3, <1>5, <2>3, <3>2
  <2> HIDE DEF M
  <2> QED
      BY <2>1, <2>2, <2>4, ConstantTypes
<1> QED
    BY <1>4, <1>5 DEF HandsOn, Latest

\* A publication of r answers for the retry, and asks again if it must.
LEMMA PublishRetry ==
    ASSUME NEW new, NEW old, NEW r \in Runs, NEW now \in Int, Rewrites(new, old, r, now),
           HandsOn(old), r \in DOMAIN old, \A i \in DOMAIN old : old[i].at =< now,
           new[r].at = old[r].at, now =< old[r].at + RunLimit,
           old[r].outcome = "open", new[r].outcome = "published"
    PROVE  /\ new[r].evidence = "retry" /\ CarriesRetry(old) => CarriesRetry(new)
           /\ HandsOn(new)
<1> DEFINE M == Latest(new)
<1>1. r \in Telling(new) /\ r \in DOMAIN new
    BY DEF Telling, Rewrites
<1>2. ASSUME M # r
      PROVE  /\ Telling(old) # {} /\ Latest(old) = M /\ new[M] = old[M]
             /\ CarriesRetry(new) <=> CarriesRetry(old)
  <2>1. Telling(old) # {} /\ Latest(old) = M /\ new[M] = old[M]
      BY <1>1, <1>2, LatestKept
  <2> QED
      BY <1>1, <2>1, CarriesLatest
<1>3. ASSUME new[r].evidence = "retry", CarriesRetry(old) PROVE CarriesRetry(new)
  <2>1. CASE M = r
      BY <1>1, <1>3, <2>1, CarriesLatest
  <2> QED
      BY <1>2, <1>3, <2>1
<1>4. ASSUME CarriesRetry(new), NEW i \in Guarded(new) \ Telling(new)
      PROVE  new[i].at =< new[M].at + RunLimit
  <2>1. i \in DOMAIN new /\ i # r
      BY <1>1, <1>4 DEF Guarded
  <2>2. i \in DOMAIN old /\ new[i] = old[i]
      BY <2>1 DEF Rewrites
  <2>3. CASE M = r
    <3>1. old[i].at \in Int /\ old[r].at \in Int
        BY <2>2, RowsFinite DEF Rewrites
    <3> QED
        BY <2>2, <2>3, <3>1, ConstantTypes
  <2>4. CASE M # r
    <3>1. i \in Guarded(old) \ Telling(old)
        BY <1>4, <2>1, <2>2 DEF Guarded, Telling
    <3>2. CarriesRetry(old) /\ Latest(old) = M /\ new[M] = old[M]
        BY <1>2, <1>4, <2>4
    <3>3. old[i].at =< old[Latest(old)].at + RunLimit
        BY <3>1, <3>2 DEF HandsOn, Latest
    <3> HIDE DEF M
    <3> QED
        BY <2>2, <3>2, <3>3
  <2> QED
      BY <2>3, <2>4
<1> QED
    BY <1>3, <1>4 DEF HandsOn, Latest

\* A superseded attempt that inherited the retry still tells of it, and one
\* that did not is young enough for the attempt that asks for it to be seen.
LEMMA SupersedeRetry ==
    ASSUME NEW new, NEW old, NEW r \in Runs, NEW now \in Int, Rewrites(new, old, r, now),
           HandsOn(old), r \in DOMAIN old, old[r].at > now - Window,
           new[r].at = old[r].at, now =< old[r].at + RunLimit,
           old[r].outcome = "open", new[r].outcome = "superseded",
           new[r].pending = old[r].pending, new[r].evidence = old[r].evidence
    PROVE  /\ CarriesRetry(old) => CarriesRetry(new)
           /\ HandsOn(new)
<1> DEFINE L == Latest(old)
           M == Latest(new)
<1>1. r \in Telling(old) <=> r \in Telling(new)
    BY DEF Telling, Rewrites
<1>2. ASSUME NEW i \in DOMAIN old, old[i].at > now - Window
      PROVE  /\ i \in DOMAIN new /\ new[i].at = old[i].at
             /\ new[i].pending = old[i].pending /\ new[i].evidence = old[i].evidence
             /\ i \in Telling(old) <=> i \in Telling(new)
  <2>1. CASE i = r
      BY <1>1, <2>1 DEF Rewrites
  <2>2. CASE i # r
      BY <1>2, <2>2 DEF Rewrites, Telling
  <2> QED
      BY <2>1, <2>2
<1>3. ASSUME Telling(new) # {}
      PROVE  /\ Telling(old) # {} /\ L = M
             /\ M \in DOMAIN old /\ old[M].at > now - Window
  <2>1. M \in Telling(new) /\ M \in DOMAIN new
      BY <1>3, LatestExists DEF Rewrites
  <2>2. M \in DOMAIN old /\ old[M].at > now - Window
    <3>1. CASE M = r
        BY <3>1
    <3>2. CASE M # r
        BY <2>1, <3>2 DEF Rewrites
    <3> QED
        BY <3>1, <3>2
  <2>3. CASE M # r
    <3>1. Telling(old) # {} /\ L = M
        BY <1>1, <1>3, <2>3, LatestKept
    <3> QED
        BY <2>2, <3>1
  <2>4. CASE M = r
    <3>1. r \in Telling(old)
        BY <1>1, <2>1, <2>4
    <3>2. L \in Telling(old) /\ L \in DOMAIN old
        BY <3>1, LatestExists DEF Rewrites
    <3>3. ASSUME L # r PROVE FALSE
      <4>1. Later(old, L, r)
          BY <3>1, <3>3, LatestExists DEF Rewrites
      <4>2. old[r].at =< old[L].at /\ old[L].at \in Int /\ old[r].at \in Int
          BY <3>2, <4>1, LaterIsOrder, RowsFinite DEF Rewrites
      <4>3. old[L].at > now - Window
          BY <4>2, ConstantTypes
      <4>4. L \in Telling(new) /\ new[L].at = old[L].at
          BY <1>2, <3>2, <4>3
      <4>5. Later(new, r, L)
          BY <2>4, <3>3, <4>4, LatestExists DEF Rewrites
      <4>6. Later(old, r, L)
          BY <4>4, <4>5 DEF Later
      <4> QED
          BY <3>2, <4>1, <4>6, LaterIsOrder DEF Rewrites
    <3> QED
        BY <2>2, <2>4, <3>1, <3>3
  <2> QED
      BY <2>3, <2>4
<1>4. ASSUME CarriesRetry(old) PROVE CarriesRetry(new)
  <2>1. L \in Telling(old) /\ L \in DOMAIN old
      BY <1>4, CarriesLatest, LatestExists DEF Rewrites
  <2>2. old[L].at \in Int /\ old[r].at \in Int
      BY <2>1, RowsFinite DEF Rewrites
  <2>3. old[L].at > now - Window
    <3>1. CASE r \in Telling(old)
      <4>1. r = L \/ Later(old, L, r)
          BY <3>1, LatestExists DEF Rewrites
      <4>2. old[r].at =< old[L].at
          BY <2>1, <2>2, <4>1, LaterIsOrder DEF Rewrites
      <4> QED
          BY <2>2, <4>2, ConstantTypes
    <3>2. CASE r \notin Telling(old)
      <4>1. r \in Guarded(old) \ Telling(old)
          BY <3>2 DEF Guarded
      <4>2. old[r].at =< old[L].at + RunLimit
          BY <1>4, <4>1 DEF HandsOn, Latest
      <4> HIDE DEF L
      <4> QED
          BY <2>2, <4>2, ConstantTypes
    <3> QED
        BY <3>1, <3>2
  <2>4. L \in Telling(new) /\ new[L].pending = old[L].pending
                          /\ new[L].evidence = old[L].evidence
      BY <1>2, <2>1, <2>3
  <2>5. L = M
      BY <1>3, <2>4
  <2> QED
      BY <1>4, <2>4, <2>5, CarriesLatest
<1>5. ASSUME CarriesRetry(new), NEW i \in Guarded(new) \ Telling(new)
      PROVE  new[i].at =< new[M].at + RunLimit
  <2>1. Telling(old) # {} /\ L = M /\ M \in DOMAIN old /\ old[M].at > now - Window
      BY <1>3, <1>5, CarriesLatest
  <2>2. new[M].pending = old[M].pending /\ new[M].evidence = old[M].evidence
        /\ new[M].at = old[M].at
      BY <1>2, <2>1
  <2>3. CarriesRetry(old)
      BY <1>5, <2>1, <2>2, CarriesLatest
  <2>4. i \in DOMAIN new /\ i \in DOMAIN old /\ old[i].at > now - Window
      BY <1>5 DEF Guarded, Rewrites
  <2>5. i \in Guarded(old) \ Telling(old) /\ new[i].at = old[i].at
      BY <1>2, <1>5, <2>4 DEF Guarded
  <2>6. old[i].at =< old[L].at + RunLimit
      BY <2>3, <2>5 DEF HandsOn, Latest
  <2> QED
      BY <2>1, <2>2, <2>5, <2>6
<1> QED
    BY <1>4, <1>5 DEF HandsOn, Latest

----------------------------------------------------------------------------
(* The rows stay spaced *)

LEMMA ReserveSpaced ==
    ASSUME NEW new, NEW old, NEW r \in Runs, NEW now \in Int, Rewrites(new, old, r, now),
           Spaced(old), \A i \in DOMAIN old : old[i].at =< now,
           new[r].at = now,
           \/ new[r].codeChange
           \/ \A j \in DOMAIN new \ {r} :
                 new[j].outcome # "superseded" => new[j].at + RetryInterval =< now
    PROVE  Spaced(new)
<1>1. ASSUME NEW j \in DOMAIN new \ {r}
      PROVE  /\ new[j] = old[j] /\ j \in DOMAIN old /\ new[j].at \in Int
             /\ new[j].at =< now
             /\ \/ new[j].at + RetryInterval =< now
                \/ new[r].codeChange \/ new[j].outcome = "superseded"
    BY RowsFinite DEF Rewrites
<1>2. ASSUME NEW i \in Guarded(new), NEW j \in Guarded(new),
             i # j, new[j].at =< new[i].at
      PROVE  \/ new[i].at >= new[j].at + RetryInterval
             \/ new[i].codeChange \/ new[j].outcome = "superseded"
             \/ /\ new[i].at = new[j].at
                /\ new[j].codeChange \/ new[i].outcome = "superseded"
  <2>1. CASE i = r
      BY <1>1, <1>2, <2>1 DEF Guarded
  <2>2. CASE j = r
    <3>1. i \in DOMAIN new \ {r}
        BY <1>2, <2>2 DEF Guarded
    <3>2. new[i].at = now
        BY <1>1, <1>2, <2>2, <3>1
    <3> QED
        BY <1>1, <2>2, <3>1, <3>2, ConstantTypes
  <2>3. CASE i # r /\ j # r
    <3>1. i \in Guarded(old) /\ j \in Guarded(old) /\ new[i] = old[i] /\ new[j] = old[j]
        BY <1>1, <2>3 DEF Guarded
    <3> QED
        BY <1>2, <3>1 DEF Spaced
  <2> QED
      BY <2>1, <2>2, <2>3
<1> QED
    BY <1>2 DEF Spaced

LEMMA MarkSpaced ==
    ASSUME NEW new, NEW old, NEW r \in Runs, NEW now \in Int, Rewrites(new, old, r, now),
           Spaced(old), r \in DOMAIN old, old[r].outcome = "open",
           new[r].at = old[r].at, new[r].codeChange = old[r].codeChange
    PROVE  Spaced(new)
<1>1. ASSUME NEW i \in Guarded(new)
      PROVE  /\ i \in Guarded(old) /\ new[i].at = old[i].at
             /\ new[i].codeChange = old[i].codeChange
             /\ old[i].outcome = "superseded" => new[i].outcome = "superseded"
  <2>1. CASE i = r
      BY <2>1 DEF Guarded
  <2>2. CASE i # r
      BY <2>2 DEF Guarded, Rewrites
  <2> QED
      BY <2>1, <2>2
<1> QED
    BY <1>1 DEF Spaced

----------------------------------------------------------------------------
(* The limits hold *)

LEMMA CountsShrink ==
    ASSUME NEW rows, IsRows(rows), NEW part, IsRows(part), DOMAIN part \subseteq DOMAIN rows
    PROVE  /\ Guarded(part) \subseteq Guarded(rows)
           /\ Cardinality(Guarded(part)) =< Cardinality(Guarded(rows))
           /\ Cardinality(DOMAIN part) =< Cardinality(DOMAIN rows)
           /\ {Cardinality(Guarded(part)), Cardinality(Guarded(rows)),
               Cardinality(DOMAIN part), Cardinality(DOMAIN rows)} \subseteq Nat
           /\ Counted(rows) => Counted(part)
<1>1. Guarded(part) \subseteq Guarded(rows)
    BY DEF Guarded
<1>2. /\ IsFiniteSet(DOMAIN rows) /\ IsFiniteSet(DOMAIN part)
      /\ IsFiniteSet(Guarded(rows)) /\ IsFiniteSet(Guarded(part))
    BY RowsFinite, GuardedFinite
<1>3. /\ Cardinality(Guarded(part)) =< Cardinality(Guarded(rows))
      /\ Cardinality(DOMAIN part) =< Cardinality(DOMAIN rows)
    BY <1>1, <1>2, FS_Subset
<1>4. {Cardinality(Guarded(part)), Cardinality(Guarded(rows)),
       Cardinality(DOMAIN part), Cardinality(DOMAIN rows)} \subseteq Nat
    BY <1>2, FS_CardinalityType
<1>5. Counted(rows) => Counted(part)
    BY <1>3, <1>4, ConstantTypes DEF Counted
<1> QED
    BY <1>1, <1>3, <1>4, <1>5

LEMMA MarkCounted ==
    ASSUME NEW new, NEW old, NEW r \in DOMAIN old, NEW now, Rewrites(new, old, r, now),
           Counted(old)
    PROVE  Counted(new)
<1>1. DOMAIN new \subseteq DOMAIN old
    BY DEF Rewrites
<1> QED
    BY <1>1, CountsShrink DEF Rewrites

\* The gate answers "reserved" only below every limit.
LEMMA ReserveCounted ==
    ASSUME NEW rows, IsRows(rows), Counted(rows), NEW r \in Runs \ DOMAIN rows,
           NEW row, NEW now, NEW codeChange, NEW retry, NEW migrating,
           RequestMode(rows, now, codeChange, retry, migrating) = "reserved"
    PROVE  Counted(WithRow(rows, r, row))
<1> DEFINE new == WithRow(rows, r, row)
<1>1. DOMAIN new = DOMAIN rows \cup {r} /\ Guarded(new) = Guarded(rows) \cup {r}
    BY DEF WithRow, Guarded
<1>2. IsFiniteSet(DOMAIN rows) /\ IsFiniteSet(Guarded(rows)) /\ r \notin Guarded(rows)
    BY RowsFinite, GuardedFinite DEF Guarded
<1>3. /\ Cardinality(DOMAIN new) = Cardinality(DOMAIN rows) + 1
      /\ Cardinality(Guarded(new)) = Cardinality(Guarded(rows)) + 1
      /\ Cardinality(DOMAIN rows) \in Nat /\ Cardinality(Guarded(rows)) \in Nat
  <2> HIDE DEF new
  <2> QED
      BY <1>1, <1>2, FS_AddElement, FS_CardinalityType
<1>4. DOMAIN new \cap Legacy = DOMAIN rows \cap Legacy
    BY <1>1, ConstantTypes
<1>5. \A m \in Limits(rows) : ~Reached(m)
    BY DEF RequestMode, CapBlocks
<1>6. Cardinality(Guarded(rows)) < Cap
    BY GateLeavesRoom
<1>7. ASSUME DOMAIN rows \cap Legacy # {}
      PROVE  /\ Cardinality(DOMAIN rows) < OverlapCap
             /\ Cardinality(Guarded(rows)) < OverlapRuntimeCap
  <2>1. /\ <<DOMAIN rows, OverlapCap>> \in Limits(rows)
        /\ <<Guarded(rows), OverlapRuntimeCap>> \in Limits(rows)
      BY <1>7 DEF Limits
  <2>2. /\ ~Reached(<<DOMAIN rows, OverlapCap>>)
        /\ ~Reached(<<Guarded(rows), OverlapRuntimeCap>>)
      BY <1>5, <2>1
  <2> QED
      BY <1>3, <2>2, ConstantTypes DEF Reached
<1> HIDE DEF new
<1>8. Counted(new)
    BY <1>3, <1>4, <1>6, <1>7, ConstantTypes DEF Counted
<1> QED
    BY <1>8 DEF new

----------------------------------------------------------------------------
(* The steps of a run *)

LEMMA StaysKnown ==
    ASSUME NEW r, NEW y, NEW x, NEW l, NEW pushes, Known(r, y, l, pushes),
           AtWork(x) => AtWork(y) /\ x.began = y.began,
           Unmarked(x) => Unmarked(y), Fresh(x) => Fresh(y)
    PROVE  Known(r, x, l, pushes)
BY DEF Known, Own

\* A step that changes one run and sends at most a good push of it.
LEMMA OneRunAgrees ==
    ASSUME AnswerInv, NEW r \in Runs, NEW x, run' = [run EXCEPT ![r] = x],
           UNCHANGED <<clock, ledger>>,
           GoodRun(r, x), OnTime(x, clock), Known(r, x, ledger, wire),
           \A p \in wire' : p \in wire \/ /\ p.by = r /\ ~Fresh(x)
                                          /\ GoodPush(p) /\ Own(r, x, p.new)
    PROVE  AnswersAgree'
<1>1. /\ DOMAIN run = Runs
      /\ \A q \in Runs : run'[q] = IF q = r THEN x ELSE run[q]
    BY DEF AnswerInv, LedgerInv, TypeOK
<1>2. \A p \in wire' : GoodPush(p)
    BY DEF AnswerInv, AnswersAgree
<1>3. ASSUME NEW q \in Runs
      PROVE  /\ GoodRun(q, run'[q])
             /\ OnTime(run'[q], clock)
             /\ Known(q, run'[q], ledger, wire')
  <2>1. CASE q = r
      BY <1>1, <2>1 DEF Known
  <2>2. CASE q # r
      BY <1>1, <2>2 DEF AnswerInv, AnswersAgree, Known
  <2> QED
      BY <2>1, <2>2
<1> QED
    BY <1>2, <1>3 DEF AnswerInv, AnswersAgree

LEMMA FinishedAgrees ==
    ASSUME NEW r, NEW l, NEW pushes, NEW now
    PROVE  /\ GoodRun(r, Finished("ended")) /\ OnTime(Finished("ended"), now)
           /\ Known(r, Finished("ended"), l, pushes)
BY ConstantTypes DEF Finished, Unstarted, GoodRun, OnTime, Known, AtWork, Fresh

LEMMA SendAgrees ==
    ASSUME AnswerInv, NEW r \in Runs, NEW rows, Reads(r), SendPush(r, rows),
           UNCHANGED <<clock, ledger>>,
           run[r].stage \in {"reserving", "publishing", "superseding"},
           GoodPush([by |-> r, old |-> ledger,
                     new |-> [updated |-> run[r].now, rows |-> rows]]),
           rows[r].at = run[r].began,
           run[r].stage = "reserving" => rows[r].outcome = "open"
    PROVE  AnswersAgree'
<1> DEFINE p == [by |-> r, old |-> ledger,
                 new |-> [updated |-> run[r].now, rows |-> rows]]
           x == [run[r] EXCEPT !.command = "pushing", !.push = p,
                               !.resends = PushRetries]
<1>1. /\ IsRun(run[r]) /\ DOMAIN run = Runs
      /\ GoodRun(r, run[r]) /\ OnTime(run[r], clock) /\ Known(r, run[r], ledger, wire)
    BY DEF AnswerInv, LedgerInv, TypeOK, AnswersAgree
<1>2. run' = [run EXCEPT ![r] = x] /\ wire' = wire \cup {p}
    BY DEF SendPush
<1>3. /\ p.by = r /\ p.new.rows = rows
      /\ x.stage = run[r].stage /\ x.began = run[r].began /\ x.tries = run[r].tries
      /\ x.command = "pushing" /\ x.push = p /\ x.evidence = run[r].evidence
    BY <1>1 DEF IsRun
<1>4. run[r].command = "reading" /\ GoodPush(p)
    BY DEF Reads
<1> HIDE DEF p, x
<1>5. Own(r, x, p.new)
    BY <1>1, <1>3, <1>4 DEF Own, Unmarked, GoodRun
<1>6. GoodRun(r, x)
    BY <1>1, <1>3, <1>4, <1>5 DEF GoodRun, AtWork
<1>7. OnTime(x, clock) /\ Known(r, x, ledger, wire) /\ ~Fresh(x)
  <2>1. AtWork(x) => AtWork(run[r])
      BY <1>3 DEF AtWork
  <2>2. Unmarked(x) => Unmarked(run[r])
      BY <1>3 DEF Unmarked
  <2>3. ~Fresh(x)
      BY <1>3 DEF Fresh
  <2> QED
      BY <1>1, <1>3, <2>1, <2>2, <2>3, StaysKnown DEF OnTime
<1> QED
    BY <1>2, <1>3, <1>4, <1>5, <1>6, <1>7, OneRunAgrees

\* What a command that reads the ref knows of it.
LEMMA ReadingFacts ==
    ASSUME AnswerInv, NEW r \in Runs, Reads(r)
    PROVE  /\ IsRun(run[r]) /\ IsRows(ledger.rows)
           /\ run[r].now \in Int /\ clock \in Int
           /\ run[r].now =< clock
           /\ \A i \in DOMAIN ledger.rows : ledger.rows[i].at =< run[r].now
           /\ Spaced(ledger.rows) /\ HandsOn(ledger.rows) /\ Counted(ledger.rows)
           /\ GoodRun(r, run[r]) /\ OnTime(run[r], clock)
           /\ Known(r, run[r], ledger, wire)
<1>1. IsRun(run[r]) /\ IsLedger(ledger) /\ run[r].now \in 0..clock /\ clock \in Nat
    BY ConstantTypes DEF AnswerInv, LedgerInv, TypeOK, LegalProgress, LegalRun, HistoryAgrees
<1>2. /\ GoodLedger(ledger) /\ GoodRun(r, run[r]) /\ OnTime(run[r], clock)
      /\ Known(r, run[r], ledger, wire)
    BY DEF AnswerInv, AnswersAgree
<1>3. ledger.updated \in Int /\ IsRows(ledger.rows) /\ ledger.updated =< run[r].now
    BY <1>1 DEF IsLedger, Reads
<1>4. \A i \in DOMAIN ledger.rows : ledger.rows[i].at =< run[r].now
    BY <1>1, <1>2, <1>3, RowsFinite DEF GoodLedger
<1> QED
    BY <1>1, <1>2, <1>3, <1>4 DEF GoodLedger

LEMMA ReserveAgrees ==
    ASSUME AnswerInv, NEW r \in Runs, NEW codeChange \in BOOLEAN,
           NEW migrating \in BOOLEAN, Reserve(r, codeChange, migrating)
    PROVE  AnswersAgree'
<1> DEFINE retry == CarriesRetry(ledger.rows)
           row == [at |-> run[r].now, codeChange |-> codeChange,
                   outcome |-> "open", evidence |-> "none", pending |-> retry]
           rows == WithRow(Seen(r), r, row)
           p == [by |-> r, old |-> ledger,
                 new |-> [updated |-> run[r].now, rows |-> rows]]
<1>1. /\ Reads(r) /\ run[r].stage = "reserving" /\ UNCHANGED <<clock, ledger>>
      /\ DOMAIN run = Runs
    BY DEF Reserve, AnswerInv, LedgerInv, TypeOK
<1>2. CASE /\ RequestMode(Seen(r), run[r].now, codeChange, retry, migrating) = "reserved"
           /\ SendPush(r, rows)
  <2>1. row \in Row
      BY <1>1, ReadingFacts DEF Row, CarriesRetry
  <2>2. Rewrites(rows, ledger.rows, r, run[r].now) /\ rows[r] = row
    <3> HIDE DEF row
    <3> QED
        BY <1>1, <2>1, ReadingFacts, WithRowRewrites DEF Seen
  <2>3. /\ rows[r].at = run[r].now /\ rows[r].outcome = "open"
        /\ rows[r].pending = CarriesRetry(ledger.rows)
        /\ rows[r].codeChange = codeChange
      BY <2>2
  <2>4. r \notin DOMAIN ledger.rows /\ run[r].now = run[r].began
      BY <1>1, ReadingFacts DEF Known, Fresh, GoodRun, Reads
  <2>5. \/ codeChange
        \/ \A j \in DOMAIN rows \ {r} :
              rows[j].outcome # "superseded" => rows[j].at + RetryInterval =< run[r].now
    <3>1. ASSUME ~codeChange, NEW j \in DOMAIN rows \ {r},
                 rows[j].outcome # "superseded"
          PROVE  rows[j].at + RetryInterval =< run[r].now
      <4>1. IsRows(Seen(r)) /\ run[r].now \in Int
          BY <1>1, ReadingFacts, SeenIsRows DEF AnswerInv, LedgerInv
      <4>2. j \in DOMAIN Seen(r) /\ rows[j] = Seen(r)[j]
          BY <3>1 DEF WithRow
      <4>3. RequestMode(Seen(r), run[r].now, FALSE, retry, migrating) = "reserved"
          BY <1>2, <3>1
      <4> HIDE DEF rows, retry
      <4> QED
          BY <3>1, <4>1, <4>2, <4>3, ReservedSpaced
    <3> QED
        BY <3>1
  <2> HIDE DEF rows, row
  <2>6. Spaced(rows)
      BY <1>1, <2>2, <2>3, <2>5, ReadingFacts, ReserveSpaced
  <2>7. HandsOn(rows) /\ (CarriesRetry(ledger.rows) => CarriesRetry(rows))
      BY <1>1, <2>2, <2>3, <2>4, ReadingFacts, ReserveRetry
  <2>8. \A i \in DOMAIN rows : rows[i].at =< run[r].now
      BY <1>1, <2>2, <2>3, ReadingFacts DEF Rewrites
  <2>9. Counted(rows)
    <3>1. IsRows(Seen(r)) /\ Counted(Seen(r)) /\ r \in Runs \ DOMAIN Seen(r)
      <4>1. IsRows(Seen(r)) /\ DOMAIN Seen(r) \subseteq DOMAIN ledger.rows
          BY SeenIsRows DEF AnswerInv, LedgerInv, Seen, Active
      <4>2. Counted(ledger.rows)
          BY DEF AnswerInv, AnswersAgree, GoodLedger
      <4> QED
          BY <1>1, <2>4, <4>1, <4>2, ReadingFacts, CountsShrink
    <3>2. Counted(WithRow(Seen(r), r, row))
        BY <1>2, <3>1, ReserveCounted
    <3> QED
        BY <3>2 DEF rows
  <2>10. GoodPush(p)
      BY <2>2, <2>4, <2>6, <2>7, <2>8, <2>9
         DEF GoodPush, GoodLedger, KeepsRows, KeepsRetry, Rewrites
  <2> QED
      BY <1>1, <1>2, <2>3, <2>4, <2>10, SendAgrees
<1>3. CASE run' = [run EXCEPT ![r] = Finished("ended")] /\ UNCHANGED wire
    BY <1>1, <1>3, FinishedAgrees, OneRunAgrees
<1> QED
    BY <1>2, <1>3 DEF Reserve, RecoveryRows

\* A mark command: of the rows it reads it rewrites its own, which is open.
LEMMA MarkFacts ==
    ASSUME AnswerInv, NEW r \in Runs, Reads(r), r \in DOMAIN Seen(r),
           run[r].stage \in {"publishing", "superseding"},
           NEW row \in Row, row.at = Seen(r)[r].at
    PROVE  LET rows == WithRow(Seen(r), r, row) IN
           /\ Rewrites(rows, ledger.rows, r, run[r].now) /\ rows[r] = row
           /\ r \in DOMAIN ledger.rows /\ Seen(r)[r] = ledger.rows[r]
           /\ ledger.rows[r].at > run[r].now - Window
           /\ rows[r].at = run[r].began
           /\ run[r].now =< ledger.rows[r].at + RunLimit
           /\ \A i \in DOMAIN rows : rows[i].at =< run[r].now
           /\ Counted(rows)
<1> DEFINE rows == WithRow(Seen(r), r, row)
<1>1. Rewrites(rows, ledger.rows, r, run[r].now) /\ rows[r] = row
    BY ReadingFacts, WithRowRewrites DEF Seen
<1>2. /\ r \in DOMAIN ledger.rows /\ Seen(r)[r] = ledger.rows[r]
      /\ ledger.rows[r].at > run[r].now - Window
    BY DEF Seen, Active
<1>3. ledger.rows[r].at = run[r].began /\ clock =< run[r].began + RunLimit
    BY <1>2, ReadingFacts DEF Known, Own, OnTime, AtWork
<1>4. run[r].now =< ledger.rows[r].at + RunLimit
    BY <1>2, <1>3, ReadingFacts, ConstantTypes, RowsFinite
<1>5. \A i \in DOMAIN rows : rows[i].at =< run[r].now
  <2> HIDE DEF rows
  <2> QED
      BY <1>1, <1>2, ReadingFacts DEF Rewrites
<1> HIDE DEF rows
<1>6. rows[r].at = run[r].began
    BY <1>1, <1>2, <1>3
<1>7. Counted(rows)
    BY <1>1, <1>2, ReadingFacts, MarkCounted
<1> QED
    BY <1>1, <1>2, <1>4, <1>5, <1>6, <1>7 DEF rows

LEMMA MarkSuccessAgrees ==
    ASSUME AnswerInv, NEW r \in Runs, MarkSuccess(r)
    PROVE  AnswersAgree'
<1> DEFINE row == [Seen(r)[r] EXCEPT !.outcome = "published",
                                     !.evidence = run[r].evidence,
                                     !.pending = FALSE]
           rows == WithRow(Seen(r), r, row)
           p == [by |-> r, old |-> ledger,
                 new |-> [updated |-> run[r].now, rows |-> rows]]
<1>1. /\ Reads(r) /\ run[r].stage = "publishing" /\ UNCHANGED <<clock, ledger>>
      /\ r \in DOMAIN Seen(r)
    BY DEF MarkSuccess
<1>2. CASE Seen(r)[r].outcome = "open" /\ SendPush(r, rows)
  <2>1. /\ Seen(r)[r] \in Row
        /\ run[r].evidence \in {"none", "clean", "retry"}
        /\ Collection => run[r].evidence # "none"
      BY <1>1, ReadingFacts, SeenIsRows DEF AnswerInv, LedgerInv, IsRun, GoodRun
  <2>2. /\ row \in Row /\ row.at = Seen(r)[r].at
        /\ row.outcome = "published" /\ row.evidence = run[r].evidence
        /\ row.codeChange = Seen(r)[r].codeChange
      BY <2>1 DEF Row
  <2> HIDE DEF row
  <2>3. /\ Rewrites(rows, ledger.rows, r, run[r].now) /\ rows[r] = row
        /\ r \in DOMAIN ledger.rows /\ Seen(r)[r] = ledger.rows[r]
        /\ rows[r].at = run[r].began
        /\ run[r].now =< ledger.rows[r].at + RunLimit
        /\ \A i \in DOMAIN rows : rows[i].at =< run[r].now
        /\ Counted(rows)
      BY <1>1, <2>2, MarkFacts
  <2> HIDE DEF rows
  <2>4. Spaced(rows)
      BY <1>1, <1>2, <2>2, <2>3, ReadingFacts, MarkSpaced
  <2>5. /\ HandsOn(rows)
        /\ rows[r].evidence = "retry" /\ CarriesRetry(ledger.rows) => CarriesRetry(rows)
      BY <1>1, <1>2, <2>2, <2>3, ReadingFacts, PublishRetry
  <2>6. KeepsRetry(p)
    <3> SUFFICES ASSUME CarriesRetry(ledger.rows), ~CarriesRetry(rows)
                 PROVE  /\ r \in Guarded(ledger.rows) \cap Guarded(rows)
                        /\ ledger.rows[r].outcome = "open"
                        /\ rows[r].outcome = "published"
                        /\ rows[r].evidence = "clean"
        BY DEF KeepsRetry
    <3>1. r \in Guarded(ledger.rows) \cap Guarded(rows)
        BY <2>3 DEF Guarded, Rewrites
    <3>2. Collection
        BY DEF CarriesRetry
    <3> QED
        BY <1>2, <2>1, <2>2, <2>3, <2>5, <3>1, <3>2
  <2>7. GoodPush(p)
      BY <1>2, <2>3, <2>4, <2>5, <2>6 DEF GoodPush, GoodLedger, KeepsRows, Rewrites
  <2> QED
      BY <1>1, <1>2, <2>3, <2>7, SendAgrees
<1>3. CASE run' = [run EXCEPT ![r] = Finished("ended")] /\ UNCHANGED wire
    BY <1>1, <1>3, FinishedAgrees, OneRunAgrees
<1> QED
    BY <1>2, <1>3 DEF MarkSuccess

\* The first call never finds a mark: only a push of the run could have put
\* it there, and it has sent none.
LEMMA MarkSupersededAgrees ==
    ASSUME AnswerInv, NEW r \in Runs, MarkSuperseded(r)
    PROVE  AnswersAgree'
<1> DEFINE row == [Seen(r)[r] EXCEPT !.outcome = "superseded"]
           rows == WithRow(Seen(r), r, row)
           p == [by |-> r, old |-> ledger,
                 new |-> [updated |-> run[r].now, rows |-> rows]]
           x == [run[r] EXCEPT !.stage = "dispatching", !.command = "idle"]
<1>1. /\ Reads(r) /\ run[r].stage = "superseding" /\ UNCHANGED <<clock, ledger>>
      /\ r \in DOMAIN Seen(r) /\ DOMAIN run = Runs
    BY DEF MarkSuperseded, AnswerInv, LedgerInv, TypeOK
<1>2. CASE Seen(r)[r].outcome = "open" /\ SendPush(r, rows)
  <2>1. Seen(r)[r] \in Row
      BY <1>1, SeenIsRows DEF AnswerInv, LedgerInv
  <2>2. /\ row \in Row /\ row.at = Seen(r)[r].at /\ row.outcome = "superseded"
        /\ row.evidence = Seen(r)[r].evidence /\ row.pending = Seen(r)[r].pending
        /\ row.codeChange = Seen(r)[r].codeChange
      BY <2>1 DEF Row
  <2> HIDE DEF row
  <2>3. /\ Rewrites(rows, ledger.rows, r, run[r].now) /\ rows[r] = row
        /\ r \in DOMAIN ledger.rows /\ Seen(r)[r] = ledger.rows[r]
        /\ ledger.rows[r].at > run[r].now - Window
        /\ rows[r].at = run[r].began
        /\ run[r].now =< ledger.rows[r].at + RunLimit
        /\ \A i \in DOMAIN rows : rows[i].at =< run[r].now
        /\ Counted(rows)
      BY <1>1, <2>2, MarkFacts
  <2> HIDE DEF rows
  <2>4. Spaced(rows)
      BY <1>1, <1>2, <2>2, <2>3, ReadingFacts, MarkSpaced
  <2>5. HandsOn(rows) /\ (CarriesRetry(ledger.rows) => CarriesRetry(rows))
      BY <1>1, <1>2, <2>2, <2>3, ReadingFacts, SupersedeRetry
  <2>6. GoodPush(p)
      BY <1>2, <2>3, <2>4, <2>5
         DEF GoodPush, GoodLedger, KeepsRows, KeepsRetry, Rewrites
  <2> QED
      BY <1>1, <1>2, <2>3, <2>6, SendAgrees
<1>3. CASE /\ Seen(r)[r].outcome = "superseded"
           /\ run' = [run EXCEPT ![r] = IF FirstMark(r) THEN Finished("silenced") ELSE x]
           /\ UNCHANGED wire
  <2>1. r \in DOMAIN ledger.rows /\ ledger.rows[r].outcome = "superseded"
      BY <1>1, <1>3 DEF Seen, Active
  <2>2. ~FirstMark(r)
    <3>1. Own(r, run[r], ledger)
        BY <1>1, ReadingFacts DEF Known, AtWork
    <3>2. FirstMark(r) => Unmarked(run[r])
        BY <1>1 DEF FirstMark, Unmarked, Reads
    <3> QED
        BY <2>1, <3>1, <3>2 DEF Own
  <2>3. /\ x.stage = "dispatching" /\ x.command = "idle" /\ x.began = run[r].began
        /\ x.tries = run[r].tries
      BY <1>1, ReadingFacts DEF IsRun
  <2>4. run' = [run EXCEPT ![r] = x]
      BY <1>3, <2>2
  <2> HIDE DEF x
  <2>5. GoodRun(r, x)
      BY <1>1, <2>3, ReadingFacts DEF GoodRun
  <2>6. OnTime(x, clock) /\ Known(r, x, ledger, wire)
      BY <1>1, <2>3, ReadingFacts, StaysKnown DEF OnTime, AtWork, Unmarked, Fresh
  <2> QED
      BY <1>1, <1>3, <2>4, <2>5, <2>6, OneRunAgrees
<1> QED
    BY <1>1, <1>2, <1>3 DEF MarkSuperseded

LEMMA ConfirmAgrees ==
    ASSUME AnswerInv, NEW r \in Runs, Confirm(r)
    PROVE  AnswersAgree'
<1> DEFINE going(stage) == [run[r] EXCEPT !.stage = stage, !.command = "idle",
                                          !.push = NoPush, !.resends = 0]
           x == CASE run[r].stage = "reserving" -> going("collecting")
                  [] run[r].stage = "publishing" -> Finished("ended")
                  [] OTHER -> going("dispatching")
<1>1. /\ IsRun(run[r]) /\ DOMAIN run = Runs /\ run[r].command = "pushing"
      /\ GoodRun(r, run[r]) /\ OnTime(run[r], clock) /\ Known(r, run[r], ledger, wire)
      /\ UNCHANGED <<clock, ledger, wire>>
    BY DEF AnswerInv, LedgerInv, TypeOK, AnswersAgree, Confirm
<1>2. run' = [run EXCEPT ![r] = x]
    BY <1>1 DEF Confirm
<1>3. ASSUME NEW stage \in {"collecting", "dispatching"},
             stage = "collecting" => run[r].stage = "reserving", AtWork(run[r])
      PROVE  /\ GoodRun(r, going(stage)) /\ OnTime(going(stage), clock)
             /\ Known(r, going(stage), ledger, wire)
  <2> DEFINE y == going(stage)
  <2>1. /\ y.stage = stage /\ y.command = "idle" /\ y.began = run[r].began
        /\ y.tries = run[r].tries
      BY <1>1 DEF IsRun
  <2> HIDE DEF y
  <2>2. GoodRun(r, y)
      BY <1>1, <2>1 DEF GoodRun
  <2>3. OnTime(y, clock) /\ Known(r, y, ledger, wire)
      BY <1>1, <1>3, <2>1, StaysKnown DEF OnTime, AtWork, Unmarked, Fresh
  <2> QED
      BY <2>2, <2>3 DEF y
<1>4. ASSUME ~AtWork(run[r])
      PROVE  /\ GoodRun(r, going("dispatching")) /\ OnTime(going("dispatching"), clock)
             /\ Known(r, going("dispatching"), ledger, wire)
  <2>1. FALSE
      BY <1>1, <1>4 DEF GoodRun
  <2> QED
      BY <2>1
<1>5. GoodRun(r, x) /\ OnTime(x, clock) /\ Known(r, x, ledger, wire)
  <2> HIDE DEF going
  <2>1. CASE run[r].stage = "reserving"
      BY <1>3, <2>1 DEF AtWork
  <2>2. CASE run[r].stage = "publishing"
      BY <2>2, FinishedAgrees
  <2>3. CASE run[r].stage \notin {"reserving", "publishing"}
      BY <1>3, <1>4, <2>3
  <2> QED
      BY <2>1, <2>2, <2>3
<1> HIDE DEF x
<1> QED
    BY <1>1, <1>2, <1>5, OneRunAgrees

LEMMA SmallStepAgrees ==
    ASSUME AnswerInv, NEW r \in Runs,
           \/ Begin(r) \/ Supersede(r) \/ StartMark(r) \/ Resend(r)
           \/ CommandFails(r) \/ Dispatch(r) \/ Abort(r)
           \/ \E e \in (IF Collection THEN {"clean", "retry"} ELSE {"none"}) : Publish(r, e)
    PROVE  AnswersAgree'
<1>1. /\ IsRun(run[r]) /\ DOMAIN run = Runs /\ clock \in Int
      /\ GoodRun(r, run[r]) /\ OnTime(run[r], clock) /\ Known(r, run[r], ledger, wire)
    BY DEF AnswerInv, LedgerInv, TypeOK, AnswersAgree
<1>2. CASE Begin(r)
  <2> DEFINE x == [Unstarted EXCEPT !.stage = "reserving", !.command = "reading",
                                    !.began = clock, !.now = clock]
  <2>1. run' = [run EXCEPT ![r] = x] /\ UNCHANGED <<clock, ledger, wire>>
        /\ run[r].stage = "unstarted"
      BY <1>2 DEF Begin
  <2>2. GoodRun(r, x) /\ OnTime(x, clock)
      BY <1>1, ConstantTypes DEF GoodRun, AtWork, OnTime, Unstarted
  <2>3. Known(r, x, ledger, wire)
      BY <1>1, <2>1 DEF Known, Fresh, Own
  <2> HIDE DEF x
  <2> QED
      BY <2>1, <2>2, <2>3, OneRunAgrees
<1>3. CASE Supersede(r)
  <2> DEFINE x == [run[r] EXCEPT !.stage = "superseding", !.tries = MarkTries]
  <2>1. run' = [run EXCEPT ![r] = x] /\ UNCHANGED <<clock, ledger, wire>>
        /\ run[r].stage = "collecting"
      BY <1>3 DEF Supersede
  <2>2. /\ x.stage = "superseding" /\ x.command = "idle" /\ x.began = run[r].began
        /\ x.tries = MarkTries
      BY <1>1, <2>1 DEF IsRun, GoodRun
  <2> HIDE DEF x
  <2>3. GoodRun(r, x)
      BY <2>2, ConstantTypes DEF GoodRun
  <2>4. OnTime(x, clock) /\ Known(r, x, ledger, wire)
      BY <1>1, <2>1, <2>2, StaysKnown DEF OnTime, AtWork, Unmarked, Fresh
  <2> QED
      BY <2>1, <2>3, <2>4, OneRunAgrees
<1>4. CASE StartMark(r)
  <2> DEFINE x == [run[r] EXCEPT !.command = "reading", !.now = clock,
                                 !.tries = @ - 1]
  <2>1. run' = [run EXCEPT ![r] = x] /\ UNCHANGED <<clock, ledger, wire>>
        /\ run[r].stage \in {"publishing", "superseding"}
      BY <1>4 DEF StartMark
  <2>2. /\ x.stage = run[r].stage /\ x.command = "reading" /\ x.began = run[r].began
        /\ x.tries = run[r].tries - 1 /\ x.evidence = run[r].evidence
        /\ run[r].tries \in Nat /\ run[r].tries =< MarkTries
      BY <1>1 DEF IsRun, GoodRun
  <2> HIDE DEF x
  <2>3. GoodRun(r, x)
      BY <1>1, <2>1, <2>2, ConstantTypes DEF GoodRun, AtWork
  <2>4. Unmarked(x) => Unmarked(run[r])
      BY <2>1, <2>2, ConstantTypes DEF Unmarked
  <2>5. OnTime(x, clock) /\ Known(r, x, ledger, wire)
      BY <1>1, <2>1, <2>2, <2>4, StaysKnown DEF OnTime, AtWork, Fresh
  <2> QED
      BY <2>1, <2>3, <2>5, OneRunAgrees
<1>5. CASE Resend(r)
  <2> DEFINE x == [run[r] EXCEPT !.resends = @ - 1]
  <2>1. run' = [run EXCEPT ![r] = x] /\ UNCHANGED <<clock, ledger>>
        /\ run[r].command = "pushing"
        /\ \A p \in wire' : p \in wire \/ p = run[r].push
      BY <1>5 DEF Resend
  <2>2. /\ x.stage = run[r].stage /\ x.command = "pushing" /\ x.began = run[r].began
        /\ x.tries = run[r].tries /\ x.evidence = run[r].evidence
        /\ x.push = run[r].push
      BY <1>1, <2>1 DEF IsRun
  <2>3. run[r].push.by = r
      BY <2>1 DEF AnswerInv, LedgerInv, LegalProgress, LegalRun
  <2> HIDE DEF x
  <2>4. Unmarked(x) <=> Unmarked(run[r])
      BY <2>1, <2>2 DEF Unmarked
  <2>5. GoodRun(r, x) /\ GoodPush(x.push) /\ Own(r, x, x.push.new)
      BY <1>1, <2>1, <2>2, <2>4 DEF GoodRun, AtWork, Own
  <2>6. OnTime(x, clock) /\ Known(r, x, ledger, wire) /\ ~Fresh(x)
    <3>1. ~Fresh(x) \/ x.stage = "unstarted"
        BY <2>2 DEF Fresh
    <3>2. run[r].stage # "unstarted"
        BY <1>1, <2>1 DEF GoodRun, AtWork
    <3> QED
        BY <1>1, <2>2, <2>4, <3>1, <3>2, StaysKnown DEF OnTime, AtWork
  <2> QED
      BY <2>1, <2>2, <2>3, <2>5, <2>6, OneRunAgrees
<1>6. CASE CommandFails(r)
  <2> DEFINE idle == [run[r] EXCEPT !.command = "idle", !.push = NoPush,
                                    !.resends = 0]
             x == IF run[r].tries > 0 THEN idle ELSE Finished("ended")
  <2>1. run' = [run EXCEPT ![r] = x] /\ UNCHANGED <<clock, ledger, wire>>
      BY <1>6 DEF CommandFails
  <2>2. /\ idle.stage = run[r].stage /\ idle.command = "idle"
        /\ idle.began = run[r].began /\ idle.tries = run[r].tries
        /\ idle.evidence = run[r].evidence
      BY <1>1 DEF IsRun
  <2> HIDE DEF idle
  <2>3. GoodRun(r, idle)
      BY <1>1, <2>2 DEF GoodRun
  <2>4. OnTime(idle, clock) /\ Known(r, idle, ledger, wire)
      BY <1>1, <2>2, StaysKnown DEF OnTime, AtWork, Unmarked, Fresh
  <2>5. GoodRun(r, x) /\ OnTime(x, clock) /\ Known(r, x, ledger, wire)
      BY <2>3, <2>4, FinishedAgrees
  <2> HIDE DEF x
  <2> QED
      BY <2>1, <2>5, OneRunAgrees
<1>7. CASE Dispatch(r) \/ Abort(r)
    BY <1>7, FinishedAgrees, OneRunAgrees DEF Dispatch, Abort
<1>8. ASSUME NEW e \in (IF Collection THEN {"clean", "retry"} ELSE {"none"}),
             Publish(r, e)
      PROVE  AnswersAgree'
  <2> DEFINE x == [run[r] EXCEPT !.stage = "publishing", !.tries = MarkTries,
                                 !.evidence = e]
  <2>1. run' = [run EXCEPT ![r] = x] /\ UNCHANGED <<clock, ledger, wire>>
        /\ run[r].stage = "collecting"
      BY <1>8 DEF Publish
  <2>2. /\ x.stage = "publishing" /\ x.command = "idle" /\ x.began = run[r].began
        /\ x.tries = MarkTries /\ x.evidence = e
      BY <1>1, <2>1 DEF IsRun, GoodRun
  <2>3. Collection => e # "none"
      OBVIOUS
  <2> HIDE DEF x
  <2>4. GoodRun(r, x)
      BY <2>2, <2>3, ConstantTypes DEF GoodRun
  <2>5. OnTime(x, clock) /\ Known(r, x, ledger, wire)
      BY <1>1, <2>1, <2>2, StaysKnown DEF OnTime, AtWork, Unmarked, Fresh
  <2> QED
      BY <2>1, <2>4, <2>5, OneRunAgrees
<1> QED
    BY <1>2, <1>3, <1>4, <1>5, <1>6, <1>7, <1>8

\* The push that applies leaves every other run's row as it was.
LEMMA ApplyAgrees ==
    ASSUME AnswerInv, NEW p \in wire, Apply(p)
    PROVE  AnswersAgree'
<1>1. /\ p.old = ledger /\ ledger' = p.new /\ wire' \subseteq wire
      /\ UNCHANGED <<clock, run>>
    BY DEF Apply, LeaseHolds
<1>2. GoodPush(p)
    BY DEF AnswerInv, AnswersAgree
<1>3. ASSUME NEW q \in Runs
      PROVE  Known(q, run[q], p.new, wire')
  <2>1. Known(q, run[q], ledger, wire)
      BY DEF AnswerInv, AnswersAgree
  <2>2. CASE p.by = q
      BY <1>1, <2>1, <2>2 DEF Known
  <2>3. CASE p.by # q
    <3>1. q \in DOMAIN p.new.rows => q \in DOMAIN ledger.rows
                                     /\ p.new.rows[q] = ledger.rows[q]
        BY <1>1, <1>2, <2>3 DEF GoodPush, KeepsRows
    <3> QED
        BY <1>1, <2>1, <3>1 DEF Known, Own
  <2> QED
      BY <2>2, <2>3
<1>4. GoodLedger(p.new)
    BY <1>2 DEF GoodPush
<1> QED
    BY <1>1, <1>3, <1>4 DEF AnswerInv, AnswersAgree

LEMMA InitAgrees == Init => AnswersAgree
<1> SUFFICES ASSUME Init PROVE AnswersAgree
    OBVIOUS
<1>1. PICK ids \in SUBSET Legacy :
        /\ Cardinality(ids) =< OverlapCap
        /\ ledger \in
              [updated : {0},
               rows : [ids -> [at : SeedTimes, codeChange : {FALSE},
                               outcome : {"open", "published"},
                               evidence : {"none"}, pending : {FALSE}]]]
    BY DEF Init
<1>2. /\ DOMAIN ledger.rows = ids /\ ledger.updated = 0
      /\ \A i \in ids : /\ ledger.rows[i].at \in SeedTimes
                        /\ ledger.rows[i].pending = FALSE
                        /\ ledger.rows[i].evidence = "none"
    BY <1>1
<1>3. Guarded(ledger.rows) = {}
    BY <1>2, ConstantTypes DEF Guarded
<1>4. GoodLedger(ledger)
  <2>1. \A t \in SeedTimes : t =< 0
      BY ConstantTypes
  <2>2. \A i \in DOMAIN ledger.rows : ledger.rows[i].at =< ledger.updated
      BY <1>2, <2>1
  <2>3. Counted(ledger.rows)
    <3>1. Cardinality(Guarded(ledger.rows)) = 0
        BY <1>3, FS_EmptySet
    <3>2. Cardinality(DOMAIN ledger.rows) =< OverlapCap
        BY <1>1, <1>2
    <3> QED
        BY <3>1, <3>2, ConstantTypes DEF Counted
  <2> QED
      BY <1>3, <2>2, <2>3 DEF GoodLedger, Spaced, HandsOn
<1>5. ASSUME NEW r \in Runs
      PROVE  /\ GoodRun(r, run[r]) /\ OnTime(run[r], clock)
             /\ Known(r, run[r], ledger, wire)
  <2>1. run[r] = Unstarted /\ wire = {}
      BY DEF Init
  <2>2. r \notin DOMAIN ledger.rows
      BY <1>2, ConstantTypes
  <2> QED
      BY <2>1, <2>2, ConstantTypes DEF Unstarted, GoodRun, OnTime, Known, AtWork
<1> QED
    BY <1>4, <1>5 DEF Init, AnswersAgree

LEMMA NextAgrees == AnswerInv /\ [Next]_vars => AnswersAgree'
<1> SUFFICES ASSUME AnswerInv, [Next]_vars PROVE AnswersAgree'
    OBVIOUS
<1>1. CASE Tick
  <2>1. UNCHANGED <<ledger, wire, run>> /\ clock' = clock + 1 /\ clock \in Int
      BY <1>1 DEF Tick, AnswerInv, LedgerInv, TypeOK
  <2>2. \A r \in Runs : OnTime(run[r], clock')
    <3> TAKE r \in Runs
    <3>1. AtWork(run[r]) => clock - run[r].began < RunLimit
        BY <1>1 DEF Tick, AtWork, Running
    <3>2. run[r].began \in Int
        BY DEF AnswerInv, LedgerInv, TypeOK, IsRun
    <3> QED
        BY <2>1, <3>1, <3>2, ConstantTypes DEF OnTime
  <2> QED
      BY <2>1, <2>2 DEF AnswerInv, AnswersAgree
<1>2. ASSUME NEW r \in Runs, RunStep(r)
      PROVE  AnswersAgree'
    BY <1>2, ReserveAgrees, MarkSuccessAgrees, MarkSupersededAgrees,
       ConfirmAgrees, SmallStepAgrees DEF RunStep
<1>3. ASSUME NEW p \in wire, Apply(p) \/ Lose(p)
      PROVE  AnswersAgree'
  <2>1. CASE Lose(p)
      BY <2>1 DEF Lose, AnswerInv, AnswersAgree, Known
  <2> QED
      BY <1>3, <2>1, ApplyAgrees
<1>4. CASE UNCHANGED vars
    BY <1>4 DEF vars, AnswerInv, AnswersAgree
<1> QED
    BY <1>1, <1>2, <1>3, <1>4 DEF Next

\* Every push rewrites the open row of its run at most, keeps the ledger
\* spaced and hands the retry on, and every run finds on the ref only what it
\* wrote there itself, in every reachable state.
THEOREM AnswersInvariant == Spec => []AnswerInv
<1>1. Init => AnswersAgree
    BY InitAgrees
<1>2. AnswerInv /\ [Next]_vars => AnswersAgree'
    BY NextAgrees
<1> QED
    BY <1>1, <1>2, LedgerInvariant, PTL DEF Spec, AnswerInv

\* No run concludes that somebody else dispatched the replacement for its
\* superseded candidate, whatever answers are lost (mark_superseded).
THEOREM NothingIsSilenced == Spec => []NeverSilenced
<1>1. AnswerInv => NeverSilenced
    BY DEF AnswerInv, AnswersAgree, GoodRun, NeverSilenced
<1> QED
    BY <1>1, AnswersInvariant, PTL

\* Any two reservations on the ledger keep the first retry backoff, unless a
\* code change or a supersession excuses them (_request_mode).
THEOREM ReservationsAreSpaced == Spec => []RetrySpacing
<1>1. AnswerInv => RetrySpacing
    BY DEF AnswerInv, AnswersAgree, GoodLedger, Spaced, RetrySpacing
<1> QED
    BY <1>1, AnswersInvariant, PTL

\* A ledger changes by a good push alone.
LEMMA LedgerChanges ==
    ASSUME AnswerInv, [Next]_vars
    PROVE  \/ ledger' = ledger
           \/ \E p \in wire : GoodPush(p) /\ IsPush(p) /\ p.old = ledger /\ ledger' = p.new
<1>1. ASSUME NEW p \in wire, Apply(p)
      PROVE  GoodPush(p) /\ IsPush(p) /\ p.old = ledger /\ ledger' = p.new
    BY <1>1 DEF Apply, LeaseHolds, AnswerInv, AnswersAgree, LedgerInv, TypeOK
<1>2. ASSUME NEW r \in Runs, RunStep(r)
      PROVE  ledger' = ledger
    BY <1>2 DEF RunStep, Begin, Reserve, Publish, Supersede, StartMark,
                MarkSuccess, MarkSuperseded, Resend, Confirm, CommandFails,
                Dispatch, Abort
<1> QED
    BY <1>1, <1>2 DEF Next, Tick, Lose, vars

\* How an attempt ended is written once: no later or delayed push rewrites it.
THEOREM OutcomesAreFinal == Spec => OutcomeFinal
<1>1. AnswerInv /\ [Next]_vars =>
        [\A r \in Guarded(ledger.rows) \cap Guarded(ledger'.rows) :
            ledger.rows[r].outcome # "open" =>
                /\ ledger'.rows[r].outcome = ledger.rows[r].outcome
                /\ ledger'.rows[r].evidence = ledger.rows[r].evidence]_vars
  <2> SUFFICES ASSUME AnswerInv, [Next]_vars,
                      NEW r \in Guarded(ledger.rows) \cap Guarded(ledger'.rows),
                      ledger.rows[r].outcome # "open"
               PROVE  /\ ledger'.rows[r].outcome = ledger.rows[r].outcome
                      /\ ledger'.rows[r].evidence = ledger.rows[r].evidence
      OBVIOUS
  <2>1. CASE ledger' = ledger
      BY <2>1
  <2>2. ASSUME NEW p \in wire, GoodPush(p), p.old = ledger, ledger' = p.new
        PROVE  ledger'.rows[r] = ledger.rows[r]
      BY <2>2 DEF GoodPush, KeepsRows, Guarded
  <2> QED
      BY <2>1, <2>2, LedgerChanges
<1> QED
    BY <1>1, AnswersInvariant, PTL DEF Spec, OutcomeFinal

\* Only the record of a clean publication ends the retry an incomplete one
\* asked for (_collection_context).
THEOREM RetryIsRemembered == Spec => RetryIntentSurvives
<1>1. AnswerInv /\ [Next]_vars =>
        [CarriesRetry(ledger.rows) /\ ~CarriesRetry(ledger'.rows) =>
            \E r \in Guarded(ledger.rows) \cap Guarded(ledger'.rows) :
                /\ ledger.rows[r].outcome = "open"
                /\ ledger'.rows[r].outcome = "published"
                /\ ledger'.rows[r].evidence = "clean"]_vars
  <2> SUFFICES ASSUME AnswerInv, [Next]_vars,
                      CarriesRetry(ledger.rows), ~CarriesRetry(ledger'.rows)
               PROVE  \E r \in Guarded(ledger.rows) \cap Guarded(ledger'.rows) :
                          /\ ledger.rows[r].outcome = "open"
                          /\ ledger'.rows[r].outcome = "published"
                          /\ ledger'.rows[r].evidence = "clean"
      OBVIOUS
  <2>1. ledger' # ledger
      OBVIOUS
  <2>2. PICK p \in wire : GoodPush(p) /\ p.old = ledger /\ ledger' = p.new
      BY <2>1, LedgerChanges
  <2> QED
      BY <2>2 DEF GoodPush, KeepsRetry
<1> QED
    BY <1>1, AnswersInvariant, PTL DEF Spec, RetryIntentSurvives

----------------------------------------------------------------------------
(* The gate is honest *)

LEMMA OldestExists ==
    ASSUME NEW rows, IsRows(rows), NEW ids, ids \subseteq DOMAIN rows, ids # {}
    PROVE  /\ \E i \in ids : OldestAt(rows, ids) = rows[i].at
           /\ \A j \in ids : OldestAt(rows, ids) =< rows[j].at
<1> DEFINE times == {rows[i].at : i \in ids}
           f == [i \in ids |-> rows[i].at]
<1>1. IsFiniteSet(ids) /\ \A i \in ids : rows[i].at \in Int
    BY RowsFinite, FS_Subset
<1>2. f \in Surjection(ids, times)
    BY Fun_IsSurj
<1>3. times \subseteq Int /\ times # {}
    BY <1>1
<1>4. IsFiniteSet(times)
  <2> HIDE DEF times, f
  <2> QED
      BY <1>1, <1>2, FS_Surjection
<1>5. PICK t \in times : \A u \in times : t =< u
  <2> HIDE DEF times
  <2> QED
      BY <1>3, <1>4, LeastExists
<1>6. \E i \in ids : \A j \in ids : rows[i].at =< rows[j].at
    BY <1>5
<1> HIDE DEF times
<1> QED
    BY <1>6 DEF OldestAt

LEMMA ActiveRows ==
    ASSUME NEW rows, IsRows(rows), NEW now \in Int
    PROVE  /\ IsRows(Active(rows, now))
           /\ DOMAIN Active(rows, now) = {i \in DOMAIN rows : rows[i].at > now - Window}
           /\ \A i \in DOMAIN Active(rows, now) : Active(rows, now)[i] = rows[i]
BY ActiveIsRows DEF Active

\* The row that gates is the last to leave the window, and losing older rows
\* never lengthens the streak.
LEMMA CadenceLetsGo ==
    ASSUME NEW rows, IsRows(rows), Gating(rows) # {}, NEW retry, NEW migrating,
           NEW codeChange, NEW opens, opens = CadenceOpens(rows, retry, migrating)
    PROVE  ~CadenceGated(Active(rows, opens), opens, codeChange, retry, migrating)
<1> DEFINE rest == Active(rows, opens)
           n == Newest(rows, Gating(rows))
           m == Newest(rest, Gating(rest))
<1>1. SUFFICES ASSUME Gating(rest) # {}
               PROVE  ~ (opens < CadenceOpens(rest, retry, migrating))
    BY DEF CadenceGated
<1>2. /\ Gating(rows) \subseteq DOMAIN rows /\ n \in Gating(rows)
      /\ \A i \in Gating(rows) \ {n} : Later(rows, n, i)
  <2>1. Gating(rows) \subseteq DOMAIN rows
      BY DEF Gating
  <2> QED
      BY <2>1, NewestExists
<1>3. rows[n].at \in Int /\ opens \in Int
  <2>1. rows[n].at \in Int
      BY <1>2, RowsFinite
  <2> QED
      BY <2>1, IntervalBounds DEF CadenceOpens
<1>4. /\ IsRows(rest)
      /\ DOMAIN rest = {i \in DOMAIN rows : rows[i].at > opens - Window}
      /\ \A i \in DOMAIN rest : rest[i] = rows[i]
    BY <1>3, ActiveRows
<1>5. \A i, j \in DOMAIN rest : Later(rest, i, j) <=> Later(rows, i, j)
    BY <1>4 DEF Later
<1> HIDE DEF rest
<1>6. Gating(rest) = Gating(rows) \cap DOMAIN rest
    BY <1>4 DEF Gating
<1>7. /\ m \in Gating(rest) /\ m \in DOMAIN rest
      /\ \A i \in Gating(rest) \ {m} : Later(rest, m, i)
  <2>1. Gating(rest) \subseteq DOMAIN rest
      BY DEF Gating
  <2> QED
      BY <1>1, <1>4, <2>1, NewestExists
<1>8. m = n
  <2>1. ASSUME m # n PROVE FALSE
    <3>1. Later(rows, n, m) /\ m \in DOMAIN rows /\ n \in DOMAIN rows
        BY <1>2, <1>4, <1>6, <1>7, <2>1
    <3>2. rows[m].at =< rows[n].at /\ rows[m].at \in Int
        BY <3>1, LaterIsOrder, RowsFinite
    <3>3. rows[m].at > opens - Window
        BY <1>4, <1>7
    <3>4. n \in DOMAIN rest
      <4>1. rows[n].at > opens - Window
          BY <1>3, <3>2, <3>3, ConstantTypes
      <4> QED
          BY <1>4, <3>1, <4>1
    <3>5. Later(rows, m, n)
        BY <1>2, <1>5, <1>6, <1>7, <2>1, <3>4
    <3> QED
        BY <3>1, <3>5, LaterIsOrder
  <2> QED
      BY <2>1
<1>9. rest[m] = rows[n]
    BY <1>4, <1>7, <1>8
<1>10. FailureStreak(rest) =< FailureStreak(rows)
  <2> DEFINE older(f, k) == Gating(f) \ {k}
             failed(f, k) == {i \in older(f, k) : \A j \in older(f, k) :
                                 j = i \/ Later(f, j, i) => ~Complete(f[j])}
  <2>1. failed(rest, m) \subseteq failed(rows, n)
    <3>1. ASSUME NEW i \in failed(rest, m) PROVE i \in failed(rows, n)
      <4>1. i \in older(rows, n) /\ i \in DOMAIN rest /\ i \in DOMAIN rows
          BY <1>4, <1>6, <1>8
      <4>2. ASSUME NEW j \in older(rows, n), j = i \/ Later(rows, j, i)
            PROVE  ~Complete(rows[j])
        <5>1. j \in DOMAIN rows /\ rows[j].at \in Int /\ rows[i].at \in Int
            BY <1>2, <4>1, RowsFinite
        <5>2. rows[i].at =< rows[j].at
            BY <4>1, <4>2, <5>1, LaterIsOrder
        <5>3. rows[i].at > opens - Window
            BY <1>4, <4>1
        <5>4. j \in DOMAIN rest
          <6>1. rows[j].at > opens - Window
              BY <1>3, <5>1, <5>2, <5>3, ConstantTypes
          <6> QED
              BY <1>4, <5>1, <6>1
        <5>5. j \in older(rest, m) /\ (j = i \/ Later(rest, j, i))
            BY <1>5, <1>6, <1>8, <4>1, <4>2, <5>4
        <5>6. ~Complete(rest[j])
            BY <5>5
        <5> QED
            BY <1>4, <5>4, <5>6
      <4> QED
          BY <4>1, <4>2
    <3> HIDE DEF failed
    <3> QED
        BY <3>1
  <2>2. IsFiniteSet(failed(rows, n))
    <3>1. failed(rows, n) \subseteq DOMAIN rows
        BY <1>2
    <3> HIDE DEF failed
    <3> QED
        BY <3>1, RowsFinite, FS_Subset
  <2>3. /\ FailureStreak(rest) = 1 + Cardinality(failed(rest, m))
        /\ FailureStreak(rows) = 1 + Cardinality(failed(rows, n))
      BY DEF FailureStreak
  <2> HIDE DEF failed
  <2>4. /\ Cardinality(failed(rest, m)) =< Cardinality(failed(rows, n))
        /\ Cardinality(failed(rest, m)) \in Nat /\ Cardinality(failed(rows, n)) \in Nat
      BY <2>1, <2>2, FS_Subset, FS_CardinalityType
  <2> QED
      BY <2>3, <2>4
<1>11. CadenceInterval(rest, retry, migrating) =< CadenceInterval(rows, retry, migrating)
  <2> DEFINE streak(f) == IF Collection THEN FailureStreak(f) ELSE 1
  <2>1. /\ streak(rest) \in 1..MaxStreak /\ streak(rows) \in 1..MaxStreak
        /\ streak(rest) =< streak(rows)
      BY <1>1, <1>4, <1>10, StreakRange, MaxStreakNatural
  <2>2. Backoff[streak(rest)] =< Backoff[streak(rows)]
    <3> HIDE DEF streak
    <3> QED
        BY <2>1, BackoffGrows
  <2>3. Complete(rest[m]) <=> Complete(rows[n])
      BY <1>9
  <2>4. /\ CadenceInterval(rest, retry, migrating) \in Int
        /\ CadenceInterval(rows, retry, migrating) \in Int
      BY <1>1, <1>4, IntervalBounds
  <2> QED
      BY <2>2, <2>3, <2>4 DEF CadenceInterval
<1>12. /\ CadenceOpens(rest, retry, migrating)
             = rows[n].at + CadenceInterval(rest, retry, migrating)
       /\ opens = rows[n].at + CadenceInterval(rows, retry, migrating)
       /\ CadenceInterval(rest, retry, migrating) \in Int
       /\ CadenceInterval(rows, retry, migrating) \in Int
    BY <1>1, <1>4, <1>9, IntervalBounds DEF CadenceOpens
<1> HIDE DEF n, m
<1> QED
    BY <1>3, <1>11, <1>12

\* When the oldest row of a limit has left the window, the limit has room.
LEMMA LimitLetsGo ==
    ASSUME NEW rows, IsRows(rows), NEW opens \in Int,
           \A b \in CapBlocks(rows) : b =< opens,
           NEW ids, ids \subseteq DOMAIN rows, NEW limit \in Nat, limit > 0,
           <<ids, limit>> \in Limits(rows), Cardinality(ids) =< limit
    PROVE  Cardinality(ids \cap DOMAIN Active(rows, opens)) < limit
<1> DEFINE rest == ids \cap DOMAIN Active(rows, opens)
<1>1. IsFiniteSet(ids) /\ IsFiniteSet(rest) /\ rest \subseteq ids
    BY RowsFinite, FS_Subset
<1>2. /\ Cardinality(ids) \in Nat /\ Cardinality(rest) \in Nat
      /\ Cardinality(rest) =< Cardinality(ids)
    BY <1>1, FS_Subset, FS_CardinalityType
<1>3. CASE Cardinality(ids) >= limit
  <2>1. Reached(<<ids, limit>>)
      BY <1>3 DEF Reached
  <2>2. OldestAt(rows, ids) + Window \in CapBlocks(rows)
    <3>1. <<ids, limit>> \in {m \in Limits(rows) : Reached(m)} /\ <<ids, limit>>[1] = ids
        BY <2>1
    <3> QED
        BY <3>1 DEF CapBlocks
  <2>3. ids # {}
      BY <1>2, <1>3, FS_EmptySet
  <2>4. PICK i \in ids : OldestAt(rows, ids) = rows[i].at
      BY <2>3, OldestExists
  <2>5. rows[i].at + Window =< opens /\ rows[i].at \in Int
      BY <2>2, <2>4, RowsFinite
  <2>6. i \notin rest
    <3>1. DOMAIN Active(rows, opens) = {j \in DOMAIN rows : rows[j].at > opens - Window}
        BY ActiveRows
    <3>2. ~ (rows[i].at > opens - Window)
        BY <2>5, ConstantTypes
    <3> QED
        BY <3>1, <3>2
  <2>7. rest \subseteq ids \ {i}
      BY <1>1, <2>6
  <2>8. IsFiniteSet(ids \ {i}) /\ Cardinality(ids \ {i}) = Cardinality(ids) - 1
      BY <1>1, FS_RemoveElement
  <2> HIDE DEF rest
  <2>9. Cardinality(rest) =< Cardinality(ids \ {i})
      BY <2>7, <2>8, FS_Subset
  <2> QED
      BY <1>2, <2>8, <2>9 DEF rest
<1> QED
    BY <1>2, <1>3

LEMMA CapLetsGo ==
    ASSUME NEW rows, IsRows(rows), Counted(rows), NEW opens \in Int,
           \A b \in CapBlocks(rows) : b =< opens
    PROVE  CapBlocks(Active(rows, opens)) = {}
<1> DEFINE rest == Active(rows, opens)
<1>1. IsRows(rest) /\ DOMAIN rest \subseteq DOMAIN rows
    BY ActiveIsRows
<1>2. Guarded(rest) = Guarded(rows) \cap DOMAIN rest /\ Guarded(rows) \subseteq DOMAIN rows
    BY <1>1 DEF Guarded
<1>3. /\ Cardinality(Guarded(rest)) \in Nat /\ Cardinality(DOMAIN rest) \in Nat
    BY <1>1, CountsShrink
<1>4. Cardinality(Guarded(rest)) < Cap
  <2>1. CASE DOMAIN rows \cap Legacy = {}
    <3>1. <<Guarded(rows), Cap>> \in Limits(rows)
        BY <2>1 DEF Limits
    <3>2. Cardinality(Guarded(rows) \cap DOMAIN rest) < Cap
        BY <1>2, <3>1, ConstantTypes, LimitLetsGo DEF Counted
    <3> QED
        BY <1>2, <3>2
  <2>2. CASE DOMAIN rows \cap Legacy # {}
    <3>1. <<Guarded(rows), OverlapRuntimeCap>> \in Limits(rows)
        BY <2>2 DEF Limits
    <3>2. Cardinality(Guarded(rows) \cap DOMAIN rest) < OverlapRuntimeCap
        BY <1>2, <2>2, <3>1, ConstantTypes, LimitLetsGo DEF Counted
    <3> QED
        BY <1>2, <1>3, <3>2, ConstantTypes
  <2> QED
      BY <2>1, <2>2
<1>5. ASSUME DOMAIN rest \cap Legacy # {}
      PROVE  /\ Cardinality(Guarded(rest)) < OverlapRuntimeCap
             /\ Cardinality(DOMAIN rest) < OverlapCap
  <2>1. DOMAIN rows \cap Legacy # {}
      BY <1>1, <1>5
  <2>2. /\ <<Guarded(rows), OverlapRuntimeCap>> \in Limits(rows)
        /\ <<DOMAIN rows, OverlapCap>> \in Limits(rows)
      BY <2>1 DEF Limits
  <2>3. Cardinality(Guarded(rows) \cap DOMAIN rest) < OverlapRuntimeCap
      BY <1>2, <2>1, <2>2, ConstantTypes, LimitLetsGo DEF Counted
  <2>4. Cardinality(DOMAIN rows \cap DOMAIN rest) < OverlapCap
      BY <2>1, <2>2, ConstantTypes, LimitLetsGo DEF Counted
  <2>5. DOMAIN rows \cap DOMAIN rest = DOMAIN rest
      BY <1>1
  <2> QED
      BY <1>2, <2>3, <2>4, <2>5
<1> HIDE DEF rest
<1>6. ASSUME NEW l \in Limits(rest) PROVE ~Reached(l)
  <2>1. CASE DOMAIN rest \cap Legacy # {}
      BY <1>3, <1>5, <1>6, <2>1, ConstantTypes DEF Limits, Reached
  <2>2. CASE DOMAIN rest \cap Legacy = {}
      BY <1>3, <1>4, <1>6, <2>2, ConstantTypes DEF Limits, Reached
  <2> QED
      BY <2>1, <2>2
<1>7. CapBlocks(rest) = {}
    BY <1>6 DEF CapBlocks
<1> QED
    BY <1>7 DEF rest

\* The limits that are reached let go within a window, the last one last.
LEMMA CapBlocksAhead ==
    ASSUME NEW rows, IsRows(rows), NEW now \in Int,
           \A i \in DOMAIN rows : rows[i].at > now - Window /\ rows[i].at =< now
    PROVE  /\ \A b \in CapBlocks(rows) : b \in Int /\ b > now /\ b =< now + Window
           /\ CapBlocks(rows) # {} =>
                 \E t \in CapBlocks(rows) : \A u \in CapBlocks(rows) : u =< t
<1>1. ASSUME NEW l \in Limits(rows), Reached(l)
      PROVE  /\ OldestAt(rows, l[1]) + Window \in Int
             /\ OldestAt(rows, l[1]) + Window > now
             /\ OldestAt(rows, l[1]) + Window =< now + Window
  <2>1. l[1] \subseteq DOMAIN rows /\ l[2] \in Nat /\ l[2] > 0
      BY ConstantTypes DEF Limits, Guarded
  <2>2. l[1] # {}
      BY <1>1, <2>1, FS_EmptySet DEF Reached
  <2>3. PICK i \in l[1] : OldestAt(rows, l[1]) = rows[i].at
      BY <2>1, <2>2, OldestExists
  <2>4. rows[i].at \in Int /\ rows[i].at > now - Window /\ rows[i].at =< now
      BY <2>1, RowsFinite
  <2> QED
      BY <2>3, <2>4, ConstantTypes
<1>2. \A b \in CapBlocks(rows) : b \in Int /\ b > now /\ b =< now + Window
    BY <1>1 DEF CapBlocks
<1>3. IsFiniteSet(CapBlocks(rows))
  <2> DEFINE block(ids) == OldestAt(rows, ids) + Window
  <2>1. CapBlocks(rows) \subseteq {block(DOMAIN rows), block(Guarded(rows))}
      BY DEF CapBlocks, Limits
  <2> HIDE DEF block
  <2>2. IsFiniteSet({block(DOMAIN rows)} \cup {block(Guarded(rows))})
      BY FS_Singleton, FS_Union
  <2>3. CapBlocks(rows) \subseteq {block(DOMAIN rows)} \cup {block(Guarded(rows))}
      BY <2>1
  <2> QED
      BY <2>2, <2>3, FS_Subset
<1>4. CapBlocks(rows) \subseteq Int
    BY <1>2
<1> QED
    BY <1>2, <1>3, <1>4, GreatestExists

\* The time the gate reports lies ahead, at most one window, and the gate it
\* reports is open by then (_request_mode, next_attempt_at).
THEOREM GateIsHonest == Spec => []GateOpens
<1>1. AnswerInv => GateOpens
  <2> SUFFICES ASSUME AnswerInv,
                      NEW codeChange \in BOOLEAN, NEW retry \in BOOLEAN, NEW migrating,
                      RequestMode(Active(ledger.rows, clock), clock, codeChange,
                                  retry, migrating) # "reserved"
               PROVE  LET rows == Active(ledger.rows, clock)
                          opens == AvailableAt(rows, clock, codeChange, retry, migrating)
                      IN  /\ opens > clock /\ opens =< clock + Window
                          /\ RequestMode(Active(rows, opens), opens, codeChange,
                                         retry, migrating)
                               # RequestMode(rows, clock, codeChange, retry, migrating)
      BY DEF GateOpens
  <2> DEFINE rows == Active(ledger.rows, clock)
             opens == AvailableAt(rows, clock, codeChange, retry, migrating)
  <2>1. clock \in Int /\ IsRows(ledger.rows) /\ Counted(ledger.rows)
        /\ \A i \in DOMAIN ledger.rows : ledger.rows[i].at =< clock
    <3>1. clock \in Int /\ IsLedger(ledger) /\ ledger.updated =< clock
          /\ ledger.updated \in Int
        BY ConstantTypes DEF AnswerInv, LedgerInv, TypeOK, HistoryAgrees
    <3>2. GoodLedger(ledger)
        BY DEF AnswerInv, AnswersAgree
    <3>3. IsRows(ledger.rows)
        BY <3>1 DEF IsLedger
    <3> QED
        BY <3>1, <3>2, <3>3, RowsFinite DEF GoodLedger
  <2>2. /\ IsRows(rows) /\ DOMAIN rows \subseteq DOMAIN ledger.rows
        /\ \A i \in DOMAIN rows : rows[i].at > clock - Window /\ rows[i].at =< clock
    <3>1. /\ IsRows(rows) /\ DOMAIN rows \subseteq DOMAIN ledger.rows
          /\ \A i \in DOMAIN rows : rows[i] = ledger.rows[i]
        BY <2>1, ActiveIsRows
    <3>2. DOMAIN rows = {i \in DOMAIN ledger.rows : ledger.rows[i].at > clock - Window}
        BY <2>1, ActiveRows
    <3> HIDE DEF rows
    <3> QED
        BY <2>1, <3>1, <3>2
  <2>3. Counted(rows)
      BY <2>1, <2>2, CountsShrink
  <2> HIDE DEF rows
  <2>4. CASE CadenceGated(rows, clock, codeChange, retry, migrating)
    <3>1. Gating(rows) # {} /\ clock < CadenceOpens(rows, retry, migrating)
        BY <2>4 DEF CadenceGated
    <3>2. opens = CadenceOpens(rows, retry, migrating)
        BY <2>4 DEF AvailableAt
    <3>3. /\ Newest(rows, Gating(rows)) \in DOMAIN rows
      <4>1. Gating(rows) \subseteq DOMAIN rows
          BY DEF Gating
      <4> QED
          BY <2>2, <3>1, <4>1, NewestExists
    <3>4. opens \in Int /\ opens =< clock + Window
        BY <2>1, <2>2, <3>1, <3>2, <3>3, RowsFinite, IntervalBounds, ConstantTypes
           DEF CadenceOpens
    <3>5. ~CadenceGated(Active(rows, opens), opens, codeChange, retry, migrating)
        BY <2>2, <3>1, <3>2, CadenceLetsGo
    <3>6. RequestMode(rows, clock, codeChange, retry, migrating) = "cadence_gated"
        BY <2>4 DEF RequestMode
    <3>7. RequestMode(Active(rows, opens), opens, codeChange, retry, migrating)
             # "cadence_gated"
        BY <3>5 DEF RequestMode
    <3> HIDE DEF opens
    <3> QED
        BY <2>1, <3>1, <3>2, <3>4, <3>6, <3>7 DEF opens, rows
  <2>5. CASE ~CadenceGated(rows, clock, codeChange, retry, migrating)
    <3>1. RequestMode(rows, clock, codeChange, retry, migrating) = "cap_gated"
          /\ CapBlocks(rows) # {}
        BY <2>5 DEF RequestMode, rows
    <3>2. opens \in CapBlocks(rows) /\ \A u \in CapBlocks(rows) : u =< opens
      <4>1. opens = CHOOSE t \in CapBlocks(rows) : \A u \in CapBlocks(rows) : u =< t
          BY <2>5 DEF AvailableAt
      <4>2. \E t \in CapBlocks(rows) : \A u \in CapBlocks(rows) : u =< t
          BY <2>1, <2>2, <3>1, CapBlocksAhead
      <4> HIDE DEF opens
      <4> QED
          BY <4>1, <4>2
    <3> HIDE DEF opens
    <3>3. opens \in Int /\ opens > clock /\ opens =< clock + Window
        BY <2>1, <2>2, <3>2, CapBlocksAhead
    <3>4. CapBlocks(Active(rows, opens)) = {}
        BY <2>2, <2>3, <3>2, <3>3, CapLetsGo
    <3>5. RequestMode(Active(rows, opens), opens, codeChange, retry, migrating)
             # "cap_gated"
        BY <3>4 DEF RequestMode
    <3> QED
        BY <3>1, <3>3, <3>5 DEF opens, rows
  <2> QED
      BY <2>4, <2>5
<1> QED
    BY <1>1, AnswersInvariant, PTL
=============================================================================
