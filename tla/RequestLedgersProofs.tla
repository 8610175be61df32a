------------------------ MODULE RequestLedgersProofs ------------------------
(***************************************************************************)
(* The weighted budget keeps its promise for every window, cap and weight, *)
(* and the ledgers of the queue monitor and of the DNS scan implement it,  *)
(* keep the cadence of their lanes, and tell a gated run the truth.  The   *)
(* inductive invariant LedgerInv says that a push is always legal for the  *)
(* ledger it is leased on (LegalPush), and that the ref holds every row of *)
(* the history that a window still counts.                                 *)
(***************************************************************************)
EXTENDS RequestLedgers, FiniteSetTheorems, FunctionTheorems, TLAPS

----------------------------------------------------------------------------
(* Finite sets of times *)

\* A finite nonempty set of integers has a greatest element.
LEMMA GreatestExists ==
    ASSUME NEW S, S \subseteq Int, IsFiniteSet(S), S # {}
    PROVE  \E x \in S : \A y \in S : y =< x
<1> DEFINE Above(x) == {y \in S : y >= x}
           F == {Above(x) : x \in S}
<1>1. F \subseteq FiniteSubsetsOf(S) /\ F # {}
  <2>1. \A x \in S : Above(x) \subseteq S
      OBVIOUS
  <2>2. \A x \in S : IsFiniteSet(Above(x))
    <3> HIDE DEF Above
    <3> QED
        BY <2>1, FS_Subset
  <2> HIDE DEF Above
  <2> QED
      BY <2>1, <2>2 DEF FiniteSubsetsOf
<1>2. PICK U \in F : \A T \in F : <<T, U>> \notin StrictSubsetOrdering(S)
  <2> HIDE DEF F
  <2> QED
      BY <1>1, FS_StrictSubsetOrderingWellFounded, WFMin
<1>3. PICK x \in S : U = Above(x)
    OBVIOUS
<1>4. ASSUME NEW y \in S, ~(y =< x)
      PROVE  FALSE
  <2>1. Above(y) \subseteq U /\ x \in U /\ x \notin Above(y)
    <3>1. x \in Int /\ y \in Int /\ x < y
        BY <1>4
    <3>2. U = {z \in S : z >= x} /\ Above(y) = {z \in S : z >= y}
        BY <1>3
    <3> HIDE DEF F, Above
    <3>3. \A z \in S : z \in Int
        OBVIOUS
    <3>4. ASSUME NEW z \in Above(y)
          PROVE  z \in U
      <4>1. z \in S /\ z >= y
          BY <3>2
      <4>2. z >= x
          BY <3>1, <3>3, <4>1
      <4> QED
          BY <3>2, <4>1, <4>2
    <3>5. x \in U
        BY <3>1, <3>2
    <3>6. x \notin Above(y)
        BY <3>1, <3>2
    <3> QED
        BY <3>4, <3>5, <3>6
  <2>2. Above(y) \in F
      OBVIOUS
  <2>3. U \subseteq S
      OBVIOUS
  <2>4. <<Above(y), U>> \in StrictSubsetOrdering(S)
    <3> HIDE DEF F, Above
    <3> QED
        BY <2>1, <2>3 DEF StrictSubsetOrdering
  <2> QED
      BY <1>2, <2>2, <2>4
<1> QED
    BY <1>4

\* A finite nonempty set of integers has a least element.
LEMMA LeastExists ==
    ASSUME NEW S, S \subseteq Int, IsFiniteSet(S), S # {}
    PROVE  \E x \in S : \A y \in S : x =< y
<1> DEFINE T == {-x : x \in S}
           f == [x \in S |-> -x]
<1>1. f \in Surjection(S, T)
    BY Fun_IsSurj
<1>2. IsFiniteSet(T)
    BY <1>1, FS_Surjection
<1>3. T \subseteq Int /\ T # {}
    OBVIOUS
<1>4. PICK m \in T : \A y \in T : y =< m
    BY <1>2, <1>3, GreatestExists
<1>5. PICK x \in S : m = -x
    OBVIOUS
<1>6. \A y \in S : -y \in T
    OBVIOUS
<1>7. \A y \in S : x =< y
    BY <1>4, <1>5, <1>6
<1> QED
    BY <1>7

----------------------------------------------------------------------------
(* The permits that rows stand for *)

Weighted(rows) == \A row \in rows : row.starts \in Nat \ {0}

\* Permits are counted row by row.
LEMMA PermitsSplit ==
    ASSUME NEW a, NEW b
    PROVE  /\ Permits(a \cup b) = Permits(a) \cup Permits(b)
           /\ a \cap b = {} => Permits(a) \cap Permits(b) = {}
           /\ a \subseteq b => Permits(a) \subseteq Permits(b)
           /\ Permits({}) = {}
BY DEF Permits

\* Finitely many rows stand for finitely many permits.
LEMMA PermitsFinite ==
    ASSUME NEW rows, IsFiniteSet(rows), Weighted(rows)
    PROVE  IsFiniteSet(Permits(rows)) /\ Used(rows) \in Nat
<1> DEFINE Of(row) == {[row |-> row, number |-> n] : n \in 1..row.starts}
           S == {Of(row) : row \in rows}
<1>1. \A row \in rows : IsFiniteSet(Of(row))
  <2> TAKE row \in rows
  <2>1. IsFiniteSet(1..row.starts)
      BY FS_Interval DEF Weighted
  <2>2. [n \in 1..row.starts |-> [row |-> row, number |-> n]]
            \in Surjection(1..row.starts, Of(row))
      BY Fun_IsSurj
  <2> QED
      BY <2>1, <2>2, FS_Surjection
<1>2. IsFiniteSet(S)
  <2>1. [row \in rows |-> Of(row)] \in Surjection(rows, S)
    <3> HIDE DEF Of
    <3> QED
        BY Fun_IsSurj
  <2> QED
      BY <2>1, FS_Surjection
<1>3. \A T \in S : IsFiniteSet(T)
    BY <1>1
<1>4. IsFiniteSet(UNION S)
  <2> HIDE DEF S
  <2> QED
      BY <1>2, <1>3, FS_UNION
<1>5. Permits(rows) = UNION S
    BY DEF Permits
<1> QED
    BY <1>4, <1>5, FS_CardinalityType DEF Used

\* More rows use more, and rows that are apart add up.
LEMMA UsedMonotone ==
    ASSUME NEW a, NEW b, IsFiniteSet(b), Weighted(b), a \subseteq b
    PROVE  /\ IsFiniteSet(a) /\ Weighted(a)
           /\ Used(a) \in Nat /\ Used(b) \in Nat /\ Used(a) =< Used(b)
<1>1. IsFiniteSet(a) /\ Weighted(a)
    BY FS_Subset DEF Weighted
<1>2. Permits(a) \subseteq Permits(b)
    BY PermitsSplit
<1> QED
    BY <1>1, <1>2, PermitsFinite, FS_Subset DEF Used

LEMMA UsedAdds ==
    ASSUME NEW a, NEW b, IsFiniteSet(a), IsFiniteSet(b), Weighted(a), Weighted(b)
    PROVE  /\ IsFiniteSet(a \cup b) /\ Weighted(a \cup b)
           /\ Used(a \cup b) =< Used(a) + Used(b)
           /\ a \cap b = {} => Used(a \cup b) = Used(a) + Used(b)
<1>1. IsFiniteSet(a \cup b) /\ Weighted(a \cup b)
    BY FS_Union DEF Weighted
<1>2. /\ IsFiniteSet(Permits(a)) /\ IsFiniteSet(Permits(b))
      /\ Used(a) \in Nat /\ Used(b) \in Nat
    BY PermitsFinite
<1>3. Permits(a \cup b) = Permits(a) \cup Permits(b)
    BY PermitsSplit
<1>4. Cardinality(Permits(a) \cap Permits(b)) \in Nat
    BY <1>2, FS_Intersection, FS_CardinalityType
<1>5. Used(a \cup b) = Used(a) + Used(b) - Cardinality(Permits(a) \cap Permits(b))
    BY <1>2, <1>3, FS_Union DEF Used
<1>6. a \cap b = {} => Cardinality(Permits(a) \cap Permits(b)) = 0
    BY PermitsSplit, FS_EmptySet
<1> QED
    BY <1>1, <1>2, <1>4, <1>5, <1>6

LEMMA UsedSingle ==
    ASSUME NEW row, row.starts \in Nat
    PROVE  Used({row}) = row.starts
<1> DEFINE f == [n \in 1..row.starts |-> [row |-> row, number |-> n]]
<1>1. Permits({row}) = {[row |-> row, number |-> n] : n \in 1..row.starts}
    BY DEF Permits
<1>2. f \in Surjection(1..row.starts, Permits({row}))
    BY <1>1, Fun_IsSurj
<1>3. f \in Injection(1..row.starts, Permits({row}))
  <2>1. \A m, n \in 1..row.starts : f[m] = f[n] => m = n
    <3> TAKE m, n \in 1..row.starts
    <3>1. f[m].number = m /\ f[n].number = n
        OBVIOUS
    <3> QED
        BY <3>1
  <2>2. f \in [1..row.starts -> Permits({row})]
      BY <1>1
  <2> HIDE DEF f
  <2> QED
      BY <2>1, <2>2, Fun_IsInj
<1>4. IsFiniteSet(1..row.starts) /\ Cardinality(1..row.starts) = row.starts
    BY FS_Interval
<1> HIDE DEF f
<1> QED
    BY <1>2, <1>3, <1>4, FS_Surjection DEF Used

----------------------------------------------------------------------------
(* The weighted budget *)

LEMMA RowsWeighted ==
    ASSUME BudgetTypeOK
    PROVE  /\ Weighted(granted)
           /\ \A row \in granted : row.at \in Int
BY WeightedAssumption DEF BudgetTypeOK, Weighted, RuntimeRow, SeedRow

\* The history stays a finite set of rows of the two kinds.
THEOREM WeightedTypeCorrect == BudgetSpec => []BudgetTypeOK
<1>1. BudgetInit => BudgetTypeOK
    BY FS_EmptySet, WeightedAssumption DEF BudgetInit, BudgetTypeOK
<1>2. BudgetTypeOK /\ [BudgetNext]_budgetVars => BudgetTypeOK'
  <2> SUFFICES ASSUME BudgetTypeOK, [BudgetNext]_budgetVars
               PROVE  BudgetTypeOK'
      OBVIOUS
  <2> DEFINE batch == granted' \ granted
  <2>1. CASE PassTime
      BY <2>1 DEF PassTime, BudgetTypeOK
  <2>2. CASE batch \subseteq SeedRow /\ IsFiniteSet(batch) /\ Seed(batch)
      BY <2>2 DEF Seed, BudgetTypeOK
  <2>3. CASE /\ batch \subseteq RuntimeRow /\ IsFiniteSet(batch)
             /\ \E t \in Times : Grant(batch, t)
    <3>1. granted' = granted \cup batch /\ clock' = clock
        BY <2>3 DEF Grant
    <3> HIDE DEF batch
    <3> QED
        BY <2>3, <3>1, FS_Union DEF BudgetTypeOK
  <2>4. CASE UNCHANGED budgetVars
      BY <2>4 DEF budgetVars, BudgetTypeOK
  <2> QED
      BY <2>1, <2>2, <2>3, <2>4 DEF BudgetNext
<1> QED
    BY <1>1, <1>2, PTL DEF BudgetSpec

\* No window of the whole history that holds a reservation holds more than Cap
\* request starts, whatever the weights of the reservations and seeds are: a
\* batch goes into the newest window, whose room for all of it was checked.
THEOREM WeightedBudgetBound == BudgetSpec => []WeightedBound
<1>1. BudgetInit => WeightedBound
    BY DEF BudgetInit, WeightedBound, InWindow, RuntimeRows
<1>2. BudgetTypeOK /\ WeightedBound /\ [BudgetNext]_budgetVars => WeightedBound'
  <2> SUFFICES ASSUME BudgetTypeOK, WeightedBound, [BudgetNext]_budgetVars
               PROVE  WeightedBound'
      OBVIOUS
  <2>1. CASE granted' = granted
      BY <2>1 DEF WeightedBound, InWindow, RuntimeRows
  <2>2. CASE granted' \ granted \subseteq SeedRow /\ Seed(granted' \ granted)
    <3>1. \A row \in granted' : row.kind = "legacy_seed"
        BY <2>2 DEF Seed, SeedRow
    <3> QED
        BY <3>1 DEF WeightedBound, InWindow, RuntimeRows
  <2>3. ASSUME NEW batch, batch \subseteq RuntimeRow, IsFiniteSet(batch),
               NEW t \in Times, Grant(batch, t)
        PROVE  WeightedBound'
    <3> SUFFICES ASSUME NEW u \in Times,
                        RuntimeRows(InWindow(granted', u)) # {}
                 PROVE  Used(InWindow(granted', u)) =< Cap
        BY DEF WeightedBound
    <3>1. /\ granted' = granted \cup batch
          /\ \A row \in batch : row.at = t
          /\ \A row \in granted : row.at =< t /\ row.at \in Int
          /\ Used(InWindow(granted, t) \cup batch) =< Cap
          /\ t \in Int /\ u \in Int /\ Window \in Nat /\ Cap \in Nat
        BY <2>3, RowsWeighted, WeightedAssumption DEF Grant
    <3>2. CASE u - Window < t /\ t =< u
      <4>1. InWindow(granted', u) \subseteq InWindow(granted, t) \cup batch
          BY <3>1, <3>2 DEF InWindow
      <4>2. InWindow(granted, t) \subseteq granted
          BY DEF InWindow
      <4>3. IsFiniteSet(granted) /\ Weighted(granted) /\ Weighted(batch)
          BY <2>3, RowsWeighted DEF BudgetTypeOK, Weighted, RuntimeRow
      <4>4. IsFiniteSet(InWindow(granted, t)) /\ Weighted(InWindow(granted, t))
          BY <4>2, <4>3, UsedMonotone
      <4>5. /\ IsFiniteSet(InWindow(granted, t) \cup batch)
            /\ Weighted(InWindow(granted, t) \cup batch)
          BY <2>3, <4>3, <4>4, UsedAdds
      <4>6. /\ Used(InWindow(granted', u)) \in Nat
            /\ Used(InWindow(granted, t) \cup batch) \in Nat
            /\ Used(InWindow(granted', u)) =< Used(InWindow(granted, t) \cup batch)
          BY <4>1, <4>5, UsedMonotone
      <4> QED
          BY <3>1, <4>6
    <3>3. CASE ~(u - Window < t /\ t =< u)
      <4>1. InWindow(granted', u) = InWindow(granted, u)
          BY <3>1, <3>3 DEF InWindow
      <4> QED
          BY <4>1 DEF WeightedBound
    <3> QED
        BY <3>2, <3>3
  <2> QED
      BY <2>1, <2>2, <2>3 DEF BudgetNext, PassTime, budgetVars
<1> QED
    BY <1>1, <1>2, WeightedTypeCorrect, PTL DEF BudgetSpec

----------------------------------------------------------------------------
(* Legal pushes and the inductive invariant *)

LEMMA ConstantTypes ==
    /\ Times \subseteq Int /\ 0 \in Times
    /\ Window \in Nat /\ Window > 0 /\ Cap \in Nat /\ Cap > 0
    /\ MetricsStarts \in Nat \ {0} /\ DetailsStarts \in Nat \ {0}
    /\ ScanStarts \in Nat \ {0}
    /\ MetricsInterval \in Nat \ {0} /\ DetailsInterval \in Nat \ {0}
    /\ MetricsInterval =< Window /\ DetailsInterval =< Window
    /\ MetricsStarts + DetailsStarts =< Cap /\ ScanStarts =< Cap
    /\ RetryDelay \in Nat \ {0}
    /\ PushRetries \in Nat /\ IsFiniteSet(Legacy)
    /\ SeedTimes \subseteq Int /\ SeedStarts \subseteq Nat \ {0}
    /\ Kinds = {"metrics", "details", "scan"}
BY WeightedAssumption, LedgersAssumption

IsLedger(l) ==
    /\ l \in [updated : Int, debt : BOOLEAN, rows : {l.rows}]
    /\ l.rows \subseteq RuntimeRow \cup SeedRow
    /\ IsFiniteSet(l.rows)

\* What a push adds to the rows of the ledger it is leased on that are active.
Added(old, new) == new.rows \ Active(old.rows, new.updated)

\* The first ledger: seeds only.
LegalSeed(old, new) ==
    /\ old = Absent
    /\ new.rows \subseteq SeedRow
    /\ new.updated = 0

\* A reservation: one batch for one time, into lanes that are due.  That it has
\* room is part of ValidLedger(new).
LegalBatch(old, new) ==
    /\ old # Absent
    /\ new.updated \in Times /\ old.updated =< new.updated
    /\ ~new.debt
    /\ Active(old.rows, new.updated) \subseteq new.rows
    /\ Added(old, new) # {} /\ Added(old, new) \subseteq RuntimeRow
    /\ \A row \in Added(old, new) :
          /\ row.at = new.updated
          /\ row.kind = "metrics" =>
                Due(Active(old.rows, new.updated), "metrics", MetricsInterval, new.updated)
          /\ row.kind = "details" =>
                Due(Active(old.rows, new.updated), "details", DetailsInterval, new.updated)
    /\ \A a, b \in Added(old, new) : a.kind = b.kind => a = b

LegalPush(p, now) ==
    /\ p \in [by : {p.by}, old : {p.old}, new : {p.new}]
    /\ IsLedger(p.old) /\ IsLedger(p.new)
    /\ ValidLedger(p.new)
    /\ p.new.updated =< now
    /\ LegalSeed(p.old, p.new) \/ LegalBatch(p.old, p.new)

IsRun(x) ==
    x \in [stage : {"unstarted", "restored", "deciding", "pushing", "permitted", "ended"},
           now : Times, loaded : {x.loaded}, retries : {x.retries},
           push : {x.push}, resends : Nat]

OkRun(x, now) ==
    /\ IsRun(x)
    /\ x.now =< now
    /\ x.stage = "pushing" => LegalPush(x.push, now)

\* The ref holds every row of the history that a window still counts, and no push
\* that may still land is anything but legal for the ledger it is leased on.
LedgerInv ==
    /\ BudgetTypeOK
    /\ clock >= 0
    /\ IsLedger(ledger) /\ ledger.updated =< clock
    /\ ledger # Absent => ValidLedger(ledger)
    /\ ledger = Absent => granted = {}
    /\ ledger.rows = InWindow(granted, ledger.updated)
    /\ \A row \in granted : row.at =< ledger.updated
    /\ run = [r \in Runs |-> run[r]]
    /\ \A r \in Runs : OkRun(run[r], clock)
    /\ \A p \in wire : LegalPush(p, clock)
    /\ IsFiniteSet(failures) /\ failures \subseteq Int

LEMMA LegalLater ==
    ASSUME NEW p, NEW m \in Int, NEW n \in Int, m =< n, LegalPush(p, m)
    PROVE  LegalPush(p, n)
BY DEF LegalPush, IsLedger

LEMMA OkLater ==
    ASSUME NEW x, NEW m \in Int, NEW n \in Int, m =< n, OkRun(x, m)
    PROVE  OkRun(x, n)
<1>1. x.now \in Int
    BY ConstantTypes DEF OkRun, IsRun
<1> QED
    BY <1>1, LegalLater DEF OkRun

LEMMA LedgerInvInit == Init => LedgerInv
<1> SUFFICES ASSUME Init PROVE LedgerInv
    OBVIOUS
<1>1. BudgetTypeOK /\ clock = 0 /\ granted = {} /\ ledger = Absent
    BY FS_EmptySet, ConstantTypes DEF Init, BudgetInit, BudgetTypeOK
<1>2. IsLedger(Absent) /\ Absent.rows = {} /\ Absent.updated = 0
    BY FS_EmptySet DEF IsLedger, Absent
<1>3. ledger.rows = InWindow(granted, ledger.updated)
    BY <1>1, <1>2 DEF InWindow
<1>4. OkRun(IdleRun, 0)
    BY ConstantTypes DEF OkRun, IsRun, IdleRun
<1>5. run = [r \in Runs |-> run[r]] /\ \A r \in Runs : OkRun(run[r], clock)
    BY <1>1, <1>4 DEF Init
<1>6. \A p \in wire : LegalPush(p, clock)
  <2>0. PICK ids \in SUBSET Legacy \ {{}} :
         \E at \in [ids -> SeedTimes], starts \in [ids -> SeedStarts] :
           LET rows  == {[id |-> i, kind |-> "legacy_seed", at |-> at[i],
                          starts |-> starts[i]] : i \in ids}
               first == [updated |-> 0, debt |-> Used(rows) > Cap, rows |-> rows]
           IN  /\ ValidLedger(first)
               /\ wire = {[by |-> "operator", old |-> Absent, new |-> first]}
      BY DEF Init
  <2>1. PICK at \in [ids -> SeedTimes], starts \in [ids -> SeedStarts] :
           LET rows  == {[id |-> i, kind |-> "legacy_seed", at |-> at[i],
                          starts |-> starts[i]] : i \in ids}
               first == [updated |-> 0, debt |-> Used(rows) > Cap, rows |-> rows]
           IN  /\ ValidLedger(first)
               /\ wire = {[by |-> "operator", old |-> Absent, new |-> first]}
      BY <2>0
  <2> DEFINE f == [i \in ids |-> [id |-> i, kind |-> "legacy_seed", at |-> at[i],
                                  starts |-> starts[i]]]
             rows == {[id |-> i, kind |-> "legacy_seed", at |-> at[i],
                       starts |-> starts[i]] : i \in ids}
             first == [updated |-> 0, debt |-> Used(rows) > Cap, rows |-> rows]
             p == [by |-> "operator", old |-> Absent, new |-> first]
  <2>2. IsFiniteSet(ids)
      BY ConstantTypes, FS_Subset
  <2>3. f \in Surjection(ids, rows)
      BY Fun_IsSurj
  <2>4. IsFiniteSet(rows)
    <3> HIDE DEF f, rows
    <3> QED
        BY <2>2, <2>3, FS_Surjection
  <2>5. rows \subseteq SeedRow
    <3>1. \A i \in ids : i \in Legacy /\ at[i] \in Int /\ starts[i] \in Nat \ {0}
        BY ConstantTypes
    <3>2. \A i \in ids : [id |-> i, kind |-> "legacy_seed", at |-> at[i],
                           starts |-> starts[i]] \in SeedRow
        BY <3>1 DEF SeedRow
    <3> QED
        BY <3>2
  <2>6. (Used(rows) > Cap) \in BOOLEAN
      OBVIOUS
  <2>7. ValidLedger(first) /\ wire = {p}
      BY <2>1
  <2> HIDE DEF rows
  <2>8. IsLedger(first)
      BY <2>4, <2>5, <2>6 DEF IsLedger
  <2>9. LegalSeed(Absent, first) /\ first.updated =< 0
      BY <2>5 DEF LegalSeed
  <2> HIDE DEF first
  <2>10. LegalPush(p, 0)
      BY <1>2, <2>7, <2>8, <2>9 DEF LegalPush
  <2> QED
      BY <1>1, <2>7, <2>10
<1>7. failures = {} /\ IsFiniteSet(failures)
    BY FS_EmptySet DEF Init
<1> QED
    BY <1>1, <1>2, <1>3, <1>5, <1>6, <1>7 DEF LedgerInv

\* Steps of a run leave the ref and the history alone.
LEMMA RunOnly ==
    ASSUME LedgerInv, NEW r \in Runs, NEW x, OkRun(x, clock),
           run' = [run EXCEPT ![r] = x],
           UNCHANGED <<clock, granted, ledger>>,
           \A p \in wire' : p \in wire \/ LegalPush(p, clock),
           IsFiniteSet(failures'), failures' \subseteq Int
    PROVE  LedgerInv'
<1>1. run' = [q \in Runs |-> run'[q]] /\ \A q \in Runs : OkRun(run'[q], clock)
    BY DEF LedgerInv
<1>2. \A p \in wire' : LegalPush(p, clock)
    BY DEF LedgerInv
<1>3. BudgetTypeOK'
    BY DEF LedgerInv, BudgetTypeOK
<1> QED
    BY <1>1, <1>2, <1>3 DEF LedgerInv

\* What a command that may reserve sends is legal.
LEMMA ReserveLegal ==
    ASSUME LedgerInv, NEW r \in Runs, Reserve(r)
    PROVE  LET now  == run[r].now
               rows == Seen(r) \cup Batch(r, Seen(r), now)
           IN  LegalPush([by |-> r, old |-> ledger,
                          new |-> [updated |-> now, debt |-> FALSE, rows |-> rows]],
                         clock)
<1> DEFINE now == run[r].now
           batch == Batch(r, Seen(r), now)
           new == [updated |-> now, debt |-> FALSE, rows |-> Seen(r) \cup batch]
           p == [by |-> r, old |-> ledger, new |-> new]
<1>1. now \in Times /\ now \in Int /\ now =< clock /\ clock \in Int
    BY ConstantTypes DEF LedgerInv, OkRun, IsRun, BudgetTypeOK
<1>2. /\ ledger # Absent /\ ledger.updated =< now
      /\ ~IntervalGated(Seen(r), run[r].loaded, now)
      /\ \A row \in Seen(r) : row.id # r
      /\ ValidLedger(new)
    BY DEF Reserve, Decides
<1>3. /\ Seen(r) \subseteq ledger.rows /\ Seen(r) = Active(ledger.rows, now)
      /\ IsLedger(ledger)
    BY DEF Seen, Active, LedgerInv
<1>4. /\ batch # {} /\ IsFiniteSet(batch) /\ batch \subseteq RuntimeRow
      /\ \A row \in batch : row.id = r /\ row.at = now
      /\ \A row \in batch : row.kind = "metrics" => service # "dns"
      /\ \A row \in batch : row.kind = "details" =>
            Due(Seen(r), "details", DetailsInterval, now)
      /\ \A a, b \in batch : a.kind = b.kind => a = b
  <2> DEFINE M == RowOf(r, "metrics", now)
             D == RowOf(r, "details", now)
             S == RowOf(r, "scan", now)
  <2>1. /\ M \in RuntimeRow /\ D \in RuntimeRow /\ S \in RuntimeRow
        /\ M.id = r /\ D.id = r /\ S.id = r
        /\ M.at = now /\ D.at = now /\ S.at = now
        /\ M.kind = "metrics" /\ D.kind = "details" /\ S.kind = "scan"
      BY <1>1, ConstantTypes DEF RowOf, RuntimeRow
  <2> HIDE DEF M, D, S
  <2>2. CASE service = "dns"
    <3>1. batch = {S}
        BY <2>2 DEF Batch, S
    <3> HIDE DEF batch
    <3> QED
        BY <2>1, <3>1, FS_Singleton
  <2>3. CASE service # "dns" /\ Due(Seen(r), "details", DetailsInterval, now)
    <3>1. batch = {M} \cup {D}
        BY <2>3 DEF Batch, M, D
    <3>2. IsFiniteSet({M} \cup {D})
        BY FS_Singleton, FS_Union
    <3> HIDE DEF batch
    <3> QED
        BY <2>1, <2>3, <3>1, <3>2
  <2>4. CASE service # "dns" /\ ~Due(Seen(r), "details", DetailsInterval, now)
    <3>1. batch = {M}
        BY <2>4 DEF Batch, M
    <3> HIDE DEF batch
    <3> QED
        BY <2>1, <2>4, <3>1, FS_Singleton
  <2> QED
      BY <2>2, <2>3, <2>4
<1>5. service # "dns" => Due(Seen(r), "metrics", MetricsInterval, now)
    BY <1>2 DEF IntervalGated
<1> HIDE DEF batch, now
<1>6. Added(ledger, new) = batch
    BY <1>2, <1>3, <1>4 DEF Added
<1>7. LegalBatch(ledger, new)
    BY <1>1, <1>2, <1>3, <1>4, <1>5, <1>6 DEF LegalBatch
<1>8. IsFiniteSet(Seen(r)) /\ IsFiniteSet(Seen(r) \cup batch)
    BY <1>3, <1>4, FS_Subset, FS_Union DEF IsLedger
<1>9. IsLedger(new)
    BY <1>1, <1>3, <1>4, <1>8 DEF IsLedger
<1>10. LegalPush(p, clock)
  <2>1. p.new = new /\ p.old = ledger /\ new.updated =< clock
      BY <1>1
  <2>2. p \in [by : {p.by}, old : {p.old}, new : {p.new}]
      OBVIOUS
  <2> HIDE DEF new, p
  <2> QED
      BY <1>2, <1>3, <1>7, <1>9, <2>1, <2>2 DEF LegalPush
<1> QED
    BY <1>10 DEF now, batch

LEMMA RunStepInv ==
    ASSUME LedgerInv, NEW r \in Runs,
           \/ Begin(r) \/ Observe(r) \/ Gated(r) \/ Reserve(r)
           \/ Resend(r) \/ Confirm(r) \/ Publish(r) \/ Fail(r)
    PROVE  LedgerInv'
<1>1. /\ OkRun(run[r], clock) /\ IsRun(run[r]) /\ run = [q \in Runs |-> run[q]]
      /\ clock \in Times /\ clock \in Int
      /\ IsFiniteSet(failures) /\ failures \subseteq Int
    BY ConstantTypes DEF LedgerInv, OkRun, BudgetTypeOK
<1>2. \A t \in Times : t =< clock =>
          \A x \in {IdleRun, Ended, [IdleRun EXCEPT !.stage = "permitted"]} : OkRun(x, clock)
    BY <1>1, ConstantTypes DEF LedgerInv, OkRun, IsRun, IdleRun, Ended
<1>3. OkRun(Ended, clock) /\ OkRun([IdleRun EXCEPT !.stage = "permitted"], clock)
    BY <1>1, <1>2
<1>4. CASE Begin(r)
  <2> DEFINE x == [run[r] EXCEPT !.stage = "restored", !.loaded = scanned]
  <2>1. OkRun(x, clock)
      BY <1>1 DEF OkRun, IsRun
  <2>2. run' = [run EXCEPT ![r] = x]
      BY <1>1, <1>4 DEF Begin
  <2> HIDE DEF x
  <2> QED
      BY <1>1, <1>4, <2>1, <2>2, RunOnly DEF Begin
<1>5. CASE Observe(r)
  <2> DEFINE x == [run[r] EXCEPT !.stage = "deciding", !.now = clock,
                                 !.retries = RetryTimes(clock)]
  <2>1. OkRun(x, clock)
    <3>1. IsRun(x)
        BY <1>1 DEF IsRun
    <3>2. x.now = clock /\ x.stage = "deciding"
        BY <1>1 DEF IsRun
    <3> HIDE DEF x
    <3> QED
        BY <1>1, <3>1, <3>2 DEF OkRun
  <2>2. run' = [run EXCEPT ![r] = x]
      BY <1>1, <1>5 DEF Observe
  <2> HIDE DEF x
  <2> QED
      BY <1>1, <1>5, <2>1, <2>2, RunOnly DEF Observe
<1>6. CASE Gated(r)
    BY <1>1, <1>3, <1>6, RunOnly DEF Gated
<1>7. CASE Reserve(r)
  <2> DEFINE next == [updated |-> run[r].now, debt |-> FALSE,
                      rows |-> Seen(r) \cup Batch(r, Seen(r), run[r].now)]
             p == [by |-> r, old |-> ledger, new |-> next]
             x == [run[r] EXCEPT !.stage = "pushing", !.push = p, !.resends = PushRetries]
  <2>1. LegalPush(p, clock)
      BY <1>7, ReserveLegal
  <2>2. run' = [run EXCEPT ![r] = x]
    <3>1. run' = [run EXCEPT ![r].stage = "pushing", ![r].push = p, ![r].resends = PushRetries]
        BY <1>7 DEF Reserve
    <3> HIDE DEF p
    <3> QED
        BY <1>1, <3>1
  <2>3. wire' = wire \cup {p} /\ UNCHANGED <<clock, granted, ledger, failures>>
      BY <1>7 DEF Reserve
  <2> HIDE DEF p
  <2>4. OkRun(x, clock)
      BY <1>1, <2>1, ConstantTypes DEF OkRun, IsRun
  <2> HIDE DEF x
  <2> QED
      BY <1>1, <2>1, <2>2, <2>3, <2>4, RunOnly
<1>8. CASE Resend(r)
  <2> DEFINE x == [run[r] EXCEPT !.resends = @ - 1]
  <2>1. OkRun(x, clock) /\ LegalPush(run[r].push, clock)
      BY <1>1, <1>8 DEF OkRun, IsRun, Resend
  <2>2. run' = [run EXCEPT ![r] = x]
      BY <1>1, <1>8 DEF Resend
  <2>3. \A p \in wire' : p \in wire \/ LegalPush(p, clock)
      BY <1>8, <2>1 DEF Resend
  <2> HIDE DEF x
  <2> QED
      BY <1>1, <1>8, <2>1, <2>2, <2>3, RunOnly DEF Resend
<1>9. CASE Confirm(r)
    BY <1>1, <1>3, <1>9, RunOnly DEF Confirm
<1>10. CASE Publish(r)
    BY <1>1, <1>3, <1>10, RunOnly DEF Publish
<1>11. CASE Fail(r)
  <2>1. IsFiniteSet(failures') /\ failures' \subseteq Int
      BY <1>1, <1>11, FS_AddElement DEF Fail
  <2> QED
      BY <1>1, <1>3, <1>11, <2>1, RunOnly DEF Fail
<1> QED
    BY <1>4, <1>5, <1>6, <1>7, <1>8, <1>9, <1>10, <1>11

\* A push that lands adds a batch to the newest window of the history, or is the
\* first.  It is the only step that does, and it is a step of the budget.
LEMMA ApplyGrants ==
    ASSUME LedgerInv, NEW p \in wire, Apply(p)
    PROVE  /\ \/ Seed(p.new.rows) /\ granted' \ granted = p.new.rows
              \/ /\ LegalBatch(ledger, p.new)
                 /\ granted' \ granted = Added(ledger, p.new)
                 /\ granted' = granted \cup Added(ledger, p.new)
                 /\ Grant(Added(ledger, p.new), p.new.updated)
           /\ BudgetNext
           /\ p.new.rows = InWindow(granted', p.new.updated)
           /\ \A row \in granted' : row.at =< p.new.updated
<1> DEFINE new == p.new
           active == Active(ledger.rows, new.updated)
           batch == Added(ledger, new)
<1>1. /\ LegalPush(p, clock) /\ p.old = ledger
      /\ granted' = granted \cup new.rows /\ clock' = clock
    BY DEF LedgerInv, Apply, LeaseHolds
<1>2. /\ IsLedger(new) /\ IsLedger(ledger) /\ ValidLedger(new)
      /\ new.updated =< clock /\ clock \in Int
      /\ \A row \in new.rows \cup ledger.rows \cup granted : row.at \in Int
      /\ \A row \in new.rows : row.at =< new.updated /\ row.at > new.updated - Window
      /\ new.updated \in Int /\ ledger.updated \in Int /\ Window \in Nat
  <2>1. BudgetTypeOK
      BY DEF LedgerInv
  <2> QED
      BY <1>1, <2>1, ConstantTypes, RowsWeighted
         DEF LegalPush, LedgerInv, ValidLedger, BudgetTypeOK, IsLedger, RuntimeRow, SeedRow
<1>3. new.rows # {}
  <2>1. Cardinality(new.rows) # 0
      BY <1>2 DEF ValidLedger
  <2> QED
      BY <2>1, FS_EmptySet
<1>4. CASE LegalSeed(ledger, new)
  <2>1. granted = {}
      BY <1>4 DEF LegalSeed, LedgerInv
  <2>2. \A row \in new.rows : row.at =< clock
      BY <1>2
  <2>3. granted' = new.rows /\ granted' \ granted = new.rows
      BY <1>1, <2>1
  <2>4. Seed(new.rows)
      BY <1>1, <1>3, <2>1, <2>2, <2>3 DEF Seed
  <2>5. new.rows \subseteq SeedRow /\ IsFiniteSet(new.rows)
      BY <1>2, <1>4 DEF LegalSeed, IsLedger
  <2>6. BudgetNext
      BY <2>3, <2>4, <2>5 DEF BudgetNext
  <2>7. new.rows = InWindow(granted', new.updated)
      BY <1>2, <2>3 DEF InWindow
  <2> QED
      BY <1>2, <2>3, <2>4, <2>6, <2>7
<1>5. CASE LegalBatch(ledger, new)
  <2>1. /\ new.updated \in Times /\ ledger.updated =< new.updated
        /\ active \subseteq new.rows /\ new.rows = active \cup batch
        /\ batch # {} /\ batch \subseteq RuntimeRow
        /\ \A row \in batch : row.at = new.updated
        /\ ~new.debt
      BY <1>5 DEF LegalBatch, Added
  <2>2. /\ ledger.rows = InWindow(granted, ledger.updated)
        /\ \A row \in granted : row.at =< ledger.updated
      BY DEF LedgerInv
  <2>3. active = InWindow(granted, new.updated)
      BY <1>2, <2>1, <2>2 DEF Active, InWindow
  <2>4. active \subseteq granted /\ batch \cap granted = {}
      BY <1>2, <2>1, <2>2, <2>3, ConstantTypes DEF InWindow, Added
  <2>5. granted' = granted \cup batch /\ granted' \ granted = batch
      BY <1>1, <2>1, <2>4
  <2>6. Used(InWindow(granted, new.updated) \cup batch) =< Cap
      BY <1>2, <2>1, <2>3 DEF ValidLedger
  <2>7. \A row \in granted : row.at =< new.updated
      BY <1>2, <2>1, <2>2
  <2>8. Grant(batch, new.updated)
      BY <1>1, <1>2, <2>1, <2>4, <2>5, <2>6, <2>7 DEF Grant
  <2>9. IsFiniteSet(batch)
      BY <1>2, <2>1, FS_Subset DEF IsLedger
  <2>10. BudgetNext
    <3> HIDE DEF batch
    <3> QED
        BY <2>1, <2>5, <2>8, <2>9 DEF BudgetNext
  <2>11. new.rows = InWindow(granted', new.updated)
      BY <1>2, <2>1, <2>3, <2>5, ConstantTypes DEF InWindow
  <2>12. \A row \in granted' : row.at =< new.updated
      BY <1>2, <2>1, <2>5, <2>7
  <2> QED
      BY <1>5, <2>5, <2>8, <2>10, <2>11, <2>12
<1> QED
    BY <1>1, <1>4, <1>5 DEF LegalPush

LEMMA ApplyInv ==
    ASSUME LedgerInv, NEW p \in wire, Apply(p)
    PROVE  LedgerInv'
<1>1. LegalPush(p, clock) /\ BudgetTypeOK
    BY DEF LedgerInv
<1>2. /\ ledger' = p.new /\ wire' \subseteq wire
      /\ UNCHANGED <<clock, run, failures>>
    BY DEF Apply
<1>3. IsLedger(ledger') /\ ValidLedger(ledger') /\ ledger'.updated =< clock'
    BY <1>1, <1>2 DEF LegalPush
<1>4. ledger' # Absent
  <2>1. Cardinality(ledger'.rows) # 0
      BY <1>3 DEF ValidLedger
  <2> QED
      BY <2>1, FS_EmptySet DEF Absent
<1>5. /\ ledger'.rows = InWindow(granted', ledger'.updated)
      /\ \A row \in granted' : row.at =< ledger'.updated
    BY <1>2, ApplyGrants
<1>6. BudgetTypeOK'
  <2>1. granted' = granted \cup p.new.rows
      BY DEF Apply
  <2>2. p.new.rows \subseteq RuntimeRow \cup SeedRow /\ IsFiniteSet(p.new.rows)
      BY <1>1 DEF LegalPush, IsLedger
  <2> QED
      BY <1>1, <1>2, <2>1, <2>2, FS_Union DEF BudgetTypeOK
<1> QED
    BY <1>2, <1>3, <1>4, <1>5, <1>6 DEF LedgerInv

LEMMA LedgerInvNext == LedgerInv /\ [Next]_vars => LedgerInv'
<1> SUFFICES ASSUME LedgerInv, [Next]_vars
             PROVE  LedgerInv'
    OBVIOUS
<1>1. CASE Tick
  <2>1. /\ clock' \in Times /\ clock' = clock + 1 /\ granted' = granted
        /\ UNCHANGED <<ledger, wire, run, failures>>
      BY <1>1 DEF Tick, PassTime
  <2>2. clock \in Int /\ clock' \in Int /\ clock =< clock' /\ ledger.updated \in Int
      BY <2>1, ConstantTypes DEF LedgerInv, BudgetTypeOK, IsLedger
  <2>3. BudgetTypeOK'
      BY <2>1 DEF LedgerInv, BudgetTypeOK
  <2>4. /\ \A r \in Runs : OkRun(run[r], clock')
        /\ \A p \in wire : LegalPush(p, clock')
      BY <2>2, OkLater, LegalLater DEF LedgerInv
  <2> QED
      BY <2>1, <2>2, <2>3, <2>4 DEF LedgerInv
<1>2. ASSUME NEW r \in Runs,
             \/ Begin(r) \/ Observe(r) \/ Gated(r) \/ Reserve(r)
             \/ Resend(r) \/ Confirm(r) \/ Publish(r) \/ Fail(r)
      PROVE  LedgerInv'
    BY <1>2, RunStepInv
<1>3. CASE CodeChange
    BY <1>3, FS_EmptySet DEF CodeChange, LedgerInv, BudgetTypeOK
<1>4. ASSUME NEW p \in wire, Apply(p)
      PROVE  LedgerInv'
    BY <1>4, ApplyInv
<1>5. ASSUME NEW p \in wire, Lose(p)
      PROVE  LedgerInv'
    BY <1>5 DEF Lose, LedgerInv, BudgetTypeOK
<1>6. CASE UNCHANGED vars
    BY <1>6 DEF vars, LedgerInv, BudgetTypeOK
<1> QED
    BY <1>1, <1>2, <1>3, <1>4, <1>5, <1>6 DEF Next

\* What a push may do is decided where it was computed and cannot go stale: the
\* inductive invariant of both ledgers.
THEOREM LedgersInvariant == Spec => []LedgerInv
<1> QED
    BY LedgerInvInit, LedgerInvNext, PTL DEF Spec

\* The ref always holds a ledger the next command accepts, and it holds every row
\* that a window still counts.
THEOREM LedgersAreOK == Spec => []LedgerOK
<1>1. LedgerInv => LedgerOK
    BY DEF LedgerInv, LedgerOK
<1> QED
    BY <1>1, LedgersInvariant, PTL

\* The two ledgers implement the weighted budget: every push that lands, early or
\* late, grants one batch as a whole or seeds the ledger, and nothing else does.
THEOREM LedgersImplementBudget == Spec => ImplementsBudget
<1>1. Init => BudgetInit
    BY DEF Init
<1>2. LedgerInv /\ [Next]_vars => [BudgetNext]_budgetVars
  <2> SUFFICES ASSUME LedgerInv, [Next]_vars
               PROVE  [BudgetNext]_budgetVars
      OBVIOUS
  <2>1. CASE Tick
      BY <2>1 DEF Tick, BudgetNext
  <2>2. ASSUME NEW p \in wire, Apply(p)
        PROVE  BudgetNext
      BY <2>2, ApplyGrants
  <2>3. CASE UNCHANGED <<clock, granted>>
      BY <2>3 DEF budgetVars
  <2> QED
      BY <2>1, <2>2, <2>3
         DEF Next, vars, Begin, Observe, Gated, Reserve, Resend, Confirm, Publish,
             Fail, CodeChange, Lose
<1> QED
    BY <1>1, <1>2, LedgersInvariant, PTL DEF Spec, BudgetSpec, ImplementsBudget

\* The weighted bound holds of the rows the refs ever held.
THEOREM LedgersWeightedBound == Spec => []WeightedBound
<1> QED
    BY LedgersImplementBudget, WeightedBudgetBound, PTL DEF ImplementsBudget

----------------------------------------------------------------------------
(* Cadence *)

SpacedIn(rows, kind, interval) ==
    \A a, b \in rows :
        /\ a.kind = kind /\ a # b /\ a.at >= b.at
        /\ \/ b.kind = kind
           \/ /\ b.kind = "legacy_seed"
              /\ ~\E c \in rows : c.kind = kind /\ c.at < a.at
        => a.at - b.at >= interval

\* A batch into a lane that is due leaves the lane spaced: what the window no
\* longer shows is a window away.
LEMMA SpacedGrows ==
    ASSUME NEW rows, NEW batch, NEW t \in Int, NEW kind, NEW interval \in Nat \ {0},
           interval =< Window, kind # "legacy_seed",
           \A row \in rows \cup batch : row.at \in Int,
           \A row \in rows : row.at =< t,
           \A row \in batch : row.at = t /\ row.kind # "legacy_seed",
           \A row \in batch : row.kind = kind => Due(Active(rows, t), kind, interval, t),
           \A a, b \in batch : a.kind = b.kind => a = b,
           SpacedIn(rows, kind, interval)
    PROVE  SpacedIn(rows \cup batch, kind, interval)
<1> SUFFICES ASSUME NEW a \in rows \cup batch, NEW b \in rows \cup batch,
                    a.kind = kind, a # b, a.at >= b.at,
                    \/ b.kind = kind
                    \/ /\ b.kind = "legacy_seed"
                       /\ ~\E c \in rows \cup batch : c.kind = kind /\ c.at < a.at
             PROVE  a.at - b.at >= interval
    BY DEF SpacedIn
<1>0. Window \in Nat /\ a.at \in Int /\ b.at \in Int
    BY ConstantTypes
<1>1. CASE a \in rows /\ b \in rows
    BY <1>1 DEF SpacedIn
<1>2. CASE a \in batch /\ b \in rows
  <2> DEFINE active == Active(rows, t)
  <2>1. Due(active, kind, interval, t) /\ a.at = t
      BY <1>2
  <2>2. \A c \in active : c.kind = kind => t - c.at >= interval
      BY <2>1 DEF Due, Telling
  <2>3. CASE b \notin active
    <3>1. t - b.at >= Window
        BY <1>0, <1>2, <2>3 DEF Active
    <3> QED
        BY <1>0, <2>1, <3>1
  <2>4. CASE b \in active /\ b.kind = kind
      BY <2>1, <2>2, <2>4
  <2>5. CASE b \in active /\ b.kind = "legacy_seed"
    <3>1. ~\E c \in rows : c.kind = kind /\ c.at < t
        BY <2>1, <2>5
    <3>2. ~\E c \in active : c.kind = kind
        BY <2>2, <3>1 DEF Active
    <3>3. b \in Telling(active, kind)
        BY <2>5, <3>2 DEF Telling
    <3> QED
        BY <2>1, <3>3 DEF Due
  <2> QED
      BY <2>3, <2>4, <2>5
<1>3. CASE b \in batch
  <2>1. a.at = t /\ b.at = t /\ b.kind = kind
      BY <1>0, <1>3
  <2>2. a \in rows
      BY <1>3, <2>1
  <2>3. a \in Active(rows, t)
      BY <2>1, <2>2, ConstantTypes DEF Active
  <2>4. t - a.at >= interval
      BY <1>3, <2>1, <2>3 DEF Due, Telling
  <2> QED
      BY <2>1, <2>4
<1> QED
    BY <1>1, <1>2, <1>3

LEMMA CadenceIsSpaced ==
    CadenceKept <=> /\ SpacedIn(granted, "metrics", MetricsInterval)
                    /\ SpacedIn(granted, "details", DetailsInterval)
BY DEF CadenceKept, SpacedIn

\* The lanes keep their cadence over the whole history, also between runs that read
\* the ref side by side: a lane that was due on the ledger a push is leased on is due
\* in the history when the push lands.
THEOREM LanesKeepCadence == Spec => []CadenceKept
<1>1. Init => CadenceKept
    BY DEF Init, BudgetInit, CadenceKept
<1>2. LedgerInv /\ CadenceKept /\ [Next]_vars => CadenceKept'
  <2> SUFFICES ASSUME LedgerInv, CadenceKept, [Next]_vars
               PROVE  CadenceKept'
      OBVIOUS
  <2>1. CASE UNCHANGED granted
      BY <2>1 DEF CadenceKept
  <2>2. ASSUME NEW p \in wire, Apply(p)
        PROVE  CadenceKept'
    <3>1. CASE granted' \ granted = p.new.rows /\ Seed(p.new.rows) /\ BudgetNext
      <4>1. \A row \in granted' : row.kind = "legacy_seed"
        <5>1. granted' = p.new.rows /\ granted = {} /\ p.new.rows # {}
            BY <3>1 DEF Seed
        <5>2. LegalPush(p, clock) /\ p.old = ledger
            BY <2>2 DEF LedgerInv, Apply, LeaseHolds
        <5>3. CASE LegalSeed(ledger, p.new)
            BY <5>1, <5>3 DEF LegalSeed, SeedRow
        <5>4. CASE LegalBatch(ledger, p.new)
          <6>1. ledger # Absent
              BY <5>4 DEF LegalBatch
          <6>2. ValidLedger(ledger) /\ ledger.rows = InWindow(granted, ledger.updated)
              BY <6>1 DEF LedgerInv
          <6>3. ledger.rows = {}
              BY <5>1, <6>2 DEF InWindow
          <6>4. Cardinality(ledger.rows) # 0
              BY <6>2 DEF ValidLedger
          <6> QED
              BY <6>3, <6>4, FS_EmptySet
        <5> QED
            BY <5>2, <5>3, <5>4 DEF LegalPush
      <4> QED
          BY <4>1 DEF CadenceKept
    <3>2. CASE /\ LegalBatch(ledger, p.new)
               /\ granted' = granted \cup Added(ledger, p.new)
               /\ Grant(Added(ledger, p.new), p.new.updated)
      <4> DEFINE t == p.new.updated
                 batch == Added(ledger, p.new)
      <4>1. t \in Int /\ ledger.updated =< t /\ ledger.updated \in Int
          BY <3>2, ConstantTypes DEF LegalBatch, LedgerInv, IsLedger
      <4>2. \A row \in granted : row.at \in Int /\ row.at =< ledger.updated /\ row.at =< t
          BY <4>1, RowsWeighted DEF LedgerInv
      <4>3. Active(granted, t) = Active(ledger.rows, t)
          BY <4>1, <4>2, ConstantTypes DEF LedgerInv, Active, InWindow
      <4>4. \A row \in batch : row.at = t /\ row.kind # "legacy_seed"
          BY <3>2, WeightedAssumption DEF LegalBatch, RuntimeRow
      <4>5. /\ \A row \in batch : row.kind = "metrics" =>
                  Due(Active(granted, t), "metrics", MetricsInterval, t)
            /\ \A row \in batch : row.kind = "details" =>
                  Due(Active(granted, t), "details", DetailsInterval, t)
            /\ \A a, b \in batch : a.kind = b.kind => a = b
          BY <3>2, <4>3 DEF LegalBatch
      <4> HIDE DEF t, batch
      <4>6. \A row \in granted \cup batch : row.at \in Int
          BY <4>1, <4>2, <4>4
      <4>7. SpacedIn(granted \cup batch, "metrics", MetricsInterval)
          BY <4>1, <4>2, <4>4, <4>5, <4>6, SpacedGrows, ConstantTypes, CadenceIsSpaced
      <4>8. SpacedIn(granted \cup batch, "details", DetailsInterval)
          BY <4>1, <4>2, <4>4, <4>5, <4>6, SpacedGrows, ConstantTypes, CadenceIsSpaced
      <4>9. granted' = granted \cup batch
          BY <3>2 DEF batch
      <4> QED
          BY <4>7, <4>8, <4>9 DEF CadenceKept, SpacedIn
    <3> QED
        BY <2>2, <3>1, <3>2, ApplyGrants
  <2> QED
      BY <2>1, <2>2
         DEF Next, vars, Tick, PassTime, Begin, Observe, Gated, Reserve, Resend, Confirm,
             Publish, Fail, CodeChange, Lose
<1> QED
    BY <1>1, <1>2, LedgersInvariant, PTL DEF Spec

----------------------------------------------------------------------------
(* The time a gated run is told *)

\* What a run asks for fits into an empty window.
LEMMA BatchFits ==
    ASSUME NEW r, NEW rows, NEW now
    PROVE  LET batch == Batch(r, rows, now)
           IN  Used(batch) \in Nat /\ Used(batch) =< Cap
<1> DEFINE M == RowOf(r, "metrics", now)
           D == RowOf(r, "details", now)
           S == RowOf(r, "scan", now)
           batch == Batch(r, rows, now)
<1>1. /\ M.starts = MetricsStarts /\ D.starts = DetailsStarts /\ S.starts = ScanStarts
      /\ M.starts \in Nat \ {0} /\ D.starts \in Nat \ {0} /\ S.starts \in Nat \ {0}
    BY ConstantTypes DEF RowOf
<1>2. batch = {S} \/ batch = {M} \/ batch = {M} \cup {D}
    BY DEF Batch
<1> HIDE DEF M, D, S
<1>3. Used({M}) = MetricsStarts /\ Used({D}) = DetailsStarts /\ Used({S}) = ScanStarts
    BY <1>1, UsedSingle
<1>4. /\ IsFiniteSet({M}) /\ IsFiniteSet({D}) /\ Weighted({M}) /\ Weighted({D})
    BY <1>1, FS_Singleton DEF Weighted
<1>5. /\ IsFiniteSet({M} \cup {D}) /\ Weighted({M} \cup {D})
      /\ Used({M} \cup {D}) =< Used({M}) + Used({D})
    BY <1>4, UsedAdds
<1>6. Used({M} \cup {D}) \in Nat
    BY <1>5, PermitsFinite
<1> HIDE DEF batch
<1>7. /\ Used({S}) \in Nat /\ Used({S}) =< Cap
      /\ Used({M}) \in Nat /\ Used({M}) =< Cap
      /\ Used({M} \cup {D}) =< Cap
    BY <1>3, <1>5, <1>6, ConstantTypes
<1>8. Used(batch) \in Nat /\ Used(batch) =< Cap
    BY <1>2, <1>6, <1>7
<1> QED
    BY <1>8 DEF batch

Left(rows, t) == {row \in rows : row.at + Window > t}

\* The first expiry that sets enough free exists, and nothing earlier does.
LEMMA NextAvailableSound ==
    ASSUME NEW rows, IsFiniteSet(rows), Weighted(rows),
           \A row \in rows : row.at \in Int,
           NEW amount \in Nat, amount =< Cap, Used(rows) + amount > Cap
    PROVE  LET e == NextAvailable(rows, amount)
           IN  /\ e \in {row.at + Window : row \in rows}
               /\ Used(Left(rows, e)) + amount =< Cap
               /\ \A t \in Int : t < e => Used(Left(rows, t)) + amount > Cap
<1> DEFINE ends == {row.at + Window : row \in rows}
           enough == {e \in ends : Used(Left(rows, e)) + amount =< Cap}
           f == [row \in rows |-> row.at + Window]
<1>1. Window \in Nat /\ Cap \in Nat
    BY ConstantTypes
<1>2. ends \subseteq Int
    BY <1>1
<1>3. IsFiniteSet(ends)
  <2>1. f \in Surjection(rows, ends)
      BY Fun_IsSurj
  <2> HIDE DEF f, ends
  <2> QED
      BY <2>1, FS_Surjection
<1>4. \A t : /\ Left(rows, t) \subseteq rows
             /\ Used(Left(rows, t)) \in Nat
    BY UsedMonotone DEF Left
<1>5. Used({}) = 0
    BY PermitsSplit, FS_EmptySet DEF Used
<1>6. rows # {}
    BY <1>1, <1>5
<1>7. ASSUME NEW t \in Int, Used(Left(rows, t)) + amount =< Cap
      PROVE  \E e \in enough : e =< t
  <2> DEFINE past == {e \in ends : e =< t}
  <2>1. CASE past = {}
    <3>1. ASSUME NEW row \in rows
          PROVE  row.at + Window > t
      <4>1. row.at + Window \in ends /\ row.at + Window \in Int
          BY <1>1
      <4>2. ~(row.at + Window =< t)
          BY <2>1, <4>1
      <4> QED
          BY <4>1, <4>2
    <3>2. Left(rows, t) = rows
        BY <3>1 DEF Left
    <3> QED
        BY <1>7, <3>2, <1>1, <1>4
  <2>2. CASE past # {}
    <3>1. IsFiniteSet(past) /\ past \subseteq Int
        BY <1>2, <1>3, FS_Subset
    <3>2. PICK e \in past : \A d \in past : d =< e
      <4> HIDE DEF past
      <4> QED
          BY <2>2, <3>1, GreatestExists
    <3>3. e \in ends /\ e \in Int /\ e =< t
        BY <1>2, <3>2
    <3>4. ASSUME NEW row \in rows
          PROVE  (row.at + Window > e) <=> (row.at + Window > t)
      <4>1. row.at + Window \in ends /\ row.at + Window \in Int
          BY <1>1
      <4>2. row.at + Window =< t => row.at + Window =< e
          BY <3>2, <4>1
      <4> HIDE DEF ends
      <4> QED
          BY <3>3, <4>1, <4>2
    <3>5. Left(rows, e) = Left(rows, t)
        BY <3>4 DEF Left
    <3> HIDE DEF ends
    <3> QED
        BY <1>7, <3>3, <3>5
  <2> QED
      BY <2>1, <2>2
<1>8. enough # {}
  <2>1. PICK m \in ends : \A d \in ends : d =< m
    <3>1. ends # {}
        BY <1>6
    <3> HIDE DEF ends
    <3> QED
        BY <1>2, <1>3, <3>1, GreatestExists
  <2>2. \A row \in rows : row.at + Window =< m /\ row.at + Window \in Int
      BY <1>1, <2>1
  <2>3. m \in Int
      BY <1>2
  <2>4. Left(rows, m) = {}
      BY <2>2, <2>3 DEF Left
  <2> HIDE DEF ends
  <2>5. m \in enough
      BY <1>1, <1>5, <2>4
  <2> QED
      BY <2>5
<1>9. enough \subseteq Int /\ IsFiniteSet(enough)
  <2>1. enough \subseteq ends
      OBVIOUS
  <2> HIDE DEF ends, enough
  <2> QED
      BY <1>2, <1>3, <2>1, FS_Subset
<1>10. \E e \in enough : \A d \in enough : e =< d
  <2> HIDE DEF enough
  <2> QED
      BY <1>8, <1>9, LeastExists
<1>11. NextAvailable(rows, amount) = CHOOSE e \in enough : \A d \in enough : e =< d
    BY DEF NextAvailable, Left
<1> DEFINE e == NextAvailable(rows, amount)
<1>12. e \in enough /\ \A d \in enough : e =< d
  <2> HIDE DEF enough
  <2> QED
      BY <1>10, <1>11
<1>13. \A t \in Int : t < e => Used(Left(rows, t)) + amount > Cap
  <2> SUFFICES ASSUME NEW t \in Int, t < e, ~(Used(Left(rows, t)) + amount > Cap)
               PROVE  FALSE
      OBVIOUS
  <2>1. Used(Left(rows, t)) + amount =< Cap
      BY <1>1, <1>4
  <2>2. PICK d \in enough : d =< t
      BY <1>7, <2>1
  <2> HIDE DEF enough, e
  <2>3. e =< d /\ d \in Int /\ e \in Int
      BY <1>9, <1>12
  <2> QED
      BY <2>2, <2>3
<1> QED
    BY <1>12, <1>13

LEMMA RetriesTyped ==
    ASSUME LedgerInv
    PROVE  /\ RetryTimes(clock) \subseteq Int /\ IsFiniteSet(RetryTimes(clock))
           /\ \A u \in RetryTimes(clock) : u > clock
<1> DEFINE S == {f + RetryDelay : f \in failures}
<1>1. [f \in failures |-> f + RetryDelay] \in Surjection(failures, S)
    BY Fun_IsSurj
<1>2. IsFiniteSet(S)
  <2> HIDE DEF S
  <2> QED
      BY <1>1, FS_Surjection DEF LedgerInv
<1>3. S \subseteq Int
    BY ConstantTypes DEF LedgerInv
<1>4. /\ RetryTimes(clock) \subseteq S
      /\ \A u \in RetryTimes(clock) : u > clock
    BY DEF RetryTimes
<1> HIDE DEF S
<1> QED
    BY <1>2, <1>3, <1>4, FS_Subset

\* What a gated run is told as available_at is the first time at which its request
\* starts fit and a failed scan may be repeated, whatever the weights and intervals.
THEOREM GateIsHonest == Spec => []GateHonest
<1>1. LedgerInv => GateHonest
  <2> SUFFICES ASSUME LedgerInv, NEW r \in Runs,
                      LET rows == Active(ledger.rows, clock)
                      IN  CapacityGated(rows, Batch(r, rows, clock)) \/ RetryTimes(clock) # {}
               PROVE
                 LET rows    == Active(ledger.rows, clock)
                     batch   == Batch(r, rows, clock)
                     retries == RetryTimes(clock)
                     Open(t) == /\ Used(InWindow(ledger.rows, t)) + Used(batch) =< Cap
                                /\ \A u \in retries : u =< t
                     opens   == AvailableAt(rows, batch, retries)
                 IN  /\ opens > clock
                     /\ Open(opens)
                     /\ \A t \in clock..(opens - 1) : ~Open(t)
      BY DEF GateHonest
  <2> DEFINE rows    == Active(ledger.rows, clock)
             batch   == Batch(r, rows, clock)
             amount  == Used(batch)
             retries == RetryTimes(clock)
             fits    == IF CapacityGated(rows, batch) THEN {NextAvailable(rows, amount)} ELSE {}
             opens   == AvailableAt(rows, batch, retries)
             Open(t) == /\ Used(InWindow(ledger.rows, t)) + amount =< Cap
                        /\ \A u \in retries : u =< t
  <2>1. /\ clock \in Int /\ Window \in Nat /\ Cap \in Nat
        /\ IsLedger(ledger) /\ ledger.updated \in Int /\ ledger.updated =< clock
        /\ \A row \in ledger.rows : row.at \in Int /\ row.at =< ledger.updated
        /\ Weighted(ledger.rows) /\ IsFiniteSet(ledger.rows)
    <3>1. ledger.rows \subseteq granted
        BY DEF LedgerInv, InWindow
    <3> QED
        BY <3>1, ConstantTypes, RowsWeighted
           DEF LedgerInv, BudgetTypeOK, IsLedger, Weighted
  <2>2. amount \in Nat /\ amount =< Cap
      BY BatchFits
  <2>3. rows \subseteq ledger.rows
      BY DEF Active
  <2>4. /\ IsFiniteSet(rows) /\ Weighted(rows) /\ Used(rows) \in Nat
        /\ \A row \in rows : row.at \in Int
      BY <2>1, <2>3, UsedMonotone
  <2>5. ASSUME NEW t \in Int, t >= clock
        PROVE  InWindow(ledger.rows, t) = Left(rows, t)
      BY <2>1, <2>5 DEF InWindow, Left, Active
  <2>6. \A row \in rows : row.at + Window > clock
      BY <2>1 DEF Active
  <2>7. /\ retries \subseteq Int /\ IsFiniteSet(retries)
        /\ \A u \in retries : u > clock
      BY RetriesTyped
  <2> HIDE DEF retries
  <2>8. CapacityGated(rows, batch) <=> Used(rows) + amount > Cap
      BY DEF CapacityGated
  <2>9. CapacityGated(rows, batch) =>
           LET e == NextAvailable(rows, amount)
           IN  /\ e \in Int /\ e > clock
               /\ Used(Left(rows, e)) + amount =< Cap
               /\ \A t \in Int : t < e => Used(Left(rows, t)) + amount > Cap
    <3> HAVE CapacityGated(rows, batch)
    <3> DEFINE e == NextAvailable(rows, amount)
    <3> HIDE DEF rows, amount, batch
    <3>1. /\ e \in {row.at + Window : row \in rows}
          /\ Used(Left(rows, e)) + amount =< Cap
          /\ \A t \in Int : t < e => Used(Left(rows, t)) + amount > Cap
        BY <2>2, <2>4, <2>8, NextAvailableSound
    <3>2. e \in Int /\ e > clock
        BY <2>1, <2>4, <2>6, <3>1
    <3> QED
        BY <3>1, <3>2
  <2>10. CapacityGated(rows, batch) \/ retries # {}
      BY DEF retries
  <2> HIDE DEF rows, amount, batch
  <2>11. /\ IsFiniteSet(retries \cup fits) /\ retries \cup fits \subseteq Int
         /\ retries \cup fits # {}
         /\ \A u \in retries \cup fits : u > clock
    <3>1. IsFiniteSet(fits)
        BY FS_EmptySet, FS_Singleton
    <3>2. IsFiniteSet(retries \cup fits)
      <4> HIDE DEF fits
      <4> QED
          BY <2>7, <3>1, FS_Union
    <3> QED
        BY <2>7, <2>9, <2>10, <3>2
  <2>12. opens \in retries \cup fits /\ \A u \in retries \cup fits : u =< opens
    <3>1. \E t \in retries \cup fits : \A u \in retries \cup fits : u =< t
      <4> HIDE DEF fits
      <4> QED
          BY <2>11, GreatestExists
    <3>2. opens = Latest(retries \cup fits)
        BY DEF AvailableAt, amount
    <3> HIDE DEF fits
    <3> QED
        BY <3>1, <3>2 DEF Latest
  <2> HIDE DEF opens
  <2>13. opens \in Int /\ opens > clock
      BY <2>11, <2>12
  <2>14. Open(opens)
    <3>1. CASE CapacityGated(rows, batch)
      <4> DEFINE e == NextAvailable(rows, amount)
      <4>1. e \in Int /\ e =< opens /\ Used(Left(rows, e)) + amount =< Cap
          BY <2>9, <2>12, <3>1
      <4> HIDE DEF e
      <4>2. Left(rows, opens) \subseteq Left(rows, e) /\ Left(rows, e) \subseteq rows
          BY <2>1, <2>4, <2>13, <4>1 DEF Left
      <4>3. IsFiniteSet(Left(rows, e)) /\ Weighted(Left(rows, e))
          BY <2>4, <4>2, UsedMonotone
      <4>4. /\ Used(Left(rows, opens)) \in Nat /\ Used(Left(rows, e)) \in Nat
            /\ Used(Left(rows, opens)) =< Used(Left(rows, e))
          BY <4>2, <4>3, UsedMonotone
      <4>5. Used(Left(rows, opens)) + amount =< Cap
          BY <2>1, <2>2, <4>1, <4>4
      <4> QED
          BY <2>1, <2>5, <2>12, <2>13, <4>5
    <3>2. CASE ~CapacityGated(rows, batch)
      <4>1. Used(rows) + amount =< Cap
          BY <2>1, <2>2, <2>4, <2>8, <3>2
      <4>2. Left(rows, opens) \subseteq rows
          BY DEF Left
      <4>3. Used(Left(rows, opens)) \in Nat /\ Used(Left(rows, opens)) =< Used(rows)
          BY <2>4, <4>2, UsedMonotone
      <4>4. Used(Left(rows, opens)) + amount =< Cap
          BY <2>1, <2>2, <2>4, <4>1, <4>3
      <4> QED
          BY <2>1, <2>5, <2>12, <2>13, <4>4
    <3> QED
        BY <3>1, <3>2
  <2>15. ASSUME NEW t \in clock..(opens - 1), Open(t)
         PROVE  FALSE
    <3>1. t \in Int /\ t >= clock /\ t < opens
        BY <2>1, <2>13
    <3>2. opens \notin retries
        BY <2>13, <2>15, <3>1
    <3>3. CapacityGated(rows, batch) /\ opens = NextAvailable(rows, amount)
        BY <2>12, <3>2
    <3>4. Used(Left(rows, t)) + amount > Cap
        BY <2>9, <3>1, <3>3
    <3>5. IsFiniteSet(Left(rows, t)) /\ Weighted(Left(rows, t)) /\ Used(Left(rows, t)) \in Nat
      <4>1. Left(rows, t) \subseteq rows
          BY DEF Left
      <4> QED
          BY <2>4, <4>1, UsedMonotone
    <3> QED
        BY <2>1, <2>2, <2>5, <2>15, <3>1, <3>4, <3>5
  <2> QED
      BY <2>13, <2>14, <2>15 DEF rows, amount, batch, retries, opens
<1> QED
    BY <1>1, LedgersInvariant, PTL
=============================================================================
