------------------------- MODULE RequestGuardProofs -------------------------
(***************************************************************************)
(* The ceiling on requests, for every number of runs and processes, every  *)
(* allowance and every window.  Each request is identified by the run that *)
(* sent it and the count it was charged as; the run has a charge not much  *)
(* older than the request.  So the requests of one day map one to one to   *)
(* pairs of a charge in one accounting window and a count.                 *)
(***************************************************************************)
EXTENDS RequestGuard, FiniteSetTheorems, FunctionTheorems, TLAPS

----------------------------------------------------------------------------
(* The rolling budget: WindowBound is inductive with the type invariant,   *)
(* because a charge is only added to the newest window, whose count was    *)
(* checked.                                                                *)

\* Windows of a finite history are finite sets.
LEMMA WindowFinite ==
    ASSUME BudgetTypeOK, NEW t
    PROVE  IsFiniteSet(InWindow(t)) /\ Cardinality(InWindow(t)) \in Nat
<1>1. InWindow(t) \subseteq charges
    BY DEF InWindow
<1>2. IsFiniteSet(InWindow(t))
    BY <1>1, FS_Subset DEF BudgetTypeOK
<1> QED
    BY <1>2, FS_CardinalityType

\* The ledger history stays well formed: charges are typed and finite.
THEOREM BudgetTypeCorrect == BudgetSpec => []BudgetTypeOK
<1>1. BudgetInit => BudgetTypeOK
    BY FS_EmptySet, BudgetAssumption DEF BudgetInit, BudgetTypeOK
<1>2. BudgetTypeOK /\ [BudgetNext]_budgetVars => BudgetTypeOK'
  <2> SUFFICES ASSUME BudgetTypeOK, [BudgetNext]_budgetVars
               PROVE  BudgetTypeOK'
      OBVIOUS
  <2>1. CASE PassTime
      BY <2>1 DEF PassTime, BudgetTypeOK
  <2>2. ASSUME NEW c \in ChargeRecord, Charge(c)
        PROVE  BudgetTypeOK'
    <3>1. IsFiniteSet(charges \cup {c})
        BY FS_AddElement DEF BudgetTypeOK
    <3> QED
        BY <2>2, <3>1 DEF Charge, BudgetTypeOK
  <2>3. CASE UNCHANGED budgetVars
      BY <2>3 DEF budgetVars, BudgetTypeOK
  <2> QED
      BY <2>1, <2>2, <2>3 DEF BudgetNext
<1> QED
    BY <1>1, <1>2, PTL DEF BudgetSpec

\* No window of Window time units ever contains more than Cap charges, over
\* the whole history and not only over the rows a ledger still shows.
THEOREM BudgetBound == BudgetSpec => []WindowBound
<1>1. BudgetInit => WindowBound
  <2> SUFFICES ASSUME BudgetInit, NEW t \in Times
               PROVE  Cardinality(InWindow(t)) =< Cap
      BY DEF WindowBound
  <2>1. InWindow(t) = {}
      BY DEF BudgetInit, InWindow
  <2> QED
      BY <2>1, FS_EmptySet, BudgetAssumption
<1>2. BudgetTypeOK /\ WindowBound /\ [BudgetNext]_budgetVars => WindowBound'
  <2> SUFFICES ASSUME BudgetTypeOK, WindowBound, [BudgetNext]_budgetVars
               PROVE  WindowBound'
      OBVIOUS
  <2>1. CASE charges' = charges
      BY <2>1 DEF WindowBound, InWindow
  <2>2. ASSUME NEW c \in ChargeRecord, Charge(c)
        PROVE  WindowBound'
    <3> SUFFICES ASSUME NEW t \in Times
                 PROVE  Cardinality(InWindow(t)') =< Cap
        BY DEF WindowBound
    <3>1. /\ charges' = charges \cup {c}
          /\ c \notin charges
          /\ \A e \in charges : e.at =< c.at
          /\ Cardinality(InWindow(c.at)) < Cap
        BY <2>2 DEF Charge
    <3>2. c.at \in Int /\ t \in Int /\ \A e \in charges : e.at \in Int
        BY BudgetAssumption DEF BudgetTypeOK, ChargeRecord
    <3>3. CASE t - Window < c.at /\ c.at =< t
      <4>1. InWindow(t)' = InWindow(t) \cup {c}
          BY <3>1, <3>2, <3>3, BudgetAssumption DEF InWindow
      <4>2. InWindow(t) \subseteq InWindow(c.at)
          BY <3>1, <3>2, <3>3, BudgetAssumption DEF InWindow
      <4>3. Cardinality(InWindow(t)) =< Cardinality(InWindow(c.at))
          BY <4>2, WindowFinite, FS_Subset
      <4>4. c \notin InWindow(t)
          BY <3>1 DEF InWindow
      <4>5. Cardinality(InWindow(t) \cup {c}) = Cardinality(InWindow(t)) + 1
          BY <4>4, WindowFinite, FS_AddElement
      <4> QED
          BY <4>1, <4>3, <4>5, <3>1, WindowFinite, BudgetAssumption
    <3>4. CASE ~(t - Window < c.at /\ c.at =< t)
      <4>1. InWindow(t)' = InWindow(t)
          BY <3>1, <3>4 DEF InWindow
      <4> QED
          BY <4>1 DEF WindowBound
    <3> QED
        BY <3>3, <3>4
  <2> QED
      BY <2>1, <2>2 DEF BudgetNext, PassTime, budgetVars
<1> QED
    BY <1>1, <1>2, BudgetTypeCorrect, PTL DEF BudgetSpec

----------------------------------------------------------------------------
(* The guard *)

\* What is known of a process of run r, by its record x.
LegalProc(r, x) ==
    /\ x.stage # "idle" => job[r].stage = "guarded"
    /\ x.stage = "holding" => x.starts = counter[r]
    /\ x.stage = "charged" =>
          /\ x.starts \in 1..counter[r]
          /\ x.since < job[r].anchor + Duration
          /\ clock =< x.since + Lag

\* Two processes of one run do not hold the lock together, and are not
\* charged the same count.
Apart(x, y) ==
    /\ ~(x.stage = "holding" /\ y.stage = "holding")
    /\ ~(x.stage = "charged" /\ y.stage = "charged" /\ x.starts = y.starts)

Paid(r) == \E c \in charges : c.who = r /\ job[r].anchor =< c.at

JobInv == \A r \in Clients : job[r].stage \in {"reserved", "guarded"} => Paid(r)

ProcInv ==
    \A r \in Clients :
        /\ \A p \in Processes : LegalProc(r, proc[r][p])
        /\ \A p, o \in Processes : p # o => Apart(proc[r][p], proc[r][o])
        /\ \A p \in Processes, q \in requests :
              ~(/\ proc[r][p].stage = "charged" /\ q.who = r
                /\ q.number = proc[r][p].starts)

\* A request is covered by a charge of its run that is not much older.
Covered(q) ==
    \E c \in charges : /\ c.who = q.who
                       /\ c.at =< q.at
                       /\ q.at < c.at + Duration + Lag

RequestInv ==
    /\ \A q \in requests : q.number =< counter[q.who] /\ Covered(q)
    /\ \A q, o \in requests : q.who = o.who /\ q.number = o.number => q = o

GuardInv ==
    /\ GuardTypeOK
    /\ \A c \in charges : c.at =< clock
    /\ JobInv
    /\ ProcInv
    /\ RequestInv

----------------------------------------------------------------------------
(* Types and steps *)

LEMMA GuardConstants ==
    /\ Allowance \in Nat /\ Duration \in Nat /\ Lag \in Nat /\ Rolling \in Nat
    /\ Window \in Nat /\ Cap \in Nat
    /\ Times \subseteq Int
    /\ Rolling + Duration + Lag =< Window
BY GuardAssumption, BudgetAssumption

\* A process changes, and nothing else but possibly the count of its run.
LEMMA ProcUpdate ==
    ASSUME GuardTypeOK, NEW r \in Clients, NEW p \in Processes,
           NEW x \in ProcRecord, proc' = [proc EXCEPT ![r][p] = x]
    PROVE  /\ proc' \in [Clients -> [Processes -> ProcRecord]]
           /\ proc'[r][p] = x
           /\ \A s \in Clients, o \in Processes :
                 <<s, o>> # <<r, p>> => proc'[s][o] = proc[s][o]
BY DEF GuardTypeOK

LEMMA GuardInvInit == GuardInit => GuardInv
<1> SUFFICES ASSUME GuardInit PROVE GuardInv
    OBVIOUS
<1> USE DEF GuardInit
<1>1. BudgetTypeOK
    BY FS_EmptySet, BudgetAssumption DEF BudgetInit, BudgetTypeOK
<1>2. GuardTypeOK
    BY <1>1, GuardConstants, BudgetAssumption
       DEF GuardTypeOK, JobRecord, ProcRecord, IdleProc
<1>3. JobInv
    BY DEF JobInv
<1>4. ProcInv
    BY DEF ProcInv, LegalProc, Apart, IdleProc
<1>5. RequestInv
    BY DEF RequestInv
<1> QED
    BY <1>2, <1>3, <1>4, <1>5 DEF GuardInv, BudgetInit

\* Time passes.
LEMMA PassTimeKeeps == GuardInv /\ GuardPassTime => GuardInv'
<1> SUFFICES ASSUME GuardInv, GuardPassTime PROVE GuardInv'
    OBVIOUS
<1> USE DEF GuardPassTime, PassTime
<1>1. clock \in Int /\ clock' = clock + 1 /\ \A c \in charges : c.at \in Int
    BY GuardConstants DEF GuardInv, GuardTypeOK, BudgetTypeOK, ChargeRecord
<1>2. GuardTypeOK'
    BY DEF GuardInv, GuardTypeOK, BudgetTypeOK
<1>3. (\A c \in charges : c.at =< clock)'
    BY <1>1 DEF GuardInv
<1>4. JobInv'
    BY DEF GuardInv, JobInv, Paid
<1>5. ProcInv'
  <2>1. ASSUME NEW r \in Clients, NEW p \in Processes
        PROVE  LegalProc(r, proc[r][p])'
    <3>1. proc[r][p] \in ProcRecord
        BY DEF GuardInv, GuardTypeOK
    <3>2. proc[r][p].since \in Int
        BY <3>1, GuardConstants DEF ProcRecord
    <3>3. LegalProc(r, proc[r][p])
        BY DEF GuardInv, ProcInv
    <3> QED
        BY <3>2, <3>3, <1>1, GuardConstants DEF LegalProc
  <2> QED
      BY <2>1 DEF GuardInv, ProcInv, Apart
<1>6. RequestInv'
    BY DEF GuardInv, RequestInv, Covered
<1> QED
    BY <1>2, <1>3, <1>4, <1>5, <1>6 DEF GuardInv

\* A run notes its anchor.
LEMMA AnchorKeeps ==
    ASSUME GuardInv, NEW r \in Clients, Anchor(r)
    PROVE  GuardInv'
<1> USE DEF Anchor
<1>1. GuardTypeOK'
    BY DEF GuardInv, GuardTypeOK, BudgetTypeOK, JobRecord
<1>2. \A s \in Clients : s # r => job'[s] = job[s]
    BY DEF GuardInv, GuardTypeOK
<1>3. job'[r].stage = "anchored"
    BY DEF GuardInv, GuardTypeOK
<1>4. JobInv'
    BY <1>2, <1>3 DEF GuardInv, JobInv, Paid
<1>5. ProcInv'
  <2>1. ASSUME NEW s \in Clients, NEW p \in Processes
        PROVE  LegalProc(s, proc[s][p])'
    <3>1. LegalProc(s, proc[s][p])
        BY DEF GuardInv, ProcInv
    <3> QED
        BY <3>1, <1>2 DEF LegalProc
  <2> QED
      BY <2>1 DEF GuardInv, ProcInv, Apart
<1>6. RequestInv'
    BY DEF GuardInv, RequestInv, Covered
<1> QED
    BY <1>1, <1>4, <1>5, <1>6 DEF GuardInv

\* A run is charged.
LEMMA ReservedKeeps ==
    ASSUME GuardInv, NEW r \in Clients, NEW at \in Times, Reserved(r, at)
    PROVE  GuardInv'
<1> DEFINE c == [who |-> r, at |-> at]
<1>1. /\ job[r].stage = "anchored" /\ job[r].anchor =< at
      /\ charges' = charges \cup {c} /\ at =< clock
      /\ job' = [job EXCEPT ![r].stage = "reserved"]
      /\ UNCHANGED <<clock, counter, proc, requests>>
    BY DEF Reserved, Charge
<1>2. GuardTypeOK'
  <2>1. IsFiniteSet(charges \cup {c})
      BY FS_AddElement DEF GuardInv, GuardTypeOK, BudgetTypeOK
  <2> QED
      BY <1>1, <2>1 DEF GuardInv, GuardTypeOK, BudgetTypeOK, JobRecord, ChargeRecord
<1>3. /\ \A s \in Clients : s # r => job'[s] = job[s]
      /\ job'[r].anchor = job[r].anchor /\ job'[r].stage = "reserved"
    BY <1>1 DEF GuardInv, GuardTypeOK
<1>4. (\A d \in charges : d.at =< clock)'
    BY <1>1 DEF GuardInv
<1>5. JobInv'
  <2> SUFFICES ASSUME NEW s \in Clients, job'[s].stage \in {"reserved", "guarded"}
               PROVE  \E d \in charges' : d.who = s /\ job'[s].anchor =< d.at
      BY DEF JobInv, Paid
  <2>1. CASE s = r
    <3>1. c \in charges' /\ c.who = s /\ job'[s].anchor =< c.at
        BY <1>1, <1>3, <2>1
    <3> QED
        BY <3>1
  <2>2. CASE s # r
    <3>1. Paid(s)
        BY <1>3, <2>2 DEF GuardInv, JobInv
    <3> QED
        BY <1>1, <1>3, <2>2, <3>1 DEF Paid
  <2> QED
      BY <2>1, <2>2
<1>6. ProcInv'
  <2>1. ASSUME NEW s \in Clients, NEW p \in Processes
        PROVE  LegalProc(s, proc[s][p])'
    <3>1. LegalProc(s, proc[s][p])
        BY DEF GuardInv, ProcInv
    <3> QED
        BY <3>1, <1>1, <1>3 DEF LegalProc
  <2> QED
      BY <2>1, <1>1 DEF GuardInv, ProcInv, Apart
<1>7. RequestInv'
    BY <1>1 DEF GuardInv, RequestInv, Covered
<1> QED
    BY <1>2, <1>4, <1>5, <1>6, <1>7 DEF GuardInv

\* A run creates its counter.
LEMMA InitializeKeeps ==
    ASSUME GuardInv, NEW r \in Clients, Initialize(r)
    PROVE  GuardInv'
<1> USE DEF Initialize
<1>1. GuardTypeOK'
    BY DEF GuardInv, GuardTypeOK, BudgetTypeOK, JobRecord
<1>2. /\ \A s \in Clients : s # r => job'[s] = job[s]
      /\ job'[r].anchor = job[r].anchor /\ job'[r].stage = "guarded"
    BY DEF GuardInv, GuardTypeOK
<1>3. JobInv'
    BY <1>2 DEF GuardInv, JobInv, Paid
<1>4. ProcInv'
  <2>1. ASSUME NEW s \in Clients, NEW p \in Processes
        PROVE  LegalProc(s, proc[s][p])'
    <3>1. LegalProc(s, proc[s][p])
        BY DEF GuardInv, ProcInv
    <3> QED
        BY <3>1, <1>2 DEF LegalProc
  <2> QED
      BY <2>1 DEF GuardInv, ProcInv, Apart
<1>5. RequestInv'
    BY DEF GuardInv, RequestInv, Covered
<1> QED
    BY <1>1, <1>3, <1>4, <1>5 DEF GuardInv

----------------------------------------------------------------------------
(* The processes *)

\* A process takes the lock.
LEMMA LockKeeps ==
    ASSUME GuardInv, NEW r \in Clients, NEW p \in Processes, Lock(r, p)
    PROVE  GuardInv'
<1> DEFINE x == [proc[r][p] EXCEPT !.stage = "holding", !.starts = counter[r]]
<1>0. proc[r][p] \in ProcRecord /\ counter[r] \in Nat
    BY GuardConstants DEF GuardInv, GuardTypeOK
<1>1. x \in ProcRecord
    BY <1>0 DEF ProcRecord
<1>2. x.stage = "holding" /\ x.starts = counter[r]
    BY DEF GuardInv, GuardTypeOK, ProcRecord
<1>3. proc' = [proc EXCEPT ![r][p] = x]
    BY DEF Lock, GuardInv, GuardTypeOK
<1> HIDE DEF x
<1>4. /\ proc' \in [Clients -> [Processes -> ProcRecord]]
      /\ proc'[r][p] = x
      /\ \A s \in Clients, o \in Processes :
            <<s, o>> # <<r, p>> => proc'[s][o] = proc[s][o]
    BY <1>1, <1>3, ProcUpdate DEF GuardInv
<1>5. /\ job[r].stage = "guarded"
      /\ \A o \in Processes : proc[r][o].stage # "holding"
      /\ UNCHANGED <<clock, charges, job, counter, requests>>
    BY DEF Lock, Unlocked
<1>6. GuardTypeOK'
    BY <1>4, <1>5 DEF GuardInv, GuardTypeOK, BudgetTypeOK
<1>7. ProcInv'
  <2>1. ASSUME NEW s \in Clients, NEW o \in Processes
        PROVE  LegalProc(s, proc[s][o])'
      BY <1>2, <1>4, <1>5 DEF GuardInv, ProcInv, LegalProc
  <2>2. ASSUME NEW s \in Clients, NEW o \in Processes, NEW u \in Processes, o # u
        PROVE  Apart(proc[s][o], proc[s][u])'
      BY <2>2, <1>2, <1>4, <1>5 DEF GuardInv, ProcInv, Apart
  <2>3. ASSUME NEW s \in Clients, NEW o \in Processes, NEW q \in requests
        PROVE  ~(/\ proc'[s][o].stage = "charged" /\ q.who = s
                 /\ q.number = proc'[s][o].starts)
      BY <1>2, <1>4 DEF GuardInv, ProcInv
  <2> QED
      BY <2>1, <2>2, <2>3, <1>5 DEF ProcInv
<1>8. JobInv' /\ RequestInv'
    BY <1>5 DEF GuardInv, JobInv, Paid, RequestInv, Covered
<1> QED
    BY <1>5, <1>6, <1>7, <1>8 DEF GuardInv

\* A process becomes idle, and nothing else changes.
LEMMA IdleKeeps ==
    ASSUME GuardInv, NEW r \in Clients, NEW p \in Processes,
           proc' = [proc EXCEPT ![r][p] = IdleProc],
           UNCHANGED <<clock, charges, job, counter, requests>>
    PROVE  GuardInv'
<1>1. IdleProc \in ProcRecord /\ IdleProc.stage = "idle"
    BY BudgetAssumption DEF IdleProc, ProcRecord
<1>2. /\ proc' \in [Clients -> [Processes -> ProcRecord]]
      /\ proc'[r][p] = IdleProc
      /\ \A s \in Clients, o \in Processes :
            <<s, o>> # <<r, p>> => proc'[s][o] = proc[s][o]
  <2>1. GuardTypeOK /\ IdleProc \in ProcRecord
      BY <1>1 DEF GuardInv
  <2> QED
      BY <2>1, ProcUpdate
<1>3. GuardTypeOK'
    BY <1>2 DEF GuardInv, GuardTypeOK, BudgetTypeOK
<1>4. ProcInv'
  <2>1. ASSUME NEW s \in Clients, NEW o \in Processes
        PROVE  LegalProc(s, proc[s][o])'
      BY <1>1, <1>2 DEF GuardInv, ProcInv, LegalProc
  <2>2. ASSUME NEW s \in Clients, NEW o \in Processes, NEW u \in Processes, o # u
        PROVE  Apart(proc[s][o], proc[s][u])'
      BY <2>2, <1>1, <1>2 DEF GuardInv, ProcInv, Apart
  <2>3. ASSUME NEW s \in Clients, NEW o \in Processes, NEW q \in requests
        PROVE  ~(/\ proc'[s][o].stage = "charged" /\ q.who = s
                 /\ q.number = proc'[s][o].starts)
      BY <1>1, <1>2 DEF GuardInv, ProcInv
  <2> QED
      BY <2>1, <2>2, <2>3 DEF ProcInv
<1>5. JobInv' /\ RequestInv'
    BY DEF GuardInv, JobInv, Paid, RequestInv, Covered
<1> QED
    BY <1>3, <1>4, <1>5 DEF GuardInv

\* A process that holds the lock is charged the next count.
LEMMA ChargedKeeps ==
    ASSUME GuardInv, NEW r \in Clients, NEW p \in Processes,
           proc[r][p].stage = "holding", InTransportWindow(r), Left(r, p),
           Consume(r, p)
    PROVE  GuardInv'
<1> DEFINE x == [stage |-> "charged", starts |-> counter[r] + 1, since |-> clock]
<1>1. counter[r] \in Nat /\ clock \in Times /\ clock \in Int /\ clock =< clock + Lag
    BY GuardConstants DEF GuardInv, GuardTypeOK, BudgetTypeOK
<1>2. proc[r][p].starts = counter[r] /\ job[r].stage = "guarded"
    BY DEF GuardInv, ProcInv, LegalProc
<1>3. /\ proc' = [proc EXCEPT ![r][p] = x]
      /\ counter' = [counter EXCEPT ![r] = counter[r] + 1]
      /\ UNCHANGED <<clock, charges, job, requests>>
    BY <1>2 DEF Consume, GuardInv, GuardTypeOK, ProcRecord
<1>4. x \in ProcRecord
    BY <1>1 DEF ProcRecord
<1>5. x.stage = "charged" /\ x.starts = counter[r] + 1 /\ x.since = clock
    OBVIOUS
<1> HIDE DEF x
<1>6. /\ proc' \in [Clients -> [Processes -> ProcRecord]]
      /\ proc'[r][p] = x
      /\ \A s \in Clients, o \in Processes :
            <<s, o>> # <<r, p>> => proc'[s][o] = proc[s][o]
    BY <1>3, <1>4, ProcUpdate DEF GuardInv
<1>7. /\ counter' \in [Clients -> 0..Allowance]
      /\ counter'[r] = counter[r] + 1
      /\ \A s \in Clients : s # r => counter'[s] = counter[s]
    BY <1>1, <1>2, <1>3, GuardConstants DEF GuardInv, GuardTypeOK, Left
<1>8. GuardTypeOK'
    BY <1>3, <1>6, <1>7 DEF GuardInv, GuardTypeOK, BudgetTypeOK
<1>9. ProcInv'
  <2>1. \A o \in Processes : o # p =>
            /\ proc[r][o].stage # "holding"
            /\ proc[r][o].stage = "charged" => proc[r][o].starts \in 1..counter[r]
      BY DEF GuardInv, ProcInv, Apart, LegalProc
  <2>2. ASSUME NEW s \in Clients, NEW o \in Processes
        PROVE  LegalProc(s, proc[s][o])'
    <3>1. CASE s = r /\ o = p
        BY <3>1, <1>1, <1>2, <1>3, <1>5, <1>6, <1>7 DEF LegalProc, InTransportWindow
    <3>2. CASE s = r /\ o # p
      <4>1. LegalProc(r, proc[r][o]) /\ proc'[r][o] = proc[r][o]
          BY <3>2, <1>6 DEF GuardInv, ProcInv
      <4> QED
          BY <4>1, <3>2, <2>1, <1>1, <1>3, <1>7 DEF LegalProc
    <3>3. CASE s # r
      <4>1. LegalProc(s, proc[s][o]) /\ proc'[s][o] = proc[s][o]
          BY <3>3, <1>6 DEF GuardInv, ProcInv
      <4> QED
          BY <4>1, <3>3, <1>3, <1>7 DEF LegalProc
    <3> QED
        BY <3>1, <3>2, <3>3
  <2>3. ASSUME NEW s \in Clients, NEW o \in Processes, NEW u \in Processes, o # u
        PROVE  Apart(proc[s][o], proc[s][u])'
    <3>1. Apart(proc[s][o], proc[s][u])
        BY <2>3 DEF GuardInv, ProcInv
    <3>2. CASE s = r /\ o = p
        BY <3>2, <2>1, <2>3, <1>1, <1>5, <1>6 DEF Apart
    <3>3. CASE s = r /\ u = p
        BY <3>3, <2>1, <2>3, <1>1, <1>5, <1>6 DEF Apart
    <3>4. CASE s # r \/ (o # p /\ u # p)
        BY <3>4, <3>1, <1>6 DEF Apart
    <3> QED
        BY <3>2, <3>3, <3>4
  <2>4. ASSUME NEW s \in Clients, NEW o \in Processes, NEW q \in requests
        PROVE  ~(/\ proc'[s][o].stage = "charged" /\ q.who = s
                 /\ q.number = proc'[s][o].starts)
    <3>1. q.number =< counter[q.who] /\ q.number \in Nat
        BY DEF GuardInv, RequestInv, GuardTypeOK, Request
    <3>2. CASE s = r /\ o = p
        BY <3>1, <3>2, <1>1, <1>5, <1>6
    <3>3. CASE ~(s = r /\ o = p)
        BY <3>3, <1>6 DEF GuardInv, ProcInv
    <3> QED
        BY <3>2, <3>3
  <2> QED
      BY <2>2, <2>3, <2>4, <1>3 DEF ProcInv
<1>10. RequestInv'
  <2>1. ASSUME NEW q \in requests
        PROVE  q.number =< counter'[q.who]
    <3>1. q.number =< counter[q.who] /\ q.number \in Nat /\ q.who \in Clients
        BY DEF GuardInv, RequestInv, GuardTypeOK, Request
    <3> QED
        BY <3>1, <1>1, <1>7
  <2> QED
      BY <2>1, <1>3 DEF GuardInv, RequestInv, Covered
<1>11. JobInv'
    BY <1>3 DEF GuardInv, JobInv, Paid
<1> QED
    BY <1>3, <1>8, <1>9, <1>10, <1>11 DEF GuardInv

\* consume, whether it charges or blocks.
LEMMA ConsumeKeeps ==
    ASSUME GuardInv, NEW r \in Clients, NEW p \in Processes, Consume(r, p)
    PROVE  GuardInv'
<1>1. CASE InTransportWindow(r) /\ Left(r, p)
    BY <1>1, ChargedKeeps DEF Consume
<1>2. CASE ~(InTransportWindow(r) /\ Left(r, p))
    BY <1>2, IdleKeeps DEF Consume
<1> QED
    BY <1>1, <1>2

\* A charged process sends its request.
LEMMA SendKeeps ==
    ASSUME GuardInv, NEW r \in Clients, NEW p \in Processes, Send(r, p)
    PROVE  GuardInv'
<1> DEFINE n == [who |-> r, by |-> p, number |-> proc[r][p].starts, at |-> clock]
<1>1. /\ proc[r][p].stage = "charged"
      /\ requests' = requests \cup {n}
      /\ proc' = [proc EXCEPT ![r][p] = IdleProc]
      /\ UNCHANGED <<clock, charges, job, counter>>
    BY DEF Send
<1>2. /\ proc[r][p] \in ProcRecord /\ counter[r] \in Nat
      /\ clock \in Times /\ clock \in Int
      /\ job[r].anchor \in Int /\ proc[r][p].since \in Int
      /\ \A c \in charges : c.at \in Int
  <2>1. /\ proc[r][p] \in ProcRecord /\ job[r] \in JobRecord
        /\ counter[r] \in 0..Allowance /\ clock \in Times /\ charges \subseteq ChargeRecord
      BY DEF GuardInv, GuardTypeOK, BudgetTypeOK
  <2>2. /\ job[r].anchor \in Times /\ proc[r][p].since \in Times
        /\ \A c \in charges : c.at \in Times
      BY <2>1 DEF ProcRecord, JobRecord, ChargeRecord
  <2>3. counter[r] \in Nat
      BY <2>1, GuardConstants
  <2> QED
      BY <2>1, <2>2, <2>3, GuardConstants
<1>3. /\ job[r].stage = "guarded"
      /\ proc[r][p].starts \in 1..counter[r]
      /\ proc[r][p].since < job[r].anchor + Duration
      /\ clock =< proc[r][p].since + Lag
    BY <1>1 DEF GuardInv, ProcInv, LegalProc
<1>4. n \in Request /\ n.number =< counter[n.who]
    BY <1>2, <1>3 DEF Request
<1>5. Covered(n)
  <2>1. PICK c \in charges : c.who = r /\ job[r].anchor =< c.at
      BY <1>3 DEF GuardInv, JobInv, Paid
  <2>2. c.at =< clock
      BY DEF GuardInv
  <2> QED
      BY <2>1, <2>2, <1>2, <1>3, GuardConstants DEF Covered
<1>6. \A q \in requests : ~(q.who = n.who /\ q.number = n.number)
    BY <1>1 DEF GuardInv, ProcInv
<1>7. n.who = r /\ n.number = proc[r][p].starts
    OBVIOUS
<1> HIDE DEF n
<1>8. IdleProc \in ProcRecord /\ IdleProc.stage = "idle"
    BY BudgetAssumption DEF IdleProc, ProcRecord
<1>9. /\ proc' \in [Clients -> [Processes -> ProcRecord]]
      /\ proc'[r][p] = IdleProc
      /\ \A s \in Clients, o \in Processes :
            <<s, o>> # <<r, p>> => proc'[s][o] = proc[s][o]
  <2>1. GuardTypeOK /\ proc' = [proc EXCEPT ![r][p] = IdleProc]
      BY <1>1 DEF GuardInv
  <2> QED
      BY <2>1, <1>8, ProcUpdate
<1>10. GuardTypeOK'
    BY <1>1, <1>4, <1>9 DEF GuardInv, GuardTypeOK, BudgetTypeOK
<1>11. ProcInv'
  <2>1. ASSUME NEW s \in Clients, NEW o \in Processes
        PROVE  LegalProc(s, proc[s][o])'
      BY <1>1, <1>8, <1>9 DEF GuardInv, ProcInv, LegalProc
  <2>2. ASSUME NEW s \in Clients, NEW o \in Processes, NEW u \in Processes, o # u
        PROVE  Apart(proc[s][o], proc[s][u])'
      BY <2>2, <1>8, <1>9 DEF GuardInv, ProcInv, Apart
  <2>3. ASSUME NEW s \in Clients, NEW o \in Processes, NEW q \in requests'
        PROVE  ~(/\ proc'[s][o].stage = "charged" /\ q.who = s
                 /\ q.number = proc'[s][o].starts)
    <3>1. CASE s = r /\ o = p
        BY <3>1, <1>8, <1>9
    <3>2. CASE ~(s = r /\ o = p) /\ q \in requests
        BY <3>2, <1>9 DEF GuardInv, ProcInv
    <3>3. CASE ~(s = r /\ o = p) /\ q = n
      <4>1. proc'[s][o] = proc[s][o]
          BY <3>3, <1>9
      <4>2. CASE s = r
        <5>1. Apart(proc[r][p], proc[r][o])
            BY <3>3, <4>2 DEF GuardInv, ProcInv
        <5> QED
            BY <5>1, <4>1, <4>2, <3>3, <1>1, <1>7 DEF Apart
      <4> QED
          BY <4>2, <3>3, <1>7
    <3> QED
        BY <3>1, <3>2, <3>3, <1>1
  <2> QED
      BY <2>1, <2>2, <2>3 DEF ProcInv
<1>12. RequestInv'
  <2>1. ASSUME NEW q \in requests'
        PROVE  q.number =< counter[q.who] /\ Covered(q)
      BY <1>1, <1>4, <1>5 DEF GuardInv, RequestInv
  <2>2. ASSUME NEW q \in requests', NEW o \in requests',
               q.who = o.who, q.number = o.number
        PROVE  q = o
      BY <2>2, <1>1, <1>6 DEF GuardInv, RequestInv
  <2> QED
      BY <2>1, <2>2, <1>1 DEF RequestInv, Covered
<1>13. JobInv'
    BY <1>1 DEF GuardInv, JobInv, Paid
<1> QED
    BY <1>1, <1>10, <1>11, <1>12, <1>13 DEF GuardInv

\* A run ends, and its processes with it.
LEMMA EndKeeps ==
    ASSUME GuardInv, NEW r \in Clients, End(r)
    PROVE  GuardInv'
<1> USE DEF End
<1>1. IdleProc \in ProcRecord /\ IdleProc.stage = "idle"
    BY BudgetAssumption DEF IdleProc, ProcRecord
<1>2. /\ proc' \in [Clients -> [Processes -> ProcRecord]]
      /\ \A o \in Processes : proc'[r][o] = IdleProc
      /\ \A s \in Clients : s # r => proc'[s] = proc[s]
    BY <1>1 DEF GuardInv, GuardTypeOK
<1>3. /\ \A s \in Clients : s # r => job'[s] = job[s]
      /\ job'[r].stage = "over"
    BY DEF GuardInv, GuardTypeOK
<1>4. GuardTypeOK'
    BY <1>2 DEF GuardInv, GuardTypeOK, BudgetTypeOK, JobRecord
<1>5. ProcInv'
  <2>1. ASSUME NEW s \in Clients, NEW o \in Processes
        PROVE  LegalProc(s, proc[s][o])'
      BY <1>1, <1>2, <1>3 DEF GuardInv, ProcInv, LegalProc
  <2>2. ASSUME NEW s \in Clients, NEW o \in Processes, NEW u \in Processes, o # u
        PROVE  Apart(proc[s][o], proc[s][u])'
      BY <2>2, <1>1, <1>2 DEF GuardInv, ProcInv, Apart
  <2>3. ASSUME NEW s \in Clients, NEW o \in Processes, NEW q \in requests
        PROVE  ~(/\ proc'[s][o].stage = "charged" /\ q.who = s
                 /\ q.number = proc'[s][o].starts)
      BY <1>1, <1>2 DEF GuardInv, ProcInv
  <2> QED
      BY <2>1, <2>2, <2>3 DEF ProcInv
<1>6. JobInv'
    BY <1>3 DEF GuardInv, JobInv, Paid
<1>7. RequestInv'
    BY DEF GuardInv, RequestInv, Covered
<1> QED
    BY <1>4, <1>5, <1>6, <1>7 DEF GuardInv

----------------------------------------------------------------------------
(* The theorems *)

\* Counts and charges stay consistent: a process holds the lock alone, no
\* count is handed out twice, and every request has a charge of its run that
\* is at most the transport window and the lag older.
THEOREM GuardInvariant == GuardSpec => []GuardInv
<1>1. GuardInv /\ [GuardNext]_vars => GuardInv'
  <2> SUFFICES ASSUME GuardInv, [GuardNext]_vars PROVE GuardInv'
      OBVIOUS
  <2>1. CASE GuardPassTime
      BY <2>1, PassTimeKeeps
  <2>2. ASSUME NEW r \in Clients, Anchor(r) PROVE GuardInv'
      BY <2>2, AnchorKeeps
  <2>3. ASSUME NEW r \in Clients, NEW at \in Times, Reserved(r, at) PROVE GuardInv'
      BY <2>3, ReservedKeeps
  <2>4. ASSUME NEW r \in Clients, Initialize(r) PROVE GuardInv'
      BY <2>4, InitializeKeeps
  <2>5. ASSUME NEW r \in Clients, NEW p \in Processes, Lock(r, p) PROVE GuardInv'
      BY <2>5, LockKeeps
  <2>6. ASSUME NEW r \in Clients, NEW p \in Processes, Consume(r, p) PROVE GuardInv'
      BY <2>6, ConsumeKeeps
  <2>7. ASSUME NEW r \in Clients, NEW p \in Processes, Send(r, p) PROVE GuardInv'
      BY <2>7, SendKeeps
  <2>8. ASSUME NEW r \in Clients, NEW p \in Processes, Die(r, p) PROVE GuardInv'
      BY <2>8, IdleKeeps DEF Die
  <2>9. ASSUME NEW r \in Clients, End(r) PROVE GuardInv'
      BY <2>9, EndKeeps
  <2>10. CASE UNCHANGED vars
      BY <2>10 DEF vars, GuardInv, GuardTypeOK, BudgetTypeOK, JobInv, Paid, ProcInv,
                   LegalProc, Apart, RequestInv, Covered
  <2> QED
      BY <2>1, <2>2, <2>3, <2>4, <2>5, <2>6, <2>7, <2>8, <2>9, <2>10 DEF GuardNext
<1> QED
    BY <1>1, GuardInvInit, PTL DEF GuardSpec

\* The guard never counts past its allowance, and keeps its types.
THEOREM GuardTypeCorrect == GuardSpec => []GuardTypeOK
<1>1. GuardInv => GuardTypeOK
    BY DEF GuardInv
<1> QED
    BY <1>1, GuardInvariant, PTL

\* The guard charges nothing itself: its steps are steps of the budget.
LEMMA GuardKeepsBudget == GuardSpec => BudgetSpec
<1>1. GuardInit => BudgetInit
    BY DEF GuardInit
<1>2. [GuardNext]_vars => [BudgetNext]_budgetVars
  <2> SUFFICES ASSUME [GuardNext]_vars PROVE [BudgetNext]_budgetVars
      OBVIOUS
  <2>1. CASE GuardPassTime
      BY <2>1 DEF GuardPassTime, BudgetNext
  <2>2. ASSUME NEW r \in Clients, NEW at \in Times, Reserved(r, at)
        PROVE  BudgetNext
    <3>1. [who |-> r, at |-> at] \in ChargeRecord
        BY DEF ChargeRecord
    <3> QED
        BY <2>2, <3>1 DEF Reserved, BudgetNext
  <2>3. ASSUME NEW r \in Clients,
               \/ Anchor(r) \/ Initialize(r) \/ End(r)
               \/ \E p \in Processes :
                     Lock(r, p) \/ Consume(r, p) \/ Send(r, p) \/ Die(r, p)
        PROVE  UNCHANGED budgetVars
      BY <2>3 DEF Anchor, Initialize, Lock, Consume, Send, Die, End, budgetVars
  <2>4. CASE UNCHANGED vars
      BY <2>4 DEF vars, budgetVars
  <2> QED
      BY <2>1, <2>2, <2>3, <2>4 DEF GuardNext
<1> QED
    BY <1>1, <1>2, PTL DEF GuardSpec, BudgetSpec

\* The count a run reports covers the requests it sent: the numbers of the
\* requests are distinct and none exceeds the count.
THEOREM CountCoversRequests == GuardSpec => []CountCovers
<1>1. GuardInv => CountCovers
  <2> SUFFICES ASSUME GuardInv, NEW r \in Clients
               PROVE  Cardinality({q \in requests : q.who = r}) =< counter[r]
      BY DEF CountCovers
  <2> DEFINE sent == {q \in requests : q.who = r}
             f == [q \in sent |-> q.number]
  <2>1. counter[r] \in Nat
      BY GuardConstants DEF GuardInv, GuardTypeOK
  <2>2. f \in [sent -> 1..counter[r]]
      BY <2>1 DEF GuardInv, RequestInv, GuardTypeOK, Request
  <2>3. \A q, o \in sent : f[q] = f[o] => q = o
      BY DEF GuardInv, RequestInv
  <2>4. f \in Injection(sent, 1..counter[r])
      BY <2>2, <2>3 DEF Injection, IsInjective
  <2>5. IsFiniteSet(1..counter[r]) /\ Cardinality(1..counter[r]) = counter[r]
      BY <2>1, FS_Interval
  <2> HIDE DEF f
  <2> QED
      BY <2>4, <2>5, FS_Injection
<1> QED
    BY <1>1, GuardInvariant, PTL

\* No rolling day sees more requests than the cap times the allowance, for
\* every number of runs and processes: the requests of the day that ends at t
\* map one to one to the charges of the window that ends at t, with a count.
THEOREM CeilingHolds == GuardSpec => []RollingCeiling
<1>1. GuardInv /\ WindowBound => RollingCeiling
  <2> SUFFICES ASSUME GuardInv, WindowBound, NEW t \in Times
               PROVE  Cardinality({q \in requests : t - Rolling < q.at /\ q.at =< t})
                         =< Cap * Allowance
      BY DEF RollingCeiling
  <2> DEFINE day == {q \in requests : t - Rolling < q.at /\ q.at =< t}
             pays(q) == CHOOSE c \in charges : /\ c.who = q.who
                                               /\ c.at =< q.at
                                               /\ q.at < c.at + Duration + Lag
             slots == InWindow(t) \X (1..Allowance)
             f == [q \in day |-> <<pays(q), q.number>>]
  <2>1. \A c \in charges : c.at \in Int
      BY GuardConstants DEF GuardInv, GuardTypeOK, BudgetTypeOK, ChargeRecord
  <2>2. \A q \in requests : q \in Request /\ q.at \in Int
      BY GuardConstants DEF GuardInv, GuardTypeOK, Request
  <2>3. \A q \in day : /\ pays(q) \in charges
                       /\ pays(q).who = q.who
                       /\ pays(q).at =< q.at
                       /\ q.at < pays(q).at + Duration + Lag
      BY DEF GuardInv, RequestInv, Covered
  <2> HIDE DEF pays
  <2>4. \A q \in day : pays(q) \in InWindow(t)
    <3> SUFFICES ASSUME NEW q \in day
                 PROVE  t - Window < pays(q).at /\ pays(q).at =< t
        BY <2>3 DEF InWindow
    <3>1. pays(q).at \in Int /\ q.at \in Int /\ t \in Int
        BY <2>1, <2>2, <2>3, GuardConstants
    <3> QED
        BY <2>3, <3>1, GuardConstants
  <2>5. \A q \in day : q.number \in 1..Allowance
    <3> SUFFICES ASSUME NEW q \in day
                 PROVE  q.number \in 1..Allowance
        OBVIOUS
    <3>1. /\ q.who \in Clients /\ q.number \in Nat \ {0}
          /\ q.number =< counter[q.who]
        BY <2>2 DEF GuardInv, RequestInv, Request
    <3>2. counter[q.who] \in 0..Allowance
        BY <3>1 DEF GuardInv, GuardTypeOK
    <3> QED
        BY <3>1, <3>2, GuardConstants
  <2>6. f \in [day -> slots]
      BY <2>4, <2>5
  <2>7. \A q, o \in day : f[q] = f[o] => q = o
    <3> SUFFICES ASSUME NEW q \in day, NEW o \in day, f[q] = f[o]
                 PROVE  q = o
        OBVIOUS
    <3>1. pays(q) = pays(o) /\ q.number = o.number
        OBVIOUS
    <3>2. q.who = o.who
        BY <3>1, <2>3
    <3> QED
        BY <3>1, <3>2 DEF GuardInv, RequestInv
  <2>8. f \in Injection(day, slots)
      BY <2>6, <2>7 DEF Injection, IsInjective
  <2>9. /\ IsFiniteSet(InWindow(t)) /\ Cardinality(InWindow(t)) \in Nat
        /\ Cardinality(InWindow(t)) =< Cap
      BY WindowFinite DEF GuardInv, GuardTypeOK, WindowBound
  <2>10. IsFiniteSet(1..Allowance) /\ Cardinality(1..Allowance) = Allowance
      BY FS_Interval, GuardConstants
  <2>11. IsFiniteSet(slots) /\ Cardinality(slots) = Cardinality(InWindow(t)) * Allowance
      BY <2>9, <2>10, FS_Product
  <2> HIDE DEF f, slots
  <2>12. Cardinality(day) =< Cardinality(slots)
      BY <2>8, <2>11, FS_Injection
  <2>13. Cardinality(InWindow(t)) * Allowance =< Cap * Allowance
    <3> DEFINE k == Cardinality(InWindow(t))
    <3>1. k \in Nat /\ Cap \in Nat /\ Allowance \in Nat /\ k =< Cap
        BY <2>9, GuardConstants
    <3> HIDE DEF k
    <3>2. (Cap - k) * Allowance >= 0 /\ Cap * Allowance = k * Allowance + (Cap - k) * Allowance
        BY <3>1
    <3>3. k * Allowance \in Int /\ Cap * Allowance \in Int /\ (Cap - k) * Allowance \in Int
        BY <3>1
    <3> QED
        BY <3>2, <3>3 DEF k
  <2>14. IsFiniteSet(day)
      BY <2>8, <2>11, FS_Injection
  <2>15. /\ Cardinality(day) \in Nat /\ Cardinality(slots) \in Nat
         /\ Cap * Allowance \in Int
      BY <2>11, <2>14, FS_CardinalityType, GuardConstants
  <2> QED
      BY <2>11, <2>12, <2>13, <2>15
<1> QED
    BY <1>1, GuardInvariant, GuardKeepsBudget, BudgetBound, PTL
=============================================================================
