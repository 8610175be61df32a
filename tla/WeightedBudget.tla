--------------------------- MODULE WeightedBudget ---------------------------
(***************************************************************************)
(* What a ledger of weighted reservations promises                         *)
(* (queue_request_budget.py, dns_request_budget.py).  A reservation stands *)
(* for as many request starts as it says.  After a first set of seeds,     *)
(* which tell what was sent before the ledger existed and may exceed the   *)
(* cap, a batch of reservations is granted only while the window that ends *)
(* with it has room for all of it.  The ledgers keep the rows of the       *)
(* current window; this module keeps every row ever granted.               *)
(***************************************************************************)
EXTENDS Integers, FiniteSets

CONSTANTS
    Runs,           \* what reservations are granted to
    Legacy,         \* ids of the seeds
    Kinds,          \* kinds of runtime reservations
    Times,          \* the times there are
    Window,         \* length of the rolling accounting window
    Cap             \* request starts allowed in any one window

ASSUME WeightedAssumption ==
    /\ Times \subseteq Int /\ 0 \in Times
    /\ Window \in Nat \ {0}
    /\ Cap \in Nat \ {0}
    /\ "legacy_seed" \notin Kinds

VARIABLES
    clock,          \* current time
    granted         \* every row ever recorded

budgetVars == <<clock, granted>>

RuntimeRow == [id : Runs, kind : Kinds, at : Times, starts : Nat \ {0}]
SeedRow == [id : Legacy, kind : {"legacy_seed"}, at : Int, starts : Nat \ {0}]

\* The request starts that rows stand for, one element each.
Permits(rows) ==
    UNION {{[row |-> row, number |-> n] : n \in 1..row.starts} : row \in rows}

Used(rows) == Cardinality(Permits(rows))

\* The rows of the half-open window of length Window that ends at t.
InWindow(rows, t) == {row \in rows : t - Window < row.at /\ row.at =< t}

RuntimeRows(rows) == {row \in rows : row.kind # "legacy_seed"}

BudgetTypeOK ==
    /\ clock \in Times
    /\ granted \subseteq RuntimeRow \cup SeedRow
    /\ IsFiniteSet(granted)

BudgetInit ==
    /\ clock = 0
    /\ granted = {}

PassTime ==
    /\ clock + 1 \in Times
    /\ clock' = clock + 1
    /\ UNCHANGED granted

\* The seeds come first and only once.
Seed(batch) ==
    /\ granted = {}
    /\ batch # {}
    /\ \A row \in batch : row.at =< clock
    /\ granted' = batch
    /\ UNCHANGED clock

\* A batch is granted as a whole, for one time that is not before any
\* earlier row, and only into a window that has room for it.
Grant(batch, t) ==
    /\ batch # {} /\ batch \cap granted = {}
    /\ t =< clock
    /\ \A row \in batch : row.at = t
    /\ \A row \in granted : row.at =< t
    /\ Used(InWindow(granted, t) \cup batch) =< Cap
    /\ granted' = granted \cup batch
    /\ UNCHANGED clock

\* A step adds the batch granted' \ granted.
BudgetNext ==
    LET batch == granted' \ granted
    IN  \/ PassTime
        \/ batch \subseteq SeedRow /\ IsFiniteSet(batch) /\ Seed(batch)
        \/ /\ batch \subseteq RuntimeRow /\ IsFiniteSet(batch)
           /\ \E t \in Times : Grant(batch, t)

BudgetSpec == BudgetInit /\ [][BudgetNext]_budgetVars

\* No window of the whole history, wherever it ends, that contains a runtime
\* reservation holds more than Cap request starts, seeds included.
WeightedBound ==
    \A t \in Times :
        LET rows == InWindow(granted, t)
        IN  RuntimeRows(rows) # {} => Used(rows) =< Cap
=============================================================================
