--------------------------- MODULE RollingBudget ---------------------------
(***************************************************************************)
(* What a durable request ledger of this repository promises: a charge is  *)
(* recorded once, charges are recorded in the order of their times, and no *)
(* window of Window time units ever contains more than Cap of them.  The   *)
(* ledgers (request_bearing_attempt_budget.py, dns_request_budget.py) keep *)
(* only the rows of the current window; this module keeps every charge     *)
(* ever made, so that the promise can be stated about history.             *)
(***************************************************************************)
EXTENDS Integers, FiniteSets

CONSTANTS
    Clients,        \* who is charged: one workflow run attempt each
    Times,          \* the times there are
    Window,         \* length of the rolling accounting window
    Cap             \* charges allowed in any one window

ASSUME BudgetAssumption ==
    /\ Times \subseteq Int /\ 0 \in Times
    /\ Window \in Nat \ {0}
    /\ Cap \in Nat \ {0}

VARIABLES
    clock,          \* current time
    charges         \* every charge ever recorded

budgetVars == <<clock, charges>>

ChargeRecord == [who : Clients, at : Times]

\* The charges of the half-open window of length Window that ends at t.
InWindow(t) == {c \in charges : t - Window < c.at /\ c.at =< t}

BudgetTypeOK ==
    /\ clock \in Times
    /\ charges \subseteq ChargeRecord
    /\ IsFiniteSet(charges)

BudgetInit ==
    /\ clock = 0
    /\ charges = {}

PassTime ==
    /\ clock + 1 \in Times
    /\ clock' = clock + 1
    /\ UNCHANGED charges

\* Mutant of Charge: the slot is sought at the time of recording, which may
\* lie after the time that is charged.
ChargeLate(c) ==
    /\ c \notin charges
    /\ c.at =< clock
    /\ \A d \in charges : d.at =< c.at
    /\ Cardinality(InWindow(clock)) < Cap
    /\ charges' = charges \cup {c}
    /\ UNCHANGED clock

\* A new charge is never older than one already recorded, and is recorded
\* only while its own window still has a free slot.
Charge(c) ==
    /\ c \notin charges
    /\ c.at =< clock
    /\ \A d \in charges : d.at =< c.at
    /\ Cardinality(InWindow(c.at)) < Cap
    /\ charges' = charges \cup {c}
    /\ UNCHANGED clock

BudgetNext ==
    \/ PassTime
    \/ \E c \in ChargeRecord : Charge(c)

BudgetSpec == BudgetInit /\ [][BudgetNext]_budgetVars

\* No window of the whole history, wherever it ends, holds more than Cap
\* charges.
WindowBound == \A t \in Times : Cardinality(InWindow(t)) =< Cap
=============================================================================
