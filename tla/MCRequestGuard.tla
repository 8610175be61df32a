--------------------------- MODULE MCRequestGuard ---------------------------
(* A small instance of RequestGuard for TLC. *)
EXTENDS RequestGuard, TLC

MCTimes == 0..6
Symmetry == Permutations(Clients) \cup Permutations(Processes)
=============================================================================
