-------------------------- MODULE MCRequestLedgers --------------------------
(* A small instance of RequestLedgers for TLC. *)
EXTENDS RequestLedgers, TLC

MCTimes == 0..5
MCSeedTimes == {-1, 0}
MCSeedStarts == {1, 2, 5}
MCKinds == {"metrics", "details", "scan"}
RunSymmetry == Permutations(Runs)
=============================================================================
