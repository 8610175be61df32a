---------------------------- MODULE MCStateSlots ----------------------------
(* Small instances of StateSlots for TLC. *)
EXTENDS StateSlots, TLC

JobSymmetry == Permutations(Jobs)
=============================================================================
