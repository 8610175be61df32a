-------------------------- MODULE MCAttemptLedger --------------------------
(***************************************************************************)
(* Small instances of AttemptLedger for TLC.  Runs and seeds are numbers,  *)
(* because the code orders rows by (reserved_at, id).                      *)
(***************************************************************************)
EXTENDS AttemptLedger

MCRuns == {1, 2}
MCThreeRuns == {1, 2, 3}
MCLegacy == {10}
MCSeedTimes == {-1}
=============================================================================
