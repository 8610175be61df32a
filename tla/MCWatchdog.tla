------------------------------ MODULE MCWatchdog ------------------------------
(* A small instance of Watchdog for TLC. *)
EXTENDS Watchdog

MCScopes == {{"collector"}, {"deploy-pages"}, {"dns-health"}, {"docker-builds"}}
MCCooldown == [t \in Targets |-> IF t = "dns-health" THEN 1 ELSE 0]
=============================================================================
