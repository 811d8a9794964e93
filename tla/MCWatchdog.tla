------------------------------ MODULE MCWatchdog ----------------------------
(* The values for Watchdog are all in its configurations.                  *)
EXTENDS Watchdog
=============================================================================
