------------------------------ MODULE MCDaemon ------------------------------
(* Values for TLC: three invocations at most, one backend started by hand.    *)
EXTENDS Daemon, TLC
CONSTANTS c1, c2, c3, m1
=============================================================================
