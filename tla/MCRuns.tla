------------------------------- MODULE MCRuns -------------------------------
(* Instances of Runs for TLC: commands are interchangeable.                *)
EXTENDS Runs, TLC
CONSTANTS c1, c2
Commands == Permutations(Client)
=============================================================================
