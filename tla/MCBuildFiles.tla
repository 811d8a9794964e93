---------------------------- MODULE MCBuildFiles -----------------------------
(* Three slices that the manifest does not list by number.                  *)
EXTENDS BuildFiles, TLC

OutOfOrder == <<2, 3, 1>>
=============================================================================
