----------------------------- MODULE MCWorkflow -----------------------------
(* Values for model checking Workflow. *)
EXTENDS Workflow

CONSTANTS a, none
=============================================================================
