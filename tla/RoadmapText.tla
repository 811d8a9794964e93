----------------------------- MODULE RoadmapText -----------------------------
(***************************************************************************)
(* The roadmap as the backend reads it (domain/roadmap.go) and as the      *)
(* plan-track routes rewrite it (domain/plantrack.go).                     *)
(*                                                                         *)
(* The roadmap is the sequence of its item blocks.  A block runs from one  *)
(* item header to the next; of its fields the model keeps the status and   *)
(* the child plan, "absent" for a field the block does not have.  Titles,  *)
(* goals, dates and the spelling of a line are left out.                   *)
(*                                                                         *)
(* An operator named Mut_... is a wrong variant of the definition below it.*)
(***************************************************************************)
EXTENDS Naturals, SequencesExt, FiniteSetsExt

CONSTANT PlanFile    \* the file names a request may attach

Prefix == {"E", "F", "I", "B"}

TrackByPrefix == [p \in Prefix |-> IF p \in {"E", "F"} THEN "PRD" ELSE "Plan"]

ValidStatus == {"Planned", "In-progress", "Shipped", "Blocked"}

NoPlan == "-"

Block ==
  [prefix : Prefix, n : Nat,
   status : ValidStatus \cup {"Draft", "absent"},
   plan : PlanFile \cup {NoPlan, "absent"}]

(* A dash or a missing child plan reads as none.                           *)
ParseEpicBody(b) == [b EXCEPT !.plan = IF @ = "absent" THEN NoPlan ELSE @]

(* The board's view: a block without a valid status is skipped.            *)
ParseRoadmap(blocks) ==
  LET read == SelectSeq(blocks, LAMBDA b : b.status \in ValidStatus)
  IN  [i \in DOMAIN read |-> ParseEpicBody(read[i])]

Mut_ByNumber(blocks, id) == {i \in DOMAIN blocks : blocks[i].n = id.n}

(* The places of the blocks with this id; the first one is the target.     *)
FindItemBlock(blocks, id) ==
  {i \in DOMAIN blocks : blocks[i].prefix = id.prefix /\ blocks[i].n = id.n}

(* An epic or a feature is no plan-track target.                           *)
PlanTrackTarget(blocks, id) ==
  IF TrackByPrefix[id.prefix] = "Plan" THEN FindItemBlock(blocks, id) ELSE {}

TransitionPlanTrackStatus(blocks, id, from, to) ==
  LET found == PlanTrackTarget(blocks, id)
  IN  IF found # {} /\ blocks[Min(found)].status \in from
      THEN [blocks EXCEPT ![Min(found)].status = to] ELSE blocks

StartPlanTrack(blocks, id) ==
  TransitionPlanTrackStatus(blocks, id, {"Planned"}, "In-progress")

Mut_Done(blocks, id) ==
  TransitionPlanTrackStatus(blocks, id, {"In-progress", "Planned"}, "Done")

ShipPlanTrack(blocks, id) ==
  TransitionPlanTrackStatus(blocks, id, {"In-progress", "Planned"}, "Shipped")

(* A block without a Child plan field is left alone.                       *)
RecordChildPlan(blocks, id, file) ==
  LET found == PlanTrackTarget(blocks, id)
  IN  IF found # {} /\ blocks[Min(found)].plan # "absent"
      THEN [blocks EXCEPT ![Min(found)].plan = file] ELSE blocks
=============================================================================
