--------------------------- MODULE BuildDecision ----------------------------
(***************************************************************************)
(* How a finished build is classified and whether it is resumed            *)
(* (usecase/buildclass.go and planResume of usecase/buildengine.go).       *)
(*                                                                         *)
(* Time is abstracted to one bit, whether the wall-clock budget is spent,  *)
(* and the progress fingerprints to the result of comparing them.          *)
(*                                                                         *)
(* An operator named Mut_... is a wrong variant of the definition below it,*)
(* a slip the code could have made; with it in place of that definition a  *)
(* property of this project fails.                                         *)
(***************************************************************************)
EXTENDS AgentOutput

CONSTANTS
  MaxBuildResumes,   \* turn budget of a chain of resumes
  NoProgressLimit    \* consecutive resumes without progress before a park

ASSUME BudgetAssumption ==
  MaxBuildResumes \in Nat /\ NoProgressLimit \in Nat

ExitCode == {"zero", "nonzero", "none"}   \* none: no .exit sentinel

(* What a dead agent left: <id>.out and <id>.exit.                         *)
Ending == [out : Seq(Line), code : ExitCode]

NoEnding == [out |-> <<>>, code |-> "none"]

Cause == {"exit", "interrupted", "user-stop"}

Progress == {"advanced", "same", "unknown"}

(* The order of the tests is load-bearing: a decision gate hides a terminal *)
(* line, a terminal line hides the exit code, and only an exit (never an    *)
(* interruption) without a spoken word is ambiguous enough to park.         *)
ClassifyOutcome(end, cause) ==
  IF cause = "user-stop" THEN "terminal"
  ELSE LET final == FinalSpokenText(end.out)
  IN   IF HasDecision(final) THEN "awaiting"
  ELSE IF Says(final, {"complete", "blocked"}) THEN "terminal"
  ELSE IF cause = "exit" /\ end.code = "zero" /\ final = {} THEN "park"
  ELSE "retryable"

(* The authentication error is looked for first: it is not transient.       *)
DetectLimit(end) ==
  IF Says(LimitScanText(end.out), {"auth"}) THEN "auth-error"
  ELSE IF Says(LimitScanText(end.out), {"limit"}) THEN "usage-limit"
  ELSE "none"

IsBuildComplete(final) == Says(final, {"complete"})

(* The no-progress streak the successor inherits.  A usage limit is no      *)
(* failure to progress; an unknown fingerprint is neutral.                  *)
NextStreak(streak, end, progress) ==
  IF DetectLimit(end) = "usage-limit" THEN streak
  ELSE CASE progress = "advanced" -> 0
         [] progress = "same"     -> streak + 1
         [] progress = "unknown"  -> streak

Mut_OneTooMany(count, streak, end, cause, progress, wallSpent) ==
  /\ ClassifyOutcome(end, cause) = "retryable"
  /\ count <= MaxBuildResumes
  /\ DetectLimit(end) # "auth-error"

(* Whether a finished build with this resume count and streak is resumed.   *)
(* Waiting for a usage limit is charged to neither of the last two budgets. *)
Resumes(count, streak, end, cause, progress, wallSpent) ==
  /\ ClassifyOutcome(end, cause) = "retryable"
  /\ count < MaxBuildResumes
  /\ DetectLimit(end) # "auth-error"
  /\ \/ DetectLimit(end) = "usage-limit"
     \/ /\ ~wallSpent
        /\ NextStreak(streak, end, progress) < NoProgressLimit
=============================================================================
