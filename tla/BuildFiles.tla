----------------------------- MODULE BuildFiles ------------------------------
(***************************************************************************)
(* The files a build leaves behind and what the backend makes of them: the *)
(* step at which an interrupted build resumes and the fingerprint by which *)
(* the engine tells whether a resumed build got any further                *)
(* (domain/workitems.go and usecase/workitems.go).                         *)
(*                                                                         *)
(* A build has a state manifest, with the policy per-step, and a scratchpad *)
(* of ticked slices.  The agent that writes them is outside the            *)
(* repository: it plans a slice, commits it, reviews it, marks it done and *)
(* ticks it, may be killed between any two writes, and the next one starts *)
(* at the resume target.  Plans and commits may also be lost (deleted,     *)
(* reset).                                                                 *)
(*                                                                         *)
(* An operator named Mut_... is a wrong variant of the definition below it.*)
(***************************************************************************)
EXTENDS Naturals, SequencesExt, FiniteSetsExt

CONSTANTS
  Slice,        \* the slice numbers of the PRD
  Order,        \* the slices in the order in which the manifest lists them
  None,
  MaxLosses     \* bound: lost plans and commits

ASSUME BuildFilesAssumption ==
  /\ Slice \subseteq Nat \ {0} /\ IsFiniteSet(Slice)
  /\ Order \in Seq(Slice) /\ Range(Order) = Slice
  /\ MaxLosses \in Nat
  /\ None \notin [slice : Slice, step : {"rplan", "approved", "qa"}]

VARIABLES
  manifest,    \* the slices in the state manifest, in the order of the file
  plans,       \* slices whose plan file exists
  commits,     \* the commits that exist, <<slice, serial>>
  ticks,       \* ticked slices of the scratchpad, or None without the file
  alive,       \* an agent is running
  at,          \* the slice and the step it works at, or None
  reviewed,    \* slices whose last commit has been reviewed
  started,     \* fingerprint, verified work and losses when the agent was
               \* spawned
  losses

vars ==
  <<manifest, plans, commits, ticks, alive, at, reviewed, started, losses>>

Step == {"rplan", "approved", "qa"}

(* A step counts only if it is marked and what it produced is there.  No   *)
(* trace of a review is kept, so that it never counts.                     *)
StepVerified(step, s) ==
  CASE step = "rplan"    -> s.rplan /\ s.n \in plans
    [] step = "approved" -> s.approved.done /\ s.approved.commit \in commits
    [] OTHER             -> FALSE

Mut_MarkCounts(s) == s.status = "done"

Finished(s) == s.status = "done" /\ StepVerified("approved", s)

Mut_AfterLast ==
  LET pending == {s \in Range(manifest) : ~Finished(s)}
      first   == CHOOSE s \in pending : \A t \in pending : s.n <= t.n
  IN  IF pending = {} THEN [slice |-> Len(manifest) + 1, step |-> "rplan"]
      ELSE [slice |-> first.n,
            step  |-> IF StepVerified("rplan", first) THEN "approved"
                      ELSE "rplan"]

(* The first slice, by number, that is not finished, and its first step    *)
(* that does not verify.                                                   *)
ComputeResumeTarget ==
  LET pending == {s \in Range(manifest) : ~Finished(s)}
      first   == CHOOSE s \in pending : \A t \in pending : s.n <= t.n
  IN  IF pending = {} THEN None
      ELSE [slice |-> first.n,
            step  |-> IF ~StepVerified("rplan", first) THEN "rplan"
                      ELSE IF ~StepVerified("approved", first) THEN "approved"
                      ELSE "qa"]

Mut_TicksOnly == IF ticks = None THEN None ELSE <<Cardinality(ticks), None>>

(* None, which the engine takes for unknown, without a scratchpad.         *)
ProgressFingerprint ==
  IF ticks = None THEN None ELSE <<Cardinality(ticks), ComputeResumeTarget>>

(* All that verifies of the build, step by step.                           *)
Verified ==
  LET of(n) == {m \in Range(manifest) : m.n = n}
  IN  {x \in Slice \X {"rplan", "approved"} :
         \E s \in of(x[1]) : StepVerified(x[2], s)}
        \cup {x \in Slice \X {"done"} : \E s \in of(x[1]) : Finished(s)}
        \cup (IF ticks = None THEN {} ELSE ticks \X {"tick"})

Init ==
  /\ manifest = [i \in DOMAIN Order |->
                   [n |-> Order[i], status |-> "todo", rplan |-> FALSE,
                    approved |-> [done |-> FALSE, commit |-> None]]]
  /\ plans = {} /\ commits = {} /\ ticks = None
  /\ alive = FALSE /\ at = None /\ reviewed = {}
  /\ started = [fingerprint |-> None, verified |-> {},
                 losses |-> 0]
  /\ losses = 0

-----------------------------------------------------------------------------
(* newBuildRun takes the fingerprint before the agent runs.                *)
Spawn ==
  /\ ~alive
  /\ alive' = TRUE
  /\ started' = [fingerprint |-> ProgressFingerprint, verified |-> Verified,
                 losses |-> losses]
  /\ UNCHANGED <<manifest, plans, commits, ticks, at, reviewed, losses>>

WorksAt(step) == at # None /\ at.step = step

(* The agent changes the entry of its slice in the manifest.               *)
Mark(field, value) ==
  manifest' = [i \in DOMAIN manifest |->
                 IF manifest[i].n = at.slice
                 THEN [manifest[i] EXCEPT ![field] = value]
                 ELSE manifest[i]]

Scratchpad ==
  /\ alive /\ ticks = None
  /\ ticks' = {}
  /\ UNCHANGED <<manifest, plans, commits, alive, at, reviewed, started, losses>>

(* The agent takes up the slice and the step the build resumes at.         *)
Take ==
  /\ alive /\ at = None /\ ComputeResumeTarget # None
  /\ at' = ComputeResumeTarget
  /\ manifest' = [i \in DOMAIN manifest |->
                    IF manifest[i].n = at'.slice
                    THEN [manifest[i] EXCEPT !.status = "in-progress"]
                    ELSE manifest[i]]
  /\ UNCHANGED <<plans, commits, ticks, alive, reviewed, started, losses>>

WritePlan ==
  /\ WorksAt("rplan") /\ at.slice \notin plans
  /\ plans' = plans \cup {at.slice}
  /\ UNCHANGED <<manifest, commits, ticks, alive, at, reviewed, started, losses>>

MarkPlan ==
  /\ WorksAt("rplan") /\ at.slice \in plans
  /\ Mark("rplan", TRUE)
  /\ UNCHANGED <<plans, commits, ticks, alive, at, reviewed, started, losses>>

(* What the agent commits is still to be reviewed.                         *)
Commit ==
  /\ WorksAt("approved")
  /\ ~\E k \in 0 .. MaxLosses : <<at.slice, k>> \in commits
  /\ commits' = commits \cup {<<at.slice, losses>>}
  /\ reviewed' = reviewed \ {at.slice}
  /\ UNCHANGED <<manifest, plans, ticks, alive, at, started, losses>>

MarkCommit ==
  /\ WorksAt("approved")
  /\ \E k \in 0 .. MaxLosses :
       /\ <<at.slice, k>> \in commits
       /\ Mark("approved", [done |-> TRUE, commit |-> <<at.slice, k>>])
  /\ UNCHANGED <<plans, commits, ticks, alive, at, reviewed, started, losses>>

(* The agent goes on when its step verifies.  What becomes of the plan or  *)
(* of the commit afterwards it does not look at.                           *)
Go ==
  /\ at # None
  /\ \E s \in Range(manifest) :
       /\ s.n = at.slice
       /\ \/ StepVerified(at.step, s)
             /\ at' = [at EXCEPT !.step =
                         IF @ = "rplan" THEN "approved" ELSE "qa"]
          \/ at.step = "qa" /\ s.status = "done" /\ at' = None
  /\ UNCHANGED <<manifest, plans, commits, ticks, alive, reviewed, started, losses>>

Review ==
  /\ WorksAt("qa")
  /\ reviewed' = reviewed \cup {at.slice}
  /\ UNCHANGED <<manifest, plans, commits, ticks, alive, at, started, losses>>

MarkDone ==
  /\ WorksAt("qa") /\ at.slice \in reviewed
  /\ Mark("status", "done")
  /\ UNCHANGED <<plans, commits, ticks, alive, at, reviewed, started, losses>>

Tick ==
  /\ WorksAt("qa") /\ at.slice \in reviewed /\ ticks # None
  /\ ticks' = ticks \cup {at.slice}
  /\ UNCHANGED <<manifest, plans, commits, alive, at, reviewed, started, losses>>

(* The agent ends, or is killed.                                           *)
Ends ==
  /\ alive
  /\ alive' = FALSE /\ at' = None
  /\ UNCHANGED <<manifest, plans, commits, ticks, reviewed, started, losses>>

Lose ==
  /\ losses < MaxLosses
  /\ losses' = losses + 1
  /\ \/ \E n \in plans : plans' = plans \ {n} /\ UNCHANGED commits
     \/ \E c \in commits : commits' = commits \ {c} /\ UNCHANGED plans
  /\ UNCHANGED <<manifest, ticks, alive, at, reviewed, started>>

Next ==
  \/ Spawn \/ Scratchpad \/ Take \/ WritePlan \/ MarkPlan \/ Commit
  \/ MarkCommit \/ Go \/ Review \/ MarkDone \/ Tick \/ Ends \/ Lose

Spec == Init /\ [][Next]_vars

-----------------------------------------------------------------------------
TypeOK ==
  /\ manifest \in Seq([n : Slice, status : {"todo", "in-progress", "done"},
                       rplan : BOOLEAN,
                       approved : [done : BOOLEAN,
                                   commit : {None} \cup (Slice \X Nat)]])
  /\ {s.n : s \in Range(manifest)} = Slice
  /\ plans \subseteq Slice /\ reviewed \subseteq Slice
  /\ commits \subseteq Slice \X (0 .. MaxLosses)
  /\ ticks = None \/ ticks \subseteq Slice
  /\ alive \in BOOLEAN
  /\ at = None \/ (alive /\ at \in [slice : Slice, step : Step])
  /\ losses \in 0 .. MaxLosses

(* A resumed build skips nothing that is missing or unreviewed (domain/     *)
(* workitems.go, ComputeResumeTarget): every slice before the target has a  *)
(* commit that exists and has been reviewed, whatever the agents were       *)
(* killed at, whatever order the manifest has and whatever was lost since.  *)
ResumeSkipsNothing ==
  LET target == ComputeResumeTarget
  IN  \A n \in Slice :
        target = None \/ n < target.slice =>
          n \in reviewed /\ \E c \in commits : c[1] = n

(* An agent that got anything verified done and lost nothing is never       *)
(* taken for one without progress (usecase/workitems.go: equal fingerprints *)
(* mean no verifiable progress), so that the engine does not give up a      *)
(* build that moves.                                                        *)
ProgressShows ==
  LET then == started.fingerprint
      now  == ProgressFingerprint
  IN  /\ alive /\ started.losses = losses
      /\ then # None /\ now # None
      /\ started.verified \subseteq Verified /\ started.verified # Verified
      => then # now
=============================================================================
