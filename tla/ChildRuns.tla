----------------------------- MODULE ChildRuns ------------------------------
(***************************************************************************)
(* The runs of one lane as an observer of the run store sees them: plain   *)
(* runs (usecase/spawn.go, usecase/stop.go) that start and end, and builds *)
(* that the build engine (usecase/buildengine.go) may continue with a      *)
(* successor after they ended.  BuildEngine models the engine itself; here *)
(* one action is one change that the workflow service can tell apart.      *)
(*                                                                         *)
(* While the engine decides about an ended build the run is finalizing.    *)
(* The decision is to push the branch, to arm a resume, to park the build  *)
(* with a line in its output, or nothing.  A resume that was taken is in   *)
(* flight until its successor is in the store; a successor whose agent     *)
(* cannot be started leaves the store again.                               *)
(***************************************************************************)
EXTENDS Naturals, FiniteSets

CONSTANTS
  MaxChildren,       \* bound: how many runs the lane sees
  MaxResumes,        \* turn budget of a chain of builds
  MaxSpawnFailures,  \* bound: successors that cannot be started
  Option,            \* options an operator may choose
  NoOption           \* a prompt without one

ASSUME ChildAssumption ==
  /\ MaxChildren \in Nat /\ MaxResumes \in Nat /\ MaxSpawnFailures \in Nat
  /\ NoOption \notin Option

Child == 1 .. MaxChildren
NoChild == 0

(* What the service looks for in an output: the agent's last words         *)
(* (decision, blocked, complete), the engine's parking line and the result *)
(* of the push.                                                            *)
LastWord == {"decision", "blocked", "complete"}
Line == LastWord \cup {"parked", "pushed", "push failed"}

(* The prompts of a lane's builds differ in the operator's option only.    *)
ChildRun ==
  [status     : {"absent", "running", "done", "error"},
   build      : BOOLEAN,
   option     : Option \cup {NoOption},
   count      : Nat,
   pending    : BOOLEAN,
   pushed     : BOOLEAN,
   finalizing : BOOLEAN]

NoChildRun ==
  [status |-> "absent", build |-> FALSE, option |-> NoOption, count |-> 0,
   pending |-> FALSE, pushed |-> FALSE, finalizing |-> FALSE]

VARIABLES
  run,        \* the run store
  said,       \* what the output of a run contains
  inFlight,   \* builds whose pending resume was taken
  starting,   \* <<predecessor, successor>>: reserved, agent not yet started
  pushing,    \* builds whose branch is being pushed
  nextChild,  \* the id generator
  failures    \* bound: successors that could not be started

childVars == <<run, said, inFlight, starting, pushing, nextChild, failures>>

ChildInit ==
  /\ run = [c \in Child |-> NoChildRun]
  /\ said = [c \in Child |-> {}]
  /\ inFlight = {} /\ starting = {} /\ pushing = {}
  /\ nextChild = 1 /\ failures = 0

Live(c) == run[c].status = "running"
LiveChildren == {c \in Child : Live(c)}
LiveBuilds == {c \in LiveChildren : run[c].build}
Ended(c) == run[c].status \in {"done", "error"}

(* Put a new run into the store.                                           *)
Create(build, option, count) ==
  /\ nextChild \in Child
  /\ nextChild' = nextChild + 1
  /\ run' = [run EXCEPT ![nextChild] =
               [NoChildRun EXCEPT !.status = "running", !.build = build,
                                  !.option = option, !.count = count]]

(* An agent exits.  A plain run is settled at once.                        *)
EndChild(c) ==
  /\ Live(c) /\ \A p \in starting : p[2] # c
  /\ \E status \in {"done", "error"} :
       run' = [run EXCEPT ![c].status = status, ![c].finalizing = run[c].build]
  /\ \E words \in {{}, {"decision"}, {"blocked"}, {"complete"}} :
       /\ ~run[c].build => "complete" \notin words
       /\ said' = [said EXCEPT ![c] = words]
  /\ UNCHANGED <<inFlight, starting, pushing, nextChild, failures>>

(* The engine decides about an ended build and shows it to observers:      *)
(* after a completion it pushes once, a decision or a blocker ends the     *)
(* chain, anything else is resumed within the budget or parked.            *)
Route(c) ==
  /\ run[c].finalizing
  /\ \/ \* nothing more to do
        /\ said[c] \cap LastWord # {}
        /\ run' = [run EXCEPT ![c].finalizing = FALSE]
        /\ UNCHANGED <<said, pushing>>
     \/ \* push
        /\ "complete" \in said[c] /\ ~run[c].pushed
        /\ run' = [run EXCEPT ![c].finalizing = FALSE, ![c].pushed = TRUE]
        /\ pushing' = pushing \cup {c}
        /\ UNCHANGED said
     \/ \* resume
        /\ said[c] \cap LastWord = {} /\ run[c].count < MaxResumes
        /\ run' = [run EXCEPT ![c].finalizing = FALSE, ![c].pending = TRUE]
        /\ UNCHANGED <<said, pushing>>
     \/ \* park
        /\ said[c] \cap LastWord = {}
        /\ run' = [run EXCEPT ![c].finalizing = FALSE]
        /\ said' = [said EXCEPT ![c] = @ \cup {"parked"}]
        /\ UNCHANGED pushing
  /\ UNCHANGED <<inFlight, starting, nextChild, failures>>

(* The result of a push is appended to the output some time later.         *)
PushEnds(c) ==
  /\ c \in pushing
  /\ pushing' = pushing \ {c}
  /\ \E line \in {"pushed", "push failed"} :
       said' = [said EXCEPT ![c] = @ \cup {line}]
  /\ UNCHANGED <<run, inFlight, starting, nextChild, failures>>

(* A timer or the sweep takes a pending resume.                            *)
Take(c) ==
  /\ run[c].pending
  /\ run' = [run EXCEPT ![c].pending = FALSE]
  /\ inFlight' = inFlight \cup {c}
  /\ UNCHANGED <<said, starting, pushing, nextChild, failures>>

(* The successor is reserved, unless a build runs on the lane: then the    *)
(* resume counts as satisfied.                                             *)
Succeed(c) ==
  /\ c \in inFlight
  /\ inFlight' = inFlight \ {c}
  /\ IF LiveBuilds = {}
     THEN /\ Create(TRUE, run[c].option, run[c].count + 1)
          /\ starting' = starting \cup {<<c, nextChild>>}
     ELSE UNCHANGED <<run, nextChild, starting>>
  /\ UNCHANGED <<said, pushing, failures>>

Started(c, d) ==
  /\ <<c, d>> \in starting
  /\ starting' = starting \ {<<c, d>>}
  /\ UNCHANGED <<run, said, inFlight, pushing, nextChild, failures>>

(* The successor's agent cannot be started: the successor leaves the store *)
(* and the resume is armed again or given up.                              *)
NotStarted(c, d) ==
  /\ <<c, d>> \in starting /\ failures < MaxSpawnFailures
  /\ failures' = failures + 1
  /\ starting' = starting \ {<<c, d>>}
  /\ \E again \in BOOLEAN :
       run' = [run EXCEPT ![d] = NoChildRun, ![c].pending = again]
  /\ UNCHANGED <<said, inFlight, pushing, nextChild>>

(* A stop: a running run is marked failed, a pending resume is cancelled.  *)
(* Any other stop, one that meets a resume in flight included, does        *)
(* nothing.                                                                *)
StopRun(c) ==
  /\ run' = IF Live(c)
            THEN [run EXCEPT ![c].status = "error", ![c].pending = FALSE]
            ELSE [run EXCEPT ![c].pending = FALSE]
  /\ UNCHANGED <<said, inFlight, starting, pushing, nextChild, failures>>

(* The backend dies.  Agents live on and the boot finalizes again what was *)
(* not decided durably; a resume in flight is pending again or lost,       *)
(* depending on what the journal holds, and so is a successor that was not *)
(* yet started.  A push that was going on leaves no result.                *)
AfterCrash(decided, back, gone) ==
  [c \in Child |->
     IF c \in gone THEN NoChildRun
     ELSE [run[c] EXCEPT !.finalizing = @ /\ c \notin decided,
                         !.pending = @ \/ c \in back]]

EngineCrash ==
  /\ \E decided \in SUBSET {c \in Child : run[c].finalizing},
        back \in SUBSET inFlight,
        gone \in SUBSET {p[2] : p \in starting} :
       run' = AfterCrash(decided, back, gone)
  /\ inFlight' = {} /\ starting' = {} /\ pushing' = {}
  /\ UNCHANGED <<said, nextChild, failures>>

Engine(c) ==
  \/ Route(c) \/ PushEnds(c) \/ Take(c) \/ Succeed(c)
  \/ \E d \in Child : Started(c, d) \/ NotStarted(c, d)
=============================================================================
