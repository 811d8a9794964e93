------------------------------ MODULE Workflow ------------------------------
(***************************************************************************)
(* The workflow service of the Go backend (usecase/workflow.go,            *)
(* domain/workflow.go, infra/workflowjournal.go): it takes a work item     *)
(* through the phases of its track, starts a child run for a phase,        *)
(* observes it, and keeps a durable record of where it is.  One lane is    *)
(* modelled; workflows of different lanes share nothing but the mutex.     *)
(*                                                                         *)
(* Every handler holds the mutex from its beginning to its end, so at most *)
(* one is under way: `turn` is its program counter.  An action is one      *)
(* round of a handler's loop, ending in at most one write of the record;   *)
(* between two of them the child runs go on, and the backend may crash.    *)
(* A write may fail and leave the memory ahead of the journal.             *)
(*                                                                         *)
(* What the service reads of the repository (the target resolves, the PRD  *)
(* exists, it can be locked, the evidence is complete) may come out either *)
(* way each time it is read.  Left out: reasons, evidence, timestamps,     *)
(* engine and config directory, and the index of idempotency keys, which   *)
(* finds a workflow only where the lane finds it too.                      *)
(*                                                                         *)
(* An operator named Mut_... is a wrong variant of the definition below it,*)
(* a slip the code could have made; with it in place of that definition a  *)
(* property of this project fails.                                         *)
(***************************************************************************)
EXTENDS ChildRuns, Sequences, FiniteSetsExt

CONSTANTS
  MaxWorkflows,   \* bound: how many workflows are started
  Track,          \* the tracks that are started
  ParkedOption,   \* what a parked workflow is continued with
  OldPhase,       \* phases at which a record of an older version may stand
  MaxContinues,   \* bound: continues
  MaxStops,       \* bound: stops
  MaxCrashes,     \* bound: backend crashes
  MaxFaults       \* bound: failing journal writes

ASSUME WorkflowAssumption ==
  /\ MaxWorkflows \in Nat \ {0}
  /\ Track \subseteq {"PRD", "Plan"} /\ Track # {}
  /\ ParkedOption \subseteq Option \cup {NoOption}
  /\ MaxContinues \in Nat /\ MaxStops \in Nat
  /\ MaxCrashes \in Nat /\ MaxFaults \in Nat

WorkflowId == 1 .. MaxWorkflows
NoWorkflow == 0

PRDPhases == <<"resolve", "pickup", "proto", "lock", "build", "verify">>
PlanPhases == <<"resolve", "rplan", "rplan-review", "approved", "qa",
                "reviewer", "wrap", "verify">>
Phases(track) == IF track = "Plan" THEN PlanPhases ELSE PRDPhases
Phase == {PRDPhases[i] : i \in DOMAIN PRDPhases}
           \cup {PlanPhases[i] : i \in DOMAIN PlanPhases}

(* The phase after a phase that is not the last.                           *)
NextPhase(track, phase) ==
  LET i == CHOOSE j \in DOMAIN Phases(track) : Phases(track)[j] = phase
  IN  Phases(track)[i + 1]

PhaseRecord ==
  [phase : Phase, status : {"started", "continued", "done", "failed"},
   child : Child \cup {NoChild}]

WorkflowRecord ==
  [status   : {"none", "running", "parked", "awaiting", "done", "failed",
               "stopped"},
   track    : Track,
   phase    : Phase,
   child    : Child \cup {NoChild},
   history  : Seq(PhaseRecord),
   decision : BOOLEAN]          \* AwaitingDecision is set

Begun(phase) == [phase |-> phase, status |-> "started", child |-> NoChild]

NewWorkflow(track) ==
  [status |-> "running", track |-> track, phase |-> "resolve",
   child |-> NoChild, history |-> <<Begun("resolve")>>, decision |-> FALSE]

NoRecord == [NewWorkflow(CHOOSE t \in Track : TRUE) EXCEPT !.status = "none"]

(* The handler that holds the mutex: what it does next, for which workflow,*)
(* with the operator's option, the child it deals with and its copy of     *)
(* that run.                                                               *)
Turn ==
  [pc     : {"free", "start", "advance", "spawn", "record", "finish",
             "observe", "judge", "stop child"},
   w      : WorkflowId \cup {NoWorkflow},
   track  : Track,
   option : Option \cup {NoOption},
   child  : Child \cup {NoChild},
   seen   : ChildRun]

Free ==
  [pc |-> "free", w |-> NoWorkflow, track |-> NoRecord.track,
   option |-> NoOption, child |-> NoChild, seen |-> NoChildRun]

VARIABLES
  phase,         \* of the backend: "up", "down" or a stage of its boot
  wf,            \* workflows
  owner,         \* byLane
  turn,          \* the handler under way
  todo,          \* records that the boot still has to look at
  wfJournal,     \* the journal
  nextWorkflow, continues, stops, crashes, faults    \* bounds

memory == <<phase, wf, owner, turn, todo>>
bounds == <<nextWorkflow, continues, stops, crashes, faults>>
vars   == <<childVars, memory, wfJournal, bounds>>

Historical == {"failed", "stopped"}

(* Before a phase was recorded together with its successor, a crash could  *)
(* leave a record whose phase is done but still current.                   *)
OldRecord(track, i) ==
  [NewWorkflow(track) EXCEPT
     !.phase = Phases(track)[i],
     !.history = [j \in 1 .. i |->
                    [Begun(Phases(track)[j]) EXCEPT !.status = "done"]]]

Init ==
  /\ ChildInit
  /\ wf = [w \in WorkflowId |-> NoRecord]
  /\ owner = NoWorkflow /\ turn = Free /\ todo = {}
  /\ \/ /\ phase = "up" /\ nextWorkflow = 1
        /\ wfJournal = [w \in WorkflowId |-> NoRecord]
     \/ /\ phase = "down" /\ nextWorkflow = 2
        /\ \E track \in Track : \E i \in 2 .. Len(Phases(track)) - 1 :
             /\ Phases(track)[i] \in OldPhase
             /\ wfJournal = [w \in WorkflowId |->
                               IF w = 1 THEN OldRecord(track, i) ELSE NoRecord]
  /\ continues = 0 /\ stops = 0 /\ crashes = 0 /\ faults = 0

At(pc) == turn.pc = pc
Current == wf[turn.w]
Go(pc) == [turn EXCEPT !.pc = pc]
Enter(pc, w) == [Free EXCEPT !.pc = pc, !.w = w]

-----------------------------------------------------------------------------
(* Records and how they change.                                            *)

Last(history, P(_)) == LET I == {i \in DOMAIN history : P(history[i])}
                       IN  IF I = {} THEN 0 ELSE Max(I)

PhaseDone(r, p) ==
  LET i == Last(r.history, LAMBDA x : x.phase = p)
  IN  i # 0 /\ r.history[i].status = "done"

Verdict(r, p) ==
  \E i \in DOMAIN r.history :
    r.history[i].phase = p /\ r.history[i].status = "done"

Moved(r, p) == [r EXCEPT !.phase = p, !.child = NoChild,
                         !.history = Append(@, Begun(p))]

(* Close the open record of the phase and begin the next phase.            *)
Completed(r) ==
  LET i == Last(r.history, LAMBDA x : /\ x.phase = r.phase
                                      /\ x.status \in {"started", "continued"})
      h == IF i = 0 THEN r.history
           ELSE [r.history EXCEPT ![i].status = "done", ![i].child = r.child]
      closed == [r EXCEPT !.child = NoChild, !.history = h]
  IN  IF r.phase = "verify" THEN closed
      ELSE Moved(closed, NextPhase(r.track, r.phase))

Mut_FailedAsError(r) == [r EXCEPT !.status = "error", !.child = NoChild]

(* The workflow is over; a phase that was only started fails with it.      *)
Failed(r) ==
  LET n == Len(r.history)
  IN  [r EXCEPT !.status = "failed", !.child = NoChild,
                !.history = IF @[n].status = "started"
                            THEN [@ EXCEPT ![n].status = "failed"] ELSE @]

Observes(r, c) == [r EXCEPT !.child = c]

(* verify: what the record and the output of the last build contribute;    *)
(* the rest is read from the repository.                                   *)
CanVerify(r) ==
  /\ IF r.track = "PRD" THEN Verdict(r, "build")
     ELSE \A p \in {"qa", "reviewer", "wrap"} : Verdict(r, p)
  /\ LET i == Last(r.history, LAMBDA x : x.phase = "build" /\ x.child # NoChild)
     IN  i # 0 => "push failed" \notin said[r.history[i].child]

(* persist: probe the directory, write a temporary file, rename it, sync   *)
(* the directory.  Only the last of these can fail after the new record is *)
(* in place.                                                               *)
Written(w, r) ==
  /\ wfJournal' = [wfJournal EXCEPT ![w] = r]
  /\ UNCHANGED faults

WriteFails(w, r) ==
  /\ faults < MaxFaults
  /\ faults' = faults + 1
  /\ wfJournal' \in {wfJournal, [wfJournal EXCEPT ![w] = r]}

(* Change a workflow and persist it; where a handler looks at the error it *)
(* returns, with the memory changed.                                       *)
Save(w, r, ok, err) ==
  /\ wf' = [wf EXCEPT ![w] = r]
  /\ \/ Written(w, r) /\ turn' = ok
     \/ WriteFails(w, r) /\ turn' = err

limits == <<nextWorkflow, continues, stops, crashes>>
boot   == <<phase, owner, todo>>

-----------------------------------------------------------------------------
(* Start.                                                                  *)

MayStart(track) ==
  /\ phase = "up" /\ nextWorkflow \in WorkflowId
  /\ At("free") \/ (At("start") /\ turn.track = track)

(* A completed workflow is verified again.  If it still holds it is the    *)
(* answer, and only a write that failed earlier is made up for.            *)
Refresh(track) ==
  /\ MayStart(track) /\ owner # NoWorkflow /\ wf[owner].status = "done"
  /\ LET r == wf[owner]
         go == [Free EXCEPT !.pc = "start", !.track = track]
     IN  \/ /\ CanVerify(r) /\ wfJournal[owner] # r
            /\ Save(owner, r, Free, Free)
         \/ Save(owner, [r EXCEPT !.status = "failed"], go, go)
  /\ UNCHANGED <<childVars, boot, limits>>

Mut_Reopenable(r) == r.status \in Historical \cup {"parked"}

Reopenable(r) == r.status \in Historical

(* A lane whose workflow is running, parked or awaiting answers with that  *)
(* workflow and changes nothing; otherwise a new one takes the lane.  If   *)
(* its first record cannot be written it is taken back.                    *)
Start(track) ==
  /\ MayStart(track)
  /\ owner # NoWorkflow => Reopenable(wf[owner])
  /\ nextWorkflow' = nextWorkflow + 1
  /\ LET w == nextWorkflow
         r == NewWorkflow(track)
     IN  \/ /\ Written(w, r)
            /\ wf' = [wf EXCEPT ![w] = r] /\ owner' = w
            /\ turn' = Enter("advance", w)
         \/ /\ WriteFails(w, r)
            /\ owner' = NoWorkflow /\ turn' = Free /\ UNCHANGED wf
  /\ UNCHANGED <<childVars, phase, todo, continues, stops, crashes>>

-----------------------------------------------------------------------------
(* advanceLocked: one round of its loop.                                   *)

Fail(w) == Save(w, Failed(wf[w]), Free, Free)

Proceed(w, r) == Save(w, r, Go("advance"), Free)

(* The target no longer resolves, the PRD cannot be locked, the            *)
(* verification finds something missing, the child cannot be started.      *)
GiveUp ==
  /\ At("advance") \/ At("spawn")
  /\ Fail(turn.w)
  /\ UNCHANGED <<childVars, boot, limits>>

(* An absent PRD is picked up, one that is locked and has its prototype is *)
(* built, any other gets a prototype; a plan is always planned first.      *)
FirstPhase ==
  /\ At("advance") /\ Current.phase = "resolve"
  /\ \E p \in IF Current.track = "Plan" THEN {"rplan"}
              ELSE {"pickup", "proto", "build"} :
       Proceed(turn.w, Moved(Current, p))
  /\ UNCHANGED <<childVars, boot, limits>>

Recorded == /\ Current.phase # "verify"
            /\ PhaseDone(Current, Current.phase)

SkipDone ==
  /\ At("advance") /\ Recorded
  /\ LET next == NextPhase(Current.track, Current.phase)
     IN  Proceed(turn.w, [Current EXCEPT !.phase = next,
                            !.history = Append(@, Begun(next))])
  /\ UNCHANGED <<childVars, boot, limits>>

LockPRD ==
  /\ At("advance") /\ ~Recorded /\ Current.phase = "lock"
  /\ Proceed(turn.w, Completed(Current))
  /\ UNCHANGED <<childVars, boot, limits>>

(* The phase is recorded first and the outcome in a second write.          *)
Verify ==
  /\ At("advance") /\ Current.phase = "verify" /\ CanVerify(Current)
  /\ Save(turn.w, Completed(Current), Go("finish"), Free)
  /\ UNCHANGED <<childVars, boot, limits>>

Finish ==
  /\ At("finish")
  /\ Save(turn.w, [Current EXCEPT !.status = "done"], Free, Free)
  /\ UNCHANGED <<childVars, boot, limits>>

NeedsChild ==
  /\ At("advance") /\ ~Recorded /\ Current.child = NoChild
  /\ Current.phase \notin {"resolve", "lock", "verify"}

(* A running child of the lane is taken over, whatever phase it is for.    *)
AdoptLive ==
  /\ NeedsChild
  /\ \E c \in LiveChildren : Save(turn.w, Observes(Current, c), Free, Free)
  /\ UNCHANGED <<childVars, boot, limits>>

Mut_SpawnUnchecked ==
  /\ NeedsChild
  /\ turn' = Go("spawn")
  /\ UNCHANGED <<childVars, phase, wf, owner, todo, wfJournal, bounds>>

NoneLive ==
  /\ NeedsChild /\ LiveChildren = {}
  /\ turn' = Go("spawn")
  /\ UNCHANGED <<childVars, phase, wf, owner, todo, wfJournal, bounds>>

(* A build goes through the lane reservation of the build engine, which    *)
(* may answer with a build that has started meanwhile.                     *)
SpawnChild ==
  /\ At("spawn")
  /\ IF Current.phase = "build" /\ LiveBuilds # {}
     THEN /\ \E c \in LiveBuilds : turn' = [Go("record") EXCEPT !.child = c]
          /\ UNCHANGED <<run, nextChild>>
     ELSE /\ IF Current.phase = "build" THEN Create(TRUE, turn.option, 0)
             ELSE Create(FALSE, NoOption, 0)
          /\ turn' = [Go("record") EXCEPT !.child = nextChild]
  /\ UNCHANGED <<said, inFlight, starting, pushing, failures, phase, wf, owner,
                 todo, wfJournal, bounds>>

RecordChild ==
  /\ At("record")
  /\ Save(turn.w, Observes(Current, turn.child), Free, Free)
  /\ UNCHANGED <<childVars, boot, limits>>

-----------------------------------------------------------------------------
(* observeLocked, called by the sweep.                                     *)

Sweeping(w) ==
  /\ wf[w].status = "running"
  /\ phase = "up"
  /\ At("free") \/ (At("observe") /\ turn.w = w)

(* Resumed turns of a build: same prompt, higher resume count.             *)
Successors(r) ==
  {d \in Child : /\ r.phase = "build" /\ d # r.child
                 /\ run[r.child].build /\ run[d].build
                 /\ run[d].status # "absent"
                 /\ run[d].option = run[r.child].option
                 /\ run[d].count > run[r.child].count}

NoChildYet(w) ==
  /\ Sweeping(w) /\ wf[w].child = NoChild
  /\ turn' = Enter("advance", w)
  /\ UNCHANGED <<childVars, phase, wf, owner, todo, wfJournal, bounds>>

(* The observed run has left the store.                                    *)
Disappeared(w) ==
  /\ Sweeping(w) /\ wf[w].child # NoChild
  /\ run[wf[w].child].status = "absent"
  /\ \/ LiveChildren = {} /\ Fail(w)
     \/ \E c \in LiveChildren : Save(w, Observes(wf[w], c), Free, Free)
  /\ UNCHANGED <<childVars, boot, limits>>

Stored(w) ==
  /\ Sweeping(w) /\ wf[w].child # NoChild
  /\ run[wf[w].child].status # "absent"

Follow(w) ==
  /\ Stored(w)
  /\ \E d \in Successors(wf[w]) :
       /\ \A e \in Successors(wf[w]) : run[e].count <= run[d].count
       /\ Save(w, Observes(wf[w], d), Enter("observe", w), Free)
  /\ UNCHANGED <<childVars, boot, limits>>

Mut_Settled(c) == Ended(c)
Mut_SettledIfDone(c) == run[c].status = "done" /\ ~run[c].finalizing

Settled(c) == Ended(c) /\ ~run[c].finalizing

(* A run that still runs, or that the engine still decides about, is left  *)
(* for the next sweep; the fields of a settled one are copied.             *)
StillBusy(w) ==
  /\ Stored(w) /\ At("observe") /\ Successors(wf[w]) = {}
  /\ ~Settled(wf[w].child)
  /\ turn' = Free
  /\ UNCHANGED <<childVars, phase, wf, owner, todo, wfJournal, bounds>>

Inspect(w) ==
  /\ Stored(w) /\ Successors(wf[w]) = {} /\ Settled(wf[w].child)
  /\ turn' = [Enter("judge", w) EXCEPT !.child = wf[w].child,
                                       !.seen = run[wf[w].child]]
  /\ UNCHANGED <<childVars, phase, wf, owner, todo, wfJournal, bounds>>

-----------------------------------------------------------------------------
(* The rest of observeLocked: judge a settled run by the copy of its       *)
(* fields and by what the store and its output say by now.                 *)

Judging == At("judge")
Building == Current.phase = "build"

JudgeAdopts ==
  /\ Judging /\ Building
  /\ \E c \in LiveBuilds : Save(turn.w, Observes(Current, c), Free, Free)
  /\ UNCHANGED <<childVars, boot, limits>>

JudgePending ==
  /\ Judging /\ Building /\ LiveBuilds = {} /\ turn.seen.pending
  /\ Save(turn.w, Current, Free, Free)
  /\ UNCHANGED <<childVars, boot, limits>>

Mut_PushUnknown(c) == FALSE

PushUnknown(c) == turn.seen.pushed /\ said[c] \cap {"pushed", "push failed"} = {}

JudgePushing ==
  /\ Judging /\ Building /\ LiveBuilds = {} /\ ~turn.seen.pending
  /\ PushUnknown(turn.child)
  /\ turn' = Free
  /\ UNCHANGED <<childVars, phase, wf, owner, todo, wfJournal, bounds>>

Conclusive ==
  /\ Judging
  /\ Building => /\ LiveBuilds = {} /\ ~turn.seen.pending
                 /\ ~PushUnknown(turn.child)

(* A decision comes first, then a reason to park, then the exit.           *)
Outcome(r, c) ==
  IF "decision" \in said[c]
  THEN [r EXCEPT !.status = "awaiting", !.decision = TRUE, !.child = NoChild]
  ELSE IF {"blocked", "parked"} \cap said[c] # {}
  THEN [r EXCEPT !.status = "parked", !.child = NoChild]
  ELSE IF turn.seen.status # "done"
  THEN Failed(r)
  ELSE Completed(r)

JudgeOutcome ==
  /\ Conclusive
  /\ LET r == Outcome(Current, turn.child)
     IN  Save(turn.w, r, IF r.status = "running" THEN Enter("advance", turn.w)
                         ELSE Free, Free)
  /\ UNCHANGED <<childVars, boot, limits>>

-----------------------------------------------------------------------------
(* Continue and Stop.                                                      *)

(* A decision takes one of its recorded options; a parked workflow takes   *)
(* anything.  A continue of any other workflow changes nothing.            *)
Mut_MayContinue(r, option) ==
  r.status \in {"awaiting", "parked", "stopped"} /\ option \in ParkedOption \cup Option

MayContinue(r, option) ==
  \/ r.status = "awaiting" /\ option \in Option
  \/ r.status = "parked" /\ option \in ParkedOption

Continue(w, option) ==
  /\ phase = "up" /\ At("free") /\ continues < MaxContinues
  /\ MayContinue(wf[w], option)
  /\ continues' = continues + 1
  /\ Save(w, [wf[w] EXCEPT !.status = "running", !.decision = FALSE,
                !.history = Append(@, [Begun(wf[w].phase) EXCEPT
                                         !.status = "continued"])],
          [Enter("advance", w) EXCEPT !.option = option], Free)
  /\ UNCHANGED <<childVars, boot, nextWorkflow, stops, crashes>>

(* The record is written before the child is stopped; an error of the      *)
(* write is ignored.                                                       *)
Stop(w) ==
  /\ phase = "up" /\ At("free") /\ stops < MaxStops
  /\ wf[w].status = "running"
  /\ stops' = stops + 1
  /\ LET c == wf[w].child
         go == IF c = NoChild THEN Free
               ELSE [Enter("stop child", w) EXCEPT !.child = c]
     IN  Save(w, [wf[w] EXCEPT !.status = "stopped", !.child = NoChild], go, go)
  /\ UNCHANGED <<childVars, boot, nextWorkflow, continues, crashes>>

StopChild ==
  /\ At("stop child")
  /\ StopRun(turn.child)
  /\ turn' = Free
  /\ UNCHANGED <<phase, wf, owner, todo, wfJournal, bounds>>

(* An operator may also stop a run itself, past the workflow and its mutex.*)
StopByHand(c) ==
  /\ phase = "up" /\ stops < MaxStops
  /\ Live(c) \/ run[c].pending
  /\ stops' = stops + 1
  /\ StopRun(c)
  /\ UNCHANGED <<memory, wfJournal, nextWorkflow, continues, crashes, faults>>

-----------------------------------------------------------------------------
(* Crash and Rehydrate.                                                    *)

Crash ==
  /\ phase # "down" /\ crashes < MaxCrashes
  /\ crashes' = crashes + 1
  /\ phase' = "down"
  /\ EngineCrash
  /\ wf' = [w \in WorkflowId |-> NoRecord]
  /\ owner' = NoWorkflow /\ turn' = Free /\ todo' = {}
  /\ UNCHANGED <<wfJournal, nextWorkflow, continues, stops, faults>>

(* validWorkflow, as far as records of the service differ in it.           *)
Valid(r) ==
  r.status # "none" /\ (r.status = "awaiting" <=> r.decision)

(* The engine finalizes the builds that ended meanwhile before this.       *)
Boot ==
  /\ phase = "down" /\ \A c \in Child : ~run[c].finalizing
  /\ phase' = "loading"
  /\ todo' = {w \in WorkflowId : Valid(wfJournal[w])}
  /\ UNCHANGED <<childVars, wf, owner, turn, wfJournal, bounds>>

(* Two records of one lane: a historical one gives way to one that is not; *)
(* any other pair is taken for corruption.                                 *)
Collide(prev, r) ==
  (prev.status \in Historical) = (r.status \in Historical)

Refused(r) == [r EXCEPT !.status = "failed", !.child = NoChild]

(* One record after the other, in the order of their file names.           *)
Load(w) ==
  /\ phase = "loading" /\ w \in todo
  /\ todo' = todo \ {w}
  /\ LET r == wfJournal[w]
         clash == owner # NoWorkflow /\ Collide(wf[owner], r)
         dups == {owner, w}
         refused == [v \in dups |-> Refused(IF v = w THEN r ELSE wf[v])]
     IN  IF clash
         THEN /\ wf' = [v \in WorkflowId |->
                          IF v \in dups THEN refused[v] ELSE wf[v]]
              /\ \E lost \in SUBSET dups :
                   /\ faults' = faults + Cardinality(lost)
                   /\ faults' <= MaxFaults
                   /\ wfJournal' = [v \in WorkflowId |->
                                      IF v \in dups \ lost THEN refused[v]
                                      ELSE wfJournal[v]]
              /\ UNCHANGED owner
         ELSE /\ wf' = [wf EXCEPT ![w] = r]
              /\ owner' = IF owner = NoWorkflow \/ r.status \notin Historical
                          THEN w ELSE owner
              /\ UNCHANGED <<wfJournal, faults>>
  /\ UNCHANGED <<childVars, phase, turn, nextWorkflow, continues, stops, crashes>>

Loaded ==
  /\ phase = "loading" /\ todo = {}
  /\ phase' = "checking"
  /\ todo' = {w \in WorkflowId : wf[w].status = "done"}
  /\ UNCHANGED <<childVars, wf, owner, turn, wfJournal, bounds>>

(* A record that says done is verified again.                              *)
Check(w) ==
  /\ phase = "checking" /\ w \in todo
  /\ todo' = todo \ {w}
  /\ \/ CanVerify(wf[w]) /\ Save(w, wf[w], Free, Free)
     \/ Save(w, [wf[w] EXCEPT !.status = "failed"], Free, Free)
  /\ UNCHANGED <<childVars, phase, owner, limits>>

Serve ==
  /\ phase = "checking" /\ todo = {}
  /\ phase' = "up"
  /\ UNCHANGED <<childVars, wf, owner, turn, todo, wfJournal, bounds>>

-----------------------------------------------------------------------------
(* A handler that has begun takes its next round.                          *)
Handle ==
  \/ GiveUp \/ FirstPhase \/ SkipDone \/ LockPRD \/ Verify \/ Finish
  \/ AdoptLive \/ NoneLive \/ SpawnChild \/ RecordChild
  \/ JudgeAdopts \/ JudgePending \/ JudgePushing \/ JudgeOutcome
  \/ StopChild

Sweep(w) ==
  NoChildYet(w) \/ Disappeared(w) \/ Follow(w) \/ StillBusy(w) \/ Inspect(w)

Request ==
  \/ \E track \in Track : Refresh(track) \/ Start(track)
  \/ \E w \in WorkflowId :
       \/ \E option \in Option \cup {NoOption} : Continue(w, option)
       \/ Stop(w)
  \/ \E c \in Child : StopByHand(c)

(* The runs change by themselves; while the backend is down, an agent may  *)
(* end and the coming boot routes it.                                      *)
Runs ==
  /\ \E c \in Child : EndChild(c) \/ Route(c) \/ (phase # "down" /\ Engine(c))
  /\ UNCHANGED <<memory, wfJournal, bounds>>

Next ==
  \/ Handle \/ (\E w \in WorkflowId : Sweep(w)) \/ Request \/ Runs
  \/ Crash \/ Boot \/ Loaded \/ Serve
  \/ \E w \in WorkflowId : Load(w) \/ Check(w)

Spec == Init /\ [][Next]_vars

(* The rounds of a handler, the sweep, the boot and the engine go on; no   *)
(* request, no end of an agent, no crash and no restart is ever assumed.   *)
Fairness ==
  /\ WF_vars(Handle)
  /\ WF_vars(Loaded) /\ WF_vars(Serve)
  /\ WF_vars(\E w \in WorkflowId : Load(w) \/ Check(w))
  /\ \A w \in WorkflowId : WF_vars(Sweep(w))
  /\ \A c \in Child :
       /\ WF_vars(Engine(c) /\ phase # "down" /\ UNCHANGED <<memory, wfJournal, bounds>>)

FairSpec == Spec /\ Fairness

-----------------------------------------------------------------------------
(* Properties.                                                             *)

(* Every variable keeps its type.                                          *)
TypeOK ==
  /\ run \in [Child -> ChildRun]
  /\ said \in [Child -> SUBSET Line]
  /\ inFlight \subseteq Child /\ pushing \subseteq Child
  /\ starting \subseteq Child \X Child
  /\ nextChild \in Nat /\ failures \in Nat
  /\ phase \in {"up", "down", "loading", "checking"}
  /\ wf \in [WorkflowId -> WorkflowRecord]
  /\ wfJournal \in [WorkflowId -> WorkflowRecord]
  /\ owner \in WorkflowId \cup {NoWorkflow}
  /\ turn \in Turn
  /\ todo \subseteq WorkflowId
  /\ nextWorkflow \in Nat /\ continues \in Nat /\ stops \in Nat
  /\ crashes \in Nat /\ faults \in Nat

OpenWorkflow(w) == wf[w].status \notin Historical \cup {"none"}

(* A lane has one workflow that is not over, whatever requests, failed     *)
(* writes and restarts it went through.                                    *)
OneOpenWorkflow ==
  \A v, w \in WorkflowId : OpenWorkflow(v) /\ OpenWorkflow(w) => v = w

(* The lane never has two live builds nor two live plain children: looking *)
(* for a live child before a spawn makes up for a crash, or a failed write,*)
(* between the spawn of a child and the record of it.                      *)
OneLivePerKind ==
  Cardinality(LiveBuilds) <= 1 /\ Cardinality(LiveChildren \ LiveBuilds) <= 1

(* A phase is recorded as done by a child only if that child succeeded, the*)
(* engine has no decision left to take on it, and its output holds none of *)
(* the words that stop a workflow; later events of the lane, a stop or the *)
(* end of a handed-over turn, cannot make the record untrue.               *)
DoneRecordsHold ==
  \A w \in WorkflowId : \A i \in DOMAIN wf[w].history :
    LET x == wf[w].history[i]
    IN  x.status = "done" /\ x.child # NoChild
          => /\ run[x.child].status = "done" /\ ~run[x.child].finalizing
             /\ said[x.child] \cap {"decision", "blocked", "parked"} = {}

(* A workflow that is done hides no push: the push of its last build has   *)
(* ended and has not failed, although it starts after the agent's exit and *)
(* its result comes later.                                                 *)
PushNotHidden ==
  \A w \in WorkflowId :
    LET r == wf[w]
        i == Last(r.history, LAMBDA x : x.phase = "build" /\ x.child # NoChild)
    IN  r.status = "done" /\ i # 0
          => /\ r.history[i].child \notin pushing
             /\ "push failed" \notin said[r.history[i].child]

(* A workflow that failed or was stopped never comes back to life, not even*)
(* by a restart, and one that is done can only turn out to have failed.    *)
OverIsFinal ==
  [][\A w \in WorkflowId :
       /\ wfJournal[w].status \in Historical
            => wfJournal'[w].status \in Historical
       /\ wfJournal[w].status = "done"
            => wfJournal'[w].status \in {"done", "failed"}]_vars

(* A workflow does not wait for a child that has ended: it moves on, or the*)
(* backend goes down.  The exception is a build whose push was cut off by a*)
(* crash: its result is waited for, and nobody will write it.              *)
NotStuck ==
  \A w \in WorkflowId, c \in Child :
    (wf[w].status = "running" /\ wf[w].child = c /\ Ended(c))
      ~> \/ wf[w].status # "running" \/ wf[w].child # c
         \/ (run[c].pushed /\ crashes > 0) \/ phase = "down"
=============================================================================
