--------------------------- MODULE WorkflowProofs ---------------------------
(***************************************************************************)
(* Theorems about Workflow, for every number of workflows, child runs,     *)
(* requests, failing writes and crashes.  The first half is about types    *)
(* and about which workflow owns the lane (IInv), the second about what    *)
(* the records say of the child runs (RunsInv, LiveInv, StoryInv).         *)
(***************************************************************************)
EXTENDS Workflow, SequenceTheorems, FiniteSetTheorems, WellFoundedInduction, TLAPS

(* A workflow stands at a phase of its own track; without this it would    *)
(* have no next phase.                                                     *)
OnTrack(r) == \E i \in DOMAIN Phases(r.track) : Phases(r.track)[i] = r.phase

SoundRecord == {r \in WorkflowRecord : OnTrack(r)}

(* The parts of the type invariant, and the three facts that keep a lane   *)
(* from having two open workflows: only the one that byLane names can be   *)
(* open; a handler under way works on a running workflow, and only while   *)
(* the backend is up; the boot verifies again only what says it is done.   *)
ChildPart ==
  /\ run \in [Child -> ChildRun]
  /\ said \in [Child -> SUBSET Line]
  /\ inFlight \subseteq Child /\ pushing \subseteq Child
  /\ starting \subseteq Child \X Child
  /\ nextChild \in Nat /\ failures \in Nat

BootPart ==
  /\ phase \in {"up", "down", "loading", "checking"}
  /\ owner \in WorkflowId \cup {NoWorkflow}
  /\ todo \subseteq WorkflowId

CountPart ==
  nextWorkflow \in Nat /\ continues \in Nat /\ stops \in Nat /\ crashes \in Nat

StorePart ==
  /\ wf \in [WorkflowId -> SoundRecord]
  /\ wfJournal \in [WorkflowId -> SoundRecord]
  /\ turn \in Turn
  /\ faults \in Nat

Owned == \A w \in WorkflowId : OpenWorkflow(w) => owner = w

Working == {"advance", "spawn", "record", "finish", "observe", "judge"}

(* Whether a handler may be where t says, given the workflows f.           *)
Busy(t, f) ==
  /\ t.pc # "free" => phase = "up"
  /\ t.pc \in Working => t.w \in WorkflowId /\ f[t.w].status = "running"

CheckHolds == phase = "checking" => \A w \in todo : wf[w].status = "done"

CorePart == StorePart /\ Owned /\ Busy(turn, wf) /\ CheckHolds

IInv == ChildPart /\ BootPart /\ CountPart /\ CorePart

-----------------------------------------------------------------------------
(* Lemmas about records, and about the operators that change them.         *)

LEMMA ExceptInSeq ==
  ASSUME NEW S, NEW s \in Seq(S), NEW i, NEW e, i \in DOMAIN s => e \in S
  PROVE  [s EXCEPT ![i] = e] \in Seq(S)
<1>1. CASE i \in DOMAIN s
  BY <1>1, ExceptSeq
<1>2. CASE i \notin DOMAIN s
  <2>1. [s EXCEPT ![i] = e] = s
    BY <1>2
  <2> QED
    BY <2>1
<1> QED
  BY <1>1, <1>2

(* The next phase exists on either track, except after the last.           *)
LEMMA NextOnTrack ==
  ASSUME NEW t \in Track, NEW i \in DOMAIN Phases(t), Phases(t)[i] # "verify"
  PROVE  \E j \in DOMAIN Phases(t) : NextPhase(t, Phases(t)[i]) = Phases(t)[j]
<1> DEFINE k == CHOOSE j \in DOMAIN Phases(t) : Phases(t)[j] = Phases(t)[i]
<1>1. k \in DOMAIN Phases(t) /\ Phases(t)[k] = Phases(t)[i]
  OBVIOUS
<1>2. k + 1 \in DOMAIN Phases(t)
  BY <1>1 DEF Phases, PlanPhases, PRDPhases
<1>3. QED
  BY <1>2 DEF NextPhase

LEMMA PhaseOnTrack ==
  ASSUME NEW t \in Track, NEW i \in DOMAIN Phases(t)
  PROVE  Phases(t)[i] \in Phase
BY DEF Phases, Phase

LEMMA BegunType ==
  ASSUME NEW p \in Phase
  PROVE  /\ Begun(p) \in PhaseRecord
         /\ [Begun(p) EXCEPT !.status = "done"] \in PhaseRecord
         /\ [Begun(p) EXCEPT !.status = "continued"] \in PhaseRecord
BY DEF Begun, PhaseRecord

LEMMA HistoryType ==
  ASSUME NEW h \in Seq(PhaseRecord), NEW p \in Phase, NEW i, NEW c \in Child \cup {NoChild}
  PROVE  /\ Append(h, Begun(p)) \in Seq(PhaseRecord)
         /\ Append(h, [Begun(p) EXCEPT !.status = "continued"]) \in Seq(PhaseRecord)
         /\ [h EXCEPT ![i].status = "failed"] \in Seq(PhaseRecord)
         /\ [h EXCEPT ![i].status = "done", ![i].child = c] \in Seq(PhaseRecord)
<1>1. /\ Append(h, Begun(p)) \in Seq(PhaseRecord)
      /\ Append(h, [Begun(p) EXCEPT !.status = "continued"]) \in Seq(PhaseRecord)
  BY BegunType, AppendProperties
<1>2. \A g \in Seq(PhaseRecord) : i \in DOMAIN g => g[i] \in PhaseRecord
  OBVIOUS
<1>3. \A x \in PhaseRecord :
        /\ [x EXCEPT !.status = "failed"] \in PhaseRecord
        /\ [x EXCEPT !.status = "done"] \in PhaseRecord
        /\ [x EXCEPT !.child = c] \in PhaseRecord
  BY DEF PhaseRecord
<1>4. [h EXCEPT ![i].status = "failed"] \in Seq(PhaseRecord)
  BY <1>2, <1>3, ExceptInSeq
<1>5. [h EXCEPT ![i].status = "done"] \in Seq(PhaseRecord)
  BY <1>2, <1>3, ExceptInSeq
<1>6. \A g \in Seq(PhaseRecord) : [g EXCEPT ![i].child = c] \in Seq(PhaseRecord)
  BY <1>2, <1>3, ExceptInSeq
<1>7. [h EXCEPT ![i].status = "done", ![i].child = c] \in Seq(PhaseRecord)
  BY <1>5, <1>6
<1>8. QED
  BY <1>1, <1>4, <1>7

LEMMA NewType ==
  /\ \A t \in Track : NewWorkflow(t) \in SoundRecord
  /\ NoRecord \in SoundRecord
<1>1. ASSUME NEW t \in Track
      PROVE  NewWorkflow(t) \in SoundRecord
  <2>1. "resolve" \in Phase
    BY DEF Phase, PRDPhases
  <2>2. <<Begun("resolve")>> \in Seq(PhaseRecord)
    <3>1. Begun("resolve") \in PhaseRecord
      BY <2>1, BegunType
    <3>2. QED
      BY <3>1
  <2>3. NewWorkflow(t) \in WorkflowRecord
    BY <2>1, <2>2 DEF NewWorkflow, WorkflowRecord
  <2>4. Phases(t)[1] = "resolve" /\ 1 \in DOMAIN Phases(t)
    BY DEF Phases, PRDPhases, PlanPhases
  <2>5. NewWorkflow(t).track = t /\ NewWorkflow(t).phase = "resolve"
    BY DEF NewWorkflow
  <2>6. OnTrack(NewWorkflow(t))
    BY <2>4, <2>5 DEF OnTrack
  <2>7. QED
    BY <2>3, <2>6 DEF SoundRecord
<1>2. NoRecord \in SoundRecord
  <2> DEFINE t == CHOOSE t \in Track : TRUE
  <2>1. t \in Track
    BY WorkflowAssumption
  <2>2. NewWorkflow(t) \in SoundRecord
    BY <2>1, <1>1
  <2>3. NoRecord = [NewWorkflow(t) EXCEPT !.status = "none"]
    BY DEF NoRecord
  <2>4. QED
    BY <2>2, <2>3 DEF SoundRecord, WorkflowRecord, OnTrack
<1>3. QED
  BY <1>1, <1>2

(* What the handlers do to a record, and to its status.                    *)
LEMMA RecordTypes ==
  ASSUME NEW r \in SoundRecord
  PROVE  /\ \A p \in Phase :
              (\E i \in DOMAIN Phases(r.track) : Phases(r.track)[i] = p)
                => Moved(r, p) \in SoundRecord /\ Moved(r, p).status = r.status
         /\ Failed(r) \in SoundRecord /\ Failed(r).status = "failed"
         /\ Refused(r) \in SoundRecord /\ Refused(r).status = "failed"
         /\ \A c \in Child \cup {NoChild} :
              Observes(r, c) \in SoundRecord /\ Observes(r, c).status = r.status
<1> USE DEF SoundRecord, WorkflowRecord, OnTrack
<1>1. NoChild \in Child \cup {NoChild}
  OBVIOUS
<1>2. ASSUME NEW p \in Phase,
             \E i \in DOMAIN Phases(r.track) : Phases(r.track)[i] = p
      PROVE  Moved(r, p) \in SoundRecord /\ Moved(r, p).status = r.status
  <2>1. Append(r.history, Begun(p)) \in Seq(PhaseRecord)
    BY HistoryType, <1>1
  <2>2. QED
    BY <2>1, <1>1, <1>2 DEF Moved
<1>3. Failed(r) \in SoundRecord /\ Failed(r).status = "failed"
  <2>1. [r.history EXCEPT ![Len(r.history)].status = "failed"] \in Seq(PhaseRecord)
    BY HistoryType, <1>1
  <2>2. QED
    BY <2>1, <1>1 DEF Failed
<1>4. Refused(r) \in SoundRecord /\ Refused(r).status = "failed"
  BY <1>1 DEF Refused
<1>5. ASSUME NEW c \in Child \cup {NoChild}
      PROVE  Observes(r, c) \in SoundRecord /\ Observes(r, c).status = r.status
  BY <1>1 DEF Observes
<1>6. QED
  BY <1>2, <1>3, <1>4, <1>5

LEMMA CompletedType ==
  ASSUME NEW r \in SoundRecord
  PROVE  Completed(r) \in SoundRecord /\ Completed(r).status = r.status
<1> DEFINE i == Last(r.history, LAMBDA x : /\ x.phase = r.phase
                                           /\ x.status \in {"started", "continued"})
           h == IF i = 0 THEN r.history
                ELSE [r.history EXCEPT ![i].status = "done", ![i].child = r.child]
           closed == [r EXCEPT !.child = NoChild, !.history = h]
<1> HIDE DEF i
<1>1. h \in Seq(PhaseRecord)
  <2>1. r.history \in Seq(PhaseRecord) /\ r.child \in Child \cup {NoChild}
        /\ r.phase \in Phase
    BY DEF SoundRecord, WorkflowRecord
  <2>2. QED
    BY <2>1, HistoryType
<1> HIDE DEF h
<1>2. closed \in SoundRecord /\ closed.status = r.status
      /\ closed.track = r.track /\ closed.phase = r.phase
  BY <1>1 DEF SoundRecord, WorkflowRecord, OnTrack
<1> HIDE DEF closed
<1>3. CASE r.phase = "verify"
  <2>1. Completed(r) = closed
    BY <1>3, Zenon DEF Completed, closed, h, i
  <2>2. QED
    BY <2>1, <1>2
<1>4. CASE r.phase # "verify"
  <2>1. Completed(r) = Moved(closed, NextPhase(r.track, r.phase))
    BY <1>4, Zenon DEF Completed, closed, h, i
  <2>2. PICK m \in DOMAIN Phases(r.track) : Phases(r.track)[m] = r.phase
    BY DEF SoundRecord, OnTrack
  <2>3. r.track \in Track
    BY DEF SoundRecord, WorkflowRecord
  <2>4. PICK j \in DOMAIN Phases(r.track) :
          NextPhase(r.track, r.phase) = Phases(r.track)[j]
    BY <1>4, <2>2, <2>3, NextOnTrack
  <2>5. NextPhase(r.track, r.phase) \in Phase
    BY <2>3, <2>4, PhaseOnTrack
  <2> DEFINE n == NextPhase(r.track, r.phase)
  <2> HIDE DEF n
  <2>6. n \in Phase /\ \E k \in DOMAIN Phases(closed.track) : Phases(closed.track)[k] = n
    BY <1>2, <2>4, <2>5 DEF n
  <2>7. Moved(closed, n) \in SoundRecord /\ Moved(closed, n).status = closed.status
    BY <1>2, <2>6, RecordTypes
  <2>8. QED
    BY <2>1, <2>7, <1>2 DEF n
<1>5. QED
  BY <1>3, <1>4

(* SkipDone's record, and that of a phase from which nothing follows.      *)
LEMMA NextType ==
  ASSUME NEW r \in SoundRecord, r.phase # "verify"
  PROVE  LET next == NextPhase(r.track, r.phase)
             q == [r EXCEPT !.phase = next, !.history = Append(@, Begun(next))]
         IN  q \in SoundRecord /\ q.status = r.status
<1> DEFINE next == NextPhase(r.track, r.phase)
<1>1. r.track \in Track /\ OnTrack(r) /\ r \in WorkflowRecord
  BY DEF SoundRecord, WorkflowRecord
<1>2. PICK j \in DOMAIN Phases(r.track) : next = Phases(r.track)[j]
  BY <1>1, NextOnTrack DEF OnTrack
<1>3. next \in Phase
  BY <1>1, <1>2, PhaseOnTrack
<1> HIDE DEF next
<1>4. Append(r.history, Begun(next)) \in Seq(PhaseRecord)
  BY <1>1, <1>3, BegunType, AppendProperties DEF WorkflowRecord
<1>5. QED
  BY <1>1, <1>2, <1>3, <1>4 DEF SoundRecord, OnTrack, WorkflowRecord, next

LEMMA ContinuedType ==
  ASSUME NEW r \in SoundRecord
  PROVE  LET q == [r EXCEPT !.status = "running", !.decision = FALSE,
                     !.history = Append(@, [Begun(r.phase) EXCEPT
                                              !.status = "continued"])]
         IN  q \in SoundRecord /\ q.status = "running"
<1>1. Append(r.history, [Begun(r.phase) EXCEPT !.status = "continued"])
        \in Seq(PhaseRecord)
  BY BegunType, AppendProperties DEF SoundRecord, WorkflowRecord
<1>2. QED
  BY <1>1 DEF SoundRecord, OnTrack, WorkflowRecord

LEMMA OutcomeType ==
  ASSUME NEW r \in SoundRecord, NEW c
  PROVE  /\ Outcome(r, c) \in SoundRecord
         /\ Outcome(r, c).status \in {r.status, "awaiting", "parked", "failed"}
<1>1. /\ [r EXCEPT !.status = "awaiting", !.decision = TRUE, !.child = NoChild]
           \in {q \in SoundRecord : q.status = "awaiting"}
      /\ [r EXCEPT !.status = "parked", !.child = NoChild]
           \in {q \in SoundRecord : q.status = "parked"}
  BY DEF SoundRecord, WorkflowRecord, OnTrack
<1>2. QED
  BY <1>1, CompletedType, RecordTypes DEF Outcome

LEMMA TurnTypes ==
  /\ Free \in Turn /\ Free.pc = "free"
  /\ \A pc \in {"start", "advance", "observe", "judge", "stop child"}, w \in WorkflowId :
       Enter(pc, w) \in Turn /\ Enter(pc, w).pc = pc /\ Enter(pc, w).w = w
  /\ turn \in Turn =>
       \A pc \in {"advance", "spawn", "record", "finish"} :
         Go(pc) \in Turn /\ Go(pc).pc = pc /\ Go(pc).w = turn.w
<1>1. NoChildRun \in ChildRun
  BY DEF NoChildRun, ChildRun
<1>2. NoRecord.track \in Track
  BY NewType DEF SoundRecord, WorkflowRecord
<1>3. Free \in Turn /\ Free.pc = "free"
  BY <1>1, <1>2 DEF Free, Turn
<1>4. QED
  BY <1>3 DEF Enter, Go, Turn

LEMMA TurnFields ==
  ASSUME NEW t \in Turn
  PROVE  /\ \A o \in Option \cup {NoOption} :
              LET u == [t EXCEPT !.option = o]
              IN  u \in Turn /\ u.pc = t.pc /\ u.w = t.w
         /\ \A c \in Child \cup {NoChild} :
              LET u == [t EXCEPT !.child = c]
              IN  u \in Turn /\ u.pc = t.pc /\ u.w = t.w
BY DEF Turn

LEMMA OldType ==
  ASSUME NEW t \in Track, NEW i \in DOMAIN Phases(t)
  PROVE  OldRecord(t, i) \in SoundRecord
<1> DEFINE h == [j \in 1 .. i |-> [Begun(Phases(t)[j]) EXCEPT !.status = "done"]]
<1>1. i \in Nat /\ 1 .. i \subseteq DOMAIN Phases(t)
  BY DEF Phases, PlanPhases, PRDPhases
<1>2. \A j \in 1 .. i : h[j] \in PhaseRecord
  BY <1>1, PhaseOnTrack, BegunType
<1>3. h \in [1 .. i -> PhaseRecord]
  BY <1>2
<1> HIDE DEF h
<1>4. h \in Seq(PhaseRecord)
  BY <1>1, <1>3, SeqDef
<1>5. NewWorkflow(t) \in WorkflowRecord /\ NewWorkflow(t).track = t
  BY NewType DEF SoundRecord, NewWorkflow
<1> DEFINE q == [NewWorkflow(t) EXCEPT !.phase = Phases(t)[i], !.history = h]
<1>6. q \in WorkflowRecord /\ q.track = t /\ q.phase = Phases(t)[i]
  BY <1>4, <1>5, PhaseOnTrack DEF WorkflowRecord
<1>7. q \in SoundRecord
  BY <1>6 DEF SoundRecord, OnTrack
<1>8. OldRecord(t, i) = q
  BY DEF OldRecord, h
<1>9. QED
  BY <1>7, <1>8

-----------------------------------------------------------------------------
(* The runs of the lane.                                                   *)

LEMMA RunTypes ==
  /\ NoChildRun \in ChildRun
  /\ \A b \in BOOLEAN, o \in Option \cup {NoOption}, n \in Nat :
       [NoChildRun EXCEPT !.status = "running", !.build = b, !.option = o,
                          !.count = n] \in ChildRun
  /\ \A r \in ChildRun, b, p \in BOOLEAN :
       [r EXCEPT !.finalizing = b, !.pending = p] \in ChildRun
BY DEF NoChildRun, ChildRun

LEMMA CreateType ==
  ASSUME ChildPart, NEW b \in BOOLEAN, NEW o \in Option \cup {NoOption},
         NEW n \in Nat, Create(b, o, n)
  PROVE  /\ run' \in [Child -> ChildRun] /\ nextChild' \in Nat
         /\ nextChild \in Child
<1> DEFINE r == [NoChildRun EXCEPT !.status = "running", !.build = b,
                                   !.option = o, !.count = n]
<1>1. r \in ChildRun
  BY RunTypes
<1>2. run' = [run EXCEPT ![nextChild] = r]
  BY DEF Create
<1> HIDE DEF r
<1>3. QED
  BY <1>1, <1>2 DEF Create, ChildPart

LEMMA ChildStep ==
  ASSUME ChildPart,
         \/ UNCHANGED childVars
         \/ EngineCrash
         \/ \E c : StopRun(c)
         \/ \E c \in Child : EndChild(c) \/ Engine(c)
  PROVE  ChildPart'
<1> USE DEF ChildPart
<1>1. NoChildRun \in ChildRun
  BY DEF NoChildRun, ChildRun
<1>2. CASE UNCHANGED childVars
  BY <1>2 DEF childVars
<1>3. CASE EngineCrash
  <2>1. PICK decided, back, gone : run' = AfterCrash(decided, back, gone)
    BY <1>3, Zenon DEF EngineCrash
  <2> DEFINE next(c) == IF c \in gone THEN NoChildRun
                        ELSE [run[c] EXCEPT !.finalizing = @ /\ c \notin decided,
                                            !.pending = @ \/ c \in back]
  <2>2. ASSUME NEW c \in Child
        PROVE  next(c) \in ChildRun
    <3>1. run[c] \in ChildRun
      OBVIOUS
    <3>2. \A b, p \in BOOLEAN :
            [run[c] EXCEPT !.finalizing = b, !.pending = p] \in ChildRun
      BY <3>1, RunTypes
    <3>3. /\ (run[c].finalizing /\ c \notin decided) \in BOOLEAN
          /\ (run[c].pending \/ c \in back) \in BOOLEAN
      OBVIOUS
    <3>4. [run[c] EXCEPT !.finalizing = @ /\ c \notin decided,
                         !.pending = @ \/ c \in back] \in ChildRun
      BY <3>2, <3>3
    <3>5. QED
      BY <3>4, <1>1
  <2>3. run' \in [Child -> ChildRun]
    <3>1. run' = [c \in Child |-> next(c)]
      BY <2>1 DEF AfterCrash
    <3> HIDE DEF next
    <3>2. QED
      BY <3>1, <2>2
  <2>4. QED
    BY <1>3, <2>3 DEF EngineCrash
<1>4. ASSUME NEW c, StopRun(c)
      PROVE  ChildPart'
  <2> DEFINE failed    == [run[c] EXCEPT !.status = "error", !.pending = FALSE]
             cancelled == [run[c] EXCEPT !.pending = FALSE]
  <2>1. c \in Child => failed \in ChildRun /\ cancelled \in ChildRun
    BY DEF ChildRun
  <2>2. \E r \in {failed, cancelled} : run' = [run EXCEPT ![c] = r]
    BY <1>4, Zenon DEF StopRun
  <2> HIDE DEF failed, cancelled
  <2>3. run' \in [Child -> ChildRun]
    BY <2>1, <2>2
  <2>4. QED
    BY <1>4, <2>3 DEF StopRun
<1>5. ASSUME NEW c \in Child, EndChild(c)
      PROVE  ChildPart'
  <2>1. PICK status \in {"done", "error"} :
          run' = [run EXCEPT ![c].status = status, ![c].finalizing = run[c].build]
    BY <1>5 DEF EndChild
  <2> DEFINE ended == [run[c] EXCEPT !.status = status, !.finalizing = run[c].build]
  <2>a. ended \in ChildRun
    BY DEF ChildRun
  <2>b. run' = [run EXCEPT ![c] = ended]
    BY <2>1
  <2> HIDE DEF ended
  <2>2. run' \in [Child -> ChildRun]
    BY <2>a, <2>b
  <2>3. PICK words \in {{}, {"decision"}, {"blocked"}, {"complete"}} :
          said' = [said EXCEPT ![c] = words]
    BY <1>5 DEF EndChild
  <2>4. said' \in [Child -> SUBSET Line]
    BY <2>3 DEF Line, LastWord
  <2>5. QED
    BY <1>5, <2>2, <2>4 DEF EndChild
<1>6. ASSUME NEW c \in Child, Route(c)
      PROVE  ChildPart'
  <2> DEFINE shown  == [run[c] EXCEPT !.finalizing = FALSE]
             pushed == [run[c] EXCEPT !.finalizing = FALSE, !.pushed = TRUE]
             armed  == [run[c] EXCEPT !.finalizing = FALSE, !.pending = TRUE]
  <2>a. shown \in ChildRun /\ pushed \in ChildRun /\ armed \in ChildRun
    BY DEF ChildRun
  <2>b. \E r \in {shown, pushed, armed} : run' = [run EXCEPT ![c] = r]
    BY <1>6, Zenon DEF Route
  <2> HIDE DEF shown, pushed, armed
  <2>1. run' \in [Child -> ChildRun]
    BY <2>a, <2>b
  <2>2. said' \in [Child -> SUBSET Line] /\ pushing' \subseteq Child
    BY <1>6 DEF Route, Line
  <2>3. QED
    BY <1>6, <2>1, <2>2 DEF Route
<1>7. ASSUME NEW c \in Child, PushEnds(c)
      PROVE  ChildPart'
  BY <1>7 DEF PushEnds, Line, LastWord
<1>8. ASSUME NEW c \in Child, Take(c)
      PROVE  ChildPart'
  BY <1>8 DEF Take, ChildRun
<1>9. ASSUME NEW c \in Child, Succeed(c)
      PROVE  ChildPart'
  <2>1. CASE LiveBuilds = {}
    <3>1. /\ run[c].option \in Option \cup {NoOption} /\ run[c].count + 1 \in Nat
          /\ Create(TRUE, run[c].option, run[c].count + 1)
      <4>1. Create(TRUE, run[c].option, run[c].count + 1)
        BY <1>9, <2>1 DEF Succeed
      <4>2. run[c].option \in Option \cup {NoOption} /\ run[c].count + 1 \in Nat
        BY DEF ChildRun
      <4>3. QED
        BY <4>1, <4>2
    <3> DEFINE o == run[c].option
               n == run[c].count + 1
    <3> HIDE DEF o, n
    <3>2. run' \in [Child -> ChildRun] /\ nextChild' \in Nat /\ nextChild \in Child
      <4>1. o \in Option \cup {NoOption} /\ n \in Nat /\ Create(TRUE, o, n)
        BY <3>1 DEF o, n
      <4>2. QED
        BY <4>1, CreateType
    <3>3. QED
      BY <1>9, <2>1, <3>2 DEF Succeed
  <2>2. CASE LiveBuilds # {}
    BY <1>9, <2>2 DEF Succeed
  <2>3. QED
    BY <2>1, <2>2
<1>10. ASSUME NEW c \in Child, NEW d \in Child, Started(c, d)
       PROVE  ChildPart'
  BY <1>10 DEF Started
<1>11. ASSUME NEW c \in Child, NEW d \in Child, NotStarted(c, d)
       PROVE  ChildPart'
  BY <1>1, <1>11 DEF NotStarted, ChildRun
<1>12. QED
  BY <1>2, <1>3, <1>4, <1>5, <1>6, <1>7, <1>8, <1>9, <1>10, <1>11 DEF Engine

-----------------------------------------------------------------------------
(* What a step of a handler has to show.                                   *)

LEMMA SaveStep ==
  ASSUME IInv, NEW w \in WorkflowId, NEW r \in SoundRecord,
         NEW ok \in Turn, NEW err \in Turn, Save(w, r, ok, err), UNCHANGED boot,
         r.status \notin Historical \cup {"none"} => owner = w,
         \A t \in {ok, err} :
           /\ t.pc # "free" => phase = "up"
           /\ t.pc \in Working => t.w = w /\ r.status = "running",
         phase = "checking" => w \notin todo
  PROVE  CorePart' /\ BootPart'
<1> USE DEF IInv, CorePart, StorePart, BootPart, boot
<1>1. wf' = [wf EXCEPT ![w] = r] /\ turn' \in {ok, err}
  BY DEF Save
<1>2. faults' \in Nat /\ wfJournal' \in {wfJournal, [wfJournal EXCEPT ![w] = r]}
  BY DEF Save, Written, WriteFails
<1>3. StorePart'
  BY <1>1, <1>2
<1>4. Owned'
  BY <1>1 DEF Owned, OpenWorkflow
<1>5. Busy(turn, wf)'
  BY <1>1 DEF Busy
<1>6. CheckHolds'
  BY <1>1 DEF CheckHolds
<1>7. QED
  BY <1>3, <1>4, <1>5, <1>6

LEMMA QuietStep ==
  ASSUME IInv, UNCHANGED <<boot, wf, wfJournal, faults>>, turn' \in Turn,
         Busy(turn', wf)
  PROVE  CorePart' /\ BootPart'
BY DEF IInv, CorePart, StorePart, BootPart, Owned, OpenWorkflow, Busy,
       CheckHolds, boot

LEMMA Frame ==
  ASSUME IInv, CorePart', BootPart', UNCHANGED <<childVars, limits>>
  PROVE  IInv'
BY ChildStep DEF IInv, CountPart, limits

LEMMA WorkingFacts ==
  ASSUME IInv, turn.pc \in Working
  PROVE  /\ turn.w \in WorkflowId /\ phase = "up" /\ turn \in Turn
         /\ Current \in SoundRecord /\ Current.status = "running"
         /\ owner = turn.w
BY DEF IInv, CorePart, StorePart, Busy, Owned, OpenWorkflow, Historical,
       Working, Current

(* A handler at work writes a record that stays running, or one that is    *)
(* not open any more, or keeps the lane.                                   *)
LEMMA HandlerSave ==
  ASSUME IInv, turn.pc \in Working, NEW r \in SoundRecord,
         NEW ok \in Turn, NEW err \in Turn, Save(turn.w, r, ok, err),
         \A t \in {ok, err} : t.pc \in Working => t.w = turn.w /\ r.status = "running",
         UNCHANGED <<childVars, boot, limits>>
  PROVE  IInv'
BY WorkingFacts, SaveStep, Frame

LEMMA HandlerQuiet ==
  ASSUME IInv, turn.pc \in Working, turn' \in Turn, turn'.w = turn.w \/ turn' = Free,
         UNCHANGED <<childVars, boot, wf, wfJournal, limits, faults>>
  PROVE  IInv'
<1>1. Busy(turn', wf)
  BY WorkingFacts, TurnTypes DEF Busy, Current, Working
<1>2. QED
  BY <1>1, QuietStep, Frame

LEMMA AdvanceSteps ==
  ASSUME IInv,
         \/ GiveUp \/ FirstPhase \/ SkipDone \/ LockPRD \/ Verify \/ Finish
         \/ AdoptLive \/ NoneLive \/ RecordChild
  PROVE  IInv'
<1> USE DEF Working
<1>a. turn.pc \in Working
  BY DEF GiveUp, FirstPhase, SkipDone, LockPRD, Verify, Finish, AdoptLive,
         NoneLive, RecordChild, NeedsChild, At
<1>b. /\ turn.w \in WorkflowId /\ phase = "up" /\ turn \in Turn
      /\ Current \in SoundRecord /\ Current.status = "running"
  BY <1>a, WorkingFacts
<1>c. /\ Free \in Turn /\ Free.pc \notin Working
      /\ \A pc \in {"advance", "spawn", "record", "finish"} :
           Go(pc) \in Turn /\ Go(pc).w = turn.w
  BY <1>b, TurnTypes
<1>d. \A r \in SoundRecord, pc \in {"advance", "finish"} :
        /\ r.status = "running"
        /\ Save(turn.w, r, Go(pc), Free)
        /\ UNCHANGED <<childVars, boot, limits>>
        => IInv'
  BY <1>a, <1>c, HandlerSave
<1>e. \A r \in SoundRecord :
        /\ Save(turn.w, r, Free, Free)
        /\ UNCHANGED <<childVars, boot, limits>>
        => IInv'
  BY <1>a, <1>c, HandlerSave
<1>1. CASE GiveUp
  BY <1>1, <1>b, <1>e, RecordTypes DEF GiveUp, Fail, Current
<1>2. CASE FirstPhase
  <2>1. PICK p \in IF Current.track = "Plan" THEN {"rplan"}
                   ELSE {"pickup", "proto", "build"} :
          Proceed(turn.w, Moved(Current, p))
    BY <1>2 DEF FirstPhase
  <2>2. \E i \in DOMAIN Phases(Current.track) : Phases(Current.track)[i] = p
    <3>1. CASE Current.track = "Plan"
      <4>1. p = PlanPhases[2] /\ 2 \in DOMAIN PlanPhases
        BY <3>1, <2>1 DEF PlanPhases
      <4>2. QED
        BY <4>1, <3>1 DEF Phases
    <3>2. CASE Current.track # "Plan"
      <4>1. \E i \in {2, 3, 5} : p = PRDPhases[i] /\ i \in DOMAIN PRDPhases
        BY <3>2, <2>1 DEF PRDPhases
      <4>2. QED
        BY <4>1, <3>2 DEF Phases
    <3>3. QED
      BY <3>1, <3>2
  <2>3. p \in Phase
    BY <2>2, <1>b, PhaseOnTrack DEF SoundRecord, WorkflowRecord
  <2>4. Moved(Current, p) \in SoundRecord /\ Moved(Current, p).status = "running"
    BY <2>2, <2>3, <1>b, RecordTypes
  <2>5. QED
    BY <1>2, <2>1, <2>4, <1>d DEF FirstPhase, Proceed
<1>3. CASE SkipDone
  <2> DEFINE next == NextPhase(Current.track, Current.phase)
             r == [Current EXCEPT !.phase = next, !.history = Append(@, Begun(next))]
  <2>1. Current.phase # "verify"
    BY <1>3 DEF SkipDone, Recorded
  <2>2. r \in SoundRecord /\ r.status = "running"
    BY <2>1, <1>b, NextType
  <2>3. Proceed(turn.w, r) /\ UNCHANGED <<childVars, boot, limits>>
    BY <1>3, Zenon DEF SkipDone
  <2> HIDE DEF r
  <2>4. QED
    BY <2>2, <2>3, <1>d DEF Proceed
<1>4. CASE LockPRD
  BY <1>4, <1>b, <1>d, CompletedType DEF LockPRD, Proceed
<1>5. CASE Verify
  BY <1>5, <1>b, <1>d, CompletedType DEF Verify
<1>6. CASE Finish
  <2>1. [Current EXCEPT !.status = "done"] \in SoundRecord
    BY <1>b DEF SoundRecord, WorkflowRecord, OnTrack
  <2>2. QED
    BY <1>6, <2>1, <1>e DEF Finish
<1>7. CASE AdoptLive
  BY <1>7, <1>b, <1>e, RecordTypes DEF AdoptLive, LiveChildren
<1>8. CASE NoneLive
  <2>1. turn' = Go("spawn")
        /\ UNCHANGED <<childVars, boot, wf, wfJournal, limits, faults>>
    BY <1>8 DEF NoneLive, boot, limits, bounds
  <2>2. QED
    BY <1>a, <1>c, <2>1, HandlerQuiet
<1>9. CASE RecordChild
  BY <1>9, <1>b, <1>e, RecordTypes DEF RecordChild, Turn
<1>10. QED
  BY <1>1, <1>2, <1>3, <1>4, <1>5, <1>6, <1>7, <1>8, <1>9

LEMMA SpawnStep ==
  ASSUME IInv, SpawnChild
  PROVE  IInv'
<1> USE DEF Working
<1>1. turn.pc = "spawn"
  BY DEF SpawnChild, At
<1>2. turn.w \in WorkflowId /\ phase = "up" /\ turn \in Turn
      /\ Current.status = "running"
  BY <1>1, WorkingFacts
<1>3. ChildPart' /\ \E c \in Child : turn' = [Go("record") EXCEPT !.child = c]
  <2>1. CASE Current.phase = "build" /\ LiveBuilds # {}
    BY <2>1, ChildStep DEF SpawnChild, IInv, ChildPart, LiveBuilds, LiveChildren
  <2>2. CASE ~(Current.phase = "build" /\ LiveBuilds # {})
    <3>1. turn.option \in Option \cup {NoOption} /\ 0 \in Nat /\ ChildPart
      BY <1>2 DEF Turn, IInv
    <3>2. Create(TRUE, turn.option, 0) \/ Create(FALSE, NoOption, 0)
      BY <2>2, Zenon DEF SpawnChild
    <3>3. run' \in [Child -> ChildRun] /\ nextChild' \in Nat /\ nextChild \in Child
      BY <3>1, <3>2, CreateType
    <3>4. turn' = [Go("record") EXCEPT !.child = nextChild]
          /\ UNCHANGED <<said, inFlight, starting, pushing, failures>>
      BY <2>2 DEF SpawnChild
    <3>5. QED
      BY <3>1, <3>3, <3>4 DEF ChildPart
  <2>3. QED
    BY <2>1, <2>2
<1>4. turn' \in Turn /\ turn'.pc = "record" /\ turn'.w = turn.w
  <2> DEFINE t == Go("record")
  <2>1. t \in Turn /\ t.pc = "record" /\ t.w = turn.w
    BY <1>2, TurnTypes
  <2> HIDE DEF t
  <2>2. PICK c \in Child : turn' = [t EXCEPT !.child = c]
    BY <1>3 DEF t
  <2>3. QED
    BY <2>1, <2>2 DEF Turn
<1>5. UNCHANGED <<boot, wf, wfJournal, limits, faults>>
  BY DEF SpawnChild, boot, limits, bounds
<1>6. Busy(turn', wf)
  BY <1>2, <1>4 DEF Busy, Current
<1>7. QED
  BY <1>3, <1>4, <1>5, <1>6, QuietStep DEF IInv, CountPart, limits

LEMMA SweepFacts ==
  ASSUME IInv, NEW w \in WorkflowId, Sweeping(w)
  PROVE  /\ phase = "up" /\ owner = w /\ turn \in Turn
         /\ wf[w] \in SoundRecord /\ wf[w].status = "running"
BY DEF Sweeping, IInv, CorePart, StorePart, Owned, OpenWorkflow, Historical

LEMMA SweepStep ==
  ASSUME IInv, NEW w \in WorkflowId, Sweep(w)
  PROVE  IInv'
<1>1. /\ phase = "up" /\ owner = w /\ turn \in Turn
      /\ wf[w] \in SoundRecord /\ wf[w].status = "running"
  BY SweepFacts DEF Sweep, NoChildYet, Disappeared, Follow, StillBusy, Inspect, Stored
<1>2. ASSUME NEW r \in SoundRecord, NEW ok \in Turn,
             Save(w, r, ok, Free), UNCHANGED <<childVars, boot, limits>>,
             ok.pc \in Working => ok.w = w /\ r.status = "running"
      PROVE  IInv'
  <2>1. Free \in Turn /\ Free.pc \notin Working
    BY TurnTypes DEF Working
  <2>2. QED
    BY <1>1, <1>2, <2>1, SaveStep, Frame
<1>3. \A t \in Turn :
        /\ turn' = t /\ UNCHANGED <<childVars, boot, wf, wfJournal, limits, faults>>
        /\ t.pc \in Working => t.w = w
        => IInv'
  BY <1>1, QuietStep, Frame DEF Busy
<1>4. CASE NoChildYet(w)
  <2>1. turn' = Enter("advance", w)
        /\ UNCHANGED <<childVars, boot, wf, wfJournal, limits, faults>>
    BY <1>4 DEF NoChildYet, boot, limits, bounds
  <2>2. QED
    BY <2>1, <1>3, TurnTypes
<1>5. CASE Disappeared(w)
  <2>1. CASE Fail(w) 
    BY <1>1, <1>2, <1>5, <2>1, TurnTypes, RecordTypes DEF Disappeared, Fail, Working
  <2>2. ASSUME NEW c \in LiveChildren, Save(w, Observes(wf[w], c), Free, Free)
        PROVE  IInv'
    BY <1>1, <1>2, <1>5, <2>2, TurnTypes, RecordTypes
       DEF Disappeared, LiveChildren, Working
  <2>3. QED
    BY <1>5, <2>1, <2>2 DEF Disappeared
<1>6. CASE Follow(w)
  <2>1. PICK d \in Child : Save(w, Observes(wf[w], d), Enter("observe", w), Free)
    BY <1>6 DEF Follow, Successors
  <2>2. UNCHANGED <<childVars, boot, limits>>
    BY <1>6 DEF Follow
  <2>3. Enter("observe", w) \in Turn /\ Enter("observe", w).w = w
    BY TurnTypes
  <2>4. Observes(wf[w], d) \in SoundRecord /\ Observes(wf[w], d).status = "running"
    BY <1>1, RecordTypes
  <2>5. QED
    BY <1>2, <2>1, <2>2, <2>3, <2>4
<1>7. CASE StillBusy(w)
  <2>1. turn' = Free
        /\ UNCHANGED <<childVars, boot, wf, wfJournal, limits, faults>>
    BY <1>7 DEF StillBusy, boot, limits, bounds
  <2>2. QED
    BY <2>1, <1>3, TurnTypes DEF Working
<1>8. CASE Inspect(w)
  <2>1. turn' = [Enter("judge", w) EXCEPT !.child = wf[w].child, !.seen = run[wf[w].child]]
        /\ UNCHANGED <<childVars, boot, wf, wfJournal, limits, faults>>
    BY <1>8 DEF Inspect, boot, limits, bounds
  <2>2. wf[w].child \in Child
    BY <1>1, <1>8 DEF Inspect, Stored, SoundRecord, WorkflowRecord
  <2>3. run[wf[w].child] \in ChildRun
    BY <2>2 DEF IInv, ChildPart
  <2> DEFINE t == Enter("judge", w)
  <2>a. t \in Turn /\ t.w = w
    BY TurnTypes
  <2>b. turn' = [t EXCEPT !.child = wf[w].child, !.seen = run[wf[w].child]]
    BY <2>1
  <2> HIDE DEF t
  <2>4. turn' \in Turn /\ turn'.w = w
    BY <2>a, <2>b, <2>2, <2>3 DEF Turn
  <2>5. QED
    BY <2>1, <2>4, <1>3
<1>9. QED
  BY <1>4, <1>5, <1>6, <1>7, <1>8 DEF Sweep

LEMMA JudgeStep ==
  ASSUME IInv, JudgeAdopts \/ JudgePending \/ JudgePushing \/ JudgeOutcome
  PROVE  IInv'
<1>1. turn.pc \in Working
  BY DEF JudgeAdopts, JudgePending, JudgePushing, JudgeOutcome, Conclusive,
         Judging, At, Working
<1>2. /\ turn.w \in WorkflowId /\ phase = "up" /\ turn \in Turn
      /\ Current \in SoundRecord /\ Current.status = "running"
  BY <1>1, WorkingFacts
<1>3. Free \in Turn /\ Free.pc \notin Working
  BY TurnTypes DEF Working
<1>4. CASE JudgeAdopts
  <2>1. PICK c \in Child : Save(turn.w, Observes(Current, c), Free, Free)
    BY <1>4 DEF JudgeAdopts, LiveBuilds, LiveChildren
  <2>2. Observes(Current, c) \in SoundRecord
    BY <1>2, RecordTypes
  <2>3. UNCHANGED <<childVars, boot, limits>>
    BY <1>4 DEF JudgeAdopts
  <2>4. QED
    BY <1>1, <1>3, <2>1, <2>2, <2>3, HandlerSave
<1>5. CASE JudgePending
  BY <1>1, <1>2, <1>3, <1>5, HandlerSave DEF JudgePending
<1>6. CASE JudgePushing
  <2>1. turn' = Free
        /\ UNCHANGED <<childVars, boot, wf, wfJournal, limits, faults>>
    BY <1>6 DEF JudgePushing, boot, limits, bounds
  <2>2. QED
    BY <1>1, <1>3, <2>1, HandlerQuiet
<1>7. CASE JudgeOutcome
  <2> DEFINE r == Outcome(Current, turn.child)
             ok == IF r.status = "running" THEN Enter("advance", turn.w) ELSE Free
  <2>1. r \in SoundRecord
    BY <1>2, OutcomeType
  <2>2. Save(turn.w, r, ok, Free) /\ UNCHANGED <<childVars, boot, limits>>
    BY <1>7 DEF JudgeOutcome
  <2> HIDE DEF r
  <2>3. ok \in Turn /\ (ok.pc \in Working => ok.w = turn.w /\ r.status = "running")
    BY <1>2, <1>3, TurnTypes
  <2> HIDE DEF ok
  <2>4. QED
    BY <1>1, <1>3, <2>1, <2>2, <2>3, HandlerSave
<1>8. QED
  BY <1>4, <1>5, <1>6, <1>7

-----------------------------------------------------------------------------
(* Requests.                                                               *)

(* While a request may begin, no handler is at work on a workflow.         *)
LEMMA RequestSave ==
  ASSUME IInv, phase = "up", NEW w \in WorkflowId, wf[w].status # "none",
         wf[w].status \notin Historical, NEW r \in SoundRecord,
         NEW ok \in Turn, NEW err \in Turn, Save(w, r, ok, err), UNCHANGED boot,
         \A t \in {ok, err} : t.pc \in Working => t.w = w /\ r.status = "running"
  PROVE  CorePart' /\ BootPart'
<1>1. owner = w
  BY DEF IInv, CorePart, Owned, OpenWorkflow
<1>2. QED
  BY <1>1, SaveStep

LEMMA RefreshStep ==
  ASSUME IInv, NEW track \in Track, Refresh(track)
  PROVE  IInv'
<1> DEFINE r  == wf[owner]
           go == [Free EXCEPT !.pc = "start", !.track = track]
           failed == [r EXCEPT !.status = "failed"]
<1>1. /\ phase = "up" /\ owner \in WorkflowId /\ r.status = "done"
      /\ r \in SoundRecord /\ UNCHANGED <<childVars, boot, limits>>
  BY DEF Refresh, MayStart, IInv, BootPart, CorePart, StorePart
<1>2. go \in Turn /\ go.pc \notin Working /\ Free \in Turn /\ Free.pc \notin Working
  BY TurnTypes DEF Turn, Working
<1>3. failed \in SoundRecord
  BY <1>1 DEF SoundRecord, WorkflowRecord, OnTrack
<1>4. Save(owner, r, Free, Free) \/ Save(owner, failed, go, go)
  BY DEF Refresh
<1> HIDE DEF go, failed
<1>5. QED
  BY <1>1, <1>2, <1>3, <1>4, RequestSave, Frame DEF Historical

LEMMA StartStep ==
  ASSUME IInv, NEW track \in Track, Start(track)
  PROVE  IInv'
<1> DEFINE w == nextWorkflow
           r == NewWorkflow(track)
<1>1. w \in WorkflowId /\ phase = "up" /\ UNCHANGED <<childVars, phase, todo>>
  BY DEF Start, MayStart
<1>2. r \in SoundRecord /\ r.status = "running"
  BY NewType DEF NewWorkflow
<1>3. \A v \in WorkflowId : ~OpenWorkflow(v)
  BY WorkflowAssumption
     DEF Start, Reopenable, IInv, CorePart, Owned, OpenWorkflow, WorkflowId, NoWorkflow
<1>4. ChildPart' /\ CountPart'
  BY <1>1, ChildStep DEF IInv, CountPart, Start
<1> HIDE DEF r
<1>5. CASE Written(w, r) /\ wf' = [wf EXCEPT ![w] = r] /\ owner' = w
           /\ turn' = Enter("advance", w)
  <2>1. StorePart'
    BY <1>1, <1>2, <1>5, TurnTypes DEF IInv, CorePart, StorePart, Written
  <2>2. Owned'
    BY <1>1, <1>3, <1>5 DEF Owned, OpenWorkflow, IInv, CorePart, StorePart
  <2>3. Busy(turn, wf)' /\ CheckHolds' /\ BootPart'
    BY <1>1, <1>2, <1>5, TurnTypes
       DEF Busy, CheckHolds, BootPart, IInv, CorePart, StorePart
  <2>4. QED
    BY <1>4, <2>1, <2>2, <2>3 DEF IInv, CorePart
<1>6. CASE WriteFails(w, r) /\ owner' = NoWorkflow /\ turn' = Free /\ UNCHANGED wf
  <2>1. StorePart'
    <3>1. wfJournal' \in [WorkflowId -> SoundRecord] /\ faults' \in Nat
      BY <1>1, <1>2, <1>6 DEF IInv, CorePart, StorePart, WriteFails
    <3>2. QED
      BY <1>6, <3>1, TurnTypes DEF IInv, CorePart, StorePart
  <2>2. Owned'
    BY <1>3, <1>6 DEF Owned, OpenWorkflow
  <2>3. Busy(turn, wf)' /\ CheckHolds' /\ BootPart'
    BY <1>1, <1>6, TurnTypes DEF Busy, Working, CheckHolds, BootPart, IInv, CorePart
  <2>4. QED
    BY <1>4, <2>1, <2>2, <2>3 DEF IInv, CorePart
<1>7. QED
  BY <1>5, <1>6 DEF Start, r

LEMMA ContinueStep ==
  ASSUME IInv, NEW w \in WorkflowId, NEW option \in Option \cup {NoOption},
         Continue(w, option)
  PROVE  IInv'
<1> DEFINE r == [wf[w] EXCEPT !.status = "running", !.decision = FALSE,
                   !.history = Append(@, [Begun(wf[w].phase) EXCEPT
                                            !.status = "continued"])]
           t == [Enter("advance", w) EXCEPT !.option = option]
<1>1. /\ phase = "up" /\ wf[w] \in SoundRecord
      /\ wf[w].status \in {"awaiting", "parked"}
      /\ UNCHANGED <<childVars, boot, nextWorkflow, stops, crashes>>
      /\ continues' = continues + 1
  BY DEF Continue, MayContinue, IInv, CorePart, StorePart
<1>2. r \in SoundRecord /\ r.status = "running"
  BY <1>1, ContinuedType
<1>3. t \in Turn /\ t.w = w
  <2>1. Enter("advance", w) \in Turn /\ Enter("advance", w).w = w
    BY TurnTypes
  <2>2. QED
    BY <2>1, TurnFields
<1>4. Save(w, r, t, Free)
  BY Zenon DEF Continue
<1>5. Free \in Turn /\ Free.pc \notin Working
  BY TurnTypes DEF Working
<1> HIDE DEF r, t
<1>6. CorePart' /\ BootPart'
  BY <1>1, <1>2, <1>3, <1>4, <1>5, RequestSave DEF Historical
<1>7. QED
  BY <1>1, <1>6, ChildStep DEF IInv, CountPart

LEMMA StopStep ==
  ASSUME IInv, NEW w \in WorkflowId, Stop(w)
  PROVE  IInv'
<1> DEFINE r == [wf[w] EXCEPT !.status = "stopped", !.child = NoChild]
           t == [Enter("stop child", w) EXCEPT !.child = wf[w].child]
           go == IF wf[w].child = NoChild THEN Free ELSE t
<1>1. /\ phase = "up" /\ wf[w] \in SoundRecord /\ wf[w].status = "running"
      /\ UNCHANGED <<childVars, boot, nextWorkflow, continues, crashes>>
      /\ stops' = stops + 1
  BY DEF Stop, IInv, CorePart, StorePart
<1>2. r \in SoundRecord
  BY <1>1 DEF SoundRecord, WorkflowRecord, OnTrack
<1>3. t \in Turn /\ t.pc = "stop child"
  <2>1. Enter("stop child", w) \in Turn /\ Enter("stop child", w).pc = "stop child"
    BY TurnTypes
  <2>2. wf[w].child \in Child \cup {NoChild}
    BY <1>1 DEF SoundRecord, WorkflowRecord
  <2>3. QED
    BY <2>1, <2>2, TurnFields
<1>4. Save(w, r, go, go)
  BY Zenon DEF Stop
<1> HIDE DEF r, t
<1>5. go \in Turn /\ go.pc \notin Working
  BY <1>3, TurnTypes DEF Working
<1> HIDE DEF go
<1>6. CorePart' /\ BootPart'
  BY <1>1, <1>2, <1>4, <1>5, RequestSave DEF Historical
<1>7. QED
  BY <1>1, <1>6, ChildStep DEF IInv, CountPart

LEMMA StopChildStep ==
  ASSUME IInv, StopChild
  PROVE  IInv'
<1>1. ChildPart'
  BY ChildStep DEF StopChild, IInv
<1>2. CorePart' /\ BootPart'
  BY QuietStep, TurnTypes DEF StopChild, boot, bounds, Busy, Working
<1>3. QED
  BY <1>1, <1>2 DEF StopChild, bounds, IInv, CountPart

(* A change of the runs alone.                                             *)
LEMMA RunsStep ==
  ASSUME IInv, UNCHANGED <<memory, wfJournal, nextWorkflow, continues, crashes, faults>>,
         stops' \in {stops, stops + 1},
         (\E c : StopRun(c)) \/ (\E c \in Child : EndChild(c) \/ Engine(c))
  PROVE  IInv'
<1>1. ChildPart'
  BY ChildStep DEF IInv
<1>2. UNCHANGED <<boot, wf, wfJournal, faults, turn>>
  BY DEF memory, boot
<1>3. CorePart' /\ BootPart'
  BY <1>2, QuietStep DEF IInv, CorePart, StorePart
<1>4. QED
  BY <1>1, <1>3 DEF IInv, CountPart

-----------------------------------------------------------------------------
(* A crash and the boot after it.                                          *)

LEMMA CrashStep ==
  ASSUME IInv, Crash
  PROVE  IInv'
<1>1. ChildPart'
  BY ChildStep DEF Crash, IInv
<1>a. /\ wf' = [w \in WorkflowId |-> NoRecord] /\ turn' = Free
      /\ phase' = "down" /\ owner' = NoWorkflow /\ todo' = {}
      /\ crashes' = crashes + 1
      /\ UNCHANGED <<wfJournal, nextWorkflow, continues, stops, faults>>
  BY DEF Crash
<1>b. NoRecord \in SoundRecord /\ Free \in Turn
  BY NewType, TurnTypes
<1>c. StorePart'
  BY <1>a, <1>b DEF IInv, CorePart, StorePart
<1>2. StorePart' /\ CountPart' /\ BootPart'
  BY <1>a, <1>c DEF IInv, CountPart, BootPart
<1>3. Owned' /\ Busy(turn, wf)' /\ CheckHolds'
  BY TurnTypes DEF Crash, Owned, OpenWorkflow, NoRecord, NewWorkflow, Busy, Working, CheckHolds
<1>4. QED
  BY <1>1, <1>2, <1>3 DEF IInv, CorePart

LEMMA LoadStep ==
  ASSUME IInv, NEW w \in WorkflowId, Load(w)
  PROVE  IInv'
<1> DEFINE r == wfJournal[w]
           clash == owner # NoWorkflow /\ Collide(wf[owner], r)
           dups == {owner, w}
           refused == [v \in dups |-> Refused(IF v = w THEN r ELSE wf[v])]
<1>1. /\ phase = "loading" /\ phase' = "loading" /\ todo' = todo \ {w}
      /\ UNCHANGED <<childVars, turn, nextWorkflow, continues, stops, crashes>>
  BY DEF Load
<1>2. r \in SoundRecord /\ (owner # NoWorkflow => wf[owner] \in SoundRecord)
  BY DEF IInv, CorePart, StorePart, BootPart
<1>3. turn.pc = "free"
  BY <1>1 DEF IInv, CorePart, Busy
<1>4. ChildPart' /\ CountPart'
  BY <1>1, ChildStep DEF IInv, CountPart
<1>5. Busy(turn, wf)' /\ CheckHolds'
  BY <1>1, <1>3 DEF Busy, Working, CheckHolds
<1>6. CASE clash
  <2>1. \A v \in dups : refused[v] \in SoundRecord /\ refused[v].status = "failed"
    BY <1>2, <1>6, RecordTypes
  <2>2. /\ wf' = [v \in WorkflowId |-> IF v \in dups THEN refused[v] ELSE wf[v]]
        /\ \E lost \in SUBSET dups :
             /\ faults' = faults + Cardinality(lost)
             /\ wfJournal' = [v \in WorkflowId |->
                                IF v \in dups \ lost THEN refused[v]
                                ELSE wfJournal[v]]
        /\ UNCHANGED owner
    BY <1>6, Zenon DEF Load
  <2> HIDE DEF refused
  <2>3. wf' \in [WorkflowId -> SoundRecord] /\ wfJournal' \in [WorkflowId -> SoundRecord]
    BY <2>1, <2>2 DEF IInv, CorePart, StorePart
  <2>4. faults' \in Nat
    <3>1. PICK lost \in SUBSET dups : faults' = faults + Cardinality(lost)
      BY <2>2
    <3>2. IsFiniteSet(dups)
      <4>1. IsFiniteSet({} \cup {owner})
        BY FS_EmptySet, FS_AddElement
      <4>2. IsFiniteSet(({} \cup {owner}) \cup {w})
        BY <4>1, FS_AddElement
      <4>3. dups = ({} \cup {owner}) \cup {w}
        OBVIOUS
      <4>4. QED
        BY <4>2, <4>3
    <3>3. Cardinality(lost) \in Nat
      BY <3>2, FS_Subset, FS_CardinalityType
    <3>4. QED
      BY <3>1, <3>3 DEF IInv, CorePart, StorePart
  <2>5. Owned'
    BY <2>1, <2>2 DEF Owned, OpenWorkflow, Historical, IInv, CorePart
  <2>6. StorePart' /\ BootPart'
    BY <1>1, <2>2, <2>3, <2>4 DEF IInv, CorePart, StorePart, BootPart
  <2>7. QED
    BY <1>4, <1>5, <2>5, <2>6 DEF IInv, CorePart
<1>7. CASE ~clash
  <2>1. /\ wf' = [wf EXCEPT ![w] = r]
        /\ owner' = IF owner = NoWorkflow \/ r.status \notin Historical
                    THEN w ELSE owner
        /\ UNCHANGED <<wfJournal, faults>>
    BY <1>7, Zenon DEF Load
  <2>2. Owned'
    BY <1>7, <2>1, WorkflowAssumption
       DEF Owned, OpenWorkflow, Collide, IInv, CorePart, StorePart, WorkflowId, NoWorkflow
  <2>3. StorePart' /\ BootPart'
    BY <1>1, <1>2, <2>1 DEF IInv, CorePart, StorePart, BootPart
  <2>4. QED
    BY <1>4, <1>5, <2>2, <2>3 DEF IInv, CorePart
<1>8. QED
  BY <1>6, <1>7

LEMMA CheckStep ==
  ASSUME IInv, NEW w \in WorkflowId, Check(w)
  PROVE  IInv'
<1> DEFINE failed == [wf[w] EXCEPT !.status = "failed"]
<1>1. /\ phase = "checking" /\ phase' = "checking" /\ w \in todo
      /\ todo' = todo \ {w} /\ UNCHANGED <<childVars, owner, limits>>
  BY DEF Check
<1>2. wf[w] \in SoundRecord /\ wf[w].status = "done" /\ owner = w
  BY <1>1 DEF IInv, CorePart, StorePart, CheckHolds, Owned, OpenWorkflow, Historical
<1>3. failed \in SoundRecord
  BY <1>2 DEF SoundRecord, WorkflowRecord, OnTrack
<1>4. PICK r \in {wf[w], failed} : Save(w, r, Free, Free)
  BY DEF Check
<1> HIDE DEF failed
<1>5. /\ wf' = [wf EXCEPT ![w] = r] /\ turn' = Free /\ faults' \in Nat
      /\ wfJournal' \in {wfJournal, [wfJournal EXCEPT ![w] = r]}
  BY <1>4 DEF Save, Written, WriteFails, IInv, CorePart, StorePart
<1>6. StorePart'
  <2>1. r \in SoundRecord /\ Free \in Turn
    BY <1>2, <1>3, TurnTypes
  <2>2. QED
    BY <2>1, <1>5 DEF IInv, CorePart, StorePart
<1>7. Owned'
  BY <1>1, <1>2, <1>5 DEF Owned, OpenWorkflow, IInv, CorePart, StorePart
<1>8. Busy(turn, wf)' /\ CheckHolds'
  <2>1. Busy(turn, wf)'
    BY <1>5, TurnTypes DEF Busy, Working
  <2>2. \A v \in todo : v # w => wf'[v] = wf[v]
    BY <1>5 DEF IInv, BootPart, CorePart, StorePart
  <2>3. CheckHolds'
    BY <1>1, <2>2 DEF CheckHolds, IInv, CorePart
  <2>4. QED
    BY <2>1, <2>3
<1>9. ChildPart' /\ CountPart' /\ BootPart'
  BY <1>1, ChildStep DEF IInv, CountPart, BootPart, limits
<1>10. QED
  BY <1>6, <1>7, <1>8, <1>9 DEF IInv, CorePart

LEMMA BootSteps ==
  ASSUME IInv, Boot \/ Loaded \/ Serve
  PROVE  IInv'
<1>1. /\ UNCHANGED <<childVars, wf, owner, turn, wfJournal, bounds>>
      /\ phase # "up"
      /\ phase' \in {"up", "loading", "checking"} /\ todo' \subseteq WorkflowId
      /\ phase' = "checking" => \A w \in todo' : wf[w].status = "done"
  BY DEF Boot, Loaded, Serve, IInv, BootPart
<1>2. turn.pc = "free"
  BY <1>1 DEF IInv, CorePart, Busy
<1>3. ChildPart' /\ CountPart' /\ BootPart'
  BY <1>1, ChildStep DEF IInv, CountPart, BootPart, bounds
<1>4. CorePart'
  BY <1>1, <1>2 DEF IInv, CorePart, StorePart, Owned, OpenWorkflow, Busy, Working,
                    CheckHolds, bounds
<1>5. QED
  BY <1>3, <1>4 DEF IInv

-----------------------------------------------------------------------------
LEMMA InitHolds == Init => IInv
<1> SUFFICES ASSUME Init
             PROVE  IInv
  OBVIOUS
<1>1. ChildPart
  BY RunTypes DEF Init, ChildInit, ChildPart
<1>2. BootPart /\ CountPart
  BY DEF Init, BootPart, CountPart
<1>3. wfJournal \in [WorkflowId -> SoundRecord]
  <2>1. CASE wfJournal = [w \in WorkflowId |-> NoRecord]
    BY <2>1, NewType
  <2>2. ASSUME NEW track \in Track, NEW i \in 2 .. Len(Phases(track)) - 1,
               wfJournal = [w \in WorkflowId |->
                              IF w = 1 THEN OldRecord(track, i) ELSE NoRecord]
        PROVE  wfJournal \in [WorkflowId -> SoundRecord]
    <3>1. i \in DOMAIN Phases(track)
      BY DEF Phases, PlanPhases, PRDPhases
    <3>2. QED
      BY <2>2, <3>1, OldType, NewType
  <2>3. QED
    BY <2>1, <2>2 DEF Init
<1>4. CorePart
  BY <1>3, NewType, TurnTypes
     DEF Init, CorePart, StorePart, Owned, OpenWorkflow, NoRecord, NewWorkflow, Busy, Working,
         CheckHolds
<1>5. QED
  BY <1>1, <1>2, <1>4 DEF IInv

LEMMA StepHolds == IInv /\ [Next]_vars => IInv'
<1> SUFFICES ASSUME IInv, [Next]_vars
             PROVE  IInv'
  OBVIOUS
<1>1. CASE Handle
  BY <1>1, AdvanceSteps, SpawnStep, JudgeStep, StopChildStep DEF Handle
<1>2. ASSUME NEW w \in WorkflowId, Sweep(w)
      PROVE  IInv'
  BY <1>2, SweepStep
<1>3. CASE Request
  <2>1. ASSUME NEW c \in Child, StopByHand(c)
        PROVE  IInv'
    BY <2>1, RunsStep DEF StopByHand
  <2>2. QED
    BY <1>3, <2>1, RefreshStep, StartStep, ContinueStep, StopStep DEF Request
<1>4. CASE Runs
  <2>1. \E c \in Child : EndChild(c) \/ Engine(c)
    BY <1>4 DEF Runs, Engine
  <2>2. QED
    BY <1>4, <2>1, RunsStep DEF Runs, bounds
<1>5. CASE Crash
  BY <1>5, CrashStep
<1>6. CASE Boot \/ Loaded \/ Serve
  BY <1>6, BootSteps
<1>7. ASSUME NEW w \in WorkflowId, Load(w) \/ Check(w)
      PROVE  IInv'
  BY <1>7, LoadStep, CheckStep
<1>8. CASE UNCHANGED vars
  <2>1. UNCHANGED <<childVars, boot, wf, wfJournal, turn, limits, faults>>
    BY <1>8 DEF vars, memory, bounds, boot, limits
  <2>2. turn' \in Turn /\ Busy(turn', wf)
    BY <2>1 DEF IInv, CorePart, StorePart
  <2>3. QED
    BY <2>1, <2>2, QuietStep, Frame
<1>9. QED
  BY <1>1, <1>2, <1>3, <1>4, <1>5, <1>6, <1>7, <1>8 DEF Next

(* The types, and who owns the lane, in every behaviour.                   *)
LEMMA Invariance == Spec => []IInv
<1>1. QED
  BY InitHolds, StepHolds, PTL DEF Spec

(* The records and the handlers of the workflow service keep their types:  *)
(* among the rest, a workflow always stands at a phase that has a place in *)
(* its track, so the loop of advanceLocked always finds the next one.      *)
THEOREM TypeCorrect == Spec => []TypeOK
<1>1. IInv => TypeOK
  BY DEF IInv, ChildPart, BootPart, CountPart, CorePart, StorePart, SoundRecord, TypeOK
<1>2. QED
  BY <1>1, Invariance, PTL

(* A lane never has two workflows that are not over, whatever requests,    *)
(* failing writes, crashes and restarts with colliding records there were. *)
THEOREM LaneHasOneOpenWorkflow == Spec => []OneOpenWorkflow
<1>1. IInv => OneOpenWorkflow
  BY DEF IInv, CorePart, Owned, OneOpenWorkflow
<1>2. QED
  BY <1>1, Invariance, PTL

-----------------------------------------------------------------------------
(* The child runs: an id is taken once, a push is under way only for a run *)
(* that was marked pushed and has no result yet, and a run whose agent is  *)
(* still to be started has not ended well.                                 *)
PushLine == {"pushed", "push failed"}

RunsInv ==
  /\ \A c \in Child :
       /\ run[c].status = "absent" => ~run[c].pushed /\ ~run[c].finalizing
       /\ run[c].status # "absent" => c < nextChild
       /\ said[c] \cap PushLine # {} => run[c].pushed
  /\ \A c \in pushing : run[c].pushed /\ said[c] \cap PushLine = {}
  /\ \A p \in starting : /\ run[p[2]].status \in {"running", "error"}
                         /\ ~run[p[2]].finalizing /\ ~run[p[2]].pushed
  /\ \A p, q \in starting : p[2] = q[2] => p = q

Succeeded(c) == run[c].status = "done" /\ ~run[c].finalizing

(* What makes a workflow stop although the run succeeded.                  *)
Blame == {"decision", "blocked", "parked"}

(* A step never undoes a success, and changes the output of the run only by*)
(* the result of a push that was already under way.                        *)
SuccessKept ==
  \A c \in Child : Succeeded(c) =>
    /\ Succeeded(c)' /\ run'[c].pushed = run[c].pushed
    /\ said'[c] \cap Blame = said[c] \cap Blame
    /\ c \notin pushing => c \notin pushing' /\ said'[c] = said[c]

(* What a step may do to the runs of the lane.                             *)
LaneMove ==
  \/ UNCHANGED childVars
  \/ EngineCrash
  \/ \E c : StopRun(c)
  \/ \E c \in Child : EndChild(c) \/ Engine(c)

ChildMove ==
  \/ LaneMove
  \/ /\ \E b \in BOOLEAN, o \in Option \cup {NoOption} : Create(b, o, 0)
     /\ UNCHANGED <<said, inFlight, starting, pushing, failures>>

LEMMA SpawnMove ==
  ASSUME IInv, SpawnChild
  PROVE  ChildMove
<1>1. CASE Current.phase = "build" /\ LiveBuilds # {}
  BY <1>1 DEF SpawnChild, ChildMove, LaneMove, childVars
<1>2. CASE ~(Current.phase = "build" /\ LiveBuilds # {})
  <2>1. turn.option \in Option \cup {NoOption}
    BY DEF IInv, CorePart, StorePart, Turn
  <2>2. Create(TRUE, turn.option, 0) \/ Create(FALSE, NoOption, 0)
    BY <1>2, Zenon DEF SpawnChild
  <2>3. UNCHANGED <<said, inFlight, starting, pushing, failures>>
    BY <1>2 DEF SpawnChild
  <2>4. \E b \in BOOLEAN, o \in Option \cup {NoOption} : Create(b, o, 0)
    BY <2>1, <2>2
  <2>5. QED
    BY <2>3, <2>4 DEF ChildMove
<1>3. QED
  BY <1>1, <1>2

LEMMA MovesOnly ==
  ASSUME IInv, [Next]_vars
  PROVE  LaneMove \/ SpawnChild
<1> USE DEF LaneMove
<1>1. CASE Handle
  BY <1>1 DEF Handle, GiveUp, FirstPhase, SkipDone, LockPRD, Verify, Finish,
     AdoptLive, NoneLive, RecordChild, JudgeAdopts, JudgePending, JudgePushing,
     JudgeOutcome, StopChild
<1>2. ASSUME NEW w \in WorkflowId, Sweep(w) \/ Load(w) \/ Check(w)
      PROVE  LaneMove
  BY <1>2 DEF Sweep, NoChildYet, Disappeared, Follow, StillBusy, Inspect, Load,
     Check
<1>3. CASE Request
  BY <1>3 DEF Request, Refresh, Start, Continue, Stop, StopByHand
<1>4. CASE Runs
  BY <1>4 DEF Runs, Engine
<1>5. CASE Crash \/ Boot \/ Loaded \/ Serve
  BY <1>5 DEF Crash, Boot, Loaded, Serve
<1>6. CASE UNCHANGED vars
  BY <1>6 DEF vars
<1>7. QED
  BY <1>1, <1>2, <1>3, <1>4, <1>5, <1>6 DEF Next

LEMMA CrashedRun ==
  ASSUME ChildPart, NEW decided, NEW back, NEW gone, NEW c \in Child
  PROVE  LET q == AfterCrash(decided, back, gone)[c]
         IN  \/ c \in gone /\ q = NoChildRun
             \/ /\ c \notin gone
                /\ q.status = run[c].status /\ q.pushed = run[c].pushed
                /\ q.build = run[c].build
                /\ q.finalizing => run[c].finalizing
<1> DEFINE q == [run[c] EXCEPT !.finalizing = @ /\ c \notin decided,
                               !.pending = @ \/ c \in back]
<1>1. run[c] \in ChildRun
  BY DEF ChildPart
<1>2. /\ q.status = run[c].status /\ q.pushed = run[c].pushed
      /\ q.build = run[c].build
      /\ q.finalizing => run[c].finalizing
  BY <1>1 DEF ChildRun
<1>3. AfterCrash(decided, back, gone)[c] = IF c \in gone THEN NoChildRun ELSE q
  BY DEF AfterCrash
<1> HIDE DEF q
<1>4. QED
  BY <1>2, <1>3

(* The runs after each move, as far as the invariants look at them.        *)
LEMMA RunsKept ==
  ASSUME ChildPart, RunsInv, ChildMove
  PROVE  RunsInv' /\ SuccessKept
<1> USE DEF ChildPart, RunsInv, SuccessKept, Succeeded
<1>a. /\ NoChildRun.status = "absent" /\ ~NoChildRun.pushed /\ ~NoChildRun.finalizing
  BY DEF NoChildRun
<1>b. \A c \in Child : run[c] \in ChildRun
  OBVIOUS
<1>c. Child \subseteq Nat /\ nextChild \in Nat
  BY ChildAssumption DEF Child
<1>1. CASE UNCHANGED childVars
  BY <1>1 DEF childVars
<1>2. CASE EngineCrash
  <2>1. PICK decided \in SUBSET Child, back \in SUBSET Child,
             gone \in SUBSET {p[2] : p \in starting} :
          run' = AfterCrash(decided, back, gone)
    BY <1>2 DEF EngineCrash
  <2>2. /\ starting' = {} /\ pushing' = {} /\ UNCHANGED <<said, nextChild>>
    BY <1>2 DEF EngineCrash
  <2>3. \A c \in gone : run[c].status \in {"running", "error"} /\ ~run[c].pushed
    OBVIOUS
  <2>4. \A c \in Child :
          \/ c \in gone /\ run'[c] = NoChildRun
          \/ /\ c \notin gone
             /\ run'[c].status = run[c].status /\ run'[c].pushed = run[c].pushed
             /\ run'[c].build = run[c].build
             /\ run'[c].finalizing => run[c].finalizing
    BY <2>1, CrashedRun
  <2>5. SuccessKept
    BY <2>2, <2>3, <2>4
  <2>6. RunsInv'
    BY <2>2, <2>3, <2>4, <1>a
  <2>7. QED
    BY <2>5, <2>6
<1>3. ASSUME NEW c, StopRun(c)
      PROVE  RunsInv' /\ SuccessKept
  <2> DEFINE failed    == [run[c] EXCEPT !.status = "error", !.pending = FALSE]
             cancelled == [run[c] EXCEPT !.pending = FALSE]
  <2>1. UNCHANGED <<said, inFlight, starting, pushing, nextChild>>
    BY <1>3 DEF StopRun
  <2>2. CASE c \notin Child
    <3>1. run' = run
      BY <1>3, <2>2 DEF StopRun
    <3>2. QED
      BY <2>1, <3>1
  <2>3. CASE c \in Child
    <3>1. /\ failed.status = "error" /\ failed.pushed = run[c].pushed
          /\ failed.finalizing = run[c].finalizing
          /\ cancelled.status = run[c].status /\ cancelled.pushed = run[c].pushed
          /\ cancelled.finalizing = run[c].finalizing
      BY <2>3, <1>b DEF ChildRun
    <3>2. \/ run' = [run EXCEPT ![c] = failed] /\ run[c].status = "running"
          \/ run' = [run EXCEPT ![c] = cancelled]
      BY <1>3, Zenon DEF StopRun, Live
    <3> HIDE DEF failed, cancelled
    <3>3. \A d \in Child : /\ run'[d].pushed = run[d].pushed
                           /\ run'[d].finalizing = run[d].finalizing
                           /\ \/ run'[d].status = run[d].status
                              \/ run[d].status = "running" /\ run'[d].status = "error"
      BY <2>3, <3>1, <3>2
    <3> HIDE <3>2
    <3>4. QED
      BY <2>1, <3>3
  <2>4. QED
    BY <2>2, <2>3
<1>4. ASSUME NEW c \in Child, EndChild(c)
      PROVE  RunsInv' /\ SuccessKept
  <2>1. PICK status \in {"done", "error"} :
          run' = [run EXCEPT ![c].status = status, ![c].finalizing = run[c].build]
    BY <1>4 DEF EndChild
  <2>2. PICK words \in {{}, {"decision"}, {"blocked"}, {"complete"}} :
          said' = [said EXCEPT ![c] = words]
    BY <1>4 DEF EndChild
  <2>3. /\ run[c].status = "running" /\ \A p \in starting : p[2] # c
        /\ UNCHANGED <<inFlight, starting, pushing, nextChild>>
    BY <1>4 DEF EndChild, Live
  <2>4. \A d \in Child : d # c => run'[d] = run[d] /\ said'[d] = said[d]
    BY <2>1, <2>2
  <2>5. run'[c].status = status /\ run'[c].pushed = run[c].pushed
    BY <2>1, <1>b DEF ChildRun
  <2>6. said'[c] = words /\ words \cap PushLine = {}
    BY <2>2 DEF PushLine
  <2>7. QED
    BY <2>3, <2>4, <2>5, <2>6
<1>5. ASSUME NEW c \in Child, Route(c)
      PROVE  RunsInv' /\ SuccessKept
  <2> DEFINE shown  == [run[c] EXCEPT !.finalizing = FALSE]
             pushed == [run[c] EXCEPT !.finalizing = FALSE, !.pushed = TRUE]
             armed  == [run[c] EXCEPT !.finalizing = FALSE, !.pending = TRUE]
  <2>a. /\ shown.status = run[c].status /\ pushed.status = run[c].status
        /\ armed.status = run[c].status
        /\ shown.pushed = run[c].pushed /\ armed.pushed = run[c].pushed
        /\ pushed.pushed = TRUE
    BY <1>b DEF ChildRun
  <2>b. /\ run[c].finalizing
        /\ UNCHANGED <<inFlight, starting, nextChild>>
        /\ \/ /\ run' = [run EXCEPT ![c] = shown] /\ UNCHANGED pushing
              /\ said' \in {said, [said EXCEPT ![c] = @ \cup {"parked"}]}
           \/ /\ run' = [run EXCEPT ![c] = pushed] /\ ~run[c].pushed
              /\ pushing' = pushing \cup {c} /\ UNCHANGED said
           \/ run' = [run EXCEPT ![c] = armed] /\ UNCHANGED <<said, pushing>>
    BY <1>5, Zenon DEF Route
  <2> HIDE DEF shown, pushed, armed
  <2>1. \A d \in Child : d # c => run'[d] = run[d] /\ said'[d] = said[d]
    BY <2>b
  <2>2. /\ run'[c].status = run[c].status
        /\ said'[c] \cap PushLine = said[c] \cap PushLine
    <3>1. run'[c].status = run[c].status
      BY <2>a, <2>b
    <3>2. said'[c] \in {said[c], said[c] \cup {"parked"}}
      BY <2>b
    <3>3. QED
      BY <3>1, <3>2 DEF PushLine
  <2>3. /\ run[c].pushed => run'[c].pushed /\ pushing' = pushing
        /\ \/ UNCHANGED pushing /\ run'[c].pushed = run[c].pushed
           \/ pushing' = pushing \cup {c} /\ ~run[c].pushed /\ run'[c].pushed
    BY <2>a, <2>b
  <2>4. /\ run[c].finalizing /\ UNCHANGED <<starting, nextChild>>
    BY <2>b
  <2> HIDE <2>b
  <2>5. RunsInv'
    <3>1. \A d \in Child :
            /\ run'[d].status = "absent" => ~run'[d].pushed /\ ~run'[d].finalizing
            /\ run'[d].status # "absent" => d < nextChild'
            /\ said'[d] \cap PushLine # {} => run'[d].pushed
      <4>1. \A d \in Child :
              /\ run'[d].status = run[d].status
              /\ run[d].pushed => run'[d].pushed
              /\ said'[d] \cap PushLine = said[d] \cap PushLine
        BY <2>1, <2>2, <2>3
      <4>2. run[c].status # "absent"
        BY <2>4
      <4>3. \A d \in Child : d # c => run'[d] = run[d]
        BY <2>1
      <4>4. QED
        BY <4>1, <4>2, <4>3, <2>4
    <3>2. \A d \in pushing' : run'[d].pushed /\ said'[d] \cap PushLine = {}
      BY <2>1, <2>2, <2>3, <2>4
    <3>3. \A p \in starting' : p[2] # c
      BY <2>4
    <3>4. QED
      BY <2>1, <2>4, <3>1, <3>2, <3>3
  <2>6. SuccessKept
    BY <2>1, <2>3, <2>4
  <2>7. QED
    BY <2>5, <2>6
<1>6. ASSUME NEW c \in Child, PushEnds(c)
      PROVE  RunsInv' /\ SuccessKept
  <2>1. /\ c \in pushing /\ pushing' = pushing \ {c}
        /\ UNCHANGED <<run, inFlight, starting, nextChild>>
    BY <1>6 DEF PushEnds
  <2>2. PICK line \in PushLine : said' = [said EXCEPT ![c] = @ \cup {line}]
    BY <1>6 DEF PushEnds, PushLine
  <2>3. /\ \A d \in Child : d # c => said'[d] = said[d]
        /\ said'[c] \cap Blame = said[c] \cap Blame
    BY <2>2 DEF PushLine, Blame
  <2>4. QED
    BY <2>1, <2>3
<1>7. ASSUME NEW c \in Child, Take(c)
      PROVE  RunsInv' /\ SuccessKept
  <2>1. \A d \in Child : /\ run'[d].pushed = run[d].pushed
                         /\ run'[d].finalizing = run[d].finalizing
                         /\ run'[d].status = run[d].status
    BY <1>7, <1>b DEF Take, ChildRun
  <2>2. UNCHANGED <<said, starting, pushing, nextChild>>
    BY <1>7 DEF Take
  <2>3. QED
    BY <2>1, <2>2
(* A new run, with or without an agent that is still to be started.        *)
<1>8. ASSUME NEW new, new.status = "running", ~new.pushed, ~new.finalizing,
             nextChild \in Child, nextChild' = nextChild + 1,
             run' = [run EXCEPT ![nextChild] = new], UNCHANGED <<said, pushing>>,
             NEW c, starting' \in {starting, starting \cup {<<c, nextChild>>}}
      PROVE  RunsInv' /\ SuccessKept
  <2>3. run'[nextChild] = new /\ \A d \in Child : d # nextChild => run'[d] = run[d]
    BY <1>8
  <2>4. run[nextChild].status = "absent"
    BY <1>8, <1>c
  <2>5. nextChild \notin pushing /\ \A p \in starting : p[2] # nextChild
    BY <1>8, <2>4
  <2>6. said[nextChild] \cap PushLine = {}
    BY <1>8, <2>4
  <2>7. SuccessKept
    BY <1>8, <2>3, <2>4
  <2>8. \A d \in Child :
          /\ run'[d].status = "absent" => ~run'[d].pushed /\ ~run'[d].finalizing
          /\ run'[d].status # "absent" => d < nextChild'
          /\ said'[d] \cap PushLine # {} => run'[d].pushed
    BY <1>8, <2>3, <2>6, <1>c
  <2>9. \A d \in pushing' : run'[d].pushed /\ said'[d] \cap PushLine = {}
    BY <1>8, <2>3, <2>5
  <2>10. \A p \in starting' : /\ run'[p[2]].status \in {"running", "error"}
                              /\ ~run'[p[2]].finalizing /\ ~run'[p[2]].pushed
    <3>1. TAKE p \in starting'
    <3>2. CASE p \in starting
      BY <2>3, <2>5, <3>2
    <3>3. CASE p = <<c, nextChild>>
      BY <1>8, <2>3, <3>3
    <3>4. QED
      BY <1>8, <3>2, <3>3
  <2>11. \A p, q \in starting' : p[2] = q[2] => p = q
    BY <1>8, <2>5
  <2>12. QED
    BY <2>7, <2>8, <2>9, <2>10, <2>11
<1>9. ASSUME NEW b \in BOOLEAN, NEW o, NEW n, Create(b, o, n)
      PROVE  \E new : /\ new.status = "running" /\ ~new.pushed /\ ~new.finalizing
                      /\ nextChild \in Child /\ nextChild' = nextChild + 1
                      /\ run' = [run EXCEPT ![nextChild] = new]
  <2> DEFINE new == [NoChildRun EXCEPT !.status = "running", !.build = b,
                                       !.option = o, !.count = n]
  <2>1. new.status = "running" /\ ~new.pushed /\ ~new.finalizing
    BY DEF NoChildRun
  <2>2. /\ nextChild \in Child /\ nextChild' = nextChild + 1
        /\ run' = [run EXCEPT ![nextChild] = new]
    BY <1>9, Zenon DEF Create
  <2> HIDE DEF new
  <2>3. QED
    BY <2>1, <2>2
<1>10. ASSUME NEW c \in Child, Succeed(c)
       PROVE  RunsInv' /\ SuccessKept
  <2>1. CASE LiveBuilds = {}
    <3> DEFINE o == run[c].option
               n == run[c].count + 1
    <3>1. /\ Create(TRUE, o, n) /\ UNCHANGED <<said, pushing>>
          /\ starting' = starting \cup {<<c, nextChild>>}
      BY <1>10, <2>1 DEF Succeed
    <3> HIDE DEF o, n
    <3>2. PICK new :
            /\ new.status = "running" /\ ~new.pushed /\ ~new.finalizing
            /\ nextChild \in Child /\ nextChild' = nextChild + 1
            /\ run' = [run EXCEPT ![nextChild] = new]
      BY <3>1, <1>9
    <3>3. QED
      BY <1>8, <3>1, <3>2
  <2>2. CASE LiveBuilds # {}
    <3>1. UNCHANGED <<run, nextChild, starting, said, pushing>>
      BY <1>10, <2>2 DEF Succeed
    <3>2. QED
      BY <3>1
  <2>3. QED
    BY <2>1, <2>2
<1>11. ASSUME NEW c \in Child, NEW d \in Child, Started(c, d)
       PROVE  RunsInv' /\ SuccessKept
  BY <1>11 DEF Started
<1>12. ASSUME NEW c \in Child, NEW d \in Child, NotStarted(c, d)
       PROVE  RunsInv' /\ SuccessKept
  <2>1. PICK again \in BOOLEAN :
          run' = [run EXCEPT ![d] = NoChildRun, ![c].pending = again]
    BY <1>12 DEF NotStarted
  <2>2. /\ <<c, d>> \in starting /\ starting' = starting \ {<<c, d>>}
        /\ UNCHANGED <<said, inFlight, pushing, nextChild>>
    BY <1>12 DEF NotStarted
  <2>3. run[d].status \in {"running", "error"} /\ ~run[d].pushed
    BY <2>2
  <2>4. \A e \in Child : e # d => /\ run'[e].pushed = run[e].pushed
                                  /\ run'[e].finalizing = run[e].finalizing
                                  /\ run'[e].status = run[e].status
    BY <2>1, <1>b DEF ChildRun
  <2>5. run'[d].status = "absent" /\ ~run'[d].pushed /\ ~run'[d].finalizing
    BY <2>1 DEF NoChildRun
  <2>6. d \notin pushing' /\ said'[d] \cap PushLine = {}
    BY <2>2, <2>3
  <2>7. \A p \in starting' : p \in starting /\ p # <<c, d>>
    BY <2>2
  <2>8. \A p \in starting' : p[2] # d
    BY <2>2, <2>7
  <2>9. QED
    BY <2>2, <2>3, <2>4, <2>5, <2>6, <2>8
<1>13. ASSUME NEW b \in BOOLEAN,
              NEW o \in Option \cup {NoOption}, Create(b, o, 0),
              UNCHANGED <<said, inFlight, starting, pushing, failures>>
       PROVE  RunsInv' /\ SuccessKept
  <2>1. PICK new :
          /\ new.status = "running" /\ ~new.pushed /\ ~new.finalizing
          /\ nextChild \in Child /\ nextChild' = nextChild + 1
          /\ run' = [run EXCEPT ![nextChild] = new]
    BY <1>13, <1>9
  <2>2. QED
    BY <1>8, <1>13, <2>1
<1>14. QED
  BY <1>1, <1>2, <1>3, <1>4, <1>5, <1>6, <1>7, <1>10, <1>11, <1>12, <1>13
     DEF ChildMove, LaneMove, Engine

-----------------------------------------------------------------------------
(* The live runs of the lane.                                              *)
LivePlain == LiveChildren \ LiveBuilds

LiveInv ==
  /\ \A c, d \in LiveBuilds : c = d
  /\ \A c, d \in LivePlain : c = d
  /\ turn.pc = "spawn" => LivePlain = {}

LEMMA CreateLive ==
  ASSUME ChildPart, NEW b \in BOOLEAN, NEW o, NEW n, Create(b, o, n)
  PROVE  /\ LiveBuilds' \subseteq LiveBuilds \cup (IF b THEN {nextChild} ELSE {})
         /\ LivePlain' \subseteq LivePlain \cup (IF b THEN {} ELSE {nextChild})
<1> DEFINE new == [NoChildRun EXCEPT !.status = "running", !.build = b,
                                     !.option = o, !.count = n]
<1>1. new.build = b
  BY DEF NoChildRun
<1>2. nextChild \in Child /\ run' = [run EXCEPT ![nextChild] = new]
  BY Zenon DEF Create
<1> HIDE DEF new
<1>3. run'[nextChild] = new /\ \A d \in Child : d # nextChild => run'[d] = run[d]
  BY <1>2 DEF ChildPart
<1>4. QED
  BY <1>1, <1>3 DEF LiveBuilds, LivePlain, LiveChildren, Live

(* Only a resumed turn makes a run live without the workflow, and only in  *)
(* a lane without a live build.                                            *)
LEMMA LaneLive ==
  ASSUME ChildPart, LaneMove
  PROVE  /\ LivePlain' \subseteq LivePlain
         /\ \/ LiveBuilds' \subseteq LiveBuilds
            \/ LiveBuilds = {} /\ LiveBuilds' \subseteq {nextChild}
<1> USE DEF LiveBuilds, LivePlain, LiveChildren, Live
<1>a. \A c \in Child : run[c] \in ChildRun
  BY DEF ChildPart
<1>b. NoChildRun.status # "running"
  BY DEF NoChildRun
<1> DEFINE Calm == \A c \in Child : run'[c].status = "running"
                     => run[c].status = "running" /\ run'[c].build = run[c].build
<1>1. ASSUME Calm
      PROVE  LivePlain' \subseteq LivePlain /\ LiveBuilds' \subseteq LiveBuilds
  BY <1>1
<1>2. CASE UNCHANGED childVars
  BY <1>2 DEF childVars
<1>3. CASE EngineCrash
  <2>1. PICK decided, back, gone : run' = AfterCrash(decided, back, gone)
    BY <1>3, Zenon DEF EngineCrash
  <2>2. Calm
    BY <2>1, <1>b, CrashedRun
  <2>3. QED
    BY <1>1, <2>2
<1>4. ASSUME NEW c, StopRun(c)
      PROVE  Calm
  <2> DEFINE failed    == [run[c] EXCEPT !.status = "error", !.pending = FALSE]
             cancelled == [run[c] EXCEPT !.pending = FALSE]
  <2>1. c \in Child => /\ failed.status = "error"
                       /\ cancelled.status = run[c].status
                       /\ cancelled.build = run[c].build
    BY <1>a DEF ChildRun
  <2>2. \E r \in {failed, cancelled} : run' = [run EXCEPT ![c] = r]
    BY <1>4, Zenon DEF StopRun
  <2> HIDE DEF failed, cancelled
  <2>3. QED
    BY <2>1, <2>2 DEF ChildPart
<1>5. ASSUME NEW c \in Child, EndChild(c)
      PROVE  Calm
  <2>1. PICK status \in {"done", "error"} :
          run' = [run EXCEPT ![c].status = status, ![c].finalizing = run[c].build]
    BY <1>5 DEF EndChild
  <2>2. run'[c].status = status /\ \A d \in Child : d # c => run'[d] = run[d]
    BY <2>1, <1>a DEF ChildPart, ChildRun
  <2>3. QED
    BY <2>2
<1>6. ASSUME NEW c \in Child, Route(c)
      PROVE  Calm
  <2> DEFINE shown  == [run[c] EXCEPT !.finalizing = FALSE]
             pushed == [run[c] EXCEPT !.finalizing = FALSE, !.pushed = TRUE]
             armed  == [run[c] EXCEPT !.finalizing = FALSE, !.pending = TRUE]
  <2>1. \A r \in {shown, pushed, armed} : r.status = run[c].status /\ r.build = run[c].build
    BY <1>a DEF ChildRun
  <2>2. \E r \in {shown, pushed, armed} : run' = [run EXCEPT ![c] = r]
    BY <1>6, Zenon DEF Route
  <2> HIDE DEF shown, pushed, armed
  <2>3. QED
    BY <2>1, <2>2 DEF ChildPart
<1>7. ASSUME NEW c \in Child, Take(c)
      PROVE  Calm
  BY <1>7, <1>a DEF Take, ChildRun, ChildPart
<1>8. ASSUME NEW c \in Child, PushEnds(c) \/ \E d \in Child : Started(c, d)
      PROVE  Calm
  BY <1>8 DEF PushEnds, Started
<1>9. ASSUME NEW c \in Child, NEW d \in Child, NotStarted(c, d)
      PROVE  Calm
  <2>1. PICK again \in BOOLEAN :
          run' = [run EXCEPT ![d] = NoChildRun, ![c].pending = again]
    BY <1>9 DEF NotStarted
  <2>2. \A e \in Child : e # d => run'[e].status = run[e].status
                                  /\ run'[e].build = run[e].build
    BY <2>1, <1>a DEF ChildRun, ChildPart
  <2>3. run'[d].status = "absent"
    BY <2>1 DEF NoChildRun, ChildPart
  <2>4. QED
    BY <2>2, <2>3
<1>10. ASSUME NEW c \in Child, Succeed(c)
       PROVE  /\ LivePlain' \subseteq LivePlain
              /\ \/ LiveBuilds' \subseteq LiveBuilds
                 \/ LiveBuilds = {} /\ LiveBuilds' \subseteq {nextChild}
  <2>1. CASE LiveBuilds = {}
    <3> DEFINE o == run[c].option
               n == run[c].count + 1
    <3>1. Create(TRUE, o, n)
      BY <1>10, <2>1 DEF Succeed
    <3> HIDE DEF o, n
    <3>2. /\ LiveBuilds' \subseteq LiveBuilds \cup {nextChild}
          /\ LivePlain' \subseteq LivePlain
      BY <3>1, CreateLive
    <3> HIDE DEF LiveBuilds, LivePlain
    <3>3. QED
      BY <2>1, <3>2
  <2>2. CASE LiveBuilds # {}
    <3>1. UNCHANGED run
      BY <1>10, <2>2 DEF Succeed
    <3>2. QED
      BY <3>1
  <2>3. QED
    BY <2>1, <2>2
<1> HIDE DEF Calm, LiveBuilds, LivePlain
<1>11. QED
  BY <1>1, <1>2, <1>3, <1>4, <1>5, <1>6, <1>7, <1>8, <1>9, <1>10 DEF LaneMove, Engine

LEMMA SpawnLeaves ==
  ASSUME IInv, SpawnChild
  PROVE  turn.pc = "spawn" /\ turn'.pc = "record"
<1>1. \E c : turn' = [Go("record") EXCEPT !.child = c]
  BY Zenon DEF SpawnChild
<1>2. turn'.pc = "record"
  BY <1>1 DEF Go, IInv, CorePart, StorePart, Turn
<1>3. QED
  BY <1>2 DEF SpawnChild, At

(* A handler comes to the spawn from a lane in which nothing is live.      *)
LEMMA SpawnEntry ==
  ASSUME IInv, [Next]_vars, turn'.pc = "spawn"
  PROVE  UNCHANGED turn \/ NoneLive
<1>1. /\ Free.pc # "spawn" /\ Go("advance").pc # "spawn"
      /\ Go("record").pc # "spawn" /\ Go("finish").pc # "spawn"
  BY TurnTypes DEF IInv, CorePart, StorePart
<1>2. \A w \in WorkflowId : /\ Enter("advance", w).pc # "spawn"
                            /\ Enter("observe", w).pc # "spawn"
                            /\ Enter("judge", w).pc # "spawn"
                            /\ Enter("stop child", w).pc # "spawn"
  BY TurnTypes
<1>3. CASE Handle
  <2>1. CASE SpawnChild
    BY <2>1, SpawnLeaves
  <2>2. CASE JudgeAdopts \/ JudgePending \/ JudgePushing \/ JudgeOutcome
    <3>1. turn.pc \in Working
      BY <2>2 DEF JudgeAdopts, JudgePending, JudgePushing, JudgeOutcome, Conclusive,
         Judging, At, Working
    <3>2. turn' \in {Free, Enter("advance", turn.w)}
      BY <2>2, Zenon DEF JudgeAdopts, JudgePending, JudgePushing, JudgeOutcome, Save
    <3>3. QED
      BY <3>1, <3>2, <1>1, <1>2, WorkingFacts
  <2>3. ASSUME GiveUp \/ FirstPhase \/ SkipDone \/ LockPRD \/ Verify \/ Finish
               \/ AdoptLive \/ RecordChild \/ StopChild
        PROVE  turn' \in {Free, Go("advance"), Go("finish")}
    BY <2>3, Zenon DEF GiveUp, Fail, FirstPhase, Proceed, SkipDone, LockPRD, Verify,
       Finish, AdoptLive, RecordChild, StopChild, Save
  <2>4. QED
    BY <1>1, <1>3, <2>1, <2>2, <2>3 DEF Handle
<1>4. ASSUME NEW w \in WorkflowId, Sweep(w) \/ Load(w) \/ Check(w)
      PROVE  UNCHANGED turn
  <2>1. CASE Inspect(w)
    <3>1. turn'.pc = Enter("judge", w).pc
      BY <2>1 DEF Inspect, Enter, Free
    <3>2. QED
      BY <3>1, <1>2
  <2>2. CASE NoChildYet(w) \/ Disappeared(w) \/ Follow(w) \/ StillBusy(w) \/ Check(w)
    <3>1. turn' \in {Free, Enter("advance", w), Enter("observe", w)}
      BY <2>2, Zenon DEF NoChildYet, Disappeared, Fail, Follow, StillBusy, Check, Save
    <3>2. QED
      BY <3>1, <1>1, <1>2
  <2>3. QED
    BY <1>4, <2>1, <2>2 DEF Sweep, Load
<1>5. CASE Request
  <2>1. ASSUME NEW track \in Track, Refresh(track)
        PROVE  FALSE
    <3> DEFINE go == [Free EXCEPT !.pc = "start", !.track = track]
    <3>a. go.pc = "start"
      BY DEF Free
    <3>b. turn' \in {Free, go}
      BY <2>1, Zenon DEF Refresh, Save
    <3> HIDE DEF go
    <3>1. turn'.pc \in {Free.pc, "start"}
      BY <3>a, <3>b
    <3>2. QED
      BY <3>1, <1>1
  <2>2. ASSUME NEW track \in Track, Start(track)
        PROVE  FALSE
    <3>1. nextWorkflow \in WorkflowId /\ turn' \in {Free, Enter("advance", nextWorkflow)}
      BY <2>2, Zenon DEF Start, MayStart
    <3>2. QED
      BY <3>1, <1>1, <1>2
  <2>3. ASSUME NEW w \in WorkflowId, NEW option, Continue(w, option)
        PROVE  FALSE
    <3> DEFINE t == Enter("advance", w)
    <3>1. turn' \in {Free, [t EXCEPT !.option = option]}
      BY <2>3, Zenon DEF Continue, Save
    <3>2. [t EXCEPT !.option = option].pc = t.pc
      BY DEF Enter, Free
    <3> HIDE DEF t
    <3>3. turn'.pc \in {Free.pc, t.pc}
      BY <3>1, <3>2
    <3>4. QED
      BY <3>3, <1>1, <1>2 DEF t
  <2>4. ASSUME NEW w \in WorkflowId, Stop(w)
        PROVE  FALSE
    <3> DEFINE t == Enter("stop child", w)
               u == [t EXCEPT !.child = wf[w].child]
    <3>1. turn' \in {Free, u}
      BY <2>4, Zenon DEF Stop, Save
    <3>2. u.pc = t.pc
      BY DEF Enter, Free
    <3> HIDE DEF u, t
    <3>3. turn'.pc \in {Free.pc, t.pc}
      BY <3>1, <3>2
    <3>4. QED
      BY <3>3, <1>1, <1>2 DEF t
  <2>5. ASSUME NEW c \in Child, StopByHand(c)
        PROVE  UNCHANGED turn
    BY <2>5 DEF StopByHand, memory
  <2>6. QED
    BY <1>5, <2>1, <2>2, <2>3, <2>4, <2>5 DEF Request
<1>6. CASE Runs \/ Boot \/ Loaded \/ Serve \/ UNCHANGED vars
  BY <1>6 DEF Runs, memory, Boot, Loaded, Serve, vars
<1>7. CASE Crash
  BY <1>1, <1>7 DEF Crash
<1>8. QED
  BY <1>3, <1>4, <1>5, <1>6, <1>7 DEF Next

LEMMA LiveStep ==
  ASSUME IInv, LiveInv, [Next]_vars
  PROVE  LiveInv'
<1>a. ChildPart
  BY DEF IInv
<1>1. CASE SpawnChild
  <2>1. turn.pc = "spawn" /\ turn'.pc = "record"
    BY <1>1, SpawnLeaves
  <2>2. CASE Current.phase = "build" /\ LiveBuilds # {}
    <3>1. UNCHANGED run
      BY <1>1, <2>2 DEF SpawnChild
    <3>2. UNCHANGED <<LiveBuilds, LivePlain>>
      BY <3>1 DEF LiveBuilds, LivePlain, LiveChildren, Live
    <3>3. QED
      BY <2>1, <3>2 DEF LiveInv
  <2>3. CASE Current.phase = "build" /\ LiveBuilds = {}
    <3> DEFINE o == turn.option
    <3>1. Create(TRUE, o, 0)
      BY <1>1, <2>3, Zenon DEF SpawnChild
    <3> HIDE DEF o
    <3>2. LiveBuilds' \subseteq {nextChild} /\ LivePlain' \subseteq LivePlain
      BY <1>a, <2>3, <3>1, CreateLive
    <3>3. QED
      BY <2>1, <3>2 DEF LiveInv
  <2>4. CASE Current.phase # "build"
    <3>1. Create(FALSE, NoOption, 0)
      BY <1>1, <2>4, Zenon DEF SpawnChild
    <3>2. LiveBuilds' \subseteq LiveBuilds /\ LivePlain' \subseteq LivePlain \cup {nextChild}
      BY <1>a, <3>1, CreateLive
    <3>3. QED
      BY <2>1, <3>2 DEF LiveInv
  <2>5. QED
    BY <2>2, <2>3, <2>4
<1>2. CASE LaneMove
  <2>1. /\ LivePlain' \subseteq LivePlain
        /\ \/ LiveBuilds' \subseteq LiveBuilds
           \/ LiveBuilds = {} /\ LiveBuilds' \subseteq {nextChild}
    BY <1>a, <1>2, LaneLive
  <2>2. turn'.pc = "spawn" => LivePlain' = {}
    <3>1. CASE UNCHANGED turn
      BY <2>1, <3>1 DEF LiveInv
    <3>2. CASE NoneLive
      BY <2>1, <3>2 DEF NoneLive, LivePlain
    <3>3. QED
      BY <3>1, <3>2, SpawnEntry
  <2>3. QED
    BY <2>1, <2>2 DEF LiveInv
<1>3. QED
  BY <1>1, <1>2, MovesOnly

LEMMA AtMostOne ==
  ASSUME NEW S, \A x, y \in S : x = y
  PROVE  Cardinality(S) <= 1
<1>1. CASE S = {}
  BY <1>1, FS_EmptySet
<1>2. ASSUME NEW x \in S
      PROVE  Cardinality(S) = 1
  <2>1. S = {x}
    BY <1>2
  <2>2. QED
    BY <2>1, FS_Singleton
<1>3. QED
  BY <1>1, <1>2

(* The lane never has two live builds nor two live plain children, however *)
(* crashes and failing writes separate the spawn of a child from the record*)
(* of it and resumed turns come in between.                                *)
THEOREM ChildrenExclusive == Spec => []OneLivePerKind
<1>1. Init => LiveInv
  BY DEF Init, ChildInit, LiveInv, LiveBuilds, LivePlain, LiveChildren, Live,
     NoChildRun, Free
<1>2. LiveInv => OneLivePerKind
  BY AtMostOne DEF LiveInv, LivePlain, OneLivePerKind
<1>3. QED
  BY <1>1, <1>2, LiveStep, Invariance, PTL DEF Spec

-----------------------------------------------------------------------------
LEMMA MaxInSet ==
  ASSUME NEW n \in Nat, NEW I \in SUBSET (1 .. n), I # {}
  PROVE  Max(I) \in I
<1> DEFINE R == OpToRel(<, Nat)
           T == {n - i : i \in I}
<1>1. IsWellFoundedOn(R, Nat)
  BY NatLessThanWellFounded
<1>2. \A x, y \in Nat : x < y => <<x, y>> \in R
  BY DEF OpToRel
<1>3. T \subseteq Nat /\ T # {}
  <2>1. \A i \in I : n - i \in Nat
    OBVIOUS
  <2>2. QED
    BY <2>1
<1> HIDE DEF R, T
<1>4. PICK x \in T : \A y \in T : <<y, x>> \notin R
  BY <1>1, <1>3, WFMin
<1>5. PICK m \in I : x = n - m
  BY DEF T
<1>6. \A y \in I : m >= y
  <2>1. TAKE y \in I
  <2>2. n - y \in T
    BY DEF T
  <2>3. ~(n - y < n - m)
    BY <2>2, <1>2, <1>3, <1>4, <1>5
  <2>4. QED
    BY <2>3
<1>7. QED
  BY <1>5, <1>6 DEF Max

-----------------------------------------------------------------------------
(* What the records say of the child runs.                                 *)

Blameless(c, R, S) ==
  R[c].status = "done" /\ ~R[c].finalizing /\ S[c] \cap Blame = {}

(* Every run that the history names succeeded, and a build of it is not    *)
(* being pushed.                                                           *)
Truthful(r, R, S, P) ==
  \A i \in DOMAIN r.history :
    LET x == r.history[i]
    IN  x.child # NoChild
          => Blameless(x.child, R, S) /\ (x.phase = "build" => x.child \notin P)

LastBuild(r) == Last(r.history, LAMBDA x : x.phase = "build" /\ x.child # NoChild)

Clean(r, S) ==
  LastBuild(r) # 0 => "push failed" \notin S[r.history[LastBuild(r)].child]

Rests(r) == r.status \in {"awaiting", "parked"} => r.child = NoChild

Story(r, R, S, P) ==
  Truthful(r, R, S, P) /\ Rests(r) /\ (r.status = "done" => Clean(r, S))

(* A handler spawns and verifies only for a workflow that observes no run, *)
(* and the copy it judges by is right about a success.                     *)
TurnStory(t, r, R, S) ==
  /\ t.pc \in {"advance", "spawn", "record", "finish"} => r.child = NoChild
  /\ t.pc = "finish" => Clean(r, S)
  /\ t.pc = "judge" =>
       /\ r.child = t.child /\ t.child \in Child
       /\ t.seen.status = "done"
            => /\ R[t.child].status = "done" /\ ~R[t.child].finalizing
               /\ R[t.child].pushed => t.seen.pushed

(* The journal is never ahead of the memory by an end of the workflow.     *)
Behind ==
  \A w \in WorkflowId :
    /\ OpenWorkflow(w) => /\ wfJournal[w].status \notin Historical
                          /\ wfJournal[w].status = "done" => wf[w].status = "done"
    /\ w >= nextWorkflow => /\ wf[w].status = "none" /\ wfJournal[w].status = "none"
                            /\ w \notin todo /\ owner # w

StoryInv ==
  /\ \A w \in WorkflowId : /\ Story(wf[w], run, said, pushing)
                            /\ Story(wfJournal[w], run, said, pushing)
  /\ turn.w \in WorkflowId => TurnStory(turn, wf[turn.w], run, said)
  /\ Behind

Final ==
  \A w \in WorkflowId :
       /\ wfJournal[w].status \in Historical
            => wfJournal'[w].status \in Historical
       /\ wfJournal[w].status = "done"
            => wfJournal'[w].status \in {"done", "failed"}

LEMMA HistoryDomain ==
  ASSUME NEW r \in SoundRecord
  PROVE  /\ r.history \in Seq(PhaseRecord) /\ Len(r.history) \in Nat
         /\ DOMAIN r.history = 1 .. Len(r.history)
         /\ \A i \in DOMAIN r.history :
              /\ r.history[i] \in PhaseRecord
              /\ r.history[i].child \in Child \cup {NoChild}
         /\ 0 \notin DOMAIN r.history
<1>1. r.history \in Seq(PhaseRecord)
  BY DEF SoundRecord, WorkflowRecord
<1>2. \A i \in DOMAIN r.history : r.history[i] \in PhaseRecord
  BY <1>1
<1>3. \A x \in PhaseRecord : x.child \in Child \cup {NoChild}
  BY DEF PhaseRecord
<1>4. Len(r.history) \in Nat /\ DOMAIN r.history = 1 .. Len(r.history)
  BY <1>1
<1>5. QED
  BY <1>1, <1>2, <1>3, <1>4

LEMMA LastBuildIs ==
  ASSUME NEW r \in SoundRecord, LastBuild(r) # 0
  PROVE  /\ LastBuild(r) \in DOMAIN r.history
         /\ r.history[LastBuild(r)].phase = "build"
         /\ r.history[LastBuild(r)].child \in Child
<1> DEFINE I == {i \in DOMAIN r.history :
                  r.history[i].phase = "build" /\ r.history[i].child # NoChild}
<1>1. LastBuild(r) = IF I = {} THEN 0 ELSE Max(I)
  BY DEF LastBuild, Last
<1>2. I \in SUBSET (1 .. Len(r.history)) /\ Len(r.history) \in Nat
  BY HistoryDomain
<1> HIDE DEF I
<1>3. LastBuild(r) \in I
  BY <1>1, <1>2, MaxInSet
<1>4. QED
  BY <1>3, HistoryDomain DEF I

LEMMA OpenRecord ==
  ASSUME NEW r \in SoundRecord
  PROVE  LET i == Last(r.history, LAMBDA x : /\ x.phase = r.phase
                                            /\ x.status \in {"started", "continued"})
         IN  i # 0 => i \in DOMAIN r.history /\ r.history[i].phase = r.phase
<1> DEFINE I == {i \in DOMAIN r.history :
                  /\ r.history[i].phase = r.phase
                  /\ r.history[i].status \in {"started", "continued"}}
           i == Last(r.history, LAMBDA x : /\ x.phase = r.phase
                                           /\ x.status \in {"started", "continued"})
<1>1. i = IF I = {} THEN 0 ELSE Max(I)
  BY DEF Last
<1>2. I \in SUBSET (1 .. Len(r.history)) /\ Len(r.history) \in Nat
  BY HistoryDomain
<1> HIDE DEF I, i
<1>3. i # 0 => i \in I
  BY <1>1, <1>2, MaxInSet
<1>4. i # 0 => i \in DOMAIN r.history /\ r.history[i].phase = r.phase
  BY <1>3 DEF I
<1>5. QED
  BY <1>4 DEF i

(* The runs move on: a record that was true stays true.                    *)
LEMMA StoryMoves ==
  ASSUME RunsInv, SuccessKept, NEW r \in SoundRecord,
         Truthful(r, run, said, pushing)
  PROVE  /\ Truthful(r, run', said', pushing')
         /\ Clean(r, said) => Clean(r, said')
<1>1. ASSUME NEW i \in DOMAIN r.history, r.history[i].child # NoChild
      PROVE  LET x == r.history[i]
             IN  /\ Blameless(x.child, run', said')
                 /\ x.phase = "build" => /\ x.child \notin pushing'
                                         /\ said'[x.child] = said[x.child]
  <2> DEFINE x == r.history[i]
  <2>1. x.child \in Child
    BY <1>1, HistoryDomain
  <2>2. /\ Blameless(x.child, run, said)
        /\ x.phase = "build" => x.child \notin pushing
    BY <1>1 DEF Truthful
  <2>3. QED
    BY <2>1, <2>2 DEF Blameless, SuccessKept, Succeeded
<1>2. Truthful(r, run', said', pushing')
  BY <1>1 DEF Truthful
<1>3. ASSUME Clean(r, said), LastBuild(r) # 0
      PROVE  "push failed" \notin said'[r.history[LastBuild(r)].child]
  <2> DEFINE i == LastBuild(r)
  <2>1. /\ i \in DOMAIN r.history /\ r.history[i].phase = "build"
        /\ r.history[i].child # NoChild
    BY <1>3, LastBuildIs, ChildAssumption DEF Child, NoChild
  <2>2. "push failed" \notin said[r.history[i].child]
    BY <1>3 DEF Clean
  <2> HIDE DEF i
  <2>3. said'[r.history[i].child] = said[r.history[i].child]
    BY <2>1, <1>1
  <2>4. QED
    BY <2>2, <2>3 DEF i
<1>4. QED
  BY <1>2, <1>3 DEF Clean

LEMMA TurnMoves ==
  ASSUME RunsInv, SuccessKept, NEW r \in SoundRecord, NEW t,
         Truthful(r, run, said, pushing), TurnStory(t, r, run, said)
  PROVE  TurnStory(t, r, run', said')
<1>1. t.pc = "finish" => Clean(r, said')
  BY StoryMoves DEF TurnStory
<1>2. ASSUME t.pc = "judge", t.seen.status = "done"
      PROVE  /\ run'[t.child].status = "done" /\ ~run'[t.child].finalizing
             /\ run'[t.child].pushed => t.seen.pushed
  BY <1>2 DEF TurnStory, SuccessKept, Succeeded
<1>3. QED
  BY <1>1, <1>2 DEF TurnStory

(* Records that keep their history, or get a record without a child.       *)
LEMMA SameHistory ==
  ASSUME NEW r, NEW q, q.history = r.history, NEW R, NEW S, NEW P
  PROVE  /\ Truthful(r, R, S, P) => Truthful(q, R, S, P)
         /\ Clean(r, S) => Clean(q, S)
BY DEF Truthful, Clean, LastBuild

LEMMA AppendKeeps ==
  ASSUME NEW r \in SoundRecord, NEW x \in PhaseRecord, x.child = NoChild,
         NEW q, q.history = Append(r.history, x), NEW R, NEW S, NEW P,
         Truthful(r, R, S, P)
  PROVE  Truthful(q, R, S, P)
<1>1. /\ r.history \in Seq(PhaseRecord) /\ DOMAIN r.history = 1 .. Len(r.history)
      /\ Len(r.history) \in Nat
  BY HistoryDomain
<1>2. /\ DOMAIN q.history = 1 .. Len(r.history) + 1
      /\ \A i \in DOMAIN r.history : q.history[i] = r.history[i]
      /\ q.history[Len(r.history) + 1] = x
  BY <1>1, AppendProperties
<1>3. \A i \in DOMAIN q.history : i \in DOMAIN r.history \/ q.history[i] = x
  BY <1>1, <1>2
<1>4. QED
  BY <1>2, <1>3 DEF Truthful

LEMMA FailedKeeps ==
  ASSUME NEW r \in SoundRecord, NEW R, NEW S, NEW P, Truthful(r, R, S, P)
  PROVE  Truthful(Failed(r), R, S, P)
<1> DEFINE n == Len(r.history)
           g == [r.history EXCEPT ![n].status = "failed"]
<1>1. Failed(r).history = IF r.history[n].status = "started" THEN g ELSE r.history
  BY DEF Failed, SoundRecord, WorkflowRecord
<1>2. /\ DOMAIN g = DOMAIN r.history
      /\ \A i \in DOMAIN g : /\ g[i].child = r.history[i].child
                              /\ g[i].phase = r.history[i].phase
  BY HistoryDomain DEF PhaseRecord
<1> HIDE DEF g
<1>3. QED
  BY <1>1, <1>2 DEF Truthful

(* A phase is closed with a child that did well, or without one.           *)
LEMMA CompletedKeeps ==
  ASSUME NEW r \in SoundRecord, NEW R, NEW S, NEW P, Truthful(r, R, S, P),
         r.child # NoChild
           => Blameless(r.child, R, S) /\ (r.phase = "build" => r.child \notin P)
  PROVE  /\ Truthful(Completed(r), R, S, P) /\ Completed(r).child = NoChild
         /\ r.phase = "verify" /\ r.child = NoChild /\ Clean(r, S)
              => Clean(Completed(r), S)
<1> DEFINE i == Last(r.history, LAMBDA x : /\ x.phase = r.phase
                                           /\ x.status \in {"started", "continued"})
           h == IF i = 0 THEN r.history
                ELSE [r.history EXCEPT ![i].status = "done", ![i].child = r.child]
           closed == [r EXCEPT !.child = NoChild, !.history = h]
<1>1. i # 0 => i \in DOMAIN r.history /\ r.history[i].phase = r.phase
  BY OpenRecord
<1> HIDE DEF i
<1>2. /\ r.history \in Seq(PhaseRecord)
      /\ \A j \in DOMAIN r.history : r.history[j] \in PhaseRecord
      /\ r.child \in Child \cup {NoChild} /\ r.phase \in Phase
  BY HistoryDomain DEF SoundRecord, WorkflowRecord
<1>3. /\ DOMAIN h = DOMAIN r.history
      /\ \A j \in DOMAIN h :
           /\ h[j].phase = r.history[j].phase
           /\ \/ h[j].child = r.history[j].child
              \/ i # 0 /\ j = i /\ h[j].child = r.child
  <2>1. CASE i = 0
    BY <2>1
  <2>2. CASE i # 0
    <3> DEFINE g == [r.history EXCEPT ![i].status = "done"]
    <3>1. /\ DOMAIN g = DOMAIN r.history
          /\ \A j \in DOMAIN g : /\ g[j] \in PhaseRecord
                                  /\ g[j].phase = r.history[j].phase
                                  /\ g[j].child = r.history[j].child
      BY <1>2 DEF PhaseRecord
    <3>2. h = [g EXCEPT ![i].child = r.child]
      BY <2>2
    <3> HIDE DEF g, h
    <3>3. QED
      BY <1>1, <1>2, <2>2, <3>1, <3>2 DEF PhaseRecord
  <2>3. QED
    BY <2>1, <2>2
<1>4. h \in Seq(PhaseRecord)
  BY <1>2, HistoryType
<1> HIDE DEF h
<1>5. closed \in SoundRecord /\ closed.history = h /\ closed.child = NoChild
  BY <1>4 DEF SoundRecord, WorkflowRecord, OnTrack
<1>6. Truthful(closed, R, S, P)
  BY <1>1, <1>3, <1>5 DEF Truthful
<1>7. Completed(r) = IF r.phase = "verify" THEN closed
                     ELSE Moved(closed, NextPhase(r.track, r.phase))
  BY Zenon DEF Completed, closed, h, i
<1> HIDE DEF closed
<1>8. CASE r.phase # "verify"
  <2> DEFINE n == NextPhase(r.track, r.phase)
  <2>1. n \in Phase
    <3>1. PICK m \in DOMAIN Phases(r.track) : Phases(r.track)[m] = r.phase
      BY DEF SoundRecord, OnTrack
    <3>2. r.track \in Track
      BY DEF SoundRecord, WorkflowRecord
    <3>3. \E j \in DOMAIN Phases(r.track) :
            NextPhase(r.track, r.phase) = Phases(r.track)[j]
      BY <1>8, <3>1, <3>2, NextOnTrack
    <3>4. QED
      BY <3>2, <3>3, PhaseOnTrack
  <2> HIDE DEF n
  <2>2. /\ Begun(n) \in PhaseRecord /\ Begun(n).child = NoChild
    BY <2>1, BegunType DEF Begun
  <2>3. /\ Moved(closed, n).history = Append(closed.history, Begun(n))
        /\ Moved(closed, n).child = NoChild
    BY <1>5 DEF Moved, SoundRecord, WorkflowRecord
  <2>4. Truthful(Moved(closed, n), R, S, P)
    BY <1>5, <1>6, <2>2, <2>3, AppendKeeps
  <2>5. QED
    BY <1>7, <1>8, <2>3, <2>4 DEF n
<1>9. CASE r.phase = "verify"
  <2>1. ASSUME r.child = NoChild, Clean(r, S)
        PROVE  Clean(closed, S)
    <3> DEFINE I(f) == {j \in DOMAIN f : f[j].phase = "build" /\ f[j].child # NoChild}
    <3>1. I(h) = I(r.history)
      <4>1. \A j \in DOMAIN h :
              h[j].phase = "build" => h[j].child = r.history[j].child
        BY <1>1, <1>3, <1>9
      <4>2. QED
        BY <1>3, <4>1
    <3>2. LastBuild(closed) = LastBuild(r)
      <4>1. /\ LastBuild(closed) = IF I(h) = {} THEN 0 ELSE Max(I(h))
            /\ LastBuild(r) = IF I(r.history) = {} THEN 0 ELSE Max(I(r.history))
        BY <1>5 DEF LastBuild, Last
      <4> HIDE DEF I
      <4>2. QED
        BY <3>1, <4>1
    <3>3. LastBuild(r) # 0 =>
            h[LastBuild(r)].child = r.history[LastBuild(r)].child
      <4>1. ASSUME LastBuild(r) # 0
            PROVE  h[LastBuild(r)].child = r.history[LastBuild(r)].child
        BY <1>1, <1>3, <1>9, <4>1, LastBuildIs
      <4>2. QED
        BY <4>1
    <3>4. QED
      BY <1>5, <2>1, <3>2, <3>3 DEF Clean
  <2>2. QED
    BY <1>5, <1>6, <1>7, <1>9, <2>1
<1>10. QED
  BY <1>8, <1>9

-----------------------------------------------------------------------------
(* What a step has to show.                                                *)

LEMMA SaveStory ==
  ASSUME IInv, StoryInv, UNCHANGED <<childVars, owner, nextWorkflow>>,
         todo' \subseteq todo, NEW w \in WorkflowId, OpenWorkflow(w),
         NEW r \in SoundRecord, Story(r, run, said, pushing),
         wf[w].status = "done" => r.status \in {"done", "failed"},
         r.status # "none", NEW ok, NEW err, Save(w, r, ok, err),
         \A t \in {ok, err} :
           t.w \in WorkflowId => t.w = w /\ TurnStory(t, r, run, said)
  PROVE  StoryInv' /\ Final
<1>1. /\ wf' = [wf EXCEPT ![w] = r] /\ turn' \in {ok, err}
      /\ wfJournal' \in {wfJournal, [wfJournal EXCEPT ![w] = r]}
  BY DEF Save, Written, WriteFails
<1>2. UNCHANGED <<run, said, pushing>>
  BY DEF childVars
<1>3. /\ wf'[w] = r /\ wfJournal'[w] \in {wfJournal[w], r}
      /\ \A v \in WorkflowId : v # w => wf'[v] = wf[v] /\ wfJournal'[v] = wfJournal[v]
  BY <1>1 DEF IInv, CorePart, StorePart
<1> HIDE <1>1
<1>4. /\ wf[w].status \notin Historical \cup {"none"}
      /\ wfJournal[w].status \notin Historical
      /\ wfJournal[w].status = "done" => wf[w].status = "done"
  BY DEF OpenWorkflow, StoryInv, Behind
<1>5. Final
  BY <1>3, <1>4 DEF Final, Historical
<1>6. Behind'
  <2>1. ~(w >= nextWorkflow)
    BY <1>4 DEF StoryInv, Behind
  <2>2. ASSUME NEW v \in WorkflowId
        PROVE  /\ OpenWorkflow(v)' =>
                    /\ wfJournal'[v].status \notin Historical
                    /\ wfJournal'[v].status = "done" => wf'[v].status = "done"
               /\ v >= nextWorkflow' =>
                    /\ wf'[v].status = "none" /\ wfJournal'[v].status = "none"
                    /\ v \notin todo' /\ owner' # v
    <3>1. CASE v = w
      BY <1>3, <1>4, <2>1, <3>1 DEF OpenWorkflow, Historical
    <3>2. CASE v # w
      BY <1>3, <3>2 DEF OpenWorkflow, StoryInv, Behind
    <3>3. QED
      BY <3>1, <3>2
  <2>3. QED
    BY <2>2 DEF Behind
<1>7. \A v \in WorkflowId : /\ Story(wf'[v], run', said', pushing')
                            /\ Story(wfJournal'[v], run', said', pushing')
  BY <1>2, <1>3 DEF StoryInv
<1>8. turn'.w \in WorkflowId => TurnStory(turn', wf'[turn'.w], run', said')
  BY <1>1, <1>2, <1>3
<1>9. QED
  BY <1>5, <1>6, <1>7, <1>8 DEF StoryInv

LEMMA RestStory ==
  ASSUME IInv, StoryInv, RunsInv, SuccessKept,
         UNCHANGED <<wf, wfJournal, owner, nextWorkflow>>,
         \A w \in todo' : w \in todo \/ wf[w].status # "none"
                                      \/ wfJournal[w].status # "none",
         turn'.w \in WorkflowId
           => turn' = turn \/ TurnStory(turn', wf[turn'.w], run', said')
  PROVE  StoryInv' /\ Final
<1>1. Final
  BY DEF Final
<1>2. Behind'
  BY DEF Behind, StoryInv, OpenWorkflow
<1>3. \A w \in WorkflowId : wf[w] \in SoundRecord /\ wfJournal[w] \in SoundRecord
  BY DEF IInv, CorePart, StorePart
<1>4. \A w \in WorkflowId : /\ Story(wf[w], run', said', pushing')
                            /\ Story(wfJournal[w], run', said', pushing')
  BY <1>3, StoryMoves DEF Story, StoryInv
<1>5. turn'.w \in WorkflowId => TurnStory(turn', wf[turn'.w], run', said')
  BY <1>3, TurnMoves DEF Story, StoryInv
<1>6. QED
  BY <1>1, <1>2, <1>4, <1>5 DEF StoryInv

LEMMA FreeTurn ==
  /\ Free.w \notin WorkflowId
  /\ \A w \in WorkflowId : /\ Enter("observe", w).w = w
                            /\ \A r, R, S : TurnStory(Enter("observe", w), r, R, S)
  /\ \A w \in WorkflowId : \A r, R, S :
       r.child = NoChild => TurnStory(Enter("advance", w), r, R, S)
<1>1. Free.w \notin WorkflowId
  BY WorkflowAssumption DEF Free, WorkflowId, NoWorkflow
<1>2. QED
  BY <1>1, TurnTypes DEF TurnStory

-----------------------------------------------------------------------------
(* The steps.                                                              *)

LEMMA AdvanceStory ==
  ASSUME IInv, StoryInv,
         \/ GiveUp \/ FirstPhase \/ SkipDone \/ LockPRD \/ Verify \/ Finish
         \/ AdoptLive \/ RecordChild
  PROVE  StoryInv' /\ Final
<1> DEFINE r == Current
<1>a. turn.pc \in {"advance", "spawn", "record", "finish"}
  BY DEF GiveUp, FirstPhase, SkipDone, LockPRD, Verify, Finish, AdoptLive,
         RecordChild, NeedsChild, At
<1>b. /\ turn.w \in WorkflowId /\ turn \in Turn
      /\ r \in SoundRecord /\ r.status = "running"
  BY <1>a, WorkingFacts DEF Working
<1>c. OpenWorkflow(turn.w) /\ wf[turn.w] = r
  BY <1>b DEF OpenWorkflow, Current, Historical
<1>d. /\ Truthful(r, run, said, pushing) /\ r.child = NoChild
      /\ turn.pc = "finish" => Clean(r, said)
  BY <1>a, <1>b, <1>c DEF StoryInv, Story, TurnStory
<1>e. UNCHANGED <<childVars, owner, nextWorkflow, todo>>
  BY DEF GiveUp, FirstPhase, SkipDone, LockPRD, Verify, Finish, AdoptLive,
         RecordChild, boot, limits
<1>f. /\ Go("advance").w = turn.w /\ Go("advance").pc = "advance"
      /\ Go("finish").w = turn.w /\ Go("finish").pc = "finish"
  BY <1>b, TurnTypes
<1>g. /\ r.history \in Seq(PhaseRecord) /\ r.phase \in Phase /\ r.track \in Track
  BY <1>b DEF SoundRecord, WorkflowRecord
<1> HIDE DEF r
(* A record that goes on, one that observes a run, one that is over.       *)
<1>1. ASSUME NEW q \in SoundRecord, Truthful(q, run, said, pushing),
             q.status = "running", q.child = NoChild, NEW pc \in {"advance", "finish"},
             pc = "finish" => Clean(q, said), Save(turn.w, q, Go(pc), Free)
      PROVE  StoryInv' /\ Final
  <2>1. Story(q, run, said, pushing)
    BY <1>1 DEF Story, Rests
  <2>2. \A t \in {Go(pc), Free} :
          t.w \in WorkflowId => t.w = turn.w /\ TurnStory(t, q, run, said)
    BY <1>1, <1>f, FreeTurn DEF TurnStory
  <2>3. QED
    BY <1>b, <1>c, <1>e, <1>1, <2>1, <2>2, SaveStory
<1>2. ASSUME NEW q \in SoundRecord, Story(q, run, said, pushing),
             q.status # "none", Save(turn.w, q, Free, Free)
      PROVE  StoryInv' /\ Final
  BY <1>b, <1>c, <1>e, <1>2, SaveStory, FreeTurn
<1>3. ASSUME NEW c \in Child \cup {NoChild}, Save(turn.w, Observes(r, c), Free, Free)
      PROVE  StoryInv' /\ Final
  <2> DEFINE q == Observes(r, c)
  <2>1. q \in SoundRecord /\ q.status = "running"
    BY <1>b, RecordTypes
  <2>2. q.history = r.history
    BY <1>b DEF Observes, SoundRecord, WorkflowRecord
  <2>3. Save(turn.w, q, Free, Free)
    BY <1>3
  <2> HIDE DEF q
  <2>4. Story(q, run, said, pushing)
    BY <1>d, <2>1, <2>2, SameHistory DEF Story, Rests
  <2>5. QED
    BY <1>2, <2>1, <2>3, <2>4
<1>4. CASE GiveUp
  <2>1. Failed(r) \in SoundRecord /\ Failed(r).status = "failed"
    BY <1>b, RecordTypes
  <2>2. Story(Failed(r), run, said, pushing)
    BY <1>b, <1>d, <2>1, FailedKeeps DEF Story, Rests
  <2>3. Save(turn.w, Failed(r), Free, Free)
    BY <1>4, <1>c DEF GiveUp, Fail
  <2>4. QED
    BY <1>2, <2>1, <2>2, <2>3
<1>5. CASE FirstPhase
  <2>1. PICK p \in IF r.track = "Plan" THEN {"rplan"}
                   ELSE {"pickup", "proto", "build"} :
          Proceed(turn.w, Moved(r, p))
    BY <1>5 DEF FirstPhase, r
  <2>2. \E i \in DOMAIN Phases(r.track) : Phases(r.track)[i] = p
    <3>1. CASE r.track = "Plan"
      <4>1. p = PlanPhases[2] /\ 2 \in DOMAIN PlanPhases
        BY <3>1, <2>1 DEF PlanPhases
      <4>2. QED
        BY <4>1, <3>1 DEF Phases
    <3>2. CASE r.track # "Plan"
      <4>1. \E i \in {2, 3, 5} : p = PRDPhases[i] /\ i \in DOMAIN PRDPhases
        BY <3>2, <2>1 DEF PRDPhases
      <4>2. QED
        BY <4>1, <3>2 DEF Phases
    <3>3. QED
      BY <3>1, <3>2
  <2>3. p \in Phase
    BY <1>g, <2>2, PhaseOnTrack
  <2>4. /\ Moved(r, p) \in SoundRecord /\ Moved(r, p).status = "running"
        /\ Begun(p) \in PhaseRecord /\ Begun(p).child = NoChild
    BY <1>b, <2>2, <2>3, RecordTypes, BegunType DEF Begun
  <2>5. /\ Moved(r, p).history = Append(r.history, Begun(p))
        /\ Moved(r, p).child = NoChild
    BY <1>b DEF Moved, SoundRecord, WorkflowRecord
  <2> DEFINE q == Moved(r, p)
  <2>6. Truthful(q, run, said, pushing)
    BY <1>b, <1>d, <2>4, <2>5, AppendKeeps
  <2>7. Save(turn.w, q, Go("advance"), Free)
    BY <2>1 DEF Proceed
  <2> HIDE DEF q
  <2>8. q \in SoundRecord /\ q.status = "running" /\ q.child = NoChild
    BY <2>4, <2>5 DEF q
  <2>9. QED
    BY <1>1, <2>6, <2>7, <2>8
<1>6. CASE SkipDone
  <2> DEFINE next == NextPhase(r.track, r.phase)
             q == [r EXCEPT !.phase = next, !.history = Append(@, Begun(next))]
  <2>1. r.phase # "verify"
    BY <1>6 DEF SkipDone, Recorded, r
  <2>2. q \in SoundRecord /\ q.status = "running"
    BY <2>1, <1>b, NextType
  <2>3. next \in Phase
    <3>1. PICK m \in DOMAIN Phases(r.track) : Phases(r.track)[m] = r.phase
      BY <1>b DEF SoundRecord, OnTrack
    <3>2. QED
      BY <1>g, <2>1, <3>1, NextOnTrack, PhaseOnTrack
  <2>4. q.history = Append(r.history, Begun(next)) /\ q.child = NoChild
    BY <1>b, <1>d DEF SoundRecord, WorkflowRecord
  <2>5. Save(turn.w, q, Go("advance"), Free)
    BY <1>6, Zenon DEF SkipDone, Proceed, r
  <2> HIDE DEF q, next
  <2>6. Begun(next) \in PhaseRecord /\ Begun(next).child = NoChild
    BY <2>3, BegunType DEF Begun
  <2>7. Truthful(q, run, said, pushing)
    BY <1>b, <1>d, <2>4, <2>6, AppendKeeps
  <2>8. QED
    BY <1>1, <2>2, <2>4, <2>5, <2>7
<1>7. CASE LockPRD \/ Verify
  <2> DEFINE q == Completed(r)
  <2>1. q \in SoundRecord /\ q.status = "running"
    BY <1>b, CompletedType
  <2>2. Truthful(q, run, said, pushing) /\ q.child = NoChild
    BY <1>b, <1>d, CompletedKeeps
  <2>3. CASE LockPRD
    <3>1. Save(turn.w, q, Go("advance"), Free)
      BY <2>3 DEF LockPRD, Proceed, r
    <3> HIDE DEF q
    <3>2. QED
      BY <1>1, <2>1, <2>2, <3>1
  <2>4. CASE Verify
    <3>1. r.phase = "verify" /\ CanVerify(r) /\ Save(turn.w, q, Go("finish"), Free)
      BY <2>4 DEF Verify, r
    <3>2. Clean(r, said)
      BY <3>1, Zenon DEF CanVerify, Clean, LastBuild
    <3>3. Clean(q, said)
      BY <1>b, <1>d, <3>1, <3>2, CompletedKeeps
    <3> HIDE DEF q
    <3>4. QED
      BY <1>1, <2>1, <2>2, <3>1, <3>3
  <2>5. QED
    BY <1>7, <2>3, <2>4
<1>8. CASE Finish
  <2> DEFINE q == [r EXCEPT !.status = "done"]
  <2>1. /\ q \in SoundRecord /\ q.status = "done" /\ q.history = r.history
    BY <1>b DEF SoundRecord, WorkflowRecord, OnTrack
  <2>2. turn.pc = "finish" /\ Save(turn.w, q, Free, Free)
    BY <1>8 DEF Finish, At, r
  <2> HIDE DEF q
  <2>3. Story(q, run, said, pushing)
    BY <1>d, <2>1, <2>2, SameHistory DEF Story, Rests
  <2>4. QED
    BY <1>2, <2>1, <2>2, <2>3
<1>9. CASE AdoptLive
  BY <1>9, <1>3 DEF AdoptLive, LiveChildren, r
<1>10. CASE RecordChild
  BY <1>10, <1>b, <1>3 DEF RecordChild, Turn, r
<1>11. QED
  BY <1>4, <1>5, <1>6, <1>7, <1>8, <1>9, <1>10

LEMMA JudgeStory ==
  ASSUME IInv, RunsInv, StoryInv, JudgeAdopts \/ JudgePending \/ JudgeOutcome
  PROVE  StoryInv' /\ Final
<1> DEFINE r == Current
           c == turn.child
<1>a. turn.pc = "judge" /\ turn.pc \in Working
  BY DEF JudgeAdopts, JudgePending, JudgeOutcome, Conclusive, Judging, At, Working
<1>b. /\ turn.w \in WorkflowId /\ turn \in Turn
      /\ r \in SoundRecord /\ r.status = "running"
  BY <1>a, WorkingFacts
<1>c. OpenWorkflow(turn.w) /\ wf[turn.w] = r
  BY <1>b DEF OpenWorkflow, Current, Historical
<1>d. /\ Story(r, run, said, pushing) /\ TurnStory(turn, r, run, said)
  BY <1>b, <1>c DEF StoryInv
<1>e. UNCHANGED <<childVars, owner, nextWorkflow, todo>>
  BY DEF JudgeAdopts, JudgePending, JudgeOutcome, boot, limits
<1>f. /\ r.child = c /\ c \in Child
      /\ turn.seen.status = "done"
           => /\ run[c].status = "done" /\ ~run[c].finalizing
              /\ run[c].pushed => turn.seen.pushed
  BY <1>a, <1>d DEF TurnStory
<1>g. Truthful(r, run, said, pushing)
  BY <1>d DEF Story
<1> HIDE DEF r
<1>1. ASSUME NEW q \in SoundRecord, Story(q, run, said, pushing),
             q.status # "none", Save(turn.w, q, Free, Free)
      PROVE  StoryInv' /\ Final
  BY <1>b, <1>c, <1>e, <1>1, SaveStory, FreeTurn
<1>2. CASE JudgeAdopts
  <2>1. PICK d \in Child : Save(turn.w, Observes(r, d), Free, Free)
    BY <1>2 DEF JudgeAdopts, LiveBuilds, LiveChildren, r
  <2> DEFINE q == Observes(r, d)
  <2>2. q \in SoundRecord /\ q.status = "running"
    BY <1>b, RecordTypes
  <2>3. q.history = r.history
    BY <1>b DEF Observes, SoundRecord, WorkflowRecord
  <2>4. Save(turn.w, q, Free, Free)
    BY <2>1
  <2> HIDE DEF q
  <2>5. Story(q, run, said, pushing)
    BY <1>g, <2>2, <2>3, SameHistory DEF Story, Rests
  <2>6. QED
    BY <1>1, <2>2, <2>4, <2>5
<1>3. CASE JudgePending
  <2>1. Save(turn.w, r, Free, Free)
    BY <1>3 DEF JudgePending, r
  <2>2. QED
    BY <1>1, <1>b, <1>d, <2>1
<1>4. CASE JudgeOutcome
  <2> DEFINE q == Outcome(r, c)
             ok == IF q.status = "running" THEN Enter("advance", turn.w) ELSE Free
  <2>1. q \in SoundRecord /\ q.status \in {"running", "awaiting", "parked", "failed"}
    BY <1>b, OutcomeType
  <2>2. Save(turn.w, q, ok, Free)
    BY <1>4, Zenon DEF JudgeOutcome, r
  (* What a phase is closed on: the run succeeded, said nothing that stops *)
  (* the workflow, and the result of its push is known.                    *)
  <2>3. ASSUME turn.seen.status = "done", "decision" \notin said[c],
               {"blocked", "parked"} \cap said[c] = {}
        PROVE  Blameless(c, run, said) /\ (r.phase = "build" => c \notin pushing)
    <3>1. Blameless(c, run, said)
      BY <1>f, <2>3 DEF Blameless, Blame
    <3>2. ASSUME r.phase = "build", c \in pushing
          PROVE  FALSE
      <4>1. turn.seen.pushed /\ said[c] \cap PushLine = {}
        BY <1>f, <2>3, <3>2 DEF RunsInv
      <4>2. ~PushUnknown(c)
        BY <1>4, <3>2 DEF JudgeOutcome, Conclusive, Building, r
      <4>3. QED
        BY <4>1, <4>2 DEF PushUnknown, PushLine
    <3>3. QED
      BY <3>1, <3>2
  <2>4. Story(q, run, said, pushing) /\ (q.status = "running" => q.child = NoChild)
    <3> DEFINE awaiting == [r EXCEPT !.status = "awaiting", !.decision = TRUE,
                                     !.child = NoChild]
               parked == [r EXCEPT !.status = "parked", !.child = NoChild]
    <3>1. q = IF "decision" \in said[c] THEN awaiting
              ELSE IF {"blocked", "parked"} \cap said[c] # {} THEN parked
              ELSE IF turn.seen.status # "done" THEN Failed(r) ELSE Completed(r)
      BY Zenon DEF Outcome
    <3>2. /\ awaiting.status = "awaiting" /\ awaiting.child = NoChild
          /\ awaiting.history = r.history
          /\ parked.status = "parked" /\ parked.child = NoChild
          /\ parked.history = r.history
      BY <1>b DEF SoundRecord, WorkflowRecord
    <3>3. /\ Failed(r).status = "failed" /\ Completed(r).status = "running"
          /\ Truthful(Failed(r), run, said, pushing)
      BY <1>b, <1>g, RecordTypes, CompletedType, FailedKeeps
    <3> HIDE DEF awaiting, parked, q
    <3>4. CASE q = awaiting \/ q = parked
      BY <1>g, <3>2, <3>4, SameHistory DEF Story, Rests
    <3>5. CASE q = Failed(r)
      BY <3>3, <3>5 DEF Story, Rests
    <3>6. ASSUME q = Completed(r), turn.seen.status = "done",
                 "decision" \notin said[c], {"blocked", "parked"} \cap said[c] = {}
          PROVE  Story(q, run, said, pushing) /\ q.child = NoChild
      <4>1. Truthful(Completed(r), run, said, pushing) /\ Completed(r).child = NoChild
        BY <1>b, <1>f, <1>g, <2>3, <3>6, CompletedKeeps
      <4>2. QED
        BY <3>3, <3>6, <4>1 DEF Story, Rests
    <3>7. QED
      BY <3>1, <3>4, <3>5, <3>6
  <2> HIDE DEF q
  <2>5. \A t \in {ok, Free} :
          t.w \in WorkflowId => t.w = turn.w /\ TurnStory(t, q, run, said)
    <3>1. /\ Enter("advance", turn.w).w = turn.w
          /\ q.child = NoChild => TurnStory(Enter("advance", turn.w), q, run, said)
      BY <1>b, FreeTurn, TurnTypes
    <3>2. QED
      BY <3>1, <2>4, FreeTurn
  <2> HIDE DEF ok
  <2>6. QED
    BY <1>b, <1>c, <1>e, <2>1, <2>2, <2>4, <2>5, SaveStory
<1>5. QED
  BY <1>2, <1>3, <1>4

LEMMA SweepStory ==
  ASSUME IInv, StoryInv, NEW w \in WorkflowId, Disappeared(w) \/ Follow(w)
  PROVE  StoryInv' /\ Final
<1> DEFINE r == wf[w]
<1>1. /\ r \in SoundRecord /\ r.status = "running"
      /\ UNCHANGED <<childVars, owner, nextWorkflow, todo>>
  BY SweepFacts DEF Disappeared, Follow, Stored, boot, limits
<1>2. /\ OpenWorkflow(w) /\ Truthful(r, run, said, pushing)
  BY <1>1 DEF OpenWorkflow, Historical, StoryInv, Story
<1> HIDE DEF r
<1>3. ASSUME NEW d \in Child, NEW ok \in {Free, Enter("observe", w)},
             Save(w, Observes(r, d), ok, Free)
      PROVE  StoryInv' /\ Final
  <2> DEFINE q == Observes(r, d)
  <2>1. q \in SoundRecord /\ q.status = "running"
    BY <1>1, RecordTypes
  <2>2. q.history = r.history
    BY <1>1 DEF Observes, SoundRecord, WorkflowRecord
  <2>3. Save(w, q, ok, Free)
    BY <1>3
  <2> HIDE DEF q
  <2>4. Story(q, run, said, pushing)
    BY <1>2, <2>1, <2>2, SameHistory DEF Story, Rests
  <2>5. \A t \in {ok, Free} :
          t.w \in WorkflowId => t.w = w /\ TurnStory(t, q, run, said)
    BY FreeTurn
  <2>6. wf[w].status # "done"
    BY <1>1 DEF r
  <2>7. QED
    BY <1>1, <1>2, <2>1, <2>3, <2>4, <2>5, <2>6, SaveStory
<1>4. CASE Fail(w) /\ Disappeared(w)
  <2>1. Failed(r) \in SoundRecord /\ Failed(r).status = "failed"
    BY <1>1, RecordTypes
  <2>2. Story(Failed(r), run, said, pushing)
    BY <1>1, <1>2, <2>1, FailedKeeps DEF Story, Rests
  <2>3. Save(w, Failed(r), Free, Free)
    BY <1>4 DEF Fail, r
  <2>4. QED
    BY <1>1, <1>2, <2>1, <2>2, <2>3, SaveStory, FreeTurn
<1>5. CASE Disappeared(w)
  BY <1>3, <1>4, <1>5 DEF Disappeared, LiveChildren, r
<1>6. CASE Follow(w)
  BY <1>3, <1>6 DEF Follow, Successors, r
<1>7. QED
  BY <1>5, <1>6

(* An operator's request, and the boot's second look at what is done.      *)
LEMMA RequestStory ==
  ASSUME IInv, StoryInv, NEW w \in WorkflowId,
         \/ \E track \in Track : Refresh(track) /\ w = owner
         \/ \E option \in Option \cup {NoOption} : Continue(w, option)
         \/ Stop(w) \/ Check(w)
  PROVE  StoryInv' /\ Final
<1> DEFINE r == wf[w]
<1>1. /\ r \in SoundRecord /\ Story(r, run, said, pushing)
      /\ UNCHANGED <<childVars, owner, nextWorkflow>> /\ todo' \subseteq todo
  BY DEF IInv, CorePart, StorePart, StoryInv, Refresh, Continue, Stop, Check,
     boot, limits
<1>2. Truthful(r, run, said, pushing) /\ Rests(r)
  BY <1>1 DEF Story
<1>3. r.history \in Seq(PhaseRecord) /\ r.phase \in Phase
  BY <1>1 DEF SoundRecord, WorkflowRecord
<1> HIDE DEF r
<1>4. ASSUME r.status = "done", NEW go, go.w \notin WorkflowId,
             \/ Save(w, r, Free, Free)
             \/ Save(w, [r EXCEPT !.status = "failed"], go, go)
      PROVE  StoryInv' /\ Final
  <2> DEFINE q == [r EXCEPT !.status = "failed"]
  <2>1. /\ q \in SoundRecord /\ q.status = "failed" /\ q.history = r.history
    BY <1>1 DEF SoundRecord, WorkflowRecord, OnTrack
  <2>2. Save(w, r, Free, Free) \/ Save(w, q, go, go)
    BY <1>4
  <2> HIDE DEF q
  <2>3. Story(q, run, said, pushing)
    BY <1>2, <2>1, SameHistory DEF Story, Rests
  <2>4. OpenWorkflow(w)
    BY <1>4 DEF OpenWorkflow, Historical, r
  <2>5. CASE Save(w, r, Free, Free)
    BY <1>1, <1>4, <2>4, <2>5, SaveStory, FreeTurn
  <2>6. CASE Save(w, q, go, go)
    BY <1>1, <1>4, <2>1, <2>3, <2>4, <2>6, SaveStory
  <2>7. QED
    BY <2>2, <2>5, <2>6
<1>5. ASSUME NEW track \in Track, Refresh(track), w = owner
      PROVE  StoryInv' /\ Final
  <2> DEFINE go == [Free EXCEPT !.pc = "start", !.track = track]
  <2>1. r.status = "done"
    BY <1>5 DEF Refresh, r
  <2>2. go.w \notin WorkflowId
    BY FreeTurn DEF Free
  <2>3. \/ Save(w, r, Free, Free)
        \/ Save(w, [r EXCEPT !.status = "failed"], go, go)
    BY <1>5, Zenon DEF Refresh, r
  <2> HIDE DEF go
  <2>4. QED
    BY <1>4, <2>1, <2>2, <2>3
<1>6. CASE Check(w)
  <2>1. r.status = "done"
    BY <1>6 DEF Check, IInv, CorePart, CheckHolds, r
  <2>2. \/ Save(w, r, Free, Free)
        \/ Save(w, [r EXCEPT !.status = "failed"], Free, Free)
    BY <1>6, Zenon DEF Check, r
  <2>3. QED
    BY <1>4, <2>1, <2>2, FreeTurn
<1>7. ASSUME NEW option \in Option \cup {NoOption}, Continue(w, option)
      PROVE  StoryInv' /\ Final
  <2> DEFINE x == [Begun(r.phase) EXCEPT !.status = "continued"]
             q == [r EXCEPT !.status = "running", !.decision = FALSE,
                            !.history = Append(@, x)]
             e == Enter("advance", w)
             t == [e EXCEPT !.option = option]
  <2>1. q \in SoundRecord /\ q.status = "running"
    BY <1>1, ContinuedType
  <2>2. x \in PhaseRecord /\ x.child = NoChild
    BY <1>3, BegunType DEF Begun
  <2>3. Save(w, q, t, Free)
    BY <1>7, Zenon DEF Continue, r
  <2>4. r.status \in {"awaiting", "parked"}
    BY <1>7 DEF Continue, MayContinue, r
  <2>5. q.history = Append(r.history, x) /\ q.child = r.child
    BY <1>1 DEF SoundRecord, WorkflowRecord
  <2>6. t.pc = "advance" /\ t.w = w
    <3>1. e \in Turn /\ e.pc = "advance" /\ e.w = w
      BY TurnTypes
    <3> HIDE DEF e
    <3>2. QED
      BY <3>1, <1>7, TurnFields
  <2> HIDE DEF x, q, t
  <2>7. Truthful(q, run, said, pushing) /\ q.child = NoChild
    BY <1>1, <1>2, <2>2, <2>4, <2>5, AppendKeeps DEF Rests
  <2>8. Story(q, run, said, pushing) /\ TurnStory(t, q, run, said)
    BY <2>1, <2>6, <2>7 DEF Story, Rests, TurnStory
  <2>9. OpenWorkflow(w) /\ wf[w].status # "done"
    BY <2>4 DEF OpenWorkflow, Historical, r
  <2>10. QED
    BY <1>1, <2>1, <2>3, <2>6, <2>8, <2>9, SaveStory, FreeTurn
<1>8. CASE Stop(w)
  <2> DEFINE q == [r EXCEPT !.status = "stopped", !.child = NoChild]
             e == Enter("stop child", w)
             t == [e EXCEPT !.child = r.child]
             go == IF r.child = NoChild THEN Free ELSE t
  <2>1. q \in SoundRecord /\ q.status = "stopped" /\ q.history = r.history
    BY <1>1 DEF SoundRecord, WorkflowRecord, OnTrack
  <2>2. t.pc = "stop child" /\ t.w = w
    <3>1. e \in Turn /\ e.pc = "stop child" /\ e.w = w
      BY TurnTypes
    <3>2. r.child \in Child \cup {NoChild}
      BY <1>1 DEF SoundRecord, WorkflowRecord
    <3> HIDE DEF e
    <3>3. QED
      BY <3>1, <3>2, TurnFields
  <2>3. Save(w, q, go, go)
    BY <1>8, Zenon DEF Stop, r
  <2> HIDE DEF q, t
  <2>4. Story(q, run, said, pushing)
    BY <1>2, <2>1, SameHistory DEF Story, Rests
  <2>5. go.w \in WorkflowId => go.w = w /\ TurnStory(go, q, run, said)
    BY <2>2, FreeTurn DEF TurnStory
  <2> HIDE DEF go
  <2>6. OpenWorkflow(w) /\ wf[w].status # "done"
    BY <1>8 DEF Stop, OpenWorkflow, Historical
  <2>7. QED
    BY <1>1, <2>1, <2>3, <2>4, <2>5, <2>6, SaveStory
<1>9. QED
  BY <1>5, <1>6, <1>7, <1>8

LEMMA StartStory ==
  ASSUME IInv, StoryInv, NEW track \in Track, Start(track)
  PROVE  StoryInv' /\ Final
<1> DEFINE w == nextWorkflow
           r == NewWorkflow(track)
<1>1. /\ w \in WorkflowId /\ nextWorkflow' = w + 1
      /\ UNCHANGED <<run, said, pushing, todo>>
      /\ WorkflowId \subseteq Nat /\ w \in Nat
  BY WorkflowAssumption DEF Start, MayStart, childVars, WorkflowId
<1>2. r.status = "running" /\ r.child = NoChild /\ r.history = <<Begun("resolve")>>
  BY DEF NewWorkflow
<1>3. Story(r, run, said, pushing)
  BY <1>2 DEF Story, Truthful, Rests, Begun
<1>4. /\ wf[w].status = "none" /\ wfJournal[w].status = "none"
      /\ w \notin todo
  BY <1>1 DEF StoryInv, Behind
<1> HIDE DEF r
<1>5. \/ /\ wf' = [wf EXCEPT ![w] = r] /\ owner' = w /\ turn' = Enter("advance", w)
         /\ wfJournal' = [wfJournal EXCEPT ![w] = r]
      \/ /\ wfJournal' \in {wfJournal, [wfJournal EXCEPT ![w] = r]}
         /\ owner' = NoWorkflow /\ turn' = Free /\ UNCHANGED wf
  BY Zenon DEF Start, Written, WriteFails, r
<1>6. /\ \A v \in WorkflowId : v # w => wf'[v] = wf[v] /\ wfJournal'[v] = wfJournal[v]
      /\ \/ wf'[w] = r /\ wfJournal'[w] = r
         \/ wf'[w] = wf[w] /\ wfJournal'[w] \in {wfJournal[w], r}
      /\ owner' \in {w, NoWorkflow}
      /\ turn' = Free \/ (turn' = Enter("advance", w) /\ wf'[w] = r)
  BY <1>1, <1>5 DEF IInv, CorePart, StorePart
<1> HIDE <1>5
<1>7. Final
  BY <1>4, <1>6 DEF Final, Historical
<1>8. Behind'
  <2>1. NoWorkflow \notin WorkflowId
    BY WorkflowAssumption DEF WorkflowId, NoWorkflow
  <2>2. ASSUME NEW v \in WorkflowId
        PROVE  /\ OpenWorkflow(v)' =>
                    /\ wfJournal'[v].status \notin Historical
                    /\ wfJournal'[v].status = "done" => wf'[v].status = "done"
               /\ v >= nextWorkflow' =>
                    /\ wf'[v].status = "none" /\ wfJournal'[v].status = "none"
                    /\ v \notin todo' /\ owner' # v
    <3>1. CASE v = w
      BY <1>1, <1>2, <1>4, <1>6, <3>1 DEF OpenWorkflow, Historical
    <3>2. CASE v # w
      <4>1. v >= nextWorkflow' => v >= nextWorkflow
        BY <1>1
      <4>2. QED
        BY <1>1, <1>6, <2>1, <3>2, <4>1 DEF OpenWorkflow, StoryInv, Behind
    <3>3. QED
      BY <3>1, <3>2
  <2>3. QED
    BY <2>2 DEF Behind
<1>9. \A v \in WorkflowId : /\ Story(wf'[v], run', said', pushing')
                            /\ Story(wfJournal'[v], run', said', pushing')
  BY <1>1, <1>3, <1>6 DEF StoryInv
<1>10. turn'.w \in WorkflowId => TurnStory(turn', wf'[turn'.w], run', said')
  <2>1. Enter("advance", w).w = w /\ TurnStory(Enter("advance", w), r, run, said)
    BY <1>1, <1>2, FreeTurn, TurnTypes
  <2>2. QED
    BY <1>1, <1>6, <2>1, FreeTurn
<1>11. QED
  BY <1>7, <1>8, <1>9, <1>10 DEF StoryInv

LEMMA LoadStory ==
  ASSUME IInv, StoryInv, NEW w \in WorkflowId, Load(w)
  PROVE  StoryInv' /\ Final
<1> DEFINE r == wfJournal[w]
           clash == owner # NoWorkflow /\ Collide(wf[owner], r)
           dups == {owner, w}
           refused == [v \in dups |-> Refused(IF v = w THEN r ELSE wf[v])]
<1>1. /\ phase = "loading" /\ w \in todo /\ todo' = todo \ {w}
      /\ UNCHANGED <<run, said, pushing, turn, nextWorkflow>>
  BY DEF Load, childVars
<1>2. turn.pc = "free" /\ TurnStory(turn, wf'[turn.w], run, said)
  BY <1>1 DEF IInv, CorePart, Busy, TurnStory
<1>3. ~(w >= nextWorkflow) /\ (owner # NoWorkflow => owner \in WorkflowId)
  BY <1>1 DEF StoryInv, Behind, IInv, BootPart
<1>4. Story(r, run, said, pushing) /\ r \in SoundRecord
  BY DEF StoryInv, IInv, CorePart, StorePart
<1>5. CASE clash
  <2>1. owner \in WorkflowId /\ dups \subseteq WorkflowId
    BY <1>3, <1>5
  <2>2. \A v \in dups : /\ refused[v].status = "failed"
                        /\ Story(refused[v], run, said, pushing)
    <3>1. TAKE v \in dups
    <3> DEFINE q == IF v = w THEN r ELSE wf[v]
    <3>2. q \in SoundRecord /\ Truthful(q, run, said, pushing)
      BY <1>4, <2>1 DEF StoryInv, Story, IInv, CorePart, StorePart
    <3> HIDE DEF q
    <3>3. Refused(q).status = "failed" /\ Refused(q).history = q.history
      BY <3>2 DEF Refused, SoundRecord, WorkflowRecord
    <3>4. Story(Refused(q), run, said, pushing)
      BY <3>2, <3>3, SameHistory DEF Story, Rests
    <3>5. refused[v] = Refused(q)
      BY DEF q
    <3>6. QED
      BY <3>3, <3>4, <3>5
  <2>3. /\ wf' = [v \in WorkflowId |-> IF v \in dups THEN refused[v] ELSE wf[v]]
        /\ \E lost \in SUBSET dups :
             wfJournal' = [v \in WorkflowId |->
                             IF v \in dups \ lost THEN refused[v] ELSE wfJournal[v]]
        /\ UNCHANGED owner
    BY <1>5, Zenon DEF Load
  <2> HIDE DEF refused
  <2>4. \A v \in WorkflowId :
          \/ /\ v \in dups /\ wf'[v] = refused[v]
             /\ wfJournal'[v] \in {wfJournal[v], refused[v]}
          \/ /\ v \notin dups /\ wf'[v] = wf[v] /\ wfJournal'[v] = wfJournal[v]
    BY <2>3
  <2>5. /\ \A v \in dups : ~(v >= nextWorkflow)
        /\ UNCHANGED owner
    BY <1>3, <2>1, <2>3 DEF StoryInv, Behind
  <2> HIDE <2>3
  <2>6. Final
    BY <2>2, <2>4 DEF Final, Historical
  <2>7. Behind'
    BY <1>1, <2>2, <2>4, <2>5 DEF StoryInv, Behind, OpenWorkflow, Historical
  <2>8. \A v \in WorkflowId : /\ Story(wf'[v], run', said', pushing')
                              /\ Story(wfJournal'[v], run', said', pushing')
    BY <1>1, <2>2, <2>4 DEF StoryInv
  <2>9. QED
    BY <1>1, <1>2, <2>6, <2>7, <2>8 DEF StoryInv
<1>6. CASE ~clash
  <2>1. /\ wf' = [wf EXCEPT ![w] = r] /\ owner' \in {w, owner} /\ UNCHANGED wfJournal
    BY <1>6, Zenon DEF Load
  <2>2. wf'[w] = r /\ \A v \in WorkflowId : v # w => wf'[v] = wf[v]
    BY <2>1 DEF IInv, CorePart, StorePart
  <2>3. Final
    BY <2>1 DEF Final
  <2>4. Behind'
    BY <1>1, <1>3, <2>1, <2>2 DEF StoryInv, Behind, OpenWorkflow
  <2>5. \A v \in WorkflowId : /\ Story(wf'[v], run', said', pushing')
                              /\ Story(wfJournal'[v], run', said', pushing')
    BY <1>1, <1>4, <2>1, <2>2 DEF StoryInv
  <2>6. QED
    BY <1>1, <1>2, <2>3, <2>4, <2>5 DEF StoryInv
<1>7. QED
  BY <1>5, <1>6

LEMMA CrashStory ==
  ASSUME IInv, StoryInv, RunsInv, SuccessKept, Crash
  PROVE  StoryInv' /\ Final
<1>1. /\ wf' = [w \in WorkflowId |-> NoRecord] /\ turn' = Free
      /\ owner' = NoWorkflow /\ todo' = {} /\ UNCHANGED <<wfJournal, nextWorkflow>>
  BY DEF Crash
<1>2. NoRecord.status = "none" /\ NoRecord.history = <<Begun("resolve")>>
  BY DEF NoRecord, NewWorkflow
<1>3. Story(NoRecord, run', said', pushing')
  BY <1>2 DEF Story, Truthful, Rests, Begun
<1>4. \A w \in WorkflowId : Story(wfJournal[w], run', said', pushing')
  BY StoryMoves DEF IInv, CorePart, StorePart, Story, StoryInv
<1>5. NoWorkflow \notin WorkflowId
  BY WorkflowAssumption DEF WorkflowId, NoWorkflow
<1>6. Behind'
  BY <1>1, <1>2, <1>5 DEF StoryInv, Behind, OpenWorkflow
<1>7. QED
  BY <1>1, <1>3, <1>4, <1>6, FreeTurn DEF StoryInv, Final

(* What leaves the records alone.                                          *)
LEMMA QuietStory ==
  ASSUME IInv, StoryInv, RunsInv, SuccessKept,
         \/ NoneLive \/ SpawnChild \/ JudgePushing \/ StopChild
         \/ \E w \in WorkflowId : NoChildYet(w) \/ StillBusy(w) \/ Inspect(w)
         \/ \E c \in Child : StopByHand(c)
         \/ Runs \/ Boot \/ Loaded \/ Serve \/ UNCHANGED vars
  PROVE  StoryInv' /\ Final
<1>1. UNCHANGED <<wf, wfJournal, owner, nextWorkflow>>
  BY DEF NoneLive, SpawnChild, JudgePushing, StopChild, NoChildYet, StillBusy, Inspect,
     StopByHand, Runs, Boot, Loaded, Serve, vars, memory, bounds
<1>2. \A w \in todo' : w \in todo \/ wf[w].status # "none"
                                   \/ wfJournal[w].status # "none"
  BY DEF NoneLive, SpawnChild, JudgePushing, StopChild, NoChildYet, StillBusy, Inspect,
     StopByHand, Runs, Boot, Loaded, Serve, vars, memory, bounds, Valid
<1>3. ASSUME turn'.w \in WorkflowId
      PROVE  turn' = turn \/ TurnStory(turn', wf[turn'.w], run', said')
  <2>1. CASE \/ \E c \in Child : StopByHand(c)
             \/ Runs \/ Boot \/ Loaded \/ Serve \/ UNCHANGED vars
    BY <2>1 DEF StopByHand, Runs, Boot, Loaded, Serve, vars, memory
  <2>2. CASE JudgePushing \/ StopChild \/ \E w \in WorkflowId : StillBusy(w)
    BY <1>3, <2>2, FreeTurn DEF JudgePushing, StopChild, StillBusy
  <2>3. CASE NoneLive
    <3>1. turn' = Go("spawn") /\ Current.child = NoChild /\ turn.pc = "advance"
      BY <2>3 DEF NoneLive, NeedsChild, At
    <3>2. turn'.pc = "spawn" /\ turn'.w = turn.w
      BY <3>1, TurnTypes DEF IInv, CorePart, StorePart
    <3>3. QED
      BY <3>1, <3>2 DEF TurnStory, Current
  <2>4. CASE SpawnChild
    <3>1. turn.pc = "spawn" /\ turn'.pc = "record"
      BY <2>4, SpawnLeaves
    <3>2. \E c : turn' = [Go("record") EXCEPT !.child = c]
      BY <2>4, Zenon DEF SpawnChild
    <3>3. turn'.w = turn.w
      BY <3>2 DEF Go, IInv, CorePart, StorePart, Turn
    <3>4. wf[turn.w].child = NoChild
      BY <1>3, <3>1, <3>3 DEF StoryInv, TurnStory
    <3>5. QED
      BY <3>1, <3>3, <3>4 DEF TurnStory
  <2>5. ASSUME NEW w \in WorkflowId, NoChildYet(w)
        PROVE  TurnStory(turn', wf[turn'.w], run', said')
    <3>1. turn' = Enter("advance", w) /\ wf[w].child = NoChild
      BY <2>5 DEF NoChildYet
    <3>2. QED
      BY <3>1, FreeTurn, TurnTypes
  <2>6. ASSUME NEW w \in WorkflowId, Inspect(w)
        PROVE  TurnStory(turn', wf[turn'.w], run', said')
    <3> DEFINE c == wf[w].child
               e == Enter("judge", w)
    <3>1. /\ turn' = [e EXCEPT !.child = c, !.seen = run[c]] /\ UNCHANGED run
          /\ ~run[c].finalizing /\ c # NoChild /\ wf[w] \in SoundRecord
      BY <2>6 DEF Inspect, Settled, Stored, childVars, IInv, CorePart, StorePart
    <3>2. c \in Child
      BY <3>1 DEF SoundRecord, WorkflowRecord
    <3>3. e \in Turn /\ e.pc = "judge" /\ e.w = w
      BY TurnTypes
    <3> HIDE DEF c, e
    <3>4. turn'.pc = "judge" /\ turn'.w = w /\ turn'.child = c /\ turn'.seen = run[c]
      BY <3>1, <3>3 DEF Turn
    <3>5. QED
      BY <3>1, <3>2, <3>4 DEF TurnStory, c
  <2>7. QED
    BY <2>1, <2>2, <2>3, <2>4, <2>5, <2>6
<1>4. QED
  BY <1>1, <1>2, <1>3, RestStory

LEMMA StoryStep ==
  ASSUME IInv, RunsInv, StoryInv, [Next]_vars
  PROVE  RunsInv' /\ StoryInv' /\ Final
<1>1. RunsInv' /\ SuccessKept
  <2>1. ChildPart
    BY DEF IInv
  <2>2. ChildMove
    BY MovesOnly, SpawnMove DEF ChildMove
  <2>3. QED
    BY <2>1, <2>2, RunsKept
<1>2. CASE Handle
  BY <1>1, <1>2, AdvanceStory, JudgeStory, QuietStory DEF Handle
<1>3. ASSUME NEW w \in WorkflowId, Sweep(w)
      PROVE  StoryInv' /\ Final
  BY <1>1, <1>3, SweepStory, QuietStory DEF Sweep
<1>4. CASE Request
  <2>1. ASSUME NEW track \in Track, Refresh(track)
        PROVE  StoryInv' /\ Final
    <3>1. owner \in WorkflowId
      BY <2>1 DEF Refresh, IInv, BootPart
    <3>2. QED
      BY <2>1, <3>1, RequestStory
  <2>2. QED
    BY <1>1, <1>4, <2>1, StartStory, RequestStory, QuietStory DEF Request
<1>5. CASE Runs \/ Boot \/ Loaded \/ Serve \/ UNCHANGED vars
  BY <1>1, <1>5, QuietStory
<1>6. CASE Crash
  BY <1>1, <1>6, CrashStory
<1>7. ASSUME NEW w \in WorkflowId, Load(w) \/ Check(w)
      PROVE  StoryInv' /\ Final
  BY <1>7, LoadStory, RequestStory
<1>8. QED
  BY <1>1, <1>2, <1>3, <1>4, <1>5, <1>6, <1>7 DEF Next

LEMMA StoryInit == Init => RunsInv /\ StoryInv
<1> SUFFICES ASSUME Init
             PROVE  RunsInv /\ StoryInv
  OBVIOUS
<1>1. RunsInv
  BY DEF Init, ChildInit, RunsInv, NoChildRun
<1>2. ASSUME NEW r, \A i \in DOMAIN r.history : r.history[i].child = NoChild,
             r.status \in {"none", "running"}
      PROVE  Story(r, run, said, pushing)
  BY <1>2 DEF Story, Truthful, Rests
<1>3. /\ NoRecord.status = "none" /\ NoRecord.history = <<Begun("resolve")>>
      /\ Begun("resolve").child = NoChild
  BY DEF NoRecord, NewWorkflow, Begun
<1>4. Story(NoRecord, run, said, pushing)
  BY <1>2, <1>3
<1>5. ASSUME NEW track \in Track, NEW i \in 2 .. Len(Phases(track)) - 1
      PROVE  Story(OldRecord(track, i), run, said, pushing)
  <2> DEFINE h == [j \in 1 .. i |->
                     [Begun(Phases(track)[j]) EXCEPT !.status = "done"]]
  <2>1. \A j \in DOMAIN h : h[j].child = NoChild
    BY DEF Begun
  <2>2. OldRecord(track, i).history = h /\ OldRecord(track, i).status = "running"
    BY DEF OldRecord, NewWorkflow
  <2> HIDE DEF h
  <2>3. QED
    BY <1>2, <2>1, <2>2
<1>6. /\ wf = [w \in WorkflowId |-> NoRecord] /\ owner = NoWorkflow
      /\ turn = Free /\ todo = {}
  BY DEF Init
<1>7. \/ /\ nextWorkflow = 1 /\ wfJournal = [w \in WorkflowId |-> NoRecord]
      \/ /\ nextWorkflow = 2
         /\ \E track \in Track : \E i \in 2 .. Len(Phases(track)) - 1 :
              wfJournal = [w \in WorkflowId |->
                             IF w = 1 THEN OldRecord(track, i) ELSE NoRecord]
  BY DEF Init
<1>8. /\ \A w \in WorkflowId : /\ Story(wf[w], run, said, pushing)
                                /\ Story(wfJournal[w], run, said, pushing)
      /\ \A w \in WorkflowId : w >= nextWorkflow => wfJournal[w].status = "none"
  <2>1. \A w \in WorkflowId : Story(wf[w], run, said, pushing)
    BY <1>4, <1>6
  <2>2. CASE nextWorkflow = 1 /\ wfJournal = [w \in WorkflowId |-> NoRecord]
    BY <1>3, <1>4, <2>1, <2>2
  <2>3. ASSUME NEW track \in Track, NEW i \in 2 .. Len(Phases(track)) - 1,
               nextWorkflow = 2,
               wfJournal = [w \in WorkflowId |->
                              IF w = 1 THEN OldRecord(track, i) ELSE NoRecord]
        PROVE  \A w \in WorkflowId :
                 /\ Story(wfJournal[w], run, said, pushing)
                 /\ w >= nextWorkflow => wfJournal[w].status = "none"
    <3> DEFINE old == OldRecord(track, i)
    <3>1. Story(old, run, said, pushing)
      BY <1>5
    <3>2. \A w \in WorkflowId : wfJournal[w] = IF w = 1 THEN old ELSE NoRecord
      BY <2>3
    <3> HIDE DEF old
    <3>3. QED
      BY <1>3, <1>4, <2>3, <3>1, <3>2
  <2>4. QED
    BY <1>7, <2>1, <2>2, <2>3
<1>9. NoWorkflow \notin WorkflowId
  BY WorkflowAssumption DEF WorkflowId, NoWorkflow
<1>10. Behind
  BY <1>3, <1>6, <1>8, <1>9 DEF Behind, OpenWorkflow
<1>11. QED
  BY <1>1, <1>6, <1>8, <1>10, FreeTurn DEF StoryInv

(* What the records say of the child runs is true in every behaviour.      *)
LEMMA StoryHolds == Spec => [](RunsInv /\ StoryInv)
<1>1. QED
  BY StoryInit, StoryStep, Invariance, PTL DEF Spec

(* No record of a workflow ever says of a phase that a child has done it   *)
(* unless the child succeeded, is decided, and said nothing that stops a   *)
(* workflow: not after a restart, a stop, or the end of a handed-over turn.*)
THEOREM RecordsAreTrue == Spec => []DoneRecordsHold
<1>1. StoryInv => DoneRecordsHold
  BY DEF StoryInv, Story, Truthful, Blameless, Blame, DoneRecordsHold
<1>2. QED
  BY <1>1, StoryHolds, PTL

(* A finished workflow hides no push: its last build is not being pushed   *)
(* any more and its push has not failed, whenever the result came.         *)
THEOREM NoPushHidden == Spec => []PushNotHidden
<1>1. ASSUME IInv, StoryInv, NEW w \in WorkflowId, wf[w].status = "done",
             LastBuild(wf[w]) # 0
      PROVE  LET c == wf[w].history[LastBuild(wf[w])].child
             IN  c \notin pushing /\ "push failed" \notin said[c]
  <2> DEFINE i == LastBuild(wf[w])
  <2>1. wf[w] \in SoundRecord
    BY <1>1 DEF IInv, CorePart, StorePart
  <2>2. /\ i \in DOMAIN wf[w].history /\ wf[w].history[i].phase = "build"
        /\ wf[w].history[i].child # NoChild
    BY <1>1, <2>1, LastBuildIs, ChildAssumption DEF Child, NoChild
  <2>3. Truthful(wf[w], run, said, pushing) /\ Clean(wf[w], said)
    BY <1>1 DEF StoryInv, Story
  <2>4. QED
    BY <1>1, <2>2, <2>3 DEF Truthful, Clean
<1>2. IInv /\ StoryInv => PushNotHidden
  BY <1>1, Zenon DEF PushNotHidden, LastBuild
<1>3. QED
  BY <1>2, StoryHolds, Invariance, PTL

(* A workflow that is over stays over in the journal: no request, no       *)
(* failing write and no restart with colliding records brings it back, and *)
(* a finished one can only turn out to have failed.                        *)
THEOREM OverStaysOver == Spec => OverIsFinal
<1>1. IInv /\ RunsInv /\ StoryInv /\ [Next]_vars => [Final]_vars
  BY StoryStep
<1>2. QED
  BY <1>1, StoryHolds, Invariance, PTL DEF Spec, OverIsFinal, Final
=============================================================================
