-------------------------- MODULE BuildEngineProofs -------------------------
(***************************************************************************)
(* Theorems about BuildEngine, for every number of goroutines, runs, lanes,*)
(* requests, stops and crashes: its types, its lanes and its resume chains,*)
(* the effect of a stop, that the store implements LaneLock, and the delays*)
(* of ResumeDelay.                                                         *)
(***************************************************************************)
EXTENDS BuildEngine, ResumeDelay, TLAPS

(* A goroutine that works on a run holds its id, and one that re-arms a    *)
(* resume holds the predecessor's; without this the store would be read    *)
(* outside its domain.                                                     *)
SoundLocal ==
  {l \in Local :
     /\ l.pc \notin {"idle", "reserve", "rearm"} => l.id \in RunId
     /\ l.pc = "rearm" => l.pred \in RunId}

TypeInv == TypeOK /\ g \in [Worker -> SoundLocal]

-----------------------------------------------------------------------------
(* Lemmas about the records and the steps of one goroutine.                *)

(* The records of the store and the journal are closed under what the      *)
(* engine does to them.                                                    *)
LEMMA RunTypes ==
  /\ NoResume \in PendingResume
  /\ Absent \in Run
  /\ \A r \in Run, ok \in BOOLEAN : Finalized(r, ok) \in Run
  /\ \A r \in Run : Durable(r) \in Run /\ Hidden(r) \in Run /\ Taken(r) \in Run
  /\ \A lane \in LaneKey \cup {NoLane}, key \in IdemKey \cup {NoKey},
        engine \in Engine, count \in Nat, streak \in Nat :
       NewRun(lane, key, engine, count, streak) \in Run
<1> USE RunStoreAssumption
<1>1. NoResume \in PendingResume
  BY DEF NoResume, PendingResume
<1>2. Absent \in Run
  BY <1>1 DEF Absent, Run, Status
<1>3. \A r \in Run, ok \in BOOLEAN : Finalized(r, ok) \in Run
  BY DEF Finalized, Run, Status
<1>4. \A r \in Run : Durable(r) \in Run /\ Hidden(r) \in Run /\ Taken(r) \in Run
  BY <1>1 DEF Durable, Hidden, Taken, Run
<1>5. \A lane \in LaneKey \cup {NoLane}, key \in IdemKey \cup {NoKey},
        engine \in Engine, count \in Nat, streak \in Nat :
       NewRun(lane, key, engine, count, streak) \in Run
  BY <1>2 DEF NewRun, Run, Status
<1> QED
  BY <1>1, <1>2, <1>3, <1>4, <1>5

(* The control points, listed.                                             *)
LEMMA PCs ==
  /\ PC = {"idle", "snap", "write", "reserve", "journal", "spawn", "setpid",
           "journalpid", "record", "finalize", "get", "push", "pushgo",
           "plan", "schedule", "end", "fireget", "rearm", "stopmark",
           "stopsignal", "stopfinalize", "stopcancel"}
  /\ AfterJournal \subseteq PC
  /\ NoRun \notin RunId
BY RunStoreAssumption
   DEF PC, AfterJournal, Spawning, Exiting, Firing, Stopping, RunId, NoRun

LEMMA IdleSound == Idle \in SoundLocal
BY RunTypes, PCs DEF Idle, SoundLocal, Local, AfterJournal, Cause

(* A goroutine that works on a run holds a run id.                          *)
LEMMA LocalFacts ==
  ASSUME TypeInv, NEW w \in Worker
  PROVE  /\ g[w] \in SoundLocal
         /\ g[w] \in Local
         /\ g[w].rec \in Run
         /\ g[w].res \in PendingResume
         /\ \A pc \in PC \ {"idle", "reserve", "rearm"} :
              At(w, pc) => /\ g[w].id \in RunId
                           /\ store[g[w].id] \in Run
         /\ At(w, "rearm") => g[w].pred \in RunId
<1>1. g[w] \in SoundLocal
  BY DEF TypeInv
<1>2. g[w] \in Local
  BY <1>1 DEF SoundLocal
<1>3. g[w].rec \in Run /\ g[w].res \in PendingResume
  BY <1>2 DEF Local
<1>4. ASSUME NEW pc \in PC \ {"idle", "reserve", "rearm"}, At(w, pc)
      PROVE  g[w].id \in RunId /\ store[g[w].id] \in Run
  BY <1>1, <1>4 DEF SoundLocal, At, TypeInv, TypeOK
<1>5. At(w, "rearm") => g[w].pred \in RunId
  BY <1>1 DEF SoundLocal, At
<1> QED
  BY <1>1, <1>2, <1>3, <1>4, <1>5

(* A goroutine moves on.                                                    *)
LEMMA GotoSound ==
  ASSUME TypeInv, NEW w \in Worker, NEW pc \in PC \ {"rearm"},
         g[w].id \in RunId, Goto(w, pc)
  PROVE  g' \in [Worker -> SoundLocal]
BY LocalFacts DEF Goto, SoundLocal, Local, TypeInv

(* A goroutine ends.                                                        *)
LEMMA DoneSound ==
  ASSUME TypeInv, NEW w \in Worker, Done(w)
  PROVE  g' \in [Worker -> SoundLocal]
BY IdleSound DEF Done, TypeInv

(* A goroutine rejournals its run.                                          *)
LEMMA RejournalSound ==
  ASSUME TypeInv, NEW w \in Worker, NEW next \in AfterJournal,
         g[w].id \in RunId, Rejournal(w, next)
  PROVE  g' \in [Worker -> SoundLocal]
<1> DEFINE l == [g[w] EXCEPT !.pc = "snap", !.next = next]
<1>1. g[w] \in Local
  BY LocalFacts
<1>2. l \in Local
  BY <1>1, PCs DEF Local
<1>3. l \in SoundLocal
  BY <1>1, <1>2 DEF SoundLocal, Local
<1> QED
  BY <1>3 DEF Rejournal, TypeInv

(* A goroutine continues after a rejournal.                                 *)
LEMMA ReturnSound ==
  ASSUME TypeInv, NEW w \in Worker, g[w].id \in RunId, Return(w)
  PROVE  g' \in [Worker -> SoundLocal]
<1>1. g[w].next \in PC \ {"rearm"}
  BY LocalFacts, PCs DEF Local, AfterJournal
<1>2. CASE g[w].next = "idle"
  BY <1>2, DoneSound DEF Return
<1>3. CASE g[w].next # "idle"
  BY <1>1, <1>3, GotoSound DEF Return
<1> QED
  BY <1>2, <1>3

(* A goroutine gives up spawning.                                           *)
LEMMA SpawnFailsSound ==
  ASSUME TypeInv, NEW w \in Worker, SpawnFails(w)
  PROVE  g' \in [Worker -> SoundLocal]
<1>1. CASE g[w].pred = NoRun
  BY <1>1, DoneSound DEF SpawnFails
<1>2. CASE g[w].pred # NoRun
  <2>1. g[w].pred \in RunId
    BY <1>2, LocalFacts DEF Local
  <2> QED
    BY <1>2, <2>1, LocalFacts, PCs DEF SpawnFails, Goto, SoundLocal, Local, TypeInv
<1> QED
  BY <1>1, <1>2

(* store.Update keeps the store's type.                                    *)
LEMMA UpdateType ==
  ASSUME TypeInv, NEW i \in RunId, NEW r \in Run, Update(i, r)
  PROVE  store' \in [RunId -> Run]
BY DEF TypeInv, TypeOK, Update

LEMMA SoundIsLocal == [Worker -> SoundLocal] \subseteq [Worker -> Local]
BY DEF SoundLocal

-----------------------------------------------------------------------------
(* Every action keeps the type invariant.                                  *)

(* Rejournaling.                                                           *)
LEMMA RejournalType ==
  ASSUME TypeInv, NEW w \in Worker, Snap(w) \/ Write(w)
  PROVE  TypeInv'
<1>1. g[w] \in Local /\ g[w].rec \in Run
  BY LocalFacts
<1>2. CASE Snap(w)
  <2>1. g[w].id \in RunId /\ store[g[w].id] \in Run
    BY <1>2, LocalFacts, PCs DEF Snap
  <2>2. CASE Return(w)
    <3>1. g' \in [Worker -> SoundLocal]
      BY <2>1, <2>2, ReturnSound
    <3> QED
      BY <1>2, <3>1, SoundIsLocal
      DEF Snap, TypeInv, TypeOK, control, children, bounds, history
  <2>3. CASE g' = [g EXCEPT ![w].pc = "write", ![w].rec = store[g[w].id]]
    <3> DEFINE l == [g[w] EXCEPT !.pc = "write", !.rec = store[g[w].id]]
    <3>1. l \in Local
      BY <1>1, <2>1, PCs DEF Local
    <3>2. l \in SoundLocal
      BY <1>1, <2>1, <3>1 DEF SoundLocal, Local
    <3>3. g' \in [Worker -> SoundLocal]
      BY <2>3, <3>2 DEF TypeInv
    <3> QED
      BY <1>2, <3>3, SoundIsLocal
      DEF Snap, TypeInv, TypeOK, control, children, bounds, history
  <2> QED
    BY <1>2, <2>2, <2>3 DEF Snap
<1>3. CASE Write(w)
  <2>1. g[w].id \in RunId
    BY <1>3, LocalFacts, PCs DEF Write
  <2>2. g' \in [Worker -> SoundLocal]
    BY <1>3, <2>1, ReturnSound DEF Write
  <2>3. Durable(g[w].rec) \in Run
    BY <1>1, RunTypes
  <2>4. journal' \in [RunId -> Run]
    BY <1>3, <2>1, <2>3 DEF Write, TypeInv, TypeOK
  <2> QED
    BY <1>3, <2>2, <2>4, SoundIsLocal
    DEF Write, TypeInv, TypeOK, control, children, bounds, history
<1> QED
  BY <1>2, <1>3

(* A request starts a spawn.                                               *)
LEMMA PostBuildType ==
  ASSUME TypeInv, NEW w \in Worker, NEW lane \in LaneKey, NEW key \in IdemKey,
         NEW engine \in RequestEngine, PostBuild(w, lane, key, engine)
  PROVE  TypeInv'
<1> DEFINE r == NewRun(lane, key, engine, 0, 0)
           l == [g[w] EXCEPT !.pc = "reserve", !.rec = r]
<1>1. engine \in Engine
  BY EngineAssumption
<1>2. r \in Run
  BY <1>1, RunTypes
<1>3. g[w] \in Local
  BY LocalFacts
<1>4. l \in Local
  <2> HIDE DEF r
  <2> QED
    BY <1>2, <1>3, PCs DEF Local
<1>5. l \in SoundLocal
  <2> HIDE DEF r
  <2> QED
    BY <1>3, <1>4 DEF SoundLocal, Local
<1>6. g' \in [Worker -> SoundLocal]
  BY <1>5 DEF PostBuild, TypeInv
<1>7. posts' \in Nat
  BY DEF PostBuild, TypeInv, TypeOK
<1> QED
  BY <1>6, <1>7, SoundIsLocal
  DEF PostBuild, TypeInv, TypeOK, control, children, bounds, history

(* A spawn runs or fails.                                                  *)
LEMMA SpawnType ==
  ASSUME TypeInv, NEW w \in Worker,
         \/ Unwritable(w) \/ Adopt(w) \/ Reserve(w) \/ JournalRun(w)
         \/ SpawnChild(w) \/ SpawnError(w) \/ SetPid(w) \/ JournalPid(w)
         \/ RecordIdem(w)
  PROVE  TypeInv'
<1>1. g[w] \in Local /\ g[w].rec \in Run
  BY LocalFacts
<1>2. Absent \in Run /\ Durable(g[w].rec) \in Run
  BY <1>1, RunTypes
<1>3. {g[w].pred} \ {NoRun} \subseteq RunId
  BY <1>1 DEF Local
<1>4. CASE Unwritable(w)
  <2>1. g' \in [Worker -> SoundLocal]
    BY <1>4, SpawnFailsSound DEF Unwritable
  <2> QED
    BY <1>4, <2>1, SoundIsLocal
    DEF Unwritable, TypeInv, TypeOK, control, children, bounds, history
<1>5. CASE Adopt(w)
  <2>1. PICK i \in Holders(store, g[w].rec.lane) :
          IF g[w].pred = NoRun /\ g[w].rec.key # NoKey
          THEN g' = [g EXCEPT ![w].pc = "record", ![w].id = i]
          ELSE Done(w)
    BY <1>5 DEF Adopt
  <2>2. i \in RunId
    BY DEF Holders
  <2>3. g' \in [Worker -> SoundLocal]
    <3> DEFINE l == [g[w] EXCEPT !.pc = "record", !.id = i]
    <3>1. l \in Local
      BY <1>1, <2>2, PCs DEF Local
    <3>2. l \in SoundLocal
      BY <1>1, <2>2, <3>1 DEF SoundLocal, Local
    <3>3. CASE g' = [g EXCEPT ![w].pc = "record", ![w].id = i]
      BY <3>2, <3>3 DEF TypeInv
    <3>4. CASE Done(w)
      BY <3>4, DoneSound
    <3> QED
      BY <2>1, <3>3, <3>4
  <2>4. resolved' \subseteq RunId
    BY <1>3, <1>5 DEF Adopt, TypeInv, TypeOK
  <2> QED
    BY <1>5, <2>3, <2>4, SoundIsLocal
    DEF Adopt, TypeInv, TypeOK, control, children, bounds
<1>6. CASE Reserve(w)
  <2> DEFINE i == IF g[w].pred = NoRun THEN nextId ELSE g[w].id
             l == [g[w] EXCEPT !.pc = "journal", !.id = i]
  <2>1. i \in RunId
    BY <1>6 DEF Reserve
  <2>2. l \in Local
    <3> HIDE DEF i
    <3> QED
      BY <1>1, <2>1, PCs DEF Local
  <2>3. l \in SoundLocal
    <3> HIDE DEF i
    <3> QED
      BY <1>1, <2>1, <2>2 DEF SoundLocal, Local
  <2>4. g' \in [Worker -> SoundLocal]
    BY <1>6, <2>3 DEF Reserve, TypeInv
  <2>5. store' \in [RunId -> Run]
    BY <1>1, <1>6, <2>1 DEF Reserve, TypeInv, TypeOK
  <2>6. nextId' \in Nat /\ loaded' \subseteq RunId
    BY <1>6 DEF Reserve, TypeInv, TypeOK
  <2> QED
    BY <1>6, <2>4, <2>5, <2>6, SoundIsLocal
    DEF Reserve, TypeInv, TypeOK, children, history
<1>7. CASE JournalRun(w)
  <2>1. g[w].id \in RunId
    BY <1>7, LocalFacts, PCs DEF JournalRun
  <2>2. g' \in [Worker -> SoundLocal]
    <3>1. CASE Goto(w, "spawn")
      BY <2>1, <3>1, GotoSound, PCs
    <3>2. CASE SpawnFails(w)
      BY <3>2, SpawnFailsSound
    <3> QED
      BY <1>7, <3>1, <3>2 DEF JournalRun
  <2>3. store' \in [RunId -> Run] /\ journal' \in [RunId -> Run]
    <3>1. CASE journal' = [journal EXCEPT ![g[w].id] = Durable(g[w].rec)]
               /\ UNCHANGED store
      BY <1>2, <2>1, <3>1 DEF TypeInv, TypeOK
    <3>2. CASE store' = [store EXCEPT ![g[w].id] = Absent]
               /\ UNCHANGED journal
      BY <1>2, <2>1, <3>2 DEF TypeInv, TypeOK
    <3> QED
      BY <1>7, <3>1, <3>2 DEF JournalRun
  <2>4. resolved' \subseteq RunId
    BY <1>3, <1>7 DEF JournalRun, TypeInv, TypeOK
  <2> QED
    BY <1>7, <2>2, <2>3, <2>4, SoundIsLocal
    DEF JournalRun, TypeInv, TypeOK, control, children, bounds
<1>8. CASE SpawnChild(w)
  <2>1. g[w].id \in RunId
    BY <1>8, LocalFacts, PCs DEF SpawnChild
  <2>2. g' \in [Worker -> SoundLocal]
    BY <1>8, <2>1, GotoSound, PCs DEF SpawnChild
  <2>3. launched' \in [RunId -> Seq(Engine)]
    <3>1. g[w].rec.engine \in Engine /\ launched[g[w].id] \in Seq(Engine)
      BY <1>1, <2>1 DEF Run, TypeInv, TypeOK
    <3>2. Append(launched[g[w].id], g[w].rec.engine) \in Seq(Engine)
      BY <3>1
    <3> QED
      BY <1>8, <2>1, <3>2 DEF SpawnChild, TypeInv, TypeOK
  <2>4. alive' \subseteq RunId
    BY <1>8, <2>1 DEF SpawnChild, TypeInv, TypeOK
  <2> QED
    BY <1>8, <2>2, <2>3, <2>4, SoundIsLocal
    DEF SpawnChild, TypeInv, TypeOK, control, bounds
<1>9. CASE SpawnError(w)
  <2>1. g[w].id \in RunId
    BY <1>9, LocalFacts, PCs DEF SpawnError
  <2>2. g' \in [Worker -> SoundLocal]
    BY <1>9, SpawnFailsSound, DoneSound DEF SpawnError
  <2>3. store' \in [RunId -> Run]
    BY <1>2, <1>9, <2>1 DEF SpawnError, TypeInv, TypeOK
  <2> QED
    BY <1>9, <2>2, <2>3, SoundIsLocal
    DEF SpawnError, TypeInv, TypeOK, control, children, bounds, history
<1>10. CASE SetPid(w)
  <2>1. g[w].id \in RunId /\ store[g[w].id] \in Run
    BY <1>10, LocalFacts, PCs DEF SetPid
  <2> DEFINE l == [g[w] EXCEPT !.pc = "journalpid", !.rec.pid = TRUE]
  <2>2. l \in Local
    BY <1>1, PCs DEF Local, Run
  <2>3. l \in SoundLocal
    BY <1>1, <2>1, <2>2 DEF SoundLocal, Local
  <2>4. g' \in [Worker -> SoundLocal]
    BY <1>10, <2>3 DEF SetPid, TypeInv
  <2>5. [store[g[w].id] EXCEPT !.pid = TRUE] \in Run
    BY <2>1 DEF Run
  <2>6. store' \in [RunId -> Run]
    BY <1>10, <2>1, <2>5, UpdateType DEF SetPid
  <2> QED
    BY <1>10, <2>4, <2>6, SoundIsLocal
    DEF SetPid, TypeInv, TypeOK, control, children, bounds, history
<1>11. CASE JournalPid(w)
  <2>1. g[w].id \in RunId
    BY <1>11, LocalFacts, PCs DEF JournalPid
  <2>2. g' \in [Worker -> SoundLocal]
    <3>1. CASE Goto(w, "record")
      BY <2>1, <3>1, GotoSound, PCs
    <3>2. CASE Done(w)
      BY <3>2, DoneSound
    <3> QED
      BY <1>11, <3>1, <3>2 DEF JournalPid
  <2>3. journal' \in [RunId -> Run]
    BY <1>2, <1>11, <2>1 DEF JournalPid, TypeInv, TypeOK
  <2>4. waiting' \subseteq RunId
    BY <1>11, <2>1 DEF JournalPid, Awaited, TypeInv, TypeOK
  <2> QED
    BY <1>11, <2>2, <2>3, <2>4, SoundIsLocal
    DEF JournalPid, TypeInv, TypeOK, children, bounds, history
<1>12. CASE RecordIdem(w)
  <2>1. g[w].id \in RunId
    BY <1>12, LocalFacts, PCs DEF RecordIdem
  <2>2. g' \in [Worker -> SoundLocal]
    BY <1>12, DoneSound DEF RecordIdem
  <2>3. idem' \in [IdemKey -> RunId \cup {NoRun}]
    BY <1>12, <2>1 DEF RecordIdem, TypeInv, TypeOK
  <2> QED
    BY <1>12, <2>2, <2>3, SoundIsLocal
    DEF RecordIdem, TypeInv, TypeOK, children, bounds, history
<1> QED
  BY <1>4, <1>5, <1>6, <1>7, <1>8, <1>9, <1>10, <1>11, <1>12

(* A goroutine starts to finalize a run.                                   *)
LEMMA BeginFinalizingType ==
  ASSUME TypeInv, NEW w \in Worker, NEW i \in RunId,
         NEW cause \in {"exit", "interrupted"}, NEW boot \in BOOLEAN,
         BeginFinalizing(w, i, cause, boot)
  PROVE  /\ store' \in [RunId -> Run]
         /\ g' \in [Worker -> SoundLocal]
<1>1. CASE store[i].status = "running"
  <2> DEFINE l == [g[w] EXCEPT !.pc = "finalize", !.id = i, !.cause = cause,
                               !.boot = boot]
  <2>1. g[w] \in Local
    BY LocalFacts
  <2>2. cause \in Cause
    BY DEF Cause
  <2>3. l \in Local
    BY <2>1, <2>2, PCs DEF Local
  <2>4. l \in SoundLocal
    BY <2>1, <2>3 DEF SoundLocal, Local
  <2>5. g' \in [Worker -> SoundLocal]
    BY <1>1, <2>4 DEF BeginFinalizing, TypeInv
  <2>6. Hidden(store[i]) \in Run
    BY RunTypes DEF TypeInv, TypeOK
  <2>7. store' \in [RunId -> Run]
    BY <1>1, <2>6 DEF BeginFinalizing, TypeInv, TypeOK
  <2> QED
    BY <2>5, <2>7
<1>2. CASE store[i].status # "running"
  BY <1>2 DEF BeginFinalizing, TypeInv, TypeOK
<1> QED
  BY <1>1, <1>2

(* A child exits.                                                          *)
LEMMA ChildExitsType ==
  ASSUME TypeInv, NEW i \in RunId, ChildExits(i)
  PROVE  TypeInv'
<1>1. ending' \in [RunId -> Ending]
  BY EngineAssumption DEF ChildExits, TypeInv, TypeOK
<1>2. alive' \subseteq RunId
  BY DEF ChildExits, TypeInv, TypeOK
<1> QED
  BY <1>1, <1>2 DEF ChildExits, TypeInv, TypeOK, control, bounds, history

(* The exit of a child is seen.                                            *)
LEMMA ExitType ==
  ASSUME TypeInv, NEW w \in Worker, NEW i \in RunId,
         ObserveExit(w, i) \/ RouteSurvivor(w, i)
  PROVE  TypeInv'
<1>1. CASE ObserveExit(w, i)
  <2>1. store' \in [RunId -> Run] /\ g' \in [Worker -> SoundLocal]
    BY <1>1, BeginFinalizingType DEF ObserveExit
  <2>2. waiting' \subseteq RunId
    BY <1>1 DEF ObserveExit, TypeInv, TypeOK
  <2> QED
    BY <1>1, <2>1, <2>2, SoundIsLocal
    DEF ObserveExit, TypeInv, TypeOK, children, bounds, history
<1>2. CASE RouteSurvivor(w, i)
  <2>1. store' \in [RunId -> Run] /\ g' \in [Worker -> SoundLocal]
    BY <1>2, BeginFinalizingType DEF RouteSurvivor
  <2>2. toRoute' \subseteq RunId \X {"exit", "interrupted"}
    BY <1>2 DEF RouteSurvivor, TypeInv, TypeOK
  <2> QED
    BY <1>2, <2>1, <2>2, SoundIsLocal
    DEF RouteSurvivor, TypeInv, TypeOK, children, bounds, history
<1> QED
  BY <1>1, <1>2

(* A finalized run is pushed, resumed or parked.                           *)
LEMMA FinalizeType ==
  ASSUME TypeInv, NEW w \in Worker,
         \/ Finalize(w) \/ GetFinalized(w) \/ ClaimPush(w) \/ StartPush(w)
         \/ PlanResume(w) \/ ScheduleResume(w) \/ EndFinalizing(w)
  PROVE  TypeInv'
<1> DEFINE i == g[w].id
<1>1. g[w] \in Local /\ g[w].rec \in Run /\ g[w].res \in PendingResume
  BY LocalFacts
<1>2. i \in RunId /\ store[i] \in Run
  BY LocalFacts, PCs
  DEF Finalize, GetFinalized, ClaimPush, StartPush, PlanResume,
      ScheduleResume, EndFinalizing
<1>3. CASE Finalize(w)
  <2> DEFINE ok == g[w].cause = "exit" /\ ending[i].code = "zero"
             pc == IF store[i].status = "running" THEN "get" ELSE "end"
  <2>1. Finalized(store[i], ok) \in Run
    BY <1>2, RunTypes
  <2>2. store' \in [RunId -> Run]
    BY <1>2, <1>3, <2>1, UpdateType DEF Finalize
  <2>3. pc \in PC \ {"rearm"}
    BY PCs
  <2>4. g' \in [Worker -> SoundLocal]
    <3>1. Goto(w, pc)
      BY <1>3 DEF Finalize
    <3> QED
      BY <1>2, <2>3, <3>1, GotoSound
  <2> QED
    BY <1>3, <2>2, <2>4, SoundIsLocal
    DEF Finalize, TypeInv, TypeOK, control, children, bounds, history
<1>4. CASE GetFinalized(w)
  <2> DEFINE c == IF store[i].stopReq /\ i \notin loaded
                      THEN "user-stop" ELSE g[w].cause
             l == [g[w] EXCEPT !.pc = "write", !.next = "push",
                               !.rec = store[i], !.cause = c]
  <2>1. c \in Cause
    BY <1>1 DEF Cause, Local
  <2>2. l \in Local
    <3> HIDE DEF c
    <3> QED
      BY <1>1, <1>2, <2>1, PCs DEF Local, AfterJournal
  <2>3. l \in SoundLocal
    BY <1>1, <1>2, <2>2 DEF SoundLocal, Local
  <2>4. g' \in [Worker -> SoundLocal]
    BY <1>4, <2>3 DEF GetFinalized, TypeInv
  <2> QED
    BY <1>4, <2>4, SoundIsLocal
    DEF GetFinalized, TypeInv, TypeOK, control, children, bounds, history
<1>5. CASE ClaimPush(w)
  <2>1. CASE /\ Update(i, [store[i] EXCEPT !.pushed = TRUE])
             /\ Rejournal(w, "pushgo")
    <3>1. [store[i] EXCEPT !.pushed = TRUE] \in Run
      BY <1>2 DEF Run
    <3>2. store' \in [RunId -> Run]
      BY <1>2, <2>1, <3>1, UpdateType
    <3>3. g' \in [Worker -> SoundLocal]
      BY <1>2, <2>1, RejournalSound DEF AfterJournal
    <3> QED
      BY <1>5, <3>2, <3>3, SoundIsLocal
      DEF ClaimPush, TypeInv, TypeOK, control, children, bounds, history
  <2>2. CASE Goto(w, "plan") /\ UNCHANGED store
    <3>1. g' \in [Worker -> SoundLocal]
      BY <1>2, <2>2, GotoSound, PCs
    <3> QED
      BY <1>5, <2>2, <3>1, SoundIsLocal
      DEF ClaimPush, TypeInv, TypeOK, control, children, bounds, history
  <2> QED
    BY <1>5, <2>1, <2>2 DEF ClaimPush
<1>6. CASE StartPush(w)
  <2>1. g' \in [Worker -> SoundLocal]
    BY <1>2, <1>6, GotoSound, PCs DEF StartPush
  <2>2. pushes' \in [RunId -> Nat]
    BY <1>2, <1>6 DEF StartPush, TypeInv, TypeOK
  <2> QED
    BY <1>6, <2>1, <2>2, SoundIsLocal
    DEF StartPush, TypeInv, TypeOK, control, children, bounds
<1>7. CASE PlanResume(w)
  <2>1. PICK progress \in ProgressSeen, wallSpent \in WallSpent :
          IF Resumes(g[w].rec.count, g[w].rec.streak, ending[i], g[w].cause,
                     progress, wallSpent)
          THEN /\ nextId \in RunId
               /\ nextId' = nextId + 1
               /\ g' = [g EXCEPT
                    ![w].pc = "schedule",
                    ![w].res = [succ |-> nextId, count |-> g[w].rec.count + 1,
                                streak |-> NextStreak(g[w].rec.streak,
                                                      ending[i], progress),
                                attempts |-> 0]]
               /\ UNCHANGED resolved
          ELSE /\ Goto(w, "end")
               /\ resolved' = resolved \cup {i}
               /\ UNCHANGED nextId
    BY <1>7 DEF PlanResume
  <2>2. CASE Resumes(g[w].rec.count, g[w].rec.streak, ending[i], g[w].cause,
                     progress, wallSpent)
    <3> DEFINE streak == NextStreak(g[w].rec.streak, ending[i], progress)
               p == [succ |-> nextId, count |-> g[w].rec.count + 1,
                     streak |-> streak, attempts |-> 0]
               l == [g[w] EXCEPT !.pc = "schedule", !.res = p]
    <3>1. progress \in Progress
      BY EngineAssumption
    <3>2. streak \in Nat
      BY <1>1, <3>1 DEF NextStreak, Progress, Run
    <3>3. p \in PendingResume
      <4> HIDE DEF streak
      <4> QED
        BY <1>1, <2>1, <2>2, <3>2 DEF PendingResume, Run
    <3>4. l \in Local
      <4> HIDE DEF p
      <4> QED
        BY <1>1, <3>3, PCs DEF Local
    <3>5. l \in SoundLocal
      <4> HIDE DEF p
      <4> QED
        BY <1>1, <1>2, <3>4 DEF SoundLocal, Local
    <3>6. g' \in [Worker -> SoundLocal]
      BY <2>1, <2>2, <3>5 DEF TypeInv
    <3>7. nextId' \in Nat
      BY <2>1, <2>2 DEF TypeInv, TypeOK
    <3> QED
      BY <1>7, <2>1, <2>2, <3>6, <3>7, SoundIsLocal
      DEF PlanResume, TypeInv, TypeOK, control, children
  <2>3. CASE ~Resumes(g[w].rec.count, g[w].rec.streak, ending[i], g[w].cause,
                      progress, wallSpent)
    <3>1. g' \in [Worker -> SoundLocal]
      BY <1>2, <2>1, <2>3, GotoSound, PCs
    <3>2. resolved' \subseteq RunId
      BY <1>2, <2>1, <2>3 DEF TypeInv, TypeOK
    <3> QED
      BY <1>7, <2>1, <2>3, <3>1, <3>2, SoundIsLocal
      DEF PlanResume, TypeInv, TypeOK, control, children
  <2> QED
    BY <2>2, <2>3
<1>8. CASE ScheduleResume(w)
  <2>1. CASE /\ Update(i, [store[i] EXCEPT !.pending = g[w].res])
             /\ Rejournal(w, "end")
    <3>1. [store[i] EXCEPT !.pending = g[w].res] \in Run
      BY <1>1, <1>2 DEF Run
    <3>2. store' \in [RunId -> Run]
      BY <1>2, <2>1, <3>1, UpdateType
    <3>3. g' \in [Worker -> SoundLocal]
      BY <1>2, <2>1, RejournalSound DEF AfterJournal
    <3> QED
      BY <1>8, <3>2, <3>3, SoundIsLocal
      DEF ScheduleResume, TypeInv, TypeOK, control, children, bounds, history
  <2>2. CASE Goto(w, "end") /\ UNCHANGED store
    <3>1. g' \in [Worker -> SoundLocal]
      BY <1>2, <2>2, GotoSound, PCs
    <3> QED
      BY <1>8, <2>2, <3>1, SoundIsLocal
      DEF ScheduleResume, TypeInv, TypeOK, control, children, bounds, history
  <2> QED
    BY <1>8, <2>1, <2>2 DEF ScheduleResume
<1>9. CASE EndFinalizing(w)
  <2>1. [store[i] EXCEPT !.finalizing = FALSE] \in Run
    BY <1>2 DEF Run
  <2>2. store' \in [RunId -> Run]
    BY <1>2, <1>9, <2>1, UpdateType DEF EndFinalizing
  <2>3. g' \in [Worker -> SoundLocal]
    BY <1>9, DoneSound DEF EndFinalizing
  <2> QED
    BY <1>9, <2>2, <2>3, SoundIsLocal
    DEF EndFinalizing, TypeInv, TypeOK, control, children, bounds, history
<1> QED
  BY <1>3, <1>4, <1>5, <1>6, <1>7, <1>8, <1>9

(* A scheduled resume fires, and is armed again when its spawn fails.      *)
LEMMA ResumeType ==
  ASSUME TypeInv, NEW w \in Worker, NEW i \in RunId,
         TakeResume(w, i) \/ BuildSuccessor(w) \/ Rearm(w)
  PROVE  TypeInv'
<1>1. g[w] \in Local /\ g[w].rec \in Run /\ g[w].res \in PendingResume
  BY LocalFacts
<1>2. CASE TakeResume(w, i)
  <2>1. store[i] \in Run
    BY DEF TypeInv, TypeOK
  <2> DEFINE l == [g[w] EXCEPT !.pc = "snap", !.next = "fireget", !.id = i,
                               !.res = store[i].pending]
  <2>2. l \in Local
    BY <1>1, <2>1, PCs DEF Local, AfterJournal, Run
  <2>3. l \in SoundLocal
    BY <1>1, <2>2 DEF SoundLocal, Local
  <2>4. g' \in [Worker -> SoundLocal]
    BY <1>2, <2>3 DEF TakeResume, TypeInv
  <2>5. Taken(store[i]) \in Run
    BY <2>1, RunTypes
  <2>6. store' \in [RunId -> Run]
    BY <1>2, <2>5 DEF TakeResume, TypeInv, TypeOK
  <2> QED
    BY <1>2, <2>4, <2>6, SoundIsLocal
    DEF TakeResume, TypeInv, TypeOK, control, children, bounds, history
<1>3. CASE BuildSuccessor(w)
  <2> DEFINE j == g[w].id
             r == NewRun(store[j].lane, store[j].key, store[j].engine,
                         g[w].res.count, g[w].res.streak)
             l == [g[w] EXCEPT !.pc = "reserve", !.pred = j,
                               !.id = g[w].res.succ, !.rec = r]
  <2>1. j \in RunId /\ store[j] \in Run
    BY <1>3, LocalFacts, PCs DEF BuildSuccessor
  <2>2. r \in Run
    BY <1>1, <2>1, RunTypes DEF Run, PendingResume
  <2>3. l \in Local
    <3> HIDE DEF r
    <3> QED
      BY <1>1, <2>1, <2>2, PCs DEF Local, PendingResume
  <2>4. l \in SoundLocal
    <3> HIDE DEF r
    <3> QED
      BY <1>1, <2>3 DEF SoundLocal, Local
  <2>5. g' \in [Worker -> SoundLocal]
    <3>1. CASE Done(w)
      BY <3>1, DoneSound
    <3>2. CASE g' = [g EXCEPT ![w].pc = "reserve", ![w].pred = j,
                              ![w].id = g[w].res.succ, ![w].rec = r]
      BY <2>4, <3>2 DEF TypeInv
    <3> QED
      BY <1>3, <3>1, <3>2 DEF BuildSuccessor
  <2>6. resolved' \subseteq RunId
    BY <1>3, <2>1 DEF BuildSuccessor, TypeInv, TypeOK
  <2> QED
    BY <1>3, <2>5, <2>6, SoundIsLocal
    DEF BuildSuccessor, TypeInv, TypeOK, control, children, bounds
<1>4. CASE Rearm(w)
  <2> DEFINE j == g[w].pred
             p == [g[w].res EXCEPT !.attempts = g[w].res.attempts + 1]
             r == [store[j] EXCEPT !.pending = p]
             l == [g[w] EXCEPT !.pc = "snap", !.next = "idle", !.id = j,
                               !.pred = NoRun]
  <2>1. j \in RunId /\ store[j] \in Run
    BY <1>4, LocalFacts DEF Rearm, TypeInv, TypeOK
  <2>2. p \in PendingResume
    BY <1>1 DEF PendingResume
  <2>3. r \in Run
    <3> HIDE DEF p
    <3> QED
      BY <2>1, <2>2 DEF Run
  <2>4. store' \in [RunId -> Run]
    <3>1. CASE Update(j, r)
      BY <2>1, <2>3, <3>1, UpdateType
    <3>2. CASE UNCHANGED store
      BY <3>2 DEF TypeInv, TypeOK
    <3> QED
      BY <1>4, <3>1, <3>2 DEF Rearm
  <2>5. resolved' \subseteq RunId
    BY <1>4, <2>1 DEF Rearm, TypeInv, TypeOK
  <2>6. l \in Local
    BY <1>1, <2>1, PCs DEF Local, AfterJournal
  <2>7. l \in SoundLocal
    BY <1>1, <2>1, <2>6 DEF SoundLocal, Local
  <2>8. g' \in [Worker -> SoundLocal]
    BY <1>4, <2>7 DEF Rearm, TypeInv
  <2> QED
    BY <1>4, <2>4, <2>5, <2>8, SoundIsLocal
    DEF Rearm, TypeInv, TypeOK, control, children, bounds
<1> QED
  BY <1>2, <1>3, <1>4

(* Stop.                                                                   *)
LEMMA StopType ==
  ASSUME TypeInv, NEW w \in Worker, NEW i \in RunId,
         \/ StopBegin(w, i) \/ StopMark(w) \/ StopSignal(w)
         \/ StopFinalize(w) \/ StopCancel(w)
  PROVE  TypeInv'
<1> DEFINE j == g[w].id
<1>1. g[w] \in Local /\ g[w].rec \in Run
  BY LocalFacts
<1>2. CASE StopBegin(w, i)
  <2> DEFINE pc == IF store[i].status = "running" THEN "stopmark"
                   ELSE "stopcancel"
             l == [g[w] EXCEPT !.pc = pc, !.id = i, !.rec = store[i]]
  <2>1. store[i] \in Run /\ pc \in PC \ {"rearm", "idle", "reserve"}
    BY PCs DEF TypeInv, TypeOK
  <2>2. l \in Local
    <3> HIDE DEF pc
    <3> QED
      BY <1>1, <2>1 DEF Local
  <2>3. l \in SoundLocal
    <3> HIDE DEF pc
    <3> QED
      BY <1>1, <2>1, <2>2 DEF SoundLocal, Local
  <2>4. g' \in [Worker -> SoundLocal]
    BY <1>2, <2>3 DEF StopBegin, TypeInv
  <2>5. stops' \in Nat
    BY <1>2 DEF StopBegin, TypeInv, TypeOK
  <2> QED
    BY <1>2, <2>4, <2>5, SoundIsLocal
    DEF StopBegin, TypeInv, TypeOK, control, children, history
<1>3. ASSUME \/ StopMark(w) \/ StopSignal(w) \/ StopFinalize(w)
             \/ StopCancel(w)
      PROVE  j \in RunId /\ store[j] \in Run
  BY <1>3, LocalFacts, PCs
  DEF StopMark, StopSignal, StopFinalize, StopCancel
<1>4. ASSUME j \in RunId, store[j] \in Run, Cancelled(j)
      PROVE  store' \in [RunId -> Run]
  <2>1. [store[j] EXCEPT !.stopReq = TRUE, !.pending = NoResume] \in Run
    BY <1>4, RunTypes DEF Run
  <2> QED
    BY <1>4, <2>1, UpdateType DEF Cancelled
<1>5. CASE StopMark(w)
  <2>1. store' \in [RunId -> Run]
    BY <1>3, <1>4, <1>5 DEF StopMark
  <2>2. stopped' \subseteq RunId /\ resolved' \subseteq RunId
    BY <1>3, <1>5 DEF StopMark, TypeInv, TypeOK
  <2>3. g' \in [Worker -> SoundLocal]
    BY <1>3, <1>5, GotoSound, PCs DEF StopMark
  <2> QED
    BY <1>5, <2>1, <2>2, <2>3, SoundIsLocal
    DEF StopMark, TypeInv, TypeOK, control, children, bounds
<1>6. CASE StopSignal(w)
  <2>1. signalled' \subseteq RunId
    BY <1>3, <1>6 DEF StopSignal, TypeInv, TypeOK
  <2>2. g' \in [Worker -> SoundLocal]
    BY <1>3, <1>6, GotoSound, PCs DEF StopSignal
  <2> QED
    BY <1>6, <2>1, <2>2, SoundIsLocal
    DEF StopSignal, TypeInv, TypeOK, control, bounds, history
<1>7. CASE StopFinalize(w)
  <2>1. Finalized(store[j], FALSE) \in Run
    BY <1>3, <1>7, RunTypes
  <2>2. store' \in [RunId -> Run]
    BY <1>3, <1>7, <2>1, UpdateType DEF StopFinalize
  <2>3. g' \in [Worker -> SoundLocal]
    BY <1>3, <1>7, RejournalSound DEF StopFinalize, AfterJournal
  <2> QED
    BY <1>7, <2>2, <2>3, SoundIsLocal
    DEF StopFinalize, TypeInv, TypeOK, control, children, bounds, history
<1>8. CASE StopCancel(w)
  <2>1. store' \in [RunId -> Run]
    BY <1>3, <1>4, <1>8 DEF StopCancel
  <2>2. stopped' \subseteq RunId /\ resolved' \subseteq RunId
    BY <1>3, <1>8 DEF StopCancel, TypeInv, TypeOK
  <2>3. g' \in [Worker -> SoundLocal]
    BY <1>3, <1>8, RejournalSound DEF StopCancel, AfterJournal
  <2> QED
    BY <1>8, <2>1, <2>2, <2>3, SoundIsLocal
    DEF StopCancel, TypeInv, TypeOK, control, children, bounds
<1> QED
  BY <1>2, <1>5, <1>6, <1>7, <1>8

(* Crash and restart.                                                      *)
LEMMA RestartType ==
  ASSUME TypeInv, Crash \/ Boot \/ Serve
  PROVE  TypeInv'
<1>1. CASE Crash
  <2>1. Absent \in Run
    BY RunTypes
  <2>2. store' \in [RunId -> Run] /\ idem' \in [IdemKey -> RunId \cup {NoRun}]
    BY <1>1, <2>1 DEF Crash
  <2>3. g' \in [Worker -> SoundLocal]
    BY <1>1, IdleSound DEF Crash
  <2>4. journal' \in [RunId -> Run]
    BY <1>1, <2>1 DEF Crash, TypeInv, TypeOK
  <2>5. crashes' \in Nat
    BY <1>1 DEF Crash, TypeInv, TypeOK
  <2> QED
    BY <1>1, <2>2, <2>3, <2>4, <2>5, SoundIsLocal
    DEF Crash, TypeInv, TypeOK, children, history
<1>2. CASE Boot
  <2>1. store' \in [RunId -> Run]
    BY <1>2 DEF Boot, TypeInv, TypeOK
  <2>2. idem' \in [IdemKey -> RunId \cup {NoRun}]
    BY <1>2 DEF Boot
  <2>3. waiting' \subseteq RunId /\ loaded' \subseteq RunId
    BY <1>2 DEF Boot, Reattached, Unfinished, Journaled
  <2>4. toRoute' \subseteq RunId \X {"exit", "interrupted"}
    BY <1>2 DEF Boot, Exited, Interrupted, Unfinished
  <2> QED
    BY <1>2, <2>1, <2>2, <2>3, <2>4
    DEF Boot, TypeInv, TypeOK, children, bounds, history
<1>3. CASE Serve
  BY <1>3 DEF Serve, TypeInv, TypeOK, children, bounds, history
<1> QED
  BY <1>1, <1>2, <1>3

(* The type invariant is inductive.                                        *)
LEMMA InitType == Init => TypeInv
<1> SUFFICES ASSUME Init PROVE TypeInv
  OBVIOUS
<1>1. Absent \in Run
  BY RunTypes
<1>2. NoEnding \in Ending
  BY DEF NoEnding, Ending, ExitCode
<1>3. store \in [RunId -> Run] /\ journal \in [RunId -> Run]
  BY <1>1 DEF Init
<1>4. g \in [Worker -> SoundLocal]
  BY IdleSound DEF Init
<1>5. launched \in [RunId -> Seq(Engine)] /\ ending \in [RunId -> Ending]
  BY <1>2 DEF Init
<1> QED
  BY <1>3, <1>4, <1>5, SoundIsLocal DEF Init, TypeInv, TypeOK

LEMMA NextType == TypeInv /\ [Next]_vars => TypeInv'
<1> SUFFICES ASSUME TypeInv, [Next]_vars PROVE TypeInv'
  OBVIOUS
<1>1. ASSUME NEW w \in Worker, Step(w) PROVE TypeInv'
  <2>1. CASE Snap(w) \/ Write(w)
    BY <2>1, RejournalType
  <2>2. CASE \/ Unwritable(w) \/ Adopt(w) \/ Reserve(w) \/ JournalRun(w)
             \/ SpawnChild(w) \/ SpawnError(w) \/ SetPid(w) \/ JournalPid(w)
             \/ RecordIdem(w)
    BY <2>2, SpawnType
  <2>3. CASE \/ Finalize(w) \/ GetFinalized(w) \/ ClaimPush(w) \/ StartPush(w)
             \/ PlanResume(w) \/ ScheduleResume(w) \/ EndFinalizing(w)
    BY <2>3, FinalizeType
  <2>4. 1 \in RunId
    BY RunStoreAssumption DEF RunId
  <2>5. CASE BuildSuccessor(w) \/ Rearm(w)
    BY <2>4, <2>5, ResumeType
  <2>6. CASE StopMark(w) \/ StopSignal(w) \/ StopFinalize(w) \/ StopCancel(w)
    BY <2>4, <2>6, StopType
  <2> QED
    BY <1>1, <2>1, <2>2, <2>3, <2>5, <2>6 DEF Step
<1>2. ASSUME NEW w \in Worker, Request(w) PROVE TypeInv'
  BY <1>2, PostBuildType, StopType DEF Request
<1>3. ASSUME NEW w \in Worker, NEW i \in RunId,
             ObserveExit(w, i) \/ TakeResume(w, i) \/ RouteSurvivor(w, i)
      PROVE  TypeInv'
  BY <1>3, ExitType, ResumeType
<1>4. ASSUME NEW i \in RunId, ChildExits(i) PROVE TypeInv'
  BY <1>4, ChildExitsType
<1>5. CASE Crash \/ Boot \/ Serve
  BY <1>5, RestartType
<1>6. CASE UNCHANGED vars
  BY <1>6 DEF vars, control, children, bounds, history, TypeInv, TypeOK
<1> QED
  BY <1>1, <1>2, <1>3, <1>4, <1>5, <1>6 DEF Next

(* Every reachable state has the types that TypeOK gives: no goroutine     *)
(* ever works on a run id outside the store.                               *)
THEOREM TypeCorrect == Spec => []TypeOK
<1>1. Spec => []TypeInv
  BY InitType, NextType, PTL DEF Spec
<1> QED
  BY <1>1, PTL DEF TypeInv

-----------------------------------------------------------------------------
(* A lane has one running build.                                           *)

(* A step that starts no build: a run that runs after it ran before it, on *)
(* the same lane.                                                          *)
StartsNone ==
  /\ \A i \in RunId : Running(i)' => Running(i) /\ store'[i].lane = store[i].lane
  /\ loaded' = loaded

LEMMA StartsNoneExclusive ==
  ASSUME LaneExclusive, StartsNone
  PROVE  LaneExclusive'
BY DEF LaneExclusive, StartsNone, Running, OnLane

(* An update of a run in the store that does not set it running or move it *)
(* to another lane.                                                        *)
LEMMA UpdateStartsNone ==
  ASSUME TypeInv, NEW i \in RunId, NEW r, Update(i, r), loaded' = loaded,
         r.status = "running" => store[i].status = "running",
         r.lane = store[i].lane
  PROVE  StartsNone
BY DEF StartsNone, Running, Update, TypeInv, TypeOK

LEMMA SameStartsNone ==
  ASSUME store' = store, loaded' = loaded
  PROVE  StartsNone
BY DEF StartsNone, Running

(* The records that the engine derives from a run.                         *)
LEMMA DerivedRuns ==
  ASSUME NEW r \in Run
  PROVE  /\ \A ok \in BOOLEAN :
              /\ Finalized(r, ok).status # "running"
              /\ Finalized(r, ok).lane = r.lane
         /\ Hidden(r).status = r.status /\ Hidden(r).lane = r.lane
         /\ Taken(r).status = r.status /\ Taken(r).lane = r.lane
BY DEF Finalized, Hidden, Taken, Run, Status

LEMMA StepStartsNone ==
  ASSUME TypeInv, NEW w \in Worker, Step(w), ~Reserve(w)
  PROVE  StartsNone
<1> DEFINE i == g[w].id
<1>1. CASE \/ Snap(w) \/ Write(w) \/ Unwritable(w) \/ Adopt(w)
           \/ SpawnChild(w) \/ JournalPid(w) \/ RecordIdem(w)
           \/ GetFinalized(w) \/ StartPush(w) \/ PlanResume(w)
           \/ BuildSuccessor(w) \/ StopSignal(w)
  BY <1>1, SameStartsNone
  DEF Snap, Write, Unwritable, Adopt, SpawnChild, JournalPid, RecordIdem,
      GetFinalized, StartPush, PlanResume, BuildSuccessor, StopSignal, control
<1>2. CASE \/ JournalRun(w) \/ SpawnError(w) \/ SetPid(w) \/ Finalize(w)
           \/ ClaimPush(w) \/ ScheduleResume(w) \/ EndFinalizing(w)
           \/ StopMark(w) \/ StopFinalize(w) \/ StopCancel(w)
  <2>1. i \in RunId /\ store[i] \in Run
    BY <1>2, LocalFacts, PCs
    DEF JournalRun, SpawnError, SetPid, Finalize, ClaimPush, ScheduleResume,
        EndFinalizing, StopMark, StopFinalize, StopCancel
  <2>2. loaded' = loaded
    BY <1>2
    DEF JournalRun, SpawnError, SetPid, Finalize, ClaimPush, ScheduleResume,
        EndFinalizing, StopMark, StopFinalize, StopCancel, control
  <2>3. CASE store' = [store EXCEPT ![i] = Absent]
    BY <2>1, <2>2, <2>3 DEF StartsNone, Running, Absent, TypeInv, TypeOK
  <2>4. CASE \E ok \in BOOLEAN : Update(i, Finalized(store[i], ok))
    BY <2>1, <2>2, <2>4, DerivedRuns, UpdateStartsNone
  <2>5. ASSUME NEW r, Update(i, r), r.status = store[i].status,
               r.lane = store[i].lane
        PROVE  StartsNone
    BY <2>1, <2>2, <2>5, UpdateStartsNone
  <2>6. CASE SetPid(w)
    <3>1. Update(i, [store[i] EXCEPT !.pid = TRUE])
      BY <2>6 DEF SetPid
    <3> QED
      BY <2>1, <2>5, <3>1 DEF Run
  <2>7. CASE ClaimPush(w)
    <3>1. CASE Update(i, [store[i] EXCEPT !.pushed = TRUE])
      BY <2>1, <2>5, <3>1 DEF Run
    <3>2. CASE UNCHANGED store
      BY <2>2, <3>2, SameStartsNone
    <3> QED
      BY <2>7, <3>1, <3>2 DEF ClaimPush
  <2>8. CASE ScheduleResume(w)
    <3>1. CASE Update(i, [store[i] EXCEPT !.pending = g[w].res])
      BY <2>1, <2>5, <3>1 DEF Run
    <3>2. CASE UNCHANGED store
      BY <2>2, <3>2, SameStartsNone
    <3> QED
      BY <2>8, <3>1, <3>2 DEF ScheduleResume
  <2>9. CASE EndFinalizing(w)
    <3>1. Update(i, [store[i] EXCEPT !.finalizing = FALSE])
      BY <2>9 DEF EndFinalizing
    <3> QED
      BY <2>1, <2>5, <3>1 DEF Run
  <2>10. CASE StopMark(w) \/ StopCancel(w)
    <3>1. Update(i, [store[i] EXCEPT !.stopReq = TRUE, !.pending = NoResume])
      BY <2>10 DEF StopMark, StopCancel, Cancelled
    <3> QED
      BY <2>1, <2>5, <3>1 DEF Run
  <2>11. CASE JournalRun(w) \/ SpawnError(w)
    BY <2>2, <2>3, <2>11, SameStartsNone DEF JournalRun, SpawnError
  <2>12. CASE Finalize(w) \/ StopFinalize(w)
    <3>1. (g[w].cause = "exit" /\ ending[i].code = "zero") \in BOOLEAN
      OBVIOUS
    <3> QED
      BY <2>4, <2>12, <3>1 DEF Finalize, StopFinalize
  <2> QED
    BY <1>2, <2>6, <2>7, <2>8, <2>9, <2>10, <2>11, <2>12
<1>3. CASE Rearm(w)
  <2> DEFINE j == g[w].pred
             p == [g[w].res EXCEPT !.attempts = g[w].res.attempts + 1]
  <2>1. j \in RunId /\ store[j] \in Run
    BY <1>3, LocalFacts DEF Rearm, TypeInv, TypeOK
  <2>2. loaded' = loaded
    BY <1>3 DEF Rearm, control
  <2>3. CASE Update(j, [store[j] EXCEPT !.pending = p])
    <3> HIDE DEF p
    <3> QED
      BY <2>1, <2>2, <2>3, UpdateStartsNone DEF Run
  <2>4. CASE UNCHANGED store
    BY <2>2, <2>4, SameStartsNone
  <2> QED
    BY <1>3, <2>3, <2>4 DEF Rearm
<1> QED
  BY <1>1, <1>2, <1>3 DEF Step

LEMMA NextExclusive ==
  ASSUME TypeInv, LaneExclusive, [Next]_vars
  PROVE  LaneExclusive'
<1>1. ASSUME NEW w \in Worker, Reserve(w) PROVE LaneExclusive'
  <2> DEFINE lane == g[w].rec.lane
             i == IF g[w].pred = NoRun THEN nextId ELSE g[w].id
  <2>1. /\ Holders(store, lane) = {}
        /\ i \in RunId
        /\ store' = [store EXCEPT ![i] = g[w].rec]
        /\ loaded' = loaded \ {i}
    BY <1>1 DEF Reserve
  <2> HIDE DEF i
  <2>2. SUFFICES ASSUME NEW a \in RunId, NEW b \in RunId, a # b,
                        Running(a)', Running(b)', OnLane(a, b)'
                 PROVE  {a, b} \subseteq loaded'
    BY DEF LaneExclusive
  <2>3. \A c \in RunId : c # i => store'[c] = store[c]
    BY <2>1 DEF TypeInv, TypeOK
  <2>4. store'[i].lane = lane
    BY <2>1 DEF TypeInv, TypeOK
  <2>5. \A c \in RunId :
          Running(c) /\ store[c].lane = lane => lane = NoLane
    BY <2>1 DEF Holders, Running
  <2>6. CASE i \in {a, b}
    BY <2>2, <2>3, <2>4, <2>5, <2>6 DEF Running, OnLane
  <2>7. CASE i \notin {a, b}
    <3>1. {a, b} \subseteq loaded
      BY <2>2, <2>3, <2>7 DEF LaneExclusive, Running, OnLane
    <3> QED
      BY <2>1, <2>7, <3>1
  <2> QED
    BY <2>6, <2>7
<1>2. ASSUME NEW w \in Worker, Step(w), ~Reserve(w) PROVE LaneExclusive'
  BY <1>2, StepStartsNone, StartsNoneExclusive
<1>3. ASSUME NEW w \in Worker, Request(w) PROVE LaneExclusive'
  <2>1. store' = store /\ loaded' = loaded
    BY <1>3 DEF Request, PostBuild, StopBegin, control
  <2> QED
    BY <2>1, SameStartsNone, StartsNoneExclusive
<1>4. ASSUME NEW w \in Worker, NEW i \in RunId,
             ObserveExit(w, i) \/ TakeResume(w, i) \/ RouteSurvivor(w, i)
      PROVE  LaneExclusive'
  <2>1. loaded' = loaded
    BY <1>4 DEF ObserveExit, TakeResume, RouteSurvivor, control
  <2>2. \/ store' = store
        \/ store' = [store EXCEPT ![i] = Hidden(@)]
        \/ store' = [store EXCEPT ![i] = Taken(@)]
    BY <1>4 DEF ObserveExit, TakeResume, RouteSurvivor, BeginFinalizing
  <2>3. store[i] \in Run
    BY DEF TypeInv, TypeOK
  <2>4. \E r \in {store[i], Hidden(store[i]), Taken(store[i])} :
          store' = [store EXCEPT ![i] = r]
    BY <2>2 DEF TypeInv, TypeOK
  <2>5. \A r \in {store[i], Hidden(store[i]), Taken(store[i])} :
          /\ r.status = "running" => store[i].status = "running"
          /\ r.lane = store[i].lane
    BY <2>3, DerivedRuns
  <2>6. StartsNone
    BY <2>1, <2>4, <2>5 DEF StartsNone, Running, TypeInv, TypeOK
  <2> QED
    BY <2>6, StartsNoneExclusive
<1>5. ASSUME NEW i \in RunId, ChildExits(i) PROVE LaneExclusive'
  <2>1. store' = store /\ loaded' = loaded
    BY <1>5 DEF ChildExits, control
  <2> QED
    BY <2>1, SameStartsNone, StartsNoneExclusive
<1>6. CASE Crash
  BY <1>6 DEF Crash, LaneExclusive, Running, Absent
<1>7. CASE Boot
  BY <1>7 DEF Boot, Journaled, LaneExclusive, Running
<1>8. CASE Serve \/ UNCHANGED vars
  <2>1. store' = store /\ loaded' = loaded
    BY <1>8 DEF Serve, vars, control
  <2> QED
    BY <2>1, SameStartsNone, StartsNoneExclusive
<1> QED
  BY <1>1, <1>2, <1>3, <1>4, <1>5, <1>6, <1>7, <1>8 DEF Next

(* BR3: whatever requests, resumes, sweeps and stops are interleaved, no   *)
(* build is reserved on a lane beside a running one; two running builds of *)
(* one lane can only both stem from the journal of an earlier process.     *)
THEOREM LanesExclusive == Spec => []LaneExclusive
<1>1. Init => LaneExclusive
  BY DEF Init, LaneExclusive, Running, Absent
<1>2. TypeInv /\ LaneExclusive /\ [Next]_vars => LaneExclusive'
  BY NextExclusive
<1> QED
  BY <1>1, <1>2, InitType, NextType, PTL DEF Spec

-----------------------------------------------------------------------------
(* What one step may do to the store, to the journal and to a goroutine.   *)

Present(i) == store[i].status # "absent"

(* What the engine makes of a stored run without arming a resume.          *)
Revised(r) ==
  {[r EXCEPT !.pid = TRUE], [r EXCEPT !.pushed = TRUE],
   [r EXCEPT !.finalizing = FALSE],
   [r EXCEPT !.stopReq = TRUE, !.pending = NoResume],
   Finalized(r, TRUE), Finalized(r, FALSE), Hidden(r)}

(* The entry of one run becomes r, by another step than its reservation.   *)
Change(i, r) ==
  \/ /\ r = Absent /\ Faults \cap {"write", "spawn", "binary"} # {}
     /\ \E w \in Worker : /\ JournalRun(w) \/ SpawnError(w)
                          /\ g[w].pc \in {"journal", "spawn"} /\ i = g[w].id
  \/ Present(i) /\ r \in Revised(store[i])
  \/ store[i].pending # NoResume /\ r = Taken(store[i])
  \/ \E w \in Worker : /\ ScheduleResume(w) /\ At(w, "schedule")
                       /\ i = g[w].id
                       /\ Present(i) /\ ~store[i].stopReq
                       /\ r = [store[i] EXCEPT !.pending = g[w].res]
  \/ \E w \in Worker : /\ Rearm(w) /\ At(w, "rearm")
                       /\ i = g[w].pred /\ Present(i)
                       /\ r = [store[i] EXCEPT !.pending =
                                 [g[w].res EXCEPT
                                    !.attempts = g[w].res.attempts + 1]]

StoreStep ==
  \/ store' = store
  \/ Crash /\ store' = [i \in RunId |-> Absent]
  \/ Boot /\ store' = journal
  \/ \E i \in RunId : \E r : Change(i, r) /\ store' = [store EXCEPT ![i] = r]
  \/ \E w \in Worker : Reserve(w)

JournalStep ==
  \A i \in RunId :
    \/ journal'[i] = journal[i]
    \/ Crash /\ journal'[i] = Absent
    \/ \E w \in Worker : /\ Write(w) \/ JournalRun(w) \/ JournalPid(w)
                         /\ g[w].pc \in {"write", "journal", "journalpid"}
                         /\ i = g[w].id
                         /\ journal'[i] = Durable(g[w].rec)

(* The local copies of a run and of a pending resume.                      *)
Planned(w, p) ==
  \E end, cause, wallSpent : \E progress \in Progress :
    /\ Resumes(g[w].rec.count, g[w].rec.streak, end, cause, progress,
               wallSpent)
    /\ p = [succ |-> nextId, count |-> g[w].rec.count + 1,
            streak |-> NextStreak(g[w].rec.streak, end, progress),
            attempts |-> 0]

LocalStep(w) ==
  \/ g'[w] \in {g[w], Idle}
  \/ /\ \E lane, key, engine :
          g'[w].rec \in {NewRun(lane, key, engine, 0, 0),
                         NewRun(lane, key, engine, g[w].res.count,
                                g[w].res.streak)}
     /\ g'[w].res = g[w].res
  \/ /\ g'[w].pc # "reserve"
     /\ g'[w].rec \in {g[w].rec, [g[w].rec EXCEPT !.pid = TRUE]}
                        \cup {store[i] : i \in RunId}
     /\ \/ g'[w].res \in {g[w].res} \cup {store[i].pending : i \in RunId}
        \/ Planned(w, g'[w].res)

(* An update of the store changes one entry, of a run that is in it.       *)
LEMMA UpdateIsChange ==
  ASSUME TypeInv, NEW i \in RunId, NEW r \in Revised(store[i]), Update(i, r)
  PROVE  StoreStep
BY DEF StoreStep, Change, Present, Update

LEMMA SpawnStores ==
  ASSUME TypeInv, NEW w \in Worker,
         \/ Reserve(w) \/ JournalRun(w) \/ SpawnError(w) \/ SetPid(w)
  PROVE  StoreStep
<1>1. CASE Reserve(w)
  BY <1>1 DEF StoreStep
<1>2. CASE JournalRun(w) \/ SpawnError(w)
  <2> DEFINE i == g[w].id
  <2>1. i \in RunId
    BY <1>2, LocalFacts, PCs DEF JournalRun, SpawnError
  <2>2. \/ store' = store
        \/ /\ Faults \cap {"write", "spawn", "binary"} # {}
           /\ store' = [store EXCEPT ![i] = Absent]
    BY <1>2 DEF JournalRun, SpawnError
  <2>3. g[w].pc \in {"journal", "spawn"}
    BY <1>2 DEF JournalRun, SpawnError, At
  <2>4. Faults \cap {"write", "spawn", "binary"} # {} => Change(i, Absent)
    BY <1>2, <2>3 DEF Change
  <2> QED
    BY <2>1, <2>2, <2>4 DEF StoreStep
<1>3. CASE SetPid(w)
  <2>1. g[w].id \in RunId
    BY <1>3, LocalFacts, PCs DEF SetPid
  <2>2. [store[g[w].id] EXCEPT !.pid = TRUE] \in Revised(store[g[w].id])
    BY DEF Revised
  <2> QED
    BY <1>3, <2>1, <2>2, UpdateIsChange DEF SetPid
<1> QED
  BY <1>1, <1>2, <1>3

LEMMA FinalizeStores ==
  ASSUME TypeInv, NEW w \in Worker,
         \/ Finalize(w) \/ ClaimPush(w) \/ ScheduleResume(w)
         \/ EndFinalizing(w) \/ Rearm(w)
         \/ StopMark(w) \/ StopFinalize(w) \/ StopCancel(w)
  PROVE  StoreStep
<1> DEFINE i == g[w].id
<1>1. CASE Rearm(w)
  <2> DEFINE j == g[w].pred
             p == [g[w].res EXCEPT !.attempts = g[w].res.attempts + 1]
             r == [store[j] EXCEPT !.pending = p]
  <2>1. j \in RunId /\ At(w, "rearm")
    BY <1>1, LocalFacts DEF Rearm
  <2>2. store' = store \/ Update(j, r)
    BY <1>1 DEF Rearm
  <2>3. Present(j) => Change(j, r)
    BY <1>1, <2>1 DEF Change
  <2> QED
    BY <2>1, <2>2, <2>3 DEF StoreStep, Update, Present
<1>2. CASE ScheduleResume(w)
  <2> DEFINE r == [store[i] EXCEPT !.pending = g[w].res]
  <2>1. i \in RunId /\ At(w, "schedule")
    BY <1>2, LocalFacts, PCs DEF ScheduleResume
  <2>2. store' = store \/ (~store[i].stopReq /\ Update(i, r))
    BY <1>2 DEF ScheduleResume, MayArm
  <2>3. Present(i) /\ ~store[i].stopReq => Change(i, r)
    BY <1>2, <2>1 DEF Change
  <2> QED
    BY <2>1, <2>2, <2>3 DEF StoreStep, Update, Present
<1>3. CASE \/ Finalize(w) \/ ClaimPush(w) \/ EndFinalizing(w) \/ StopMark(w)
           \/ StopFinalize(w) \/ StopCancel(w)
  <2>1. i \in RunId
    BY <1>3, LocalFacts, PCs
    DEF Finalize, ClaimPush, EndFinalizing, StopMark, StopFinalize, StopCancel
  <2>2. store' = store \/ \E r \in Revised(store[i]) : Update(i, r)
    <3>1. CASE Finalize(w) \/ StopFinalize(w)
      <4>1. \E ok \in BOOLEAN : Update(i, Finalized(store[i], ok))
        BY <3>1 DEF Finalize, StopFinalize
      <4> QED
        BY <4>1 DEF Revised
    <3>2. CASE ClaimPush(w) \/ EndFinalizing(w)
      BY <3>2 DEF ClaimPush, EndFinalizing, Revised
    <3>3. CASE StopMark(w) \/ StopCancel(w)
      BY <3>3 DEF StopMark, StopCancel, Cancelled, Revised
    <3> QED
      BY <1>3, <3>1, <3>2, <3>3
  <2> QED
    BY <2>1, <2>2, UpdateIsChange DEF StoreStep
<1> QED
  BY <1>1, <1>2, <1>3

LEMMA NextStores ==
  ASSUME TypeInv, [Next]_vars
  PROVE  StoreStep
<1>1. ASSUME NEW w \in Worker, Step(w) PROVE StoreStep
  <2>1. CASE \/ Snap(w) \/ Write(w) \/ Unwritable(w) \/ Adopt(w)
             \/ SpawnChild(w) \/ JournalPid(w) \/ RecordIdem(w)
             \/ GetFinalized(w) \/ StartPush(w) \/ PlanResume(w)
             \/ BuildSuccessor(w) \/ StopSignal(w)
    BY <2>1
    DEF Snap, Write, Unwritable, Adopt, SpawnChild, JournalPid, RecordIdem,
        GetFinalized, StartPush, PlanResume, BuildSuccessor, StopSignal,
        StoreStep
  <2> QED
    BY <1>1, <2>1, SpawnStores, FinalizeStores DEF Step
<1>2. ASSUME NEW w \in Worker, Request(w) PROVE StoreStep
  BY <1>2 DEF Request, PostBuild, StopBegin, StoreStep
<1>3. ASSUME NEW w \in Worker, NEW i \in RunId,
             ObserveExit(w, i) \/ TakeResume(w, i) \/ RouteSurvivor(w, i)
      PROVE  StoreStep
  <2>1. CASE TakeResume(w, i)
    <3>1. /\ store[i].pending # NoResume
          /\ store' = [store EXCEPT ![i] = Taken(store[i])]
      BY <2>1 DEF TakeResume, TypeInv, TypeOK
    <3> QED
      BY <3>1 DEF StoreStep, Change
  <2>2. CASE ObserveExit(w, i) \/ RouteSurvivor(w, i)
    <3>1. \/ store' = store
          \/ /\ store[i].status = "running"
             /\ store' = [store EXCEPT ![i] = Hidden(store[i])]
      BY <2>2 DEF ObserveExit, RouteSurvivor, BeginFinalizing, TypeInv, TypeOK
    <3> QED
      BY <3>1 DEF StoreStep, Change, Present, Revised
  <2> QED
    BY <1>3, <2>1, <2>2
<1>4. CASE Crash
  BY <1>4 DEF Crash, StoreStep
<1>5. CASE Boot
  BY <1>5 DEF Boot, StoreStep
<1>6. CASE Serve \/ (\E i \in RunId : ChildExits(i)) \/ UNCHANGED vars
  BY <1>6 DEF Serve, ChildExits, vars, StoreStep
<1> QED
  BY <1>1, <1>2, <1>3, <1>4, <1>5, <1>6 DEF Next

LEMMA NextJournals ==
  ASSUME TypeInv, [Next]_vars
  PROVE  JournalStep
<1>1. ASSUME NEW w \in Worker, Write(w) \/ JournalRun(w) \/ JournalPid(w)
      PROVE  JournalStep
  <2>1. /\ g[w].pc \in {"write", "journal", "journalpid"}
        /\ \/ journal' = journal
           \/ journal' = [journal EXCEPT ![g[w].id] = Durable(g[w].rec)]
    BY <1>1 DEF Write, JournalRun, JournalPid, At
  <2> QED
    BY <1>1, <2>1 DEF JournalStep, TypeInv, TypeOK
<1>2. CASE Crash
  BY <1>2 DEF Crash, JournalStep
<1>3. ASSUME NEW w \in Worker, Step(w),
             ~(Write(w) \/ JournalRun(w) \/ JournalPid(w))
      PROVE  journal' = journal
  BY <1>3
  DEF Step, Snap, Unwritable, Adopt, Reserve, SpawnChild, SpawnError, SetPid,
      RecordIdem, Finalize, GetFinalized, ClaimPush, StartPush, PlanResume,
      ScheduleResume, EndFinalizing, BuildSuccessor, Rearm, StopMark,
      StopSignal, StopFinalize, StopCancel
<1>4. ASSUME \/ \E w \in Worker : Request(w)
             \/ \E w \in Worker, i \in RunId :
                  ObserveExit(w, i) \/ TakeResume(w, i) \/ RouteSurvivor(w, i)
             \/ \E i \in RunId : ChildExits(i)
             \/ Boot \/ Serve \/ UNCHANGED vars
      PROVE  journal' = journal
  BY <1>4
  DEF Request, PostBuild, StopBegin, ObserveExit, TakeResume, RouteSurvivor,
      ChildExits, Boot, Serve, vars
<1> QED
  BY <1>1, <1>2, <1>3, <1>4 DEF Next, JournalStep

(* A goroutine that ends, moves on or writes a record keeps its copies.    *)
LEMMA MovesOn ==
  ASSUME TypeInv, NEW w \in Worker,
         \/ Done(w)
         \/ \E pc \in PC \ {"reserve"} : Goto(w, pc)
         \/ \E next \in AfterJournal : Rejournal(w, next)
         \/ Return(w) \/ SpawnFails(w)
  PROVE  \A v \in Worker : LocalStep(v)
<1>1. g[w] \in Local /\ g \in [Worker -> SoundLocal]
  BY LocalFacts DEF TypeInv
<1>2. CASE Done(w)
  BY <1>1, <1>2 DEF Done, LocalStep
<1>3. ASSUME NEW pc \in PC \ {"reserve"}, Goto(w, pc)
      PROVE  \A v \in Worker : LocalStep(v)
  <2>1. /\ \A v \in Worker \ {w} : g'[v] = g[v]
        /\ g'[w].pc = pc /\ g'[w].rec = g[w].rec /\ g'[w].res = g[w].res
    BY <1>1, <1>3 DEF Goto, Local
  <2>2. LocalStep(w)
    BY <2>1 DEF LocalStep
  <2> QED
    BY <2>1, <2>2 DEF LocalStep
<1>4. ASSUME NEW next \in AfterJournal, Rejournal(w, next)
      PROVE  \A v \in Worker : LocalStep(v)
  <2>1. /\ \A v \in Worker \ {w} : g'[v] = g[v]
        /\ g'[w].pc = "snap" /\ g'[w].rec = g[w].rec /\ g'[w].res = g[w].res
    BY <1>1, <1>4 DEF Rejournal, Local
  <2>2. LocalStep(w)
    BY <2>1 DEF LocalStep
  <2> QED
    BY <2>1, <2>2 DEF LocalStep
<1>5. g[w].next \in PC \ {"reserve"}
  BY <1>1, PCs DEF Local, AfterJournal
<1>6. CASE Return(w)
  BY <1>2, <1>3, <1>5, <1>6 DEF Return
<1>7. CASE SpawnFails(w)
  BY <1>2, <1>3, <1>7, PCs DEF SpawnFails
<1> QED
  BY <1>2, <1>3, <1>4, <1>6, <1>7

LEMMA StepLocals ==
  ASSUME TypeInv, NEW w \in Worker, Step(w)
  PROVE  \A v \in Worker : LocalStep(v)
<1>1. /\ g[w] \in Local /\ g \in [Worker -> SoundLocal]
      /\ g[w].rec \in Run /\ g[w].res \in PendingResume
  BY LocalFacts DEF TypeInv
<1>2. ASSUME NEW l, g' = [g EXCEPT ![w] = l], l.pc # "reserve",
             l.rec \in {g[w].rec, [g[w].rec EXCEPT !.pid = TRUE]}
                         \cup {store[i] : i \in RunId},
             l.res = g[w].res \/ Planned(w, l.res)
      PROVE  \A v \in Worker : LocalStep(v)
  BY <1>1, <1>2 DEF LocalStep
<1>3. CASE Snap(w)
  <2>1. CASE Return(w)
    BY <2>1, MovesOn
  <2>2. CASE g' = [g EXCEPT ![w].pc = "write", ![w].rec = store[g[w].id]]
    <3> DEFINE l == [g[w] EXCEPT !.pc = "write", !.rec = store[g[w].id]]
    <3>1. g[w].id \in RunId
      BY <1>3, LocalFacts, PCs DEF Snap
    <3>2. g' = [g EXCEPT ![w] = l]
      BY <1>1, <2>2
    <3>3. l.pc = "write" /\ l.rec = store[g[w].id] /\ l.res = g[w].res
      BY <1>1 DEF Local
    <3> HIDE DEF l
    <3> QED
      BY <1>2, <3>1, <3>2, <3>3
  <2> QED
    BY <1>3, <2>1, <2>2 DEF Snap
<1>4. CASE Adopt(w)
  <2>1. CASE Done(w)
    BY <2>1, MovesOn
  <2>2. ASSUME NEW i, g' = [g EXCEPT ![w].pc = "record", ![w].id = i]
        PROVE  \A v \in Worker : LocalStep(v)
    <3> DEFINE l == [g[w] EXCEPT !.pc = "record", !.id = i]
    <3>1. g' = [g EXCEPT ![w] = l]
      BY <1>1, <2>2
    <3>2. l.pc = "record" /\ l.rec = g[w].rec /\ l.res = g[w].res
      BY <1>1 DEF Local
    <3> HIDE DEF l
    <3> QED
      BY <1>2, <3>1, <3>2
  <2> QED
    BY <1>4, <2>1, <2>2 DEF Adopt
<1>5. CASE Reserve(w)
  <2> DEFINE i == IF g[w].pred = NoRun THEN nextId ELSE g[w].id
             l == [g[w] EXCEPT !.pc = "journal", !.id = i]
  <2>1. g' = [g EXCEPT ![w] = l]
    BY <1>1, <1>5 DEF Reserve
  <2>2. l.pc = "journal" /\ l.rec = g[w].rec /\ l.res = g[w].res
    BY <1>1 DEF Local
  <2> HIDE DEF l
  <2> QED
    BY <1>2, <2>1, <2>2
<1>6. CASE SetPid(w)
  <2> DEFINE l == [g[w] EXCEPT !.pc = "journalpid", !.rec.pid = TRUE]
  <2>1. g' = [g EXCEPT ![w] = l]
    BY <1>1, <1>6 DEF SetPid
  <2>2. /\ l.pc = "journalpid" /\ l.rec = [g[w].rec EXCEPT !.pid = TRUE]
        /\ l.res = g[w].res
    BY <1>1 DEF Local
  <2> HIDE DEF l
  <2> QED
    BY <1>2, <2>1, <2>2
<1>7. CASE GetFinalized(w)
  <2> DEFINE c == IF store[g[w].id].stopReq /\ g[w].id \notin loaded
                      THEN "user-stop" ELSE g[w].cause
             l == [g[w] EXCEPT !.pc = "write", !.next = "push",
                               !.rec = store[g[w].id], !.cause = c]
  <2>1. g[w].id \in RunId
    BY <1>7, LocalFacts, PCs DEF GetFinalized
  <2>2. g' = [g EXCEPT ![w] = l]
    BY <1>1, <1>7 DEF GetFinalized
  <2>3. l.pc = "write" /\ l.rec = store[g[w].id] /\ l.res = g[w].res
    BY <1>1 DEF Local
  <2> HIDE DEF l
  <2> QED
    BY <1>2, <2>1, <2>2, <2>3
<1>8. CASE PlanResume(w)
  <2>1. PICK progress \in ProgressSeen, wallSpent \in WallSpent :
          IF Resumes(g[w].rec.count, g[w].rec.streak, ending[g[w].id],
                     g[w].cause, progress, wallSpent)
          THEN g' = [g EXCEPT
                    ![w].pc = "schedule",
                    ![w].res = [succ |-> nextId, count |-> g[w].rec.count + 1,
                                streak |-> NextStreak(g[w].rec.streak,
                                                      ending[g[w].id],
                                                      progress),
                                attempts |-> 0]]
          ELSE Goto(w, "end")
    BY <1>8 DEF PlanResume
  <2>2. CASE Goto(w, "end")
    BY <2>2, MovesOn, PCs
  <2>3. CASE ~Goto(w, "end")
    <3> DEFINE p == [succ |-> nextId, count |-> g[w].rec.count + 1,
                     streak |-> NextStreak(g[w].rec.streak, ending[g[w].id],
                                           progress),
                     attempts |-> 0]
               l == [g[w] EXCEPT !.pc = "schedule", !.res = p]
    <3>1. progress \in Progress
      BY EngineAssumption
    <3>2. Planned(w, p)
      BY <2>1, <2>3, <3>1 DEF Planned
    <3> HIDE DEF p
    <3>3. g' = [g EXCEPT ![w] = l]
      <4> USE DEF p
      <4> QED
        BY <1>1, <2>1, <2>3
    <3>4. l.pc = "schedule" /\ l.rec = g[w].rec /\ l.res = p
      BY <1>1 DEF Local
    <3> HIDE DEF l
    <3> QED
      BY <1>2, <3>2, <3>3, <3>4
  <2> QED
    BY <2>2, <2>3
<1>9. CASE BuildSuccessor(w)
  <2>1. CASE Done(w)
    BY <2>1, MovesOn
  <2>2. CASE ~Done(w)
    <3> DEFINE j == g[w].id
               r == NewRun(store[j].lane, store[j].key, store[j].engine,
                           g[w].res.count, g[w].res.streak)
               l == [g[w] EXCEPT !.pc = "reserve", !.pred = j,
                                 !.id = g[w].res.succ, !.rec = r]
    <3>1. g' = [g EXCEPT ![w] = l]
      BY <1>1, <1>9, <2>2 DEF BuildSuccessor
    <3>2. l.rec = r /\ l.res = g[w].res
      <4> HIDE DEF r
      <4> QED
        BY <1>1 DEF Local
    <3> HIDE DEF l
    <3> QED
      BY <1>1, <3>1, <3>2 DEF LocalStep
  <2> QED
    BY <2>1, <2>2
<1>10. CASE Rearm(w)
  <2> DEFINE l == [g[w] EXCEPT !.pc = "snap", !.next = "idle",
                               !.id = g[w].pred, !.pred = NoRun]
  <2>1. g' = [g EXCEPT ![w] = l]
    BY <1>1, <1>10 DEF Rearm
  <2>2. l.pc = "snap" /\ l.rec = g[w].rec /\ l.res = g[w].res
    BY <1>1 DEF Local
  <2> HIDE DEF l
  <2> QED
    BY <1>2, <2>1, <2>2
<1>11. CASE \/ Write(w) \/ Unwritable(w) \/ JournalRun(w) \/ SpawnChild(w)
            \/ SpawnError(w) \/ JournalPid(w) \/ RecordIdem(w) \/ Finalize(w)
            \/ ClaimPush(w) \/ StartPush(w) \/ ScheduleResume(w)
            \/ EndFinalizing(w) \/ StopMark(w) \/ StopSignal(w)
            \/ StopFinalize(w) \/ StopCancel(w)
  <2>1. \/ Done(w)
        \/ \E pc \in {"spawn", "setpid", "record", "get", "end", "plan",
                      "stopsignal", "stopfinalize"} : Goto(w, pc)
        \/ \E next \in {"pushgo", "end", "idle"} : Rejournal(w, next)
        \/ Return(w) \/ SpawnFails(w)
    BY <1>11
    DEF Write, Unwritable, JournalRun, SpawnChild, SpawnError, JournalPid,
        RecordIdem, Finalize, ClaimPush, StartPush, ScheduleResume,
        EndFinalizing, StopMark, StopSignal, StopFinalize, StopCancel
  <2> QED
    BY <2>1, MovesOn, PCs DEF AfterJournal
<1> QED
  BY <1>3, <1>4, <1>5, <1>6, <1>7, <1>8, <1>9, <1>10, <1>11 DEF Step

LEMMA NextLocals ==
  ASSUME TypeInv, [Next]_vars
  PROVE  \A w \in Worker : LocalStep(w)
<1> SUFFICES ASSUME NEW w \in Worker PROVE LocalStep(w)
  OBVIOUS
<1>1. g \in [Worker -> SoundLocal]
  BY DEF TypeInv
<1>2. ASSUME NEW v \in Worker, NEW l, g' = [g EXCEPT ![v] = l],
             l.pc # "reserve",
             l.rec \in {g[v].rec} \cup {store[i] : i \in RunId},
             l.res \in {g[v].res} \cup {store[i].pending : i \in RunId}
      PROVE  LocalStep(w)
  BY <1>1, <1>2 DEF LocalStep
<1>3. ASSUME NEW v \in Worker, NEW lane \in LaneKey, NEW key \in IdemKey,
             NEW engine \in RequestEngine, PostBuild(v, lane, key, engine)
      PROVE  LocalStep(w)
  <2> DEFINE r == NewRun(lane, key, engine, 0, 0)
             l == [g[v] EXCEPT !.pc = "reserve", !.rec = r]
  <2>1. g' = [g EXCEPT ![v] = l]
    BY <1>1, <1>3 DEF PostBuild
  <2>2. l.rec = r /\ l.res = g[v].res
    <3> HIDE DEF r
    <3> QED
      BY LocalFacts DEF Local
  <2> HIDE DEF l
  <2> QED
    BY <1>1, <2>1, <2>2 DEF LocalStep
<1>4. ASSUME NEW v \in Worker, NEW i \in RunId, StopBegin(v, i)
      PROVE  LocalStep(w)
  <2> DEFINE pc == IF store[i].status = "running" THEN "stopmark"
                   ELSE "stopcancel"
             l == [g[v] EXCEPT !.pc = pc, !.id = i, !.rec = store[i]]
  <2>1. g' = [g EXCEPT ![v] = l]
    BY <1>1, <1>4 DEF StopBegin
  <2>2. l.pc # "reserve" /\ l.rec = store[i] /\ l.res = g[v].res
    BY LocalFacts DEF Local
  <2> HIDE DEF l
  <2> QED
    BY <1>2, <2>1, <2>2
<1>5. ASSUME NEW v \in Worker, NEW i \in RunId, TakeResume(v, i)
      PROVE  LocalStep(w)
  <2> DEFINE l == [g[v] EXCEPT !.pc = "snap", !.next = "fireget", !.id = i,
                               !.res = store[i].pending]
  <2>1. g' = [g EXCEPT ![v] = l]
    BY <1>1, <1>5 DEF TakeResume
  <2>2. l.pc = "snap" /\ l.rec = g[v].rec /\ l.res = store[i].pending
    BY LocalFacts DEF Local
  <2> HIDE DEF l
  <2> QED
    BY <1>2, <2>1, <2>2
<1>6. ASSUME NEW v \in Worker, NEW i \in RunId,
             ObserveExit(v, i) \/ RouteSurvivor(v, i)
      PROVE  LocalStep(w)
  <2>1. PICK cause, boot : BeginFinalizing(v, i, cause, boot)
    BY <1>6 DEF ObserveExit, RouteSurvivor
  <2> DEFINE l == [g[v] EXCEPT !.pc = "finalize", !.id = i, !.cause = cause,
                               !.boot = boot]
  <2>2. g' = g \/ g' = [g EXCEPT ![v] = l]
    BY <1>1, <2>1 DEF BeginFinalizing
  <2>3. l.pc = "finalize" /\ l.rec = g[v].rec /\ l.res = g[v].res
    BY LocalFacts DEF Local
  <2> HIDE DEF l
  <2>4. CASE g' = g
    BY <2>4 DEF LocalStep
  <2> QED
    BY <1>2, <2>2, <2>3, <2>4
<1>7. CASE \/ \E i \in RunId : ChildExits(i)
           \/ Crash \/ Boot \/ Serve \/ UNCHANGED vars
  BY <1>7 DEF ChildExits, Crash, Boot, Serve, vars, LocalStep
<1> QED
  BY <1>3, <1>4, <1>5, <1>6, <1>7, StepLocals DEF Next, Request

-----------------------------------------------------------------------------
(* The budgets of a chain.                                                 *)

(* Chain state within the turn and no-progress budgets, of a run or of a   *)
(* pending resume.                                                         *)
Within(c) ==
  /\ c.count <= MaxBuildResumes
  /\ c.streak = 0 \/ c.streak < NoProgressLimit

(* Chain state travels from a run to a pending resume, through a           *)
(* goroutine to the successor, and through the journal to the next         *)
(* process; it must be within the budgets everywhere on that way.          *)
Frugal(r) == Within(r) /\ Within(r.pending)
ChainInv ==
  /\ \A i \in RunId : Frugal(store[i]) /\ Frugal(journal[i])
  /\ \A w \in Worker : Frugal(g[w].rec) /\ Within(g[w].res)

LEMMA ZeroWithin == Within(NoResume) /\ Frugal(Absent)
BY BudgetAssumption DEF Frugal, Within, NoResume, Absent

(* No copy that the engine makes of a run changes its chain state.         *)
LEMMA DerivedFrugal ==
  ASSUME NEW r \in Run, Frugal(r)
  PROVE  /\ \A q \in Revised(r) : Frugal(q)
         /\ Frugal(Durable(r)) /\ Frugal(Taken(r))
         /\ Frugal([r EXCEPT !.pid = TRUE])
<1>1. Within(NoResume)
  BY ZeroWithin
<1>2. \A q \in Revised(r) : Frugal(q)
  BY <1>1 DEF Frugal, Within, Revised, Run, Finalized, Hidden
<1>3. Frugal(Durable(r)) /\ Frugal(Taken(r)) /\ Frugal([r EXCEPT !.pid = TRUE])
  BY <1>1 DEF Frugal, Within, Durable, Taken, Run
<1> QED
  BY <1>2, <1>3

LEMMA ArmedFrugal ==
  ASSUME NEW r \in Run, Frugal(r), NEW p \in PendingResume, Within(p)
  PROVE  /\ Frugal([r EXCEPT !.pending = p])
         /\ \A n : Within([p EXCEPT !.attempts = n])
BY DEF Frugal, Within, Run, PendingResume

LEMMA NewRunFrugal ==
  ASSUME NEW lane, NEW key, NEW engine, NEW c, Within(c)
  PROVE  /\ Frugal(NewRun(lane, key, engine, 0, 0))
         /\ Frugal(NewRun(lane, key, engine, c.count, c.streak))
BY ZeroWithin, BudgetAssumption DEF NewRun, Absent, Frugal, Within

(* A resume is only planned within the budgets: waiting for a usage limit  *)
(* charges no streak, every other resume is tested against the limit.      *)
LEMMA PlannedWithin ==
  ASSUME TypeInv, NEW w \in Worker, Frugal(g[w].rec), NEW p, Planned(w, p)
  PROVE  Within(p)
<1> DEFINE r == g[w].rec
<1>1. r.count \in Nat /\ r.streak \in Nat
  BY LocalFacts DEF Run
<1>2. PICK end, cause, wallSpent, progress :
        /\ Resumes(r.count, r.streak, end, cause, progress, wallSpent)
        /\ p.count = r.count + 1
        /\ p.streak = NextStreak(r.streak, end, progress)
  BY DEF Planned
<1>3. p.count <= MaxBuildResumes
  BY <1>1, <1>2, BudgetAssumption DEF Resumes
<1>4. p.streak = 0 \/ p.streak < NoProgressLimit
  <2>1. CASE DetectLimit(end) = "usage-limit"
    BY <1>2, <2>1 DEF NextStreak, Frugal, Within
  <2>2. CASE DetectLimit(end) # "usage-limit"
    BY <1>2, <2>2 DEF Resumes
  <2> QED
    BY <2>1, <2>2
<1> QED
  BY <1>3, <1>4 DEF Within

LEMMA NextChain ==
  ASSUME TypeInv, ChainInv, [Next]_vars
  PROVE  ChainInv'
<1>1. /\ store \in [RunId -> Run] /\ journal \in [RunId -> Run]
      /\ \A i \in RunId : Frugal(store[i]) /\ Frugal(journal[i])
      /\ \A w \in Worker : /\ g[w].rec \in Run /\ g[w].res \in PendingResume
                           /\ Frugal(g[w].rec) /\ Within(g[w].res)
  BY LocalFacts DEF TypeInv, TypeOK, ChainInv
<1>2. ASSUME NEW i \in RunId PROVE Frugal(store'[i])
  <2>1. ASSUME NEW k \in RunId, NEW r, Change(k, r) PROVE Frugal(r)
    <3>1. CASE r = Absent
      BY <3>1, ZeroWithin
    <3>2. CASE r \in Revised(store[k]) \/ r = Taken(store[k])
      BY <1>1, <3>2, DerivedFrugal
    <3>3. ASSUME NEW w \in Worker, r = [store[k] EXCEPT !.pending = g[w].res]
          PROVE  Frugal(r)
      BY <1>1, <3>3, ArmedFrugal
    <3>4. ASSUME NEW w \in Worker,
                 r = [store[k] EXCEPT !.pending =
                        [g[w].res EXCEPT !.attempts = g[w].res.attempts + 1]]
          PROVE  Frugal(r)
      <4> DEFINE p == [g[w].res EXCEPT !.attempts = g[w].res.attempts + 1]
      <4>1. p \in PendingResume
        BY <1>1 DEF PendingResume
      <4>2. Within(p)
        BY <1>1, ArmedFrugal
      <4> HIDE DEF p
      <4> QED
        BY <1>1, <3>4, <4>1, <4>2, ArmedFrugal DEF p
    <3> QED
      BY <2>1, <3>1, <3>2, <3>3, <3>4 DEF Change
  <2>2. CASE \E w \in Worker : Reserve(w)
    BY <1>1, <2>2 DEF Reserve
  <2> QED
    BY <1>1, <2>1, <2>2, NextStores, ZeroWithin DEF StoreStep
<1>3. ASSUME NEW i \in RunId PROVE Frugal(journal'[i])
  BY <1>1, NextJournals, ZeroWithin, DerivedFrugal DEF JournalStep
<1>4. ASSUME NEW w \in Worker PROVE Frugal(g'[w].rec) /\ Within(g'[w].res)
  <2>1. LocalStep(w)
    BY NextLocals
  <2>2. CASE g'[w] \in {g[w], Idle}
    <3>1. Idle.rec = Absent /\ Idle.res = NoResume
      BY DEF Idle
    <3> QED
      BY <1>1, <2>2, <3>1, ZeroWithin
  <2>3. CASE /\ \E lane, key, engine :
                  g'[w].rec \in {NewRun(lane, key, engine, 0, 0),
                                 NewRun(lane, key, engine, g[w].res.count,
                                        g[w].res.streak)}
             /\ g'[w].res = g[w].res
    BY <1>1, <2>3, NewRunFrugal
  <2>4. CASE /\ g'[w].rec \in {g[w].rec, [g[w].rec EXCEPT !.pid = TRUE]}
                                \cup {store[i] : i \in RunId}
             /\ \/ g'[w].res \in {g[w].res} \cup {store[i].pending : i \in RunId}
                \/ Planned(w, g'[w].res)
    <3>1. Frugal(g'[w].rec)
      BY <1>1, <2>4, DerivedFrugal
    <3>2. Within(g'[w].res)
      BY <1>1, <2>4, PlannedWithin DEF Frugal
    <3> QED
      BY <3>1, <3>2
  <2> QED
    BY <2>1, <2>2, <2>3, <2>4 DEF LocalStep
<1> QED
  BY <1>2, <1>3, <1>4 DEF ChainInv

(* No run of any chain ever exceeds the turn budget or reaches the         *)
(* no-progress limit, however resumes are re-armed, crash and are reloaded,*)
(* and however many of them run at once.                                   *)
THEOREM ChainsBounded == Spec => []ChainBounded
<1>1. Init => ChainInv
  BY ZeroWithin DEF Init, ChainInv, Idle
<1>2. TypeInv /\ ChainInv /\ [Next]_vars => ChainInv'
  BY NextChain
<1>3. ChainInv => ChainBounded
  BY DEF ChainInv, ChainBounded, Frugal, Within
<1> QED
  BY <1>1, <1>2, <1>3, InitType, NextType, PTL DEF Spec

-----------------------------------------------------------------------------
(* A stop.                                                                 *)

(* The resume of a stopped run is the retry of one that already fired.     *)
Spared(r) == r.stopReq /\ r.pending # NoResume => r.pending.attempts > 0

(* A restart forgets every stop, so no record may carry one; and a run     *)
(* that is about to enter the store has not been stopped yet.              *)
StopInv ==
  /\ \A i \in RunId : Spared(store[i]) /\ ~journal[i].stopReq
  /\ \A w \in Worker : At(w, "reserve") => ~g[w].rec.stopReq

LEMMA DerivedSpared ==
  ASSUME NEW r \in Run, Spared(r)
  PROVE  \A q \in Revised(r) \cup {Taken(r)} : Spared(q)
BY DEF Spared, Revised, Run, Finalized, Hidden, Taken

LEMMA NextStop ==
  ASSUME TypeInv, StopInv, [Next]_vars
  PROVE  StopInv'
<1>1. /\ store \in [RunId -> Run] /\ journal \in [RunId -> Run]
      /\ \A w \in Worker : g[w].rec \in Run /\ g[w].res \in PendingResume
  BY LocalFacts DEF TypeInv, TypeOK
<1>2. Spared(Absent) /\ ~Absent.stopReq
  BY DEF Spared, Absent
<1>3. ASSUME NEW i \in RunId PROVE Spared(store'[i])
  <2>1. ASSUME NEW k \in RunId, NEW r, Change(k, r) PROVE Spared(r)
    <3>1. CASE r = Absent
      BY <1>2, <3>1
    <3>2. CASE r \in Revised(store[k]) \/ r = Taken(store[k])
      BY <1>1, <3>2, DerivedSpared DEF StopInv
    <3>3. ASSUME NEW w \in Worker, ~store[k].stopReq,
                 r = [store[k] EXCEPT !.pending = g[w].res]
          PROVE  Spared(r)
      BY <1>1, <3>3 DEF Spared, Run
    <3>4. ASSUME NEW w \in Worker,
                 r = [store[k] EXCEPT !.pending =
                        [g[w].res EXCEPT !.attempts = g[w].res.attempts + 1]]
          PROVE  Spared(r)
      <4>1. r.pending.attempts = g[w].res.attempts + 1
        BY <1>1, <3>4 DEF Run, PendingResume
      <4>2. g[w].res.attempts \in Nat
        BY <1>1 DEF PendingResume
      <4> QED
        BY <4>1, <4>2 DEF Spared
    <3> QED
      BY <2>1, <3>1, <3>2, <3>3, <3>4 DEF Change
  <2>2. Spared(store[i]) /\ Spared(journal[i])
    BY DEF StopInv, Spared
  <2>3. CASE \E w \in Worker : Reserve(w)
    BY <1>1, <2>2, <2>3 DEF Reserve, StopInv, Spared
  <2> QED
    BY <1>1, <1>2, <2>1, <2>2, <2>3, NextStores DEF StoreStep
<1>4. ASSUME NEW i \in RunId PROVE ~journal'[i].stopReq
  <2>1. \A w \in Worker : ~Durable(g[w].rec).stopReq
    BY <1>1 DEF Durable, Run
  <2> QED
    BY <1>2, <2>1, NextJournals DEF JournalStep, StopInv
<1>5. ASSUME NEW w \in Worker, At(w, "reserve")' PROVE ~g'[w].rec.stopReq
  <2>1. LocalStep(w) /\ g'[w].pc = "reserve"
    BY <1>5, NextLocals DEF At
  <2>2. CASE g'[w] \in {g[w], Idle}
    BY <2>1, <2>2 DEF StopInv, At, Idle
  <2>3. \A lane, key, engine, count, streak :
          ~NewRun(lane, key, engine, count, streak).stopReq
    BY DEF NewRun, Absent
  <2> QED
    BY <2>1, <2>2, <2>3 DEF LocalStep
<1> QED
  BY <1>3, <1>4, <1>5 DEF StopInv, At

(* BR2: whatever a stop races with - the end of the agent, the plan of a   *)
(* resume, a timer - no resume is armed afresh on a run that the store     *)
(* knows as stopped; the one that may follow is the retry of a resume that *)
(* had fired before.                                                       *)
THEOREM StopIsKept == Spec => []StoppedNotArmed
<1>1. Init => StopInv
  BY DEF Init, StopInv, Spared, Absent, Idle, At
<1>2. TypeInv /\ StopInv /\ [Next]_vars => StopInv'
  BY NextStop
<1>3. StopInv => StoppedNotArmed
  BY DEF StopInv, StoppedNotArmed, Spared
<1> QED
  BY <1>1, <1>2, <1>3, InitType, NextType, PTL DEF Spec

-----------------------------------------------------------------------------
(* The store implements a lock per lane.                                   *)

(* A successor may be reserved over an old entry of its own id.  It never  *)
(* moves that entry to another lane, because every id has one place f in a *)
(* chain: those of runs that exist and those that are only drawn, n being  *)
(* the next id, and every reference to one of them agrees on it.           *)
Place ==
  [lane : LaneKey \cup {NoLane}, key : IdemKey \cup {NoKey}, count : Nat]

Drawn(n, i) == i \in RunId /\ i < n

PlacedAt(place, r) ==
  r.lane = place.lane /\ r.key = place.key /\ r.count = place.count

Heir(n, f, i, p) ==
  /\ Drawn(n, i) /\ Drawn(n, p.succ)
  /\ f[p.succ].lane = f[i].lane /\ f[p.succ].key = f[i].key
  /\ f[p.succ].count = p.count /\ p.count > 0

InPlace(n, f, i, r) ==
  /\ Drawn(n, i) /\ PlacedAt(f[i], r)
  /\ r.pending = NoResume \/ Heir(n, f, i, r.pending)

(* The goroutine fires the resume res of its run; it spawns a successor.   *)
Fires(l) ==
  \/ l.pc \in {"schedule", "fireget"}
  \/ l.pc \in {"snap", "write"} /\ l.next = "fireget"
Succeeds(l) ==
  l.pc \in {"reserve", "journal", "spawn", "rearm"} /\ l.pred # NoRun

Carried(n, f, l) ==
  /\ l.pc = "idle" => l = Idle
  /\ l.pc \notin {"idle", "reserve", "rearm"} => Drawn(n, l.id)
  /\ l.pc \in {"journal", "spawn", "setpid", "journalpid"}
       => InPlace(n, f, l.id, l.rec)
  /\ l.pc = "write" => l.rec = Absent \/ InPlace(n, f, l.id, l.rec)
  /\ l.pc = "reserve" => l.rec.status = "running" /\ l.rec.pending = NoResume
  /\ l.pc = "reserve" /\ l.pred # NoRun
       => l.id = l.res.succ /\ PlacedAt(f[l.id], l.rec)
  /\ Fires(l) => Heir(n, f, l.id, l.res)
  /\ Succeeds(l) => Heir(n, f, l.pred, l.res)

Consistent(n, f) ==
  /\ \A i \in RunId : /\ store[i] = Absent \/ InPlace(n, f, i, store[i])
                      /\ journal[i] = Absent \/ InPlace(n, f, i, journal[i])
  /\ \A w \in Worker : Carried(n, f, g[w])

LaneInv ==
  /\ \E f \in [RunId -> Place] : Consistent(nextId, f)
  /\ phase = "down" => /\ \A i \in RunId : store[i] = Absent
                       /\ \A w \in Worker : g[w] = Idle

(* Drawing a new id, and giving it a place, disturbs nothing.              *)
Extends(n, f, h) == \A i : Drawn(n, i) => h[i] = f[i]

LEMMA DrawExtends ==
  ASSUME NEW n \in Nat, NEW m \in Nat, n <= m, NEW f, NEW h,
         \A i : Drawn(n, i) => h[i] = f[i]
  PROVE  /\ \A i : Drawn(n, i) => Drawn(m, i)
         /\ \A i, p : Heir(n, f, i, p) => Heir(m, h, i, p)
         /\ \A i, r : InPlace(n, f, i, r) => InPlace(m, h, i, r)
         /\ \A l : Carried(n, f, l) => Carried(m, h, l)
<1>1. \A i : Drawn(n, i) => Drawn(m, i)
  BY DEF Drawn, RunId
<1>2. \A i, p : Heir(n, f, i, p) => Heir(m, h, i, p)
  BY <1>1 DEF Heir
<1>3. \A i, r : InPlace(n, f, i, r) => InPlace(m, h, i, r)
  BY <1>1, <1>2 DEF InPlace
<1>4. ASSUME NEW l, Carried(n, f, l) PROVE Carried(m, h, l)
  <2>1. l.pc = "reserve" /\ l.pred # NoRun => h[l.id] = f[l.id]
    BY <1>4 DEF Carried, Succeeds, Heir
  <2> QED
    BY <1>1, <1>2, <1>3, <1>4, <2>1 DEF Carried
<1> QED
  BY <1>1, <1>2, <1>3, <1>4

LEMMA DerivedOnLane ==
  ASSUME NEW n, NEW f, NEW i, NEW r \in Run, InPlace(n, f, i, r)
  PROVE  /\ \A q \in Revised(r) : InPlace(n, f, i, q)
         /\ InPlace(n, f, i, Taken(r)) /\ InPlace(n, f, i, Durable(r))
         /\ InPlace(n, f, i, [r EXCEPT !.pid = TRUE])
<1>1. ASSUME NEW q, q.lane = r.lane, q.key = r.key, q.count = r.count,
             q.pending \in {r.pending, NoResume}
      PROVE  InPlace(n, f, i, q)
  BY <1>1 DEF InPlace, PlacedAt
<1>2. \A q \in Revised(r) :
        /\ q.lane = r.lane /\ q.key = r.key /\ q.count = r.count
        /\ q.pending \in {r.pending, NoResume}
  <2>1. \A q \in Revised(r) :
          q.lane = r.lane /\ q.key = r.key /\ q.count = r.count
    BY DEF Revised, Run, Finalized, Hidden
  <2>2. \A q \in Revised(r) : q.pending \in {r.pending, NoResume}
    BY DEF Revised, Run, Finalized, Hidden
  <2> QED
    BY <2>1, <2>2
<1>3. \A q \in {Taken(r), Durable(r), [r EXCEPT !.pid = TRUE]} :
        /\ q.lane = r.lane /\ q.key = r.key /\ q.count = r.count
        /\ q.pending \in {r.pending, NoResume}
  BY DEF Taken, Durable, Run
<1> QED
  BY <1>1, <1>2, <1>3

LEMMA ArmedOnLane ==
  ASSUME NEW n, NEW f, NEW i, NEW r \in Run, InPlace(n, f, i, r),
         NEW p \in PendingResume, Heir(n, f, i, p)
  PROVE  /\ InPlace(n, f, i, [r EXCEPT !.pending = p])
         /\ \A k : Heir(n, f, i, [p EXCEPT !.attempts = k])
BY DEF InPlace, PlacedAt, Heir, Run, PendingResume

LEMMA IdleCarried == \A n, f : Carried(n, f, Idle)
BY DEF Carried, Idle, Fires, Succeeds

(* A goroutine that only moves on needs nothing more for its next step.    *)
LEMMA GoesOn ==
  ASSUME TypeInv, NEW f, NEW w \in Worker, Carried(nextId, f, g[w]),
         \/ Done(w)
         \/ /\ Drawn(nextId, g[w].id)
            /\ \/ \E pc \in {"record", "get", "push", "pushgo", "plan", "end",
                             "stopsignal", "stopfinalize"} : Goto(w, pc)
               \/ \E next \in {"pushgo", "end", "idle"} : Rejournal(w, next)
  PROVE  Carried(nextId, f, g'[w])
<1>1. g[w] \in Local /\ g \in [Worker -> SoundLocal]
  BY LocalFacts DEF TypeInv
<1>2. CASE Done(w)
  BY <1>1, <1>2, IdleCarried DEF Done
<1>3. ASSUME Drawn(nextId, g[w].id),
             NEW pc \in {"record", "get", "push", "pushgo", "plan", "end",
                         "stopsignal", "stopfinalize"},
             Goto(w, pc)
      PROVE  Carried(nextId, f, g'[w])
  <2>1. g'[w].pc = pc /\ g'[w].id = g[w].id
    BY <1>1, <1>3 DEF Goto, Local
  <2> QED
    BY <1>3, <2>1 DEF Carried, Fires, Succeeds
<1>4. ASSUME Drawn(nextId, g[w].id), NEW next \in {"pushgo", "end", "idle"},
             Rejournal(w, next)
      PROVE  Carried(nextId, f, g'[w])
  <2>1. g'[w].pc = "snap" /\ g'[w].next = next /\ g'[w].id = g[w].id
    BY <1>1, <1>4 DEF Rejournal, Local
  <2> QED
    BY <1>4, <2>1 DEF Carried, Fires, Succeeds
<1> QED
  BY <1>2, <1>3, <1>4

(* After a rejournal the goroutine knows of the resume what it knew before.*)
LEMMA ReturnCarried ==
  ASSUME TypeInv, NEW f, NEW w \in Worker, Carried(nextId, f, g[w]),
         g[w].pc \in {"snap", "write"}, Return(w)
  PROVE  Carried(nextId, f, g'[w])
<1>1. g[w] \in Local /\ g \in [Worker -> SoundLocal]
  BY LocalFacts DEF TypeInv
<1>2. Drawn(nextId, g[w].id)
  BY DEF Carried
<1>3. g[w].next \in AfterJournal
  BY <1>1 DEF Local
<1>4. CASE g[w].next = "idle"
  BY <1>4, GoesOn DEF Return
<1>5. CASE g[w].next = "fireget"
  <2>1. /\ g'[w].pc = "fireget" /\ g'[w].id = g[w].id
        /\ g'[w].res = g[w].res
    BY <1>1, <1>5 DEF Return, Goto, Local
  <2>2. Heir(nextId, f, g[w].id, g[w].res)
    BY <1>5 DEF Carried, Fires
  <2> QED
    BY <1>2, <2>1, <2>2 DEF Carried, Fires, Succeeds
<1>6. CASE g[w].next \in {"push", "pushgo", "end"}
  BY <1>2, <1>6, GoesOn DEF Return
<1> QED
  BY <1>3, <1>4, <1>5, <1>6 DEF AfterJournal

(* A failed spawn ends a request and re-arms a successor.                  *)
LEMMA SpawnFailsCarried ==
  ASSUME TypeInv, NEW f, NEW w \in Worker, Carried(nextId, f, g[w]),
         g[w].pc \in {"reserve", "journal", "spawn"}, SpawnFails(w)
  PROVE  Carried(nextId, f, g'[w])
<1>1. g[w] \in Local /\ g \in [Worker -> SoundLocal]
  BY LocalFacts DEF TypeInv
<1>2. CASE g[w].pred = NoRun
  BY <1>2, GoesOn DEF SpawnFails
<1>3. CASE g[w].pred # NoRun
  <2>1. /\ g'[w].pc = "rearm" /\ g'[w].pred = g[w].pred
        /\ g'[w].res = g[w].res
    BY <1>1, <1>3 DEF SpawnFails, Goto, Local
  <2>2. Heir(nextId, f, g[w].pred, g[w].res)
    BY <1>3 DEF Carried, Succeeds
  <2> QED
    BY <2>1, <2>2 DEF Carried, Fires, Succeeds
<1> QED
  BY <1>2, <1>3

LEMMA SpawnCarried ==
  ASSUME TypeInv, NEW f, Consistent(nextId, f), NEW w \in Worker,
         \/ Unwritable(w) \/ Adopt(w) \/ JournalRun(w) \/ SpawnChild(w)
         \/ SpawnError(w) \/ SetPid(w) \/ JournalPid(w) \/ RecordIdem(w)
  PROVE  Carried(nextId, f, g'[w])
<1>1. g[w] \in Local /\ g \in [Worker -> SoundLocal] /\ g[w].rec \in Run
  BY LocalFacts DEF TypeInv
<1>2. Carried(nextId, f, g[w])
  BY DEF Consistent
<1>3. CASE Unwritable(w)
  BY <1>2, <1>3, SpawnFailsCarried DEF Unwritable, At
<1>4. CASE Adopt(w)
  <2>1. CASE Done(w)
    BY <1>2, <2>1, GoesOn
  <2>2. CASE ~Done(w)
    <3>1. PICK i \in Holders(store, g[w].rec.lane) :
            g' = [g EXCEPT ![w].pc = "record", ![w].id = i]
      BY <1>4, <2>2 DEF Adopt
    <3>2. i \in RunId /\ store[i] # Absent
      BY DEF Holders, Absent
    <3>3. Drawn(nextId, i)
      BY <3>2 DEF Consistent, InPlace
    <3>4. g'[w].pc = "record" /\ g'[w].id = i
      BY <1>1, <3>1 DEF Local
    <3> QED
      BY <3>3, <3>4 DEF Carried, Fires, Succeeds
  <2> QED
    BY <2>1, <2>2
<1>5. CASE JournalRun(w) \/ SpawnChild(w)
  <2>1. CASE SpawnFails(w)
    BY <1>2, <1>5, <2>1, SpawnFailsCarried DEF JournalRun, SpawnChild, At
  <2>2. ASSUME NEW pc \in {"spawn", "setpid"}, Goto(w, pc)
        PROVE  Carried(nextId, f, g'[w])
    <3>1. /\ g'[w].pc = pc /\ g'[w].pred = g[w].pred /\ g'[w].id = g[w].id
          /\ g'[w].rec = g[w].rec /\ g'[w].res = g[w].res
      BY <1>1, <2>2 DEF Goto, Local
    <3>2. /\ Drawn(nextId, g[w].id)
          /\ InPlace(nextId, f, g[w].id, g[w].rec)
          /\ g[w].pred # NoRun => Heir(nextId, f, g[w].pred, g[w].res)
      BY <1>2, <1>5 DEF JournalRun, SpawnChild, At, Carried, Succeeds
    <3> QED
      BY <3>1, <3>2 DEF Carried, Fires, Succeeds
  <2> QED
    BY <1>5, <2>1, <2>2 DEF JournalRun, SpawnChild
<1>6. CASE SpawnError(w)
  BY <1>2, <1>6, SpawnFailsCarried, GoesOn DEF SpawnError, At
<1>7. CASE SetPid(w)
  <2>1. /\ g'[w].pc = "journalpid" /\ g'[w].id = g[w].id
        /\ g'[w].rec = [g[w].rec EXCEPT !.pid = TRUE]
    BY <1>1, <1>7 DEF SetPid, Local
  <2>2. Drawn(nextId, g[w].id) /\ InPlace(nextId, f, g[w].id, g[w].rec)
    BY <1>2, <1>7 DEF SetPid, At, Carried
  <2>3. InPlace(nextId, f, g[w].id, g'[w].rec)
    BY <1>1, <2>1, <2>2, DerivedOnLane
  <2> QED
    BY <2>1, <2>2, <2>3 DEF Carried, Fires, Succeeds
<1>8. CASE JournalPid(w) \/ RecordIdem(w)
  <2>1. Drawn(nextId, g[w].id)
    BY <1>2, <1>8 DEF JournalPid, RecordIdem, At, Carried
  <2>2. Done(w) \/ Goto(w, "record")
    BY <1>8 DEF JournalPid, RecordIdem
  <2> QED
    BY <1>2, <2>1, <2>2, GoesOn
<1> QED
  BY <1>3, <1>4, <1>5, <1>6, <1>7, <1>8

LEMMA StepCarried ==
  ASSUME TypeInv, NEW f, Consistent(nextId, f), NEW w \in Worker, Step(w),
         ~Reserve(w), nextId' = nextId
  PROVE  Carried(nextId, f, g'[w])
<1>1. /\ g[w] \in Local /\ g \in [Worker -> SoundLocal]
      /\ g[w].rec \in Run /\ g[w].res \in PendingResume
  BY LocalFacts DEF TypeInv
<1>2. Carried(nextId, f, g[w])
  BY DEF Consistent
<1>3. CASE Snap(w) \/ Write(w)
  <2>1. g[w].pc \in {"snap", "write"} /\ Drawn(nextId, g[w].id)
    BY <1>2, <1>3 DEF Snap, Write, At, Carried
  <2>2. CASE Return(w)
    BY <1>2, <2>1, <2>2, ReturnCarried
  <2>3. CASE ~Return(w)
    <3>1. g' = [g EXCEPT ![w].pc = "write", ![w].rec = store[g[w].id]]
      BY <1>3, <2>3 DEF Snap, Write
    <3>2. /\ g'[w].pc = "write" /\ g'[w].rec = store[g[w].id]
          /\ g'[w].id = g[w].id /\ g'[w].next = g[w].next
          /\ g'[w].res = g[w].res
      BY <1>1, <3>1 DEF Local
    <3>3. \/ store[g[w].id] = Absent
          \/ InPlace(nextId, f, g[w].id, store[g[w].id])
      BY <2>1 DEF Consistent, Drawn
    <3>4. g[w].next = "fireget" => Heir(nextId, f, g[w].id, g[w].res)
      BY <1>2, <2>1 DEF Carried, Fires
    <3> QED
      BY <2>1, <3>2, <3>3, <3>4 DEF Carried, Fires, Succeeds
  <2> QED
    BY <2>2, <2>3
<1>4. CASE GetFinalized(w)
  <2>1. Drawn(nextId, g[w].id)
    BY <1>2, <1>4 DEF GetFinalized, At, Carried
  <2>2. /\ g'[w].pc = "write" /\ g'[w].rec = store[g[w].id]
        /\ g'[w].id = g[w].id /\ g'[w].next = "push"
    BY <1>1, <1>4 DEF GetFinalized, Local
  <2>3. \/ store[g[w].id] = Absent
        \/ InPlace(nextId, f, g[w].id, store[g[w].id])
    BY <2>1 DEF Consistent, Drawn
  <2> QED
    BY <2>1, <2>2, <2>3 DEF Carried, Fires, Succeeds
<1>5. CASE PlanResume(w)
  <2>1. Drawn(nextId, g[w].id)
    BY <1>2, <1>5 DEF PlanResume, At, Carried
  <2>2. Goto(w, "end")
    BY <1>5 DEF PlanResume, TypeInv, TypeOK
  <2> QED
    BY <1>2, <2>1, <2>2, GoesOn
<1>6. CASE BuildSuccessor(w)
  <2> DEFINE j == g[w].id
             r == NewRun(store[j].lane, store[j].key, store[j].engine,
                         g[w].res.count, g[w].res.streak)
  <2>1. CASE Done(w)
    BY <1>2, <2>1, GoesOn
  <2>2. CASE ~Done(w)
    <3>1. /\ store[j].status # "absent"
          /\ g' = [g EXCEPT ![w].pc = "reserve", ![w].pred = j,
                            ![w].id = g[w].res.succ, ![w].rec = r]
      BY <1>6, <2>2 DEF BuildSuccessor
    <3>2. /\ r.status = "running" /\ r.pending = NoResume
          /\ r.lane = store[j].lane /\ r.key = store[j].key
          /\ r.count = g[w].res.count
      BY DEF NewRun, Absent
    <3>3. /\ g'[w].pc = "reserve" /\ g'[w].pred = j /\ g'[w].rec = r
          /\ g'[w].id = g[w].res.succ /\ g'[w].res = g[w].res
      <4> HIDE DEF r
      <4> QED
        BY <1>1, <3>1 DEF Local
    <3>4. Heir(nextId, f, j, g[w].res)
      BY <1>2, <1>6 DEF BuildSuccessor, At, Carried, Fires
    <3>5. store[j].lane = f[j].lane /\ store[j].key = f[j].key
      <4>1. j \in RunId /\ store[j] # Absent
        BY <3>1, <3>4 DEF Heir, Drawn, Absent
      <4> QED
        BY <4>1 DEF Consistent, InPlace, PlacedAt
    <3> HIDE DEF r
    <3>6. PlacedAt(f[g[w].res.succ], r)
      BY <3>2, <3>4, <3>5 DEF PlacedAt, Heir
    <3> QED
      BY <3>2, <3>3, <3>4, <3>6 DEF Carried, Fires, Succeeds
  <2> QED
    BY <2>1, <2>2
<1>7. CASE Rearm(w)
  <2>1. /\ g'[w].pc = "snap" /\ g'[w].next = "idle" /\ g'[w].id = g[w].pred
    BY <1>1, <1>7 DEF Rearm, Local
  <2>2. Drawn(nextId, g[w].pred)
    <3>1. g[w].pred # NoRun
      BY <1>7, LocalFacts, PCs DEF Rearm
    <3> QED
      BY <1>2, <1>7, <3>1 DEF Rearm, At, Carried, Succeeds, Heir
  <2> QED
    BY <2>1, <2>2 DEF Carried, Fires, Succeeds
<1>8. CASE ScheduleResume(w)
  <2>1. Drawn(nextId, g[w].id)
    BY <1>2, <1>8 DEF ScheduleResume, At, Carried
  <2>2. Rejournal(w, "end") \/ Goto(w, "end")
    BY <1>8 DEF ScheduleResume
  <2> QED
    BY <1>2, <2>1, <2>2, GoesOn
<1>9. CASE \/ Finalize(w) \/ ClaimPush(w) \/ StartPush(w) \/ EndFinalizing(w)
           \/ StopMark(w) \/ StopSignal(w) \/ StopFinalize(w) \/ StopCancel(w)
  <2>1. Drawn(nextId, g[w].id)
    BY <1>2, <1>9
    DEF Finalize, ClaimPush, StartPush, EndFinalizing, StopMark, StopSignal,
        StopFinalize, StopCancel, At, Carried
  <2>2. \/ Done(w)
        \/ \E pc \in {"get", "end", "plan", "stopsignal", "stopfinalize"} :
             Goto(w, pc)
        \/ \E next \in {"pushgo", "end", "idle"} : Rejournal(w, next)
    BY <1>9
    DEF Finalize, ClaimPush, StartPush, EndFinalizing, StopMark, StopSignal,
        StopFinalize, StopCancel
  <2> QED
    BY <1>2, <2>1, <2>2, GoesOn
<1> QED
  BY <1>3, <1>4, <1>5, <1>6, <1>7, <1>8, <1>9, SpawnCarried DEF Step

(* A goroutine starts.                                                     *)
LEMMA StartCarried ==
  ASSUME TypeInv, NEW f, Consistent(nextId, f), NEW w \in Worker,
         \/ Request(w)
         \/ \E i \in RunId :
              ObserveExit(w, i) \/ TakeResume(w, i) \/ RouteSurvivor(w, i)
  PROVE  Carried(nextId, f, g'[w])
<1>1. g[w] \in Local /\ g \in [Worker -> SoundLocal]
  BY LocalFacts DEF TypeInv
<1>2. Carried(nextId, f, g[w])
  BY DEF Consistent
<1>3. \A i \in RunId :
        store[i] # Absent => InPlace(nextId, f, i, store[i])
  BY DEF Consistent
<1>4. ASSUME NEW lane \in LaneKey, NEW key \in IdemKey,
             NEW engine \in RequestEngine, PostBuild(w, lane, key, engine)
      PROVE  Carried(nextId, f, g'[w])
  <2> DEFINE r == NewRun(lane, key, engine, 0, 0)
  <2>1. r.status = "running" /\ r.pending = NoResume
    BY DEF NewRun, Absent
  <2>2. g'[w].pc = "reserve" /\ g'[w].rec = r /\ g'[w].pred = g[w].pred
    <3> HIDE DEF r
    <3>1. g' = [g EXCEPT ![w].pc = "reserve", ![w].rec = r]
      BY <1>4 DEF PostBuild, r
    <3> QED
      BY <1>1, <3>1 DEF Local
  <2>3. g[w].pred = NoRun
    BY <1>2, <1>4 DEF PostBuild, At, Carried, Idle
  <2> HIDE DEF r
  <2> QED
    BY <2>1, <2>2, <2>3 DEF Carried, Fires, Succeeds
<1>5. ASSUME NEW i \in RunId, StopBegin(w, i)
      PROVE  Carried(nextId, f, g'[w])
  <2>1. g'[w].pc \in {"stopmark", "stopcancel"} /\ g'[w].id = i
    BY <1>1, <1>5 DEF StopBegin, Local
  <2>2. Drawn(nextId, i)
    BY <1>3, <1>5 DEF StopBegin, Terminal, Absent, InPlace
  <2> QED
    BY <2>1, <2>2 DEF Carried, Fires, Succeeds
<1>6. ASSUME NEW i \in RunId, TakeResume(w, i)
      PROVE  Carried(nextId, f, g'[w])
  <2>1. /\ g'[w].pc = "snap" /\ g'[w].next = "fireget" /\ g'[w].id = i
        /\ g'[w].res = store[i].pending
    BY <1>1, <1>6 DEF TakeResume, Local
  <2>2. Absent.pending = NoResume
    BY DEF Absent
  <2>3. Drawn(nextId, i) /\ Heir(nextId, f, i, store[i].pending)
    BY <1>3, <1>6, <2>2 DEF TakeResume, InPlace
  <2> QED
    BY <2>1, <2>3 DEF Carried, Fires, Succeeds
<1>7. ASSUME NEW i \in RunId, ObserveExit(w, i) \/ RouteSurvivor(w, i)
      PROVE  Carried(nextId, f, g'[w])
  <2>1. PICK cause, boot : BeginFinalizing(w, i, cause, boot)
    BY <1>7 DEF ObserveExit, RouteSurvivor
  <2>2. CASE store[i].status = "running"
    <3>1. g'[w].pc = "finalize" /\ g'[w].id = i
      BY <1>1, <2>1, <2>2 DEF BeginFinalizing, Local
    <3>2. Drawn(nextId, i)
      BY <1>3, <2>2 DEF Absent, InPlace
    <3> QED
      BY <3>1, <3>2 DEF Carried, Fires, Succeeds
  <2>3. CASE store[i].status # "running"
    BY <1>2, <2>1, <2>3 DEF BeginFinalizing
  <2> QED
    BY <2>2, <2>3
<1> QED
  BY <1>4, <1>5, <1>6, <1>7 DEF Request

(* The steps of one goroutine leave the others alone.                      *)
LEMMA OthersStay ==
  ASSUME TypeInv, NEW w \in Worker,
         \/ Step(w) \/ Request(w)
         \/ \E i \in RunId :
              ObserveExit(w, i) \/ TakeResume(w, i) \/ RouteSurvivor(w, i)
  PROVE  \A v \in Worker \ {w} : g'[v] = g[v]
<1>1. g \in [Worker -> SoundLocal]
  BY DEF TypeInv
<1>2. CASE \/ Snap(w) \/ Write(w) \/ Unwritable(w) \/ Adopt(w) \/ Reserve(w)
           \/ JournalRun(w) \/ SpawnChild(w) \/ SpawnError(w) \/ SetPid(w)
           \/ JournalPid(w) \/ RecordIdem(w)
  BY <1>1, <1>2
  DEF Snap, Write, Unwritable, Adopt, Reserve, JournalRun, SpawnChild,
      SpawnError, SetPid, JournalPid, RecordIdem, Return, SpawnFails, Goto,
      Done
<1>3. CASE \/ Finalize(w) \/ GetFinalized(w) \/ ClaimPush(w) \/ StartPush(w)
           \/ PlanResume(w) \/ ScheduleResume(w) \/ EndFinalizing(w)
           \/ BuildSuccessor(w) \/ Rearm(w)
  BY <1>1, <1>3
  DEF Finalize, GetFinalized, ClaimPush, StartPush, PlanResume,
      ScheduleResume, EndFinalizing, BuildSuccessor, Rearm, Rejournal, Goto,
      Done
<1>4. CASE StopMark(w) \/ StopSignal(w) \/ StopFinalize(w) \/ StopCancel(w)
  BY <1>1, <1>4
  DEF StopMark, StopSignal, StopFinalize, StopCancel, Rejournal, Goto
<1>5. CASE \/ Request(w)
           \/ \E i \in RunId :
                ObserveExit(w, i) \/ TakeResume(w, i) \/ RouteSurvivor(w, i)
  BY <1>1, <1>5
  DEF Request, PostBuild, StopBegin, ObserveExit, TakeResume, RouteSurvivor,
      BeginFinalizing
<1> QED
  BY <1>2, <1>3, <1>4, <1>5 DEF Step

LEMMA StaysCarried ==
  ASSUME TypeInv, NEW f, Consistent(nextId, f), [Next]_vars,
         ~\E w \in Worker : Reserve(w), nextId' = nextId
  PROVE  \A w \in Worker : Carried(nextId, f, g'[w])
<1>1. \A w \in Worker : Carried(nextId, f, g[w])
  BY DEF Consistent
<1>2. ASSUME NEW v \in Worker,
             \/ Step(v) \/ Request(v)
             \/ \E i \in RunId :
                  ObserveExit(v, i) \/ TakeResume(v, i) \/ RouteSurvivor(v, i)
      PROVE  \A w \in Worker : Carried(nextId, f, g'[w])
  <2>1. Carried(nextId, f, g'[v])
    BY <1>2, StepCarried, StartCarried
  <2>2. \A w \in Worker \ {v} : g'[w] = g[w]
    BY <1>2, OthersStay
  <2> QED
    BY <1>1, <2>1, <2>2
<1>3. CASE Crash
  BY <1>3, IdleCarried DEF Crash
<1>4. CASE (\E i \in RunId : ChildExits(i)) \/ Boot \/ Serve \/ UNCHANGED vars
  BY <1>1, <1>4 DEF ChildExits, Boot, Serve, vars
<1> QED
  BY <1>2, <1>3, <1>4 DEF Next

(* Without a reservation, no entry of the store moves to another lane, and *)
(* what is journaled or armed stays on the lane of its chain.              *)
LEMMA StoresConsistent ==
  ASSUME TypeInv, NEW f, Consistent(nextId, f), [Next]_vars,
         ~\E w \in Worker : Reserve(w), NEW i \in RunId
  PROVE  /\ store'[i] = Absent \/ InPlace(nextId, f, i, store'[i])
         /\ journal'[i] = Absent \/ InPlace(nextId, f, i, journal'[i])
<1>1. /\ store \in [RunId -> Run] /\ journal \in [RunId -> Run]
      /\ \A w \in Worker : /\ g[w].rec \in Run /\ g[w].res \in PendingResume
                           /\ Carried(nextId, f, g[w])
      /\ \A k \in RunId :
           /\ store[k] = Absent \/ InPlace(nextId, f, k, store[k])
           /\ journal[k] = Absent \/ InPlace(nextId, f, k, journal[k])
  BY LocalFacts DEF TypeInv, TypeOK, Consistent
<1>2. store'[i] = Absent \/ InPlace(nextId, f, i, store'[i])
  <2>1. ASSUME NEW k \in RunId, NEW r, Change(k, r)
        PROVE  r = Absent \/ InPlace(nextId, f, k, r)
    <3>1. CASE \/ Present(k) /\ r \in Revised(store[k])
               \/ store[k].pending # NoResume /\ r = Taken(store[k])
      <4>1. store[k] # Absent
        BY <3>1 DEF Present, Absent
      <4> QED
        BY <1>1, <3>1, <4>1, DerivedOnLane
    <3>2. ASSUME NEW w \in Worker, At(w, "schedule"), k = g[w].id, Present(k),
                 r = [store[k] EXCEPT !.pending = g[w].res]
          PROVE  InPlace(nextId, f, k, r)
      <4>1. Heir(nextId, f, k, g[w].res)
        BY <1>1, <3>2 DEF At, Carried, Fires
      <4>2. InPlace(nextId, f, k, store[k])
        BY <1>1, <3>2 DEF Present, Absent
      <4> QED
        BY <1>1, <3>2, <4>1, <4>2, ArmedOnLane
    <3>3. ASSUME NEW w \in Worker, At(w, "rearm"), k = g[w].pred, Present(k),
                 r = [store[k] EXCEPT !.pending =
                        [g[w].res EXCEPT !.attempts = g[w].res.attempts + 1]]
          PROVE  InPlace(nextId, f, k, r)
      <4> DEFINE p == [g[w].res EXCEPT !.attempts = g[w].res.attempts + 1]
      <4>1. InPlace(nextId, f, k, store[k])
        BY <1>1, <3>3 DEF Present, Absent
      <4>2. Heir(nextId, f, k, g[w].res)
        BY <1>1, <3>3, PCs DEF At, Carried, Succeeds
      <4>3. p \in PendingResume
        BY <1>1 DEF PendingResume
      <4>4. Heir(nextId, f, k, p)
        BY <1>1, <4>1, <4>2, ArmedOnLane
      <4> HIDE DEF p
      <4> QED
        BY <1>1, <3>3, <4>1, <4>3, <4>4, ArmedOnLane DEF p
    <3> QED
      BY <2>1, <3>1, <3>2, <3>3 DEF Change
  <2> QED
    BY <1>1, <2>1, NextStores DEF StoreStep
<1>3. journal'[i] = Absent \/ InPlace(nextId, f, i, journal'[i])
  <2>1. CASE journal'[i] \in {journal[i], Absent}
    BY <1>1, <2>1
  <2>2. ASSUME NEW w \in Worker, g[w].pc \in {"write", "journal", "journalpid"},
               i = g[w].id, journal'[i] = Durable(g[w].rec)
        PROVE  journal'[i] = Absent \/ InPlace(nextId, f, i, journal'[i])
    <3>1. g[w].rec = Absent \/ InPlace(nextId, f, i, g[w].rec)
      BY <1>1, <2>2 DEF Carried
    <3>2. Durable(Absent) = Absent
      <4>1. \A r \in Run : /\ r.engine = DefaultEngine /\ r.stopReq = FALSE
                           /\ r.finalizing = FALSE
                           => Durable(r) = r
        BY DEF Durable, Run
      <4>2. /\ Absent.engine = DefaultEngine /\ Absent.stopReq = FALSE
            /\ Absent.finalizing = FALSE
        BY DEF Absent
      <4> QED
        BY <4>1, <4>2, RunTypes
    <3> QED
      BY <1>1, <2>2, <3>1, <3>2, DerivedOnLane
  <2> QED
    BY <2>1, <2>2, NextJournals DEF JournalStep
<1> QED
  BY <1>2, <1>3

(* A reservation puts a run on the lane of its chain; a new run may take   *)
(* any lane, as nothing refers to its id yet.                              *)
LEMMA ReserveConsistent ==
  ASSUME TypeInv, NEW f \in [RunId -> Place],
         Consistent(nextId, f), NEW w \in Worker, Reserve(w)
  PROVE  \E h \in [RunId -> Place] :
           /\ Consistent(nextId, h)' /\ Extends(nextId, f, h)
           /\ g[w].pred = NoRun => h[nextId].count = g[w].rec.count
<1> DEFINE i == IF g[w].pred = NoRun THEN nextId ELSE g[w].id
           h == IF g[w].pred = NoRun
                THEN [f EXCEPT ![nextId] =
                        [lane |-> g[w].rec.lane, key |-> g[w].rec.key,
                         count |-> g[w].rec.count]]
                ELSE f
<1>1. /\ g[w] \in Local /\ g \in [Worker -> SoundLocal] /\ g[w].rec \in Run
      /\ store \in [RunId -> Run] /\ nextId \in Nat
  BY LocalFacts DEF TypeInv, TypeOK
<1>2. /\ i \in RunId /\ store' = [store EXCEPT ![i] = g[w].rec]
      /\ nextId' = IF g[w].pred = NoRun THEN nextId + 1 ELSE nextId
      /\ g' = [g EXCEPT ![w].pc = "journal", ![w].id = i]
      /\ journal' = journal /\ At(w, "reserve")
  BY <1>1 DEF Reserve
<1>3. Carried(nextId, f, g[w])
  BY DEF Consistent
<1>4. h \in [RunId -> Place]
  BY <1>1 DEF Run, Place
<1>5. /\ nextId' \in Nat /\ nextId <= nextId'
      /\ \A k : Drawn(nextId, k) => h[k] = f[k]
  BY <1>1, <1>2 DEF Drawn
<1>6. InPlace(nextId', h, i, g[w].rec)
  <2>1. CASE g[w].pred = NoRun
    <3>1. i = nextId /\ Drawn(nextId', i) /\ PlacedAt(h[i], g[w].rec)
      BY <1>1, <1>2, <2>1 DEF Drawn, PlacedAt
    <3>2. g[w].rec.pending = NoResume
      BY <1>2, <1>3 DEF At, Carried
    <3> QED
      BY <3>1, <3>2 DEF InPlace
  <2>2. CASE g[w].pred # NoRun
    <3>1. /\ i = g[w].res.succ /\ h = f /\ nextId' = nextId
          /\ PlacedAt(f[i], g[w].rec)
          /\ g[w].rec.pending = NoResume
          /\ Heir(nextId, f, g[w].pred, g[w].res)
      BY <1>2, <1>3, <2>2 DEF At, Carried, Succeeds
    <3> QED
      BY <3>1 DEF InPlace, Heir
  <2> QED
    BY <2>1, <2>2
<1>7. Carried(nextId', h, g'[w])
  <2>1. /\ g'[w].pc = "journal" /\ g'[w].id = i /\ g'[w].rec = g[w].rec
        /\ g'[w].pred = g[w].pred /\ g'[w].res = g[w].res
    BY <1>1, <1>2 DEF Local
  <2>2. g[w].pred # NoRun => Heir(nextId', h, g[w].pred, g[w].res)
    BY <1>1, <1>2, <1>3, <1>5, DrawExtends DEF At, Carried, Succeeds
  <2>3. Drawn(nextId', i)
    BY <1>6 DEF InPlace
  <2> HIDE DEF i, h
  <2> QED
    BY <1>6, <2>1, <2>2, <2>3 DEF Carried, Fires, Succeeds
<1>8. \A v \in Worker : Carried(nextId', h, g'[v])
  <2>1. \A v \in Worker \ {w} : g'[v] = g[v] /\ Carried(nextId, f, g[v])
    BY <1>1, <1>2 DEF Consistent
  <2> HIDE DEF i, h
  <2> QED
    BY <1>1, <1>5, <1>7, <2>1, DrawExtends
<1>9. ASSUME NEW k \in RunId
      PROVE  /\ store'[k] = Absent \/ InPlace(nextId', h, k, store'[k])
             /\ journal'[k] = Absent \/ InPlace(nextId', h, k, journal'[k])
  <2> HIDE DEF i, h
  <2>1. k # i => store'[k] = store[k]
    BY <1>1, <1>2
  <2>2. store'[i] = g[w].rec
    BY <1>1, <1>2
  <2> QED
    BY <1>1, <1>2, <1>5, <1>6, <2>1, <2>2, DrawExtends DEF Consistent
<1>10. g[w].pred = NoRun => h[nextId].count = g[w].rec.count
  BY <1>2
<1> HIDE DEF i, h
<1> QED
  BY <1>4, <1>5, <1>8, <1>9, <1>10 DEF Consistent, Extends

(* The id drawn for a successor gets the lane of the run it succeeds.      *)
LEMMA PlanConsistent ==
  ASSUME TypeInv, NEW f \in [RunId -> Place],
         Consistent(nextId, f), NEW w \in Worker, PlanResume(w),
         nextId' # nextId
  PROVE  \E h \in [RunId -> Place] :
           /\ Consistent(nextId, h)' /\ Extends(nextId, f, h)
           /\ h[nextId].count = g[w].rec.count + 1
<1> DEFINE i == g[w].id
           r == g[w].rec
           place == [lane |-> f[i].lane, key |-> f[i].key, count |-> r.count + 1]
           h == [f EXCEPT ![nextId] = place]
<1>1. /\ g[w] \in Local /\ g \in [Worker -> SoundLocal]
      /\ nextId \in Nat /\ r.count \in Nat
  BY LocalFacts DEF TypeInv, TypeOK, Run
<1>2. PICK streak :
        /\ nextId \in RunId /\ nextId' = nextId + 1
        /\ g' = [g EXCEPT ![w].pc = "schedule",
                          ![w].res = [succ |-> nextId, count |-> r.count + 1,
                                      streak |-> streak, attempts |-> 0]]
        /\ store' = store /\ journal' = journal
  BY DEF PlanResume
<1>3. Drawn(nextId, i)
  BY DEF PlanResume, At, Consistent, Carried
<1>4. h \in [RunId -> Place]
  <2>1. f[i] \in Place
    BY <1>3 DEF Drawn
  <2>2. place \in Place
    BY <1>1, <2>1 DEF Place
  <2> HIDE DEF place
  <2> QED
    BY <2>2
<1>5. /\ nextId' \in Nat /\ nextId <= nextId'
      /\ \A k : Drawn(nextId, k) => h[k] = f[k]
  BY <1>1, <1>2 DEF Drawn
<1>6. h[nextId] = place
  BY <1>2
<1> HIDE DEF h
<1>7. h[i] = f[i] /\ Drawn(nextId', nextId) /\ Drawn(nextId', i)
  <2>1. h[i] = f[i]
    BY <1>3, <1>5
  <2>2. Drawn(nextId', nextId) /\ Drawn(nextId', i)
    BY <1>1, <1>2, <1>3 DEF Drawn, RunId
  <2> QED
    BY <2>1, <2>2
<1>8. Carried(nextId', h, g'[w])
  <2>1. /\ g'[w].pc = "schedule" /\ g'[w].id = i
        /\ g'[w].res.succ = nextId /\ g'[w].res.count = r.count + 1
    BY <1>1, <1>2 DEF Local
  <2>2. Heir(nextId', h, i, g'[w].res)
    BY <1>1, <1>6, <1>7, <2>1 DEF Heir
  <2> QED
    BY <1>7, <2>1, <2>2 DEF Carried, Fires, Succeeds
<1>9. \A v \in Worker : Carried(nextId', h, g'[v])
  <2>1. \A v \in Worker \ {w} : g'[v] = g[v] /\ Carried(nextId, f, g[v])
    BY <1>1, <1>2 DEF Consistent
  <2> QED
    BY <1>1, <1>5, <1>8, <2>1, DrawExtends
<1>10. ASSUME NEW k \in RunId
      PROVE  /\ store'[k] = Absent \/ InPlace(nextId', h, k, store'[k])
             /\ journal'[k] = Absent \/ InPlace(nextId', h, k, journal'[k])
  BY <1>1, <1>2, <1>5, DrawExtends DEF Consistent
<1> QED
  BY <1>4, <1>5, <1>6, <1>9, <1>10 DEF Consistent, Extends

LEMMA IdsStay ==
  ASSUME [Next]_vars, ~\E w \in Worker : Reserve(w) \/ PlanResume(w)
  PROVE  nextId' = nextId
<1>1. ASSUME NEW w \in Worker, Step(w) PROVE nextId' = nextId
  BY <1>1
  DEF Step, Snap, Write, Unwritable, Adopt, JournalRun, SpawnChild,
      SpawnError, SetPid, JournalPid, RecordIdem, Finalize, GetFinalized,
      ClaimPush, StartPush, ScheduleResume, EndFinalizing, BuildSuccessor,
      Rearm, StopMark, StopSignal, StopFinalize, StopCancel, bounds
<1>2. ASSUME ~\E w \in Worker : Step(w) PROVE nextId' = nextId
  BY <1>2
  DEF Next, Request, PostBuild, StopBegin, ObserveExit, TakeResume,
      RouteSurvivor, ChildExits, Crash, Boot, Serve, vars, bounds
<1> QED
  BY <1>1, <1>2

(* A step keeps the places, and gives a place to an id that it draws.      *)
LEMMA NextPlaces ==
  ASSUME TypeInv, NEW f \in [RunId -> Place], Consistent(nextId, f),
         [Next]_vars
  PROVE  \E h \in [RunId -> Place] :
           /\ Consistent(nextId, h)' /\ Extends(nextId, f, h)
           /\ \/ nextId' = nextId
              \/ \E w \in Worker : /\ Reserve(w) /\ g[w].pred = NoRun
                                   /\ h[nextId].count = g[w].rec.count
              \/ \E w \in Worker : /\ PlanResume(w)
                                   /\ h[nextId].count = g[w].rec.count + 1
<1>1. CASE \E w \in Worker : Reserve(w)
  <2>1. PICK w \in Worker : Reserve(w)
    BY <1>1
  <2>2. g[w].pred # NoRun => nextId' = nextId
    BY <2>1 DEF Reserve
  <2> QED
    BY <2>1, <2>2, ReserveConsistent
<1>2. CASE \E w \in Worker : PlanResume(w) /\ nextId' # nextId
  BY <1>2, PlanConsistent
<1>3. CASE ~(\E w \in Worker : Reserve(w)) /\ nextId' = nextId
  <2>1. Consistent(nextId, f)'
    BY <1>3, StaysCarried, StoresConsistent DEF Consistent
  <2> QED
    BY <1>3, <2>1 DEF Extends
<1> QED
  BY <1>1, <1>2, <1>3, IdsStay

LEMMA NextLane ==
  ASSUME TypeInv, LaneInv, [Next]_vars
  PROVE  LaneInv'
<1>1. PICK f \in [RunId -> Place] : Consistent(nextId, f)
  BY DEF LaneInv
<1>2. \E h \in [RunId -> Place] : Consistent(nextId, h)'
  BY <1>1, NextPlaces
<1>3. ASSUME phase' = "down"
      PROVE  /\ \A i \in RunId : store'[i] = Absent
             /\ \A w \in Worker : g'[w] = Idle
  <2>1. CASE Crash
    BY <2>1 DEF Crash
  <2>2. CASE ~Crash
    <3>1. ASSUME NEW w \in Worker
          PROVE  g[w] = Idle => ~Step(w)
      BY DEF Step, Snap, Write, Unwritable, Adopt, Reserve, JournalRun,
             SpawnChild, SpawnError, SetPid, JournalPid, RecordIdem, Finalize,
             GetFinalized, ClaimPush, StartPush, PlanResume, ScheduleResume,
             EndFinalizing, BuildSuccessor, Rearm, StopMark, StopSignal,
             StopFinalize, StopCancel, At, Idle
    <3>2. phase = "down"
      <4>1. ASSUME NEW w \in Worker, Step(w) PROVE phase' = phase
        BY <4>1
        DEF Step, Snap, Write, Unwritable, Adopt, Reserve, JournalRun,
            SpawnChild, SpawnError, SetPid, JournalPid, RecordIdem, Finalize,
            GetFinalized, ClaimPush, StartPush, PlanResume, ScheduleResume,
            EndFinalizing, BuildSuccessor, Rearm, StopMark, StopSignal,
            StopFinalize, StopCancel, control
      <4>2. CASE ~\E w \in Worker : Step(w)
        BY <1>3, <2>2, <4>2
        DEF Next, Request, PostBuild, StopBegin, ObserveExit, TakeResume,
            RouteSurvivor, ChildExits, Boot, Serve, vars, control
      <4> QED
        BY <1>3, <4>1, <4>2
    <3>3. store' = store /\ g' = g
      BY <1>3, <2>2, <3>1, <3>2
      DEF LaneInv, Next, Request, PostBuild, StopBegin, ObserveExit,
          TakeResume, RouteSurvivor, ChildExits, Boot, Serve, vars
    <3> QED
      BY <3>2, <3>3 DEF LaneInv
  <2> QED
    BY <2>1, <2>2
<1> QED
  BY <1>2, <1>3 DEF LaneInv

(* The owners of each lane, as ImplementsLaneLock reads them off the store.*)
held ==
  [l \in LaneKey \ {NoLane} |-> {i \in RunId : Running(i) /\ store[i].lane = l}]

(* The entry of one run changes and does not begin to run: it releases its *)
(* lane, or keeps it.                                                      *)
LEMMA ChangeReleases ==
  ASSUME TypeInv, NEW i \in RunId, NEW r, store' = [store EXCEPT ![i] = r],
         r.status = "running" => Running(i) /\ r.lane = store[i].lane
  PROVE  [Lock!LockNext]_held
<1> DEFINE l == store[i].lane
<1>1. store \in [RunId -> Run]
  BY DEF TypeInv, TypeOK
<1>2. store'[i] = r /\ \A k \in RunId : k # i => store'[k] = store[k]
  BY <1>1
<1>3. CASE r.status = "running" \/ ~Running(i) \/ l = NoLane
  <2>1. \A k \in RunId, m \in LaneKey \ {NoLane} :
          (Running(k)' /\ store'[k].lane = m) <=> (Running(k) /\ store[k].lane = m)
    BY <1>2, <1>3 DEF Running
  <2>2. held' = held
    BY <2>1 DEF held
  <2> QED
    BY <2>2
<1>4. CASE r.status # "running" /\ Running(i) /\ l # NoLane
  <2>1. l \in LaneKey \ {NoLane}
    BY <1>1, <1>4 DEF Run
  <2>2. i \in held[l]
    BY <1>4, <2>1 DEF held
  <2>3. \A k \in RunId, m \in LaneKey \ {NoLane} :
          (Running(k)' /\ store'[k].lane = m)
             <=> (Running(k) /\ store[k].lane = m /\ ~(m = l /\ k = i))
    BY <1>2, <1>4 DEF Running
  <2>4. \A m \in LaneKey \ {NoLane} :
          held'[m] = IF m = l THEN held[m] \ {i} ELSE held[m]
    BY <2>3 DEF held
  <2>5. held' = [held EXCEPT ![l] = held[l] \ {i}]
    <3> HIDE DEF l
    <3> QED
      BY <2>1, <2>4 DEF held
  <2>6. \E m \in LaneKey \ {NoLane}, o \in RunId : Lock!Release(m, o)
    BY <2>1, <2>2, <2>5 DEF Lock!Release, held
  <2> QED
    BY <2>6 DEF Lock!LockNext
<1> QED
  BY <1>3, <1>4

LEMMA ReserveAcquires ==
  ASSUME TypeInv, LaneInv, NEW w \in Worker, Reserve(w)
  PROVE  [Lock!LockNext]_held
<1> DEFINE i == IF g[w].pred = NoRun THEN nextId ELSE g[w].id
           l == g[w].rec.lane
<1>1. /\ g[w].rec \in Run /\ store \in [RunId -> Run]
  BY LocalFacts DEF TypeInv, TypeOK
<1>2. /\ i \in RunId /\ store' = [store EXCEPT ![i] = g[w].rec]
      /\ Holders(store, l) = {} /\ At(w, "reserve")
  BY DEF Reserve
<1>3. PICK f : Consistent(nextId, f)
  BY DEF LaneInv
<1>4. g[w].rec.status = "running"
  BY <1>2, <1>3 DEF Consistent, Carried, At
<1>5. store[i] = Absent \/ store[i].lane = l
  <2>1. CASE g[w].pred = NoRun
    <3>1. ~Drawn(nextId, i)
      BY <2>1 DEF Drawn, TypeInv, TypeOK
    <3> QED
      BY <1>2, <1>3, <3>1 DEF Consistent, InPlace
  <2>2. CASE g[w].pred # NoRun
    <3>1. l = f[i].lane
      BY <1>2, <1>3, <2>2 DEF Consistent, Carried, PlacedAt, At
    <3> QED
      BY <1>2, <1>3, <3>1 DEF Consistent, InPlace, PlacedAt
  <2> QED
    BY <2>1, <2>2
<1>6. ~Running(i) \/ l = NoLane
  BY <1>2, <1>5 DEF Holders, Running, Absent
<1> HIDE DEF i, l
<1>7. store'[i] = g[w].rec /\ \A k \in RunId : k # i => store'[k] = store[k]
  BY <1>1, <1>2
<1>8. CASE l = NoLane
  <2>1. \A k \in RunId, m \in LaneKey \ {NoLane} :
          (Running(k)' /\ store'[k].lane = m) <=> (Running(k) /\ store[k].lane = m)
    BY <1>5, <1>7, <1>8 DEF Running, Absent, l
  <2>2. held' = held
    BY <2>1 DEF held
  <2> QED
    BY <2>2
<1>9. CASE l # NoLane
  <2>1. l \in LaneKey \ {NoLane}
    BY <1>1, <1>9 DEF l, Run
  <2>2. \A k \in RunId : ~(Running(k) /\ store[k].lane = l)
    BY <1>2, <1>9 DEF Holders, Running
  <2>3. \A k \in RunId, m \in LaneKey \ {NoLane} :
          (Running(k)' /\ store'[k].lane = m)
             <=> IF m = l THEN k = i ELSE Running(k) /\ store[k].lane = m
    BY <1>4, <1>6, <1>7, <1>9, <2>2 DEF Running, l
  <2>4. held[l] = {}
    BY <2>1, <2>2 DEF held
  <2>5. \A m \in LaneKey \ {NoLane} :
          held'[m] = IF m = l THEN {i} ELSE held[m]
    BY <1>2, <2>3 DEF held
  <2>6. held' = [held EXCEPT ![l] = {i}]
    BY <2>1, <2>5 DEF held
  <2>7. \E m \in LaneKey \ {NoLane}, o \in RunId : Lock!Acquire(m, o)
    BY <1>2, <2>1, <2>4, <2>6 DEF Lock!Acquire, held
  <2> QED
    BY <2>7 DEF Lock!LockNext
<1> QED
  BY <1>8, <1>9

LEMMA NextLocks ==
  ASSUME TypeInv, LaneInv, [Next]_vars
  PROVE  [Lock!LockNext]_held
<1>1. CASE store' = store
  BY <1>1 DEF held, Running
<1>2. CASE store' = [i \in RunId |-> Absent]
  <2>1. Lock!Lose
    BY <1>2 DEF Lock!Lose, Running, Absent
  <2> QED
    BY <2>1 DEF Lock!LockNext
<1>3. CASE Boot
  <2>1. \A i \in RunId : ~Running(i)
    BY <1>3 DEF Boot, LaneInv, Running, Absent
  <2>2. Lock!Recover
    BY <2>1 DEF Lock!Recover
  <2> QED
    BY <2>2 DEF Lock!LockNext
<1>4. ASSUME NEW i \in RunId, NEW r, Change(i, r),
             store' = [store EXCEPT ![i] = r]
      PROVE  [Lock!LockNext]_held
  <2>1. store[i] \in Run /\ \A w \in Worker : g[w].res \in PendingResume
    BY LocalFacts DEF TypeInv, TypeOK
  <2>2. r.status = "running" => Running(i) /\ r.lane = store[i].lane
    <3>1. CASE r = Absent
      BY <3>1 DEF Absent
    <3>2. CASE r \in Revised(store[i]) \/ r = Taken(store[i])
      BY <2>1, <3>2 DEF Revised, Taken, Running, Run, Finalized, Hidden
    <3>3. ASSUME NEW p, r = [store[i] EXCEPT !.pending = p]
          PROVE  r.status = "running" => Running(i) /\ r.lane = store[i].lane
      BY <2>1, <3>3 DEF Running, Run
    <3> QED
      BY <1>4, <3>1, <3>2, <3>3 DEF Change
  <2> QED
    BY <1>4, <2>2, ChangeReleases
<1> QED
  BY <1>1, <1>2, <1>3, <1>4, NextStores, ReserveAcquires DEF StoreStep

LEMMA InitLane == Init => LaneInv
<1> SUFFICES ASSUME Init PROVE LaneInv
  OBVIOUS
<1>1. Absent \in Run
  BY RunTypes
<1> DEFINE f == [i \in RunId |-> [lane |-> NoLane, key |-> NoKey, count |-> 0]]
<1>2. f \in [RunId -> Place]
  BY DEF Place
<1>3. Consistent(nextId, f)
  BY IdleCarried DEF Init, Consistent
<1>4. phase # "down"
  BY DEF Init
<1> HIDE DEF f
<1> QED
  BY <1>2, <1>3, <1>4 DEF LaneInv

(* BR3: the store of the engine is a lock per lane.  Whatever goroutines   *)
(* do at once, a lane is taken only while it is free, by one build, is     *)
(* given back by the end of that build only, and changes hands otherwise   *)
(* only when the process dies and the next one reads the journal.          *)
THEOREM StoreIsLaneLock == Spec => ImplementsLaneLock
<1>1. Init => LaneInv
  BY InitLane
<1>2. TypeInv /\ LaneInv /\ [Next]_vars => LaneInv'
  BY NextLane
<1>3. Init => Lock!LockInit
  BY DEF Init, Lock!LockInit, Running, Absent
<1>4. TypeInv /\ LaneInv /\ [Next]_vars => [Lock!LockNext]_held
  BY NextLocks
<1> QED
  BY <1>1, <1>2, <1>3, <1>4, InitType, NextType, PTL
  DEF Spec, ImplementsLaneLock, Lock!LockSpec, held

-----------------------------------------------------------------------------
(* What is a clock time of the next day at the latest.                     *)
LEMMA TimeOfDayInDay ==
  ASSUME NEW c \in ClockTime, ~(Hour24(c) > 23), ~(c.minute > 59)
  PROVE  TimeOfDay(c) \in 0 .. Day - 1
<1> DEFINE k == Hour24(c) * 60 + c.minute
<1>1. Hour24(c) \in 0 .. 23
  BY DEF Hour24, ClockTime
<1>2. c.minute \in 0 .. 59
  BY DEF ClockTime
<1>3. k \in Int /\ 0 <= k /\ k <= 1439
  BY <1>1, <1>2
<1>4. TimeOfDay(c) = k * 60000
  BY SMT DEF TimeOfDay, Minute
<1> HIDE DEF k
<1>5. k * 60000 \in Int /\ 0 <= k * 60000 /\ k * 60000 <= 86399999
  BY <1>3, SMT
<1>6. Day - 1 = 86399999
  BY SMT DEF Day, Minute
<1> QED
  BY <1>4, <1>5, <1>6, SMT

(* parseResetAt names the next time the clock shows what the message says: *)
(* later than now, and at most a day later.                                *)
THEOREM ResetIsNext ==
  ASSUME NEW c \in ClockTime, NEW midnight \in Nat, NEW now \in Nat,
         IsMidnight(midnight, now), NEW r \in ParseResetAt(c, midnight, now)
  PROVE  /\ now < r /\ r <= now + Day
         /\ r \in {midnight + TimeOfDay(c), midnight + Day + TimeOfDay(c)}
<1>1. ~(Hour24(c) > 23) /\ ~(c.minute > 59)
  BY DEF ParseResetAt
<1> DEFINE t == TimeOfDay(c)
<1>2. r = IF midnight + t <= now THEN midnight + t + Day ELSE midnight + t
  BY <1>1 DEF ParseResetAt
<1>3. t \in 0 .. Day - 1 /\ midnight <= now /\ now < midnight + Day
  BY <1>1, TimeOfDayInDay DEF IsMidnight
<1>4. Day \in Nat
  BY SMT DEF Day, Minute
<1> HIDE DEF t
<1>5. /\ now < r /\ r <= now + Day
      /\ r \in {midnight + t, midnight + Day + t}
  BY <1>2, <1>3, <1>4
<1> QED
  BY <1>5 DEF t

(* The wait for a limit is never shorter than the base delay nor longer    *)
(* than the configured wait, and it ends before the reset only if it was   *)
(* cut to the latter: no resume hits a limit at once, none waits for ever  *)
(* (clampDelay, planResume 348-352).                                       *)
THEOREM LimitWaitBounded ==
  ASSUME NEW c \in ClockTime, NEW midnight \in Nat, NEW now \in Nat,
         IsMidnight(midnight, now),
         NEW base \in Nat, NEW limitWait \in Nat, base <= limitWait
  PROVE  LET resets == ParseResetAt(c, midnight, now)
             delay  == LimitDelay(resets, now, base, limitWait)
         IN  /\ base <= delay /\ delay <= limitWait
             /\ \A r \in resets : Due(r, now + delay) \/ delay = limitWait
<1> DEFINE resets == ParseResetAt(c, midnight, now)
           delay == LimitDelay(resets, now, base, limitWait)
<1>1. CASE resets = {}
  BY <1>1 DEF LimitDelay
<1>2. CASE resets # {}
  <2>1. PICK r : resets = {r}
    BY <1>2 DEF ParseResetAt
  <2>2. now < r /\ r <= now + Day /\ r \in Int
    <3>1. Day \in Nat
      BY SMT DEF Day, Minute
    <3>2. ~(Hour24(c) > 23) /\ ~(c.minute > 59)
      BY <1>2 DEF ParseResetAt
    <3>3. TimeOfDay(c) \in Nat
      BY <3>1, <3>2, TimeOfDayInDay
    <3>4. r \in {midnight + TimeOfDay(c), midnight + Day + TimeOfDay(c)}
      BY <2>1, ResetIsNext
    <3>5. now < r /\ r <= now + Day
      BY <2>1, ResetIsNext
    <3> QED
      BY <3>1, <3>3, <3>4, <3>5
  <2>3. delay = ClampDelay(r, now, base, limitWait)
    BY <2>1 DEF LimitDelay
  <2> HIDE DEF resets, delay
  <2>4. /\ base <= delay /\ delay <= limitWait
        /\ r <= now + delay \/ delay = limitWait
    BY <2>2, <2>3 DEF ClampDelay
  <2> QED
    BY <2>1, <2>4 DEF resets, delay, Due
<1> QED
  BY <1>1, <1>2
=============================================================================
