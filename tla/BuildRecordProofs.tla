-------------------------- MODULE BuildRecordProofs -------------------------
(***************************************************************************)
(* Theorems about what the records of BuildEngine keep: the journal is the *)
(* store at rest, a request's idempotency key is spent once, and its turn  *)
(* budget bounds the run ids it consumes, across resumes, crashes and      *)
(* restarts.                                                               *)
(*                                                                         *)
(* The first two are about a backend that runs one goroutine at a time:    *)
(* with two, rejournals overtake each other and equal keys both miss.  The *)
(* budget needs only that BuildOnceProofs' Reliable holds.                 *)
(***************************************************************************)
EXTENDS BuildOnceProofs, FiniteSetTheorems

-----------------------------------------------------------------------------
(* The journal of a backend that runs one goroutine at a time.             *)

(* What a goroutine has still to write: the run it works on differs from   *)
(* its record.                                                             *)
Owing == {"journal", "journalpid", "get", "snap", "write", "stopsignal",
          "stopfinalize"}
Owes(l, i) == l.pc \in Owing /\ l.id = i

(* The local copy that a goroutine is about to write is what the store     *)
(* holds.                                                                  *)
CopyFor(l) ==
  /\ Spawns(l) /\ Present(l.id) => l.rec = store[l.id]
  /\ l.pc = "write" /\ Present(l.id) => Durable(l.rec) = Durable(store[l.id])

Recorded(i) == Present(i) => journal[i] = Durable(store[i])
RecordInv ==
  /\ \A w \in Worker : CopyFor(g[w])
  /\ \A i \in RunId :
       /\ journal[i] = Durable(journal[i])
       /\ Recorded(i) \/ \E w \in Worker : Owes(g[w], i)

LEMMA DurableFacts ==
  /\ Durable(Absent) = Absent
  /\ \A r \in Run : /\ Durable(Durable(r)) = Durable(r)
                    /\ Durable(Hidden(r)) = Durable(r)
                    /\ Durable([r EXCEPT !.finalizing = FALSE]) = Durable(r)
<1>1. Durable(Absent) = Absent
  <2>1. /\ Absent \in Run /\ Absent.engine = DefaultEngine
        /\ Absent.stopReq = FALSE /\ Absent.finalizing = FALSE
    BY RunTypes DEF Absent
  <2> QED
    BY <2>1 DEF Durable, Run
<1>2. ASSUME NEW r \in Run
      PROVE  /\ Durable(Durable(r)) = Durable(r)
             /\ Durable(Hidden(r)) = Durable(r)
             /\ Durable([r EXCEPT !.finalizing = FALSE]) = Durable(r)
  BY DEF Durable, Hidden, Run
<1> QED
  BY <1>1, <1>2

(* A step that disturbs only the run i, on which the goroutine works.      *)
LEMMA RecordedAt ==
  ASSUME TypeInv, RecordInv, OneAtATime, NEW w \in Worker, NEW i \in RunId,
         \A j \in RunId \ {i} :
           store'[j] = store[j] /\ journal'[j] = journal[j] /\ ~Owes(g[w], j),
         journal'[i] = Durable(journal'[i]),
         CopyFor(g[w])', Recorded(i)' \/ Owes(g'[w], i)
  PROVE  RecordInv'
<1>1. \A v \in Worker : v = w
  BY DEF OneAtATime
<1>2. \A v \in Worker : CopyFor(g[v])'
  BY <1>1
<1>3. ASSUME NEW j \in RunId, j # i
      PROVE  journal'[j] = Durable(journal'[j]) /\ Recorded(j)'
  BY <1>1, <1>3 DEF RecordInv, Recorded, Present
<1> QED
  BY <1>2, <1>3 DEF RecordInv, Owes

(* A step of a goroutine that owes nothing, and that changes neither store *)
(* nor journal.                                                            *)
LEMMA RecordedOn ==
  ASSUME TypeInv, RecordInv, OneAtATime, NEW w \in Worker,
         store' = store, journal' = journal, g[w].pc \notin Owing,
         CopyFor(g[w])'
  PROVE  RecordInv'
<1>1. \A v \in Worker : v = w
  BY DEF OneAtATime
<1> QED
  BY <1>1 DEF RecordInv, Owes, Recorded, Present

LEMMA RecordedSpawn ==
  ASSUME TypeInv, RecordInv, OneAtATime, "rewrite" \notin Faults,
         NEW w \in Worker,
         \/ Unwritable(w) \/ Adopt(w) \/ Reserve(w) \/ JournalRun(w)
         \/ SpawnChild(w) \/ SpawnError(w) \/ SetPid(w) \/ JournalPid(w)
         \/ RecordIdem(w)
  PROVE  RecordInv'
<1>1. /\ g[w] \in Local /\ g \in [Worker -> SoundLocal] /\ g[w].rec \in Run
      /\ store \in [RunId -> Run] /\ journal \in [RunId -> Run]
  BY LocalFacts DEF TypeInv, TypeOK
<1>2. CopyFor(g[w]) /\ \A j \in RunId : journal[j] = Durable(journal[j])
  BY DEF RecordInv
<1>3. \A j \in RunId : Recorded(j) \/ Owes(g[w], j)
  BY DEF RecordInv, OneAtATime
<1>4. Durable(Absent) = Absent /\ Durable(Durable(g[w].rec)) = Durable(g[w].rec)
  BY <1>1, DurableFacts
<1>5. CASE Unwritable(w)
  <2>1. g'[w] = Idle \/ Moves(w, "rearm")
    BY <1>5, SpawnFacts
  <2>2. CopyFor(g[w])'
    BY <2>1 DEF CopyFor, Spawns, SpawnPC, Moves, Idle
  <2> QED
    BY <1>5, <2>2, RecordedOn DEF Unwritable, At, Owing
<1>6. CASE Adopt(w)
  <2>1. g'[w] = Idle \/ g'[w].pc = "record"
    BY <1>6, SpawnFacts
  <2>2. CopyFor(g[w])'
    BY <2>1 DEF CopyFor, Spawns, SpawnPC, Idle
  <2> QED
    BY <1>6, <2>2, RecordedOn DEF Adopt, At, Owing
<1>7. CASE Reserve(w)
  <2>0. PICK j \in RunId : j = g'[w].id
    BY <1>7, SpawnFacts
  <2>1. /\ g'[w].pc = "journal" /\ g'[w].rec = g[w].rec
        /\ store' = [store EXCEPT ![j] = g[w].rec] /\ journal' = journal
        /\ g[w].pc = "reserve"
    BY <2>0, <1>7, SpawnFacts DEF Reserve, At
  <2>2. CopyFor(g[w])'
    BY <2>0, <1>1, <2>1 DEF CopyFor
  <2>3. Owes(g'[w], j)
    BY <2>0, <2>1 DEF Owes, Owing
  <2>4. \A k : ~Owes(g[w], k)
    BY <2>0, <2>1 DEF Owes, Owing
  <2> QED
    BY <2>0, <1>1, <1>2, <2>1, <2>2, <2>3, <2>4, RecordedAt
<1>8. CASE JournalRun(w)
  <2>0. PICK i \in RunId : i = g[w].id
    BY <1>8, LocalFacts, PCs DEF JournalRun, At
  <2>1. g[w].pc = "journal"
    BY <2>0, <1>8, LocalFacts, PCs DEF JournalRun, At
  <2>2. \A k \in RunId \ {i} : ~Owes(g[w], k)
    BY <2>0 DEF Owes
  <2>3. CASE /\ journal' = [journal EXCEPT ![i] = Durable(g[w].rec)]
             /\ Goto(w, "spawn") /\ UNCHANGED store
    <3>1. Moves(w, "spawn")
      BY <2>0, <2>3, MoveFacts
    <3>2. Present(i) => g[w].rec = store[i]
      BY <2>0, <1>2, <2>1 DEF CopyFor, Spawns, SpawnPC
    <3>3. CopyFor(g[w])'
      BY <2>0, <2>3, <3>1, <3>2 DEF CopyFor, Moves, Present
    <3>4. Recorded(i)'
      BY <2>0, <1>1, <2>1, <2>3, <3>2 DEF Recorded, Present
    <3> QED
      BY <2>0, <1>1, <1>4, <2>1, <2>2, <2>3, <3>3, <3>4, RecordedAt
  <2>4. CASE /\ store' = [store EXCEPT ![i] = Absent]
             /\ SpawnFails(w) /\ UNCHANGED journal
    <3>1. g'[w] = Idle \/ Moves(w, "rearm")
      BY <2>0, <2>4, MoveFacts
    <3>2. CopyFor(g[w])'
      BY <2>0, <3>1 DEF CopyFor, Spawns, SpawnPC, Moves, Idle
    <3>3. Recorded(i)'
      BY <2>0, <1>1, <2>1, <2>4 DEF Recorded, Present, Absent
    <3> QED
      BY <2>0, <1>1, <1>2, <2>1, <2>2, <2>4, <3>2, <3>3, RecordedAt
  <2> QED
    BY <2>0, <1>8, <2>3, <2>4 DEF JournalRun
<1>9. CASE SpawnChild(w)
  <2>1. Moves(w, "setpid") /\ g[w].pc = "spawn"
    BY <1>9, SpawnFacts DEF SpawnChild, At
  <2>2. CopyFor(g[w])'
    BY <1>2, <1>9, <2>1
    DEF CopyFor, Spawns, SpawnPC, Moves, Present, SpawnChild
  <2> QED
    BY <1>9, <2>1, <2>2, RecordedOn DEF SpawnChild, Owing
<1>10. CASE SpawnError(w)
  <2>0. PICK i \in RunId : i = g[w].id
    BY <1>10, LocalFacts, PCs DEF SpawnError, At
  <2>1. /\ g[w].pc = "spawn" /\ journal' = journal
        /\ store' = [store EXCEPT ![i] = Absent]
    BY <2>0, <1>10, LocalFacts, PCs DEF SpawnError, At
  <2>2. g'[w] = Idle \/ Moves(w, "rearm")
    BY <2>0, <1>10, MoveFacts DEF SpawnError
  <2>3. CopyFor(g[w])'
    BY <2>0, <2>2 DEF CopyFor, Spawns, SpawnPC, Moves, Idle
  <2>4. Recorded(i)'
    BY <2>0, <1>1, <2>1 DEF Recorded, Present, Absent
  <2>5. \A k : ~Owes(g[w], k)
    BY <2>0, <2>1 DEF Owes, Owing
  <2> QED
    BY <2>0, <1>1, <1>2, <2>1, <2>3, <2>4, <2>5, RecordedAt
<1>11. CASE SetPid(w)
  <2>0. PICK i \in RunId : i = g[w].id
    BY <1>11, LocalFacts, PCs DEF SetPid, At
  <2>1. /\ g[w].pc = "setpid" /\ journal' = journal
        /\ Update(i, [store[i] EXCEPT !.pid = TRUE])
    BY <2>0, <1>11, LocalFacts, PCs DEF SetPid, At
  <2>2. /\ g'[w].pc = "journalpid" /\ g'[w].id = i
        /\ g'[w].rec = [g[w].rec EXCEPT !.pid = TRUE]
    BY <2>0, <1>11, SpawnFacts
  <2>3. Present(i) => g[w].rec = store[i]
    BY <2>0, <1>2, <2>1 DEF CopyFor, Spawns, SpawnPC
  <2>4. Present(i)' => Present(i) /\ store'[i] = [store[i] EXCEPT !.pid = TRUE]
    BY <2>0, <1>1, <2>1 DEF Update, Present
  <2>5. CopyFor(g[w])'
    BY <2>0, <2>2, <2>3, <2>4 DEF CopyFor
  <2>6. Owes(g'[w], i)
    BY <2>0, <2>2 DEF Owes, Owing
  <2>7. \A k : ~Owes(g[w], k)
    BY <2>0, <2>1 DEF Owes, Owing
  <2>8. \A k \in RunId \ {i} : store'[k] = store[k]
    BY <2>0, <1>1, <2>1 DEF Update
  <2> QED
    BY <2>0, <1>1, <1>2, <2>1, <2>5, <2>6, <2>7, <2>8, RecordedAt
<1>12. CASE JournalPid(w)
  <2>0. PICK i \in RunId : i = g[w].id
    BY <1>12, LocalFacts, PCs DEF JournalPid, At
  <2>1. /\ g[w].pc = "journalpid" /\ store' = store
        /\ journal' = [journal EXCEPT ![i] = Durable(g[w].rec)]
    BY <2>0, <1>12, LocalFacts, PCs DEF JournalPid, At
  <2>2. g'[w] = Idle \/ Moves(w, "record")
    BY <2>0, <1>12, SpawnFacts
  <2>3. CopyFor(g[w])'
    BY <2>0, <2>2 DEF CopyFor, Spawns, SpawnPC, Moves, Idle
  <2>4. Present(i) => g[w].rec = store[i]
    BY <2>0, <1>2, <2>1 DEF CopyFor, Spawns, SpawnPC
  <2>5. Recorded(i)'
    BY <2>0, <1>1, <2>1, <2>4 DEF Recorded, Present
  <2>6. \A k \in RunId \ {i} : ~Owes(g[w], k)
    BY <2>0 DEF Owes
  <2> QED
    BY <2>0, <1>1, <1>4, <2>1, <2>3, <2>5, <2>6, RecordedAt
<1>13. CASE RecordIdem(w)
  <2>1. g'[w] = Idle
    BY <1>13, SpawnFacts
  <2>2. CopyFor(g[w])'
    BY <2>1 DEF CopyFor, Spawns, SpawnPC, Idle
  <2> QED
    BY <1>13, <2>2, RecordedOn DEF RecordIdem, At, Owing
<1> QED
  BY <1>5, <1>6, <1>7, <1>8, <1>9, <1>10, <1>11, <1>12, <1>13

LEMMA RecordedRest ==
  ASSUME TypeInv, RecordInv, OneAtATime, "rewrite" \notin Faults,
         NEW w \in Worker,
         Snap(w) \/ Write(w) \/ GetFinalized(w)
  PROVE  RecordInv'
<1>1. /\ g[w] \in Local /\ g \in [Worker -> SoundLocal] /\ g[w].rec \in Run
      /\ store \in [RunId -> Run] /\ journal \in [RunId -> Run]
  BY LocalFacts DEF TypeInv, TypeOK
<1>2. CopyFor(g[w]) /\ \A j \in RunId : journal[j] = Durable(journal[j])
  BY DEF RecordInv
<1>3. PICK i \in RunId : i = g[w].id
  BY LocalFacts, PCs DEF Snap, Write, GetFinalized, At
<1>4. \A k \in RunId \ {i} : ~Owes(g[w], k)
  BY <1>3 DEF Owes
<1>5. g[w].next \notin Owing /\ g[w].next # "write" /\ g[w].next \notin SpawnPC
  BY <1>1 DEF Local, AfterJournal, Owing, SpawnPC
<1>6. CASE Snap(w)
  <2>1. store' = store /\ journal' = journal
    BY <1>6 DEF Snap
  <2>2. CASE /\ store[g[w].id].status = "absent"
             /\ g'[w] = Idle \/ Moves(w, g[w].next)
    <3>1. CopyFor(g[w])'
      BY <1>5, <2>2 DEF CopyFor, Spawns, SpawnPC, Moves, Idle
    <3>2. Recorded(i)'
      BY <1>3, <2>1, <2>2 DEF Recorded, Present
    <3> QED
      BY <1>2, <1>4, <2>1, <3>1, <3>2, RecordedAt
  <2>3. CASE /\ g'[w].pc = "write" /\ g'[w].id = g[w].id
             /\ g'[w].rec = store[g[w].id]
    <3>1. CopyFor(g[w])'
      BY <2>1, <2>3 DEF CopyFor, Spawns, SpawnPC
    <3>2. Owes(g'[w], i)
      BY <1>3, <2>3 DEF Owes, Owing
    <3> QED
      BY <1>2, <1>4, <2>1, <3>1, <3>2, RecordedAt
  <2> QED
    BY <1>6, <2>2, <2>3, WriteFacts
<1>7. CASE Write(w)
  <2>1. /\ store' = store /\ g[w].pc = "write"
        /\ journal' = [journal EXCEPT ![i] = Durable(g[w].rec)]
    BY <1>3, <1>7 DEF Write, At
  <2>2. g'[w] = Idle \/ Moves(w, g[w].next)
    BY <1>7, WriteFacts
  <2>3. CopyFor(g[w])'
    BY <1>5, <2>2 DEF CopyFor, Spawns, SpawnPC, Moves, Idle
  <2>4. Recorded(i)'
    BY <1>1, <1>2, <1>3, <2>1 DEF CopyFor, Recorded, Present
  <2>5. Durable(Durable(g[w].rec)) = Durable(g[w].rec)
    BY <1>1, DurableFacts
  <2> QED
    BY <1>1, <1>4, <2>1, <2>3, <2>4, <2>5, RecordedAt
<1>8. CASE GetFinalized(w)
  <2>1. store' = store /\ journal' = journal
    BY <1>8 DEF GetFinalized
  <2>2. /\ g'[w].pc = "write" /\ g'[w].id = g[w].id
        /\ g'[w].rec = store[g[w].id]
    BY <1>8, WriteFacts
  <2>3. CopyFor(g[w])'
    BY <2>1, <2>2 DEF CopyFor, Spawns, SpawnPC
  <2>4. Owes(g'[w], i)
    BY <1>3, <2>2 DEF Owes, Owing
  <2> QED
    BY <1>2, <1>4, <2>1, <2>3, <2>4, RecordedAt
<1> QED
  BY <1>6, <1>7, <1>8

(* A goroutine changes a run that it then owes a record, or nothing        *)
(* durable of it.                                                          *)
LEMMA RecordedChange ==
  ASSUME TypeInv, RecordInv, OneAtATime, NEW w \in Worker, NEW i \in RunId,
         g[w].pc \notin Owing \/ g[w].id = i,
         journal' = journal, g'[w].pc \notin SpawnPC \cup {"write"},
         \A j \in RunId \ {i} : store'[j] = store[j],
         \/ Owes(g'[w], i)
         \/ /\ g[w].pc \notin Owing
            /\ store'[i].status = store[i].status
            /\ Present(i) => Durable(store'[i]) = Durable(store[i])
  PROVE  RecordInv'
<1>1. \A j \in RunId \ {i} : ~Owes(g[w], j)
  BY DEF Owes
<1>2. CopyFor(g[w])'
  BY DEF CopyFor, Spawns
<1>3. Recorded(i) \/ Owes(g[w], i)
  BY DEF RecordInv, OneAtATime
<1>4. Recorded(i)' \/ Owes(g'[w], i)
  BY <1>3 DEF Recorded, Present, Owes
<1>5. journal[i] = Durable(journal[i])
  BY DEF RecordInv
<1> QED
  BY <1>1, <1>2, <1>4, <1>5, RecordedAt

LEMMA RecordedEnds ==
  ASSUME TypeInv, RecordInv, OneAtATime, NEW w \in Worker,
         \/ Finalize(w) \/ ClaimPush(w) \/ StartPush(w) \/ PlanResume(w)
         \/ ScheduleResume(w) \/ EndFinalizing(w)
  PROVE  RecordInv'
<1>1. /\ g[w] \in Local /\ g \in [Worker -> SoundLocal]
      /\ store \in [RunId -> Run]
  BY LocalFacts DEF TypeInv, TypeOK
<1>2. PICK i \in RunId : i = g[w].id
  BY LocalFacts, PCs
  DEF Finalize, ClaimPush, StartPush, PlanResume, ScheduleResume,
      EndFinalizing, At
<1>3. /\ journal' = journal
      /\ g[w].pc \in {"finalize", "push", "pushgo", "plan", "schedule", "end"}
  BY DEF Finalize, ClaimPush, StartPush, PlanResume, ScheduleResume,
         EndFinalizing, At
<1>4. g[w].pc \notin Owing
  BY <1>3 DEF Owing
<1>5. CASE Finalize(w)
  <2>1. PICK ok \in BOOLEAN : Update(i, Finalized(store[i], ok))
    BY <1>2, <1>5 DEF Finalize
  <2>2. \A j \in RunId \ {i} : store'[j] = store[j]
    BY <1>1, <2>1 DEF Update
  <2>3. CASE Moves(w, "get")
    BY <1>2, <1>3, <1>4, <2>2, <2>3, RecordedChange
    DEF Moves, Owes, Owing, SpawnPC
  <2>4. CASE Moves(w, "end") /\ ~Running(g[w].id)
    <3>1. store' = store
      BY <1>1, <1>2, <2>1, <2>4 DEF Update, Finalized, Running
    <3> QED
      BY <1>3, <1>4, <2>4, <3>1, RecordedChange DEF Moves, SpawnPC
  <2> QED
    BY <1>5, <2>3, <2>4, EndFacts
<1>6. CASE ClaimPush(w)
  <2>1. \A j \in RunId \ {i} : store'[j] = store[j]
    BY <1>1, <1>2, <1>6 DEF ClaimPush, Update
  <2>2. CASE Rejournals(w, "pushgo")
    BY <1>2, <1>3, <1>4, <2>1, <2>2, RecordedChange
    DEF Rejournals, Moves, Owes, Owing, SpawnPC
  <2>3. CASE Moves(w, "plan") /\ store' = store
    BY <1>3, <1>4, <2>3, RecordedChange DEF Moves, SpawnPC
  <2> QED
    BY <1>6, <2>2, <2>3, EndFacts
<1>7. CASE StartPush(w) \/ PlanResume(w)
  <2>1. store' = store
    BY <1>7 DEF StartPush, PlanResume
  <2>2. g'[w].pc \in {"plan", "schedule", "end"}
    BY <1>7, EndFacts DEF Moves, Plans
  <2> QED
    BY <1>3, <1>4, <2>1, <2>2, RecordedChange DEF SpawnPC
<1>8. CASE ScheduleResume(w)
  <2>1. \A j \in RunId \ {i} : store'[j] = store[j]
    BY <1>1, <1>2, <1>8 DEF ScheduleResume, Update
  <2>2. CASE Rejournals(w, "end")
    BY <1>2, <1>3, <1>4, <2>1, <2>2, RecordedChange
    DEF Rejournals, Moves, Owes, Owing, SpawnPC
  <2>3. CASE Moves(w, "end") /\ store' = store
    BY <1>3, <1>4, <2>3, RecordedChange DEF Moves, SpawnPC
  <2> QED
    BY <1>8, <2>2, <2>3, EndFacts
<1>9. CASE EndFinalizing(w)
  <2>1. Update(i, [store[i] EXCEPT !.finalizing = FALSE])
    BY <1>2, <1>9 DEF EndFinalizing
  <2>2. /\ Durable([store[i] EXCEPT !.finalizing = FALSE]) = Durable(store[i])
        /\ [store[i] EXCEPT !.finalizing = FALSE].status = store[i].status
    BY <1>1, DurableFacts DEF Run
  <2>3. /\ \A j \in RunId \ {i} : store'[j] = store[j]
        /\ store'[i].status = store[i].status
        /\ Present(i) => Durable(store'[i]) = Durable(store[i])
    BY <1>1, <2>1, <2>2 DEF Update
  <2>4. g'[w] = Idle
    BY <1>9, EndFacts
  <2> QED
    BY <1>3, <1>4, <2>3, <2>4, RecordedChange DEF Idle, SpawnPC
<1> QED
  BY <1>5, <1>6, <1>7, <1>8, <1>9

LEMMA RecordedFires ==
  ASSUME TypeInv, RecordInv, OneAtATime, NEW w \in Worker,
         \/ BuildSuccessor(w) \/ Rearm(w)
         \/ \E i \in RunId : TakeResume(w, i)
  PROVE  RecordInv'
<1>1. store \in [RunId -> Run]
  BY DEF TypeInv, TypeOK
<1>2. CASE BuildSuccessor(w)
  <2>1. g'[w] = Idle \/ g'[w].pc = "reserve"
    BY <1>2, FireFacts
  <2>2. CopyFor(g[w])'
    BY <2>1 DEF CopyFor, Spawns, SpawnPC, Idle
  <2> QED
    BY <1>2, <2>2, RecordedOn DEF BuildSuccessor, At, Owing
<1>3. CASE Rearm(w)
  <2>1. PICK i \in RunId : i = g[w].pred
    BY <1>3, LocalFacts DEF Rearm
  <2>2. g[w].pc = "rearm" /\ journal' = journal
    BY <1>3 DEF Rearm, At
  <2>3. \A j \in RunId \ {i} : store'[j] = store[j]
    BY <1>1, <1>3, <2>1 DEF Rearm, Update
  <2>4. g'[w].pc = "snap" /\ g'[w].id = i
    BY <1>3, <2>1, FireFacts
  <2> QED
    BY <2>2, <2>3, <2>4, RecordedChange DEF Owes, Owing, SpawnPC
<1>4. ASSUME NEW i \in RunId, TakeResume(w, i) PROVE RecordInv'
  <2>1. /\ g[w].pc = "idle" /\ journal' = journal
        /\ \A j \in RunId \ {i} : store'[j] = store[j]
    BY <1>1, <1>4 DEF TakeResume, At
  <2>2. g'[w].pc = "snap" /\ g'[w].id = i
    BY <1>4, FireFacts
  <2> QED
    BY <2>1, <2>2, RecordedChange DEF Owes, Owing, SpawnPC
<1> QED
  BY <1>2, <1>3, <1>4

LEMMA RecordedStops ==
  ASSUME TypeInv, RecordInv, OneAtATime, NEW w \in Worker,
         \/ StopMark(w) \/ StopSignal(w) \/ StopFinalize(w) \/ StopCancel(w)
         \/ \E i \in RunId : StopBegin(w, i)
  PROVE  RecordInv'
<1>1. store \in [RunId -> Run]
  BY DEF TypeInv, TypeOK
<1>2. CASE \E i \in RunId : StopBegin(w, i)
  <2>1. g'[w].pc \in {"stopmark", "stopcancel"}
    BY <1>2, StopFacts
  <2>2. CopyFor(g[w])'
    BY <2>1 DEF CopyFor, Spawns, SpawnPC
  <2> QED
    BY <1>2, <2>2, RecordedOn DEF StopBegin, At, Owing
<1>3. CASE StopMark(w) \/ StopSignal(w) \/ StopFinalize(w) \/ StopCancel(w)
  <2>1. PICK i \in RunId : i = g[w].id
    BY <1>3, LocalFacts, PCs
    DEF StopMark, StopSignal, StopFinalize, StopCancel, At
  <2>2. journal' = journal
    BY <1>3 DEF StopMark, StopSignal, StopFinalize, StopCancel
  <2>3. \A j \in RunId \ {i} : store'[j] = store[j]
    BY <1>1, <1>3, <2>1
    DEF StopMark, StopSignal, StopFinalize, StopCancel, Cancelled, Update
  <2>4. /\ g'[w].pc \in {"stopsignal", "stopfinalize", "snap"}
        /\ g'[w].id = i
    BY <1>3, <2>1, StopFacts DEF Moves, Rejournals
  <2> QED
    BY <2>1, <2>2, <2>3, <2>4, RecordedChange DEF Owes, Owing, SpawnPC
<1> QED
  BY <1>2, <1>3

LEMMA RecordedStarts ==
  ASSUME TypeInv, LaneInv, RecordInv, OneAtATime, NEW w \in Worker,
         Posts(w) \/ \E i \in RunId : ObserveExit(w, i) \/ RouteSurvivor(w, i)
  PROVE  RecordInv'
<1>1. store \in [RunId -> Run] /\ g[w].pc = "idle" /\ g[w] = Idle
  BY DrawnIds DEF TypeInv, TypeOK, Posts, PostBuild, ObserveExit,
                  RouteSurvivor, At
<1>2. CASE Posts(w)
  <2>1. store' = store /\ journal' = journal /\ g'[w].pc = "reserve"
    BY <1>1, <1>2, StartFacts DEF Posts, PostBuild
  <2>2. CopyFor(g[w])'
    BY <2>1 DEF CopyFor, Spawns, SpawnPC
  <2> QED
    BY <1>1, <2>1, <2>2, RecordedOn DEF Owing
<1>3. ASSUME NEW i \in RunId, ObserveExit(w, i) \/ RouteSurvivor(w, i)
      PROVE  RecordInv'
  <2>1. journal' = journal
    BY <1>3 DEF ObserveExit, RouteSurvivor
  <2>2. CASE /\ store' = [store EXCEPT ![i] = Hidden(@)]
             /\ g'[w].pc = "finalize"
    <3>1. /\ Durable(Hidden(store[i])) = Durable(store[i])
          /\ Hidden(store[i]).status = store[i].status
      BY <1>1, DurableFacts DEF Hidden, Run
    <3>2. /\ \A j \in RunId \ {i} : store'[j] = store[j]
          /\ store'[i].status = store[i].status
          /\ Durable(store'[i]) = Durable(store[i])
      BY <1>1, <2>2, <3>1
    <3> QED
      BY <1>1, <2>1, <2>2, <3>2, RecordedChange DEF Owing, SpawnPC
  <2>3. CASE store' = store /\ g'[w] = g[w]
    <3>1. CopyFor(g[w])'
      BY <1>1, <2>3 DEF CopyFor, Spawns, SpawnPC
    <3> QED
      BY <1>1, <2>1, <2>3, <3>1, RecordedOn DEF Owing
  <2> QED
    BY <1>1, <1>3, <2>2, <2>3, StartFacts
<1> QED
  BY <1>2, <1>3

LEMMA RecordKept ==
  ASSUME OneAtATime, "rewrite" \notin Faults,
         TypeInv, LaneInv, RecordInv, [Next]_vars
  PROVE  RecordInv'
<1>1. CASE \E w \in Worker : Acts(w)
  <2>1. PICK w \in Worker : Acts(w)
    BY <1>1
  <2>2. Step(w) => RecordInv'
    BY RecordedSpawn, RecordedRest, RecordedEnds, RecordedFires,
       RecordedStops DEF Step
  <2>3. Request(w) => RecordInv'
    BY RecordedStarts, RecordedStops DEF Request, Posts
  <2>4. (\E i \in RunId : ObserveExit(w, i) \/ TakeResume(w, i)
                           \/ RouteSurvivor(w, i)) => RecordInv'
    BY RecordedStarts, RecordedFires
  <2> QED
    BY <2>1, <2>2, <2>3, <2>4 DEF Acts
<1>2. CASE Crash
  <2>1. /\ \A i \in RunId : store'[i] = Absent
        /\ \A w \in Worker : g'[w] = Idle
        /\ \A i \in RunId : journal'[i] \in {journal[i], Absent}
    BY <1>2 DEF Crash
  <2>2. \A w \in Worker : CopyFor(g[w])'
    BY <2>1 DEF CopyFor, Spawns, SpawnPC, Idle
  <2>3. \A i \in RunId : Recorded(i)'
    BY <2>1 DEF Recorded, Present, Absent
  <2>4. \A i \in RunId : journal'[i] = Durable(journal'[i])
    BY <2>1, DurableFacts DEF RecordInv
  <2> QED
    BY <2>2, <2>3, <2>4 DEF RecordInv
<1>3. CASE Boot
  <2>1. store' = journal /\ journal' = journal /\ \A w \in Worker : g'[w] = Idle
    BY <1>3, DrawnIds DEF Boot
  <2>2. \A w \in Worker : CopyFor(g[w])'
    BY <2>1 DEF CopyFor, Spawns, SpawnPC, Idle
  <2> QED
    BY <2>1, <2>2 DEF RecordInv, Recorded
<1>4. CASE Serve \/ UNCHANGED vars \/ \E i \in RunId : ChildExits(i)
  <2>1. store' = store /\ journal' = journal /\ g' = g
    BY <1>4 DEF Serve, ChildExits, vars
  <2> QED
    BY <2>1 DEF RecordInv, Recorded, CopyFor, Present, Owes, Spawns
<1> QED
  BY <1>1, <1>2, <1>3, <1>4 DEF Next, Acts

(* With one goroutine at a time and journal writes that succeed, whenever  *)
(* the backend rests the journal holds what a restart needs of every run   *)
(* in the store, whatever requests, stops, resumes, failing spawns and     *)
(* crashes led there: rejournal follows every durable change.              *)
THEOREM RestsRecorded ==
  ASSUME OneAtATime, "rewrite" \notin Faults PROVE Spec => []JournalCurrent
<1>1. Init => RecordInv
  <2>1. SUFFICES ASSUME Init PROVE RecordInv
    OBVIOUS
  <2>2. /\ \A i \in RunId : store[i] = Absent /\ journal[i] = Absent
        /\ \A w \in Worker : g[w] = Idle
    BY <2>1 DEF Init
  <2>3. \A w \in Worker : CopyFor(g[w])
    BY <2>2 DEF CopyFor, Spawns, SpawnPC, Idle
  <2>4. \A i \in RunId : Recorded(i)
    BY <2>2 DEF Recorded, Present, Absent
  <2> QED
    BY <2>2, <2>3, <2>4, DurableFacts DEF RecordInv
<1>2. TypeInv /\ LaneInv /\ RecordInv /\ [Next]_vars => RecordInv'
  BY RecordKept
<1>3. RecordInv => JournalCurrent
  BY DEF RecordInv, JournalCurrent, Quiet, At, Owes, Owing, Recorded, Present
<1> QED
  BY <1>1, <1>2, <1>3, InitType, NextType, InitLane, NextLane, PTL DEF Spec

-----------------------------------------------------------------------------
(* The originals of an idempotency key.                                    *)

Kept(i) == journal[i].status # "absent"

(* A launched original that a boot would find, and a key that the backend  *)
(* maps to one.                                                            *)
Original(i, key) ==
  /\ launched[i] # <<>> /\ Kept(i)
  /\ journal[i].key = key /\ journal[i].count = 0
Rooted(key) ==
  /\ idem[key] # NoRun
  /\ Present(idem[key]) /\ store[idem[key]].count = 0

(* The goroutine serves a request, not a resume.                           *)
Asks(l) == l.pc \in Spawning /\ l.pred = NoRun

KeyFor(l) ==
  /\ l.pc \in SpawnPC \cup {"record", "get", "write"} => Present(l.id)
  /\ l.pc = "write" \/ Spawns(l) => l.rec.status # "absent"
  /\ Asks(l) => l.rec.count = 0
  /\ l.pc = "record" => Asks(l)
  /\ l.pc \in ReservedPC =>
       IF l.pred = NoRun
       THEN launched[l.id] = <<>> /\ \A key \in IdemKey : idem[key] # l.id
       ELSE l.rec.count > 0
  /\ Asks(l) /\ l.rec.key # NoKey =>
       \A i \in RunId : Original(i, l.rec.key) =>
         i = l.id /\ l.pc \in {"setpid", "journalpid", "record"}

(* A stored run is in the journal too, and a drawn id was never launched   *)
(* before it was drawn.                                                    *)
KeyInv ==
  /\ \A w \in Worker : KeyFor(g[w])
  /\ \A i \in RunId :
       /\ Present(i) =>
            Kept(i) \/ \E w \in Worker : g[w].pc = "journal" /\ g[w].id = i
       /\ i >= nextId => launched[i] = <<>>
  /\ \A key \in IdemKey :
       /\ idem[key] = NoRun \/ Drawn(nextId, idem[key])
       /\ key # NoKey =>
            /\ \A i, j \in RunId : Original(i, key) /\ Original(j, key) => i = j
            /\ phase # "down" =>
                 \A i \in RunId : Original(i, key) =>
                   \/ Rooted(key)
                   \/ \E w \in Worker : Asks(g[w]) /\ g[w].rec.key = key

(* Where a stored entry may appear, change its place or go.                *)
LEMMA EntryFrom ==
  ASSUME TypeInv, [Next]_vars, NEW i \in RunId
  PROVE  \/ /\ store'[i].status # "absent" <=> Present(i)
            /\ store'[i].count = store[i].count
         \/ Crash
         \/ Boot
         \/ \E w \in Worker :
              /\ Reserve(w) /\ store'[i] = g[w].rec /\ g[w].pc = "reserve"
              /\ i = IF g[w].pred = NoRun THEN nextId ELSE g[w].id
         \/ \E w \in Worker :
              /\ JournalRun(w) \/ SpawnError(w)
              /\ g[w].pc \in {"journal", "spawn"} /\ i = g[w].id
              /\ store'[i] = Absent
<1>1. store \in [RunId -> Run]
  BY DEF TypeInv, TypeOK
<1>2. ASSUME NEW w \in Worker, Reserve(w), store'[i] # store[i]
      PROVE  /\ store'[i] = g[w].rec /\ g[w].pc = "reserve"
             /\ i = IF g[w].pred = NoRun THEN nextId ELSE g[w].id
  BY <1>1, <1>2 DEF Reserve, At
<1>3. ASSUME NEW k \in RunId, NEW r, Change(k, r),
             store' = [store EXCEPT ![k] = r]
      PROVE  \/ /\ store'[i].status # "absent" <=> Present(i)
                /\ store'[i].count = store[i].count
             \/ \E w \in Worker :
                  /\ JournalRun(w) \/ SpawnError(w)
                  /\ g[w].pc \in {"journal", "spawn"} /\ i = g[w].id
                  /\ store'[i] = Absent
  <2>1. CASE i # k
    BY <1>1, <1>3, <2>1 DEF Present
  <2>2. CASE i = k
    <3>1. store'[i] = r /\ store[i] \in Run
      BY <1>1, <1>3, <2>2
    <3>2. CASE Present(i) /\ r \in Revised(store[i])
      <4>1. r.count = store[i].count
        BY <3>1, <3>2 DEF Revised, Run, Finalized, Hidden
      <4>2. r.status # "absent"
        BY <3>1, <3>2 DEF Revised, Run, Finalized, Hidden, Present
      <4> QED
        BY <3>1, <3>2, <4>1, <4>2
    <3>3. ASSUME NEW p, r = [store[i] EXCEPT !.pending = p]
          PROVE  r.status = store[i].status /\ r.count = store[i].count
      BY <3>1, <3>3 DEF Run
    <3> QED
      BY <1>3, <2>2, <3>1, <3>2, <3>3 DEF Change, Present, Taken
  <2> QED
    BY <2>1, <2>2
<1>4. StoreStep
  BY NextStores
<1>5. CASE \E w \in Worker : Reserve(w)
  BY <1>2, <1>5 DEF Present
<1> QED
  BY <1>3, <1>4, <1>5 DEF StoreStep, Present

(* The journal takes up a run when its spawn begins; later records of it   *)
(* keep its key and count.                                                 *)
LEMMA KeptFrom ==
  ASSUME TypeInv, LaneInv, KeyInv, OneAtATime, [Next]_vars, NEW i \in RunId,
         Kept(i)'
  PROVE  \/ /\ Kept(i) /\ journal'[i].key = journal[i].key
            /\ journal'[i].count = journal[i].count
         \/ \E w \in Worker : /\ JournalRun(w) /\ g[w].pc = "journal"
                              /\ i = g[w].id
                              /\ journal'[i] = Durable(g[w].rec)
<1>1. CASE journal'[i] \in {journal[i], Absent}
  BY <1>1 DEF Kept, Absent
<1>2. ASSUME NEW w \in Worker, g[w].pc \in {"write", "journalpid"}, i = g[w].id,
             journal'[i] = Durable(g[w].rec)
      PROVE  /\ Kept(i) /\ journal'[i].key = journal[i].key
             /\ journal'[i].count = journal[i].count
  <2>1. PICK f : Consistent(nextId, f)
    BY DEF LaneInv
  <2>2. Present(i) /\ g[w].rec.status # "absent" /\ g[w].rec \in Run
    BY <1>2, LocalFacts DEF KeyInv, KeyFor, Spawns, SpawnPC
  <2>3. PlacedAt(f[i], g[w].rec)
    BY <1>2, <2>1, <2>2 DEF Consistent, Carried, InPlace, Absent
  <2>4. Kept(i)
    BY <1>2, <2>2 DEF KeyInv, OneAtATime
  <2>5. PlacedAt(f[i], journal[i])
    BY <2>1, <2>4 DEF Consistent, InPlace, Kept, Absent
  <2>6. journal'[i].key = g[w].rec.key /\ journal'[i].count = g[w].rec.count
    BY <1>2, <2>2 DEF Durable, Run
  <2> QED
    BY <2>3, <2>4, <2>5, <2>6 DEF PlacedAt
<1>3. ASSUME NEW w \in Worker, Write(w) \/ JournalPid(w)
      PROVE  g[w].pc \in {"write", "journalpid"}
  BY <1>3 DEF Write, JournalPid, At
<1>4. ASSUME NEW w \in Worker, JournalRun(w)
      PROVE  g[w].pc = "journal"
  BY <1>4 DEF JournalRun, At
<1> QED
  BY <1>1, <1>2, <1>3, <1>4, NextJournals DEF JournalStep

(* Only the spawn for a request makes an original.                         *)
LEMMA OriginalFrom ==
  ASSUME TypeInv, LaneInv, KeyInv, OneAtATime, [Next]_vars,
         NEW i \in RunId, NEW key, Original(i, key)'
  PROVE  \/ Original(i, key)
         \/ \E w \in Worker : /\ SpawnChild(w) /\ g[w].pc = "spawn"
                              /\ g[w].id = i /\ g[w].pred = NoRun
                              /\ g[w].rec.key = key
<1>1. /\ Kept(i)' /\ journal'[i].key = key /\ journal'[i].count = 0
      /\ launched'[i] # <<>>
  BY DEF Original, Kept
<1>2. ASSUME NEW w \in Worker, JournalRun(w), g[w].pc = "journal", i = g[w].id,
             journal'[i] = Durable(g[w].rec)
      PROVE  FALSE
  <2>1. launched' = launched
    BY <1>2 DEF JournalRun
  <2>2. g[w].rec.count = 0
    <3>1. g[w].rec \in Run
      BY LocalFacts
    <3> QED
      BY <1>1, <1>2, <3>1 DEF Durable, Run
  <2>3. launched[i] = <<>>
    BY <1>2, <2>2 DEF KeyInv, KeyFor, ReservedPC
  <2> QED
    BY <1>1, <2>1, <2>3
<1>3. /\ Kept(i) /\ journal[i].key = key /\ journal[i].count = 0
  BY <1>1, <1>2, KeptFrom
<1>4. CASE launched[i] # <<>>
  BY <1>3, <1>4 DEF Original
<1>5. CASE launched[i] = <<>>
  <2>1. PICK w \in Worker : SpawnChild(w)
    BY <1>1, <1>5, LaunchesStay
  <2>2. g[w].id = i /\ g[w].pc = "spawn"
    BY <1>1, <1>5, <2>1 DEF SpawnChild, At, TypeInv, TypeOK
  <2>3. PICK f : Consistent(nextId, f)
    BY DEF LaneInv
  <2>4. PlacedAt(f[i], g[w].rec)
    BY <2>2, <2>3 DEF Consistent, Carried, InPlace
  <2>5. PlacedAt(f[i], journal[i])
    BY <1>3, <2>3 DEF Consistent, InPlace, Kept, Absent
  <2>6. g[w].rec.key = key /\ g[w].rec.count = 0
    BY <1>3, <2>4, <2>5 DEF PlacedAt
  <2>7. g[w].pred = NoRun
    BY <2>2, <2>6 DEF KeyInv, KeyFor, ReservedPC
  <2> QED
    BY <2>1, <2>2, <2>6, <2>7
<1> QED
  BY <1>4, <1>5

LEMMA IdsGrow ==
  ASSUME TypeInv, LaneInv, [Next]_vars
  PROVE  nextId \in Nat /\ nextId' \in Nat /\ nextId' >= nextId
<1>1. nextId \in Nat /\ nextId' \in Nat
  BY NextType DEF TypeInv, TypeOK
<1>2. nextId' \in {nextId, nextId + 1}
  BY IdsStay, SpawnFacts, EndFacts DEF Plans
<1> QED
  BY <1>1, <1>2

(* The goroutine at one of these points takes this step next.              *)
LEMMA NextOf ==
  ASSUME NEW w \in Worker, Acts(w)
  PROVE  /\ g[w].pc = "journal" => JournalRun(w)
         /\ g[w].pc = "spawn" => SpawnChild(w) \/ SpawnError(w)
         /\ g[w].pc = "setpid" => SetPid(w)
         /\ g[w].pc = "journalpid" => JournalPid(w)
         /\ g[w].pc = "record" => RecordIdem(w)
BY DEF Acts, Request, PostBuild, StopBegin, ObserveExit, TakeResume,
       RouteSurvivor, Step, Snap, Write, Unwritable, Adopt, Reserve,
       JournalRun, SpawnChild, SpawnError, SetPid, JournalPid, RecordIdem,
       Finalize, GetFinalized, ClaimPush, StartPush, PlanResume,
       ScheduleResume, EndFinalizing, BuildSuccessor, Rearm, StopMark,
       StopSignal, StopFinalize, StopCancel, At

(* A stored run is in the journal.                                         *)
LEMMA StoredKept ==
  ASSUME TypeInv, LaneInv, KeyInv, OneAtATime, [Next]_vars, NEW i \in RunId,
         Present(i)'
  PROVE  Kept(i)' \/ \E w \in Worker : g'[w].pc = "journal" /\ g'[w].id = i
<1>1. store'[i].status # "absent" /\ ~Crash
  BY DEF Present, Crash, Absent
<1>2. CASE Boot
  BY <1>1, <1>2 DEF Boot, Kept
<1>3. CASE \E w \in Worker : /\ Reserve(w)
                             /\ i = IF g[w].pred = NoRun THEN nextId ELSE g[w].id
  BY <1>3, SpawnFacts
<1>4. CASE Present(i)
  <2>1. CASE Kept(i)
    <3>1. CASE journal'[i] = journal[i]
      BY <2>1, <3>1 DEF Kept
    <3>2. ASSUME NEW w \in Worker, i = g[w].id,
                 g[w].pc \in {"write", "journal", "journalpid"},
                 journal'[i] = Durable(g[w].rec)
          PROVE  Kept(i)'
      <4>1. g[w].rec.status # "absent" /\ g[w].rec \in Run
        BY <3>2, LocalFacts DEF KeyInv, KeyFor, Spawns, SpawnPC
      <4> QED
        BY <3>2, <4>1 DEF Durable, Run, Kept
    <3> QED
      BY <1>1, <3>1, <3>2, NextJournals DEF JournalStep
  <2>2. ASSUME NEW w \in Worker, g[w].pc = "journal", g[w].id = i
        PROVE  Kept(i)' \/ \E v \in Worker : g'[v].pc = "journal" /\ g'[v].id = i
    <3>1. CASE Acts(w)
      <4>1. JournalRun(w) /\ g[w].rec \in Run /\ g[w].rec.status # "absent"
        BY <2>2, <3>1, NextOf, LocalFacts DEF KeyInv, KeyFor, Spawns, SpawnPC
      <4>2. CASE journal' = [journal EXCEPT ![g[w].id] = Durable(g[w].rec)]
        <5>1. journal'[i] = Durable(g[w].rec)
          BY <2>2, <4>2 DEF TypeInv, TypeOK
        <5> QED
          BY <4>1, <5>1 DEF Durable, Run, Kept
      <4>3. CASE store' = [store EXCEPT ![g[w].id] = Absent]
        BY <1>1, <2>2, <4>3 DEF TypeInv, TypeOK, Absent
      <4> QED
        BY <4>1, <4>2, <4>3 DEF JournalRun
    <3>2. CASE ~Acts(w)
      <4>1. \A v \in Worker : ~Acts(v)
        BY <3>2 DEF OneAtATime
      <4>2. g' = g
        BY <1>1, <4>1, GoroutineSteps
      <4> QED
        BY <2>2, <4>2
    <3> QED
      BY <3>1, <3>2
  <2> QED
    BY <1>4, <2>1, <2>2 DEF KeyInv
<1> QED
  BY <1>1, <1>2, <1>3, <1>4, EntryFrom DEF Absent

LEMMA KeysStay ==
  ASSUME [Next]_vars, \A w \in Worker : ~RecordIdem(w), ~Boot, ~Crash
  PROVE  idem' = idem
<1>1. ASSUME NEW w \in Worker, Step(w) PROVE idem' = idem
  BY <1>1
  DEF Step, Snap, Write, Unwritable, Adopt, Reserve, JournalRun, SpawnChild,
      SpawnError, SetPid, JournalPid, Finalize, GetFinalized, ClaimPush,
      StartPush, PlanResume, ScheduleResume, EndFinalizing, BuildSuccessor,
      Rearm, StopMark, StopSignal, StopFinalize, StopCancel, control
<1>2. CASE ~(\E w \in Worker : Step(w))
  BY <1>2
  DEF Next, Request, PostBuild, StopBegin, ObserveExit, TakeResume,
      RouteSurvivor, ChildExits, Serve, vars, control
<1> QED
  BY <1>1, <1>2

(* A key maps to an id that was drawn.                                     *)
LEMMA KeysDrawn ==
  ASSUME TypeInv, LaneInv, KeyInv, [Next]_vars, NEW key \in IdemKey
  PROVE  idem'[key] = NoRun \/ Drawn(nextId', idem'[key])
<1>1. \A i : Drawn(nextId, i) => Drawn(nextId', i)
  BY IdsGrow DEF Drawn, RunId
<1>2. CASE idem' = idem
  BY <1>1, <1>2 DEF KeyInv
<1>3. ASSUME NEW w \in Worker, RecordIdem(w)
      PROVE  idem'[key] = NoRun \/ Drawn(nextId', idem'[key])
  <2>1. Drawn(nextId, g[w].id)
    BY <1>3, DrawnIds DEF RecordIdem, At
  <2>2. idem'[key] \in {idem[key], g[w].id}
    BY <1>3 DEF RecordIdem, TypeInv, TypeOK
  <2> QED
    BY <1>1, <2>1, <2>2 DEF KeyInv
<1>4. CASE Crash
  BY <1>4 DEF Crash
<1>5. CASE Boot
  <2>1. idem'[key] = NoRun \/ idem'[key] \in Originals(key)
    BY <1>5 DEF Boot
  <2>2. PICK f : Consistent(nextId, f)
    BY DEF LaneInv
  <2>3. \A i \in Originals(key) : Drawn(nextId, i)
    BY <2>2 DEF Originals, Consistent, InPlace, Absent
  <2> QED
    BY <1>1, <2>1, <2>3
<1> QED
  BY <1>2, <1>3, <1>4, <1>5, KeysStay

LEMMA OriginalsUnique ==
  ASSUME TypeInv, LaneInv, KeyInv, OneAtATime, [Next]_vars,
         NEW key \in IdemKey \ {NoKey}, NEW i \in RunId, NEW j \in RunId,
         Original(i, key)', Original(j, key)'
  PROVE  i = j
<1>1. ASSUME NEW w \in Worker, g[w].pc = "spawn", g[w].pred = NoRun,
             g[w].rec.key = key, NEW k \in RunId
      PROVE  ~Original(k, key)
  BY <1>1 DEF KeyInv, KeyFor, Asks, Spawning
<1>2. CASE Original(i, key) /\ Original(j, key)
  BY <1>2 DEF KeyInv
<1>3. CASE ~Original(i, key)
  <2>1. PICK w \in Worker : /\ g[w].pc = "spawn" /\ g[w].id = i
                            /\ g[w].pred = NoRun /\ g[w].rec.key = key
    BY <1>3, OriginalFrom
  <2>2. ~Original(j, key)
    BY <1>1, <2>1
  <2> QED
    BY <2>1, <2>2, OriginalFrom DEF OneAtATime
<1>4. CASE ~Original(j, key)
  <2>1. PICK w \in Worker : /\ g[w].pc = "spawn" /\ g[w].id = j
                            /\ g[w].pred = NoRun /\ g[w].rec.key = key
    BY <1>4, OriginalFrom
  <2>2. ~Original(i, key)
    BY <1>1, <2>1
  <2> QED
    BY <2>1, <2>2, OriginalFrom DEF OneAtATime
<1> QED
  BY <1>2, <1>3, <1>4

(* Neither a successor nor a failed spawn takes the original of a key.     *)
LEMMA RootStays ==
  ASSUME TypeInv, LaneInv, KeyInv, [Next]_vars, ~Crash, ~Boot,
         NEW key \in IdemKey, Rooted(key), idem'[key] = idem[key]
  PROVE  Rooted(key)'
<1>1. PICK m \in RunId : m = idem[key] /\ Drawn(nextId, m)
  BY DEF KeyInv, Rooted, Drawn
<1>2. PICK f : Consistent(nextId, f)
  BY DEF LaneInv
<1>3. f[m].count = 0 /\ Present(m) /\ store[m].count = 0
  BY <1>1, <1>2 DEF Rooted, Consistent, InPlace, PlacedAt, Present, Absent
<1>4. ASSUME NEW w \in Worker, g[w].pc = "reserve",
             m = IF g[w].pred = NoRun THEN nextId ELSE g[w].id
      PROVE  FALSE
  <2>1. g[w].pred # NoRun
    BY <1>1, <1>4 DEF Drawn, TypeInv, TypeOK
  <2>2. Heir(nextId, f, g[w].pred, g[w].res) /\ m = g[w].res.succ
    BY <1>2, <1>4, <2>1 DEF Consistent, Carried, Succeeds
  <2> QED
    BY <1>3, <2>2 DEF Heir
<1>5. ASSUME NEW w \in Worker, g[w].pc \in {"journal", "spawn"}, m = g[w].id
      PROVE  FALSE
  <2>1. KeyFor(g[w]) /\ g[w].pc \in ReservedPC
    BY <1>5 DEF KeyInv, ReservedPC
  <2>3. g[w].rec.count > 0
    BY <1>1, <1>5, <2>1 DEF KeyFor
  <2>2. PlacedAt(f[m], g[w].rec)
    BY <1>2, <1>5 DEF Consistent, Carried, InPlace
  <2> QED
    BY <1>3, <2>2, <2>3 DEF PlacedAt
<1>6. store'[m].status # "absent" /\ store'[m].count = 0
  BY <1>3, <1>4, <1>5, EntryFrom
<1> QED
  BY <1>1, <1>6, PCs DEF Rooted, Present

LEMMA KeyRooted ==
  ASSUME TypeInv, LaneInv, KeyInv, OneAtATime, [Next]_vars,
         NEW key \in IdemKey \ {NoKey}, NEW i \in RunId, Original(i, key)',
         phase' # "down"
  PROVE  \/ Rooted(key)'
         \/ \E w \in Worker : Asks(g'[w]) /\ g'[w].rec.key = key
<1>1. ~Crash
  BY DEF Crash
<1>2. CASE Boot
  <2>1. i \in Originals(key)
    BY <1>2 DEF Boot, Original, Originals, Kept, history
  <2>2. idem'[key] \in Originals(key) /\ store' = journal
    BY <1>2, <2>1 DEF Boot
  <2> QED
    BY <2>2, PCs DEF Rooted, Present, Originals
<1>3. CASE ~Boot
  <2>1. phase # "down"
    BY <1>1, <1>3, ActsUp, GoroutineSteps DEF Serve, ChildExits, control, vars
  <2>2. ASSUME NEW w \in Worker, SpawnChild(w), g[w].pred = NoRun,
               g[w].rec.key = key
        PROVE  Asks(g'[w]) /\ g'[w].rec.key = key
    BY <2>2, SpawnFacts DEF Asks, Moves, Spawning
  <2>3. ASSUME Original(i, key), NEW w \in Worker, Asks(g[w]),
               g[w].rec.key = key
        PROVE  \/ Rooted(key)'
               \/ Asks(g'[w]) /\ g'[w].rec.key = key
    <3>1. /\ i = g[w].id /\ g[w].pc \in {"setpid", "journalpid", "record"}
          /\ g[w] \in Local /\ g[w].rec \in Run
          /\ g \in [Worker -> SoundLocal]
      BY <2>3, LocalFacts DEF KeyInv, KeyFor, TypeInv
    <3>2. CASE ~Acts(w)
      <4>1. \A v \in Worker : ~Acts(v)
        BY <3>2 DEF OneAtATime
      <4>2. g' = g
        BY <1>1, <4>1, GoroutineSteps
      <4> QED
        BY <2>3, <4>2
    <3>3. CASE Acts(w) /\ g[w].pc = "setpid"
      <4>1. g' = [g EXCEPT ![w].pc = "journalpid", ![w].rec.pid = TRUE]
        BY <3>3, NextOf DEF SetPid
      <4>2. /\ g'[w].pc = "journalpid" /\ g'[w].pred = g[w].pred
            /\ g'[w].rec.key = g[w].rec.key
        BY <3>1, <4>1 DEF Local, Run
      <4> QED
        BY <2>3, <4>2 DEF Asks, Spawning
    <3>4. CASE Acts(w) /\ g[w].pc = "journalpid"
      <4>1. Goto(w, "record")
        BY <2>3, <3>4, NextOf DEF JournalPid, Asks
      <4>2. Moves(w, "record")
        BY <4>1, MoveFacts
      <4> QED
        BY <2>3, <4>2 DEF Moves, Asks, Spawning
    <3>5. CASE Acts(w) /\ g[w].pc = "record"
      <4>1. idem' = [idem EXCEPT ![key] = i] /\ store' = store
        BY <2>3, <3>1, <3>5, NextOf DEF RecordIdem
      <4>2. idem'[key] = i
        BY <4>1 DEF TypeInv, TypeOK
      <4>3. Present(i)
        BY <3>1, <3>5 DEF KeyInv, KeyFor
      <4>4. PICK f : Consistent(nextId, f)
        BY DEF LaneInv
      <4>5. store[i].count = 0
        BY <2>3, <4>3, <4>4
        DEF Original, Kept, Consistent, InPlace, PlacedAt, Present, Absent
      <4> QED
        BY <4>1, <4>2, <4>3, <4>5, PCs DEF Rooted, Present
    <3> QED
      BY <3>1, <3>2, <3>3, <3>4, <3>5
  <2>4. ASSUME Rooted(key), Original(i, key), idem'[key] # idem[key]
        PROVE  \E w \in Worker : Asks(g[w]) /\ g[w].rec.key = key
    <3>1. PICK w \in Worker : RecordIdem(w)
      BY <1>1, <1>3, <2>4, KeysStay
    <3>2. g[w].rec.key = key /\ g[w].pc = "record"
      BY <2>4, <3>1 DEF RecordIdem, At, TypeInv, TypeOK
    <3> QED
      BY <3>2 DEF KeyInv, KeyFor
  <2> QED
    BY <1>1, <1>3, <2>1, <2>2, <2>3, <2>4, OriginalFrom, RootStays DEF KeyInv
<1> QED
  BY <1>2, <1>3

(* What a goroutine must know, after its own step.                         *)
LEMMA KeyForOut ==
  ASSUME NEW w \in Worker,
         g'[w].pc \notin Spawning \cup {"get", "write"}
  PROVE  KeyFor(g[w])'
BY DEF KeyFor, Asks, Spawns, SpawnPC, Spawning, ReservedPC

LEMMA KeyForSpawn ==
  ASSUME TypeInv, LaneInv, KeyInv, OneAtATime, [Next]_vars, NEW w \in Worker,
         \/ Unwritable(w) \/ Adopt(w) \/ Reserve(w) \/ JournalRun(w)
         \/ SpawnChild(w) \/ SpawnError(w) \/ SetPid(w) \/ JournalPid(w)
         \/ RecordIdem(w)
  PROVE  KeyFor(g[w])'
<1>1. /\ g[w] \in Local /\ g \in [Worker -> SoundLocal] /\ g[w].rec \in Run
      /\ store \in [RunId -> Run] /\ nextId \in Nat
  BY LocalFacts DEF TypeInv, TypeOK
<1>2. KeyFor(g[w])
  BY DEF KeyInv
<1>3. ASSUME g'[w] = Idle PROVE KeyFor(g[w])'
  BY <1>3, KeyForOut DEF Idle, Spawning
<1>4. ASSUME Moves(w, "rearm") PROVE KeyFor(g[w])'
  BY <1>4, KeyForOut DEF Moves, Spawning
<1>5. ASSUME NEW i \in RunId, NEW key, Original(i, key)', g[w].pc # "spawn"
      PROVE  Original(i, key)
  BY <1>5, OriginalFrom DEF OneAtATime
<1>6. CASE Unwritable(w) \/ SpawnError(w) \/ RecordIdem(w)
  <2>1. g'[w] = Idle \/ Moves(w, "rearm")
    BY <1>6, SpawnFacts, MoveFacts DEF SpawnError
  <2> QED
    BY <1>3, <1>4, <2>1
<1>7. CASE Adopt(w)
  <2>1. store' = store /\ g[w].pc = "reserve"
    BY <1>7 DEF Adopt, At
  <2>2. CASE g'[w] # Idle
    <3>1. PICK i \in RunId : /\ g' = [g EXCEPT ![w].pc = "record", ![w].id = i]
                             /\ g[w].pred = NoRun /\ Running(i)
      BY <1>7, <2>2, MoveFacts DEF Adopt, Holders, Running
    <3>2. /\ g'[w].pc = "record" /\ g'[w].id = i
          /\ g'[w].pred = NoRun /\ g'[w].rec = g[w].rec
      BY <1>1, <3>1 DEF Local
    <3>3. Asks(g[w])
      BY <2>1, <3>1 DEF Asks, Spawning
    <3>4. \A j \in RunId : ~Original(j, g[w].rec.key) \/ g[w].rec.key = NoKey
      BY <1>2, <2>1, <3>3 DEF KeyFor
    <3>5. \A j \in RunId : Original(j, g[w].rec.key)' => g[w].rec.key = NoKey
      BY <1>5, <2>1, <3>2, <3>4 DEF Original, Kept
    <3> QED
      BY <1>2, <2>1, <3>1, <3>2, <3>3, <3>5
      DEF KeyFor, Present, Running, Asks, Spawns, SpawnPC, Spawning, ReservedPC
  <2> QED
    BY <1>3, <2>2
<1>8. CASE Reserve(w)
  <2>1. PICK i \in RunId : /\ i = g'[w].id
                           /\ i = IF g[w].pred = NoRun THEN nextId ELSE g[w].id
    BY <1>8, SpawnFacts
  <2>2. /\ g'[w].pc = "journal" /\ g'[w].rec = g[w].rec
        /\ store' = [store EXCEPT ![i] = g[w].rec]
    BY <1>8, <2>1, SpawnFacts
  <2>3. /\ g'[w].pred = g[w].pred /\ g[w].pc = "reserve"
        /\ launched' = launched /\ idem' = idem
    BY <1>1, <1>8 DEF Reserve, At, history, Local
  <2>4. PICK f : Consistent(nextId, f)
    BY DEF LaneInv
  <2>5. g[w].rec.status = "running"
    BY <2>3, <2>4 DEF Consistent, Carried
  <2>6. Present(i)'
    BY <1>1, <2>2, <2>5 DEF Present
  <2>7. CASE g[w].pred = NoRun
    <3>1. i = nextId /\ launched[i] = <<>>
      BY <1>1, <2>1, <2>7 DEF KeyInv
    <3>2. \A key \in IdemKey : idem[key] # i
      BY <1>1, <3>1, PCs DEF KeyInv, Drawn
    <3>3. Asks(g[w])
      BY <2>3, <2>7 DEF Asks, Spawning
    <3>4. \A j \in RunId : Original(j, g[w].rec.key)' => g[w].rec.key = NoKey
      BY <1>2, <1>5, <2>2, <2>3, <3>3 DEF KeyFor, Original, Kept
    <3> QED
      BY <1>2, <2>1, <2>2, <2>3, <2>5, <2>6, <2>7, <3>1, <3>2, <3>3, <3>4
      DEF KeyFor, Asks, Spawns, SpawnPC, Spawning, ReservedPC
  <2>8. CASE g[w].pred # NoRun
    <3>1. Heir(nextId, f, g[w].pred, g[w].res)
      BY <2>3, <2>4, <2>8 DEF Consistent, Carried, Succeeds
    <3>2. PlacedAt(f[g[w].id], g[w].rec) /\ g[w].id = g[w].res.succ
      BY <2>3, <2>4, <2>8 DEF Consistent, Carried
    <3>3. g[w].rec.count > 0
      BY <3>1, <3>2 DEF Heir, PlacedAt
    <3> QED
      BY <2>1, <2>2, <2>3, <2>5, <2>6, <2>8, <3>3
      DEF KeyFor, Asks, Spawns, SpawnPC, Spawning, ReservedPC
  <2> QED
    BY <2>7, <2>8
<1>9. CASE JournalRun(w)
  <2>1. launched' = launched /\ idem' = idem /\ g[w].pc = "journal"
    BY <1>9 DEF JournalRun, At, control
  <2>2. CASE SpawnFails(w)
    BY <1>3, <1>4, <2>2, MoveFacts
  <2>3. CASE Goto(w, "spawn") /\ UNCHANGED store
    <3>1. Moves(w, "spawn")
      BY <2>3, MoveFacts
    <3>2. \A j \in RunId, key \in IdemKey :
            Original(j, key)' => Original(j, key)
      BY <1>5, <2>1
    <3> QED
      BY <1>1, <1>2, <1>5, <2>1, <2>3, <3>1
      DEF KeyFor, Moves, Present, Asks, Spawns, SpawnPC, Spawning, ReservedPC
  <2> QED
    BY <1>9, <2>2, <2>3 DEF JournalRun
<1>10. CASE SpawnChild(w)
  <2>1. store' = store /\ g[w].pc = "spawn" /\ Moves(w, "setpid")
    BY <1>10, SpawnFacts DEF SpawnChild, At
  <2>2. ASSUME NEW i \in RunId, NEW key, key = g[w].rec.key,
               Original(i, key)', Asks(g[w]), key # NoKey
        PROVE  i = g[w].id
    <3>1. ~Original(i, key)
      BY <1>2, <2>1, <2>2 DEF KeyFor
    <3> QED
      BY <2>2, <3>1, OriginalFrom DEF OneAtATime
  <2> QED
    BY <1>2, <2>1, <2>2
    DEF KeyFor, Moves, Present, Asks, Spawns, SpawnPC, Spawning, ReservedPC
<1>11. CASE SetPid(w)
  <2>0. PICK i \in RunId : i = g[w].id
    BY <1>11, LocalFacts, PCs DEF SetPid, At
  <2>1. /\ g[w].pc = "setpid"
        /\ Update(i, [store[i] EXCEPT !.pid = TRUE])
    BY <1>11, <2>0 DEF SetPid, At
  <2>2. /\ g'[w].pc = "journalpid" /\ g'[w].id = i
        /\ g'[w].rec.status = g[w].rec.status
        /\ g'[w].rec.count = g[w].rec.count /\ g'[w].rec.key = g[w].rec.key
    BY <1>1, <1>11, <2>0, SpawnFacts DEF Run
  <2>3. g'[w].pred = g[w].pred
    BY <1>1, <1>11 DEF SetPid, Local
  <2>4. Present(i)'
    BY <1>1, <1>2, <2>0, <2>1 DEF KeyFor, SpawnPC, Present, Update, Run
  <2> QED
    BY <1>2, <1>5, <2>0, <2>1, <2>2, <2>3, <2>4
    DEF KeyFor, Asks, Spawns, SpawnPC, Spawning, ReservedPC
<1>12. CASE JournalPid(w)
  <2>1. g[w].pc = "journalpid" /\ store' = store
    BY <1>12 DEF JournalPid, At
  <2>2. CASE g[w].pred = NoRun /\ Moves(w, "record")
    BY <1>2, <1>5, <2>1, <2>2
    DEF KeyFor, Moves, Present, Asks, Spawns, SpawnPC, Spawning, ReservedPC
  <2>3. g'[w] = Idle \/ (g[w].pred = NoRun /\ Moves(w, "record"))
    BY <1>12, MoveFacts DEF JournalPid
  <2> QED
    BY <1>3, <2>2, <2>3
<1> QED
  BY <1>6, <1>7, <1>8, <1>9, <1>10, <1>11, <1>12

(* A request that was not answered from the key map has a key without an   *)
(* original.                                                               *)
LEMMA KeyForPost ==
  ASSUME TypeInv, LaneInv, KeyInv, OneAtATime, NEW w \in Worker,
         NEW lane \in LaneKey, NEW key \in IdemKey,
         NEW engine \in RequestEngine, PostBuild(w, lane, key, engine)
  PROVE  KeyFor(g[w])'
<1>1. /\ g[w].pc = "idle" /\ phase = "up" /\ ~KnownKey(key)
      /\ g' = [g EXCEPT ![w].pc = "reserve",
                        ![w].rec = NewRun(lane, key, engine, 0, 0)]
      /\ store' = store /\ journal' = journal /\ launched' = launched
  BY DEF PostBuild, At, history
<1>2. g[w] = Idle /\ g \in [Worker -> SoundLocal]
  BY <1>1, DrawnIds DEF TypeInv
<1>3. /\ g'[w].pc = "reserve" /\ g'[w].pred = NoRun
      /\ g'[w].rec = NewRun(lane, key, engine, 0, 0)
  BY <1>1, <1>2 DEF Idle
<1>4. /\ g'[w].rec.status = "running" /\ g'[w].rec.count = 0
      /\ g'[w].rec.key = key
  BY <1>3 DEF NewRun
<1>5. ASSUME NEW i \in RunId, Original(i, key), key # NoKey
      PROVE  FALSE
  <2>1. ~Rooted(key)
    BY <1>1, <1>5 DEF Rooted, KnownKey, Present
  <2>2. \A v \in Worker : ~Asks(g[v])
    BY <1>1 DEF Asks, Spawning, OneAtATime
  <2> QED
    BY <1>1, <1>5, <2>1, <2>2 DEF KeyInv
<1>6. \A i \in RunId : Original(i, g[w].rec.key)' => key = NoKey
  BY <1>1, <1>4, <1>5 DEF Original, Kept
<1> QED
  BY <1>3, <1>4, <1>6
  DEF KeyFor, Asks, Spawns, SpawnPC, Spawning, ReservedPC

LEMMA KeyForRest ==
  ASSUME TypeInv, LaneInv, KeyInv, NEW w \in Worker,
         Snap(w) \/ Finalize(w) \/ GetFinalized(w) \/ BuildSuccessor(w)
  PROVE  KeyFor(g[w])'
<1>1. /\ g[w] \in Local /\ KeyFor(g[w]) /\ store \in [RunId -> Run]
  BY LocalFacts DEF TypeInv, TypeOK, KeyInv
<1>2. CASE Snap(w) \/ GetFinalized(w)
  <2>1. store' = store
    BY <1>2 DEF Snap, GetFinalized
  <2>2. CASE /\ Present(g[w].id)
             /\ g'[w].pc = "write" /\ g'[w].id = g[w].id
             /\ g'[w].rec = store[g[w].id]
    BY <2>1, <2>2
    DEF KeyFor, Present, Asks, Spawns, SpawnPC, Spawning, ReservedPC
  <2>3. CASE g'[w] = Idle \/ Moves(w, g[w].next)
    <3>1. g'[w].pc \in AfterJournal
      BY <1>1, <2>3 DEF Moves, Idle, Local, AfterJournal
    <3> QED
      BY <3>1, KeyForOut DEF AfterJournal, Spawning
  <2>4. GetFinalized(w) => Present(g[w].id)
    BY <1>1 DEF GetFinalized, At, KeyFor
  <2> QED
    BY <1>2, <2>2, <2>3, <2>4, WriteFacts
<1>3. CASE Finalize(w)
  <2>1. PICK i \in RunId : i = g[w].id
    BY <1>3, LocalFacts, PCs DEF Finalize, At
  <2>2. PICK ok \in BOOLEAN : Update(i, Finalized(store[i], ok))
    BY <1>3, <2>1 DEF Finalize
  <2>3. CASE Moves(w, "get") /\ Running(g[w].id)
    <3>1. Finalized(store[i], ok).status # "absent"
      BY <1>1, <2>1, <2>3 DEF Finalized, Running, Run
    <3>2. Present(i)'
      BY <1>1, <2>1, <2>2, <2>3, <3>1 DEF Update, Present, Running
    <3> QED
      BY <2>1, <2>3, <3>2
      DEF KeyFor, Moves, Asks, Spawns, SpawnPC, Spawning, ReservedPC
  <2>4. CASE Moves(w, "end")
    BY <2>4, KeyForOut DEF Moves, Spawning
  <2> QED
    BY <1>3, <2>3, <2>4, EndFacts
<1>4. CASE BuildSuccessor(w)
  <2>1. CASE g'[w] = Idle
    BY <2>1, KeyForOut DEF Idle, Spawning
  <2>2. CASE g'[w].pc = "reserve" /\ g'[w].pred = g[w].id
    <3>1. g[w].id # NoRun
      BY <1>4, LocalFacts, PCs DEF BuildSuccessor, At
    <3> QED
      BY <2>2, <3>1
      DEF KeyFor, Asks, Spawns, SpawnPC, Spawning, ReservedPC
  <2> QED
    BY <1>4, <2>1, <2>2, FireFacts
<1> QED
  BY <1>2, <1>3, <1>4

LEMMA KeyForStep ==
  ASSUME TypeInv, LaneInv, KeyInv, OneAtATime, [Next]_vars, NEW w \in Worker,
         Acts(w)
  PROVE  KeyFor(g[w])'
<1>1. /\ g[w] \in Local /\ KeyFor(g[w]) /\ (g[w].pc = "idle" => g[w] = Idle)
  BY LocalFacts, DrawnIds DEF KeyInv
<1>2. CASE Write(w)
  <2>1. g'[w].pc \in AfterJournal
    BY <1>1, <1>2, WriteFacts DEF Moves, Idle, Local, AfterJournal
  <2> QED
    BY <2>1, KeyForOut DEF AfterJournal, Spawning
<1>3. CASE \/ ClaimPush(w) \/ StartPush(w) \/ PlanResume(w)
           \/ ScheduleResume(w) \/ EndFinalizing(w)
  <2>1. g'[w].pc \in {"snap", "plan", "schedule", "end", "idle"}
    BY <1>3, EndFacts DEF Moves, Rejournals, Plans, Idle
  <2> QED
    BY <2>1, KeyForOut DEF Spawning
<1>4. CASE \/ Rearm(w) \/ StopMark(w) \/ StopSignal(w) \/ StopFinalize(w)
           \/ StopCancel(w)
  <2>1. g'[w].pc \in {"snap", "stopsignal", "stopfinalize"}
    BY <1>4, FireFacts, StopFacts DEF Moves, Rejournals
  <2> QED
    BY <2>1, KeyForOut DEF Spawning
<1>5. ASSUME NEW i \in RunId,
             \/ StopBegin(w, i) \/ TakeResume(w, i)
             \/ ObserveExit(w, i) \/ RouteSurvivor(w, i)
      PROVE  KeyFor(g[w])'
  <2>1. g[w].pc = "idle"
    BY <1>5 DEF StopBegin, TakeResume, ObserveExit, RouteSurvivor, At
  <2>2. g'[w].pc \in {"idle", "snap", "stopmark", "stopcancel", "finalize"}
    BY <1>1, <1>5, <2>1, StopFacts, FireFacts, StartFacts DEF Idle
  <2> QED
    BY <2>2, KeyForOut DEF Spawning
<1>6. Step(w) => KeyFor(g[w])'
  BY <1>2, <1>3, <1>4, KeyForSpawn, KeyForRest DEF Step
<1>7. Request(w) => KeyFor(g[w])'
  BY <1>5, KeyForPost DEF Request
<1> QED
  BY <1>5, <1>6, <1>7 DEF Acts

LEMMA KeyForKept ==
  ASSUME TypeInv, LaneInv, KeyInv, OneAtATime, [Next]_vars, NEW w \in Worker
  PROVE  KeyFor(g[w])'
<1>1. CASE Acts(w)
  BY <1>1, KeyForStep
<1>2. CASE g'[w] = Idle
  BY <1>2, KeyForOut DEF Idle, Spawning
<1>3. CASE ~Acts(w) /\ g'[w] = g[w]
  <2>1. \A v \in Worker : ~Acts(v)
    BY <1>3 DEF OneAtATime
  <2>2. CASE Crash \/ Boot
    <3>1. g'[w] = Idle
      BY <2>2, DrawnIds DEF Crash, Boot
    <3> QED
      BY <3>1, KeyForOut DEF Idle, Spawning
  <2>3. CASE Serve \/ UNCHANGED vars \/ \E i \in RunId : ChildExits(i)
    <3>1. /\ store' = store /\ journal' = journal /\ launched' = launched
          /\ idem' = idem
      BY <2>3 DEF Serve, ChildExits, vars, control, history
    <3> QED
      BY <1>3, <3>1 DEF KeyInv, KeyFor, Present, Original, Kept, Asks
  <2> QED
    BY <2>1, <2>2, <2>3, GoroutineSteps
<1> QED
  BY <1>1, <1>2, <1>3, GoroutineSteps

(* No agent runs under an id that is not drawn yet.                        *)
LEMMA LaunchedDrawn ==
  ASSUME TypeInv, LaneInv, KeyInv, [Next]_vars, NEW i \in RunId,
         i >= nextId'
  PROVE  launched'[i] = <<>>
<1>1. launched[i] = <<>>
  BY IdsGrow DEF KeyInv, RunId
<1>2. ASSUME NEW w \in Worker, SpawnChild(w) PROVE launched'[i] = <<>>
  <2>1. Drawn(nextId, g[w].id)
    BY <1>2, DrawnIds DEF SpawnChild, At
  <2>2. g[w].id # i
    BY <2>1, IdsGrow DEF Drawn, RunId
  <2> QED
    BY <1>1, <1>2, <2>2 DEF SpawnChild, TypeInv, TypeOK
<1> QED
  BY <1>1, <1>2, LaunchesStay

LEMMA KeyKept ==
  ASSUME TypeInv, LaneInv, KeyInv, OneAtATime, [Next]_vars
  PROVE  KeyInv'
<1>1. \A w \in Worker : KeyFor(g[w])'
  BY KeyForKept
<1>2. ASSUME NEW i \in RunId
      PROVE  /\ Present(i)' =>
                  Kept(i)' \/ \E w \in Worker : g'[w].pc = "journal"
                                                /\ g'[w].id = i
             /\ i >= nextId' => launched'[i] = <<>>
  BY StoredKept, LaunchedDrawn
<1>3. ASSUME NEW key \in IdemKey
      PROVE  /\ idem'[key] = NoRun \/ Drawn(nextId', idem'[key])
             /\ key # NoKey =>
                  /\ \A i, j \in RunId :
                       Original(i, key)' /\ Original(j, key)' => i = j
                  /\ phase' # "down" =>
                       \A i \in RunId : Original(i, key)' =>
                         \/ Rooted(key)'
                         \/ \E w \in Worker : Asks(g'[w])
                                              /\ g'[w].rec.key = key
  BY KeysDrawn, OriginalsUnique, KeyRooted
<1> QED
  BY <1>1, <1>2, <1>3 DEF KeyInv

(* With one request handled at a time, a retried request launches its      *)
(* build once per idempotency key, whatever writes and spawns fail and     *)
(* wherever the backend crashes and restarts: two originals of one key are *)
(* never both in the journal.                                              *)
THEOREM KeysSpawnOnce == ASSUME OneAtATime PROVE Spec => []KeySpawnsOnce
<1>1. Init => KeyInv
  <2>1. SUFFICES ASSUME Init PROVE KeyInv
    OBVIOUS
  <2>2. /\ \A i \in RunId : store[i] = Absent /\ launched[i] = <<>>
        /\ \A key \in IdemKey : idem[key] = NoRun
        /\ \A w \in Worker : g[w] = Idle
    BY <2>1 DEF Init
  <2>3. \A w \in Worker : KeyFor(g[w])
    BY <2>2
    DEF KeyFor, Asks, Spawns, SpawnPC, Spawning, ReservedPC, Idle
  <2> QED
    BY <2>2, <2>3 DEF KeyInv, Present, Absent, Original
<1>2. TypeInv /\ LaneInv /\ KeyInv /\ [Next]_vars => KeyInv'
  BY KeyKept
<1>3. TypeInv /\ KeyInv => KeySpawnsOnce
  <2>1. SUFFICES ASSUME TypeInv, KeyInv, NEW i \in RunId, NEW j \in RunId,
                        launched[i] # <<>>, launched[j] # <<>>,
                        journal[i].key = journal[j].key,
                        journal[i].key # NoKey,
                        journal[i].count = 0, journal[j].count = 0,
                        journal[i].status # "absent",
                        journal[j].status # "absent"
                 PROVE  i = j
    BY DEF KeySpawnsOnce
  <2>2. PICK key : key = journal[i].key
    OBVIOUS
  <2>3. Original(i, key) /\ Original(j, key)
    BY <2>1, <2>2 DEF Original, Kept
  <2>4. key \in IdemKey
    BY <2>1, <2>2 DEF TypeInv, TypeOK, Run
  <2> QED
    BY <2>1, <2>2, <2>3, <2>4 DEF KeyInv
<1> QED
  BY <1>1, <1>2, <1>3, InitType, NextType, InitLane, NextLane, PTL DEF Spec

-----------------------------------------------------------------------------
(* The run ids that requests consume.                                      *)

(* The goroutine carries a request that has no id yet; it decides from its *)
(* copy of the finalized run.                                              *)
Asking(l)  == l.pc = "reserve" /\ l.pred = NoRun
Decides(l) == l.pc \in {"push", "pushgo", "plan"}
                \/ Records(l, {"push", "pushgo"})

DecideInv ==
  \A w \in Worker :
    /\ Asking(g[w]) => g[w].rec.count = 0
    /\ Decides(g[w]) => g[w].rec.count = store[g[w].id].count
    /\ g[w].pc = "plan" => journal[g[w].id].status # "running"

(* A successor of the run may still be planned: it was not finalized in    *)
(* the journal, or its id was not even used.                               *)
Open(i) ==
  \/ Expected(i)
  \/ journal[i].status = "running"
  \/ \E w \in Worker : Unplanned(g[w]) /\ g[w].id = i
  \/ \E p \in RunId : Link(p, i)

(* Every id is the f[i].count-th of the chain of some request post[i], the *)
(* last one if it is open, and ask[w] is the request that w carries.       *)
Ranked(f, post, ask) ==
  /\ \A i : Drawn(nextId, i) =>
       post[i] \in 1 .. posts /\ f[i].count <= MaxBuildResumes
  /\ \A i, j :
       Drawn(nextId, i) /\ Drawn(nextId, j) /\ post[i] = post[j] =>
         /\ f[i].count = f[j].count => i = j
         /\ Open(i) => f[j].count <= f[i].count
  /\ \A w \in Worker :
       Asking(g[w]) =>
         /\ ask[w] \in 1 .. posts
         /\ \A i : Drawn(nextId, i) => post[i] # ask[w]
         /\ \A v \in Worker : Asking(g[v]) /\ ask[v] = ask[w] => v = w

BudgetInv ==
  /\ nextId <= MaxRuns + 1
  /\ \E f \in [RunId -> Place], post \in [RunId -> Nat],
        ask \in [Worker -> Nat] :
       Consistent(nextId, f) /\ Ranked(f, post, ask)

(* Only a request begins to ask.                                           *)
LEMMA AskingFrom ==
  ASSUME TypeInv, LaneInv, NEW w \in Worker, Acts(w), Asking(g'[w])
  PROVE  Posts(w) \/ g'[w] = g[w]
<1>1. /\ g[w] \in Local /\ g'[w].pc = "reserve" /\ g'[w].pred = NoRun
      /\ (g[w].pc = "idle" => g[w] = Idle)
  BY LocalFacts, DrawnIds DEF Asking
<1>2. CASE \/ Unwritable(w) \/ Adopt(w) \/ Reserve(w) \/ JournalRun(w)
           \/ SpawnChild(w) \/ SpawnError(w) \/ SetPid(w) \/ JournalPid(w)
           \/ RecordIdem(w)
  <2>0. Idle.pc = "idle"
    BY DEF Idle
  <2>1. CASE JournalRun(w) \/ SpawnError(w)
    BY <1>1, <2>0, <2>1, MoveFacts DEF JournalRun, SpawnError, Moves
  <2>2. CASE Unwritable(w) \/ Adopt(w) \/ Reserve(w)
    BY <1>1, <2>0, <2>2, SpawnFacts DEF Moves
  <2>3. CASE \/ SpawnChild(w) \/ SetPid(w) \/ JournalPid(w) \/ RecordIdem(w)
    BY <1>1, <2>0, <2>3, SpawnFacts DEF Moves
  <2> QED
    BY <1>2, <2>1, <2>2, <2>3
<1>3. CASE Snap(w) \/ Write(w) \/ GetFinalized(w)
  <2>1. g[w].next # "reserve"
    BY <1>1 DEF Local, AfterJournal
  <2> QED
    BY <1>1, <1>3, <2>1, WriteFacts DEF Moves, Idle
<1>4. CASE \/ Finalize(w) \/ ClaimPush(w) \/ StartPush(w) \/ PlanResume(w)
           \/ ScheduleResume(w) \/ EndFinalizing(w)
  BY <1>1, <1>4, EndFacts DEF Moves, Rejournals, Plans, Idle
<1>5. CASE \/ Rearm(w) \/ StopMark(w) \/ StopSignal(w) \/ StopFinalize(w)
           \/ StopCancel(w)
  BY <1>1, <1>5, FireFacts, StopFacts DEF Moves, Rejournals
<1>6. CASE BuildSuccessor(w)
  <2>1. g[w].id # NoRun
    BY <1>6, LocalFacts, PCs DEF BuildSuccessor, At
  <2> QED
    BY <1>1, <1>6, <2>1, FireFacts DEF Idle
<1>7. ASSUME NEW i \in RunId,
             \/ StopBegin(w, i) \/ TakeResume(w, i)
             \/ ObserveExit(w, i) \/ RouteSurvivor(w, i)
      PROVE  g'[w] = g[w]
  <2>1. CASE StopBegin(w, i) \/ TakeResume(w, i)
    BY <1>1, <2>1, StopFacts, FireFacts
  <2>2. CASE ObserveExit(w, i) \/ RouteSurvivor(w, i)
    BY <1>1, <2>2, StartFacts
  <2> QED
    BY <1>7, <2>1, <2>2
<1> QED
  BY <1>2, <1>3, <1>4, <1>5, <1>6, <1>7 DEF Acts, Step, Request, Posts

(* A goroutine decides from what it read of its run.                       *)
LEMMA DecidesFrom ==
  ASSUME TypeInv, LaneInv, PresenceInv, NEW w \in Worker, Acts(w),
         Decides(g'[w])
  PROVE  /\ g'[w].id = g[w].id /\ g[w].id \in RunId
         /\ g[w].pc \notin {"idle", "reserve", "rearm"}
         /\ \/ Decides(g[w]) /\ g'[w].rec = g[w].rec
            \/ g'[w].rec = store[g[w].id] /\ store' = store
         /\ g'[w].pc = "plan" => Claims(g[w]) /\ journal' = journal
<1> USE DEF Decides, Records
<1>0. g'[w] # Idle /\ g'[w].pc \in {"push", "pushgo", "plan", "snap", "write"}
  BY DEF Idle
<1>1. /\ g[w] \in Local /\ (g[w].pc = "idle" => g[w] = Idle)
      /\ g'[w] # Idle /\ g'[w].pc \in {"push", "pushgo", "plan", "snap", "write"}
  BY <1>0, LocalFacts, DrawnIds
<1>2. g[w].pc \notin {"idle", "reserve", "rearm"} => g[w].id \in RunId
  BY LocalFacts, PCs DEF At, Local
<1>3. CASE \/ Unwritable(w) \/ Adopt(w) \/ Reserve(w) \/ JournalRun(w)
           \/ SpawnChild(w) \/ SpawnError(w) \/ SetPid(w) \/ JournalPid(w)
           \/ RecordIdem(w)
  <2>1. CASE JournalRun(w) \/ SpawnError(w)
    BY <1>1, <2>1, MoveFacts DEF JournalRun, SpawnError, Moves
  <2> QED
    BY <1>1, <1>3, <2>1, SpawnFacts DEF Moves
<1>4. CASE Snap(w)
  <2>1. g[w].pc = "snap" /\ store' = store /\ Present(g[w].id)
    BY <1>4 DEF Snap, At, PresenceInv, PresentFor
  <2> QED
    BY <1>1, <1>2, <1>4, <2>1, WriteFacts DEF Present
<1>5. CASE Write(w)
  <2>1. g[w].pc = "write" /\ Moves(w, g[w].next)
    BY <1>1, <1>5, WriteFacts DEF Write, At
  <2>2. g[w].next \in {"push", "pushgo"}
    BY <1>1, <2>1 DEF Moves, Local, AfterJournal
  <2> QED
    BY <1>2, <2>1, <2>2 DEF Moves
<1>6. CASE GetFinalized(w)
  <2>1. g[w].pc = "get" /\ store' = store
    BY <1>6 DEF GetFinalized, At
  <2> QED
    BY <1>2, <1>6, <2>1, WriteFacts
<1>7. CASE ClaimPush(w) \/ StartPush(w)
  <2>1. g[w].pc \in {"push", "pushgo"} /\ journal' = journal
    BY <1>7 DEF ClaimPush, StartPush, At
  <2> QED
    BY <1>1, <1>2, <1>7, <2>1, EndFacts DEF Moves, Rejournals, Claims
<1>8. CASE \/ Finalize(w) \/ PlanResume(w) \/ ScheduleResume(w)
           \/ EndFinalizing(w)
  <2>1. g'[w].pc = "snap" => g'[w].next = "end"
    BY <1>8, EndFacts DEF Moves, Rejournals, Plans, Idle
  <2> QED
    BY <1>1, <1>8, <2>1, EndFacts DEF Moves, Rejournals, Plans
<1>9. CASE \/ Rearm(w) \/ StopMark(w) \/ StopSignal(w) \/ StopFinalize(w)
           \/ StopCancel(w) \/ BuildSuccessor(w)
  BY <1>1, <1>9, FireFacts, StopFacts DEF Moves, Rejournals
<1>10. ~(\/ \E i \in RunId : \/ StopBegin(w, i) \/ TakeResume(w, i)
                            \/ ObserveExit(w, i) \/ RouteSurvivor(w, i)
         \/ Posts(w))
  <2>1. ASSUME NEW i \in RunId, StopBegin(w, i) \/ TakeResume(w, i)
        PROVE  FALSE
    BY <1>1, <2>1, StopFacts, FireFacts
  <2>2. ASSUME NEW i \in RunId, ObserveExit(w, i) \/ RouteSurvivor(w, i)
        PROVE  FALSE
    <3>1. g[w].pc = "idle"
      BY <2>2 DEF ObserveExit, RouteSurvivor, At
    <3> QED
      BY <1>1, <2>2, <3>1, StartFacts DEF Idle
  <2>3. ~Posts(w)
    BY <1>1, StartFacts
  <2> QED
    BY <2>1, <2>2, <2>3
<1> QED
  BY <1>3, <1>4, <1>5, <1>6, <1>7, <1>8, <1>9, <1>10
  DEF Acts, Step, Request, Posts

LEMMA DecideKept ==
  ASSUME TypeInv, LaneInv, OnceInv, DecideInv, Reliable, [Next]_vars
  PROVE  DecideInv'
<1>0. PresenceInv /\ TurnInv /\ FreshInv /\ PushInv
  BY DEF OnceInv
<1>1. ASSUME NEW w \in Worker, Asking(g'[w])
      PROVE  g'[w].rec.count = 0
  <2>1. CASE g'[w] = g[w]
    BY <1>1, <2>1 DEF DecideInv
  <2>2. CASE Posts(w)
    <3>1. PICK lane, key, engine : PostBuild(w, lane, key, engine)
      BY <2>2 DEF Posts
    <3>2. g'[w].rec = NewRun(lane, key, engine, 0, 0)
      <4>1. g \in [Worker -> SoundLocal] /\ g[w] \in Local
        BY LocalFacts DEF TypeInv
      <4> QED
        BY <3>1, <4>1 DEF PostBuild, Local
    <3> QED
      BY <3>2 DEF NewRun
  <2>3. g'[w] # Idle
    BY <1>1 DEF Asking, Idle
  <2> QED
    BY <1>1, <2>1, <2>2, <2>3, GoroutineSteps, AskingFrom
<1>2. ASSUME NEW w \in Worker, NEW i \in RunId, i = g[w].id,
             g[w].pc \notin {"idle", "reserve", "rearm"}, ~Crash, ~Boot
      PROVE  store'[i].count = store[i].count
  <2>1. Present(i)
    BY <1>0, <1>2 DEF PresenceInv, PresentFor
  <2>2. ASSUME NEW v \in Worker, Reserve(v),
               i = IF g[v].pred = NoRun THEN nextId ELSE g[v].id
        PROVE  FALSE
    <3>1. Acts(v) /\ g'[v].id = i
      BY <2>2, SpawnFacts DEF Acts, Step
    <3>2. Unused(g'[v].id)
      BY <1>0, <2>2, ReservesUnused
    <3>3. Unused(i)
      BY <3>1, <3>2
    <3> QED
      BY <2>1, <3>3 DEF Unused, Present, Absent
  <2>3. ASSUME NEW v \in Worker, JournalRun(v) \/ SpawnError(v)
        PROVE  store' = store
    BY <2>3, SpawnFacts
  <2> QED
    BY <1>2, <2>2, <2>3, EntryFrom
<1>3. ASSUME NEW w \in Worker, Decides(g'[w])
      PROVE  g'[w].rec.count = store'[g'[w].id].count
  <2>1. g'[w] # Idle
    BY <1>3 DEF Decides, Records, Idle
  <2>2. ~Crash /\ ~Boot
    BY <2>1, DrawnIds DEF Crash, Boot
  <2>3. CASE Acts(w)
    <3>1. PICK i \in RunId : i = g[w].id
      BY <1>0, <1>3, <2>3, DecidesFrom
    <3>2. store'[i].count = store[i].count
      BY <1>0, <1>2, <1>3, <2>2, <2>3, <3>1, DecidesFrom
    <3>3. g'[w].id = i /\ g'[w].rec.count = store[i].count
      BY <1>0, <1>3, <2>3, <3>1, DecidesFrom DEF DecideInv
    <3> QED
      BY <3>2, <3>3
  <2>4. CASE g'[w] = g[w]
    <3>1. g[w].pc \notin {"idle", "reserve", "rearm"}
      BY <1>3, <2>4 DEF Decides, Records
    <3>2. PICK i \in RunId : i = g[w].id
      BY <3>1, DrawnIds DEF Drawn
    <3> QED
      BY <1>2, <1>3, <2>2, <2>4, <3>1, <3>2 DEF DecideInv
  <2> QED
    BY <2>1, <2>3, <2>4, GoroutineSteps
<1>4. ASSUME NEW w \in Worker, g'[w].pc = "plan"
      PROVE  journal'[g'[w].id].status # "running"
  <2>1. g'[w] # Idle /\ Decides(g'[w])
    BY <1>4 DEF Decides, Idle
  <2>2. CASE Acts(w)
    BY <1>0, <1>4, <2>1, <2>2, DecidesFrom DEF PushInv
  <2>3. CASE g'[w] = g[w]
    <3>1. PICK i \in RunId : i = g[w].id
      BY <1>4, <2>3, DrawnIds DEF Drawn
    <3>2. journal[i].status # "running"
      BY <1>4, <2>3, <3>1 DEF DecideInv
    <3>3. ASSUME NEW v \in Worker, Spawns(g[v]), g[v].id = i
          PROVE  FALSE
      <4>1. Turn(g[v], i) /\ Turn(g[w], i)
        BY <1>4, <2>3, <3>1, <3>3 DEF Turn, Ends, EndPC
      <4>2. v = w
        BY <1>0, <4>1 DEF TurnInv
      <4> QED
        BY <1>4, <2>3, <3>3, <4>2 DEF Spawns, SpawnPC
    <3> QED
      BY <1>0, <2>3, <3>1, <3>2, <3>3, RunningFrom
  <2> QED
    BY <2>1, <2>2, <2>3, GoroutineSteps
<1> QED
  BY <1>1, <1>3, <1>4 DEF DecideInv

(* A run that is open was open, or its id is new.                          *)
LEMMA OpenFrom ==
  ASSUME TypeInv, LaneInv, OnceInv, Reliable, [Next]_vars, NEW i \in RunId,
         Open(i)'
  PROVE  Open(i) \/ i = nextId
<1>0. PresenceInv /\ TurnInv /\ FreshInv
  BY DEF OnceInv
<1>1. CASE Expected(i)'
  <2>1. Boot => Expected(i) \/ journal[i].status = "running" \/ ~Expected(i)'
    BY DEF Boot, Expected, ToRoute, Exited, Interrupted, Reattached,
           Unfinished
  <2>2. ASSUME NEW w \in Worker, JournalPid(w), i = g[w].id
        PROVE  Open(i)
    BY <2>2, JournalPidTurn DEF Open, Unplanned, Unpushed, Spawns, SpawnPC
  <2> QED
    BY <1>1, <2>1, <2>2, ExpectedFrom DEF Open, Expected, ToRoute
<1>2. CASE journal'[i].status = "running"
  BY <1>0, <1>2, RunningFrom DEF Open, Unplanned, Unpushed
<1>3. ASSUME NEW w \in Worker, Unplanned(g'[w]), g'[w].id = i
      PROVE  Open(i) \/ i = nextId
  <2>1. g'[w] # Idle
    BY <1>3, IdleHolds
  <2>2. Turn(g'[w], i) \/ g'[w].pc = "plan"
    BY <1>3
    DEF Unplanned, Unpushed, Claims, Records, Turn, Spawns, Ends, EndPC,
        SpawnPC
  <2>3. Turn(g'[w], i)
    BY <1>3, <2>2 DEF Turn, Ends, EndPC
  <2>4. CASE g'[w] = g[w]
    BY <1>3, <2>4 DEF Open
  <2>5. CASE Acts(w)
    <3>1. CASE Turn(g[w], i) /\ Unplanned(g[w])
      BY <3>1 DEF Open, Turn
    <3>2. CASE Reserve(w)
      <4>1. i = IF g[w].pred = NoRun THEN nextId ELSE g[w].id
        BY <1>3, <3>2, SpawnFacts
      <4>2. CASE g[w].pred # NoRun
        <5>1. Respawns(g[w])
          BY <3>2, <4>2 DEF Reserve, At, Respawns
        <5>2. g[w].pred \in RunId /\ g[w].id = g[w].res.succ
          BY <3>2, <4>2, <5>1, DrawnIds DEF Reserve, At, Drawn
        <5>3. Holds(g[w], i) /\ Parent(g[w]) = g[w].pred
          BY <3>2, <4>1, <4>2, <5>1, <5>2
          DEF Holds, Parent, Fires, Reserve, At
        <5> QED
          BY <5>2, <5>3 DEF Open, Link
      <4> QED
        BY <4>1, <4>2
    <3>3. CASE Begins(w, i)
      BY <1>0, <3>3, BeginsExpected DEF Open
    <3> QED
      BY <1>0, <1>3, <2>3, <2>5, <3>1, <3>2, <3>3, TurnFrom
  <2> QED
    BY <2>1, <2>4, <2>5, GoroutineSteps
<1>4. ASSUME NEW p \in RunId, Link(p, i)'
      PROVE  Open(i) \/ i = nextId
  BY <1>0, <1>4, LinkFrom DEF Open
<1> QED
  BY <1>1, <1>2, <1>3, <1>4 DEF Open

(* A plan that draws a successor closes its run.                           *)
LEMMA PlanCloses ==
  ASSUME TypeInv, LaneInv, OnceInv, DecideInv, Reliable, [Next]_vars,
         NEW w \in Worker, PlanResume(w), nextId' # nextId,
         NEW i \in RunId, i = g[w].id
  PROVE  ~Open(i)'
<1>0. PresenceInv /\ TurnInv /\ FreshInv
  BY DEF OnceInv
<1>1. /\ g[w].pc = "plan" /\ Turn(g[w], i) /\ Acts(w) /\ g'[w].pc = "schedule"
      /\ journal' = journal /\ waiting' = waiting /\ toRoute' = toRoute
  <2>1. g[w].pc = "plan" /\ Acts(w) /\ g'[w].pc = "schedule"
    BY EndFacts DEF PlanResume, At, Plans, Acts, Step
  <2> QED
    BY <2>1 DEF PlanResume, control, Turn, Ends, EndPC
<1>2. ~Expected(i)'
  BY <1>0, <1>1 DEF TurnInv, Expected, ToRoute
<1>3. journal'[i].status # "running"
  BY <1>1 DEF DecideInv
<1>4. ASSUME NEW v \in Worker, Unplanned(g'[v]), g'[v].id = i
      PROVE  FALSE
  <2>1. v # w
    BY <1>1, <1>4 DEF Unplanned, Unpushed, Claims, Records, Spawns, SpawnPC
  <2>2. g'[v] = g[v]
    BY <1>1, <2>1, GoroutineSteps
  <2>3. Turn(g[v], i)
    BY <1>4, <2>2
    DEF Unplanned, Unpushed, Claims, Records, Turn, Spawns, Ends, EndPC,
        SpawnPC
  <2> QED
    BY <1>0, <1>1, <2>1, <2>3 DEF TurnInv
<1>5. ASSUME NEW p \in RunId, Link(p, i)'
      PROVE  FALSE
  <2>1. Present(i)
    BY <1>0, <1>1, TurnPresent
  <2>2. ~Link(p, i)
    BY <1>0, <2>1 DEF FreshInv, Unused, Present, Absent
  <2>3. Drawn(nextId, i) /\ nextId \in Nat
    BY <1>1, DrawnIds DEF TypeInv, TypeOK
  <2>4. i # nextId
    BY <2>3 DEF Drawn, RunId
  <2> QED
    BY <1>0, <1>5, <2>2, <2>4, LinkFrom
<1> QED
  BY <1>2, <1>3, <1>4, <1>5 DEF Open

(* What a step does to the ids, the requests and those who carry them.     *)
RankStep(f, h) ==
  \/ /\ nextId' = nextId /\ posts' = posts
     /\ \A w \in Worker : Asking(g'[w]) => Asking(g[w])
  \/ /\ nextId' = nextId /\ posts' = posts + 1
     /\ \E w \in Worker : \A v \in Worker \ {w} : Asking(g'[v]) => Asking(g[v])
  \/ /\ nextId \in RunId /\ nextId' = nextId + 1 /\ posts' = posts
     /\ \E w \in Worker :
          /\ Asking(g[w]) /\ ~Asking(g'[w]) /\ h[nextId].count = 0
          /\ \A v \in Worker : Asking(g'[v]) => Asking(g[v])
  \/ /\ nextId \in RunId /\ nextId' = nextId + 1 /\ posts' = posts
     /\ \A w \in Worker : Asking(g'[w]) => Asking(g[w])
     /\ \E i : /\ Drawn(nextId, i) /\ Open(i) /\ ~Open(i)'
               /\ f[i].count < MaxBuildResumes
               /\ h[nextId].count = f[i].count + 1

LEMMA PostsStay ==
  ASSUME [Next]_vars, ~\E w \in Worker : Posts(w)
  PROVE  posts' = posts
<1>1. ASSUME NEW w \in Worker, Step(w) PROVE posts' = posts
  BY <1>1
  DEF Step, Snap, Write, Unwritable, Adopt, Reserve, JournalRun, SpawnChild,
      SpawnError, SetPid, JournalPid, RecordIdem, Finalize, GetFinalized,
      ClaimPush, StartPush, PlanResume, ScheduleResume, EndFinalizing,
      BuildSuccessor, Rearm, StopMark, StopSignal, StopFinalize, StopCancel,
      bounds
<1>2. ASSUME ~\E w \in Worker : Step(w) PROVE posts' = posts
  BY <1>2
  DEF Next, Request, Posts, PostBuild, StopBegin, ObserveExit, TakeResume,
      RouteSurvivor, ChildExits, Crash, Boot, Serve, vars, bounds
<1> QED
  BY <1>1, <1>2

LEMMA RankSteps ==
  ASSUME TypeInv, LaneInv, OnceInv, DecideInv, Reliable, [Next]_vars,
         NEW f \in [RunId -> Place], NEW h \in [RunId -> Place],
         Consistent(nextId, f),
         \/ nextId' = nextId
         \/ \E w \in Worker : /\ Reserve(w) /\ g[w].pred = NoRun
                              /\ h[nextId].count = g[w].rec.count
         \/ \E w \in Worker : /\ PlanResume(w)
                              /\ h[nextId].count = g[w].rec.count + 1
  PROVE  RankStep(f, h)
<1>1. ASSUME NEW v \in Worker, Asking(g'[v]), ~Asking(g[v])
      PROVE  Posts(v)
  <2>1. g'[v] # Idle
    BY <1>1 DEF Asking, Idle
  <2> QED
    BY <1>1, <2>1, AskingFrom, GoroutineSteps
<1>2. CASE \E w \in Worker : Posts(w)
  <2>1. PICK w \in Worker : Posts(w)
    BY <1>2
  <2>2. nextId' = nextId /\ posts' = posts + 1 /\ Acts(w)
    BY <2>1 DEF Posts, PostBuild, Acts, Request
  <2>3. \A v \in Worker \ {w} : g'[v] = g[v]
    BY <2>2, GoroutineSteps
  <2> QED
    BY <2>2, <2>3 DEF RankStep
<1>3. CASE ~(\E w \in Worker : Posts(w)) /\ nextId' = nextId
  BY <1>1, <1>3, PostsStay DEF RankStep
<1>4. ASSUME NEW w \in Worker, Reserve(w), g[w].pred = NoRun,
             h[nextId].count = g[w].rec.count
      PROVE  RankStep(f, h)
  <2>1. /\ g[w].pc = "reserve" /\ g'[w].pc = "journal"
        /\ nextId \in RunId /\ nextId' = nextId + 1 /\ posts' = posts
        /\ Acts(w)
    BY <1>4, SpawnFacts DEF Reserve, At, Acts, Step
  <2>2. Asking(g[w]) /\ ~Asking(g'[w]) /\ h[nextId].count = 0
    BY <1>4, <2>1 DEF Asking, DecideInv
  <2>3. \A v \in Worker \ {w} : g'[v] = g[v]
    BY <2>1, GoroutineSteps
  <2> QED
    BY <2>1, <2>2, <2>3 DEF RankStep
<1>5. ASSUME NEW w \in Worker, PlanResume(w), nextId' # nextId,
             h[nextId].count = g[w].rec.count + 1
      PROVE  RankStep(f, h)
  <2>1. PICK i \in RunId : i = g[w].id /\ Drawn(nextId, i)
    BY <1>5, DrawnIds DEF PlanResume, At, Drawn
  <2>2. /\ g[w].pc = "plan" /\ Plans(w) /\ Acts(w) /\ posts' = posts
        /\ g[w].rec.count < MaxBuildResumes
    <3>1. PICK progress \in ProgressSeen, wallSpent \in WallSpent :
            Resumes(g[w].rec.count, g[w].rec.streak, ending[g[w].id],
                    g[w].cause, progress, wallSpent)
      BY <1>5 DEF PlanResume
    <3>2. g[w].rec.count < MaxBuildResumes
      BY <3>1 DEF Resumes
    <3> QED
      BY <1>5, <3>2, EndFacts DEF PlanResume, At, Acts, Step
  <2>3. Open(i) /\ ~Open(i)'
    BY <1>5, <2>1, <2>2, PlanCloses DEF Open, Unplanned
  <2>4. Present(i) /\ g[w].rec.count = store[i].count
    BY <2>1, <2>2
    DEF OnceInv, PresenceInv, PresentFor, DecideInv, Decides
  <2>5. f[i].count = g[w].rec.count
    BY <2>1, <2>4 DEF Consistent, InPlace, PlacedAt, Present, Absent
  <2>6. g'[w].pc = "schedule" /\ \A v \in Worker \ {w} : g'[v] = g[v]
    BY <2>2, GoroutineSteps DEF Plans
  <2>7. \A v \in Worker : Asking(g'[v]) => Asking(g[v])
    BY <2>6 DEF Asking
  <2> QED
    BY <1>5, <2>1, <2>2, <2>3, <2>5, <2>7 DEF RankStep, Plans
<1> QED
  BY <1>2, <1>3, <1>4, <1>5

(* The ranks of the next state.                                            *)
LEMMA RankKept ==
  ASSUME TypeInv, LaneInv, OnceInv, DecideInv, Reliable, [Next]_vars,
         NEW f \in [RunId -> Place], NEW h \in [RunId -> Place],
         NEW post \in [RunId -> Nat], NEW ask \in [Worker -> Nat],
         Extends(nextId, f, h), RankStep(f, h), Ranked(f, post, ask)
  PROVE  \E p \in [RunId -> Nat], a \in [Worker -> Nat] : Ranked(h, p, a)'
<1>1. /\ nextId \in Nat /\ nextId' \in Nat /\ posts \in Nat
      /\ MaxBuildResumes \in Nat
      /\ \A i \in RunId : f[i].count \in Nat /\ h[i].count \in Nat
  <2>1. \A place \in Place : place.count \in Nat
    BY DEF Place
  <2> QED
    BY <2>1, NextType, BudgetAssumption DEF TypeInv, TypeOK
<1>2. \A i : Drawn(nextId, i) => h[i] = f[i] /\ i \in RunId /\ i # nextId
  BY <1>1 DEF Extends, Drawn, RunId
<1>3. \A i : Drawn(nextId, i) /\ Open(i)' => Open(i)
  BY <1>2, OpenFrom
<1>4. ASSUME nextId' = nextId PROVE \A i : Drawn(nextId', i) <=> Drawn(nextId, i)
  BY <1>4
<1>5. ASSUME nextId \in RunId, nextId' = nextId + 1
      PROVE  \A i : Drawn(nextId', i) <=> Drawn(nextId, i) \/ i = nextId
  BY <1>1, <1>5 DEF Drawn, RunId
<1>6. CASE /\ nextId' = nextId /\ posts' = posts
           /\ \A w \in Worker : Asking(g'[w]) => Asking(g[w])
  <2>1. Ranked(h, post, ask)'
    BY <1>2, <1>3, <1>4, <1>6 DEF Ranked
  <2> QED
    BY <2>1
<1>7. ASSUME nextId' = nextId, posts' = posts + 1, NEW w \in Worker,
             \A v \in Worker \ {w} : Asking(g'[v]) => Asking(g[v])
      PROVE  \E a \in [Worker -> Nat] : Ranked(h, post, a)'
  <2>1. PICK a \in [Worker -> Nat] :
          a[w] = posts + 1 /\ \A v \in Worker \ {w} : a[v] = ask[v]
    <3>1. [ask EXCEPT ![w] = posts + 1] \in [Worker -> Nat]
      BY <1>1
    <3> QED
      BY <3>1
  <2>2. \A i : Drawn(nextId, i) => /\ post[i] \in 1 .. posts'
                                   /\ h[i].count <= MaxBuildResumes
                                   /\ post[i] # a[w]
    BY <1>1, <1>2, <1>7, <2>1 DEF Ranked
  <2>3. \A i, j : Drawn(nextId, i) /\ Drawn(nextId, j) /\ post[i] = post[j] =>
          /\ h[i].count = h[j].count => i = j
          /\ Open(i)' => h[j].count <= h[i].count
    BY <1>2, <1>3 DEF Ranked
  <2>4. ASSUME NEW v \in Worker, Asking(g'[v])
        PROVE  /\ a[v] \in 1 .. posts'
               /\ \A i : Drawn(nextId, i) => post[i] # a[v]
               /\ \A u \in Worker : Asking(g'[u]) /\ a[u] = a[v] => u = v
    <3>1. \A u \in Worker \ {w} :
            Asking(g'[u]) => Asking(g[u]) /\ ask[u] \in 1 .. posts
      BY <1>7 DEF Ranked
    <3>2. CASE v = w
      <4>1. \A u \in Worker \ {w} : Asking(g'[u]) => a[u] # a[w]
        BY <1>1, <2>1, <3>1
      <4>2. a[w] \in 1 .. posts'
        BY <1>1, <1>7, <2>1
      <4> QED
        BY <2>2, <3>2, <4>1, <4>2
    <3>3. CASE v # w
      <4>1. a[v] \in 1 .. posts /\ Asking(g[v]) /\ a[v] = ask[v]
        BY <2>1, <2>4, <3>1, <3>3
      <4>2. a[w] # a[v]
        BY <1>1, <2>1, <4>1
      <4>3. a[v] \in 1 .. posts'
        BY <1>1, <1>7, <4>1
      <4>4. \A i : Drawn(nextId, i) => post[i] # a[v]
        BY <4>1 DEF Ranked
      <4>5. \A u \in Worker : Asking(g'[u]) /\ a[u] = a[v] => u = v
        BY <2>1, <3>1, <4>1, <4>2 DEF Ranked
      <4> QED
        BY <4>3, <4>4, <4>5
    <3> QED
      BY <3>2, <3>3
  <2>5. Ranked(h, post, a)'
    BY <1>4, <1>7, <2>2, <2>3, <2>4 DEF Ranked
  <2> QED
    BY <2>1, <2>5
<1>8. ASSUME nextId \in RunId, nextId' = nextId + 1, posts' = posts,
             \A v \in Worker : Asking(g'[v]) => Asking(g[v]),
             NEW k \in 1 .. posts, h[nextId].count <= MaxBuildResumes,
             \A v \in Worker : Asking(g'[v]) => ask[v] # k,
             \A j : Drawn(nextId, j) /\ post[j] = k =>
                      h[j].count < h[nextId].count /\ ~Open(j)'
      PROVE  \E p \in [RunId -> Nat] : Ranked(h, p, ask)'
  <2>1. PICK p \in [RunId -> Nat] :
          p[nextId] = k /\ \A i : Drawn(nextId, i) => p[i] = post[i]
    <3>1. [post EXCEPT ![nextId] = k] \in [RunId -> Nat]
      BY <1>1, <1>8
    <3> QED
      BY <1>2, <1>8, <3>1
  <2>2. \A i : Drawn(nextId', i) => p[i] \in 1 .. posts'
                                    /\ h[i].count <= MaxBuildResumes
    BY <1>2, <1>5, <1>8, <2>1 DEF Ranked
  <2>3. ASSUME NEW i, NEW j, Drawn(nextId', i), Drawn(nextId', j), p[i] = p[j]
        PROVE  /\ h[i].count = h[j].count => i = j
               /\ Open(i)' => h[j].count <= h[i].count
    <3>1. CASE Drawn(nextId, i) /\ Drawn(nextId, j)
      BY <1>2, <1>3, <2>1, <2>3, <3>1 DEF Ranked
    <3>2. CASE i = nextId /\ Drawn(nextId, j)
      <4>1. h[j].count < h[i].count /\ h[j].count \in Nat /\ h[i].count \in Nat
        BY <1>1, <1>2, <1>8, <2>1, <2>3, <3>2
      <4> QED
        BY <4>1
    <3>3. CASE j = nextId /\ Drawn(nextId, i)
      <4>1. /\ h[i].count < h[j].count /\ ~Open(i)'
            /\ h[j].count \in Nat /\ h[i].count \in Nat
        BY <1>1, <1>2, <1>8, <2>1, <2>3, <3>3
      <4> QED
        BY <4>1
    <3>4. CASE i = nextId /\ j = nextId
      BY <1>1, <1>8, <3>4
    <3> QED
      BY <1>5, <1>8, <2>3, <3>1, <3>2, <3>3, <3>4
  <2>4. ASSUME NEW w \in Worker, Asking(g'[w])
        PROVE  /\ ask[w] \in 1 .. posts'
               /\ \A i : Drawn(nextId', i) => p[i] # ask[w]
               /\ \A v \in Worker : Asking(g'[v]) /\ ask[v] = ask[w] => v = w
    BY <1>5, <1>8, <2>1, <2>4 DEF Ranked
  <2>5. Ranked(h, p, ask)'
    BY <2>2, <2>3, <2>4 DEF Ranked
  <2> QED
    BY <2>1, <2>5
<1>9. ASSUME nextId \in RunId, nextId' = nextId + 1, posts' = posts,
             NEW w \in Worker, Asking(g[w]), ~Asking(g'[w]),
             h[nextId].count = 0,
             \A v \in Worker : Asking(g'[v]) => Asking(g[v])
      PROVE  \E p \in [RunId -> Nat] : Ranked(h, p, ask)'
  <2>1. PICK k : k = ask[w]
    OBVIOUS
  <2>2. k \in 1 .. posts /\ \A j : Drawn(nextId, j) => post[j] # k
    BY <1>9, <2>1 DEF Ranked
  <2>3. \A v \in Worker : Asking(g'[v]) => ask[v] # k
    BY <1>9, <2>1 DEF Ranked
  <2>4. h[nextId].count <= MaxBuildResumes
    BY <1>1, <1>9
  <2> QED
    BY <1>8, <1>9, <2>2, <2>3, <2>4
<1>10. ASSUME nextId \in RunId, nextId' = nextId + 1, posts' = posts,
              \A v \in Worker : Asking(g'[v]) => Asking(g[v]),
              NEW i, Drawn(nextId, i), Open(i), ~Open(i)',
              f[i].count < MaxBuildResumes, h[nextId].count = f[i].count + 1
      PROVE  \E p \in [RunId -> Nat] : Ranked(h, p, ask)'
  <2>1. PICK k : k = post[i]
    OBVIOUS
  <2>2. k \in 1 .. posts /\ \A v \in Worker : Asking(g'[v]) => ask[v] # k
    BY <1>10, <2>1 DEF Ranked
  <2>3. h[nextId].count <= MaxBuildResumes
    <3>1. f[i].count \in Nat /\ MaxBuildResumes \in Nat
      BY <1>1, <1>2, <1>10
    <3> QED
      BY <1>10, <3>1
  <2>4. ASSUME NEW j, Drawn(nextId, j), post[j] = k
        PROVE  h[j].count < h[nextId].count /\ ~Open(j)'
    <3>1. /\ f[j].count <= f[i].count
          /\ f[j].count \in Nat /\ f[i].count \in Nat /\ h[j] = f[j]
      BY <1>1, <1>2, <1>10, <2>1, <2>4 DEF Ranked
    <3>2. ASSUME Open(j)' PROVE FALSE
      <4>1. Open(j) /\ f[i].count <= f[j].count
        BY <1>3, <1>10, <2>1, <2>4, <3>2 DEF Ranked
      <4>2. j = i
        BY <1>10, <2>1, <2>4, <3>1, <4>1 DEF Ranked
      <4> QED
        BY <1>10, <3>2, <4>2
    <3> QED
      BY <1>10, <3>1, <3>2
  <2> QED
    BY <1>8, <1>10, <2>2, <2>3, <2>4
<1> QED
  BY <1>6, <1>7, <1>9, <1>10 DEF RankStep

LEMMA BudgetKept ==
  ASSUME TypeInv, LaneInv, OnceInv, DecideInv, BudgetInv, Reliable,
         [Next]_vars
  PROVE  BudgetInv'
<1>1. PICK f \in [RunId -> Place], post \in [RunId -> Nat],
           ask \in [Worker -> Nat] :
        Consistent(nextId, f) /\ Ranked(f, post, ask)
  BY DEF BudgetInv
<1>2. PICK h \in [RunId -> Place] :
        /\ Consistent(nextId, h)' /\ Extends(nextId, f, h)
        /\ RankStep(f, h)
  <2>1. PICK h \in [RunId -> Place] :
          /\ Consistent(nextId, h)' /\ Extends(nextId, f, h)
          /\ \/ nextId' = nextId
             \/ \E w \in Worker : /\ Reserve(w) /\ g[w].pred = NoRun
                                  /\ h[nextId].count = g[w].rec.count
             \/ \E w \in Worker : /\ PlanResume(w)
                                  /\ h[nextId].count = g[w].rec.count + 1
    BY <1>1, NextPlaces
  <2>2. RankStep(f, h)
    BY <1>1, <2>1, RankSteps
  <2> QED
    BY <2>1, <2>2
<1>3. \E p \in [RunId -> Nat], a \in [Worker -> Nat] : Ranked(h, p, a)'
  BY <1>1, <1>2, RankKept
<1>4. nextId' <= MaxRuns + 1
  BY <1>2, RunStoreAssumption DEF BudgetInv, RankStep, RunId, TypeInv, TypeOK
<1> QED
  BY <1>2, <1>3, <1>4 DEF BudgetInv

(* Ids with different ranks are no more than there are ranks.              *)
LEMMA RanksCount ==
  ASSUME NEW n \in Nat, NEW k \in Nat, NEW m \in Nat,
         NEW post \in [1 .. n -> 1 .. k], NEW count \in [1 .. n -> 0 .. m],
         \A i, j \in 1 .. n :
           post[i] = post[j] /\ count[i] = count[j] => i = j
  PROVE  n <= k * (1 + m)
<1> DEFINE S == 1 .. n
           T == (1 .. k) \X (0 .. m)
           rank == [i \in S |-> <<post[i], count[i]>>]
<1>1. /\ IsFiniteSet(1 .. k) /\ Cardinality(1 .. k) = k
      /\ IsFiniteSet(0 .. m) /\ Cardinality(0 .. m) = 1 + m
      /\ Cardinality(S) = n
  <2>1. /\ IsFiniteSet(1 .. k)
        /\ Cardinality(1 .. k) = IF 1 > k THEN 0 ELSE k - 1 + 1
    BY FS_Interval
  <2>2. /\ IsFiniteSet(0 .. m)
        /\ Cardinality(0 .. m) = IF 0 > m THEN 0 ELSE m - 0 + 1
    BY FS_Interval
  <2>3. Cardinality(1 .. n) = IF 1 > n THEN 0 ELSE n - 1 + 1
    BY FS_Interval
  <2> QED
    BY <2>1, <2>2, <2>3
<1>2. IsFiniteSet(T) /\ Cardinality(T) = k * (1 + m)
  <2>1. \A A, B : IsFiniteSet(A) /\ IsFiniteSet(B) =>
          /\ IsFiniteSet(A \X B)
          /\ Cardinality(A \X B) = Cardinality(A) * Cardinality(B)
    BY FS_Product
  <2>2. /\ IsFiniteSet((1 .. k) \X (0 .. m))
        /\ Cardinality((1 .. k) \X (0 .. m))
             = Cardinality(1 .. k) * Cardinality(0 .. m)
    BY <1>1, <2>1
  <2> QED
    BY <1>1, <2>2
<1>3. rank \in Injection(S, T)
  <2>1. rank \in [S -> T]
    OBVIOUS
  <2>2. \A i, j \in S : rank[i] = rank[j] => i = j
    OBVIOUS
  <2> QED
    BY <2>1, <2>2 DEF Injection, IsInjective
<1> HIDE DEF S, T, rank
<1> QED
  BY <1>1, <1>2, <1>3, FS_Injection

(* The turn budget bounds the runs a request consumes, across re-armed     *)
(* resumes, stops, crashes and restarts: a run is planned from only once,  *)
(* and the count it hands on is the one that survived the restart.         *)
THEOREM BudgetsHold == ASSUME Reliable PROVE Spec => []BudgetHolds
<1>1. Init => DecideInv /\ BudgetInv
  <2>1. SUFFICES ASSUME Init PROVE DecideInv /\ BudgetInv
    OBVIOUS
  <2>2. /\ \A i \in RunId : store[i] = Absent /\ journal[i] = Absent
        /\ \A w \in Worker : g[w] = Idle
        /\ nextId = 1 /\ posts = 0
    BY <2>1 DEF Init
  <2>3. ~Asking(Idle) /\ ~Decides(Idle) /\ Idle.pc = "idle"
    BY DEF Asking, Decides, Records, Idle
  <2>4. \A i : ~Drawn(nextId, i)
    BY <2>2 DEF Drawn, RunId
  <2>5. PICK f \in [RunId -> Place] : Consistent(nextId, f)
    BY <2>1, InitLane DEF LaneInv
  <2>6. /\ [i \in RunId |-> 0] \in [RunId -> Nat]
        /\ [w \in Worker |-> 0] \in [Worker -> Nat]
    OBVIOUS
  <2>7. Ranked(f, [i \in RunId |-> 0], [w \in Worker |-> 0])
    BY <2>2, <2>3, <2>4 DEF Ranked
  <2>8. nextId <= MaxRuns + 1
    BY <2>2, RunStoreAssumption
  <2>9. DecideInv
    BY <2>2, <2>3 DEF DecideInv
  <2> QED
    BY <2>5, <2>6, <2>7, <2>8, <2>9 DEF BudgetInv
<1>2. TypeInv /\ LaneInv /\ OnceInv /\ DecideInv /\ BudgetInv /\ [Next]_vars
        => (DecideInv /\ BudgetInv)'
  BY DecideKept, BudgetKept
<1>3. TypeInv /\ BudgetInv => BudgetHolds
  <2>1. SUFFICES ASSUME TypeInv, BudgetInv PROVE BudgetHolds
    OBVIOUS
  <2>2. PICK f \in [RunId -> Place], post \in [RunId -> Nat],
             ask \in [Worker -> Nat] : Ranked(f, post, ask)
    BY <2>1 DEF BudgetInv
  <2>3. /\ nextId \in Nat /\ posts \in Nat /\ MaxBuildResumes \in Nat
        /\ MaxRuns \in Nat /\ nextId <= MaxRuns + 1
    BY <2>1, BudgetAssumption, RunStoreAssumption
    DEF TypeInv, TypeOK, BudgetInv
  <2>4. CASE nextId = 0
    BY <2>3, <2>4 DEF BudgetHolds
  <2>5. CASE nextId > 0
    <3> DEFINE n == nextId - 1
    <3>1. n \in Nat /\ \A i \in 1 .. n : Drawn(nextId, i)
      BY <2>3, <2>5 DEF Drawn, RunId
    <3>2. \A i \in 1 .. n : post[i] \in 1 .. posts
                            /\ f[i].count \in 0 .. MaxBuildResumes
      <4>1. \A i \in RunId : f[i].count \in Nat
        BY DEF Place
      <4> QED
        BY <2>2, <2>3, <3>1, <4>1 DEF Ranked, Drawn
    <3>3. \A i, j \in 1 .. n :
            post[i] = post[j] /\ f[i].count = f[j].count => i = j
      BY <2>2, <3>1 DEF Ranked
    <3> HIDE DEF n
    <3>4. PICK p \in [1 .. n -> 1 .. posts],
               c \in [1 .. n -> 0 .. MaxBuildResumes] :
            \A i \in 1 .. n : p[i] = post[i] /\ c[i] = f[i].count
      <4>1. /\ [i \in 1 .. n |-> post[i]] \in [1 .. n -> 1 .. posts]
            /\ [i \in 1 .. n |-> f[i].count]
                 \in [1 .. n -> 0 .. MaxBuildResumes]
        BY <3>2
      <4> QED
        BY <4>1
    <3>5. \A i, j \in 1 .. n : p[i] = p[j] /\ c[i] = c[j] => i = j
      BY <3>3, <3>4
    <3>6. n <= posts * (1 + MaxBuildResumes)
      <4>1. n \in Nat /\ posts \in Nat /\ MaxBuildResumes \in Nat
        BY <2>3, <3>1
      <4> QED
        BY <4>1, <3>5, RanksCount
    <3> QED
      BY <3>6 DEF n, BudgetHolds
  <2> QED
    BY <2>3, <2>4, <2>5
<1> QED
  BY <1>1, <1>2, <1>3, OnceHolds, PTL DEF Spec
=============================================================================
