------------------------------ MODULE RunStore ------------------------------
(***************************************************************************)
(* The run record of the Go backend (domain/run.go), the in-memory store   *)
(* that holds it (infra/memstore.go) and the durable journal entry derived *)
(* from it (infra/journal.go, infra/journalreader.go).                     *)
(*                                                                         *)
(* Prompt, cwd, config directory, timestamps and exit code are left out:   *)
(* no decision of the build engine that is modelled here reads them.  The  *)
(* store and the journal are total functions on RunId; an id without an    *)
(* entry maps to Absent.                                                   *)
(*                                                                         *)
(* An operator named Mut_... is a wrong variant of the definition below it,*)
(* a slip the code could have made; with it in place of that definition a  *)
(* property of this project fails.                                         *)
(***************************************************************************)
EXTENDS Naturals

CONSTANTS
  MaxRuns,         \* bound: how many run ids the id generator hands out
  LaneKey,         \* lane keys a request may carry
  NoLane,          \* the empty lane key: such a run is never deduplicated
  IdemKey,         \* idempotency keys a request may carry
  NoKey,           \* a request without an idempotency key
  Engine,          \* agent runtimes
  DefaultEngine    \* what ResolveEngine makes of an unset engine (claude)

ASSUME RunStoreAssumption ==
  /\ MaxRuns \in Nat \ {0}
  /\ DefaultEngine \in Engine

RunId == 1 .. MaxRuns
NoRun == 0

Status == {"absent", "running", "done", "error"}

(* A resume scheduled for a finished build: the successor's id, the chain  *)
(* state it inherits and how often spawning it has failed.                 *)
PendingResume ==
  [succ : RunId \cup {NoRun}, count : Nat, streak : Nat, attempts : Nat]

NoResume == [succ |-> NoRun, count |-> 0, streak |-> 0, attempts |-> 0]

Run ==
  [status     : Status,
   lane       : LaneKey \cup {NoLane},
   key        : IdemKey \cup {NoKey},
   engine     : Engine,
   pid        : BOOLEAN,          \* the pid is recorded
   count      : Nat,              \* ResumeCount
   streak     : Nat,              \* NoProgressStreak
   pending    : PendingResume,
   pushed     : BOOLEAN,          \* PushedAt is set
   stopReq    : BOOLEAN,          \* StopRequested (transient)
   finalizing : BOOLEAN]          \* Finalizing    (transient)

Absent ==
  [status |-> "absent", lane |-> NoLane, key |-> NoKey,
   engine |-> DefaultEngine, pid |-> FALSE, count |-> 0, streak |-> 0,
   pending |-> NoResume, pushed |-> FALSE, stopReq |-> FALSE,
   finalizing |-> FALSE]

(* A fresh build (count = streak = 0) or the successor of a finished one.  *)
NewRun(lane, key, engine, count, streak) ==
  [Absent EXCEPT !.status = "running", !.lane = lane, !.key = key,
                 !.engine = engine, !.count = count, !.streak = streak]

Terminal(r) == r.status \in {"done", "error"}

Mut_FinalizedAsFailed(r, ok) ==
  IF r.status = "running"
  THEN [r EXCEPT !.status = IF ok THEN "done" ELSE "failed"]
  ELSE r

Mut_LastWriteWins(r, ok) ==
  [r EXCEPT !.status = IF ok THEN "done" ELSE "error"]

(* The store's first-write-wins transition out of running.                 *)
Finalized(r, ok) ==
  IF r.status = "running"
  THEN [r EXCEPT !.status = IF ok THEN "done" ELSE "error"]
  ELSE r

Mut_HoldersWithPid(store, lane) ==
  {i \in RunId : /\ store[i].status = "running" /\ store[i].lane = lane
                 /\ store[i].pid}

(* The runs an atomic lane reservation finds in its way.                   *)
Holders(store, lane) ==
  IF lane = NoLane THEN {}
  ELSE {i \in RunId : store[i].status = "running" /\ store[i].lane = lane}

Mut_CountNotDurable(r) ==
  [r EXCEPT !.engine = DefaultEngine, !.stopReq = FALSE,
            !.finalizing = FALSE, !.count = 0]

(* What a restart reads back of a run once it was journaled.  The journal  *)
(* record has no field for the engine, for StopRequested nor for           *)
(* Finalizing, so these come back as their zero values; a zero engine      *)
(* resolves to the default one when the successor is built.                *)
Durable(r) ==
  [r EXCEPT !.engine = DefaultEngine, !.stopReq = FALSE,
            !.finalizing = FALSE]
=============================================================================
