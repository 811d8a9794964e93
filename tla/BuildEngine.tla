---------------------------- MODULE BuildEngine -----------------------------
(***************************************************************************)
(* The build engine of the Go backend (usecase/buildengine.go): it spawns  *)
(* build agents as detached processes, journals every run, and when an     *)
(* agent exits decides whether to resume the build with a successor run,   *)
(* to push its branch or to park it.  HTTP handlers, the goroutine that    *)
(* waits for each child, resume timers, the periodic sweep and an          *)
(* operator's Stop all work on the same store; a crash of the backend      *)
(* loses the store but neither the journal nor the children.               *)
(*                                                                         *)
(* A goroutine is a Worker with a pc.  One action is one access to what    *)
(* goroutines share: one locked store operation, one journal write, or one *)
(* process operation.  Everything between two such accesses may interleave *)
(* with every other goroutine, and the backend may crash there.            *)
(*                                                                         *)
(* Left out: the stall watchdog (module Watchdog; its kill is one of the   *)
(* ways a child may exit here), delays (module ResumeDelay; a scheduled    *)
(* resume may fire at any time after it is armed), breadcrumbs, and a      *)
(* child whose pid is reused.                                              *)
(*                                                                         *)
(* An operator named Mut_... is a wrong variant of the definition below it,*)
(* a slip the code could have made; with it in place of that definition a  *)
(* property of this project fails.                                         *)
(***************************************************************************)
EXTENDS RunStore, BuildDecision, FiniteSets, Sequences

CONSTANTS
  Worker,           \* goroutines that may be active at the same time
  RequestEngine,    \* the engines that requests ask for
  Endings,          \* how agents may end
  ProgressSeen,     \* what comparing fingerprints may say
  WallSpent,        \* whether the wall-clock budget may be spent
  Faults,           \* the faults the environment injects
  AutoPush,         \* SAKI_BUILD_AUTOPUSH
  PromptResume,     \* whether a resume may fire while it is still being
                    \* journaled (SAKI_RESUME_DELAY_MS = 0, a slow disk)
  MaxSpawnRetries,  \* how often a failed successor spawn is re-armed
  MaxPosts,         \* bound: build requests
  MaxStops,         \* bound: operator stops
  MaxCrashes        \* bound: backend crashes

FaultKinds ==
  {"unwritable",   \* the runs directory cannot be written
   "write",        \* the first record of a run cannot be written
   "rewrite",      \* a later record cannot be written: the error is ignored
   "spawn",        \* the child cannot be started
   "binary"}       \* ... because the engine's binary is missing

ASSUME EngineAssumption ==
  /\ RequestEngine \subseteq Engine
  /\ Endings \subseteq Ending
  /\ ProgressSeen \subseteq Progress
  /\ WallSpent \subseteq BOOLEAN
  /\ Faults \subseteq FaultKinds
  /\ AutoPush \in BOOLEAN
  /\ PromptResume \in BOOLEAN
  /\ MaxSpawnRetries \in Nat
  /\ MaxPosts \in Nat /\ MaxStops \in Nat /\ MaxCrashes \in Nat

VARIABLES
  \* the memory of the backend process
  phase,      \* "up" while it serves, "booting" while it rehydrates, "down"
  store,      \* MemStore
  idem,       \* idempotency key -> run id
  g,          \* the goroutines' locals
  waiting,    \* runs with a goroutine that awaits their child's exit
  loaded,     \* runs that this process read from the journal at boot
  toRoute,    \* <<run, cause>>: dead survivors the boot still has to route
  \* what survives it
  journal,    \* <id>.json
  alive,      \* runs with a living child
  ending,     \* what a dead child left: its output and its exit sentinel
  signalled,  \* children that an operator's Stop sent SIGTERM
  \* bounds
  nextId, posts, stops, crashes,
  \* history, read by the properties only
  launched,   \* the engines of the children started for a run id
  pushes,     \* how often a run's branch was pushed
  stopped,    \* runs whose stop took effect
  resolved    \* ended runs whose chain was resumed, parked or stopped

control  == <<phase, idem, waiting, loaded, toRoute>>
children == <<alive, ending, signalled>>
bounds   == <<nextId, posts, stops, crashes>>
history  == <<launched, pushes, stopped, resolved>>
vars     == <<store, g, control, journal, children, bounds, history>>

Spawning == {"reserve", "journal", "spawn", "setpid", "journalpid", "record"}
Exiting  == {"finalize", "get", "push", "pushgo", "plan", "schedule", "end"}
Firing   == {"fireget", "rearm"}
Stopping == {"stopmark", "stopsignal", "stopfinalize", "stopcancel"}
PC == {"idle", "snap", "write"} \cup Spawning \cup Exiting \cup Firing
        \cup Stopping
AfterJournal == {"idle", "push", "pushgo", "fireget", "end"}

Local ==
  [pc    : PC,
   next  : AfterJournal,          \* where a rejournal continues
   id    : RunId \cup {NoRun},    \* the run worked on
   pred  : RunId \cup {NoRun},    \* a successor's predecessor
   rec   : Run,                   \* a local copy of a run
   res   : PendingResume,         \* a local copy of a pending resume
   cause : Cause,
   boot  : BOOLEAN]               \* runs on the goroutine that boots

Idle ==
  [pc |-> "idle", next |-> "idle", id |-> NoRun, pred |-> NoRun,
   rec |-> Absent, res |-> NoResume, cause |-> "exit", boot |-> FALSE]

Init ==
  /\ phase = "up"
  /\ store = [i \in RunId |-> Absent]
  /\ idem = [k \in IdemKey |-> NoRun]
  /\ g = [w \in Worker |-> Idle]
  /\ waiting = {} /\ loaded = {} /\ toRoute = {}
  /\ journal = [i \in RunId |-> Absent]
  /\ alive = {}
  /\ ending = [i \in RunId |-> NoEnding]
  /\ signalled = {}
  /\ nextId = 1 /\ posts = 0 /\ stops = 0 /\ crashes = 0
  /\ launched = [i \in RunId |-> <<>>]
  /\ pushes = [i \in RunId |-> 0]
  /\ stopped = {} /\ resolved = {}

At(w, pc)   == g[w].pc = pc
Goto(w, pc) == g' = [g EXCEPT ![w].pc = pc]
Done(w)     == g' = [g EXCEPT ![w] = Idle]

(* store.Update: a no-op on a run that is not in the store.                *)
Update(i, r) ==
  store' = IF store[i].status = "absent" THEN store
           ELSE [store EXCEPT ![i] = r]

HasExit(i) == ending[i].code # "none"

-----------------------------------------------------------------------------
(* rejournal: read the run from the store, then write its record.  The two *)
(* are separate steps, so a write can be older than the store.             *)

Mut_RejournalSkipped(w, next) ==
  IF next = "idle" THEN Done(w) ELSE Goto(w, next)

Rejournal(w, next) ==
  g' = [g EXCEPT ![w].pc = "snap", ![w].next = next]

Return(w) ==
  IF g[w].next = "idle" THEN Done(w) ELSE Goto(w, g[w].next)

Snap(w) ==
  /\ At(w, "snap")
  /\ IF store[g[w].id].status = "absent"
     THEN Return(w)
     ELSE g' = [g EXCEPT ![w].pc = "write", ![w].rec = store[g[w].id]]
  /\ UNCHANGED <<store, control, journal, children, bounds, history>>

Mut_WriteDropped(w) ==
  /\ At(w, "write")
  /\ Return(w)
  /\ UNCHANGED <<store, control, journal, children, bounds, history>>

Write(w) ==
  /\ At(w, "write")
  /\ \/ journal' = [journal EXCEPT ![g[w].id] = Durable(g[w].rec)]
     \/ "rewrite" \in Faults /\ UNCHANGED journal
  /\ Return(w)
  /\ UNCHANGED <<store, control, children, bounds, history>>

-----------------------------------------------------------------------------
(* SpawnBuild and reserveAndSpawn.                                         *)

(* The idempotency key of a request is known if it maps to a stored run.   *)
KnownKey(key) ==
  /\ key # NoKey
  /\ idem[key] # NoRun
  /\ store[idem[key]].status # "absent"

(* POST of a build.  A known key returns the existing run and changes      *)
(* nothing, so only the other case is an action.                           *)
PostBuild(w, lane, key, engine) ==
  /\ phase = "up" /\ At(w, "idle") /\ posts < MaxPosts
  /\ ~KnownKey(key)
  /\ posts' = posts + 1
  /\ g' = [g EXCEPT ![w].pc = "reserve",
                    ![w].rec = NewRun(lane, key, engine, 0, 0)]
  /\ UNCHANGED <<store, control, journal, children, nextId, stops, crashes,
                 history>>

(* A successor's failed spawn goes to rearmOrPark; a request just fails.   *)
SpawnFails(w) ==
  IF g[w].pred = NoRun THEN Done(w) ELSE Goto(w, "rearm")

Unwritable(w) ==
  /\ At(w, "reserve") /\ "unwritable" \in Faults
  /\ SpawnFails(w)
  /\ UNCHANGED <<store, control, journal, children, bounds, history>>

(* Some build runs on the lane: a request re-adopts it, a resume is        *)
(* dropped as satisfied.                                                   *)
Adopt(w) ==
  /\ At(w, "reserve")
  /\ \E i \in Holders(store, g[w].rec.lane) :
       IF g[w].pred = NoRun /\ g[w].rec.key # NoKey
       THEN g' = [g EXCEPT ![w].pc = "record", ![w].id = i]
       ELSE Done(w)
  /\ resolved' = resolved \cup ({g[w].pred} \ {NoRun})
  /\ UNCHANGED <<store, control, journal, children, bounds, launched, pushes,
                 stopped>>

Reserve(w) ==
  /\ At(w, "reserve")
  /\ Holders(store, g[w].rec.lane) = {}
  /\ LET i == IF g[w].pred = NoRun THEN nextId ELSE g[w].id
     IN  /\ i \in RunId
         /\ nextId' = IF g[w].pred = NoRun THEN nextId + 1 ELSE nextId
         /\ store' = [store EXCEPT ![i] = g[w].rec]
         /\ loaded' = loaded \ {i}
         /\ g' = [g EXCEPT ![w].pc = "journal", ![w].id = i]
  /\ UNCHANGED <<phase, idem, waiting, toRoute, journal, children, posts,
                 stops, crashes, history>>

JournalRun(w) ==
  /\ At(w, "journal")
  /\ \/ /\ journal' = [journal EXCEPT ![g[w].id] = Durable(g[w].rec)]
        /\ Goto(w, "spawn")
        /\ resolved' = resolved \cup ({g[w].pred} \ {NoRun})
        /\ UNCHANGED store
     \/ /\ "write" \in Faults
        /\ store' = [store EXCEPT ![g[w].id] = Absent]
        /\ SpawnFails(w)
        /\ UNCHANGED <<journal, resolved>>
  /\ UNCHANGED <<control, children, bounds, launched, pushes, stopped>>

SpawnChild(w) ==
  /\ At(w, "spawn")
  /\ alive' = alive \cup {g[w].id}
  /\ launched' = [launched EXCEPT ![g[w].id] = Append(@, g[w].rec.engine)]
  /\ Goto(w, "setpid")
  /\ UNCHANGED <<store, control, journal, ending, signalled, bounds, pushes,
                 stopped, resolved>>

(* The spawn fails: the run leaves the store.  A missing binary parks the  *)
(* predecessor at once, any other failure is retried.                      *)
SpawnError(w) ==
  /\ At(w, "spawn")
  /\ store' = [store EXCEPT ![g[w].id] = Absent]
  /\ \/ "spawn" \in Faults /\ SpawnFails(w)
     \/ "binary" \in Faults /\ Done(w)
  /\ UNCHANGED <<control, journal, children, bounds, history>>

SetPid(w) ==
  /\ At(w, "setpid")
  /\ Update(g[w].id, [store[g[w].id] EXCEPT !.pid = TRUE])
  /\ g' = [g EXCEPT ![w].pc = "journalpid", ![w].rec.pid = TRUE]
  /\ UNCHANGED <<control, journal, children, bounds, history>>

Mut_NotAwaited(i) == waiting

Awaited(i) == waiting \cup {i}

(* Journal the pid from the local copy of the run and arm the goroutine    *)
(* that awaits the child.                                                  *)
JournalPid(w) ==
  /\ At(w, "journalpid")
  /\ \/ journal' = [journal EXCEPT ![g[w].id] = Durable(g[w].rec)]
     \/ "rewrite" \in Faults /\ UNCHANGED journal
  /\ waiting' = Awaited(g[w].id)
  /\ IF g[w].pred = NoRun /\ g[w].rec.key # NoKey
     THEN Goto(w, "record")
     ELSE Done(w)
  /\ UNCHANGED <<store, phase, idem, loaded, toRoute, children, bounds,
                 history>>

RecordIdem(w) ==
  /\ At(w, "record")
  /\ idem' = [idem EXCEPT ![g[w].rec.key] = g[w].id]
  /\ Done(w)
  /\ UNCHANGED <<store, phase, waiting, loaded, toRoute, journal, children,
                 bounds, history>>

-----------------------------------------------------------------------------
(* The end of a child: onExit, finalizeSurvived, finalizeBuild.            *)

(* The agent exits, or is killed and leaves no exit sentinel.              *)
ChildExits(i) ==
  /\ i \in alive
  /\ alive' = alive \ {i}
  /\ \E e \in Endings : ending' = [ending EXCEPT ![i] = e]
  /\ UNCHANGED <<store, g, control, journal, signalled, bounds, history>>

Mut_NotHidden(r) == r

Hidden(r) == [r EXCEPT !.finalizing = TRUE]

(* beginFinalizing: hide the handoff from observers, unless the run ended  *)
(* otherwise.                                                              *)
BeginFinalizing(w, i, cause, boot) ==
  IF store[i].status = "running"
  THEN /\ store' = [store EXCEPT ![i] = Hidden(@)]
       /\ g' = [g EXCEPT ![w].pc = "finalize", ![w].id = i,
                         ![w].cause = cause, ![w].boot = boot]
  ELSE UNCHANGED <<store, g>>

ChildGone(i) == i \notin alive

(* The goroutine that awaits a child sees its exit.  A survivor's watcher  *)
(* polls the sentinel and the pid, in this order, so it can miss a         *)
(* sentinel written in between and take the exit for an interruption.      *)
ObserveExit(w, i) ==
  /\ phase # "down" /\ At(w, "idle") /\ i \in waiting /\ ChildGone(i)
  /\ waiting' = waiting \ {i}
  /\ \E cause \in {"exit", "interrupted"} :
       /\ (cause = "interrupted") => (i \in loaded)
       /\ (i \in loaded /\ ~HasExit(i)) => (cause = "interrupted")
       /\ BeginFinalizing(w, i, cause, FALSE)
  /\ UNCHANGED <<phase, idem, loaded, toRoute, journal, children, bounds,
                 history>>

Finalize(w) ==
  /\ At(w, "finalize")
  /\ LET i  == g[w].id
         ok == g[w].cause = "exit" /\ ending[i].code = "zero"
     IN  /\ Update(i, Finalized(store[i], ok))
         /\ Goto(w, IF store[i].status = "running" THEN "get" ELSE "end")
  /\ UNCHANGED <<control, journal, children, bounds, history>>

(* Read the finalized run: a stop that lost the race for the finalization  *)
(* may still have marked it; onExit looks, finalizeSurvived does not.  The *)
(* copy is also what the rejournal writes: nothing durable changes between *)
(* the two reads of the code.                                              *)
GetFinalized(w) ==
  /\ At(w, "get")
  /\ LET r == store[g[w].id]
     IN  g' = [g EXCEPT ![w].pc = "write", ![w].next = "push", ![w].rec = r,
                        ![w].cause = IF r.stopReq /\ g[w].id \notin loaded
                                     THEN "user-stop" ELSE @]
  /\ UNCHANGED <<store, control, journal, children, bounds, history>>

(* maybePushOnComplete: test and set PushedAt and journal it, then start   *)
(* the push.  It runs on a goroutine of its own; what is counted is its    *)
(* start.                                                                  *)
ClaimPush(w) ==
  /\ At(w, "push")
  /\ LET i == g[w].id
     IN  IF /\ AutoPush /\ ~store[i].pushed
            /\ IsBuildComplete(FinalSpokenText(ending[i].out))
         THEN /\ Update(i, [store[i] EXCEPT !.pushed = TRUE])
              /\ Rejournal(w, "pushgo")
         ELSE Goto(w, "plan") /\ UNCHANGED store
  /\ UNCHANGED <<control, journal, children, bounds, history>>

StartPush(w) ==
  /\ At(w, "pushgo")
  /\ pushes' = [pushes EXCEPT ![g[w].id] = @ + 1]
  /\ Goto(w, "plan")
  /\ UNCHANGED <<store, control, journal, children, bounds, launched, stopped,
                 resolved>>

(* planResume: either nothing is to be resumed, or a successor id is drawn *)
(* and the chain state it inherits is fixed.                               *)
PlanResume(w) ==
  /\ At(w, "plan")
  /\ LET i == g[w].id
         r == g[w].rec
     IN  \E progress \in ProgressSeen, wallSpent \in WallSpent :
           IF Resumes(r.count, r.streak, ending[i], g[w].cause, progress,
                      wallSpent)
           THEN /\ nextId \in RunId
                /\ nextId' = nextId + 1
                /\ g' = [g EXCEPT
                     ![w].pc = "schedule",
                     ![w].res = [succ |-> nextId, count |-> r.count + 1,
                                 streak |-> NextStreak(r.streak, ending[i],
                                                       progress),
                                 attempts |-> 0]]
                /\ UNCHANGED resolved
           ELSE /\ Goto(w, "end")
                /\ resolved' = resolved \cup {i}
                /\ UNCHANGED nextId
  /\ UNCHANGED <<store, control, journal, children, posts, stops, crashes,
                 launched, pushes, stopped>>

Mut_ArmStopped(r) == TRUE

MayArm(r) == ~r.stopReq

(* scheduleResume: arm the resume unless the run was stopped meanwhile.    *)
ScheduleResume(w) ==
  /\ At(w, "schedule")
  /\ LET i == g[w].id
     IN  IF MayArm(store[i])
         THEN /\ Update(i, [store[i] EXCEPT !.pending = g[w].res])
              /\ Rejournal(w, "end")
         ELSE Goto(w, "end") /\ UNCHANGED store
  /\ UNCHANGED <<control, journal, children, bounds, history>>

EndFinalizing(w) ==
  /\ At(w, "end")
  /\ Update(g[w].id, [store[g[w].id] EXCEPT !.finalizing = FALSE])
  /\ Done(w)
  /\ UNCHANGED <<control, journal, children, bounds, history>>

-----------------------------------------------------------------------------
(* firePendingResume and rearmOrPark.                                      *)

(* The goroutine that armed the resume of a run is still journaling it.    *)
BeingArmed(i) ==
  \E w \in Worker : /\ g[w].id = i /\ g[w].pc \in {"snap", "write"}
                    /\ g[w].next \in {"end", "idle"}

Taken(r) == [r EXCEPT !.pending = NoResume]

Mut_TakenInMemoryOnly(w, i) ==
  /\ phase = "up" /\ At(w, "idle")
  /\ store[i].pending # NoResume
  /\ PromptResume \/ ~BeingArmed(i)
  /\ store' = [store EXCEPT ![i] = Taken(@)]
  /\ g' = [g EXCEPT ![w].pc = "fireget", ![w].id = i,
                    ![w].res = store[i].pending]
  /\ UNCHANGED <<control, journal, children, bounds, history>>

(* A resume timer or the sweep takes the pending resume of a run, if it is *)
(* the first to see it.  The sweep makes a lost timer harmless.            *)
TakeResume(w, i) ==
  /\ phase = "up" /\ At(w, "idle")
  /\ store[i].pending # NoResume
  /\ PromptResume \/ ~BeingArmed(i)
  /\ store' = [store EXCEPT ![i] = Taken(@)]
  /\ g' = [g EXCEPT ![w].pc = "snap", ![w].next = "fireget", ![w].id = i,
                    ![w].res = store[i].pending]
  /\ UNCHANGED <<control, journal, children, bounds, history>>

(* Build the successor from the predecessor, unless that was stopped.      *)
BuildSuccessor(w) ==
  /\ At(w, "fireget")
  /\ LET i == g[w].id
         r == store[i]
     IN  IF r.status = "absent" \/ r.stopReq
         THEN Done(w) /\ resolved' = resolved \cup {i}
         ELSE /\ g' = [g EXCEPT
                   ![w].pc = "reserve", ![w].pred = i, ![w].id = g[w].res.succ,
                   ![w].rec = NewRun(r.lane, r.key, r.engine,
                                     g[w].res.count, g[w].res.streak)]
              /\ UNCHANGED resolved
  /\ UNCHANGED <<store, control, journal, children, bounds, launched, pushes,
                 stopped>>

(* A failed successor spawn is armed again a bounded number of times.      *)
Rearm(w) ==
  /\ At(w, "rearm")
  /\ LET i == g[w].pred
         n == g[w].res.attempts + 1
         again == n <= MaxSpawnRetries
     IN  /\ IF again
            THEN /\ Update(i, [store[i] EXCEPT
                              !.pending = [g[w].res EXCEPT !.attempts = n]])
                 /\ resolved' = resolved \ {i}
            ELSE UNCHANGED store /\ resolved' = resolved \cup {i}
         /\ g' = [g EXCEPT ![w].pc = "snap", ![w].next = "idle",
                           ![w].id = i, ![w].pred = NoRun]
  /\ UNCHANGED <<control, journal, children, bounds, launched, pushes,
                 stopped>>

-----------------------------------------------------------------------------
(* Stop.                                                                   *)

(* Read the run.  A stop of an unknown or settled build answers 404 and    *)
(* changes nothing.                                                        *)
StopBegin(w, i) ==
  /\ phase = "up" /\ At(w, "idle") /\ stops < MaxStops
  /\ \/ store[i].status = "running"
     \/ Terminal(store[i]) /\ store[i].pending # NoResume
  /\ stops' = stops + 1
  /\ g' = [g EXCEPT
       ![w].pc = IF store[i].status = "running" THEN "stopmark"
                 ELSE "stopcancel",
       ![w].id = i, ![w].rec = store[i]]
  /\ UNCHANGED <<store, control, journal, children, nextId, posts, crashes,
                 history>>

Cancelled(i) ==
  Update(i, [store[i] EXCEPT !.stopReq = TRUE, !.pending = NoResume])

StopMark(w) ==
  /\ At(w, "stopmark")
  /\ Cancelled(g[w].id)
  /\ stopped' = stopped \cup {g[w].id}
  /\ resolved' = resolved \cup {g[w].id}
  /\ Goto(w, "stopsignal")
  /\ UNCHANGED <<control, journal, children, bounds, launched, pushes>>

(* Signal the child, if its pid was known when the run was read.           *)
StopSignal(w) ==
  /\ At(w, "stopsignal")
  /\ signalled' = IF g[w].rec.pid THEN signalled \cup {g[w].id}
                  ELSE signalled
  /\ Goto(w, "stopfinalize")
  /\ UNCHANGED <<store, control, journal, alive, ending, bounds, history>>

StopFinalize(w) ==
  /\ At(w, "stopfinalize")
  /\ Update(g[w].id, Finalized(store[g[w].id], FALSE))
  /\ Rejournal(w, "idle")
  /\ UNCHANGED <<control, journal, children, bounds, history>>

StopCancel(w) ==
  /\ At(w, "stopcancel")
  /\ Cancelled(g[w].id)
  /\ stopped' = stopped \cup {g[w].id}
  /\ resolved' = resolved \cup {g[w].id}
  /\ Rejournal(w, "idle")
  /\ UNCHANGED <<control, journal, children, bounds, launched, pushes>>

-----------------------------------------------------------------------------
(* Crash and restart: Rehydrate, RehydrateBuilds.                          *)

(* The process dies.  A record that was being written may be torn; it is   *)
(* then skipped at boot.                                                   *)
Crash ==
  /\ phase # "down" /\ crashes < MaxCrashes
  /\ crashes' = crashes + 1
  /\ phase' = "down"
  /\ store' = [i \in RunId |-> Absent]
  /\ idem' = [k \in IdemKey |-> NoRun]
  /\ g' = [w \in Worker |-> Idle]
  /\ waiting' = {} /\ loaded' = {} /\ toRoute' = {}
  /\ \E torn \in SUBSET {g[w].id : w \in {v \in Worker :
                           g[v].pc \in {"write", "journal", "journalpid"}}} :
       journal' = [i \in RunId |-> IF i \in torn THEN Absent ELSE journal[i]]
  /\ UNCHANGED <<children, nextId, posts, stops, history>>

Mut_KeysForgotten(key) == {}

(* The runs whose key a boot records: originals, never resumed successors. *)
Originals(key) ==
  {i \in RunId : /\ journal[i].status # "absent"
                 /\ journal[i].key = key /\ journal[i].count = 0}

(* The journaled builds that were running when the backend died: those     *)
(* whose agent exited meanwhile, those whose agent is alive under its      *)
(* journaled pid, and those that count as interrupted.                     *)
Unfinished == {i \in RunId : journal[i].status = "running"}
Exited == {i \in Unfinished : HasExit(i)}

Mut_NeverReattached == {}

Reattached == {i \in Unfinished \ Exited : journal[i].pid /\ i \in alive}

Mut_InterruptedIgnored == {}

Interrupted == Unfinished \ (Exited \cup Reattached)

(* Rehydrate puts every record it can read into the store as it is.        *)
Journaled == {i \in RunId : journal[i].status # "absent"}

(* Load the journal; re-attach to the living, route the others.            *)
Boot ==
  /\ phase = "down"
  /\ phase' = "booting"
  /\ store' = journal
  /\ loaded' = Journaled
  /\ idem' \in {f \in [IdemKey -> RunId \cup {NoRun}] :
                  \A k \in IdemKey :
                    IF k = NoKey \/ Originals(k) = {} THEN f[k] = NoRun
                    ELSE f[k] \in Originals(k)}
  /\ waiting' = Reattached
  /\ toRoute' = (Exited \X {"exit"}) \cup (Interrupted \X {"interrupted"})
  /\ UNCHANGED <<g, journal, children, bounds, history>>

Booting == {w \in Worker : g[w].boot}

(* The boot goroutine finalizes the dead survivors one after the other.    *)
RouteSurvivor(w, i) ==
  /\ phase = "booting" /\ Booting = {} /\ At(w, "idle")
  /\ \E cause \in {"exit", "interrupted"} :
       /\ <<i, cause>> \in toRoute
       /\ toRoute' = toRoute \ {<<i, cause>>}
       /\ BeginFinalizing(w, i, cause, TRUE)
  /\ UNCHANGED <<phase, idem, waiting, loaded, journal, children, bounds,
                 history>>

Serve ==
  /\ phase = "booting" /\ toRoute = {} /\ Booting = {}
  /\ phase' = "up"
  /\ UNCHANGED <<store, g, idem, waiting, loaded, toRoute, journal, children,
                 bounds, history>>

-----------------------------------------------------------------------------
(* A goroutine that has started takes its next step.                       *)
Step(w) ==
  \/ Snap(w) \/ Write(w)
  \/ Unwritable(w) \/ Adopt(w) \/ Reserve(w) \/ JournalRun(w)
  \/ SpawnChild(w) \/ SpawnError(w) \/ SetPid(w) \/ JournalPid(w)
  \/ RecordIdem(w)
  \/ Finalize(w) \/ GetFinalized(w) \/ ClaimPush(w) \/ StartPush(w)
  \/ PlanResume(w) \/ ScheduleResume(w) \/ EndFinalizing(w)
  \/ BuildSuccessor(w) \/ Rearm(w)
  \/ StopMark(w) \/ StopSignal(w) \/ StopFinalize(w) \/ StopCancel(w)

Request(w) ==
  \/ \E lane \in LaneKey, key \in IdemKey, engine \in RequestEngine :
       PostBuild(w, lane, key, engine)
  \/ \E i \in RunId : StopBegin(w, i)

Next ==
  \/ \E w \in Worker : Step(w) \/ Request(w)
  \/ \E w \in Worker, i \in RunId :
       ObserveExit(w, i) \/ TakeResume(w, i) \/ RouteSurvivor(w, i)
  \/ \E i \in RunId : ChildExits(i)
  \/ Crash \/ Boot \/ Serve

Spec == Init /\ [][Next]_vars

(* Started goroutines run on; the waits, the sweep and a boot that has     *)
(* begun are scheduled.  Neither a request, a stop, a crash, a restart nor *)
(* the end of an agent is ever assumed.                                    *)
Fairness ==
  /\ \A w \in Worker : WF_vars(Step(w))
  /\ \A i \in RunId :
       /\ WF_vars(\E w \in Worker : ObserveExit(w, i))
       /\ WF_vars(\E w \in Worker : TakeResume(w, i))
       /\ WF_vars(\E w \in Worker : RouteSurvivor(w, i))
  /\ WF_vars(Serve)

FairSpec == Spec /\ Fairness

-----------------------------------------------------------------------------
(* Properties.                                                             *)

(* Every variable keeps its type; the locals of a goroutine are those of   *)
(* the Go functions it runs.                                               *)
TypeOK ==
  /\ phase \in {"up", "booting", "down"}
  /\ store \in [RunId -> Run]
  /\ idem \in [IdemKey -> RunId \cup {NoRun}]
  /\ g \in [Worker -> Local]
  /\ waiting \subseteq RunId /\ loaded \subseteq RunId
  /\ toRoute \subseteq RunId \X {"exit", "interrupted"}
  /\ journal \in [RunId -> Run]
  /\ alive \subseteq RunId
  /\ ending \in [RunId -> Ending]
  /\ signalled \subseteq RunId
  /\ nextId \in Nat /\ posts \in Nat /\ stops \in Nat /\ crashes \in Nat
  /\ launched \in [RunId -> Seq(Engine)]
  /\ pushes \in [RunId -> Nat]
  /\ stopped \subseteq RunId /\ resolved \subseteq RunId

Running(i) == store[i].status = "running"
OnLane(i, j) == store[i].lane = store[j].lane /\ store[i].lane # NoLane

(* BR3: a lane has at most one running build, however requests, resumes    *)
(* and sweeps interleave.  Only a boot can find two, both in the journal:  *)
(* no build is ever started beside a running one.                          *)
LaneExclusive ==
  \A i, j \in RunId :
    i # j /\ Running(i) /\ Running(j) /\ OnLane(i, j) => {i, j} \subseteq loaded

(* The store implements a lock per lane: every store operation of every    *)
(* goroutine is a step of that lock or leaves it alone.                    *)
Lock == INSTANCE LaneLock WITH
          Lane <- LaneKey \ {NoLane}, Owner <- RunId,
          holders <- [l \in LaneKey \ {NoLane} |->
                        {i \in RunId : Running(i) /\ store[i].lane = l}]
ImplementsLaneLock == Lock!LockSpec

(* BR2: the agents of one lane do not live side by side, unless one of     *)
(* them was stopped and is still dying, or a crash hit before its pid was  *)
(* durable.                                                                *)
Orphan(i) == i \in stopped \/ ~journal[i].pid
OneLivePerLane ==
  \A i, j \in alive :
    /\ i # j
    /\ journal[i].lane = journal[j].lane /\ journal[i].lane # NoLane
    => Orphan(i) \/ Orphan(j)

(* A resume fires exactly once: timer, sweep and re-arm never launch two   *)
(* agents under one run id.                                                *)
LaunchedOnce == \A i \in RunId : Len(launched[i]) <= 1

(* BR4: a run's branch is pushed at most once, whatever finalizes it again.*)
PushedOnce == \A i \in RunId : pushes[i] <= 1

(* BR2: a stopped build is never armed for a resume by its own end; only   *)
(* the retry of a resume that was already firing can still carry one.      *)
StoppedNotArmed ==
  \A i \in RunId :
    store[i].stopReq /\ store[i].pending # NoResume
      => store[i].pending.attempts > 0

(* While the engine decides between resume and park, an observer of the    *)
(* store (the workflow service) cannot take the build for settled.         *)
LooksSettled(i) ==
  Terminal(store[i]) /\ ~store[i].finalizing /\ store[i].pending = NoResume
Deciding(w) ==
  \/ g[w].pc \in {"get", "push", "pushgo", "plan", "schedule"}
  \/ /\ g[w].pc \in {"snap", "write"}
     /\ g[w].next \in {"push", "pushgo"}
HandoffHidden ==
  \A w \in Worker : Deciding(w) => ~LooksSettled(g[w].id)

(* The turn and no-progress budgets bound every run of every chain, also   *)
(* when chain state is reloaded or a failed spawn is armed again.          *)
ChainBounded ==
  \A i \in RunId :
    /\ store[i].count <= MaxBuildResumes
    /\ store[i].streak = 0 \/ store[i].streak < NoProgressLimit

(* First write wins: a serving backend never revises the outcome of a run, *)
(* though its exit, a stop and a resume under the same id all race for it; *)
(* it only forgets a run whose spawn failed.                               *)
StatusFinal ==
  [][\A i \in RunId :
       phase # "down" /\ phase' # "down" /\ Terminal(store[i])
         => store'[i].status \in {store[i].status, "absent"}]_vars

(* With one goroutine at a time, whenever the backend rests the journal    *)
(* holds what a restart needs of every run in the store.                   *)
Quiet == phase = "up" /\ \A w \in Worker : At(w, "idle")
JournalCurrent ==
  Quiet => \A i \in RunId :
             store[i].status # "absent" => journal[i] = Durable(store[i])

(* With one request at a time, a retried request launches its build once,  *)
(* across restarts: at most one original per idempotency key.              *)
KeySpawnsOnce ==
  \A i, j \in RunId :
    /\ launched[i] # <<>> /\ launched[j] # <<>>
    /\ journal[i].key = journal[j].key /\ journal[i].key # NoKey
    /\ journal[i].count = 0 /\ journal[j].count = 0
    /\ journal[i].status # "absent" /\ journal[j].status # "absent"
    => i = j

(* The turn budget bounds the run ids a request consumes: a chain is never *)
(* planned twice from one run and its count survives a restart.            *)
BudgetHolds == nextId - 1 <= posts * (1 + MaxBuildResumes)

(* Every build whose agent ended has its chain resumed, parked or stopped  *)
(* in the end, if the backend does not crash.                              *)
Ended(i) == launched[i] # <<>> /\ i \notin alive
EveryEndResolved ==
  \A i \in RunId : Ended(i) ~> (i \in resolved \/ crashes > 0)

(* No record stays running after its agent is gone: the journal is never   *)
(* left with a phantom that blocks its lane, across crashes.               *)
NoPhantomRunning ==
  \A i \in RunId :
    (Running(i) /\ i \notin alive) ~> (~Running(i) \/ i \in alive)
=============================================================================
