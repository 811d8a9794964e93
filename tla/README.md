# Verification of saki-cli

saki-cli is a command line client and a backend that run coding agents on a
repository: plans, builds, whole work items. The backend (`src/backend`, Go)
spawns an agent as a detached process, keeps a record of it, streams its
output, and when a build agent ends its turn too early starts the next one by
itself, for hours and without anybody watching. The CLI (`src/src`,
TypeScript) starts the backend as a daemon, sends requests and follows runs.

This directory holds TLA+ models of the parts whose correctness depends on
interleavings, crashes and budgets, TLC configurations that check them on
small instances, and TLAPS proofs about them. Everything is translated from
the source; `PROJECT.json` maps every definition to its lines.

## 1. Inventory

| Component | State | Operations | What makes it hard |
|---|---|---|---|
| **Build engine** `usecase/buildengine.go` | idempotency map, one goroutine per child, one timer per pending resume | SpawnBuild, onExit, planResume, scheduleResume, firePendingResume, rearmOrPark, Sweep with the stall watchdog, Stop, RehydrateBuilds, watchSurvivedBuild | exits, timers, sweep, requests and stops race on one store; the process may die between any two steps while the agents live on |
| **Run store** `infra/memstore.go`, `domain/run.go` | run id -> run, under one mutex | Put, ReserveBuild, Update, Finalize, SetPid, Delete | check-and-put on a lane, first write of the outcome wins |
| **Run journal** `infra/journal.go`, `journalreader.go` | `<id>.json`, `<id>.out`, `<id>.exit` | Write, AppendOut, Load | written outside the store's lock, errors often dropped, some fields not recorded |
| **Outcome classification** `usecase/buildclass.go` | none | ClassifyOutcome, DetectLimit, FinalSpokenText, IsBuildComplete | the order of the tests decides between resume, park and stop |
| **Agent spawner** `infra/spawner.go`, `killer.go`, `exitwatcher.go` | process table | preflight, Spawn, wait, SignalGroup, Terminal | the exit sentinel is written by the shell, its absence means a kill |
| **Workflow service** `usecase/workflow.go` | workflows by id, by lane, by key; their journal | Start, Sweep, Continue, Stop, Rehydrate, Stream | observes the engine's store by polling, adopts children, verifies repository facts |
| **Non-build runs** `usecase/spawn.go`, `stop.go`, `reaper.go`, `rehydrate.go` | the same store | Spawn, SpawnInit, Stop, ReapExisting, Rehydrate | PRD and init lanes, polling of survivors |
| **Run stream** `usecase/stream.go`, `ndjson.go` | offset, partial line | Stream | output written between the last read and the end |
| **Backend process** `cmd/server/main.go` | daemon state file | boot order, claim, release, shutdown | rehydration comes before the claim |
| **CLI daemon control** `src/daemon.ts` | daemon state file as lock | ensureDaemon, spawnAndRecord, followWinner, stopDaemon | several CLI processes, stale files, pid reuse, a slow start |
| **CLI run following** `src/sse.ts`, `client.ts`, `commands/run.ts` | buffer | streamRun, streamWorkflow | cut frames, dropped connections |
| **PRD lock, plan track, blockers** `usecase/lock.go`, `resolveblocker.go`, `plantrack.go` | Markdown files | lock, resolve, start, ship, attach | read, change and write without a lock; the write truncates first |
| **Work items** `domain/workitems.go`, `usecase/workitems.go` | manifest, scratchpad, plan files, commits (written by agents) | resume target, progress fingerprint | marks say more than what is there; agents die between two writes |
| **Environment setup** `usecase/initenv.go` | files | init, verify | one step of several fails |
| **Views, git, HTTP, profiles, MCP, rendering** | none of their own | | I/O and formatting |

How they interact. An HTTP handler, a workflow or a resume timer calls the
build engine; the engine reserves a lane in the store, journals the run and
asks the spawner for a child. The child is a shell script that writes the exit
sentinel when the agent ends. A goroutine waits for the child and calls
`onExit`, which finalizes the run, journals it, may push the branch and may
arm a resume: a timer and a periodic sweep both fire it. The workflow service
polls the same store. At boot `Rehydrate` reads the journal into the store and
`RehydrateBuilds` re-attaches to agents that survived and routes those that
did not.

What makes each component correct: for the engine, one running build per lane,
one living agent per lane, an exactly-once resume, an at-most-once push, a stop
that stays a stop, a chain that is bounded and that is always resumed or parked,
and a watchdog that spares whoever works; for the store, first write wins; for
the journal, that it holds what a restart needs; for the classification, that no
final answer of an agent is taken for an interruption or the reverse; for the
workflow, that a phase completes only on the success of its own child and that a
child is never started twice; for the daemon, that one backend serves and that
nobody removes another's state file; for the stream, that nothing written before
the end is lost; for the writes to the repository, that what was answered stays
in the file; for the work items, that a resumed build skips nothing and that a
build that moves is seen to move.

The hazards in `PROJECT.json` name the lines where each of these may go wrong
and the property that would show it.

## 2. Modules

| Module | Models |
|---|---|
| `RunStore` | the run record, the store's reservation and finalization, the durable part of a record |
| `AgentOutput` | the frames of an agent's output and what of them are its last words |
| `BuildDecision` | classification of those words, limit detection, turn, wall-clock and no-progress budgets |
| `ResumeDelay` | when a resumed build is resumed: backoff, limit wait and reset time |
| `BuildEngine` | the engine: every goroutine, timer, sweep, stop, crash and restart |
| `Watchdog` | the stall watchdog over one running build, with its clocks as ages |
| `LaneLock` | abstract specification: a lane is a lock |
| `ChildRuns` | the runs of a lane as the workflow service can observe them |
| `Workflow` | the workflow service over `ChildRuns` |
| `Daemon` | invocations of the CLI and backends around the state file, the claim, the port and the socket |
| `Runs` | a run from the command that posts it over service, agent, reaper, stop and stream to the verdict the command prints |
| `PrdText` | the edits of a PRD, line by line |
| `RoadmapText` | the blocks of a roadmap, as they are read and rewritten |
| `Repository` | the requests that write PRD and roadmap, over the two above |
| `BuildFiles` | the files a build leaves behind, the resume target and the progress fingerprint |
| `MC...` | values for TLC, one per checked module |
| `...Proofs` | theorems about `Workflow`, `Daemon`, `Runs`, `BuildFiles`, `Watchdog` and, in three modules that build on each other, `BuildEngine`: `BuildEngineProofs` (types, lanes, chains; also `ResumeDelay`), `BuildOnceProofs` (what happens exactly once), `BuildRecordProofs` (what the records keep) |

How they compose. `BuildDecision` extends `AgentOutput`, `BuildEngine` uses
`RunStore` and `BuildDecision` and implements `LaneLock`; `ResumeDelay` says for
when the engine arms the timers that it lets fire at any time, `Watchdog` why
and when one of its children is signalled; `Workflow` extends `ChildRuns`;
`Repository` extends `PrdText` and `RoadmapText`. `Runs` has its own, smaller
run record: plain and init runs use neither resumes nor pushes, but their
clients, streams and reaper. `BuildFiles` ends where `BuildDecision` begins: its
fingerprint is what the engine compares for its no-progress budget.

### State of BuildEngine

`store`, `idem`, `waiting` are the backend's memory: `MemStore`, the `idem`
map, and the goroutines blocked in `wait()` or polling in
`watchSurvivedBuild`. `journal` is the directory of `<id>.json`, `ending` what a dead
child left in `<id>.out` and `<id>.exit`, `alive` the processes. `g` holds the
locals of each running goroutine with a pc. `phase` says whether the backend
boots, serves or is down. `launched`, `pushes`, `stopped`, `resolved` are
history that only properties read.

**Grain.** One action is one access to shared state: one closure under the
store's mutex, one journal write, one process operation. Everything else
may happen between two of them, a crash included. Three merges are exceptions:

- `GetFinalized` reads the finalized run once, where `onExit` reads it twice
  in a row (231 and, in `rejournal`, 760): no durable field changes between.
- A push is counted when its goroutine starts (281), not when git ends.
- A POST with a known idempotency key changes nothing and is no action.

**Correspondence.** `PostBuild`, `Unwritable`, `Adopt`, `Reserve`,
`JournalRun`, `SpawnChild`, `SpawnError`, `SetPid`, `JournalPid`, `RecordIdem`
are `SpawnBuild` and `reserveAndSpawn` in order. `ObserveExit`, `Finalize`,
`GetFinalized`, `Write`, `ClaimPush`, `StartPush`, `PlanResume`,
`ScheduleResume`, `EndFinalizing` are `onExit`/`finalizeSurvived` with
`finalizeBuild`. `TakeResume`, `BuildSuccessor`, then the spawn actions, then
`Rearm` are `firePendingResume`. `StopBegin`, `StopMark`, `StopSignal`,
`StopFinalize`, `StopCancel` are `Stop`. `Crash`, `Boot`, `RouteSurvivor`,
`Serve` are the death of the process and `main`'s boot. `Snap`/`Write` are
`rejournal`, deliberately two steps.

**Abstractions.** What an agent printed is a sequence of frames, each with
texts, and of a text only what some pattern of the classifier matches in its
lines; `FinalSpokenText` and the classification go through the frames as the
code does. A delay is left out: a resume may fire at any time once armed, so
timer and sweep are one action; `ResumeDelay` says what it would be. The wall
clock is one nondeterministic bit, the comparison of fingerprints a choice of
three. The stall watchdog only ever signals a child, which here may exit at any
time; when it does is `Watchdog`. A torn record is possible exactly for a record
that was being written when the process died.

**Faults** are a constant: the runs directory is not writable, the first
record or a later one cannot be written, a spawn fails, a binary is missing.

**PromptResume** is the one assumption on timing. `rejournal` reads the store
and writes the file without a lock around both. If a resume is taken while the
goroutine that armed it is still between the two, the older record may be
written last and a restart fires the resume again. The base delay is seconds, so
this takes a configured delay of nearly zero or a very slow disk. Where a run
sets PromptResume to FALSE, it assumes that this does not happen. The theorems
that need the same name it as a hypothesis (section 4).

### Watchdog

One running build stands for all, since the watchdog reads nothing that two of
them share. `quiet` and `struck` are the ages of `LastActivityAt` and
`StallKilledAt` (`Never` for nil), `silent` how long the agent has really not
made its file longer; an age stops where no comparison tells two values apart.
Time passes between sweeps and not within one, whose steps take milliseconds,
but everything else happens between `Begin`, `Look` (`IsAlive`), `ReadSize`
(`OutSize`), then `Grown`, or `Strike`, `Note`, `Term`, or `StrikeAgain`,
`KillGroup`, which are `sweepRun` in order. `fresh` says that the file is longer
than `LastOutSize`. Of its length only one more thing matters: `ahead`, how far
the watchdog's appended notes reach beyond the agent's own offset, because the
agent's shell opens the file with `>` and what it writes next falls on the notes.
`OnExit`, `Stop`, `Crash`, `Boot` are the rest of the engine as far as the
watchdog can tell. `heard` keeps what was true when the sweep read the length:
an agent that speaks between that read and the signal is signalled, which no
sweep could avoid.

### Workflow and ChildRuns

`Workflow` composes with `ChildRuns` rather than with `BuildEngine`: the
service reads the store and outputs of runs and never the engine's locals, so
one action of `ChildRuns` is one change it can see. A build that ended is
finalizing until `Route` shows the engine's decision (push, arm, park,
nothing); `Take` and `Succeed` are the hand-over, with nothing in the store in
between; `Started` and `NotStarted` end the spawn of the successor, which in the
second case leaves the store again. `EngineCrash` gives back or loses what the
engine had in flight, whichever the journal of the engine may hold.

`wf`, `owner`, `wfJournal` are `workflows`, `byLane` and the directory of
workflow records. Every handler holds the service's mutex for its whole
length, so there is one program counter, `turn`; an action is one round of
`advanceLocked` or `observeLocked` up to its `persist`. Two rounds are split
where what was read is used later: the search for a live child and the spawn
(`NoneLive`, `SpawnChild`, `RecordChild`), and the copy of a settled run and its
judgement (`Inspect`, `Judge...`). `Save` is `persist`: it may fail before
anything is written or after the rename, in both cases with the memory
changed. Where a handler ignores the error (`refreshTerminalLocked`, `Stop`,
`Rehydrate`) it goes on, elsewhere it returns.

`Start`, `Refresh`; `GiveUp`, `FirstPhase`, `SkipDone`, `LockPRD`, `Verify`,
`Finish`, `AdoptLive` and the three above (`advanceLocked`); `NoChildYet`,
`Disappeared`, `Follow`, `StillBusy`, `Inspect`, `JudgeAdopts`, `JudgePending`,
`JudgePushing`, `JudgeOutcome` (`observeLocked`); `Continue`, `Stop`,
`StopChild`, `StopByHand` (an operator stops a run past its workflow); `Crash`,
`Boot`, `Load`, `Loaded`, `Check`, `Serve` (`Rehydrate`). Its last statement, a
sweep, is the sweep that fairness demands.

**Abstractions.** What is read of the repository (the target resolves, the PRD
exists, is locked, its evidence is complete) may come out either way at each
reading; what `verify` reads of the record and of the last build's output is
kept. A record of an older version, whose last phase is done but has no
successor, is an initial state, because the code has a guard for it
(`SkipDone`). Idempotency keys are left out: a key is honoured only on its own
lane, where the lane finds the same workflow. A decision offers every option
of the constant `Option`.

### Daemon

`file` is the state file, which is also the lock of whoever spawns: its pid is
a backend's, or the sentinel -1 with a claim token; `written` says whose
sentinel already has its content, because the file is created empty. `claim` is
the `.bind-lock` file, `sock` the socket path, `litter` what dead processes left
in quarantine files. `cli` and `back` hold the program counters and locals of
the processes. An action is one file operation or one look at a process; every
quarantine, the rename out of the way, the look, the link back, is two steps,
since that is where invocations interleave.

`ReadRecord`, `CheckFile`, `RemoveState`, `Probe`, `Ready`, `Stale` are
`reuseRunningDaemon` and `awaitBackendReady`; `Acquire`, `WriteSentinel` are
`acquireStateLock`; `SpawnDaemon`, `ReadExisting`, `RenameRecord`, `Live`,
`ChildAlive`, `Confirm`, `Catch` are `spawnAndRecord`; `Follow`, `Loop` the rest
of `ensureDaemon`; `MoveAway`, `Judge` are `releaseStateFile`; `StopRead`,
`StopCheck`, `StopSignal`, `StopGrace` are `stopDaemon`. On the other side
`ListenTCP`, `CreateClaim`, `WeighRival`, `ListenUnix`, `ReadOwner`,
`WriteDaemonState`, `CloseListeners`, `RemoveOwn`, `JudgeOwn`, `ReleaseClaim`
are `main` from the port to the exit. `KillCli` and `CrashBackend` are faults.
A time-out is a choice; `Timely` says that booting backends answer within the
budgets, `Overlap` that invocations run at the same time.

### Runs

`client` is a command with what it has received: `seen` half lines read by the
tail, `got` half frames delivered, `frames` whole ones; `handler` the request in
the backend; `store`, `journal`, `watch` (who waits for the agent: goroutine or
reaper), `stop`; `agent`, `exit`, `out` the process, its sentinel and its output.
`Post`, `Resend`, `Connect`, `Drain`, `CheckStatus`, `EndStream`, `Receive`, `Drop`
are the command and the stream it follows; `BeginPlain`, `Put`, `BeginInit`,
`JournalInit`, `Spawn`, `SetPid`, `RecordPid` are `Spawn` and `SpawnInit`;
`WaitEnds`, `ReadSentinel`, `ReadPid`, `GiveUp`, `Rejournal` end a record;
`StopGet`, `StopSignal`, `StopFinalize` are `Stop`; `Crash`, `Boot` the process and
`Rehydrate`. Lines and frames are counted in halves so that each may be cut.
`InitClient` are clients that post an init run: the routes are there, the
clients (the UI) are not in this repository, and the CLI's verbs post plain runs.

### PrdText, RoadmapText and Repository

A PRD is the sequence of the lines the code looks at (marker, status, headings,
the two section marks, bullets), a roadmap the sequence of its item blocks with
status and child plan. `ApplyLock`, `ResolveQuestion`, `AppendResolvedQuestion`,
`StartPlanTrack`, `ShipPlanTrack`, `RecordChildPlan` are the edits. In
`Repository` a request reads (`Lock`, `ResolveBlocker`, `PlanStart`, `PlanShip`,
`PlanAttach`), truncates (`Truncate`) and writes (`Store`), which is what
`os.WriteFile` does; `WriteFails` and `Crash` may come in between. `promised` and
`board` are what the answers so far promise, `damaged` the files where writers
overlapped or a write broke off.

### BuildFiles

`manifest`, `plans`, `commits`, `ticks` are the files and commits;
`ComputeResumeTarget`, `StepVerified`, `ProgressFingerprint` read them.
The agent is outside the repository: its actions write what the code expects an
agent to write, in the order in which the states are named, and it may end
between any two writes. What is assumed of it: it starts at the resume target,
marks the slice in progress again, reviews what it commits before it marks it
done. Losing a plan or a commit (deleted, reset) is a fault.

## 3. Runs

| Run | Bounds | Shows |
|---|---|---|
| `engine_concurrent` | 2 goroutines, 3 run ids, 1 lane, 2 requests, 1 stop, all faults, no push, no crash | `LaneExclusive`, `StoppedNotArmed`, `StatusFinal` |
| `engine_crash` | the same with pushes and 1 crash, no faults, PromptResume FALSE | `OneLivePerLane`, `LaunchedOnce`, `PushedOnce`, `HandoffHidden` across a restart; refinement of `LaneLock` |
| `engine_sequential` | 1 goroutine, 6 run ids, keys, every ending, progress and wall-clock answer, 1 stop, 1 crash, fairness | `JournalCurrent`, `KeySpawnsOnce`, `ChainBounded`, `BudgetHolds`; live: `EveryEndResolved`, `NoPhantomRunning` |
| `watchdog_sweeps` | window 3, grace 1, writes of 1 or 2 note lengths, 2 notes ahead, failing notes, 2 crashes, fairness | `SparesActive`; live: `HungEnds` |
| `watchdog_refute_deaf` | window 2, notes that do not fail, no crash, fairness | `DeafEnds` does not hold (section 5) |
| `workflow_faults` | 2 children, 2 workflows of both tracks, 1 continue, stop, crash, failing write and failing spawn | `OneOpenWorkflow`, `DoneRecordsHold`, `PushNotHidden`, `OneLivePerKind`, `OverIsFinal` |
| `workflow_progress` | the same without failing writes, fairness | `NotStuck` |
| `daemon_sequence` | 3 invocations one after another, 1 backend started by hand, 2 attempts, 1 process killed | `OneClaim`, `NoOrphan`, `StartSucceeds` |
| `runs_lane` | 2 init clients, a retried post each, no output, 2 faults | `InitExclusive`, `TrueVerdict` |
| `runs_follow` | 1 command, 3 half lines, 3 faults, fairness | `CompleteAtEnd`, `DoneStays`; live: `EndReaches` |
| `repository_writes` | 2 requests at a time, 4 in all, 3 questions, 3 items, 1 fault | `PrdHolds`, `RoadmapHolds` |
| `build_resume` | 3 slices out of order, 2 losses, any number of agents | `ResumeSkipsNothing`, `ProgressShows` |

Each state machine has its type invariant in one of its runs, except `Watchdog`,
where it is only a theorem. The operators of `AgentOutput`, `BuildDecision` and
`ResumeDelay` are compared with definitions that say the same in another way by
the `ASSUME`s of `MCBuildEngine`, which the engine's runs evaluate: the last
words over every output of up to three lines (`FinalSpokenTextIsLastWords`), the
classification over the endings of the runs (`EndingsMeanWhatTheySay`), the
backoff (`BackoffIsCappedPower`), and the reset time at the edges of the day
(`ResetIsNextShown`).

Why the bounds are enough to be interesting. Every race in the engine is
between two goroutines (exit and stop, timer and sweep, request and resume,
exit and request), so two at a time reach each of them; a third adds no new pair.
One lane is the contended case: runs on different lanes share nothing but the
id generator. Three run ids are an original, its successor and a competitor,
or two originals and one successor. One crash is enough to compare each point
of the code with what the journal holds there; a second one repeats it on a
state that a boot produced, which `engine_sequential` also starts requests
from. Goroutines are symmetric in the two safety runs; symmetry is not used
with liveness.

In the workflow runs two children are a turn and its successor, or a child
that a handler spawned and forgot and the one that would be spawned beside it;
two workflows are one that is over and its follower, which is all that a
start, and a boot with two records, can compare. A lane that reached verify
needs two children at most when it starts at build or at an old record. With
three children the stronger statement, no two live children whatever their kind,
does not hold; section 5 says why, and `OneLivePerKind` is what is left of it.

In `watchdog_sweeps` a window of three with a grace of one lets an agent be
signalled, recover and be silent again before the grace is over; a write may fall
on the notes wholly, in part or not at all; two crashes are one that interrupts a
sweep and one in the window that the restart before it gave.

`daemon_sequence` has a predecessor, its successor and a third invocation that
finds what both left, with the code's number of attempts for the claim and two
of the three of `ensureDaemon`: what may be left behind is cleared in one. With
overlapping invocations `NoOrphan` and `StartSucceeds` do not hold (section 5
says why); for those that do not overlap they are theorems, for any number of
processes, and `OneClaim` is one for all processes, overlapping or not. In `runs_lane` two clients with two posts each
are the holder of the lane, its double and a competitor; two faults are a death
of the backend and whatever else has to go wrong with it. In `runs_follow` three
half lines are a line cut in two and a last line without an end. In
`repository_writes` two requests at a time are a reader and a writer of the same
file; four in all lock, answer by title, answer by text and answer again. In
`build_resume` three slices give one before, at and after the target with a
manifest in none of its two sorted orders.

Deadlock checking is off except in `build_resume`, where an agent can always be
spawned, and in the watchdog's runs, where time can always pass: an engine, a
daemon or a client with no request left rests, and a crashed backend that nobody
restarts is down.

**Fairness** (`FairSpec`, only in runs with liveness). In `Workflow` a handler
that has begun runs to its end, the sweep is a ticker and reaches every running
workflow, a boot that has begun comes to its end, and the engine decides and
spawns. In `BuildEngine` a goroutine that has
started takes its steps: Go schedules it. A child's exit is observed: `wait()`
returns, the survivor watch polls. A pending resume is taken: the sweep is a
ticker. A boot that has begun routes the survivors and serves. In `Runs`
goroutines and commands take their steps, the reaper polls, and a dead backend
is started again, as the next command does. In `Watchdog` time passes, as often
as it can between sweeps (strong fairness: a sweep is over in milliseconds), the
ticker sweeps, a signal is delivered, and a dead backend is started again. Nothing is
assumed of requests, stops, crashes, faults, or of agents ever ending.

## 4. Proofs

`BuildEngineProofs` proves, for every value of the constants (any number of
goroutines, run ids, lanes, keys, engines, budgets and crashes, any set of
faults):

- `TypeCorrect == Spec => []TypeOK`. `TypeOK` alone is not inductive: an
  action indexes the store by the run id in a goroutine's locals, which is
  only known to be a run id at some pcs. The inductive invariant is `TypeInv`,
  `TypeOK` with `SoundLocal` for each goroutine: outside "idle", "reserve" and
  "rearm" `id` is a run id; where a successor is spawned `pred` is one; a
  plan that is to be scheduled carries a run id that was drawn. Lemmas show
  that each way a goroutine moves on keeps its locals sound, then one lemma
  per group of handlers that its step keeps `TypeInv`.
- `LanesExclusive == Spec => []LaneExclusive`. The only actions that turn a
  run to running are `Reserve` and `Boot`. The proof shows for every other
  action that it `StartsNone` (no run becomes running or changes its lane, and
  none that is running enters or leaves `loaded`), and for `Reserve` that the
  guard on `Holders` leaves no running run on the lane. `Boot` marks whatever
  it puts in the store as `loaded`.

The second part of the module first shows that every step of the
engine changes the store, the journal and a goroutine's locals in one of few
ways (`NextStores`: nothing, the whole store at a crash or a boot, one entry by a
`Change`, or a reservation; `JournalStep`; `LocalStep`), and argues about those
instead of the actions:

- `ChainsBounded == Spec => []ChainBounded`. Turn count, streak, attempts are
  copied between store, journal, plans and locals while others run, so the
  invariant (`ChainInv`) bounds every copy; no copy changes them, and the only
  place that adds a turn is behind the test of the budget.
- `StopIsKept == Spec => []StoppedNotArmed`. `StopInv` adds that no record of the
  journal is stopped and that none is reserved that is.
- `StoreIsLaneLock == Spec => ImplementsLaneLock`: every step acquires, releases,
  restarts or leaves `LaneLock` alone. The hard step is the reservation of a
  successor, whose id was drawn long before and may have been journaled,
  reloaded and re-armed since. `LaneInv` therefore says that there is one
  assignment of a place (lane, key and turn count) to the ids drawn so far with
  which every copy agrees, in store, journal, plans and locals, that an heir's
  place follows from its parent's, and that a crash leaves no goroutine. `NextPlaces`
  says how a step extends the assignment; later proofs use it too.
- `ResetIsNext`: the reset time read from a message lies within a day after now
  and is the time the message names. `LimitWaitBounded`: a wait for a limit
  lies between the base delay and the configured wait and ends before the reset
  only where it was cut to the latter.

`BuildOnceProofs` proves what happens exactly once, for any number of
goroutines and crashes. Most of it holds only of a backend that is `Reliable`:
journal writes and spawns succeed (the runs directory may still refuse a
request), and a resume fires only after it is journaled (`~PromptResume`), or one
goroutine runs at a time. `EngineCrash.cfg` and `EngineSequential.cfg` satisfy
it. For most of it the hypothesis is needed: with two goroutines and one crash TLC finds
`LaunchedOnce`, `PushedOnce` and `HandoffHidden` violated if a rewrite may fail
or PromptResume is TRUE, `BudgetHolds` if a rewrite may fail, `PushedOnce` and
`StatusFinal` if the first write and the spawn may fail. These are the hazards at
`buildengine.go` 207 and 760. For `OneLivePerLane` TLC found no violation without
it in ten minutes; whether it can be dropped there is open.

- `LaunchesOnce`, `PushesOnce`, `HandoffIsHidden`: `LaunchedOnce`, `PushedOnce`,
  `HandoffHidden`. None is inductive, for what a run may still do is spread over
  goroutines, survivors, journal and the parent that armed it. `OnceInv` says
  that a run is in the hands of one goroutine, or awaited, or neither
  (`TurnInv`); that a pending resume has one owner, the store's record, the
  goroutine that took it or the one that spawns for it, and the copies under way
  to the journal agree (`PathInv`, `HeldInv`); that an id which is only linked to
  has not been used (`FreshInv`); and from there what may still launch, push or
  show a run (`LaunchInv`, `PushInv`, `HiddenInv`).
- `StatusesFinal`: `StatusFinal`, for a reliable backend, and for any that does
  not crash, whatever fails (`Reliable \/ MaxCrashes = 0`, which covers
  `EngineConcurrent.cfg`). Without a crash `TokenInv` is enough: a successor's id
  is either in one armed resume or in the hands of one goroutine, and is not in
  the store before that goroutine has reserved it; so no reservation falls on a
  run that has ended.
- `OneInCharge`: `OneLivePerLane`. `ChargeInv` says that whoever is awaited
  runs or was stopped, and that an agent that lives and was not stopped is awaited
  as soon as its pid is journaled, and its pid is known to the store no earlier
  than just before that.

`BuildRecordProofs` proves what the records keep:

- `RestsRecorded`: `JournalCurrent`, for one goroutine at a time and rewrites that
  do not fail, the rest of the faults allowed. `RecordInv` says that a run whose
  record differs from the journal's has a goroutine that still owes the write
  and whose copy is the store's. Two goroutines can write an older record last
  (`buildengine.go` 760).
- `KeysSpawnOnce`: `KeySpawnsOnce`, for one goroutine at a time, whatever fails.
  `KeyInv` says that in a backend that is not down the key of a launched original
  that the journal still has is in the index, where it leads to an original
  present in the store, or a goroutine serves the request that carries it. Two
  requests with one key may both miss it (`buildengine.go` 141).
- `BudgetsHold`: `BudgetHolds`, for a reliable backend and any number of
  goroutines. Of every step the proof keeps an assignment of a pair (request,
  turn count) to the ids drawn (`Ranked`): no two ids have the same, and a run
  from which a successor may still be planned (`Open`) is the last of its chain.
  A plan closes its run for ever (`PlanCloses`, from `TurnInv` and `DecideInv`), so
  the next pair is new; that there are at most requests times turns of
  them is a matter of cardinalities (`RanksCount`).

`WorkflowProofs` proves about `Workflow`, for any number of workflows,
children, requests, failing writes and crashes:

- `TypeCorrect == Spec => []TypeOK`. A phase has a successor only on its own
  track, so records are strengthened to `SoundRecord`: the workflow stands at a
  phase that its track contains.
- `LaneHasOneOpenWorkflow == Spec => []OneOpenWorkflow`. The property says
  nothing of what a handler is about to do; `IInv` adds that only the workflow
  that `owner` names can be open (`Owned`), that a handler under way works on a
  running workflow and only in a backend that is up (`Busy`), and that the boot
  verifies again only records that say done (`CheckHolds`). `Start` then finds
  no open workflow, `Load` either fails both records or leaves one historical,
  and every other step writes the workflow that already owns the lane.
- `ChildrenExclusive == Spec => []OneLivePerKind`. `LiveInv` adds that no plain
  child lives while a handler is between its search and the spawn. A build is
  kept single by the engine's own lane.
- `RecordsAreTrue == Spec => []DoneRecordsHold` and
  `NoPushHidden == Spec => []PushNotHidden`, with one invariant. `RunsInv` says
  of the runs that an id is used once and that nothing takes back a success or
  what it said, the result of a push under way excepted. `StoryInv` says, of
  every record in memory and in the journal, that each run its history names
  succeeded without a complaint and that a build in it is not being pushed
  (`Truthful`), that a workflow that waits for an operator observes no run
  (`Rests`) and that a finished one has no failed push (`Clean`); and, of the
  handler under way, that the copy it judges by is right where it says success
  (`TurnStory`), which is what makes the round split between copy and judgement
  harmless. That a phase has a last build is a maximum of a finite set, obtained
  from the well-foundedness of < instead of induction.
- `OverStaysOver == Spec => OverIsFinal`. `Behind` says that the journal of an
  open workflow is never historical and, if it says done, so does the memory:
  a write that failed leaves the journal behind, never ahead.

`DaemonProofs` proves about `Daemon`, for any number of invocations and
backends, overlapping or not, slow or not, killed or not:

- `TypeCorrect == Spec => []TypeOK`. What an invocation signals is the pid of a
  record, which is a backend's only where the record was checked; so the locals
  are strengthened to `Invocation`, and `SpawnPart` adds that no invocation
  spawns twice.
- `ClaimIsExclusive == ASSUME Elsewhere = {} PROVE Spec => []OneClaim`, for
  backends that share a port. `ClaimInv` says why the claim is exclusive
  although it is moved away all the time: the port lets one backend at a time
  through to the claim (`OneServes`), while one looks at a claim there is none
  in its place (`NoneWhileWeighed`), and a holder's claim is in its place or
  being looked at (`ClaimsKept`). So the claim alone would not do, and a backend
  on another port indeed breaks it (section 5).
- `NoneIsOrphaned` and `SpawnsComeUp`, both `ASSUME ~Overlap, Timely`: `NoOrphan`
  and `StartSucceeds`, for any number of invocations one after another. The
  hypotheses are those of `daemon_sequence`. `SequelInv` says that as long as
  nobody kills an invocation or starts a backend by hand one invocation and one
  backend are active (`Alone`), that the sentinel is the invocation's own from
  lock to spawn (`LockHeld`), and that the record names whichever backend lives
  or the invocation that still brings it up (`LivingKnown`). For the second,
  `NeatInv` adds, while no backend crashed either, that an invocation about to
  spawn finds no file and no living backend (`Spotless`), that a booting backend
  finds at most the claim of a dead one and clears it in its first try
  (`CleanClaim`), and that nothing is left behind at rest (`NeatRest`).

`BuildFilesProofs` proves about `BuildFiles`, for any finite set of slices in
any order and any number of losses:

- `TypeCorrect == Spec => []TypeOK`. The resume target is a `CHOOSE` of the
  lowest pending slice; `LowestExists` shows from the well-foundedness of < that
  there is one.
- `ProgressIsSeen == Spec => []ProgressShows`. The resume target is a function
  of what verifies (`TargetOfWork`), and an agent adds to that only at its own
  slice (`Gains`). So `ProgressInv` holds from the spawn of an agent until
  something is lost: either exactly what verified then verifies now, and the
  agent is at the target of then or nowhere, or that target has been passed and,
  as nothing is taken back, does not return.
- `ResumeIsSafe == Spec => []ResumeSkipsNothing`. `Sound` adds, per entry of the
  manifest, that a recorded commit is the slice's own, that a done slice has been
  reviewed, and that no agent is at a done slice before its last step, where it
  could commit there again without a review.

`RunsProofs` proves about `Runs`, for any number of commands, half lines and
faults, all the safety properties of its runs: `TypeCorrect`,
`OneInitAgent` (`InitExclusive`), `VerdictIsTrue` (`TrueVerdict`),
`OutputIsComplete` (`CompleteAtEnd`), `DoneIsRemembered` (`DoneStays`). One
invariant serves all: per run (`RunInv`) who works on it, what its agent, its
sentinel, its record in memory and in the journal can be at once, and that
nothing outlives the backend; per command (`CommandInv`) that what was delivered
is what was sent of what was read, and that what it was told is still true; for
the lane (`LaneInv`) that one run not left behind has it. `TrueVerdict` alone is
not inductive because the agent, the journal and the record that a command was
told about go on without it.

`WatchdogProofs` proves about `Watchdog`, for any window, grace and lengths:
`TypeCorrect`, and `ActiveIsSpared == Spec => []SparesActive`. The age the store
knows is compared with the true one only while nothing unread is in the file
(`FieldsTrue`): there the run is never taken for quiet longer than it was silent,
and a strike that ended in a signal is not older than the last growth.

The assumptions are the named `ASSUME`s of the constants' declarations and, in
the statement of the theorem, `Elsewhere = {}` for `ClaimIsExclusive`, `~Overlap`
and `Timely` for the two above, `Reliable`, `OneAtATime` or no failing rewrite for
those of `BuildOnceProofs` and `BuildRecordProofs`. Each is what the run that
checks the property assumes, or weaker. That the first three are needed TLC shows
too: on another port, with an overlap or with late answers it finds the property
violated.

Only model-checked, and why:

- `Repository`: its edits are folds over files of any length. That a fold keeps
  what it should is an induction over data, which the provers cannot do.
- Liveness (`EveryEndResolved`, `NoPhantomRunning`, `NotStuck`, `EndReaches`,
  `HungEnds`): fairness and ENABLED are out of the prover's reach.
- What `FinalSpokenText` and `Backoff` compute, which are recursive functions,
  for the same reason as `Repository`.

## 5. Where the code and its comments differ

With a run: `DeafEnds`. The comment at the grace of the watchdog
(`buildengine.go` 666-667) says that a process that ignores SIGTERM cannot stay
running for ever. The first strike appends a note to the output file (716); the
next sweep finds the file longer (697), takes that for activity and forgets the
strike, so that the kill is reached only where the note could not be written.

The following was seen while modelling and has no run of its own.

*Engine.* The engine of a run is not in its journal record, so a restart
resumes on the default agent, against the comment of `Run.Engine`
(`domain/run.go` 97-98). The comment of `Stop` (730-732) says that a stopped
build can neither arm nor fire a successor; `firePendingResume` looks at a copy
and a stop after it is not seen. A failed spawn leaves its journal record, which
a restart reads, against the comment at 207. A crash between the terminal record
and the armed resume ends the chain, against the comment at 526-527. A build that
says it is complete and asks for a decision in the same text is pushed and
awaits the decision at once. A note of the watchdog is overwritten by what the agent
writes next, since the comment of `AppendOut` (`journal.go`), which expects the
child to be dead, is not true of it; growth is seen only past the notes.

*Workflow.* After a continue the search for a successor may go back to the last
turn of the previous attempt. A failed or stopped record on a lane with another
one is rewritten at boot as a failed duplicate, which keeps its awaiting
decision and does not load the next time; of three live records the third wins.
A stop or a new start while the engine hands a build over leaves its
successor running beside the child of the next workflow; between `Take` and
`Succeed` the predecessor looks settled and is judged; a crash that cuts a push
off leaves a workflow that waits for the push line until it is stopped
(`NotStuck` exempts it); the option an operator chose is lost when the write
after it fails or the backend dies before the spawn. Two of the notes with which
the engine parks a build do not match the pattern by which the workflow
recognizes a parked one ("engine binary not found", "cancelled by operator").

The stream of a workflow moves to the successor of a build as soon as it sees one
and may miss what the predecessor wrote last.

*Daemon.* The comment at the empty lock (`daemon.ts` 394-397) says that an
unwritten lock must not be treated as stale, because that frees the lock and
spawns a second backend. `followWinner` keeps to it; `reuseRunningDaemon`, which
every invocation passes first, does not, so that overlapping invocations may
spawn two, of which the claim lets one live. A lock with a token whose owner
died is never reclaimed: `ensureDaemon` releases without a token, and the test
at `daemon.spawn.test.ts` 381 covers a lock without one. A backend on a port of
its own can take the claim of another that still serves. A process that dies
while it looks at a claim leaves the owner without one, and the owner, at its
end, removes whatever claim is there (`OneClaim` exempts it). The first record
an invocation writes may replace the one with the socket that a fast child has
published. `spawnAndRecord` reports success when another backend answers on the
port. A start during a shutdown dies on the claim of its predecessor.
Rehydration comes before port and claim.

*Runs.* A run that left the store because its agent could not be started is
reported as done (`TrueVerdict` exempts it as `Vanished`). The exit watcher
reads the sentinel and then the pid, so that a run that succeeds in between is
reported as failed; an exit file that is created and not yet written reads as
-1. A stop of a survivor is not journaled again. A failed spawn leaves a running
record. A crash between the spawn and the record of the pid reports a living
agent as failed and frees the init lane; a give-up and a stop leave agents alive
(`loose`, which the properties exempt).

*Repository.* Writers that overlap lose what the other was answered
(`PrdHolds` and `RoadmapHolds` exempt damaged files), although the comment at
`resolveblocker.go` 9-10 speaks of a durable record; a start and a ship that
overlap can move a shipped item back. A request that reads between the
truncation and the write of another sees an empty file and may freeze it,
against the comment at `lock.go` 43; a write that fails after the truncation
leaves it empty. Answering a question by its title twice adds a second
bullet, against `resolveblocker.go` 12, which calls it idempotent. Of two open
questions with one title only the first is answered per request. A longer bullet
that begins with a decision counts as that decision.

*Work items.* A plan that is lost while an agent is past it hides further
progress from the fingerprint (`ProgressShows` asks that nothing was lost since
the spawn). A build with another policy than per-step has no resume target, so
that only its ticks show.

Exemptions inside properties that hold are also statements about the code:
`OneLivePerLane` exempts agents of stopped runs (a stop frees the lane before
its agent is dead, and does not signal one whose pid is not yet known) and
agents whose pid was not durable at a crash; `StoppedNotArmed` exempts re-arms
(`rearmOrPark` does not look at `StopRequested`); `KeySpawnsOnce` and
`JournalCurrent` are checked without overlapping goroutines, because
overlapping requests with one key may both spawn, and an overlapping
rejournal may write an older record.

## 6. Not modelled

- The composition of the clocks with the rest: in `BuildEngine` a timer fires
  at any time and the watchdog is one of the reasons of an exit. The age of a
  state file is a choice. Reuse of pids.
- In `daemon_sequence` the paths that only an overlap reaches (following a
  winner that is still spawning, a second write of the record) do not fire;
  `DaemonProofs` covers them for `TypeOK` and `OneClaim`.
- What a torn read of the manifest or the scratchpad makes of the fingerprint.
- Prompts, breadcrumbs, rendering, the cut of bytes into frames, and the
  components listed as `not_modelled` in `PROJECT.json`: engine profiles and
  environment checks (strings and file reads without state), git and templates
  (one external command per request), the HTTP adapter's decoding, argument
  parsing and the MCP tools (one call per command).

## 7. Plan

1. Done: `RunStore`, `AgentOutput`, `BuildDecision`, `ResumeDelay`,
   `BuildEngine`, `Watchdog`, `LaneLock`; `ChildRuns`, `Workflow`; `Daemon`;
   `Runs`; `PrdText`, `RoadmapText`, `Repository`; `BuildFiles`. Proved: every
   safety property that a run checks except those of `Repository`, and the
   refinement of `LaneLock`.
2. Left to prove: `OneLivePerLane` without `Reliable`, if it holds. `Repository`
   would need its folds replaced by what they are for one line at a time.
3. Left to model: that what an observer sees of `BuildEngine` is a behaviour of
   `ChildRuns` (it needs run ids that are drawn rather than counted).
