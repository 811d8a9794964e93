\* One goroutine at a time: every way an agent may end, both budgets within
\* reach, a request that may be retried with its key, a stop and a crash;
\* every started goroutine makes progress.
CONSTANTS
  w1 = w1  w2 = w2  l1 = l1  noLane = noLane  k1 = k1  noKey = noKey
  claude = claude  opencode = opencode
  Worker <- OneWorker
  MaxRuns = 6
  LaneKey = {l1}
  NoLane = noLane
  IdemKey = {k1}
  NoKey = noKey
  Engine = {claude}
  DefaultEngine = claude
  RequestEngine = {claude}
  MaxBuildResumes = 2
  NoProgressLimit = 2
  Endings <- AllEndings
  ProgressSeen = {"same", "advanced"}
  WallSpent = {FALSE, TRUE}
  Faults = {}
  AutoPush = TRUE
  PromptResume = TRUE
  MaxSpawnRetries = 1
  MaxPosts = 2
  MaxStops = 1
  MaxCrashes = 1
SPECIFICATION FairSpec
CHECK_DEADLOCK FALSE
INVARIANTS JournalCurrent KeySpawnsOnce ChainBounded BudgetHolds
PROPERTIES EveryEndResolved NoPhantomRunning
