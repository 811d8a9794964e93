\* The backend crashes anywhere and restarts from the journal.
CONSTANTS
  w1 = w1  w2 = w2  l1 = l1  noLane = noLane  k1 = k1  noKey = noKey
  claude = claude  opencode = opencode
  Worker <- TwoWorkers
  MaxRuns = 3
  LaneKey = {l1}
  NoLane = noLane
  IdemKey = {noKey}
  NoKey = noKey
  Engine = {claude}
  DefaultEngine = claude
  RequestEngine = {claude}
  MaxBuildResumes = 1
  NoProgressLimit = 2
  Endings <- TurnOrDone
  ProgressSeen = {"same"}
  WallSpent = {FALSE}
  Faults = {}
  AutoPush = TRUE
  PromptResume = FALSE
  MaxSpawnRetries = 1
  MaxPosts = 2
  MaxStops = 1
  MaxCrashes = 1
SPECIFICATION Spec
SYMMETRY Swap
CHECK_DEADLOCK FALSE
INVARIANTS OneLivePerLane LaunchedOnce PushedOnce HandoffHidden
PROPERTY ImplementsLaneLock
