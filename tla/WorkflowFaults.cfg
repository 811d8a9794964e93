\* Failing journal writes, stops, continues and a crash at every point.
CONSTANTS
  a = a  none = none
  Option = {a}
  NoOption = none
  MaxChildren = 2
  MaxResumes = 1
  MaxSpawnFailures = 1
  MaxWorkflows = 2
  Track = {"PRD", "Plan"}
  ParkedOption = {none}
  OldPhase = {"proto", "wrap"}
  MaxContinues = 1
  MaxStops = 1
  MaxCrashes = 1
  MaxFaults = 1
SPECIFICATION Spec
CHECK_DEADLOCK FALSE
INVARIANTS TypeOK OneOpenWorkflow DoneRecordsHold PushNotHidden
  OneLivePerKind
PROPERTIES OverIsFinal
