\* Every handler, sweep and engine step that can be taken is taken.
CONSTANTS
  a = a  none = none
  Option = {a}
  NoOption = none
  MaxChildren = 2
  MaxResumes = 1
  MaxSpawnFailures = 1
  MaxWorkflows = 2
  Track = {"PRD", "Plan"}
  ParkedOption = {none}
  OldPhase = {"wrap"}
  MaxContinues = 1
  MaxStops = 1
  MaxCrashes = 1
  MaxFaults = 0
SPECIFICATION FairSpec
CHECK_DEADLOCK FALSE
PROPERTIES NotStuck
