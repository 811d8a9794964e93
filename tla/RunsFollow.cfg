SPECIFICATION FairSpec
CONSTANTS
  c1 = c1
  c2 = c2
  Client = {c1}
  InitClient = {}
  None = None
  MaxHalves = 3
  MaxFaults = 3
INVARIANTS
  CompleteAtEnd
  DoneStays
PROPERTIES
  EndReaches
CHECK_DEADLOCK FALSE
