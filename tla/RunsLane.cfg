SPECIFICATION Spec
CONSTANTS
  c1 = c1
  c2 = c2
  Client = {c1, c2}
  InitClient = {c1, c2}
  None = None
  MaxHalves = 0
  MaxFaults = 2
SYMMETRY Commands
INVARIANTS
  TypeOK
  InitExclusive
  TrueVerdict
CHECK_DEADLOCK FALSE
