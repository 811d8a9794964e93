SPECIFICATION Spec
CONSTANTS
  c1 = c1
  c2 = c2
  c3 = c3
  m1 = m1
  Cli = {c1, c2, c3}
  Manual = {m1}
  Elsewhere = {}
  Nobody = Nobody
  Sentinel = Sentinel
  MaxAttempts = 2
  Overlap = FALSE
  Timely = TRUE
  MaxFaults = 1
INVARIANTS
  TypeOK
  OneClaim
  NoOrphan
  StartSucceeds

CHECK_DEADLOCK FALSE
