SPECIFICATION FairSpec
CONSTANTS
  StallMs = 2
  Grace = 1
  Writes = {2}
  NotesFail = FALSE
  MaxAhead = 1
  MaxCrashes = 0
PROPERTIES DeafEnds
