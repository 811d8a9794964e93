SPECIFICATION FairSpec
CONSTANTS
  StallMs = 3
  Grace = 1
  Writes = {1, 2}
  NotesFail = TRUE
  MaxAhead = 2
  MaxCrashes = 2
INVARIANTS SparesActive
PROPERTIES HungEnds
