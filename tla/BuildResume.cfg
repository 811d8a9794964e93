\* Three slices and two losses; agents are killed and spawned without bound.
CONSTANTS
  Slice = {1, 2, 3}
  Order <- OutOfOrder
  None = None
  MaxLosses = 2
SPECIFICATION Spec
INVARIANTS TypeOK ResumeSkipsNothing ProgressShows
