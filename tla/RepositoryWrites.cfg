\* Two requests at a time, four in all, and one failing write or death of
\* the backend.
CONSTANTS
  long = long  longTitle = longTitle  plain = plain  unasked = unasked
  yes = yes  no = no
  Client = {k1, k2}
  Text = {long, longTitle, plain, unasked}
  DecisionLists <- Lists
  TitleOf <- Titles
  Begins <- TextPrefixes
  Deadline <- Deadlines
  Decision = {yes, no}
  NoDecision = open
  PlanFile = {planA, planB}
  Id <- Ids
  InitialFiles <- Files
  NoFile = noFile
  MaxRequests = 4
  MaxFaults = 1
SPECIFICATION Spec
SYMMETRY Clients
CHECK_DEADLOCK FALSE
INVARIANTS TypeOK PrdHolds RoadmapHolds
