SPECIFICATION FairSpec
CONSTANTS
  MaxRuns = 4
  History <- Nothing
  Requesters = {1}
  a1 = a1
  a2 = a2
  Attempts = {a1}
  MaxFaults = 1
  MaxSetbacks = 1
INVARIANTS StagesAreEarned
PROPERTY CyclesFollow
CHECK_DEADLOCK FALSE
