SPECIFICATION Spec
CONSTANTS
  MaxRuns = 4
  History <- Nothing
  Requesters = {1}
  a1 = a1
  a2 = a2
  Attempts = {a1, a2}
  MaxFaults = 0
  MaxSetbacks = 0
PROPERTY CancellationIsFinal
CHECK_DEADLOCK FALSE
