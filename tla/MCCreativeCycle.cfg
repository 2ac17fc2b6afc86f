SPECIFICATION Spec
CONSTANTS
  MaxRuns = 4
  History <- Drafted
  Requesters = {1, 2}
  a1 = a1
  a2 = a2
  Attempts = {a1, a2}
  MaxFaults = 1
  MaxSetbacks = 0
INVARIANT StepsWereTaken
PROPERTY EndsAreFinal
CONSTRAINT FaultsComeEarlyInTheSecond
SYMMETRY Symmetry
CHECK_DEADLOCK FALSE
