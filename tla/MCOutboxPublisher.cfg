SPECIFICATION FairSpec
CONSTANTS
  Events = {e1}
  Workers = {w1, w2}
  BatchSize = 1
  AttemptCap = 2
  MaxAttempts = 2
  MaxFaults = 2
  None = None
CHECK_DEADLOCK FALSE
INVARIANTS RowsHaveReasons
PROPERTIES EventuallySettled
