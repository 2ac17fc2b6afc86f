SPECIFICATION FairSpec
CONSTANTS
  w1 = w1
  w2 = w2
  Order <- ImageAndVideo
  Images = {"i"}
  Reserved <- Ones
  Workers = {w1, w2}
  InitialCap = 3
  HigherCaps = {}
  MaxOther = 0
  MaxTries = 2
  MaxPolls = 1
  MaxOrders = 1
  MaxFaults = 1
  Patient = FALSE
  Expires = TRUE
INVARIANT DuplicatesAreAccepted
PROPERTY StartingConverges RunEnds
CHECK_DEADLOCK FALSE
