SPECIFICATION Spec
CONSTANTS
  w1 = w1
  w2 = w2
  Order <- ImageAndVideo
  Images = {"i"}
  Reserved <- OneAndTwo
  Workers = {w1, w2}
  InitialCap = 2
  HigherCaps = {4}
  MaxOther = 1
  MaxTries = 2
  MaxPolls = 0
  MaxOrders = 2
  MaxFaults = 2
  Patient = TRUE
  Expires = FALSE
CONSTRAINT FewTroubles
SYMMETRY Symmetry
INVARIANT SpendIsCounted WithinCap OutcomesAreTrue
PROPERTY TasksStayKnown
CHECK_DEADLOCK FALSE
