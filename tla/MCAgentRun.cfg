SPECIFICATION Spec
CONSTANTS
  k1 = k1
  k2 = k2
  shoe = shoe
  w1 = w1
  w2 = w2
  c1 = c1
  None = None
  MaxRunId = 3
  Keys = {k1, k2}
  ProductOf <- OneProduct
  Callers = {c1}
  Workers = {w1, w2}
  MaxPeriod = 2
  Reserve = 2
  MaxCost = 3
  MaxAdmitted = 2
  Bills = {1}
  MaxCharge = 2
  MaxTransport = 2
  MaxFaults = 1
INVARIANTS TypeOK LedgerMatchesRuns OneCaller ChargesAreTrue SuccessorsFollowClosedRuns
PROPERTIES ClosedRunsRest ImplementsBudgetOnce
CONSTRAINT ThirdIsOnlyAdmitted
CHECK_DEADLOCK FALSE
SYMMETRY Symmetry
