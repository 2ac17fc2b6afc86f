SPECIFICATION Spec
CONSTANTS
  Events = {again, order, fact}
  Workflows = {plan, cycle1}
  Cycles = {cycle1}
  Kind <- RecoveriesAndWake
  Target <- PlanAndCycle
  Workers = {w1, w2}
  BatchSize = 1
  AttemptCap = 1
  MaxFaults = 1
  None = None
  again = again
  order = order
  fact = fact
  plan = plan
  cycle1 = cycle1
CHECK_DEADLOCK FALSE
SYMMETRY Symmetry
CONSTRAINT PlanOrCycle
INVARIANTS TypeOK NothingIsLost HandlersAreAlone GenerationsAreOrdered
PROPERTIES DeliveryStepsAreSafe ImplementsDeliverOnce
