SPECIFICATION Spec
CONSTANTS
  Procs = {p1, p2}
  Ops = {o1}
  Versions = {1, 2}
  Inputs = {i1}
  Policy <- MixedPolicy
  MaxAttempts = 2
  None = None
SYMMETRY Symmetry
INVARIANTS TypeOK AtMostOneEffect OutcomesAreTrue OnlyGovernedEffects
PROPERTIES OrphanStaysBlocked RefusalIsFinal ImplementsEffectOnce
