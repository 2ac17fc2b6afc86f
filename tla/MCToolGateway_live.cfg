SPECIFICATION FairSpec
CONSTANTS
  Procs = {p1, p2}
  Ops = {o1}
  Versions = {1}
  Inputs = {i1}
  Policy <- OnlyAllow
  MaxAttempts = 2
  None = None
PROPERTY InvocationEnds
