----------------------------- MODULE MCAgentRun -----------------------------
EXTENDS AgentRun, TLC
CONSTANTS k1, k2, shoe, w1, w2, c1
OneProduct == [k \in Keys |-> shoe]
Symmetry == Permutations(Workers) \cup Permutations(Keys)

\* Two runs are executed; the third is admitted or refused, beside whatever the two leave.
\* (With the last id given, a caller that still waits can only give up.)
ThirdIsOnlyAdmitted ==
  run[3].status # "NONE" => run[3].status = "PENDING" /\ \A c \in Callers : caller[c] = None
=============================================================================
