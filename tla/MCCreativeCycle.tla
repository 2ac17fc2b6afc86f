--------------------------- MODULE MCCreativeCycle ---------------------------
(***************************************************************************)
(* Small instances of CreativeCycle for TLC.                               *)
(***************************************************************************)
EXTENDS CreativeCycle, TLC

CONSTANTS a1, a2

Row(kind, state, research, creative) ==
  [kind |-> kind, state |-> state, research |-> research, creative |-> creative, by |-> None]

\* A new product.
Nothing == <<>>

\* The final creative of an earlier time has a draft of a publication.
Drafted == <<Row("research", "current", None, None), Row("creative", "approved", 1, None),
               Row("producer", "drafted", 1, 2)>>

\* A fault meets a second cycle only before it publishes: what happens later is the same
\* for a first cycle.
Late == {"PUBLISHING", "MEASURING", "INTELLIGENCE", "AWAITING_EXPERIMENT_DECISION"}
FaultsComeEarlyInTheSecond ==
  faults > 0 => cycle[2].status = "NONE" \/ cycle[2].stage \notin Late

Symmetry == Permutations({a1, a2})

=============================================================================
