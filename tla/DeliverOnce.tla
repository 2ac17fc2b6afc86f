---------------------------- MODULE DeliverOnce ----------------------------
(***************************************************************************)
(* What the outbox and the inbox promise together (ADR-010): an event that *)
(* has been committed is consumed at most once, and is given up as         *)
(* published only after it has been consumed.                              *)
(***************************************************************************)
CONSTANT Events

VARIABLE phase

Phases == {"absent", "committed", "consumed", "published"}

Init == phase = [e \in Events |-> "absent"]

Step(e, from, to) == phase[e] = from /\ phase' = [phase EXCEPT ![e] = to]

Commit(e) == Step(e, "absent", "committed")
Consume(e) == Step(e, "committed", "consumed")
Publish(e) == Step(e, "consumed", "published")

Next == \E e \in Events : Commit(e) \/ Consume(e) \/ Publish(e)

Spec == Init /\ [][Next]_phase

=============================================================================
