--------------------------- MODULE MCCommerceAction ---------------------------
(* One refund, of an order.                                                *)
EXTENDS CommerceAction

CONSTANTS r1, o1

AllRefunds == {r1}
OrderOfRefund == [p \in AllRefunds |-> o1]

=============================================================================
