---------------------------- MODULE MCPublication ----------------------------
(* A user and an activity slot at one draft.                          *)
EXTENDS Publication

=============================================================================
