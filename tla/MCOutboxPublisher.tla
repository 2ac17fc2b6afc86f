-------------------------- MODULE MCOutboxPublisher --------------------------
(***************************************************************************)
(* Small instances of OutboxPublisher for TLC.                             *)
(***************************************************************************)
EXTENDS OutboxPublisher, TLC

=============================================================================
