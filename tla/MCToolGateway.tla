--------------------------- MODULE MCToolGateway ---------------------------
(***************************************************************************)
(* Small instances of ToolGateway for TLC.                                 *)
(***************************************************************************)
EXTENDS ToolGateway, TLC

\* Snapshot 1 allows the tool, snapshot 2 requires approval for it.
MixedPolicy == <<"ALLOW", "REQUIRES_APPROVAL">>
\* Snapshot 1 allows the tool, snapshot 2 denies it.
AllowPolicy == <<"ALLOW", "DENY">>
OnlyAllow == <<"ALLOW">>

Symmetry == Permutations(Procs)

=============================================================================
