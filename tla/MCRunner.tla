------------------------------ MODULE MCRunner ------------------------------
(***************************************************************************)
(* Runner on small sets.                                                   *)
(***************************************************************************)
EXTENDS Runner

\* One product in two versions, and one recognised without a version.
MCServices ==
  { [name |-> "nginx", version |-> v] : v \in {"1.18", "1.24", NoVersion} }

MCOneService == { [name |-> "nginx", version |-> "1.18"] }

=============================================================================
