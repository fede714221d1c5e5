--------------------------- MODULE MCStoreClients ---------------------------
(***************************************************************************)
(* Two clients and three scans of one domain.                              *)
(***************************************************************************)
EXTENDS StoreClients, TLC

Of(version) == [name |-> "nginx", version |-> version]
MCServices == {Of("v1"), Of("v2")}
Symmetry == Permutations(Client)
=============================================================================
