---------------------------- MODULE MCPglitePool ----------------------------
(* Clients differ in nothing but their names.                              *)
EXTENDS PglitePool, TLC
Symmetry == Permutations(Client)
=============================================================================
