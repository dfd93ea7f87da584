---------------------------- MODULE MCOperations ----------------------------
(* Operations for TLC: a main environment and two branches that may clone  *)
(* from it.                                                                *)
EXTENDS Operations
=============================================================================
