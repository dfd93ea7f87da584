----------------------------- MODULE MCWasmtime -----------------------------
(***************************************************************************)
(* Instance of Wasmtime for TLC.  Three components, so that a rebuild can  *)
(* prune the snapshot a failed call puts back; they are interchangeable.   *)
(***************************************************************************)
EXTENDS Wasmtime, TLC

Symmetry == Permutations(Component)
=============================================================================
