------------------------------ MODULE MCBdCache ------------------------------
(* Instances of BdCache for TLC. *)
EXTENDS BdCache, TLC

Symmetry == Permutations(Blocks)
==============================================================================
