---------------------------- MODULE MCOpenHandles ----------------------------
(* Instances of OpenHandles for TLC. *)
EXTENDS OpenHandles

Symmetry == Permutations(Pairs)
==============================================================================
