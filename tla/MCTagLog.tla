------------------------------ MODULE MCTagLog ------------------------------
(* Instances of TagLog for TLC. *)
EXTENDS TagLog, TLC

Symmetry == Permutations(Pairs \ {First}) \union Permutations(Value) \union Permutations(Child)
=============================================================================
