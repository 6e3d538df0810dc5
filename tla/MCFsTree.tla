------------------------------- MODULE MCFsTree -------------------------------
EXTENDS FsTree, TLC
Symmetry == Permutations(Blocks \ {S0, S1})
===============================================================================
