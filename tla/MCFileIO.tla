------------------------------- MODULE MCFileIO ------------------------------
(***************************************************************************)
(* Instances of FileIO for TLC.  The file starts absent, inline, or as a   *)
(* list that fills its blocks one after the other.                         *)
(***************************************************************************)
EXTENDS FileIO

CONSTANT FirstSizes  \* sizes the file may start with

LastIndex(n) == Place[n - 1].index

\* The cells of block i of a file of n zeros in the blocks b.
LaidBlock(b, n, i) ==
    [k \in 0 .. BlockSize - 1 |->
        IF i > 0 /\ k < Skips(i) THEN b[i - 2 ^ k]
        ELSE IF \E p \in 0 .. n - 1 : Place[p] = [index |-> i, off |-> k] THEN Zero
        ELSE Filler]

MCInit ==
    /\ Mounted
    /\ \E n \in FirstSizes :
          IF n <= InlineMax
          THEN entry = InlineEntry([k \in 1 .. n |-> Zero]) /\ disk = Blank
          ELSE \E b \in Injection(0 .. LastIndex(n), Blocks) :
                 /\ entry = [head |-> b[LastIndex(n)], size |-> n, data |-> <<>>]
                 /\ disk = [x \in Blocks |->
                              IF \E i \in DOMAIN b : b[i] = x
                              THEN LaidBlock(b, n, CHOOSE i \in DOMAIN b : b[i] = x)
                              ELSE Blank[x]]

MCSpec == (Init \/ MCInit) /\ [][Next]_vars

Symmetry == Permutations(Blocks)
==============================================================================
