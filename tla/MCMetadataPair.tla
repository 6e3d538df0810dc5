---------------------------- MODULE MCMetadataPair ----------------------------
(***************************************************************************)
(* Instances of MetadataPair for TLC.  The device starts with blocks that  *)
(* have one revision and hold an old commit or nothing: the revisions that *)
(* matter are those the pair's own commits produce from there.             *)
(***************************************************************************)
EXTENDS MetadataPair, TLC

Stale(r, log) == [rev |-> r, log |-> log, tail |-> "garbage"]

MCInit ==
    /\ \E r \in Rev, v \in Value, used \in SUBSET Blocks :
          disk = [b \in Blocks |-> Stale(r, IF b \in used THEN <<v>> ELSE <<>>)]
    /\ Init
    /\ \A b \in Blocks : HasCommit(disk, b) => (b \in SuperBlocks <=> IsLinked)

MCSpec == MCInit /\ [][Next]_vars
MCFairSpec == MCSpec /\ WF_vars(Driver)

Symmetry == Permutations(Blocks \ SuperBlocks) \union Permutations(Value)
===============================================================================
