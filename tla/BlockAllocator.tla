---------------------------- MODULE BlockAllocator ----------------------------
(***************************************************************************)
(* The block allocator of littlefs (lfs_alloc and what uses it).  No free  *)
(* list is kept: a bitmap in RAM, the lookahead buffer, shows for a window *)
(* of the device which blocks the filesystem tree reaches, and the window  *)
(* circles the device as blocks are handed out.  A block that is handed    *)
(* out but not yet reachable is invisible to the scan: what keeps it safe  *)
(* is a count of blocks that may still be looked at, which operations set  *)
(* back to the whole device (lfs_alloc_ack) when they hold no such block.  *)
(***************************************************************************)
EXTENDS Naturals, FiniteSets

CONSTANTS BlockCount, \* cfg->block_count
          Lookahead,  \* bits in the lookahead buffer: 8*cfg->lookahead_size
          NoBlock,    \* the result of lfs_alloc while there is none
          NestedAck   \* may an operation ack while it holds blocks (lfs_dir_split)?

ASSUME BlockCountAssumption == BlockCount \in Nat /\ BlockCount > 1
ASSUME LookaheadAssumption  == Lookahead \in Nat \ {0}
ASSUME SwitchAssumption     == NestedAck \in BOOLEAN
ASSUME NoBlockAssumption    == NoBlock \notin Nat

VARIABLES
    off, size, i, \* free.off, free.size and free.i: the window and the place in it
    mark,   \* the bits set in free.buffer
    ack,    \* free.ack: blocks not looked at since the last ack
    pc,     \* "idle", in lfs_alloc ("scan"), or at one of its returns
    block,  \* the block lfs_alloc has just found
    held,   \* blocks an operation has taken, not reachable yet
    tree,   \* what lfs_fs_traverse visits: directories, files, open files
    spare   \* history: blocks free since the ack, and not marked by an older scan

window  == <<off, size, i, mark>>
clients == <<held, tree>>
vars    == <<off, size, i, mark, ack, pc, block, held, tree, spare>>

-------------------------------------------------------------------------------

Block == 0 .. BlockCount - 1

\* The block at place k of the window.
At(k) == (off + k) % BlockCount

\* The place of block b in a window that starts at o (lfs_alloc_lookahead).
Offset(o, b) == (BlockCount + b - o) % BlockCount

Smaller(a, b) == IF a < b THEN a ELSE b

\* The bits a scan of blocks S sets in a window at o of n places.
Marks(S, o, n) == {Offset(o, b) : b \in S} \intersect 0 .. n - 1

Returned == {"done", "full", "failed"}

\* The superblock pair: it is never released.
SuperPair   == {0, 1}
IsFormatted == SuperPair \subseteq tree

TypeOK ==
    /\ off \in Block
    /\ size \in 0 .. BlockCount
    /\ i \in 0 .. size
    /\ mark \subseteq 0 .. size - 1
    /\ ack \in 0 .. BlockCount
    /\ pc \in {"idle", "scan"} \union Returned
    /\ block \in Block \union {NoBlock}
    /\ held \subseteq Block
    /\ tree \subseteq Block
    /\ spare \subseteq Block

\* Blocks that look taken although a block may have been released since the scan.
Stale == {At(k) : k \in mark \intersect i .. size - 1}

-------------------------------------------------------------------------------
(* lfs_format starts with an empty tree and an empty window over the first    *)
(* blocks; it takes blocks 0 and 1.                                           *)
Init ==
    /\ off = 0
    /\ size = Smaller(Lookahead, BlockCount)
    /\ i = 0
    /\ mark = {}
    /\ ack = BlockCount
    /\ pc = "idle"
    /\ block = NoBlock
    /\ held = {}
    /\ tree = {}
    /\ spare = Block

-------------------------------------------------------------------------------
(* lfs_alloc.                                                                 *)

\* lfs_format takes no more than the superblock pair.
Call ==
    /\ pc = "idle"
    /\ IsFormatted \/ Cardinality(held) < 2
    /\ pc' = "scan"
    /\ UNCHANGED <<window, ack, block, clients, spare>>

\* Faulty variant: a block in use does not count as looked at.
SkipUncounted ==
    /\ pc = "scan"
    /\ i < size
    /\ i \in mark
    /\ i' = i + 1
    /\ UNCHANGED <<off, size, mark, ack, pc, block, clients, spare>>

\* A block in use is passed over.
Skip ==
    /\ pc = "scan"
    /\ i < size
    /\ i \in mark
    /\ i' = i + 1
    /\ ack' = ack - 1
    /\ UNCHANGED <<off, size, mark, pc, block, clients, spare>>

\* A free block is found.  The used blocks after it are passed over at once, so
\* that an ack that follows leaves no old marks right at the start of the window.
Take ==
    /\ pc = "scan"
    /\ i < size
    /\ i \notin mark
    /\ \E j \in i + 1 .. size :
          /\ i + 1 .. j - 1 \subseteq mark
          /\ j \notin mark
          /\ i' = j
          /\ ack' = ack - (j - i)
    /\ block' = At(i)
    /\ spare' = spare \ {block'}
    /\ pc' = "done"
    /\ UNCHANGED <<off, size, mark, clients>>

\* Every block has been looked at since the last ack: LFS_ERR_NOSPC.
NoSpace ==
    /\ pc = "scan"
    /\ i = size
    /\ ack = 0
    /\ pc' = "full"
    /\ UNCHANGED <<window, ack, block, clients, spare>>

\* Faulty variant: the window has its full size whatever was looked at already.
NextWindowWide ==
    /\ off' = (off + size) % BlockCount
    /\ size' = Smaller(Lookahead, BlockCount)
    /\ i' = 0

\* The window moves on, not further than to the blocks looked at since the ack.
NextWindow ==
    /\ off' = (off + size) % BlockCount
    /\ size' = Smaller(Lookahead, ack)
    /\ i' = 0

\* The tree is traversed into the bitmap.
Rescan ==
    /\ pc = "scan"
    /\ i = size
    /\ ack # 0
    /\ NextWindow
    /\ mark' = Marks(tree, off', size')
    /\ UNCHANGED <<ack, pc, block, clients, spare>>

\* The traversal meets an error: the bitmap is left as far as it has come.
RescanFails ==
    /\ pc = "scan"
    /\ i = size
    /\ ack # 0
    /\ NextWindow
    /\ \E seen \in SUBSET tree : mark' = Marks(seen, off', size')
    /\ pc' = "failed"
    /\ UNCHANGED <<ack, block, clients, spare>>

-------------------------------------------------------------------------------
(* Operations that allocate.                                                  *)

\* An operation starts.  Most hold nothing when they call lfs_alloc_ack; but
\* lfs_dir_split calls it too, and the compaction it is part of may belong to a
\* lfs_mkdir that has not linked the two blocks of its directory yet.
MayAck == \/ held = {}
          \/ NestedAck /\ IsFormatted /\ Cardinality(held) = 2

\* lfs_alloc_ack.
Ack ==
    /\ pc = "idle"
    /\ MayAck
    /\ ack' = BlockCount
    /\ spare' = Block \ (tree \union held \union Stale)
    /\ UNCHANGED <<window, pc, block, clients>>

\* The caller keeps the block (lfs_dir_alloc, lfs_dir_compact, lfs_file_relocate,
\* lfs_ctz_extend).
Use ==
    /\ pc = "done"
    /\ held' = held \union {block}
    /\ block' = NoBlock
    /\ pc' = "idle"
    /\ UNCHANGED <<window, ack, tree, spare>>

\* The block turns out bad and the caller asks for another one; or lfs_alloc has
\* returned an error.
Drop ==
    /\ pc \in Returned
    /\ pc = "done" => IsFormatted
    /\ block' = NoBlock
    /\ pc' = "idle"
    /\ UNCHANGED <<window, ack, clients, spare>>

\* A block becomes reachable: its directory is committed, or its file is open
\* and flagged as being written.
Link(b) ==
    /\ pc = "idle"
    /\ b \in held
    /\ held' = held \ {b}
    /\ tree' = tree \union {b}
    /\ UNCHANGED <<window, ack, pc, block, spare>>

\* The operation fails and forgets a block it took.
Abandon(b) ==
    /\ pc = "idle"
    /\ b \in held
    /\ held' = held \ {b}
    /\ UNCHANGED <<window, ack, pc, block, tree, spare>>

\* A block is no longer reachable: a file was removed, truncated or rewritten,
\* a directory removed or moved.
Release(b) ==
    /\ pc = "idle"
    /\ b \in tree \ SuperPair
    /\ tree' = tree \ {b}
    /\ UNCHANGED <<window, ack, pc, block, held, spare>>

\* Faulty variant: the position is drawn anew and the old bitmap is kept.
MountKeepsWindow(o, S) ==
    /\ IsFormatted
    /\ off' = o
    /\ ack' = BlockCount
    /\ tree' = tree \ S
    /\ held' = {}
    /\ pc' = "idle"
    /\ block' = NoBlock
    /\ spare' = Block \ tree'
    /\ UNCHANGED <<size, i, mark>>

\* The device is mounted, after lfs_unmount or a power loss: the window is empty
\* at a place drawn from the seed.  Blocks of open files not synced yet, S among
\* them, are free again; a commit that was under way counts as made, or not made.
Mount(o, S) ==
    /\ IsFormatted
    /\ off' = o
    /\ size' = 0
    /\ i' = 0
    /\ mark' = {}
    /\ ack' = BlockCount
    /\ tree' = tree \ S
    /\ held' = {}
    /\ pc' = "idle"
    /\ block' = NoBlock
    /\ spare' = Block \ tree'

-------------------------------------------------------------------------------

Alloc == Skip \/ Take \/ NoSpace \/ Rescan

Client == \/ Call \/ Ack \/ Use \/ Drop
          \/ \E b \in Block : Link(b) \/ Abandon(b) \/ Release(b)
          \/ \E o \in Block, S \in SUBSET (tree \ SuperPair) : Mount(o, S)

Next == Alloc \/ Client

Spec == Init /\ [][Next]_vars

\* lfs_alloc is a loop in a single thread: once called it runs.
FairSpec == Spec /\ WF_vars(Alloc)

\* The same on a device whose reads may fail.
ErrorSpec == Init /\ [][Next \/ RescanFails]_vars

-------------------------------------------------------------------------------
(* Properties.                                                                *)

\* A block that lfs_alloc returns is not reachable, and no operation has taken it
\* and not linked it yet.
NoDoubleUse == pc = "done" => block \notin tree \union held

\* LFS_ERR_NOSPC means that there is nothing to find: every block was in use when
\* the operation acked, was handed out since, or was marked by a scan made before
\* the ack and not repeated (lfs_alloc, "check if we have looked at all blocks
\* since last ack").
NoEarlyNoSpace == pc = "full" => spare = {}

\* lfs_alloc returns: the window cannot circle a device that is full for ever.
AllocReturns == (pc = "scan") ~> (pc # "scan")

-------------------------------------------------------------------------------
(* The inductive invariant, for operations that hold nothing when they ack.   *)

\* How far block b lies ahead of the next place to look at.
Cursor  == At(i)
Dist(b) == IF b >= Cursor THEN b - Cursor ELSE b + BlockCount - Cursor

\* Fewer blocks are left in the window than may be looked at.
AckInv == size - i <= ack

\* Of the blocks left in the window, those in use are marked.
WindowInv == \A b \in tree \union held :
                 Dist(b) < size - i => i + Dist(b) \in mark

\* Blocks taken and not linked lie where the window does not come before an ack.
HeldInv == \A b \in held : Dist(b) >= ack

\* Spare blocks are free, and the window will come to them.
SpareInv == \A b \in spare :
               /\ b \notin tree \union held
               /\ Dist(b) < ack
               /\ Dist(b) < size - i => i + Dist(b) \notin mark

\* The block just found is the last one looked at but for marked ones.
FoundInv == pc = "done" => /\ block \in Block \ (tree \union held \union spare)
                           /\ Dist(block) >= ack
                           /\ Dist(block) < size - i => i + Dist(block) \in mark

IInv == /\ TypeOK /\ AckInv /\ WindowInv /\ HeldInv /\ SpareInv /\ FoundInv
        /\ (pc = "full" => i = size /\ ack = 0)

===============================================================================
