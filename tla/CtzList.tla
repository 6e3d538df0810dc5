------------------------------ MODULE CtzList -------------------------------
(***************************************************************************)
(* The CTZ skip list of a file (lfs_ctz_index, _find, _extend, _traverse). *)
(* The blocks of a file are numbered from 0; block i > 0 starts with one   *)
(* pointer for every power of two that divides i, the k-th one to block    *)
(* i - 2^k.  A list is known by its last block and the size of the file.   *)
(* Sizes are counted in cells, the smallest unit the device programs.      *)
(***************************************************************************)
EXTENDS Naturals, FiniteSetsExt, SequencesExt

CONSTANTS Blocks,      \* the blocks that may hold file data
          BlockSize,   \* cfg->block_size
          PointerSize, \* what a block number takes, sizeof(lfs_block_t)
          CacheSize,   \* cfg->cache_size
          Reach,       \* the largest size placement is computed for
          Filler,      \* a cell that holds no data of a file: 0xff
          NoBlock      \* LFS_BLOCK_NULL

ASSUME SizeAssumption ==
    /\ BlockSize \in Nat /\ PointerSize \in Nat \ {0} /\ CacheSize \in Nat \ {0}
    /\ Reach \in Nat
    /\ BlockSize > 2 * PointerSize
    /\ BlockSize % CacheSize = 0
ASSUME CellAssumption == NoBlock \notin Blocks /\ Filler \notin Blocks

-----------------------------------------------------------------------------
(* Bits (lfs_util.h).                                                        *)

Popc[n \in Nat] == IF n = 0 THEN 0 ELSE (n % 2) + Popc[n \div 2]

Ctz[n \in Nat \ {0}] == IF n % 2 = 1 THEN 0 ELSE 1 + Ctz[n \div 2]

\* The least k with 2^k >= n.
Npw2[n \in Nat \ {0}] == IF n = 1 THEN 0 ELSE 1 + Npw2[(n + 1) \div 2]

\* 2^k.
Pow2[k \in Nat] == IF k = 0 THEN 1 ELSE 2 * Pow2[k - 1]

\* The blocks are large enough for the formula in lfs_ctz_index.  The check in lfs_init
\* (4*lfs_npw2(0xffffffff / (block_size-2*4)) <= block_size) admits a little more: blocks of
\* 104 and 108 bytes, for which the formula is right only up to 805306367 and 1677721599.
ASSUME FormulaAssumption ==
    \A i \in 0 .. Reach :
        (BlockSize - 2 * PointerSize) * i <= Reach => PointerSize * (Popc[i] + 4) <= BlockSize

-----------------------------------------------------------------------------
(* Where byte `size` of a file lies: the number of the block and the place   *)
(* in it, without walking the list.                                          *)

\* Faulty variant: one pointer too few is counted.
CtzIndexShort(size) ==
    LET b == BlockSize - 2 * PointerSize
        i == (size - PointerSize * (Popc[size \div b - 1] + 1)) \div b
    IN  IF size < b
        THEN [index |-> 0, off |-> size]
        ELSE [index |-> i, off |-> size - b * i - PointerSize * Popc[i]]

CtzIndex(size) ==
    LET b == BlockSize - 2 * PointerSize
        i == (size - PointerSize * (Popc[size \div b - 1] + 2)) \div b
    IN  IF size < b
        THEN [index |-> 0, off |-> size]
        ELSE [index |-> i, off |-> size - b * i - PointerSize * Popc[i]]

\* The number of pointers a block starts with.
Skips(i) == Ctz[i] + 1

\* What the formula stands for: the blocks filled one after the other.
Laid[p \in Nat] ==
    IF p = 0 THEN [index |-> 0, off |-> 0]
    ELSE LET q == Laid[p - 1]
         IN  IF q.off + 1 < BlockSize THEN [q EXCEPT !.off = @ + 1]
             ELSE [index |-> q.index + 1, off |-> PointerSize * Skips(q.index + 1)]

Place == [p \in 0 .. Reach |-> Laid[p]]

\* The formula that finds a byte without walking agrees with blocks that are filled one
\* after the other (lfs_ctz_index).
IndexIsPlace == \A p \in 0 .. Reach : CtzIndex(p) = Place[p]

-----------------------------------------------------------------------------
(* Reading and programming.  A device maps blocks to their cells; a cache    *)
(* holds cells of one block that are not programmed yet.                     *)

NoCache == [block |-> NoBlock, off |-> 0, data |-> <<>>]

\* lfs_bd_read of one cell: what is in the cache has not reached the device.
Peek(device, c, b, k) ==
    IF c.block = b /\ k \in c.off .. c.off + Len(c.data) - 1
    THEN c.data[k - c.off + 1]
    ELSE IF b \in Blocks THEN device[b][k] ELSE Filler

\* The k-th pointer of a block.
Pointer(device, c, b, k) == Peek(device, c, b, PointerSize * k)

\* Cells s written at place k of a sequence; what lies between is not set.
Overlay(old, k, s) ==
    [j \in 1 .. Max({Len(old), k + Len(s)}) |->
        IF j \in k + 1 .. k + Len(s) THEN s[j - k]
        ELSE IF j <= Len(old) THEN old[j] ELSE Filler]

\* The cache once it has taken the cells s at place k of block b.
Filled(c, b, k, s) ==
    LET start == IF c.block = NoBlock THEN k ELSE c.off
    IN  [block |-> b, off |-> start, data |-> Overlay(c.data, k - start, s)]

\* A full cache is written out; n is how often, `kept` what is left in it.
Flushes(c) == Len(c.data) \div CacheSize
Kept(c, n) ==
    IF n * CacheSize = Len(c.data) THEN NoCache
    ELSE [c EXCEPT !.off = @ + n * CacheSize,
                   !.data = SubSeq(@, n * CacheSize + 1, Len(@))]

\* The device with the first n cells of the cache written to it.
Written(device, c, n) ==
    [device EXCEPT ![c.block] =
        [k \in DOMAIN @ |-> IF k \in c.off .. c.off + n - 1
                            THEN c.data[k - c.off + 1] ELSE @[k]]]

\* The device when writing chunk j of the cache fails: it holds something else.
Spoilt(device, c, j) ==
    [Written(device, c, (j - 1) * CacheSize) EXCEPT ![c.block] =
        [k \in DOMAIN @ |-> IF k \in c.off + (j - 1) * CacheSize .. c.off + j * CacheSize - 1
                            THEN Filler ELSE @[k]]]

Erased(device, b) == [device EXCEPT ![b] = [k \in DOMAIN @ |-> Filler]]

-----------------------------------------------------------------------------
(* Walking the list.                                                         *)

\* How far lfs_ctz_find goes back from block c towards block t.
Skip(c, t) == Min({Npw2[c - t + 1] - 1, Ctz[c]})

\* The block with number t, found from block h with number c.
Walk(device, h, c, t) ==
    LET at[k \in 0 .. c] ==  \* after k turns of the loop
            IF k = 0 THEN [block |-> h, index |-> c]
            ELSE LET w    == at[k - 1]
                     next == Pointer(device, NoCache, w.block, Skip(w.index, t))
                 IN  IF w.index <= t THEN w
                     ELSE [block |-> IF next \in Blocks THEN next ELSE NoBlock,
                           index |-> w.index - Pow2[Skip(w.index, t)]]
    IN  at[c].block

\* lfs_ctz_find: block and place of cell pos in the list (head, size).
CtzFind(device, head, size, pos) ==
    [block |-> IF size = 0 THEN NoBlock
               ELSE Walk(device, head, CtzIndex(size - 1).index, CtzIndex(pos).index),
     off   |-> IF size = 0 THEN 0 ELSE CtzIndex(pos).off]

\* The blocks lfs_ctz_traverse visits: two pointers at a time where there are two.
CtzTraverse(device, c, head, size) ==
    LET last == CtzIndex(size - 1).index
        at[k \in 0 .. last] ==
            IF k = 0 THEN [block |-> head, index |-> last, seen |-> {head}]
            ELSE LET w     == at[k - 1]
                     count == 2 - (w.index % 2)
                     p(j)  == Pointer(device, c, w.block, j)
                 IN  IF w.index = 0 THEN w
                     ELSE [block |-> p(count - 1),
                           index |-> w.index - count,
                           seen  |-> w.seen \union ({p(j) : j \in 0 .. count - 1} \intersect Blocks)]
    IN  IF size = 0 \/ head \notin Blocks THEN {} ELSE at[last].seen

\* Faulty variant: every pointer to the same block.
NewPointersSame(device, h, i) == [j \in 1 .. PointerSize * Skips(i) |-> h]

\* The pointers of block i of a list whose block i - 1 is h (lfs_ctz_extend).
NewPointers(device, h, i) ==
    LET p[k \in Nat] == IF k = 0 THEN h
                        ELSE LET b == p[k - 1]
                             IN  IF b \in Blocks THEN Pointer(device, NoCache, b, k - 1) ELSE NoBlock
    IN  [j \in 1 .. PointerSize * Skips(i) |->
            IF (j - 1) % PointerSize = 0 THEN p[(j - 1) \div PointerSize] ELSE Filler]

-----------------------------------------------------------------------------
(* What a list means: the blocks by their first pointers, and the cells of   *)
(* the file that lie in them.                                                *)

Block(device, c, head, size, i) ==
    LET at[j \in Nat] ==
            IF j = 0 THEN head
            ELSE LET b == at[j - 1]
                 IN  IF b \in Blocks THEN Pointer(device, c, b, 0) ELSE NoBlock
    IN  at[Place[size - 1].index - i]

ListBlocks(device, c, head, size) ==
    IF size = 0 THEN {}
    ELSE {Block(device, c, head, size, i) : i \in 0 .. Place[size - 1].index}

Cells(device, c, head, size) ==
    [p \in 1 .. size |->
        Peek(device, c, Block(device, c, head, size, Place[p - 1].index), Place[p - 1].off)]

\* Every pointer of every block points where it should.
IsList(device, c, head, size) ==
    size > 0 =>
        LET at(i) == Block(device, c, head, size, i)
        IN  /\ IsInjective([i \in 0 .. Place[size - 1].index |-> at(i)])
            /\ \A i \in 0 .. Place[size - 1].index :
                  /\ at(i) \in Blocks
                  /\ i > 0 => \A k \in 0 .. Ctz[i] :
                                  Pointer(device, c, at(i), k) = at(i - Pow2[k])

=============================================================================
