----------------------------- MODULE MetadataPair -----------------------------
(***************************************************************************)
(* One metadata pair of littlefs: two erase blocks that hold a log of      *)
(* commits, the handle the driver keeps in RAM (lfs_mdir_t), and the       *)
(* pointer to the pair in the parent directory.                            *)
(*                                                                         *)
(* lfs_dir_commit appends to the current block while its tail is erased    *)
(* and there is room; otherwise, and when the append turns out corrupted,  *)
(* lfs_dir_compact writes the whole directory into the other block, moving *)
(* that half of the pair to a fresh block when it is bad or worn.  Every   *)
(* stage is a step of its own, so a power loss or an I/O error can fall    *)
(* between any two of them.                                                *)
(*                                                                         *)
(* A commit's payload is the whole content it leaves the directory with:   *)
(* what the tags in it say is the subject of other modules.                *)
(***************************************************************************)
EXTENDS Naturals, Sequences, FiniteSets

CONSTANTS Blocks,      \* erase blocks of the device
          SuperBlocks, \* the blocks 0 and 1, home of the superblock
          Value,       \* contents of a directory
          NoValue,     \* content of a pair that no parent names
          RevMod,      \* revision counts wrap at 2^32 in the code
          BlockCycles, \* cfg->block_cycles, 0 when wear leveling is off
          LogMax,      \* bound: commits that fit in a block
          GarbageRev,  \* bound: revisions an erased or half written block may show
          MaxBad,      \* bound: blocks that wear out during a behaviour
          KeepHandle   \* does the caller go on with its handle after an error?

ASSUME BlocksAssumption == SuperBlocks \subseteq Blocks
ASSUME RevAssumption    == RevMod \in Nat /\ RevMod > 6 /\ RevMod % 2 = 0
                           /\ GarbageRev \subseteq 0 .. RevMod - 1
ASSUME LogAssumption    == LogMax \in Nat \ {0} /\ BlockCycles \in Nat /\ MaxBad \in Nat
ASSUME ValueAssumption  == NoValue \notin Value /\ KeepHandle \in BOOLEAN

VARIABLES
    disk,   \* what each block holds: revision, valid commits, state of its tail
    bad,    \* blocks on which an erase or a program may fail
    ptr,    \* the pair the parent directory names, <<>> before it is linked
    mdir,   \* the handle: pair (current block first), rev, off, erased
    pc,     \* how far lfs_dir_commit has come
    target, \* the content the commit in progress leads to
    moved,  \* lfs_dir_compact's relocated and exhausted: "no", "bad" or "worn"
    taken,  \* blocks lfs_alloc handed out since the last lfs_alloc_ack
    known   \* history: the content of the last commit that returned success

vars == <<disk, bad, ptr, mdir, pc, target, moved, taken, known>>

-------------------------------------------------------------------------------
(* Revision counts. *)

Rev == 0 .. RevMod - 1

NextRev(r) == IF r = RevMod - 1 THEN 0 ELSE r + 1

\* rev += rev & 1, on a 32 bit number
EvenRev(r) == IF r % 2 = 0 THEN r ELSE NextRev(r)

\* The unsigned difference a - b.
RevDistance(a, b) == IF a >= b THEN a - b ELSE a + RevMod - b

\* Faulty variant: revisions compared as unsigned numbers.
NewerUnsigned(a, b) == a > b

\* lfs_scmp(a, b) > 0: the difference, read as a signed number, is positive.
Newer(a, b) == a # b /\ 2 * RevDistance(a, b) < RevMod

-------------------------------------------------------------------------------
(* Blocks and the fetch that finds the directory in a pair. *)

\* The space past the last valid commit: untouched since the erase, programmed
\* in part by a commit that was cut short but still reading as erased where the
\* next tag would be, or holding something that reads as a tag.
TailState == {"erased", "torn", "garbage"}

Log == UNION {[1 .. n -> Value] : n \in 0 .. LogMax}

Block == [rev : Rev, log : Log, tail : TailState]

Pair == Blocks \X Blocks

IsLinked == ptr # <<>>
InPair(p) == IF p = <<>> THEN {} ELSE {p[1], p[2]}
Swap(p) == <<p[2], p[1]>>

HasCommit(d, b) == d[b].log # <<>>

\* The order in which the fetch tries the halves: the higher revision first.
Order(d, p) == IF Newer(d[p[2]].rev, d[p[1]].rev) THEN Swap(p) ELSE p

\* Faulty variant: the half with the higher revision is taken without a valid commit.
CurrentByRevision(d, p) == Order(d, p)

\* The first half with a valid commit is the current one.
Current(d, p) == LET q == Order(d, p)
                 IN IF HasCommit(d, q[1]) THEN q ELSE Swap(q)

Mdir == [pair : Pair, rev : Rev, off : 0 .. LogMax, erased : BOOLEAN]

\* The handle lfs_dir_fetch makes.
Fetch(d, p) ==
    LET q == Current(d, p)
    IN [pair   |-> q,
        rev    |-> d[q[1]].rev,
        off    |-> Len(d[q[1]].log),
        erased |-> d[q[1]].tail # "garbage"]

\* The content such a handle gives.
ContentAt(d, p) == LET log == d[Current(d, p)[1]].log
                   IN IF log = <<>> THEN NoValue ELSE log[Len(log)]

\* Only the blocks of the linked pair are kept: the others are free again, and
\* whatever uses them next overwrites them.
Blank == [rev |-> 0, log |-> <<>>, tail |-> "garbage"]
Kept(d, p) == IF p = <<>> THEN d
              ELSE [b \in Blocks |-> IF b \in InPair(p) THEN d[b] ELSE Blank]

\* What a mount finds through the parent's pointer.
Recovered == IF IsLinked THEN ContentAt(disk, ptr) ELSE NoValue

\* lfs_pair_cmp(pair, {0, 1}) == 0
IsSuper(p) == InPair(p) \intersect SuperBlocks # {}

Resting == {"off", "absent", "idle", "failed"}
Busy    == {"append", "verify", "compact", "erase", "prog", "check", "relocate", "link"}

TypeOK ==
    /\ disk \in [Blocks -> Block]
    /\ bad \subseteq Blocks
    /\ ptr \in Pair \union {<<>>}
    /\ mdir \in Mdir \union {<<>>}
    /\ pc \in Resting \union Busy
    /\ target \in Value \union {NoValue}
    /\ moved \in {"no", "bad", "worn"}
    /\ taken \subseteq Blocks
    /\ known \in Value \union {NoValue}

-------------------------------------------------------------------------------
(* Initial states: a directory that is still to be made, on a device whose    *)
(* blocks hold whatever earlier use left in them, or the superblock pair of a *)
(* formatted device, not mounted yet.                                         *)

\* a is the current half of the pair {a, b}, whichever way the pair is read.
Wins(d, a, b) == /\ HasCommit(d, a)
                 /\ HasCommit(d, b) => Newer(d[a].rev, d[b].rev)

Init ==
    /\ disk \in [Blocks -> Block]
    /\ bad = {}
    /\ mdir = <<>>
    /\ \/ /\ pc = "absent"
          /\ ptr = <<>>
       \/ /\ pc = "off"
          /\ ptr \in SuperBlocks \X SuperBlocks
          /\ ptr[1] # ptr[2]
          /\ Wins(disk, ptr[1], ptr[2])
    /\ target = NoValue
    /\ moved = "no"
    /\ taken = {}
    /\ known = Recovered

-------------------------------------------------------------------------------
(* Callers of the commit. *)

\* lfs_mkdir and lfs_dir_split take two blocks for a new directory.  Whatever
\* they hold is left there: the revision just continues from it.
Alloc ==
    /\ pc = "absent"
    /\ \E b0, b1 \in Blocks \ SuperBlocks :
          /\ b0 # b1
          /\ mdir' = [pair |-> <<b0, b1>>, rev |-> EvenRev(disk[b0].rev),
                      off |-> 0, erased |-> FALSE]
          /\ taken' = {b0, b1}
    /\ pc' = "idle"
    /\ UNCHANGED <<disk, bad, ptr, target, moved, known>>

\* The call is over, and its arguments and local variables with it.
Return == target' = NoValue /\ moved' = "no"

\* lfs_dir_commit starts.  It appends if the tail reads as erased, or if the
\* directory is full (crowded: count >= 0xff).  The operation it belongs to may
\* have called lfs_alloc_ack before; a directory not linked yet has been
\* allocated by this same operation.
Commit(v, crowded, ack) ==
    /\ pc \in {"idle", "failed"}
    /\ crowded => mdir.off > 0
    /\ ack => IsLinked
    /\ target' = v
    /\ moved' = "no"
    /\ pc' = IF mdir.erased \/ crowded THEN "append" ELSE "compact"
    /\ taken' = IF ack THEN {} ELSE taken
    /\ UNCHANGED <<disk, bad, ptr, mdir, known>>

-------------------------------------------------------------------------------
(* The append path of lfs_dir_commit. *)

Prefix(b) == SubSeq(disk[b].log, 1, mdir.off)

\* Devices on which an append was begun and not brought to an end.
CutAppend ==
    LET b == mdir.pair[1]
    IN {disk} \union
       {[disk EXCEPT ![b].log = log, ![b].tail = IF @ = "garbage" THEN @ ELSE t] :
            log \in {disk[b].log, Prefix(b)}, t \in {"torn", "garbage"}}

\* The commit is longer than what is left of the block: LFS_ERR_NOSPC, after
\* part of it may have reached the device.
AppendNoSpace ==
    /\ pc = "append"
    /\ disk' \in CutAppend
    /\ pc' = "compact"
    /\ UNCHANGED <<bad, ptr, mdir, target, moved, taken, known>>

\* The commit is programmed up to its checksum.  The checksum's tag is chosen so
\* that the word after it does not read as a tag, erased or not.
AppendProg ==
    /\ pc = "append"
    /\ mdir.off < LogMax
    /\ LET b == mdir.pair[1]
       IN disk' = [disk EXCEPT ![b].log = Append(Prefix(b), target),
                               ![b].tail = IF @ = "erased" THEN @ ELSE "torn"]
    /\ pc' = "verify"
    /\ UNCHANGED <<bad, ptr, mdir, target, moved, taken, known>>

\* What was programmed does not read back: the block is bad, or its tail was not
\* erased.
AppendCorrupt ==
    /\ pc = "append"
    /\ mdir.off < LogMax
    /\ mdir.pair[1] \in bad \/ disk[mdir.pair[1]].tail # "erased"
    /\ disk' \in CutAppend
    /\ pc' = "compact"
    /\ UNCHANGED <<bad, ptr, mdir, target, moved, taken, known>>

\* lfs_dir_commitcrc has read the commit back.
AppendDone ==
    /\ pc = "verify"
    /\ mdir' = [mdir EXCEPT !.off = @ + 1]
    /\ pc' = "idle"
    /\ known' = target
    /\ Return
    /\ UNCHANGED <<disk, bad, ptr, taken>>

\* The device reports an error although all of the commit is there.
AppendReject ==
    /\ pc = "verify"
    /\ mdir.pair[1] \in bad
    /\ pc' = "compact"
    /\ UNCHANGED <<disk, bad, ptr, mdir, target, moved, taken, known>>

-------------------------------------------------------------------------------
(* lfs_dir_compact. *)

\* Faulty variant: the revision stays as it is.
CompactStartSameRev ==
    /\ pc = "compact"
    /\ pc' = "erase"
    /\ moved' = "no"
    /\ UNCHANGED <<disk, bad, ptr, mdir, target, taken, known>>

\* The revision moves on; every BlockCycles + 1 revisions the pair is worn and
\* the half to be written moves.  The superblock pair stays where it is.
CompactStart ==
    /\ pc = "compact"
    /\ LET rev  == NextRev(mdir.rev)
           worn == /\ BlockCycles > 0
                   /\ rev % (BlockCycles + 1) = 0
                   /\ ~IsSuper(mdir.pair)
       IN /\ mdir' = [mdir EXCEPT !.rev = rev]
          /\ pc'    = IF worn THEN "relocate" ELSE "erase"
          /\ moved' = IF worn THEN "worn" ELSE "no"
    /\ UNCHANGED <<disk, bad, ptr, target, taken, known>>

\* Devices on which block b holds no commit, and any revision or the new one.
Wiped(b) == {[disk EXCEPT ![b] = [rev |-> r, log |-> <<>>, tail |-> "garbage"]] :
                r \in GarbageRev \union {mdir.rev}}

\* A bad block sends the compaction to lfs_dir_compact's relocate label.
NowRelocate ==
    /\ mdir.pair[2] \in bad
    /\ pc' = "relocate"
    /\ moved' = IF moved = "worn" THEN moved ELSE "bad"

\* Faulty variant: the current half is erased to be written anew.
EraseInPlace ==
    /\ pc = "erase"
    /\ disk' \in Wiped(mdir.pair[1])
    /\ mdir' = [mdir EXCEPT !.pair = Swap(@)]
    /\ pc' = "prog"
    /\ UNCHANGED <<bad, ptr, target, moved, taken, known>>

Erase ==
    /\ pc = "erase"
    /\ \/ /\ disk' \in Wiped(mdir.pair[2])
          /\ pc' = "prog"
          /\ UNCHANGED moved
       \/ /\ disk' \in {disk} \union Wiped(mdir.pair[2])
          /\ NowRelocate
    /\ UNCHANGED <<bad, ptr, mdir, target, taken, known>>

\* The revision, the directory's content and the checksum are programmed.
Prog ==
    /\ pc = "prog"
    /\ disk' = [disk EXCEPT ![mdir.pair[2]] =
                    [rev |-> mdir.rev, log |-> <<target>>, tail |-> "erased"]]
    /\ pc' = "check"
    /\ UNCHANGED <<bad, ptr, mdir, target, moved, taken, known>>

ProgCorrupt ==
    /\ pc \in {"prog", "check"}
    /\ NowRelocate
    /\ UNCHANGED <<disk, bad, ptr, mdir, target, taken, known>>

\* Faulty variant: the halves do not swap.
CheckNoSwap ==
    /\ pc = "check"
    /\ mdir' = [mdir EXCEPT !.off = 1]
    /\ IF moved = "no" /\ IsLinked
       THEN pc' = "idle" /\ known' = target /\ Return
       ELSE pc' = "link" /\ UNCHANGED <<known, target, moved>>
    /\ UNCHANGED <<disk, bad, ptr, taken>>

\* The compaction reads back and the halves swap.  If nothing moved this is the
\* end of the commit; otherwise, and for a new directory, it still has to be linked.
Check ==
    /\ pc = "check"
    /\ mdir' = [mdir EXCEPT !.pair = Swap(@), !.off = 1]
    /\ \/ /\ moved = "no" /\ IsLinked
          /\ pc' = "idle"
          /\ known' = target
          /\ Return
       \/ /\ moved # "no" \/ ~IsLinked
          /\ pc' = "link"
          /\ UNCHANGED <<known, target, moved>>
    /\ UNCHANGED <<disk, bad, ptr, taken>>

\* Faulty variant: the blocks of the tree are not looked at.
FreeOfTaken == Blocks \ (taken \union SuperBlocks)

\* Blocks lfs_alloc may return: not in the tree, not handed out already.
Free == Blocks \ (InPair(ptr) \union taken \union SuperBlocks)

\* The half being written moves to a fresh block.
Relocate ==
    /\ pc = "relocate"
    /\ ~IsSuper(mdir.pair)
    /\ \E b \in Free : /\ mdir'  = [mdir EXCEPT !.pair[2] = b]
                       /\ taken' = taken \union {b}
    /\ pc' = "erase"
    /\ UNCHANGED <<disk, bad, ptr, target, moved, known>>

\* lfs_alloc returns LFS_ERR_NOSPC, and the loop goes on with the same block.
RelocateNoSpace ==
    /\ pc = "relocate"
    /\ ~IsSuper(mdir.pair)
    /\ Free = {}
    /\ pc' = "erase"
    /\ UNCHANGED <<disk, bad, ptr, mdir, target, moved, taken, known>>

\* The parent (lfs_fs_relocate, or lfs_mkdir itself) names the pair as it is now.
Link ==
    /\ pc = "link"
    /\ ptr' = mdir.pair
    /\ disk' = Kept(disk, ptr')
    /\ pc' = "idle"
    /\ known' = target
    /\ Return
    /\ UNCHANGED <<bad, mdir, taken>>

-------------------------------------------------------------------------------
(* Errors, power losses and wear. *)

\* What an erase, a program or an append that stops half way may leave.
Interrupted ==
    IF pc = "append" THEN CutAppend
    ELSE IF pc = "erase" THEN {disk} \union Wiped(mdir.pair[2])
    ELSE {disk}

\* The commit returns an error.  An open file goes on with the handle it has; a
\* caller that looked its directory up on the stack will fetch it again.  A new
\* directory is given up, and its blocks are free again.
Fail ==
    /\ pc \in Busy
    /\ \/ /\ ~IsLinked
          /\ disk' \in Interrupted
          /\ pc' = "absent"
          /\ mdir' = <<>>
          /\ UNCHANGED known
       \/ /\ IsLinked /\ KeepHandle
          /\ disk' \in Interrupted
          /\ pc' = "failed"
          /\ UNCHANGED <<mdir, known>>
       \/ /\ IsLinked /\ ~KeepHandle
          /\ \E d \in Interrupted : disk' = Kept(d, ptr)
          /\ pc' = "idle"
          /\ mdir' = Fetch(disk', ptr)
          /\ known' = ContentAt(disk', ptr)
    /\ Return
    /\ UNCHANGED <<bad, ptr, taken>>

\* Faulty variant: the superblock pair is tried again on the same block.
FrozenRetries == /\ pc = "relocate"
                 /\ IsSuper(mdir.pair)
                 /\ pc' = "erase"
                 /\ UNCHANGED <<disk, bad, ptr, mdir, target, moved, taken, known>>

\* The superblock pair cannot move: LFS_ERR_NOSPC, the filesystem is frozen.
Frozen == /\ pc = "relocate"
          /\ IsSuper(mdir.pair)
          /\ Fail

\* The device reports an error; one met in the search for a block to relocate to
\* is not looked at when the pair was worn.
Error == /\ pc = "relocate" => moved = "bad" /\ ~IsSuper(mdir.pair)
         /\ Fail

\* Power is lost: the handle and the allocator's state are gone.
Crash ==
    /\ pc # "off"
    /\ \E d \in Interrupted : disk' = Kept(d, ptr)
    /\ pc' = "off"
    /\ mdir' = <<>>
    /\ taken' = {}
    /\ Return
    /\ UNCHANGED <<bad, ptr, known>>

\* lfs_mount, and the fetch of the directory.
Mount ==
    /\ pc = "off"
    /\ IF IsLinked THEN /\ pc' = "idle"
                       /\ mdir' = Fetch(disk, ptr)
       ELSE /\ pc' = "absent"
            /\ mdir' = <<>>
    /\ known' = Recovered
    /\ UNCHANGED <<disk, bad, ptr, target, moved, taken>>

WearOut(b) ==
    /\ b \notin bad
    /\ Cardinality(bad) < MaxBad
    /\ bad' = bad \union {b}
    /\ UNCHANGED <<disk, ptr, mdir, pc, target, moved, taken, known>>

-------------------------------------------------------------------------------

\* The steps of the driver inside one commit.
Driver == \/ AppendNoSpace \/ AppendProg \/ AppendCorrupt \/ AppendDone \/ AppendReject
          \/ CompactStart \/ Erase \/ Prog \/ ProgCorrupt \/ Check
          \/ Relocate \/ RelocateNoSpace \/ Link \/ Frozen

Next == \/ Alloc
        \/ \E v \in Value, crowded, ack \in BOOLEAN : Commit(v, crowded, ack)
        \/ Driver
        \/ Error
        \/ Crash
        \/ Mount
        \/ \E b \in Blocks : WearOut(b)

Spec == Init /\ [][Next]_vars

\* The driver is a sequence of calls that run to their end: a commit that has
\* been started keeps taking steps while the power is on.
FairSpec == Spec /\ WF_vars(Driver)

-------------------------------------------------------------------------------
(* Properties. *)

\* A commit that returned success is what the next mount finds, and so is the
\* content from before for every commit that was not made (lfs_dir_commit,
\* lfs_dir_fetchmatch).
Durable == pc = "idle" => Recovered = known

\* A pair is the same directory whichever half is named first: the parent's entry
\* and the tail pointers keep the halves in the order of their last update, and
\* the order in the pair changes with every compaction (lfs_pair_cmp,
\* lfs_dir_fetchmatch).
OrderFree == IsLinked => Fetch(disk, ptr) = Fetch(disk, Swap(ptr))

\* A linked pair always has a valid commit: no erase, relocation or crash ever
\* takes the last one (lfs_dir_compact erases pair[1] only).
Fetchable == IsLinked => HasCommit(disk, Current(disk, ptr)[1])

\* The handle a caller goes on with describes the pair as a fetch would find it:
\* the same two blocks, the same current half, the same end of the log.
HandleFresh ==
    pc = "idle" /\ IsLinked =>
        LET f == Fetch(disk, ptr)
        IN /\ mdir.pair = f.pair
           /\ mdir.rev = f.rev
           /\ mdir.off = f.off
           /\ mdir.erased => f.erased

\* The contents the caller has to expect: either of two while a commit is under
\* way, what is there and what was acknowledged otherwise.
Maybe == IF pc \in Busy THEN {known, target} ELSE {Recovered, known}

\* The directory promises what an atomic cell promises.
Cell == INSTANCE AtomicCell WITH Absent <- NoValue, cell <- Recovered, maybe <- Maybe

\* A commit, with its appends, compactions, relocations, errors and power losses,
\* is one atomic change of the directory (lfs_dir_commit, lfs_dir_compact).
ImplementsCell == Cell!Spec

\* Every commit comes to an end (the loop of lfs_dir_compact).
Returns == (pc \in Busy) ~> (pc \notin Busy)

-------------------------------------------------------------------------------
(* The inductive invariant, for callers that do not keep a handle after an    *)
(* error.                                                                     *)

Last(log) == log[Len(log)]

\* The half of the linked pair that is not b.
OtherHalf(b) == IF b = ptr[1] THEN ptr[2] ELSE ptr[1]

Compacting == pc \in {"erase", "prog", "check", "relocate"}

\* The handle and the arguments exist while they are used.
CallInv ==
    /\ pc # "failed"
    /\ pc \notin {"off", "absent"} => mdir \in Mdir
    /\ pc = "absent" => ~IsLinked
    /\ pc \in Busy => target \in Value
    /\ ~IsLinked => known = NoValue

\* One half of a linked pair is current, whichever way the pair is read.
PairInv == IsLinked => \/ Wins(disk, ptr[1], ptr[2])
                       \/ Wins(disk, ptr[2], ptr[1])

\* A new directory: its blocks are out of the allocator's reach, and its revision
\* will be newer than what its first block holds.
NewPairInv ==
    ~IsLinked /\ pc \notin {"off", "absent"} =>
        /\ mdir.pair[1] # mdir.pair[2]
        /\ pc \notin {"append", "verify"}
        /\ pc # "link" => mdir.pair[1] \in taken /\ ~mdir.erased /\ mdir.off = 0
        /\ pc \in {"idle", "compact"} => mdir.rev = EvenRev(disk[mdir.pair[1]].rev)
        /\ Compacting => Newer(mdir.rev, disk[mdir.pair[1]].rev)

\* While nothing is written but the tail of the log, the handle is what a fetch
\* would give.
HandleInv ==
    IsLinked /\ pc \in {"idle", "append", "verify", "compact"} =>
        LET cur == mdir.pair[1]
            log == disk[cur].log
        IN /\ mdir.pair \in {ptr, Swap(ptr)}
           /\ Wins(disk, cur, mdir.pair[2])
           /\ mdir.rev = disk[cur].rev
           /\ pc \in {"idle", "append", "verify"} /\ mdir.erased => disk[cur].tail # "garbage"
           /\ pc \in {"idle", "append"} => mdir.off = Len(log) /\ Last(log) = known
           /\ pc = "verify" => mdir.off + 1 = Len(log) /\ Last(log) = target
           /\ pc = "compact" => Last(log) \in {known, target}

\* While the other half, or a fresh block, is written the current half is intact;
\* the other half is older or void, unless it holds all of this commit.
CompactInv ==
    IsLinked /\ Compacting =>
        LET cur == mdir.pair[1]
            oth == OtherHalf(cur)
        IN /\ cur \in {ptr[1], ptr[2]}
           /\ mdir.pair[2] # cur
           /\ HasCommit(disk, cur)
           /\ Last(disk[cur].log) \in {known, target}
           /\ mdir.rev = NextRev(disk[cur].rev)
           /\ \/ Wins(disk, cur, oth)
              \/ disk[oth].log = <<target>> /\ disk[oth].rev = mdir.rev
           /\ moved = "no" => pc # "relocate" /\ mdir.pair[2] = oth

\* What was written is complete, and newer than the half it goes with.
CheckInv ==
    pc = "check" => LET new == mdir.pair[2]
                    IN disk[new] = [rev |-> mdir.rev, log |-> <<target>>, tail |-> "erased"]

LinkInv ==
    pc = "link" =>
        LET new == mdir.pair[1]
        IN /\ new # mdir.pair[2]
           /\ disk[new] = [rev |-> mdir.rev, log |-> <<target>>, tail |-> "erased"]
           /\ Newer(mdir.rev, disk[mdir.pair[2]].rev)
           /\ mdir.off = 1
           /\ IsLinked => Recovered \in {known, target}

IInv == /\ TypeOK /\ CallInv /\ PairInv /\ NewPairInv /\ HandleInv
        /\ CompactInv /\ CheckInv /\ LinkInv

===============================================================================
