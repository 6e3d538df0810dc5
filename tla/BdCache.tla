------------------------------- MODULE BdCache -------------------------------
(***************************************************************************)
(* The caches between littlefs and the block device (lfs_bd_read, _prog,   *)
(* _flush, _sync, _erase): the read cache lfs->rcache, the program cache   *)
(* lfs->pcache, and the cache of an open file, which is a program cache    *)
(* while the file is written.  Nothing keeps them coherent but the order   *)
(* of the calls: an erase leaves the read cache as it is, and so does a    *)
(* flush that is not validated.  So the module has the callers too, with   *)
(* what they read and program and in which order: a commit, a file that is *)
(* written, its move away from a bad block, and the copying of the rest of *)
(* the old file, which reads through a second handle on the buffer of the  *)
(* read cache.                                                             *)
(*                                                                         *)
(* Bytes are cells; a call on several of them is the same as calls on one  *)
(* cell after the other.                                                   *)
(***************************************************************************)
EXTENDS Integers, FiniteSets

CONSTANTS Blocks,     \* erase blocks
          BlockSize, CacheSize, ReadSize, ProgSize,  \* of lfs_config, in cells
          Value,      \* what a cell is programmed to
          Erased,     \* 0xff: an erased cell, a cleared buffer
          Spoilt,     \* a cell that did not take what was programmed
          NoBlock,    \* LFS_BLOCK_NULL
          None,       \* no file, commit, move, value
          Hints,      \* bound: the hints of the reads
          MaxErases,  \* bound: erases
          MaxFaults   \* bound: cells that do not take a program, failed reads

Cell   == 0 .. BlockSize - 1
Slot   == 0 .. CacheSize - 1
Values == Value \union {Erased, Spoilt}

\* A block that is written, one it moves to, and a commit.
File   == [block : Blocks, at : 0 .. BlockSize, last : BOOLEAN]
Move   == [block : Blocks, at : 0 .. BlockSize]
Commit == [block : Blocks, start : 0 .. BlockSize, at : 0 .. BlockSize]

ASSUME SizesAssumption ==
    /\ BlockSize \in Nat \ {0} /\ CacheSize \in 1 .. BlockSize
    /\ ReadSize \in 1 .. CacheSize /\ ProgSize \in 1 .. CacheSize
    /\ CacheSize % ReadSize = 0 /\ CacheSize % ProgSize = 0
    /\ BlockSize % CacheSize = 0
ASSUME ValuesAssumption ==
    /\ NoBlock \notin Blocks
    /\ Erased \notin Value /\ Spoilt \notin Value /\ Erased # Spoilt
    /\ {"off", "empty", "done"} \intersect Values = {}
    /\ None \notin File \union Move \union Commit \union Cell
    /\ Hints \subseteq Nat \ {0}
    /\ MaxFaults \in Nat /\ MaxErases \in Nat

VARIABLES
    disk,    \* what the device holds
    meant,   \* history: what each cell was last erased or programmed to
    settled, \* history: the cells of a block that count as written
    next,    \* where the next commit to a block may start
    rc,      \* lfs->rcache: block, off, size
    orig,    \* the cache of the handle the rest of a file is read with
    rbuf,    \* the buffer of both
    pc,      \* lfs->pcache: block, off, size, data
    fc,      \* file->cache
    file,    \* the block that is written: [block, at, last]
    move,    \* lfs_file_relocate: [block, at]
    commit,  \* lfs_dir_commit: [block, start, at]
    hand,    \* a cell that is copied
    step,    \* "run", or a check of what was programmed is going on or has failed
    pos,     \* ... its place
    wrong,   \* history: a read returned something else than it should have
    faults,  \* cells spoilt so far
    erases   \* erases so far

device == <<disk, meant>>
ends   == <<settled, next>>
reader == <<rc, rbuf>>
calls  == <<move, commit, hand>>
vars == <<disk, meant, settled, next, rc, orig, rbuf, pc, fc, file, move, commit,
          hand, step, pos, wrong, faults, erases>>

-----------------------------------------------------------------------------
(* Caches.                                                                   *)

Lesser(a, b)    == IF a <= b THEN a ELSE b
AlignDown(a, n) == a - (a % n)
AlignUp(a, n)   == AlignDown(a + n - 1, n)

Blank   == [o \in Cell |-> Erased]
NoDesc  == [block |-> NoBlock, off |-> 0, size |-> 0]

\* lfs_cache_drop (what else the cache says is not looked at any more), and
\* lfs_cache_zero of a program cache.
Dropped(c) == [c EXCEPT !.block = NoBlock, !.off = 0, !.size = 0]
Zeroed     == [block |-> NoBlock, off |-> 0, size |-> 0, data |-> Blank]

Holds(c, b, o) == c.block = b /\ c.off <= o /\ o < c.off + c.size

\* What lfs_bd_read loads for the cell o of block b.
Loaded(b, o, hint) ==
    LET off == AlignDown(o, ReadSize)
    IN [block |-> b, off |-> off,
        size |-> Lesser(Lesser(AlignUp(o + hint, ReadSize), BlockSize) - off, CacheSize)]

\* lfs_bd_read of one cell with the program cache p and the read cache r: what it
\* returns, and r and its buffer afterwards.
ReadValue(p, r, b, o) ==
    IF Holds(p, b, o) THEN p.data[o]
    ELSE IF Holds(r, b, o) THEN rbuf[o - r.off]
    ELSE disk[b][o]

ReadLoads(p, r, b, o) == ~Holds(p, b, o) /\ ~Holds(r, b, o)

ReadCache(p, r, b, o, hint) ==
    IF ReadLoads(p, r, b, o) THEN Loaded(b, o, hint) ELSE r

ReadBuffer(p, r, b, o, hint) ==
    LET c == Loaded(b, o, hint)
    IN IF ReadLoads(p, r, b, o)
       THEN [i \in Slot |-> IF i < c.size THEN disk[b][c.off + i] ELSE rbuf[i]]
       ELSE rbuf

\* A read through rcache.
ReadRc(p, b, o, hint) ==
    /\ rc' = ReadCache(p, rc, b, o, hint)
    /\ rbuf' = ReadBuffer(p, rc, b, o, hint)

Differs(p, r, b, o) == ReadValue(p, r, b, o) # meant[b][o]

\* lfs_bd_prog of one cell: the program cache afterwards, not flushed yet.
FitsIn(p, b, o) == p.block = b /\ p.off <= o /\ o < p.off + CacheSize

Programmed(p, b, o, v) ==
    LET off  == IF FitsIn(p, b, o) THEN p.off ELSE AlignDown(o, ProgSize)
        size == IF FitsIn(p, b, o) THEN p.size ELSE 0
        n    == o + 1 - off
    IN [block |-> b, off |-> off, size |-> IF n > size THEN n ELSE size,
        data |-> [p.data EXCEPT ![o] = v]]

IsFull(p) == p.size = CacheSize

\* lfs_bd_flush of the program cache p: the cells it programs, padded; one of them
\* may not take it.
FlushEnd(p)   == p.off + AlignUp(p.size, ProgSize)
FlushRange(p) == p.off .. FlushEnd(p) - 1

DeviceTakes(p) ==
    \E bad \in FlushRange(p) \union {None} :
        /\ bad # None => faults < MaxFaults
        /\ faults' = IF bad = None THEN faults ELSE faults + 1
        /\ disk' = [disk EXCEPT ![p.block] =
                      [o \in Cell |-> IF o \notin FlushRange(p) THEN disk[p.block][o]
                                      ELSE IF o = bad THEN Spoilt ELSE p.data[o]]]
        /\ meant' = [meant EXCEPT ![p.block] =
                       [o \in Cell |-> IF o \in FlushRange(p) THEN p.data[o]
                                       ELSE meant[p.block][o]]]

\* lfs_bd_erase
Erase(b) ==
    /\ disk' = [disk EXCEPT ![b] = Blank]
    /\ meant' = [meant EXCEPT ![b] = Blank]
    /\ settled' = [settled EXCEPT ![b] = {}]
    /\ erases < MaxErases /\ erases' = erases + 1

-----------------------------------------------------------------------------

Idle    == step = "run" /\ commit = None /\ move = None
Copying == hand # "off"
FileBlock(b) == file # None /\ file.block = b

\* Blocks that lfs_alloc may return.
FreeBlock(b) == settled[b] = {} /\ ~FileBlock(b) /\ (move # None => move.block # b)

Init ==
    /\ disk = [b \in Blocks |-> Blank] /\ meant = disk
    /\ settled = [b \in Blocks |-> {}] /\ next = [b \in Blocks |-> BlockSize]
    /\ rc = NoDesc /\ orig = NoDesc /\ rbuf = [i \in Slot |-> Erased]
    /\ pc = Zeroed /\ fc = Zeroed
    /\ file = None /\ move = None /\ commit = None /\ hand = "off"
    /\ step = "run" /\ pos = 0 /\ wrong = FALSE /\ faults = 0 /\ erases = 0

\* A lookup: lfs_dir_fetch and the other reads of what is written, with no program
\* cache.  While a cell is copied they are those of lfs_alloc.
Lookup(b, o, hint) ==
    /\ step = "run" /\ hand # "empty"
    /\ o \in settled[b]
    /\ ReadRc(Zeroed, b, o, hint)
    /\ wrong' = (wrong \/ Differs(Zeroed, rc, b, o))
    /\ UNCHANGED <<device, ends, orig, pc, fc, file, calls, step, pos, faults, erases>>

\* The device fails to read: rcache says it holds what it does not.
LookupFails(b, o, hint) ==
    /\ faults < MaxFaults
    /\ step = "run" /\ hand # "empty"
    /\ o \in settled[b]
    /\ ReadLoads(Zeroed, rc, b, o)
    /\ rc' = Loaded(b, o, hint)
    /\ faults' = faults + 1
    /\ UNCHANGED <<device, ends, orig, rbuf, pc, fc, file, calls, step, pos, wrong, erases>>

\* lfs_fs_traverse follows the list of a file that is written.
LookupOwn(o, hint) ==
    /\ step = "run" /\ hand # "empty"
    /\ file # None /\ o \in 0 .. file.at - 1
    /\ ReadRc(fc, file.block, o, hint)
    /\ wrong' = (wrong \/ Differs(fc, rc, file.block, o))
    /\ UNCHANGED <<device, ends, orig, pc, fc, file, calls, step, pos, faults, erases>>

\* The block is given back: what a cache holds of it stays.
Free(b) ==
    /\ Idle /\ ~Copying /\ settled[b] # {} /\ ~FileBlock(b)
    /\ settled' = [settled EXCEPT ![b] = {}]
    /\ next' = [next EXCEPT ![b] = BlockSize]
    /\ UNCHANGED <<device, reader, orig, pc, fc, file, calls, step, pos, wrong, faults, erases>>

-----------------------------------------------------------------------------
(* A file is written.                                                        *)

\* lfs_ctz_extend: a new block.
StartBlock(b) ==
    /\ Idle /\ hand # "empty"
    /\ file = None /\ FreeBlock(b)
    /\ Erase(b)
    /\ next' = [next EXCEPT ![b] = BlockSize]
    /\ file' = [block |-> b, at |-> 0, last |-> FALSE]
    /\ UNCHANGED <<reader, orig, pc, fc, calls, step, pos, wrong, faults>>

\* lfs_file_write, or the copy of a cell in lfs_ctz_extend.
MayPut(v) ==
    /\ Idle
    /\ file # None /\ ~file.last /\ file.at < BlockSize
    /\ Copying => hand = v

Put(v) ==
    LET p == Programmed(fc, file.block, file.at, v)
    IN /\ MayPut(v) /\ ~IsFull(p)
       /\ fc' = p
       /\ meant' = [meant EXCEPT ![file.block][file.at] = v]
       /\ file' = [file EXCEPT !.at = @ + 1]
       /\ hand' = IF Copying THEN "done" ELSE hand
       /\ UNCHANGED <<disk, ends, reader, orig, pc, move, commit, step, pos, wrong, faults, erases>>

\* Faulty: the check may be answered by rcache.
FlushCheckedCached(p) ==
    /\ DeviceTakes(p)
    /\ UNCHANGED rc
    /\ step' = "check" /\ pos' = p.off

\* The cache is full: it is flushed and checked, "eagerly".
FlushChecked(p) ==
    /\ DeviceTakes(p)
    /\ rc' = Dropped(rc)
    /\ step' = "check" /\ pos' = p.off

PutFull(v) ==
    LET p == Programmed(fc, file.block, file.at, v)
    IN /\ MayPut(v) /\ IsFull(p)
       /\ fc' = p
       /\ FlushChecked(p)
       /\ UNCHANGED <<ends, orig, rbuf, pc, file, calls, wrong, erases>>

\* lfs_file_flush
Flush ==
    /\ Idle /\ ~Copying
    /\ file # None /\ fc.block # NoBlock
    /\ file' = [file EXCEPT !.last = TRUE]
    /\ FlushChecked(fc)
    /\ UNCHANGED <<ends, orig, rbuf, pc, fc, calls, wrong, erases>>

\* The validation in lfs_bd_flush, a cell at a time.
Checked == IF move = None THEN fc ELSE pc

CheckCell ==
    LET w == Checked
    IN /\ step = "check" /\ pos < FlushEnd(w)
       /\ ReadRc(Zeroed, w.block, pos, FlushEnd(w) - pos)
       /\ IF ReadValue(Zeroed, rc, w.block, pos) = w.data[pos]
          THEN pos' = pos + 1 /\ UNCHANGED step
          ELSE step' = "bad" /\ UNCHANGED pos
       /\ UNCHANGED <<device, ends, orig, pc, fc, file, calls, wrong, faults, erases>>

PutChecked ==
    /\ step = "check" /\ move = None /\ pos = FlushEnd(fc)
    /\ file' = [file EXCEPT !.at = fc.off + fc.size]
    /\ fc' = Zeroed
    /\ hand' = IF Copying THEN "done" ELSE hand
    /\ step' = "run" /\ pos' = 0
    /\ UNCHANGED <<device, ends, reader, orig, pc, move, commit, wrong, faults, erases>>

\* All of the block is on the device.
FinishBlock ==
    /\ Idle /\ file # None /\ fc.block = NoBlock
    /\ file.last \/ file.at = BlockSize
    /\ settled' = [settled EXCEPT ![file.block] = 0 .. file.at - 1]
    /\ file' = None
    /\ UNCHANGED <<device, next, reader, orig, pc, fc, calls, step, pos, wrong, faults, erases>>

\* The block is bad: lfs_ctz_extend starts over with another.
StartOver ==
    /\ step = "bad" /\ commit = None
    /\ fc' = Dropped(fc) /\ pc' = Dropped(pc)
    /\ file' = None /\ move' = None
    /\ step' = "run" /\ pos' = 0
    /\ UNCHANGED <<device, ends, reader, orig, commit, hand, wrong, faults, erases>>

-----------------------------------------------------------------------------
(* lfs_file_relocate: what the block should hold goes to another one, and the *)
(* program cache that is left over becomes the file's.                        *)

MoveStart(b) ==
    /\ step = "bad" /\ commit = None /\ FreeBlock(b)
    /\ pc' = Dropped(pc)
    /\ Erase(b)
    /\ next' = [next EXCEPT ![b] = BlockSize]
    /\ move' = [block |-> b, at |-> 0]
    /\ step' = "run" /\ pos' = 0
    /\ UNCHANGED <<reader, orig, fc, file, commit, hand, wrong, faults>>

MayMove == step = "run" /\ move # None /\ move.at < file.at

MovedValue == ReadValue(fc, rc, file.block, move.at)

MoveCell ==
    LET p == Programmed(pc, move.block, move.at, MovedValue)
    IN /\ MayMove /\ ~IsFull(p)
       /\ ReadRc(fc, file.block, move.at, file.at - move.at)
       /\ wrong' = (wrong \/ Differs(fc, rc, file.block, move.at))
       /\ pc' = p
       /\ meant' = [meant EXCEPT ![move.block][move.at] = MovedValue]
       /\ move' = [move EXCEPT !.at = @ + 1]
       /\ UNCHANGED <<disk, ends, orig, fc, file, commit, hand, step, pos, faults, erases>>

MoveFull ==
    LET p == Programmed(pc, move.block, move.at, MovedValue)
    IN /\ MayMove /\ IsFull(p)
       /\ rbuf' = ReadBuffer(fc, rc, file.block, move.at, file.at - move.at)
       /\ wrong' = (wrong \/ Differs(fc, rc, file.block, move.at))
       /\ pc' = p
       /\ FlushChecked(p)
       /\ UNCHANGED <<ends, orig, fc, file, calls, erases>>

MoveChecked ==
    /\ step = "check" /\ move # None /\ pos = FlushEnd(pc)
    /\ move' = [move EXCEPT !.at = pc.off + pc.size]
    /\ pc' = Zeroed
    /\ step' = "run" /\ pos' = 0
    /\ UNCHANGED <<device, ends, reader, orig, fc, file, commit, hand, wrong, faults, erases>>

\* Faulty: lfs->pcache is not cleared.
MoveDoneKept ==
    /\ step = "run" /\ move # None /\ move.at = file.at
    /\ fc' = pc /\ UNCHANGED pc
    /\ file' = [file EXCEPT !.block = move.block]
    /\ move' = None
    /\ UNCHANGED <<device, ends, reader, orig, commit, hand, step, pos, wrong, faults, erases>>

MoveDone ==
    /\ step = "run" /\ move # None /\ move.at = file.at
    /\ fc' = pc /\ pc' = Zeroed
    /\ file' = [file EXCEPT !.block = move.block]
    /\ move' = None
    /\ UNCHANGED <<device, ends, reader, orig, commit, hand, step, pos, wrong, faults, erases>>

-----------------------------------------------------------------------------
(* The rest of the old file is copied (lfs_file_flush).  The handle it is read *)
(* with has a copy of rcache, and with it the same buffer.                     *)

CopyStart ==
    /\ Idle /\ ~Copying /\ file # None /\ ~file.last
    /\ orig' = rc /\ rc' = Dropped(rc)
    /\ hand' = "empty"
    /\ UNCHANGED <<device, ends, rbuf, pc, fc, file, move, commit, step, pos, wrong, faults, erases>>

\* lfs_file_read of a cell.
CopyRead(b, o, hint) ==
    /\ hand = "empty" /\ o \in settled[b]
    /\ ReadValue(Zeroed, orig, b, o) \in Values
    /\ orig' = ReadCache(Zeroed, orig, b, o, hint)
    /\ rbuf' = ReadBuffer(Zeroed, orig, b, o, hint)
    /\ hand' = ReadValue(Zeroed, orig, b, o)
    /\ wrong' = (wrong \/ Differs(Zeroed, orig, b, o))
    /\ UNCHANGED <<device, ends, rc, pc, fc, file, move, commit, step, pos, faults, erases>>

\* Faulty: the handle keeps its copy of a buffer that was loaded again.
CopyNextStale ==
    /\ Idle /\ hand = "done"
    /\ hand' = "empty"
    /\ rc' = Dropped(rc)
    /\ UNCHANGED <<device, ends, rbuf, orig, pc, fc, file, move, commit, step, pos, wrong, faults, erases>>

\* "keep our reference to the rcache in sync"
CopyNext ==
    /\ Idle /\ hand = "done"
    /\ IF rc.block # NoBlock THEN orig' = Dropped(orig) /\ rc' = Dropped(rc)
       ELSE UNCHANGED <<orig, rc>>
    /\ hand' = "empty"
    /\ UNCHANGED <<device, ends, rbuf, pc, fc, file, move, commit, step, pos, wrong, faults, erases>>

CopyEnd ==
    /\ hand = "empty"
    /\ orig' = NoDesc
    /\ hand' = "off"
    /\ UNCHANGED <<device, ends, reader, pc, fc, file, move, commit, step, pos, wrong, faults, erases>>

-----------------------------------------------------------------------------
(* A commit to a metadata block (lfs_dir_commit, lfs_dir_compact).            *)

CommitAppend(b) ==
    /\ Idle /\ ~Copying /\ ~FileBlock(b)
    /\ next[b] < BlockSize
    /\ commit' = [block |-> b, start |-> next[b], at |-> next[b]]
    /\ UNCHANGED <<device, ends, reader, orig, pc, fc, file, move, hand, step, pos, wrong, faults, erases>>

\* The block is erased and the other half of the pair read.
CommitCompact(b, s, o, hint) ==
    /\ Idle /\ ~Copying /\ ~FileBlock(b)
    /\ s # b
    /\ Erase(b)
    /\ next' = [next EXCEPT ![b] = BlockSize]
    /\ ReadRc(Zeroed, s, o, hint)
    /\ commit' = [block |-> b, start |-> 0, at |-> 0]
    /\ UNCHANGED <<orig, pc, fc, file, move, hand, step, pos, wrong, faults>>

MayCommit == step = "run" /\ commit # None

\* lfs_dir_commitattr and lfs_dir_commitprog: the last cell is left for the checksum.
MayProg == MayCommit /\ commit.at < BlockSize - 1

CommitProg(v) ==
    LET p == Programmed(pc, commit.block, commit.at, v)
    IN /\ MayProg /\ ~IsFull(p)
       /\ pc' = p
       /\ meant' = [meant EXCEPT ![commit.block][commit.at] = v]
       /\ commit' = [commit EXCEPT !.at = @ + 1]
       /\ UNCHANGED <<disk, ends, reader, orig, fc, file, move, hand, step, pos, wrong, faults, erases>>

\* The flush is not validated, and rcache stays.
CommitFull(v) ==
    LET p == Programmed(pc, commit.block, commit.at, v)
    IN /\ MayProg /\ IsFull(p)
       /\ pc' = Zeroed
       /\ DeviceTakes(p)
       /\ commit' = [commit EXCEPT !.at = @ + 1]
       /\ UNCHANGED <<ends, reader, orig, fc, file, move, hand, step, pos, wrong, erases>>

\* lfs_dir_commitcrc reads the state of the next program unit behind the checksum.
CommitPeek(hint) ==
    LET noff == AlignUp(commit.at + 1, ProgSize)
    IN /\ MayCommit /\ noff < BlockSize
       /\ ReadRc(Zeroed, commit.block, noff, hint)
       /\ wrong' = (wrong \/ Differs(Zeroed, rc, commit.block, noff))
       /\ UNCHANGED <<device, ends, orig, pc, fc, file, calls, step, pos, faults, erases>>

\* The checksum, and lfs_bd_sync.
CommitCrc(v) ==
    LET p == Programmed(pc, commit.block, commit.at, v)
    IN /\ MayCommit
       /\ rc' = Dropped(rc)
       /\ DeviceTakes(p)
       /\ pc' = Zeroed
       /\ commit' = [commit EXCEPT !.at = @ + 1]
       /\ step' = "verify" /\ pos' = commit.start
       /\ UNCHANGED <<ends, orig, rbuf, fc, file, move, hand, wrong, erases>>

\* "check checksums to make sure"
VerifyCell ==
    /\ step = "verify" /\ pos < commit.at
    /\ ReadRc(Zeroed, commit.block, pos, commit.at - pos)
    /\ IF ReadValue(Zeroed, rc, commit.block, pos) = meant[commit.block][pos]
       THEN pos' = pos + 1 /\ UNCHANGED step
       ELSE step' = "bad" /\ UNCHANGED pos
    /\ UNCHANGED <<device, ends, orig, pc, fc, file, calls, wrong, faults, erases>>

\* Faulty: the next commit starts inside a program unit.
CommittedShort ==
    LET b == commit.block
    IN /\ step = "verify" /\ pos = commit.at
       /\ settled' = [settled EXCEPT ![b] = @ \union commit.start .. commit.at - 1]
       /\ next' = [next EXCEPT ![b] = commit.at]
       /\ commit' = None /\ step' = "run" /\ pos' = 0
       /\ UNCHANGED <<device, reader, orig, pc, fc, file, move, hand, wrong, faults, erases>>

Committed ==
    LET b == commit.block
    IN /\ step = "verify" /\ pos = commit.at
       /\ settled' = [settled EXCEPT ![b] = @ \union commit.start .. commit.at - 1]
       /\ next' = [next EXCEPT ![b] = AlignUp(commit.at, ProgSize)]
       /\ commit' = None /\ step' = "run" /\ pos' = 0
       /\ UNCHANGED <<device, reader, orig, pc, fc, file, move, hand, wrong, faults, erases>>

\* The commit is corrupt, or does not fit: nothing is appended to the block again.
CommitBad ==
    /\ step \in {"run", "bad"} /\ commit # None
    /\ pc' = Dropped(pc)
    /\ next' = [next EXCEPT ![commit.block] = BlockSize]
    /\ commit' = None /\ step' = "run" /\ pos' = 0
    /\ UNCHANGED <<device, settled, reader, orig, fc, file, move, hand, wrong, faults, erases>>

-----------------------------------------------------------------------------

Next ==
    \/ \E b \in Blocks, o \in Cell, h \in Hints :
          Lookup(b, o, h) \/ CopyRead(b, o, h)
    \/ \E o \in Cell, h \in Hints : LookupOwn(o, h)
    \/ \E b \in Blocks : Free(b) \/ StartBlock(b) \/ MoveStart(b) \/ CommitAppend(b)
    \/ \E v \in Value : Put(v) \/ PutFull(v) \/ CommitProg(v) \/ CommitFull(v) \/ CommitCrc(v)
    \/ Flush \/ CheckCell \/ PutChecked \/ FinishBlock \/ StartOver
    \/ MoveCell \/ MoveFull \/ MoveChecked \/ MoveDone
    \/ CopyStart \/ CopyNext \/ CopyEnd
    \/ \E b, s \in Blocks, o \in Cell, h \in Hints : CommitCompact(b, s, o, h)
    \/ \E h \in Hints : CommitPeek(h)
    \/ VerifyCell \/ Committed \/ CommitBad

Spec == Init /\ [][Next]_vars

\* ... with a device that may fail to read.
FaultyNext ==
    Next \/ \E b \in Blocks, o \in Cell, h \in Hints : LookupFails(b, o, h)

FaultySpec == Init /\ [][FaultyNext]_vars

-----------------------------------------------------------------------------

\* Every read returns what the cell was last programmed or erased to, through whatever
\* caches it goes: no stale cell of rcache, none of a buffer that another handle has
\* loaded since, and nothing but the cache for what is not flushed yet (lfs_bd_read).
ReadsLast == ~wrong

\* What was flushed with a validation or committed is on the device, whatever cells did
\* not take it: the check read the device and not a cache (lfs_bd_flush,
\* lfs_dir_commitcrc).
WrittenHolds ==
    \A b \in Blocks : \A o \in settled[b] : disk[b][o] = meant[b][o]

\* The assertion of lfs_bd_prog: "pcache must have been flushed".
FlushedBefore(p, b, o) == o < BlockSize => FitsIn(p, b, o) \/ p.block = NoBlock

AssertionsHold ==
    /\ Idle /\ file # None /\ ~file.last => FlushedBefore(fc, file.block, file.at)
    /\ step = "run" /\ commit # None => FlushedBefore(pc, commit.block, commit.at)
    /\ step = "run" /\ move # None => FlushedBefore(pc, move.block, move.at)

-----------------------------------------------------------------------------
(* The inductive invariant.                                                   *)

Desc    == [block : Blocks \union {NoBlock}, off : Cell, size : 0 .. CacheSize]
Program == [block : Blocks \union {NoBlock}, off : Cell, size : 0 .. CacheSize,
            data : [Cell -> Values]]

Within(c) == c.off + c.size <= BlockSize

TypeOK ==
    /\ disk \in [Blocks -> [Cell -> Values]] /\ meant \in [Blocks -> [Cell -> Values]]
    /\ settled \in [Blocks -> SUBSET Cell] /\ next \in [Blocks -> 0 .. BlockSize]
    /\ rc \in Desc /\ orig \in Desc /\ rbuf \in [Slot -> Values]
    /\ pc \in Program /\ fc \in Program
    /\ file # None => file \in File
    /\ move # None => move \in Move
    /\ commit # None => commit \in Commit
    /\ hand \in Values \union {"off", "empty", "done"}
    /\ step \in {"run", "check", "verify", "bad"} /\ pos \in 0 .. BlockSize
    /\ wrong \in BOOLEAN /\ faults \in Nat /\ erases \in Nat

\* What is loaded is of one block.
Inside == /\ rc.block # NoBlock => Within(rc)
          /\ orig.block # NoBlock => Within(orig)

\* What the read cache c says of the cell is what the device holds.
Fresh(c, b, o) == Holds(c, b, o) => rbuf[o - c.off] = disk[b][o]
AsMeant(b, o)  == disk[b][o] = meant[b][o]

\* A program cache p for block b of which `at` cells are given: where the cells
\* start that are not on the device, and what p knows of them.
Start(p, at) == IF p.block = NoBlock THEN at ELSE p.off

Pending(p, b) ==
    /\ p.block \in {NoBlock, b}
    /\ p.block = b =>
         /\ p.off % ProgSize = 0 /\ p.size >= 1 /\ Within(p)
         /\ \A o \in Cell : Holds(p, b, o) => p.data[o] = meant[b][o]

\* ... which may go on.
Ready(p, b, at) ==
    IF p.block = NoBlock THEN at % ProgSize = 0
    ELSE p.off + p.size = at /\ p.size < CacheSize

\* Who holds which block.
Owners ==
    /\ file # None => settled[file.block] = {} /\ next[file.block] = BlockSize
    /\ move # None => /\ file # None /\ commit = None /\ move.block # file.block
                      /\ move.at <= file.at
                      /\ settled[move.block] = {} /\ next[move.block] = BlockSize
    /\ commit # None => /\ ~FileBlock(commit.block) /\ hand = "off"
                        /\ commit.start <= commit.at
                        /\ settled[commit.block] \subseteq 0 .. commit.start - 1
    /\ step = "verify" => commit # None
    /\ step = "check" => commit = None /\ file # None
    /\ step = "bad" => commit # None \/ file # None
    /\ hand = "empty" => step = "run" /\ move = None
    /\ file = None => fc.block = NoBlock
    /\ move = None /\ commit = None => pc.block = NoBlock

\* Blocks that a commit may be appended to.
Appendable ==
    \A b \in Blocks : next[b] < BlockSize =>
        /\ next[b] % ProgSize = 0
        /\ settled[b] \subseteq 0 .. next[b] - 1
        /\ commit # None /\ commit.block = b => commit.start = next[b]
        /\ commit = None \/ commit.block # b =>
             \A o \in next[b] .. BlockSize - 1 : AsMeant(b, o) /\ Fresh(rc, b, o)

ReadFresh == \A b \in Blocks : \A o \in settled[b] : Fresh(rc, b, o)

CopyFresh ==
    /\ hand = "empty" => rc.block = NoBlock
    /\ hand # "off" /\ rc.block = NoBlock /\ step = "run" =>
         /\ \A b \in Blocks : \A o \in settled[b] : Fresh(orig, b, o)
         /\ file # None => \A o \in Cell :
               o < Start(fc, file.at) => Fresh(orig, file.block, o)

\* The block that is written has no trouble: a commit comes between two cells.
Steady == Idle \/ commit # None

FileInv == file # None =>
    /\ Pending(fc, file.block)
    /\ Start(fc, file.at) <= file.at
    /\ fc.block # NoBlock => file.at <= fc.off + fc.size
    /\ Steady /\ ~file.last => Ready(fc, file.block, file.at)
    /\ \A o \in Cell : o < Start(fc, file.at) =>
          AsMeant(file.block, o) /\ Fresh(rc, file.block, o)

MoveInv == move # None =>
    /\ Pending(pc, move.block)
    /\ Start(pc, move.at) <= move.at
    /\ step = "run" => Ready(pc, move.block, move.at)
    /\ step = "check" => pc.off + pc.size <= file.at
    /\ \A o \in Cell : o < Start(pc, move.at) =>
          AsMeant(move.block, o) /\ Fresh(rc, move.block, o)

CommitInv == commit # None =>
    /\ Pending(pc, commit.block)
    /\ step = "run" =>
         /\ Ready(pc, commit.block, commit.at)
         /\ Start(pc, commit.at) >= commit.start
         /\ commit.at < BlockSize
         /\ \A o \in commit.at .. BlockSize - 1 :
               AsMeant(commit.block, o) /\ Fresh(rc, commit.block, o)
    /\ step = "verify" =>
         /\ commit.start <= pos /\ pos <= commit.at /\ pc.block = NoBlock
         /\ \A o \in Cell : Fresh(rc, commit.block, o)
         /\ \A o \in commit.start .. pos - 1 : AsMeant(commit.block, o)
         /\ \A o \in AlignUp(commit.at, ProgSize) .. BlockSize - 1 :
               AsMeant(commit.block, o)

\* While a flush is checked rcache has been loaded since, and stays so for a move.
\* What is flushed is a full cache or the end of a file.
CheckInv ==
    /\ step = "check" =>
         /\ Checked.block # NoBlock
         /\ Checked.off <= pos /\ pos <= FlushEnd(Checked)
         /\ IsFull(Checked) \/ (move = None /\ file.last)
         /\ pos > Checked.off => rc.block # NoBlock
         /\ \A o \in Cell : Fresh(rc, Checked.block, o)
         /\ \A o \in Checked.off .. pos - 1 : disk[Checked.block][o] = Checked.data[o]
    /\ \/ step = "bad" /\ commit = None
       \/ step = "run" /\ move # None
       => rc.block # NoBlock

IInv ==
    /\ TypeOK
    /\ Inside
    /\ ReadsLast /\ WrittenHolds
    /\ Owners /\ Appendable /\ ReadFresh /\ CopyFresh
    /\ FileInv /\ MoveInv /\ CommitInv /\ CheckInv
=============================================================================
