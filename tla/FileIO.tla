------------------------------- MODULE FileIO -------------------------------
(***************************************************************************)
(* One open file (lfs_file_open to lfs_file_truncate).  Small files live   *)
(* in their directory entry; the others in a list of blocks that is never  *)
(* changed in place: a write copies the block it starts in, appends blocks *)
(* to it, and the rest of the old file is copied behind when the handle is *)
(* flushed.  Only the commit of a sync makes the new list the file.        *)
(*                                                                         *)
(* A call runs as the steps of `todo`, the innermost first; a step is one  *)
(* call of lfs_ctz_extend, lfs_bd_prog, lfs_file_relocate, ...  A power    *)
(* loss in the middle of a step can be told from one after it by nobody:   *)
(* no step touches a block of the committed file.                          *)
(***************************************************************************)
EXTENDS CtzList

CONSTANTS InlineMax,   \* the largest inline file: lfs_min(cache_size, block_size/8)
          MaxSize,     \* lfs->file_max
          MaxOps,      \* bound: calls, and with them values that are written
          MaxFaults,   \* bound: bad erases and programs, directories that are full
          WriteSizes, ReadSizes, Positions, TruncateSizes, \* arguments of the calls
          Inline,      \* LFS_BLOCK_INLINE
          Absent,      \* the file does not exist
          Closed,      \* there is no handle
          Risks        \* cases let in in which the code is known to go wrong:
                       \* "cut", "boundary", "outline", "retry", "pointers"

ASSUME BoundAssumption ==
    /\ InlineMax \in 0 .. CacheSize /\ InlineMax < BlockSize
    /\ MaxSize \in 1 .. Reach /\ MaxOps \in Nat /\ MaxFaults \in Nat
    /\ WriteSizes \union ReadSizes \subseteq Nat \ {0}
    /\ Positions \subseteq 0 .. MaxSize
    /\ TruncateSizes \subseteq 0 .. MaxSize
    /\ Inline \notin Blocks \union {NoBlock}
    /\ Risks \subseteq {"cut", "boundary", "outline", "retry", "pointers"}

VARIABLES disk,   \* the cells of the blocks
          entry,  \* the committed file: [head, size, data], or Absent
          file,   \* lfs_file_t, or Closed
          todo,   \* what is left of the call
          taken,  \* the blocks lfs_alloc has returned since the last lfs_alloc_ack
          got,    \* the cells the last lfs_file_read returned
          result, \* what the last call returned
          ops, faults, \* calls and faults so far
          call    \* history: the handle as it was when the call began

storage == <<disk, entry>>
vars == <<disk, entry, file, todo, taken, got, result, ops, faults, call>>

Zero == 0
Value == 1 .. MaxOps

-----------------------------------------------------------------------------
(* What the variables hold.                                                   *)

Cell == Blocks \union Value \union {Zero, Filler}

Caches == [block : Blocks \union {NoBlock, Inline}, off : Nat, data : Seq(Cell)]

Entries == [head : Blocks \union {Inline}, size : 0 .. MaxSize, data : Seq(Cell)]

Handles ==
    [append : BOOLEAN, inline : BOOLEAN, reading : BOOLEAN, writing : BOOLEAN,
     dirty : BOOLEAN, erred : BOOLEAN, pos : 0 .. MaxSize, off : 0 .. BlockSize,
     block : Blocks \union {NoBlock, Inline}, head : Blocks \union {Inline},
     size : 0 .. MaxSize, cache : Caches]

CallSteps ==
         [op : {"toobig", "flush", "relocate", "copy", "drain", "commit", "close"}]
  \union [op : {"put"}, cells : Seq(Cell)]
  \union [op : {"fill"}, to : 0 .. MaxSize]
  \union [op : {"settle", "setpos"}, pos : 0 .. MaxSize]
  \union [op : {"cut"}, size : 0 .. MaxSize]
  \union [op : {"get"}, n : Nat, cells : Seq(Cell)]
  \union [op : {"extend"}, head : Blocks \union {NoBlock, Inline}, size : 0 .. MaxSize]

ASSUME SentinelAssumption ==
    Absent \notin Entries \union Seq(Cell) /\ Closed \notin Handles

-----------------------------------------------------------------------------

Top == todo[1]
Doing(op) == todo # <<>> /\ Top.op = op
Within(op) == \E j \in DOMAIN todo : todo[j].op = op

\* The step is replaced by others; the call returns when nothing is left.
Go(steps) ==
    /\ todo' = steps \o Tail(todo)
    /\ result' = IF todo' = <<>> THEN "ok" ELSE result
    /\ call' = IF todo' = <<>> /\ call.writes THEN [call EXCEPT !.failed = FALSE] ELSE call

Step(op) == <<[op |-> op]>>
PutStep(cells) == <<[op |-> "put", cells |-> cells]>>
FillStep(to) == <<[op |-> "fill", to |-> to]>>

\* The call returns an error.  LFS_F_ERRED is set by lfs_file_write and by
\* lfs_file_sync; lfs_file_close closes the file all the same.
Fails ==
    /\ todo' = <<>>
    /\ result' = "error"
    /\ call' = [call EXCEPT !.failed = TRUE]

Erring(f) ==
    IF Within("close") THEN Closed
    ELSE [f EXCEPT !.erred = @ \/ Within("put") \/ Within("commit")]

\* lfs_file_size.
FileSize == IF file.writing THEN Max({file.pos, file.size}) ELSE file.size

-----------------------------------------------------------------------------
(* The blocks in use (lfs_fs_traverse): those of the committed file, and those *)
(* of the handle that are not committed yet.                                  *)

\* Faulty variant: pointers that are still in the file's cache are not seen.
OfHandleOnDevice ==
    IF file = Closed \/ file.inline THEN {}
    ELSE (IF file.dirty THEN CtzTraverse(disk, NoCache, file.head, file.size) ELSE {})
         \union
         (IF file.writing THEN CtzTraverse(disk, NoCache, file.block, file.pos) ELSE {})

OfHandle ==
    IF file = Closed \/ file.inline THEN {}
    ELSE (IF file.dirty THEN CtzTraverse(disk, file.cache, file.head, file.size) ELSE {})
         \union
         (IF file.writing THEN CtzTraverse(disk, file.cache, file.block, file.pos) ELSE {})

OfEntry ==
    IF entry = Absent THEN {} ELSE CtzTraverse(disk, NoCache, entry.head, entry.size)

Visited == OfEntry \union OfHandle

\* What lfs_alloc may return: no block that a traversal reaches or that was handed
\* out since the last ack; module BlockAllocator is about this promise.
Free == Blocks \ (Visited \union taken)

-----------------------------------------------------------------------------
(* What the handle shows, and which blocks it takes to show it.               *)

Old == IF file.size > 0 /\ file.head # Inline
       THEN Cells(disk, NoCache, file.head, file.size) ELSE <<>>

View ==
    IF file = Closed THEN Closed
    ELSE IF file.inline THEN SubSeq(file.cache.data, 1, FileSize)
    ELSE IF file.writing
         THEN Cells(disk, file.cache, file.block, file.pos)
              \o SubSeq(Old, file.pos + 1, Len(Old))
    ELSE Old

Saved == IF entry = Absent THEN Absent
         ELSE IF entry.head = Inline THEN entry.data
         ELSE Cells(disk, NoCache, entry.head, entry.size)

Needed ==
    (IF entry = Absent \/ entry.head = Inline THEN {}
     ELSE ListBlocks(disk, NoCache, entry.head, entry.size))
    \union
    (IF file = Closed \/ file.inline THEN {}
     ELSE (IF file.writing THEN ListBlocks(disk, file.cache, file.block, file.pos) ELSE {})
          \union
          (IF file.head = Inline \/ (file.writing /\ file.pos >= file.size) THEN {}
           ELSE ListBlocks(disk, NoCache, file.head, file.size)))

-----------------------------------------------------------------------------
(* Opening.                                                                   *)

InlineEntry(cells) == [head |-> Inline, size |-> Len(cells), data |-> cells]

\* The buffer of an inline file is as long as the cache.
Buffer(cells) ==
    [block |-> Inline, off |-> 0, data |-> Overlay([j \in 1 .. CacheSize |-> Filler], 0, cells)]

Handle(e, append) ==
    [append |-> append, inline |-> e.head = Inline,
     reading |-> FALSE, writing |-> FALSE, dirty |-> FALSE, erred |-> FALSE,
     pos |-> 0, off |-> 0, block |-> NoBlock, head |-> e.head, size |-> e.size,
     cache |-> IF e.head = Inline THEN Buffer(e.data) ELSE NoCache]

\* lfs_file_opencfg.  A file that does not exist is created by a commit of its own;
\* LFS_O_TRUNC makes the handle an empty file, which is only saved later.
Open(append, trunc) ==
    /\ file = Closed
    /\ ops < MaxOps
    /\ IF entry = Absent
       THEN /\ entry' = InlineEntry(<<>>)
            /\ file' = Handle(entry', append)
       ELSE /\ file' = IF trunc THEN [Handle(InlineEntry(<<>>), append) EXCEPT !.dirty = TRUE]
                       ELSE Handle(entry, append)
            /\ UNCHANGED entry
    /\ ops' = ops + 1
    /\ result' = "ok"
    /\ call' = [call EXCEPT !.failed = FALSE]
    /\ UNCHANGED <<disk, todo, taken, got, faults>>

-----------------------------------------------------------------------------
(* The calls begin.                                                           *)

Shown == [view |-> View, pos |-> file.pos, writes |-> FALSE, failed |-> call.failed]

Begin(steps) ==
    /\ file # Closed
    /\ todo = <<>>
    /\ ops < MaxOps
    /\ ops' = ops + 1
    /\ todo' = steps

\* Faulty variant: the cells that were read stay in the cache.
DropReadNot(f) == [f EXCEPT !.reading = FALSE]

\* Faulty variant: the handle goes on reading.
DropReadFlag(f) == [f EXCEPT !.cache = IF f.reading /\ ~f.inline THEN NoCache ELSE @]

\* What was read into the cache is dropped before anything else uses it.
DropRead(f) ==
    [f EXCEPT !.reading = FALSE,
              !.cache = IF f.reading /\ ~f.inline THEN NoCache ELSE @]

\* lfs_file_write.  A write behind the end first fills the hole with zeros.
Write(n) ==
    LET f == DropRead(file)
        p == IF f.append /\ f.pos < f.size THEN f.size ELSE f.pos
        hole == ~f.writing /\ p > f.size
    IN  /\ file # Closed
        /\ IF p + n <= MaxSize
           THEN /\ Begin((IF hole THEN FillStep(p) ELSE <<>>)
                         \o PutStep([j \in 1 .. n |-> ops']))
                /\ file' = [f EXCEPT !.pos = IF hole THEN f.size ELSE p]
                /\ call' = [Shown EXCEPT !.writes = TRUE]
           ELSE /\ Begin(Step("toobig"))
                /\ file' = [f EXCEPT !.pos = p]
                /\ call' = Shown
        /\ UNCHANGED <<storage, taken, got, result, faults>>

\* It returns LFS_ERR_FBIG; its position may have moved.
TooBig ==
    /\ Doing("toobig")
    /\ Fails
    /\ UNCHANGED <<storage, file, taken, got, ops, faults>>

Start(steps, writes) ==
    /\ Begin(steps)
    /\ call' = [Shown EXCEPT !.writes = writes]
    /\ UNCHANGED <<storage, file, taken, got, result, faults>>

\* lfs_file_read.  Only what was written is flushed: a handle that reads goes on.
Read(n) == Start((IF file # Closed /\ file.writing THEN Step("flush") ELSE <<>>)
                 \o <<[op |-> "get", n |-> n, cells |-> <<>>]>>, FALSE)

SeekSteps(p) == Step("flush") \o <<[op |-> "setpos", pos |-> p]>>

\* lfs_file_seek.
Seek(p) == Start(SeekSteps(p), FALSE)

\* Can lfs_ctz_find find the block of the last cell that stays?
CutsWell(s) == \/ file.inline \/ s = 0 \/ s >= FileSize
               \/ CtzIndex(s).index = CtzIndex(s - 1).index

\* lfs_file_truncate.
Truncate(s) ==
    /\ file # Closed
    /\ CutsWell(s) \/ "cut" \in Risks
    /\ IF s < FileSize
       THEN Start(Step("flush") \o <<[op |-> "cut", size |-> s]>> \o SeekSteps(file.pos), FALSE)
       ELSE Start((IF s > FileSize /\ file.pos # FileSize THEN SeekSteps(FileSize) ELSE <<>>)
                  \o (IF s > FileSize THEN FillStep(s) ELSE <<>>)
                  \o SeekSteps(file.pos), s > FileSize)

\* lfs_file_sync, lfs_file_close.
Sync == Start(Step("flush") \o Step("commit"), FALSE)
Close == Start(Step("flush") \o Step("commit") \o Step("close"), FALSE)

-----------------------------------------------------------------------------
(* The loop of lfs_file_write.                                                *)

\* lfs_file_write for the zeros of a hole, or of a file that is made longer.
Fill ==
    /\ Doing("fill")
    /\ IF file.pos < Top.to
       THEN file' = DropRead(file) /\ Go(PutStep(<<Zero>>) \o <<Top>>)
       ELSE Go(<<>>) /\ UNCHANGED file
    /\ UNCHANGED <<storage, taken, got, ops, faults>>

TooLarge == Max({file.pos + Len(Top.cells), file.size}) > InlineMax

\* lfs_file_outline: what is written next does not fit inline.
Outline ==
    /\ Doing("put")
    /\ file.inline
    /\ TooLarge
    /\ file' = [file EXCEPT !.off = file.pos]
    /\ taken' = {}
    /\ Go(Step("relocate") \o <<Top>>)
    /\ UNCHANGED <<storage, got, ops, faults>>

\* The write goes to the buffer.
PutInline ==
    /\ Doing("put")
    /\ file.inline
    /\ ~TooLarge
    /\ file' = [file EXCEPT !.block = Inline,
                            !.writing = TRUE,
                            !.cache.data = Overlay(@, file.pos, Top.cells),
                            !.off = file.pos + Len(Top.cells),
                            !.pos = file.pos + Len(Top.cells),
                            !.erred = FALSE]
    /\ taken' = {}
    /\ Go(<<>>)
    /\ UNCHANGED <<storage, got, ops, faults>>

NeedsBlock == ~file.writing \/ file.off = BlockSize

\* A new block is needed: it follows the one that holds the cell before.
StartExtend ==
    /\ Doing("put")
    /\ ~file.inline
    /\ NeedsBlock
    /\ LET found == ~file.writing /\ file.pos > 0
           from  == IF found THEN CtzFind(disk, file.head, file.size, file.pos - 1).block
                    ELSE file.block
       IN  /\ file' = IF found THEN [file EXCEPT !.block = from, !.cache = NoCache] ELSE file
           /\ Go(<<[op |-> "extend", head |-> from, size |-> file.pos], Top>>)
    /\ taken' = {}
    /\ UNCHANGED <<storage, got, ops, faults>>

\* What lfs_ctz_extend writes to the new block: a copy of the last block if that
\* is not full, or else the pointers.
Header(head, size) ==
    LET last == CtzIndex(size - 1)
    IN  IF size = 0 THEN <<>>
        ELSE IF last.off + 1 # BlockSize
             THEN [k \in 1 .. last.off + 1 |-> Peek(disk, NoCache, head, k - 1)]
             ELSE NewPointers(disk, head, last.index + 1)

\* lfs_ctz_extend.
Extend(b) ==
    /\ Doing("extend")
    /\ b \in Free
    /\ taken' = taken \union {b}
    /\ LET h == Header(Top.head, Top.size)
           c == Filled(file.cache, b, 0, h)
           n == Flushes(c)
       IN  /\ disk' = IF h = <<>> THEN Erased(disk, b)
                      ELSE Written(Erased(disk, b), c, n * CacheSize)
           /\ file' = [file EXCEPT !.block = b, !.off = Len(h), !.writing = TRUE,
                                   !.cache = IF h = <<>> THEN @ ELSE Kept(c, n)]
    /\ Go(<<>>)
    /\ UNCHANGED <<entry, got, ops, faults>>

\* Is the new block further back than the second?  Starting over with the size counted
\* from the block's start writes it as the second.
LosesPlace(size) == CtzIndex(size - 1).off + 1 = BlockSize /\ CtzIndex(size - 1).index > 0

\* The block is bad, and lfs_ctz_extend starts over: with its arguments, or, when a
\* program has failed, with the size and the head it has changed by then.
ExtendBad(b) ==
    /\ Doing("extend")
    /\ b \in Free
    /\ faults < MaxFaults
    /\ faults' = faults + 1
    /\ taken' = taken \union {b}
    /\ LET h == Header(Top.head, Top.size)
           c == Filled(file.cache, b, 0, h)
           last == CtzIndex(Top.size - 1)
       IN  \/ /\ disk' = Erased(disk, b)
              /\ Go(<<Top>>)
           \/ \E j \in 1 .. Flushes(c) :
                 /\ h # <<>>
                 /\ LosesPlace(Top.size) => "pointers" \in Risks
                 /\ disk' = Spoilt(Erased(disk, b), c, j)
                 /\ Go(<<[op |-> "extend", size |-> last.off + 1,
                          head |-> IF last.off + 1 # BlockSize THEN Top.head
                                   ELSE h[PointerSize * ((j * CacheSize - 1) \div PointerSize) + 1]]>>)
    /\ file' = [file EXCEPT !.cache = NoCache]
    /\ UNCHANGED <<entry, got, ops>>

Chunk == Min({Len(Top.cells), BlockSize - file.off})

\* lfs_bd_prog of what fits in the block.
Put ==
    /\ Doing("put")
    /\ ~file.inline
    /\ ~NeedsBlock
    /\ LET c == Filled(file.cache, file.block, file.off, SubSeq(Top.cells, 1, Chunk))
           n == Flushes(c)
           more == SubSeq(Top.cells, Chunk + 1, Len(Top.cells))
       IN  /\ disk' = Written(disk, c, n * CacheSize)
           /\ file' = [file EXCEPT !.cache = Kept(c, n),
                                   !.pos = @ + Chunk, !.off = @ + Chunk,
                                   !.erred = @ /\ more # <<>>]
           /\ Go(IF more = <<>> THEN <<>> ELSE PutStep(more))
    /\ taken' = {}
    /\ UNCHANGED <<entry, got, ops, faults>>

\* Is the position where the new block starts?  A traversal counts the block as the
\* one before, and misses blocks of the file.
AtBoundary == file.pos > 0 /\ CtzIndex(file.pos - 1).index # CtzIndex(file.pos).index

\* The block turns out bad.
PutBad ==
    /\ Doing("put")
    /\ ~file.inline
    /\ ~NeedsBlock
    /\ AtBoundary => "boundary" \in Risks
    /\ faults < MaxFaults
    /\ faults' = faults + 1
    /\ LET c == Filled(file.cache, file.block, file.off, SubSeq(Top.cells, 1, Chunk))
       IN  \E j \in 1 .. Flushes(c) :
              /\ disk' = Spoilt(disk, c, j)
              /\ file' = [file EXCEPT !.cache = IF j = 1 THEN c ELSE Kept(c, j - 1)]
    /\ Go(Step("relocate") \o <<Top>>)
    /\ UNCHANGED <<entry, taken, got, ops>>

\* Faulty variant: the bad block is copied, not what the cache has for it.
CopiedFromDevice == [k \in 1 .. file.off |->
                        IF file.inline
                        THEN IF k <= Len(file.cache.data) THEN file.cache.data[k] ELSE Filler
                        ELSE Peek(disk, NoCache, file.block, k - 1)]

\* What lfs_file_relocate copies: the block as far as it is written.
Copied == [k \in 1 .. file.off |->
              IF file.inline
              THEN IF k <= Len(file.cache.data) THEN file.cache.data[k] ELSE Filler
              ELSE Peek(disk, file.cache, file.block, k - 1)]

\* lfs_file_relocate, and the end of lfs_file_outline.
Relocate(b) ==
    /\ Doing("relocate")
    /\ b \in Free
    /\ taken' = taken \union {b}
    /\ LET c == Filled(NoCache, b, 0, Copied)
           n == Flushes(c)
       IN  /\ disk' = IF file.off = 0 THEN Erased(disk, b)
                      ELSE Written(Erased(disk, b), c, n * CacheSize)
           /\ file' = [file EXCEPT !.cache = IF file.off = 0 THEN NoCache ELSE Kept(c, n),
                                   !.block = b, !.writing = TRUE, !.inline = FALSE]
    /\ Go(<<>>)
    /\ UNCHANGED <<entry, got, ops, faults>>

\* The new block is bad too.
RelocateBad(b) ==
    /\ Doing("relocate")
    /\ b \in Free
    /\ faults < MaxFaults
    /\ faults' = faults + 1
    /\ taken' = taken \union {b}
    /\ disk' = Erased(disk, b)
    /\ Go(<<Top>>)
    /\ UNCHANGED <<entry, file, got, ops>>

\* The cache holds more than the handle counts as written.  A call that goes on from
\* file.off later finds it in the way.
PartlyPut == Doing("relocate") /\ Within("put") /\ ~file.inline

\* lfs_alloc returns LFS_ERR_NOSPC.
NoSpace ==
    /\ Doing("extend") \/ Doing("relocate")
    /\ Free = {}
    /\ PartlyPut => "retry" \in Risks
    /\ file' = Erring(file)
    /\ Fails
    /\ UNCHANGED <<storage, taken, got, ops, faults>>

-----------------------------------------------------------------------------
(* lfs_file_flush.                                                            *)

Flush ==
    /\ Doing("flush")
    /\ LET f == DropRead(file)
           settle == <<[op |-> "settle", pos |-> f.pos]>>
       IN  IF ~f.writing THEN file' = f /\ Go(<<>>)
           ELSE IF f.inline THEN /\ file' = [f EXCEPT !.pos = Max({f.pos, f.size})]
                                 /\ Go(settle)
           ELSE file' = f /\ Go(Step("copy") \o Step("drain") \o settle)
    /\ UNCHANGED <<storage, taken, got, ops, faults>>

\* The rest of the old file is copied behind what is written.
Copy ==
    /\ Doing("copy")
    /\ IF file.pos < file.size
       THEN LET at == CtzFind(disk, file.head, file.size, file.pos)
            IN  /\ at.block \in Blocks
                /\ Go(PutStep(<<Peek(disk, NoCache, at.block, at.off)>>) \o <<Top>>)
       ELSE Go(<<>>)
    /\ UNCHANGED <<storage, file, taken, got, ops, faults>>

\* What is left in the cache is written out.
Drain ==
    /\ Doing("drain")
    /\ disk' = IF file.cache.block = NoBlock THEN disk
               ELSE Written(disk, file.cache, Len(file.cache.data))
    /\ file' = [file EXCEPT !.cache = NoCache]
    /\ Go(<<>>)
    /\ UNCHANGED <<entry, taken, got, ops, faults>>

DrainBad ==
    /\ Doing("drain")
    /\ file.cache.block # NoBlock
    /\ faults < MaxFaults
    /\ faults' = faults + 1
    /\ disk' = Spoilt(disk, file.cache, 1)
    /\ Go(Step("relocate") \o <<Top>>)
    /\ UNCHANGED <<entry, file, taken, got, ops>>

\* The handle now has the new list.
Settle ==
    /\ Doing("settle")
    /\ file' = [file EXCEPT !.head = file.block, !.size = file.pos, !.pos = Top.pos,
                            !.writing = FALSE, !.dirty = TRUE]
    /\ Go(<<>>)
    /\ UNCHANGED <<storage, taken, got, ops, faults>>

-----------------------------------------------------------------------------
(* lfs_file_sync and lfs_file_close after the flush.                          *)

Commits == file.dirty /\ ~file.erred

\* lfs_dir_commit of the content or of the head of the list.
Commit ==
    /\ Doing("commit")
    /\ IF Commits
       THEN /\ entry' = IF file.inline THEN InlineEntry(SubSeq(file.cache.data, 1, file.size))
                        ELSE [head |-> file.head, size |-> file.size, data |-> <<>>]
            /\ file' = [file EXCEPT !.dirty = FALSE]
       ELSE UNCHANGED <<entry, file>>
    /\ Go(<<>>)
    /\ UNCHANGED <<disk, taken, got, ops, faults>>

\* The directory is full.  An inline file goes to a block of its own instead.
CommitFull ==
    /\ Doing("commit")
    /\ Commits
    /\ faults < MaxFaults
    /\ faults' = faults + 1
    /\ IF file.inline
       THEN /\ file.pos # file.size => "outline" \in Risks
            /\ file' = [file EXCEPT !.off = file.pos]
            /\ taken' = {}
            /\ Go(Step("relocate") \o Step("flush") \o <<Top>>)
       ELSE /\ file' = Erring(file)
            /\ Fails
            /\ UNCHANGED taken
    /\ UNCHANGED <<storage, got, ops>>

Closes ==
    /\ Doing("close")
    /\ file' = Closed
    /\ Go(<<>>)
    /\ UNCHANGED <<storage, taken, got, ops, faults>>

-----------------------------------------------------------------------------
(* lfs_file_read, lfs_file_seek and lfs_file_truncate after the flush.        *)

\* A piece of a read, as far as the block goes.
Get ==
    /\ Doing("get")
    /\ IF Top.n = 0 \/ file.pos >= file.size
       THEN /\ got' = Top.cells
            /\ Go(<<>>)
            /\ UNCHANGED file
       ELSE LET at == IF file.reading /\ file.off # BlockSize
                      THEN [block |-> file.block, off |-> file.off]
                      ELSE IF file.inline THEN [block |-> Inline, off |-> file.pos]
                      ELSE CtzFind(disk, file.head, file.size, file.pos)
                n  == Min({Top.n, file.size - file.pos, BlockSize - at.off})
                s  == [k \in 1 .. n |-> Peek(disk, file.cache, at.block, at.off + k - 1)]
            IN  /\ at.block \in Blocks \union {Inline}
                /\ file' = [file EXCEPT !.reading = TRUE, !.block = at.block,
                                        !.pos = @ + n, !.off = at.off + n,
                                        !.cache = IF file.inline THEN @
                                                  ELSE [NoCache EXCEPT !.block = at.block]]
                /\ Go(<<[Top EXCEPT !.n = @ - n, !.cells = @ \o s]>>)
                /\ UNCHANGED got
    /\ UNCHANGED <<storage, taken, ops, faults>>

SetPos ==
    /\ Doing("setpos")
    /\ file' = [file EXCEPT !.pos = Top.pos]
    /\ Go(<<>>)
    /\ UNCHANGED <<storage, taken, got, ops, faults>>

\* The list is cut: its head is the block found for the new size.
Cut ==
    /\ Doing("cut")
    /\ LET at == IF file.inline THEN [block |-> Inline, off |-> Top.size]
                 ELSE CtzFind(disk, file.head, file.size, Top.size)
       IN  file' = [file EXCEPT !.block = at.block, !.off = at.off,
                                !.head = at.block, !.size = Top.size,
                                !.dirty = TRUE, !.reading = TRUE]
    /\ Go(<<>>)
    /\ UNCHANGED <<storage, taken, got, ops, faults>>

-----------------------------------------------------------------------------

\* The power fails.  The device and the committed file are what is left.
Crash ==
    /\ file # Closed
    /\ file' = Closed
    /\ todo' = <<>>
    /\ taken' = {}
    /\ UNCHANGED <<storage, got, result, ops, faults, call>>

-----------------------------------------------------------------------------

Blank == [b \in Blocks |-> [k \in 0 .. BlockSize - 1 |-> Filler]]

\* Nobody has the file open.
Mounted ==
    /\ file = Closed
    /\ todo = <<>>
    /\ taken = {}
    /\ got = <<>>
    /\ result = "ok"
    /\ ops = 0
    /\ faults = 0
    /\ call = [view |-> Closed, pos |-> 0, writes |-> FALSE, failed |-> FALSE]

Init == disk = Blank /\ entry = Absent /\ Mounted

Calls == \/ \E a, t \in BOOLEAN : Open(a, t)
         \/ \E n \in WriteSizes : Write(n)
         \/ \E n \in ReadSizes : Read(n)
         \/ \E p \in Positions : Seek(p)
         \/ \E s \in TruncateSizes : Truncate(s)
         \/ Sync \/ Close

Steps == \/ TooBig \/ Fill \/ Outline \/ PutInline \/ StartExtend \/ Put \/ PutBad \/ NoSpace
         \/ \E b \in Blocks : Extend(b) \/ ExtendBad(b) \/ Relocate(b) \/ RelocateBad(b)
         \/ Flush \/ Copy \/ Drain \/ DrainBad \/ Settle
         \/ Commit \/ CommitFull \/ Closes
         \/ Get \/ SetPos \/ Cut

Next == Calls \/ Steps \/ Crash

Spec == Init /\ [][Next]_vars

-----------------------------------------------------------------------------
(* Properties.                                                                *)

TypeOK ==
    /\ disk \in [Blocks -> [0 .. BlockSize - 1 -> Cell]]
    /\ entry \in Entries \union {Absent}
    /\ file \in Handles \union {Closed}
    /\ todo \in Seq(CallSteps)
    /\ taken \subseteq Blocks
    /\ ops \in 0 .. MaxOps
    /\ file # Closed => ~(file.reading /\ file.writing)
    /\ todo # <<>> => file # Closed

\* The formula that finds a cell without walking agrees, at the handle's position, with
\* blocks that are filled one after the other, and so does the place in its block that the
\* handle keeps up to date while it reads and writes (lfs_ctz_index, file->off).
OffIsPlace ==
    file # Closed =>
        /\ CtzIndex(file.pos) = Place[file.pos]
        /\ \/ todo # <<>> \/ file.inline \/ ~(file.reading \/ file.writing)
           \/ file.off \in {Place[file.pos].off, BlockSize}

\* Whatever the handle does, and wherever the power fails, the committed file is
\* whole: all of its data and pointers are on the device, and every pointer of the
\* skip list is the one the walks of lfs_ctz_find and lfs_ctz_traverse count on.
CommittedIsList ==
    entry # Absent /\ entry.head # Inline => IsList(disk, NoCache, entry.head, entry.size)

\* No block that the committed file or the handle's content needs can be handed out
\* by lfs_alloc, wherever it may be called: a traversal reaches it, or it was taken
\* since the last ack (lfs_fs_traverse and its two cases for open files).
Protected ==
    (todo = <<>> \/ Top.op \in {"extend", "relocate", "commit"}) =>
        Needed \subseteq Visited \union taken

\* The assertions of the block layer: a cache is programmed only for the block it
\* is for, and the rest of the old file lies on the device when it is copied.
AssertionsHold ==
    /\ Doing("put") /\ ~file.inline /\ ~NeedsBlock =>
          \/ file.cache.block = NoBlock
          \/ /\ file.cache.block = file.block
             /\ file.off \in file.cache.off .. file.cache.off + CacheSize - 1
    /\ Doing("extend") => file.cache.block = NoBlock
    /\ Doing("copy") /\ file.pos < file.size => file.head \in Blocks

\* The handle keeps the promise of SyncedFile: reads return what was written last,
\* a sync saves all of it or nothing, and nothing else changes what is saved.
Promise == INSTANCE SyncedFile WITH
    Data   <- Value,
    saved  <- Saved,
    view   <- IF todo = <<>> THEN View ELSE call.view,
    pos    <- IF todo # <<>> THEN call.pos ELSE IF file = Closed THEN 0 ELSE file.pos,
    busy   <- todo # <<>>,
    failed <- call.failed

KeepsPromise == Promise!Spec

=============================================================================
