# littlefs in TLA+

littlefs is a filesystem for microcontrollers with raw flash. This directory models its
core, `src/lfs.c`, in TLA+, checks the models with TLC on small instances and proves the
most important facts about them, for instances of any size, with TLAPS.

littlefs runs in one thread: what makes it hard is not concurrency but that the power may
fail, and a call to the block device may fail, between any two writes, that blocks wear
out, and that what is in RAM must agree with what is on the device after all of that. The
models therefore split every operation at the points where something reaches the device,
and let a power loss, an error or a bad block fall at each of them.

## The parts of the system

| part | state | operations | what makes it correct | here |
|---|---|---|---|---|
| metadata pair | two erase blocks with a log of commits each; `lfs_mdir_t` in RAM | `lfs_dir_fetch`, `lfs_dir_commit`, `lfs_dir_compact`, `lfs_dir_alloc` | a commit is atomic and durable; the order of the two blocks does not matter; the handle in RAM is fresh | `MetadataPair` |
| block allocator | lookahead bitmap, its place, the `ack` count | `lfs_alloc`, `lfs_alloc_ack`, `lfs_alloc_lookahead` | no block in use is handed out; "no space" comes only when the blocks looked at since the ack are used up; the search ends | `BlockAllocator` |
| directory tree | entries in pairs, the list threaded through all pairs by their tails | `lfs_mkdir`, `lfs_remove`, `lfs_rename`, creation in `lfs_file_opencfg`, `lfs_dir_drop`, `lfs_fs_relocate` | operations are atomic; the list holds exactly the tree | `FsTree` |
| global state | `gstate`, `gpending`, `gdelta` in RAM; one delta in each pair | `lfs_fs_prepmove`, `lfs_fs_preporphans`, every commit | RAM and device agree, whatever fails | `FsTree` |
| mount and repair | | `lfs_mount`, `lfs_fs_demove`, `lfs_fs_deorphan` | after the repair nothing is out of step | `FsTree` |
| split of directories | further pairs of one directory, joined by hard tails | `lfs_dir_split`, the drop of an empty pair in `lfs_dir_commit` | entries are found in one of the pairs, in order | `TagLog` (entries), `OpenHandles` (handles) |
| tag log | tags in a block, whose ids shift with every create and delete behind them | `lfs_dir_traverse`, `lfs_dir_getslice`, `lfs_dir_fetchmatch` | lookups agree with the entries the log stands for; a compaction keeps them | `TagLog` |
| CTZ lists | blocks of a file, each with pointers to earlier ones | `lfs_ctz_index`, `lfs_ctz_find`, `lfs_ctz_extend`, `lfs_ctz_traverse` | the block and offset of every position; the chain is never changed in place | `CtzList` |
| files | `lfs_file_t`: position, flags, cache, inline data or CTZ list | open, read, write, flush, sync, truncate, seek, close | what is read is what was written; a file is synced as a whole or not at all | `FileIO`, `SyncedFile` |
| open handles | `lfs->mlist` | every commit updates it; `lfs_dir_read`, `seek`, `rewind` | a handle stays with its entry when ids shift, entries go or pairs split | `OpenHandles` |
| device caches | `rcache`, `pcache`, `file->cache` | `lfs_bd_read`, `cmp`, `prog`, `flush`, `erase`, `sync` | a read returns what was programmed last; a check of a program reads the device | `BdCache` |
| attributes, lookup of a name | tags of the entry | `lfs_setattr`, `lfs_removeattr`, `lfs_dir_find` | as for the tag log | `TagLog` |
| path syntax, CRC, byte order | | | string and bit handling; a CRC is taken to detect what it is meant to detect | not modelled |
| migration from v1 | | `lfs_migrate` | a one-shot conversion, compiled in on request | not modelled |
| emulated device, tests, scripts | | | I/O on the host, drivers | not modelled |

How they interact: a directory operation finds its pairs by `lfs_dir_fetch`, takes blocks
from the allocator, and commits to one pair after the other. A commit that moves its pair
to a fresh block commits to the parent and to the predecessor in the list
(`lfs_fs_relocate`), which may move in turn. Every commit also stores the change of the
global state; the allocator and the mount walk the list. Each model takes from the next
one below only what is checked there: `FsTree` takes a commit to one pair as one step,
which is what `MetadataPair` refines to `AtomicCell`, and takes any block that is not in
use from the allocator, which is what `NoDoubleUse` of `BlockAllocator` says. `TagLog`
looks into such a commit: which tags it writes, and how they are read. `OpenHandles` takes
the entries and ids that `TagLog` justifies and follows the handles over them. `FileIO`
takes the commit of a file's entry as one step again, and blocks from an allocator that
sees what `lfs_fs_traverse` reports: its `Protected` is the other half of `NoDoubleUse`,
that a traversal does report every block in use. `FileIO` has the cells of a file go
through the file's own cache only; `BdCache` is about all three caches together.

## The modules

**`AtomicCell`** — what a directory promises: its content changes at once, and what was
acknowledged stays.

**`MetadataPair`** — one pair, in as many stages as writes can be told apart.
`disk[b]` is a block: its revision count, the complete commits in it and the state of the
space after them (erased, programmed in part, garbage). `mdir` is the handle; `pc` the
place in `lfs_dir_commit` (`append`, `verify`) or `lfs_dir_compact` (`compact`, `erase`,
`prog`, `check`, `relocate`, `link`); `moved` the two booleans `relocated` and `exhausted`;
`ptr` the pointer in the parent. Revisions wrap at `RevMod`, in place of 2^32, and are
compared as the code does, by the sign of the difference. `Crash` may come anywhere; an
erase or a program that it cuts short leaves any of `GarbageRev` as revision. `Error` is an
error of the device that goes to the caller. `KeepHandle` says whether the caller uses its
`mdir` after that: directory operations fetch anew, an open file does not.

**`BlockAllocator`** — `lfs_alloc` one iteration at a time (`Skip`, `Take`, `NoSpace`,
`Rescan`), and around it operations that take blocks, link them into the tree, abandon and
release them, in any order. `held` are blocks handed out and not linked: no scan sees
them, only the `ack` count protects them. `NestedAck` lets an operation ack while it holds
two blocks, as `lfs_dir_split` does inside `lfs_mkdir`; `ErrorSpec` lets the scan fail half
way.

**`FileTree`** — what the user is promised. `tree` is a set of paths; an operation settles
the tree it leads to, `goal`, when it begins, and from then on `tree` is what it was before,
until in one step it is `goal`. An operation that fails, or is cut off, may be given up
before that step, never after it, and nothing in between is ever seen: a rename that shows
both names between its two commits, or neither, is no behaviour of `FileTree`.

**`FsTree`** — directories, the list, and the global state. `disk[b]` is what block `b`
holds: a directory's entries in the order of their names, its tail, and its part of the
global state. Revisions are counted modulo three, for the halves of a pair are one apart.
A move names a pair and a place, and the exclusive or of several moves is the set of them;
orphans are a count in RAM and a bit on the device. `todo` holds what an operation has
still to do: one entry for each commit. Each action is one commit, with what comes of it:
`Outcomes` gives the states after `lfs_dir_commit`, for the ways in `Ways`:

| way | in the code |
|---|---|
| `append` | the commit fits in the log of the current half |
| `compact` | the other half is written |
| `retry` | the append fails after the pair's delta was read into `gdelta`; compaction reads it again |
| `worn` | the revision is at a multiple of `block_cycles + 1`: the other half moves to a fresh block |
| `bad` | the other half turns out bad in the compaction and moves |
| `fail` | an error (the device's, or no space): the operation ends with what it has committed, and `gpending` and `gdelta` stay as they are |

`Restart` is a power loss, or an unmount, and the mount that follows. `tree` is a history
variable: what a mount would show now. `goal` is the tree the operation that was started
leads to.

`Risks` names the situations that the code does not handle (each found by a run in which it
was allowed, and each still reachable in the code; `full` takes six blocks instead of the
seven of the run `tree`, and `moved` nine blocks and paths of three names):

| risk | situation | consequence |
|---|---|---|
| `itself` | a rename of an entry onto itself | the entry is deleted |
| `inside` | a rename of a directory into one below it | the subtree is cut off |
| `delta` | a directory that stores a part of the global state moves, or one joins or leaves the list with such a part in the commit that moves its neighbour | after a power loss before the predecessor is updated, the state is wrong: a move is repeated, or a repair forgotten |
| `cascade` | a directory moves while another is out of step already | `lfs_fs_deorphan` repairs one of them only |
| `moved` | a directory moves into one that is relocated by this commit | `lfs_fs_deorphan` finds no parent for it and takes it off the list |
| `copy` | a directory moves whose parent or predecessor is held as a copy for a later commit | the later commit starts from a copy that is out of date |
| `stale` | a commit fails while a move is prepared, or after the pair's delta was read into `gdelta`, or it was to link a directory that already took a part of the global state | the next operation writes what is left in RAM: after a failed `lfs_rename`, an `lfs_mkdir` elsewhere deletes the file that was to be renamed |
| `full` | a worn directory and no free block | the commit stays in the pair, without its part of the global state |

**`TagLog`** — one directory as the logs of its pairs. `store[p]` is the sequence of tags
in the current block of pair `p`; a tag has a kind, an id and a value, as in `lfs_tag_t`
without the bits. The three readers are three definitions: `FetchMatch` scans forwards and
keeps the best match (`Best`, `Synthetic`), `GetSlice` goes backwards and undoes the splices
it passes (`BeforeSplice`), `Unique` filters what a compaction carries over (`Filtered`).
An operation sets `call`, the arguments of `lfs_dir_commit`; `DirCommit` appends them,
compacts the log, splits the pair, or drops it. `move` is the pending move in RAM, `stored`
the one the device has. `dir` is a history variable: what each name should show.

| risk | situation | consequence |
|---|---|---|
| `read` | reads while a move that a power loss left over is pending (`lfs.c:503`) | entries are read as their neighbours: the run `log_pending_move` |
| `attr` | `lfs_setattr` or `lfs_removeattr` at such a time (`lfs.c:3359`) | the attribute goes to another entry |
| `drop` | the second commit of a rename empties a pair that is not the head (`lfs.c:1734`) | the move stays in RAM; the next operation repairs a pair that is no longer in the directory, and whose blocks may be in use again by then |

**`CtzList`** — the skip list of a file. `CtzIndex` is the closed formula of
`lfs_ctz_index`, `Place` what it stands for: the blocks filled one after the other.
`CtzFind` and `CtzTraverse` walk the pointers as the code does; `IsList` says what a list
is. Integers are unbounded: the offsets of a 32-bit file stay below 2^31, and so do the
intermediate results.

**`SyncedFile`** — what an open file promises: what is written is seen through the handle
at once, saved by a sync as a whole, and a call that fails leaves nothing to be saved until
a write succeeds.

**`FileIO`** — one handle. `file` is `lfs_file_t`; `entry` the committed file; `disk` the
cells of the data blocks; `todo` the calls under way, the innermost first: a step is one
`lfs_ctz_extend`, `lfs_bd_prog`, `lfs_file_relocate`, commit, ... and between any two of
them the power may fail. `taken` are the blocks handed out since the last ack. A bad block
is met in an extend, a write, a flush or a relocation; a full device and a full directory
where the code asks for space. `View` is what the handle shows, `Saved` what a mount finds;
`Promise` is the refinement of `SyncedFile` by these two.

| risk | situation | consequence |
|---|---|---|
| `cut` | a truncation to the end of a block (`lfs.c:3009`) | the list has one block too many and is read wrongly: the run `file_truncate` |
| `boundary` | a bad block while the position is where the new block starts (`lfs.c:3813`) | the traversal counts from the wrong block and misses blocks in use |
| `outline` | an inline file is outlined in a sync, its position not at its end (`lfs.c:2585`) | only the part before the position is moved to the new block; the flush that follows takes the rest from a list of blocks, which an inline file does not have |
| `retry` | no block is left for a relocation inside a write (`lfs.c:2920`) | the cache is ahead of the handle, and a later call trips over the assertion of `lfs_bd_prog` |
| `pointers` | a program of the pointers fails in `lfs_ctz_extend` (`lfs.c:2207`), behind the second block | the block is written again as if it were the second, and reads come from other blocks. Pointers fill a cache only if it is small (`CacheSize = 2` here; 16 bytes and a file of nine blocks on a device) |

**`OpenHandles`** — `chain` is one directory: its pairs in order with the names in each;
`mlist` the list of handles, each with its copy of the mdir and its id. `Updated` is the
loop at the end of `lfs_dir_commit`, with the mdir of the committing handle changing under
it; every commit may also split its pair any number of times, move it, or drop it.

| risk | situation | consequence |
|---|---|---|
| `split` | the committing handle moves on to the tail before others are updated (`lfs.c:1842`) | the others are given the wrong pair: the run `handles_split` |
| `rename` | one commit deletes an entry and creates another, with handles behind (`lfs.c:1827`) | a handle names another file's entry |
| `last` | the last entry of a pair that has a tail is removed while it is open (`lfs.c:1842`) | its handle is detached, and attached again to the tail: a sync overwrites another file |
| `ahead` | a directory that is read stands before the entry that is removed (`lfs.c:1828`) | its handle is detached; the next read fetches the null pair |
| `drop` | a handle has the pair that drops out (`lfs.c:1734`) | it keeps a pair that is no longer in the directory |

`lfs_mkdir` and `lfs_rename` keep a copy of an mdir over another commit; where that commit
moves the pair behind it the copy is stale. The module leaves these cases out (the
arguments `may` of `Mkdir` and `RenameAcross`).

**`BdCache`** — the three caches, a cell at a time. `rc` and `orig` are read caches, the
second that of the handle with which `lfs_file_flush` copies the rest of a file; they share
one buffer, `rbuf`, as in the code. `pc` and `fc` are program caches. Nothing keeps them
coherent but the order of the calls, so the module has the callers: a commit
(`CommitAppend` to `Committed`), a block of a file (`StartBlock` to `FinishBlock`), its move
away from a bad block (`MoveStart` to `MoveDone`), the copy (`CopyStart` to `CopyEnd`), and
lookups in between. Any cell that is programmed may fail to take the value. `meant` is a
history variable: what a cell was last programmed or erased to. `FaultySpec` adds reads
that fail: `lfs_bd_read` has set the descriptor of `rcache` before it calls the device
(`lfs.c:76-84`), so the next read of the place answers with what the buffer held, and
`ReadsLast` fails.

## The runs

| run | question | result |
|---|---|---|
| `pair` | three blocks, one may wear out, wear levelling at every fifth revision, two commits per block: is the pair an atomic cell, through append, compaction, relocation, error and power loss at every stage? | holds: `Durable`, `OrderFree`, `HandleFresh`, the inductive invariant, and `AtomicCell!Spec` |
| `superblock` | the same for the pair {0, 1}, which may not move; does every commit return? | holds |
| `allocator` | five blocks, a lookahead of three: is a block handed out twice? is "no space" returned while a block that was free and unmarked at the ack is left? does every call return? | holds |
| `tree` | seven blocks, two names, four operations, one relocation, a power loss after any commit, an error in any that leaves no more than orphans in RAM (`FailsClean`): is each operation atomic over all its commits, and do list, tree and global state agree? | holds: `TypeOK`, `TakesEffect`, `ListIsTree`, `StateIsKept`, and `FileTree!Spec` |
| `tree_retry` | the same, when an append may fall back to a compaction after it has read the delta | a file moved there and back has both its names, and then neither, without any power loss |
| `log` | three operations on a directory of up to three names and three pairs, every commit appended, compacted or split: do the three readers of the log agree? | holds: `FindsNames`, `FindsParent`, `GetsLast`, `ListsEach`, `MoveKept` |
| `log_pending_move` | the same, when files are read while a move is pending after a power loss | an entry is read as its neighbour |
| `file` | four calls on a file of up to three blocks, a fault and a power loss at every step | holds: `CommittedIsList`, `Protected`, the assertions, and `SyncedFile!Spec` |
| `file_truncate` | the same, when a file may be cut at the end of a block | it reads back other data |
| `handles` | two handles, four names, three pairs: does each handle stay with its entry? does a directory that changes while it is read list every entry once? | holds |
| `handles_split` | the same, when the sync of one handle splits the directory under another | the other names a wrong entry |
| `cache` | three blocks of four cells, caches of two: does every read return what was programmed last, and is what was checked on the device? | holds: `ReadsLast`, `WrittenHolds`, the assertions, and the inductive invariant |

The runs that end in a violation each show one place where the code does not do what a
comment or document of the repository says; `findings` in PROJECT.json quotes it. The other
situations the code does not handle are in the tables above; to see one, add its risk to a
run's `Risks`. Three more are switched by other constants: `KeepHandle = TRUE` in `pair`
lets an open file go on after an error, and the pair is no `AtomicCell`, for it commits to the half that
the next mount does not read; `NestedAck = TRUE`, or `ErrorSpec`, in `allocator` lets an
operation ack while it holds blocks, or a scan fail half way, and `NoDoubleUse` fails; and
`pair` with two blocks, one of which may go bad, never returns from a commit.

**The bounds.** `pair`: three blocks are the two of a pair and one to move to; a fourth
adds nothing since the block that is left becomes free. `RevMod = 8` is the smallest that
has all cases of the signed comparison, and every revision is a first one, so the wrap is
met at once. Two contents tell an old commit from a new one. `allocator`: with five blocks
and a window of three, the window wraps round the device at different places and covers
parts of it twice. `tree`: seven blocks are the superblock pair, two directories and one
block to move to; four operations make two directories and an entry and move or remove it,
the shortest way in which a move between directories meets another directory's relocation.
A path has at most two names. `log`: with two names at the start and three operations a
rename meets entries before and behind both of its places, in one pair and in two; splices
are followed over logs of up to 14 tags. `file`: blocks of six cells with pointers of one
cell give the third block two pointers, so the list skips; the largest file has three
blocks, and six blocks leave none to spare when a file is rewritten and one block is bad.
The writes of two and nine cells stay within a block, cross one, and outline a file.
`handles`: four names and three pairs let a split happen with handles in both halves, and
two handles are one that commits and one that is updated. `cache`: a block has two
program units and two loads of a read cache; three erases let a block be written, moved and
taken again. One value is enough there: stale cells differ from it by being erased or
spoilt. Blocks are interchangeable but for 0 and 1, so permuting the
others is a symmetry; all properties of the runs with a symmetry are safety properties.

**Fairness.** `Returns` and `AllocReturns` need one assumption, weak fairness of the steps
of the driver: a call that has been made keeps running. The library is sequential code with
no waiting, so this is what a processor does. Nothing is assumed of the caller, of the
power, or of when a block wears out.

## The proofs

Each proof module is checked from nothing by TLAPS. A theorem holds for every value of the
constants that the named assumptions of its module allow; the runs show the same
properties on small instances.

| module | of | theorems | hypothesis |
|---|---|---|---|
| `MetadataPairProofs` | `MetadataPair` | `InvariantHolds`, `CommitsAreDurable`, `OrderDoesNotMatter`, `PairStaysFetchable`, `HandleStaysFresh`, `CommitsAreAtomic` | `KeepHandle = FALSE` |
| `BlockAllocatorProofs` | `BlockAllocator` | `AllocatorInvariant`, `NeverInUse`, `NoSpaceIsEarned` | `NestedAck = FALSE` |
| `BdCacheProofs` | `BdCache` | `CacheInvariant`, `ReadsAreRight`, `WrittenIsThere`, `AssertionsNeverFail` | |
| `TagLogProofs` | `TagLog` | `LogInvariant`, `TypesHold` | `"drop" \notin Risks` |
| | | `GetFindsLast`, `CompactionKeeps` | |
| `OpenHandlesProofs` | `OpenHandles` | `HandlesAreGood`, `TypesAreKept`, `HandlesFollowFiles`, `OnlyGoneAreDetached`, `MdirsAreFresh`, `EachIsReadOnce` | `Risks = {}` |
| `FileIOProofs` | `CtzList` | `IndexIsRight`, `FindReaches`, `TraverseVisitsAll`, `PointersAreRight` | |
| | `FileIO` | `FileInvariant`, `FileTypes`, `HandleKnowsItsPlace`, `CommittedFileIsWhole`, `NeededBlocksAreSafe`, `FileAssertionsHold` | `Risks = {}` |
| `SyncedFileProofs` | `FileIO`, `SyncedFile` | `KeepsItsPromise` | `Risks = {}` |

`Recursion` holds lemmas only. Each hypothesis is needed: it excludes a case in which the
code is known to go wrong, and in which TLC finds a counterexample.

**`MetadataPairProofs`**, for any set of blocks and contents, any revision width, log
length, wear setting and number of bad blocks. The properties speak of the states between
operations, and are not inductive. The invariant says what each stage of the code may rely
on: before anything but the tail of the log is written, the handle is what a fetch would
give (`HandleInv`); while the other half, or a fresh block, is written, the current half is
intact and the other half either loses against it or already holds all of this commit
(`CompactInv`); what was written and checked is complete and newer than the half it goes
with (`CheckInv`, `LinkInv`). One lemma for each action shows that it keeps the invariant;
three short arguments carry most of them: of two neighbouring revisions exactly one is
newer, even when the count wraps; a half with no commit loses to one with a commit whatever
its revision; the pair read from either side has the same current half. `CommitsAreAtomic`
is the refinement of `AtomicCell`, step by step.

**`BlockAllocatorProofs`**, for any device and lookahead size. The invariant measures every
block by its distance from the cursor, on the circle: a block that is held lies behind the
cursor, further than the `ack` blocks that may still be looked at, so the search ends
before it comes round to it; a block ahead of the cursor and inside the window that is in
use is marked; a block that was free and unmarked at the ack, and was not handed out, is
still ahead. `TypeOK` and `AckInv` bound the counters.

**`BdCacheProofs`**, for any sizes of block, cache, read and program unit. Nothing in the
code says when a cache agrees with the device: callers rely on the order of calls. `IInv`
(checked by the run `cache` too) says who owns which block (`Owners`), what a program cache
has pending and from where on it may be flushed (`Pending`, `Ready`, `Start`), and which of
the read caches may be stale at which step and is then not looked at (`Fresh`, `Steady`).
Most of the work is arithmetic on aligned ranges.

**`TagLogProofs`**, for any number of pairs and names. The invariant has the logs built of
tags of the kinds a block may hold, each hard tail naming a pair (`StoreOK`), no move
pending but the one that is stored, and for a call under way that the delta it carries is
the difference between the move in RAM and the one the call leaves (`IsCall`). So the
device and RAM agree on the move through appends, compactions, splits, drops and power
losses. A rename whose second commit drops a pair forgets the move: the risk `drop`.
The second part of the module is about the readers of a log. `Slot(log, kind, at)` is what
the log holds for the entry at `at`: the tags of which no later one takes the place, with
the ids followed through the creates and deletes behind them. A lemma for each kind of tag
says how one more tag changes it. `GetFindsLast` is then that `lfs_dir_getslice`, which goes
backwards, finds it, and `CompactionKeeps` that what `lfs_dir_traverse` picks and a compaction
writes holds the same for every entry, including one that a move brings from another pair.

**`FileIOProofs`, lists**. The recursive definitions of `CtzList` are functions; `Recursion` proves
that they exist, and does induction over the naturals with sets in place of predicates,
since the provers cannot instantiate an operator. `IndexIsRight` shows the closed formula
of `lfs_ctz_index` right for every position, as long as a block has room for the pointers
of its own number and four more (`FormulaAssumption`). Blocks of 104 and 108 bytes, which
the assertion at `lfs.c:3398`, `DESIGN.md:702` and `SPEC.md:516` ("minimum block size of
104 bytes") admit, have not: there the formula gives a wrong block, first at positions
805306368 and 1677721600 of a file. `FindReaches`, `TraverseVisitsAll` and
`PointersAreRight` are about any device whose blocks are a list, and any head.

**`OpenHandlesProofs`**, for any set of pairs, any names (fewer than the 1023 that an id can
number) and any number of handles. The directory is one ascending sequence of names, `all`;
part `k` of the chain holds those behind place `b[k]` (`Spread`). A handle in part `k` with
id `i` then sits at place `b[k] + i` of `all`, and what is good of it (`Knows`) speaks of
that place only: for a file, that the name behind it is the file's; for a directory that is
read, that the names before it are just those it has returned of the names there were all
the time. A split, a move of a pair and a move of a handle into the next part change `b`,
and neither `all` nor the place; the insertion or the deletion of a name changes `all` at
one place (`Spliced`), and the ids shift as the places do. The proofs go through the code in
that order: what a compaction makes of the chain (`RewrittenOf`), what the loop over `mlist`
makes of each handle (`CommitOf`), what a dropped part does (`DropOf`), then the calls. A
rename within one pair is the hardest: one commit inserts and deletes, the loop sees a
single id of each, and the situations in which it shifts a handle wrongly are the risks
`rename`, `last`, `ahead` and `split`.

**`FileIOProofs`, files**, for any sizes of block, pointer, cache and file, any number of calls
and faults. The calls of a file are stacks of steps that are taken one at a time, with
faults and power losses in between, so the invariant has two halves. `Legal` is a grammar
of what may be left of a call, by its first step: what comes after a flush, what a block
may be relocated for, which writes a copy may follow. `HandleOK` says what the handle is
then: the old list is whole as long as not all of it has been copied (`OldOK`); the new
list ends in `file.block`, is whole up to the position as seen through the cache, and its
last block is in neither the committed nor the old list (`TipOK`); the cache holds the last
cells of that block, and after a failed program some more (`CacheOK`); the list that
`lfs_ctz_extend` is given ends where the position does (`ExtendOK`). Two arguments then
carry every step: a write goes to a block that is free or to `file.block`, which is in no
list but the new one, so the others stay whole; and a list that is whole can be cut at a
block boundary or given one more block. The lemmas on lists say these, and what a cache and the
device show between them after a write, a flush, an erase or a failure. `OffIsPlace`, which
the run checks of the positions that are reached, compares `CtzIndex` with `Place` there;
for all positions this is `IndexIsRight`. In the run `Reach` is 27, more than `MaxSize`, so
that `FormulaAssumption` is evaluated beyond the positions in use.

**`SyncedFileProofs`** shows that `FileIO` implements `SyncedFile`. `IInv` says that the lists
are whole, not which cells they hold. `Content` is what the handle shows at any step, read
cell by cell from the cache, the new list and, behind the position, the old one; the view
of `SyncedFile` stays what it was when the call began (`call.view`) until its last step.
`Holds` relates the two. `Meaning` goes through the grammar of `Legal` again and says of each
stack of steps what `Content` is compared with `call.view`: before a commit, a cut or a read
they are the same, in the middle of a write the content is `call.view` with some of the cells
put into it, while a hole is filled it is `call.view` with zeros behind. `CleanOK` says that a
small file with nothing to flush is in its cache as it is in the entry, and `ReadingOK` that a
handle that reads has the block of its position in hand. A lemma for each step
(`FlushHolds`, `PutHolds`, `ExtendHolds`, ...) shows that the content becomes what the steps
that are left ask for, whether the step succeeds, meets a bad block and starts to relocate,
or fails, and that the step is one of `SyncedFile` or stutters. A block boundary inside a
write, a relocation in the middle of a copy and an outline of a small file change many
variables and no cell; a call that fails half way leaves a content that `Fail` allows. Two
assumptions on constants came out of the proof: `MaxSize` is not 0 (`lfs_init` replaces a
`file_max` of 0, `lfs.c:3460`), and `Absent` is not the content of a file
(`SentinelAssumption`).

What is only model-checked:

- the liveness properties `Returns` and `AllocReturns`: fairness and ENABLED are out of the
  prover's reach;
- `FindsNames`, `FindsParent`, `GetsLast` and `ListsEach` of `TagLog`: each compares a scan of
  a log with the history of all operations that wrote it, and needs an invariant that
  relates every prefix of a log to the entries at that time;
- `FsTree`: its properties speak of the list and the tree while several directories may be
  out of step, and hold only with the situations in `Risks` excluded one by one;

## What is left out

- `MetadataPair` takes the content of a commit as one value; its tags are in `TagLog`, which
  in turn has no power loss inside a commit. A splitting compaction is in `TagLog` and
  `OpenHandles`, as one step: a power loss between the writing of the new pair and that of
  the old one leaves the old one as it was, and the new one unlinked.
- `FsTree` has directories of one pair, its files are inline and nothing is open. The first
  commit to a new directory does not meet a bad block.
- The expansion of the superblock (`lfs.c:1488`, when the wear count of the root comes round)
  is not modelled: it is one more split, of the pair {0, 1}.
- `BdCache` has cells that do not take the value programmed. An error that `cfg->prog`
  itself returns, upon which `lfs_bd_flush` returns before it drops `rcache` (`lfs.c:132`),
  is not in it.
- An error in a commit of `FsTree` is left out where it leaves a move or a delta in RAM that
  is not on the device (`FailsClean`; the risk `stale`): the commits of a rename that moves
  between directories, and those to a directory that stores a part of the global state.
- Power loss and errors leave a block as the code expects of a device: a program that is cut
  short fails its checksum. Read disturb, bits that change later, and collisions of the CRC
  are outside the models.
- `FileIO` has one handle on the file: littlefs does not keep two handles on one file in
  step. User attributes of an open file are data of the same commit. I/O errors other than
  bad blocks, the removal of an open file, and files larger than the cache that a commit
  turns out of the directory are left out.
- `OpenHandles` has commits that succeed. What `lfs_dir_tell` returns is not checked: a
  position counts entries and is not kept when entries before it come and go.
- Not modelled: tests and scripts, the emulated device (both run on the host), `lfs_migrate`
  (a one-shot conversion of another format, compiled in on request), the syntax of paths,
  byte order, and the checks of version and limits in `lfs_mount`: string and bit handling
  with no state of its own.

## Where it could go

1. The invariant of `FsTree` that RAM and device agree (`gpending` is the sum of the stored
   deltas and `gdelta`), stated so that it can be proved.
2. An invariant for what a scan of a log in `TagLog` finds, over every prefix of the log.
3. Power loss inside a split of `TagLog`, and the expansion of the superblock, as a
   refinement of the directory of `FsTree`.
4. Two handles on one file, and handles over the directories of `FsTree`.
