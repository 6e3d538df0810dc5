------------------------------- MODULE TagLog -------------------------------
(***************************************************************************)
(* The log of tags that a metadata block is, and the three ways to read    *)
(* it: lfs_dir_fetchmatch goes through it forwards and finds what the      *)
(* block ends with and an entry by its name; lfs_dir_getslice goes         *)
(* backwards from the end to the last tag of one entry; lfs_dir_traverse   *)
(* picks the tags that still count when the block is compacted.  The tags  *)
(* name an entry by its place, and a create or delete later in the log     *)
(* moves the places, so each of the three has to follow them, and all      *)
(* three must agree.                                                       *)
(*                                                                         *)
(* The module has one directory: a chain of pairs, with the commits that   *)
(* the operations of littlefs make to it, appended to a log, compacted,    *)
(* split over two pairs or dropped, and a power loss between the two       *)
(* commits of a rename.  A commit is atomic (MetadataPair).  Checksums are *)
(* not in the log.                                                         *)
(***************************************************************************)
EXTENDS Integers, Sequences, FiniteSets

CONSTANTS Pairs,   \* metadata pairs
          First,    \* the first of the directory
          Names,   \* numbers, in the order of the names
          Value,   \* data of files, values of attributes
          Child,   \* the pairs of other directories
          Nil,     \* no tag, entry, pair or data
          Gone,    \* the size 0x3ff: an attribute that is removed
          Risks,   \* situations allowed that the code is known not to handle
          MaxStart, \* bound: entries at the start
          MaxLog,  \* bound: tags in a block
          MaxOps   \* bound: operations

ASSUME NamesAssumption == Names \subseteq Nat /\ First \in Pairs
ASSUME PairsAssumption == IsFiniteSet(Pairs)
ASSUME NilAssumption   == Gone \notin Value /\ Nil \notin Value \union Child \union Pairs

VARIABLES
    store,   \* pair -> log of its current block
    move,    \* lfs->gpending (and gstate after a commit): the move, none or one
    stored,  \* the move the device has
    call,    \* the commit that lfs_dir_commit is called for, or Nil
    busy,    \* lfs_rename is between its commits
    dir,     \* history: name -> entry
    link,    \* history: what is behind the directory in the list
    ops      \* operations so far

vars == <<store, move, stored, call, busy, dir, link, ops>>

-----------------------------------------------------------------------------
(* Tags: type (kind and sub), id, and what follows.                           *)

Tag(kind, sub, id, val) == [kind |-> kind, sub |-> sub, id |-> id, val |-> val]

NoId == 1023

Create(id)           == Tag("splice", "create", id, Nil)
Delete(id)           == Tag("splice", "delete", id, Nil)
NameTag(sub, id, n)  == Tag("name", sub, id, n)
Struct(id, s)        == Tag("struct", s.sub, id, s.val)
UserAttr(id, v)      == Tag("attr", "attr", id, v)
LinkTag(split, p)       == Tag("tail", IF split THEN "hard" ELSE "soft", NoId, p)
FromMove(id, log, i) == Tag("from", "move", id, [log |-> log, id |-> i])

\* lfs_tag_splice
Splice(t) == IF t.kind # "splice" THEN 0 ELSE IF t.sub = "create" THEN 1 ELSE -1

MoveHere(m, p) == \E x \in m : x.pair = p
TheMove(m)     == CHOOSE x \in m : TRUE

-----------------------------------------------------------------------------
(* lfs_dir_fetchmatch: forwards.  Names are compared in their order, children *)
(* (lfs_fs_parent_match) are the same or not.                                 *)

NoTag == [gone |-> TRUE, sub |-> Nil, id |-> NoId]

ByName(n)  == [kind |-> "name", val |-> n]
ByChild(c) == [kind |-> "struct", val |-> c]

IsCandidate(t, want) ==
    /\ t.kind = want.kind
    /\ IF want.kind = "name" THEN t.sub # "super" ELSE t.sub = "dir"

\* ... after a create or delete.
Shifted(b, t) ==
    IF t = Delete(b.id) THEN [b EXCEPT !.gone = TRUE]
    ELSE IF t.kind = "splice" /\ b # NoTag /\ t.id <= b.id
    THEN [b EXCEPT !.id = @ + Splice(t)]
    ELSE b

\* Faulty: a tag that is written again with something else still matches.
BestKept(b, t, want) ==
    LET it == [gone |-> FALSE, sub |-> t.sub, id |-> t.id]
    IN IF ~IsCandidate(t, want) THEN Shifted(b, t)
       ELSE IF t.val = want.val THEN it
       ELSE IF want.kind = "name" /\ t.val > want.val /\ t.id <= b.id
       THEN [it EXCEPT !.gone = TRUE]
       ELSE b

\* The best match so far, after the tag t.
Best(b, t, want) ==
    LET it == [gone |-> FALSE, sub |-> t.sub, id |-> t.id]
    IN IF ~IsCandidate(t, want) THEN Shifted(b, t)
       ELSE IF t.val = want.val THEN it
       ELSE IF b.sub = t.sub /\ b.id = t.id THEN NoTag
       ELSE IF want.kind = "name" /\ t.val > want.val /\ t.id <= b.id
       THEN [it EXCEPT !.gone = TRUE]
       ELSE b

Counted(n, t) == IF t.kind = "name" THEN (IF t.id >= n THEN t.id + 1 ELSE n)
                 ELSE n + Splice(t)

\* What the log of pair p holds, and the entry that is wanted.
Scan(p, want) ==
    LET log == store[p]
        after[i \in 0 .. Len(log)] ==
            IF i = 0 THEN [count |-> 0, tail |-> Nil, split |-> FALSE, best |-> NoTag]
            ELSE LET s == after[i - 1]  t == log[i]
                 IN [count |-> Counted(s.count, t),
                     tail  |-> IF t.kind = "tail" THEN t.val ELSE s.tail,
                     split |-> IF t.kind = "tail" THEN t.sub = "hard" ELSE s.split,
                     best  |-> Best(s.best, t, want)]
    IN after[Len(log)]

\* Faulty: the entry that is moved away is still found.
SyntheticLost(b, m, p) == b

\* The entry that is moved away is not there any more.
Synthetic(b, m, p) ==
    IF ~MoveHere(m, p) THEN b
    ELSE IF TheMove(m).id = b.id THEN [b EXCEPT !.gone = TRUE]
    ELSE IF b # NoTag /\ TheMove(m).id < b.id THEN [b EXCEPT !.id = @ - 1]
    ELSE b

FetchMatch(p, want) ==
    LET s == Scan(p, want)
        b == Synthetic(s.best, move, p)
    IN [pair |-> p, count |-> s.count, tail |-> s.tail, split |-> s.split,
        found |-> ~b.gone, sub |-> b.sub,
        id |-> IF b.id < s.count THEN b.id ELSE s.count,
        here |-> b.id < s.count]

Fetch(p) == FetchMatch(p, ByChild(Nil))

\* The pairs of the directory.
Chain ==
    LET first[k \in 1 .. Cardinality(Pairs)] ==
            IF k = 1 THEN <<First>>
            ELSE LET l == first[k - 1]
                     d == Scan(l[Len(l)], ByChild(Nil))
                 IN IF d.split THEN Append(l, d.tail) ELSE l
    IN first[Cardinality(Pairs)]

LastPair == Chain[Len(Chain)]

\* lfs_dir_find: the place of the name, or where it would go.
Find(n) ==
    LET upto[k \in 1 .. Cardinality(Pairs)] ==
            IF k = 1 THEN FetchMatch(First, ByName(n))
            ELSE LET d == upto[k - 1]
                 IN IF d.found \/ d.here \/ ~d.split THEN d
                    ELSE FetchMatch(d.tail, ByName(n))
    IN upto[Cardinality(Pairs)]

\* lfs_fs_parent, in this directory.
Parent(c) ==
    LET hits == {i \in DOMAIN Chain : FetchMatch(Chain[i], ByChild(c)).found}
    IN IF hits = {} THEN Nil
       ELSE LET i == CHOOSE j \in hits : \A k \in hits : j <= k
            IN FetchMatch(Chain[i], ByChild(c))

-----------------------------------------------------------------------------
(* lfs_dir_getslice: backwards.                                               *)

IsSought(t, kind, at) ==
    t.kind = kind /\ t.id = at /\ t.sub # "super"

\* Faulty: a delete of the place itself does not count.
BeforeSpliceStrict(t, at) ==
    IF t.kind = "splice" /\ t.id < at THEN at - Splice(t) ELSE at

\* The place that the entry at `at` had before the tag t.
BeforeSplice(t, at) ==
    IF t.kind = "splice" /\ t.id <= at THEN at - Splice(t) ELSE at

\* The last tag of this kind for the entry, in the log with this move pending.
GetSlice(log, m, p, kind, id) ==
    LET start == IF MoveHere(m, p) /\ id <= TheMove(m).id THEN id + 1 ELSE id
        find[i \in 0 .. Len(log)] ==   \* in the first i tags, from each place
            [at \in Nat |->
                IF i = 0 \/ log[i] = Create(at) THEN Nil
                ELSE LET was == BeforeSplice(log[i], at)
                     IN IF IsSought(log[i], kind, was)
                        THEN (IF log[i].val = Gone THEN Nil ELSE log[i])
                        ELSE find[i - 1][was]]
    IN find[Len(log)][start]

Get(p, kind, id) == GetSlice(store[p], move, p, kind, id)

-----------------------------------------------------------------------------
(* lfs_dir_traverse: the tags of a log and of a commit that are written.       *)

\* Tags of which only the last counts.
SameSlot(t, u) ==
    t.kind = u.kind /\ t.id = u.id /\ (t.kind = "attr" => t.sub = u.sub)

Superseded == Tag("none", Nil, NoId, Nil)

\* Faulty: the id does not follow the creates and deletes behind it.
FilteredInPlace(t, u) ==
    IF t = Superseded \/ SameSlot(u, t) \/ t.val = Gone \/ u = Delete(t.id)
    THEN Superseded ELSE t

\* lfs_dir_traverse_filter: the tag t after the later tag u.
Filtered(t, u) ==
    IF t = Superseded \/ SameSlot(u, t) \/ t.val = Gone \/ u = Delete(t.id)
    THEN Superseded
    ELSE IF u.kind = "splice" /\ u.id <= t.id
    THEN [t EXCEPT !.id = @ + Splice(u)]
    ELSE t

\* ... after all the tags from place i on.
FilteredBy(t, all, i) ==
    LET upto[k \in i - 1 .. Len(all)] ==
            IF k = i - 1 THEN t ELSE Filtered(upto[k - 1], all[k])
    IN upto[Len(all)]

\* The tags of these kinds that still count, with ids in begin .. end - 1; the first
\* n of them are on the device, where a checksum follows each commit.
Unique(all, n, kinds, begin, end) ==
    LET now(i) == IF i <= n /\ all[i].val = Gone THEN Superseded
                  ELSE FilteredBy(all[i], all, i + 1)
        upto[i \in 0 .. Len(all)] ==
            IF i = 0 THEN <<>>
            ELSE IF /\ all[i].kind \in kinds
                    /\ now(i) # Superseded
                    /\ now(i).id \in begin .. end - 1
            THEN Append(upto[i - 1], now(i))
            ELSE upto[i - 1]
    IN upto[Len(all)]

\* Its tags are written with ids d higher; what a move stands for is the entry in the
\* log it comes from.
Emitted(tags, d) ==
    LET one(t) == [t EXCEPT !.id = IF @ = NoId THEN @ ELSE @ + d]
        moved(t) ==
            LET them == Unique(t.val.log, Len(t.val.log), {"struct", "attr"},
                               t.val.id, t.val.id + 1)
            IN [k \in DOMAIN them |-> [them[k] EXCEPT !.id = t.id + d]]
        upto[i \in 0 .. Len(tags)] ==
            IF i = 0 THEN <<>>
            ELSE upto[i - 1] \o (IF tags[i].kind = "from" THEN moved(tags[i])
                                 ELSE <<one(tags[i])>>)
    IN upto[Len(tags)]

\* A commit c to a pair: what is written, and lfs->gpending.  It deletes the entry that is
\* moved away from the pair as well.
Pending(c) == IF MoveHere(c.move, c.pair) THEN <<Delete(TheMove(c.move).id)>> ELSE <<>>
Changes(c) == c.attrs \o Pending(c)

\* Faulty: a move is written as it is.
AppendedRaw(c) == store[c.pair] \o Changes(c)

Appended(c) == store[c.pair] \o Emitted(Changes(c), 0)

\* The entries from `begin` to `end`, and what is behind them.
Compacted(c, begin, end, tail, split) ==
    LET tags == Unique(store[c.pair] \o Changes(c), Len(store[c.pair]),
                       {"name", "struct", "attr", "from"}, begin, end)
    IN Emitted(tags, -begin) \o (IF tail = Nil THEN <<>> ELSE <<LinkTag(split, tail)>>)

-----------------------------------------------------------------------------
(* lfs_dir_commit.                                                             *)

\* What the directory says after the commit.
Changed(c) ==
    LET all == Changes(c)
        upto[i \in 0 .. Len(all)] ==
            IF i = 0 THEN Fetch(c.pair)
            ELSE LET d == upto[i - 1]  t == all[i]
                 IN [d EXCEPT !.count = @ + Splice(t),
                              !.tail  = IF t.kind = "tail" THEN t.val ELSE @,
                              !.split = IF t.kind = "tail" THEN t.sub = "hard" ELSE @]
    IN upto[Len(all)]

IsDropped(c, d) ==
    /\ \E i \in DOMAIN Changes(c) : Splice(Changes(c)[i]) = -1
    /\ d.count = 0
    /\ \E i \in 2 .. Len(Chain) : Chain[i] = c.pair

Xor(A, B) == (A \ B) \union (B \ A)

\* lfs->gdelta, where the move that the commit is about to fix is marked.
Delta(c) == IF MoveHere(c.move, c.pair) THEN Xor(c.delta, c.move) ELSE c.delta

\* Faulty: the move stays in RAM.
KeptAfter(c) == c.move

\* lfs->gpending after a commit that wrote to the pair.
Kept(c) == IF MoveHere(c.move, c.pair) THEN {} ELSE c.move

\* lfs_dir_commit is called; lfs_fs_prepmove(m) may have come before it.
Commit(p, attrs, m) ==
    call' = [pair |-> p, attrs |-> attrs, move |-> m, delta |-> Xor(move, m)]

Committed(c) ==
    /\ move' = Kept(c)
    /\ stored' = Xor(stored, Delta(c))
    /\ call' = Nil

AppendTo(c) ==
    \E log \in {Appended(c)} :
       /\ Len(log) <= MaxLog
       /\ store' = [store EXCEPT ![c.pair] = log]
       /\ Committed(c)

\* lfs_dir_compact; d is the directory after the commit.
Compact(c, d) ==
    /\ store' = [store EXCEPT ![c.pair] = Compacted(c, 0, d.count, d.tail, d.split)]
    /\ Committed(c)

\* ... with lfs_dir_split: a new pair gets the second half.
Split(c, d) ==
    /\ d.count > 1
    /\ \E q \in Pairs \ {Chain[i] : i \in DOMAIN Chain} :
          store' = [store EXCEPT
              ![c.pair] = Compacted(c, 0, d.count \div 2, q, TRUE),
              ![q] = Compacted(c, d.count \div 2, d.count, d.tail, d.split)]
    /\ Committed(c)

\* lfs_dir_drop: the pair before takes the tail, in a commit of its own; the pair itself
\* is not written.
Drop(c, d) ==
    /\ MoveHere(c.move, c.pair) => "drop" \in Risks
    /\ \E i \in 2 .. Len(Chain) :
          /\ Chain[i] = c.pair
          /\ call' = [c EXCEPT !.pair = Chain[i - 1], !.delta = Delta(c),
                               !.attrs = <<LinkTag(d.split, d.tail)>>]
    /\ UNCHANGED <<store, move, stored>>

DirCommit ==
    /\ call # Nil
    /\ \E c \in {call} : \E d \in {Changed(c)} :
          \/ IsDropped(c, d) /\ Drop(c, d)
          \/ ~IsDropped(c, d) /\ (AppendTo(c) \/ Compact(c, d) \/ Split(c, d))
    /\ UNCHANGED <<busy, dir, link, ops>>

-----------------------------------------------------------------------------
(* Operations.                                                                 *)

Empty == [sub |-> "inline", val |-> Nil]

Fresh(sub, data) == [sub |-> sub, data |-> data, attr |-> Nil]

With(f, n, e) == [x \in DOMAIN f \union {n} |-> IF x = n THEN e ELSE f[x]]
Without(f, n) == [x \in DOMAIN f \ {n} |-> f[x]]

\* Entries that were created one after the other, and compacted.
Filled(names, hasSuper) ==
    LET base   == IF hasSuper THEN 1 ELSE 0
        id(n)  == base + Cardinality({i \in DOMAIN names : names[i] < n})
        upto[i \in 0 .. Len(names)] ==
            IF i = 0
            THEN IF hasSuper
                 THEN <<Tag("name", "super", 0, Nil), Tag("struct", "inline", 0, Nil)>>
                 ELSE <<>>
            ELSE upto[i - 1] \o <<NameTag("reg", id(names[i]), names[i]),
                                  Struct(id(names[i]), Empty)>>
    IN upto[Len(names)]

Orders == {s \in UNION {[1 .. k -> Names] : k \in 0 .. MaxStart} :
             \A i, j \in DOMAIN s : i # j => s[i] # s[j]}

Init ==
    /\ \E names \in Orders : \E hasSuper \in {FALSE} \union {Len(names) = 0} :
         /\ store = [p \in Pairs |-> IF p = First THEN Filled(names, hasSuper) ELSE <<>>]
         /\ dir = [n \in {names[i] : i \in DOMAIN names} |-> Fresh("reg", Empty)]
    /\ move = {} /\ stored = {} /\ call = Nil /\ busy = FALSE
    /\ link = Nil /\ ops = 0

\* Operations that write start with lfs_fs_forceconsistency.
Begin ==
    /\ call = Nil /\ ~busy /\ move = {} /\ ops < MaxOps
    /\ ops' = ops + 1
    /\ UNCHANGED <<store, move, stored>>

\* lfs_file_open with LFS_O_CREAT
CreateFile(n) ==
    /\ Begin
    /\ \E d \in {Find(n)} :
         /\ ~d.found
         /\ Commit(d.pair, <<Create(d.id), NameTag("reg", d.id, n), Struct(d.id, Empty)>>, move)
    /\ dir' = With(dir, n, Fresh("reg", Empty))
    /\ UNCHANGED <<busy, link>>

\* lfs_mkdir; behind a pair that is split the list gets its new member by LinkTail.
Mkdir(n, c) ==
    LET s == [sub |-> "dir", val |-> c]
    IN /\ Begin
       /\ \A x \in DOMAIN dir : dir[x].data # s
       /\ \E d \in {Find(n)} :
            /\ ~d.found
            /\ Commit(d.pair, <<Create(d.id), NameTag("dir", d.id, n), Struct(d.id, s)>>
                                \o (IF d.split THEN <<>> ELSE <<LinkTag(FALSE, c)>>), move)
            /\ link' = IF d.split THEN link ELSE c
       /\ dir' = With(dir, n, Fresh("dir", s))
       /\ UNCHANGED busy

\* A commit that changes what is behind the directory (lfs_mkdir, lfs_dir_drop,
\* lfs_fs_relocate, lfs_fs_deorphan).
LinkTail(c) ==
    /\ Begin
    /\ Commit(LastPair, <<LinkTag(FALSE, c)>>, move)
    /\ link' = c
    /\ UNCHANGED <<busy, dir>>

\* lfs_file_sync
SyncFile(n, sub, v, a) ==
    LET s == [sub |-> sub, val |-> v]
    IN /\ Begin
       /\ \E d \in {Find(n)} :
            /\ d.found /\ d.sub = "reg"
            /\ Commit(d.pair, <<Struct(d.id, s)>>
                                \o (IF a = Nil THEN <<>> ELSE <<UserAttr(d.id, a)>>), move)
       /\ dir' = With(dir, n, [dir[n] EXCEPT !.data = s, !.attr = IF a = Nil THEN @ ELSE a])
       /\ UNCHANGED <<busy, link>>

\* lfs_fs_relocate: the parent gets the new pair of a directory.
Relocate(c, new) ==
    LET s == [sub |-> "dir", val |-> new]
    IN /\ Begin
       /\ \A x \in DOMAIN dir : dir[x].data # s
       /\ \E d \in {Parent(c)} : d # Nil /\ Commit(d.pair, <<Struct(d.id, s)>>, move)
       /\ dir' = [x \in DOMAIN dir |-> IF dir[x].sub = "dir" /\ dir[x].data.val = c
                                       THEN [dir[x] EXCEPT !.data = s] ELSE dir[x]]
       /\ UNCHANGED <<busy, link>>

\* lfs_setattr and lfs_removeattr, which do not start with lfs_fs_forceconsistency.
SetAttr(n, a) ==
    /\ call = Nil /\ ~busy /\ ops < MaxOps
    /\ move # {} => "attr" \in Risks
    /\ ops' = ops + 1
    /\ \E d \in {Find(n)} : d.found /\ Commit(d.pair, <<UserAttr(d.id, a)>>, move)
    /\ dir' = With(dir, n, [dir[n] EXCEPT !.attr = IF a = Gone THEN Nil ELSE a])
    /\ UNCHANGED <<store, move, stored, busy, link>>

\* lfs_remove; the pair of a directory is dropped from the list by LinkTail.
Remove(n) ==
    /\ Begin
    /\ \E d \in {Find(n)} : d.found /\ Commit(d.pair, <<Delete(d.id)>>, move)
    /\ dir' = Without(dir, n)
    /\ UNCHANGED <<busy, link>>

\* The id of the entry o once the entry n has been made (lfs_rename).
OldId(from, to) ==
    IF from.pair = to.pair /\ ~to.found /\ to.id <= from.id THEN from.id + 1 ELSE from.id

\* lfs_rename, the commit that makes the new entry.
Rename(o, n) ==
    /\ Begin /\ o # n
    /\ \E from \in {Find(o)}, to \in {Find(n)} :
         /\ from.found
         /\ to.found => to.sub = from.sub
         /\ Commit(to.pair, (IF to.found THEN <<Delete(to.id)>> ELSE <<>>)
                              \o <<Create(to.id), NameTag(from.sub, to.id, n),
                                   FromMove(to.id, store[from.pair], from.id)>>,
                   {[pair |-> from.pair, id |-> OldId(from, to)]})
         /\ busy' = (from.pair # to.pair)
    /\ dir' = With(Without(dir, o), n, dir[o])
    /\ UNCHANGED link

\* ... and the one that deletes the old, which lfs_fs_demove makes after a power loss.
RenameDone ==
    /\ call = Nil /\ move # {}
    /\ Commit(TheMove(move).pair, <<>>, move)
    /\ busy' = FALSE
    /\ UNCHANGED <<store, move, stored, dir, link, ops>>

PowerLoss ==
    /\ call = Nil /\ busy
    /\ busy' = FALSE /\ move' = stored
    /\ UNCHANGED <<store, stored, call, dir, link, ops>>

Next ==
    \/ \E n \in Names :
          \/ CreateFile(n) \/ Remove(n)
          \/ \E c \in Child : Mkdir(n, c)
          \/ \E sub \in {"inline", "ctz"}, v \in Value, a \in Value \union {Nil} :
                SyncFile(n, sub, v, a)
          \/ \E a \in Value \union {Gone} : SetAttr(n, a)
          \/ \E o \in Names : Rename(o, n)
    \/ \E c \in Child : LinkTail(c)
    \/ \E c, d \in Child : Relocate(c, d)
    \/ RenameDone \/ DirCommit \/ PowerLoss

Spec == Init /\ [][Next]_vars

-----------------------------------------------------------------------------

TypeOK ==
    /\ \A p \in Pairs : \A i \in DOMAIN store[p] :
          store[p][i].kind \in {"name", "struct", "attr", "tail", "splice"}
    /\ Cardinality(move) <= 1 /\ Cardinality(stored) <= 1
    /\ DOMAIN dir \subseteq Names /\ busy \in BOOLEAN

\* What lfs_dir_read finds in the pair: the names, in the order of their ids.
NamesOf(p) ==
    LET d == Fetch(p)
        upto[i \in 0 .. d.count] ==
            IF i = 0 THEN <<>>
            ELSE LET t == Get(p, "name", i - 1)
                 IN IF t = Nil THEN upto[i - 1] ELSE Append(upto[i - 1], t.val)
    IN upto[d.count]

Listed ==
    LET upto[i \in 0 .. Len(Chain)] ==
            IF i = 0 THEN <<>> ELSE upto[i - 1] \o NamesOf(Chain[i])
    IN upto[Len(Chain)]

Sorted(S) ==
    CHOOSE s \in [1 .. Cardinality(S) -> S] : \A i, j \in DOMAIN s : i < j => s[i] < s[j]

Quiet == call = Nil /\ ~busy

\* Lookups: not within a rename, and unless "read" is a risk not while a move that a power
\* loss has left is pending.
Reads == Quiet /\ (move = {} \/ "read" \in Risks)

\* Every name that is in the directory is found, and no other, whatever was appended,
\* compacted, split or dropped, also while the entry a rename has moved is still in its
\* old place (lfs_dir_find, lfs_dir_fetchmatch).
FindsNames ==
    Quiet => \A n \in Names :
        LET d == Find(n)
        IN /\ d.found => n \in DOMAIN dir /\ d.sub = dir[n].sub
           /\ Reads /\ n \in DOMAIN dir => d.found

\* A directory is found by what its entry points to (lfs_fs_parent).
FindsParent ==
    Quiet => \A c \in Child :
        LET them == {n \in DOMAIN dir : dir[n].data = [sub |-> "dir", val |-> c]}
            d    == Parent(c)
        IN /\ d # Nil <=> them # {}
           /\ Reads => \A n \in them : d.pair = Find(n).pair /\ d.id = Find(n).id

\* Each entry has the data and the attribute that were last committed for it
\* (lfs_dir_getslice).
GetsLast ==
    Reads => \A n \in DOMAIN dir :
        LET d == Find(n)
            s == Get(d.pair, "struct", d.id)
            a == Get(d.pair, "attr", d.id)
        IN /\ s # Nil /\ [sub |-> s.sub, val |-> s.val] = dir[n].data
           /\ (IF a = Nil THEN Nil ELSE a.val) = dir[n].attr

\* A directory that is read lists each entry once, in order, and the list goes on where
\* it should (lfs_dir_read, lfs_dir_fetch).
ListsEach ==
    Reads => /\ Listed = Sorted(DOMAIN dir)
             /\ Fetch(LastPair).tail = link /\ ~Fetch(LastPair).split

\* Between operations the move in RAM is the one on the device.
MoveKept == Quiet => move = stored
=============================================================================
