----------------------------- MODULE OpenHandles -----------------------------
(***************************************************************************)
(* The open files and directories (lfs->mlist) over one directory.  A      *)
(* directory is a chain of metadata pairs with its entries in the order of *)
(* their names.  A handle names an entry by pair and place, and keeps a    *)
(* copy of what it knows of the pair (lfs_mdir_t); every commit creates,   *)
(* deletes and moves entries under it: places shift, a pair splits in      *)
(* halves, moves to other blocks, or drops out of the chain.               *)
(*                                                                         *)
(* Calls are atomic: littlefs has no threads.  Commits succeed here, what  *)
(* an error or a power loss does to them is the matter of MetadataPair.    *)
(***************************************************************************)
EXTENDS Naturals, FiniteSets, SequencesExt

CONSTANTS Pairs,      \* metadata pairs of the device
          Name,       \* names of entries: numbers, in the order of the names
          Folder,     \* the names that stand for directories
          Null,       \* the null pair
          MaxHandles, \* bound: handles open at a time
          MaxPos,     \* bound: what lfs_dir_tell returns
          Risks       \* situations allowed that the code is known not to handle

\* The id that no entry has: ids are numbers of ten bits.
None == 1023

ASSUME ConstantsAssumption ==
    /\ IsFiniteSet(Pairs) /\ Null \notin Pairs
    /\ Name \subseteq Nat /\ Folder \subseteq Name
    /\ IsFiniteSet(Name) /\ Cardinality(Name) < None
    /\ MaxHandles \in Nat /\ MaxPos \in Nat
    /\ Risks \subseteq {"rename", "split", "drop", "last", "ahead"}

VARIABLES
    chain,  \* the pairs of the directory in their order: [pair, names]
    mlist   \* the handles, the one opened last first

vars == <<chain, mlist>>

-----------------------------------------------------------------------------
(* Directories: the parts of a chain c.                                      *)

PairsOf(c) == {c[k].pair : k \in DOMAIN c}

\* Where pair p is in the chain, lfs_fs_pred without the other directories.
At(c, p) == CHOOSE k \in DOMAIN c : c[k].pair = p

HeadOf(c) == c[1].pair

Names(c) == UNION {Range(c[k].names) : k \in DOMAIN c}

\* lfs_dir_fetch: an mdir as it is on the device.  The directory goes on (split)
\* if the tail is not null.
Fetch(c, p) ==
    LET k == At(c, p)
    IN [pair |-> p, count |-> Len(c[k].names),
        tail |-> IF k < Len(c) THEN c[k + 1].pair ELSE Null]

\* Faulty variant: the search does not stop at a later name.
FindInLast(c, n) ==
    LET ns == c[Len(c)].names
    IN [part |-> Len(c), id |-> Cardinality({j \in DOMAIN ns : ns[j] < n})]

\* lfs_dir_find: the first part with an entry of that name or a later one, or the
\* last part; and the place in it.
Find(c, n) ==
    LET Reaches(k) == \E j \in DOMAIN c[k].names : c[k].names[j] >= n
        k == IF \E i \in DOMAIN c : Reaches(i)
             THEN CHOOSE i \in DOMAIN c : Reaches(i) /\ \A h \in 1 .. i - 1 : ~Reaches(h)
             ELSE Len(c)
    IN [part |-> k, id |-> Cardinality({j \in DOMAIN c[k].names : c[k].names[j] < n})]

-----------------------------------------------------------------------------
(* Handles.  A file handle is attached to the entry it was opened for until  *)
(* that is removed (gone).  A directory handle is a cursor between entries:   *)
(* id of them in the part are behind it.                                      *)

Mdir == [pair : Pairs \union {Null}, count : Nat, tail : Pairs \union {Null}]

FileHandle(n, m, id) ==
    [kind |-> "file", m |-> m, id |-> id, name |-> n, gone |-> FALSE]

DirHandle(c) ==
    [kind |-> "dir", m |-> Fetch(c, HeadOf(c)), id |-> 0, pos |-> 0,
     head |-> HeadOf(c), seen |-> {}, start |-> Names(c)]

IsDir(d) == d.kind = "dir"

\* Entries of the directory that are behind cursor d.
Behind(c, d) ==
    LET k == At(c, d.m.pair)
    IN (UNION {Range(c[j].names) : j \in 1 .. k - 1})
       \union {c[k].names[j] : j \in {i \in DOMAIN c[k].names : i <= d.id}}

\* History of the handles: an entry is gone, and its name means another from now on.
Forget(d, n) ==
    IF IsDir(d) THEN [d EXCEPT !.seen = @ \ {n}, !.start = @ \ {n}]
    ELSE [d EXCEPT !.gone = @ \/ d.name = n]

Forgotten(l, n) == [i \in DOMAIN l |-> Forget(l[i], n)]

-----------------------------------------------------------------------------
(* What a commit does to the handles.                                        *)

\* The place moves into the part that holds it, from mdir m of chain c: as many rounds
\* as there are parts.
Settle(c, m, id) ==
    LET after[n \in Nat] ==
            IF n = 0 THEN [m |-> m, id |-> id]
            ELSE LET s == after[n - 1]
                 IN IF s.id >= s.m.count /\ s.m.tail # Null
                    THEN [m |-> Fetch(c, s.m.tail), id |-> s.id - s.m.count]
                    ELSE s
    IN after[Len(c)]

\* A handle that is detached: nothing looks at the rest of its mdir any more.
NoMdir == [pair |-> Null, count |-> 0, tail |-> Null]

\* The handle d, one that has the pair, and m, what *dir holds when it is reached.
\* Faulty variants: the place stays when an entry before it is created; the handle
\* of the entry that is deleted stays attached; the entry that is created pushes its
\* own handle up too.
ShiftNotByCreate(d, m, del, cre, owner) ==
    LET by(n) == IF IsDir(d) THEN [d EXCEPT !.m = m, !.id = n, !.pos = (@ + n) - d.id]
                             ELSE [d EXCEPT !.m = m, !.id = n]
    IN IF d.id = del THEN [d EXCEPT !.m = [m EXCEPT !.pair = Null]]
       ELSE IF d.id > del THEN by(d.id - 1)
       ELSE by(d.id)

ShiftNeverDetaches(d, m, del, cre, owner) ==
    LET by(n) == IF IsDir(d) THEN [d EXCEPT !.m = m, !.id = n, !.pos = (@ + n) - d.id]
                             ELSE [d EXCEPT !.m = m, !.id = n]
    IN IF d.id > del THEN by(d.id - 1)
       ELSE IF ~owner /\ d.id >= cre THEN by(d.id + 1)
       ELSE by(d.id)

ShiftPushesOwner(d, m, del, cre, owner) ==
    LET by(n) == IF IsDir(d) THEN [d EXCEPT !.m = m, !.id = n, !.pos = (@ + n) - d.id]
                             ELSE [d EXCEPT !.m = m, !.id = n]
    IN IF d.id = del THEN [d EXCEPT !.m = [m EXCEPT !.pair = Null]]
       ELSE IF d.id > del THEN by(d.id - 1)
       ELSE IF d.id >= cre THEN by(d.id + 1)
       ELSE by(d.id)

Shift(d, m, del, cre, owner) ==
    LET by(n) == IF IsDir(d) THEN [d EXCEPT !.m = m, !.id = n, !.pos = (@ + n) - d.id]
                             ELSE [d EXCEPT !.m = m, !.id = n]
    IN IF d.id = del THEN [d EXCEPT !.m = [m EXCEPT !.pair = Null]]
       ELSE IF d.id > del THEN by(d.id - 1)
       ELSE IF ~owner /\ d.id >= cre THEN by(d.id + 1)
       ELSE by(d.id)

\* The handle after the commit, when *dir is m.
Moved(c, d, m, del, cre, own) ==
    LET x    == Shift(d, m, del, cre, own)
        land == Settle(c, x.m, x.id)
    IN [x EXCEPT !.m = IF land.m.pair = Null THEN NoMdir ELSE land.m, !.id = land.id]

\* The loop over the list that ends lfs_dir_commit for dir, of handle `owner` of
\* the list (0: of none).  The owner's mdir is *dir: when its place moves into the
\* tail, the handles after it are given the tail.
Updated(c, l, dir, del, cre, owner) ==
    LET Has(i) == l[i].m.pair = dir.pair
        now    == IF owner # 0 /\ Has(owner)
                  THEN Moved(c, l[owner], dir, del, cre, TRUE).m ELSE dir
        At_(i) == IF owner # 0 /\ i > owner THEN now ELSE dir
    IN [i \in DOMAIN l |->
           IF Has(i) THEN Moved(c, l[i], At_(i), del, cre, i = owner) ELSE l[i]]

-----------------------------------------------------------------------------
(* What a commit does to the chain.                                          *)

\* lfs_dir_compact divides n entries in halves, and the halves again.
Halvings[n \in Nat] ==
    LET mid == n \div 2
        Behind_(y) == [j \in DOMAIN y |-> [from |-> mid + y[j].from, to |-> mid + y[j].to]]
    IN {<<[from |-> 1, to |-> n]>>} \union
       IF n > 1 THEN {x[1] \o Behind_(x[2]) : x \in Halvings[mid] \X Halvings[n - mid]}
       ELSE {}

\* The free pairs; it makes no difference which of them is handed out first.
Fresh(c) == SetToSeq(Pairs \ PairsOf(c))

\* Part k of c, with the names ns, written as the pieces `cut`, the first of them
\* to pair p.
Written(c, k, ns, cut, p) ==
    LET free == Fresh(c)
        Name_(j) == SubSeq(ns, cut[j].from, cut[j].to)
        parts == [j \in DOMAIN cut |->
                    [pair |-> IF j = 1 THEN p ELSE free[j], names |-> Name_(j)]]
    IN SubSeq(c, 1, k - 1) \o parts \o SubSeq(c, k + 1, Len(c))

\* Faulty variant: only the pairs are renamed, not where a directory starts.
RenamedPairs(l, old, new) ==
    [i \in DOMAIN l |-> IF l[i].m.pair = old THEN [l[i] EXCEPT !.m.pair = new] ELSE l[i]]

\* lfs_fs_relocate: "update internally tracked dirs"
Renamed(l, old, new) ==
    [i \in DOMAIN l |->
        LET d == IF l[i].m.pair = old THEN [l[i] EXCEPT !.m.pair = new] ELSE l[i]
        IN IF IsDir(d) /\ d.head = old THEN [d EXCEPT !.head = new] ELSE d]

\* ... and the commit of the new tail to the predecessor.
Relinked(c, l, k) ==
    IF k = 1 THEN l ELSE Updated(c, l, Fetch(c, c[k - 1].pair), None, None, 0)

State(c, l) == [chain |-> c, mlist |-> l]

\* lfs_dir_compact and lfs_fs_relocate: part k of s is written with the names ns,
\* and may split, or move (if `may` has TRUE); the first free pair is for the move.
Rewritten(s, k, ns, may) ==
    LET Outcome(cut, move) ==
            LET p == s.chain[k].pair
                q == IF move THEN Fresh(s.chain)[1] ELSE p
                c == Written(s.chain, k, ns, cut, q)
            IN State(c, IF move THEN Relinked(c, Renamed(s.mlist, p, q), k) ELSE s.mlist)
        Fits(cut, move) ==
            Len(cut) > 1 \/ move => Len(cut) <= Len(Fresh(s.chain))
    IN {Outcome(x[1], x[2]) :
            x \in {y \in Halvings[Len(ns)] \X may : Fits(y[1], y[2])}}

-----------------------------------------------------------------------------
(* Situations in which the code loses track of a handle.  They are kept out    *)
(* unless Risks lets them in.                                                 *)

\* Handles of the list l that have pair p.
Having(l, p) == {i \in DOMAIN l : l[i].m.pair = p}

\* The handles that are updated by a commit to part k of r.
Affected(r, k) == {r.mlist[i] : i \in Having(r.mlist, r.chain[k].pair)}

\* "split": the committing handle moves into the tail before another is updated.
SplitUnder(r, k, owner) ==
    /\ owner # 0
    /\ r.mlist[owner].id >= Len(r.chain[k].names)
    /\ k < Len(r.chain)
    /\ \E i \in Having(r.mlist, r.chain[k].pair) : i > owner

\* "last": the handle of the deleted entry is past the end of the part, and is
\* taken to the tail after it was detached.
LastUnder(r, k, del) ==
    /\ k < Len(r.chain) /\ del >= Len(r.chain[k].names)
    /\ \E d \in Affected(r, k) : ~IsDir(d) /\ d.id = del

\* "ahead": a directory handle is in front of the deleted entry, and is detached.
AheadUnder(r, k, del) == \E d \in Affected(r, k) : IsDir(d) /\ d.id = del

\* "rename": one commit deletes and creates; the places behind shift wrongly.
RenameUnder(r, k, del, cre) ==
    /\ del # None /\ cre # None
    /\ \E d \in Affected(r, k) :
          IF del = cre THEN d.id > cre ELSE d.id >= del \/ d.id >= cre

\* "drop": a handle has the pair that drops out.
DropUnder(s, k) == Affected(s, k) # {}

Unless(risk, situation) == situation => risk \in Risks

-----------------------------------------------------------------------------
(* Commits.                                                                   *)

\* lfs_dir_commit to part k: what it may make of s.
Committed(s, k, ns, del, cre, owner, may) ==
    {State(r.chain,
           Updated(r.chain, r.mlist, Fetch(r.chain, r.chain[k].pair), del, cre, owner)) :
        r \in {x \in Rewritten(s, k, ns, may) :
                 /\ Unless("split", SplitUnder(x, k, owner))
                 /\ Unless("last", LastUnder(x, k, del))
                 /\ Unless("ahead", AheadUnder(x, k, del))
                 /\ Unless("rename", RenameUnder(x, k, del, cre))}}

\* A commit that leaves the entries alone.
Touched(s, k, owner, may) ==
    Committed(s, k, s.chain[k].names, None, None, owner, may)

\* A commit that deletes the entry at `id`.  If none is left and the part has a
\* predecessor the part drops out (lfs_dir_drop), and the list is not looked at.
Deleted(s, k, id) ==
    LET ns == RemoveAt(s.chain[k].names, id + 1)
    IN IF ns = <<>> /\ k > 1
       THEN IF DropUnder(s, k) /\ "drop" \notin Risks THEN {}
            ELSE Touched(State(RemoveAt(s.chain, k), s.mlist), k - 1, 0, BOOLEAN)
       ELSE Committed(s, k, ns, id, None, 0, BOOLEAN)

\* A directory that is removed drops out of the threaded list: its predecessor,
\* which may be the last part of its parent, is given its tail.
Unlisted(s, n) ==
    IF n \in Folder THEN {s} \union Touched(s, Len(s.chain), 0, BOOLEAN) ELSE {s}

-----------------------------------------------------------------------------
(* Calls on files and entries.                                               *)

Now == State(chain, mlist)

Become(r) ==
    /\ \A i \in DOMAIN r.mlist : IsDir(r.mlist[i]) => r.mlist[i].pos <= MaxPos
    /\ chain' = r.chain
    /\ mlist' = r.mlist

Push(d) == <<d>> \o mlist

Mount ==
    /\ \E p \in Pairs : chain = <<[pair |-> p, names |-> <<>>]>>
    /\ mlist = <<>>

\* lfs_file_open of a file that exists, and with LFS_O_CREAT of one that does not.
\* The handle is on the list when the entry is committed.
OpenFile(n) ==
    LET f == Find(chain, n)
        m == Fetch(chain, chain[f.part].pair)
        l == Push(FileHandle(n, m, f.id))
    IN /\ n \notin Folder
       /\ Len(mlist) < MaxHandles
       /\ IF n \in Names(chain) THEN Become(State(chain, l))
          ELSE \E r \in Committed(State(chain, l), f.part,
                                  InsertAt(chain[f.part].names, f.id + 1, n),
                                  None, f.id, 1, BOOLEAN) : Become(r)

\* lfs_file_sync of a handle with something to commit.
SyncFile(i) ==
    /\ ~IsDir(mlist[i]) /\ mlist[i].m.pair # Null
    /\ \E r \in Touched(Now, At(chain, mlist[i].m.pair), i, BOOLEAN) : Become(r)

\* lfs_file_close: a sync, with something to commit or nothing; lfs_dir_close.
Close(i) ==
    LET dirty == IF IsDir(mlist[i]) \/ mlist[i].m.pair = Null THEN {}
                 ELSE Touched(Now, At(chain, mlist[i].m.pair), i, BOOLEAN)
    IN \E r \in {Now} \union dirty : Become(State(r.chain, RemoveAt(r.mlist, i)))

\* lfs_mkdir.  If the parent goes on behind the part with the place, its last part
\* is given a new tail first.  (A move of that part would leave lfs_mkdir with a
\* stale copy of the part before it.)
Mkdir(n) ==
    LET f == Find(chain, n)
        last == Len(chain)
        linked == IF f.part = last THEN {Now}
                  ELSE Touched(Now, last, 0, IF f.part = last - 1 THEN {FALSE} ELSE BOOLEAN)
    IN /\ n \in Folder \ Names(chain)
       /\ \E s \in linked :
             \E r \in Committed(s, f.part, InsertAt(s.chain[f.part].names, f.id + 1, n),
                                None, f.id, 0, BOOLEAN) : Become(r)

\* lfs_remove
RemoveEntry(n) ==
    LET f == Find(chain, n)
        s == State(chain, Forgotten(mlist, n))
    IN /\ n \in Names(chain)
       /\ \E x \in Deleted(s, f.part, f.id) : \E r \in Unlisted(x, n) : Become(r)

\* lfs_rename within the directory from a to b, in one part: one commit that
\* creates, and deletes what was renamed: the pending move replaces the place of
\* the entry b that is overwritten.  A file that is renamed is a new one to its
\* handles.
RenameInPart(a, b) ==
    LET f == Find(chain, a)
        g == Find(chain, b)
        k == f.part
        over == b \in Names(chain)
        del == IF ~over /\ g.id <= f.id THEN f.id + 1 ELSE f.id
        left == RemoveAt(chain[k].names, f.id + 1)
        ns == IF over THEN left
              ELSE InsertAt(left, IF g.id <= f.id THEN g.id + 1 ELSE g.id, b)
        s == State(chain, Forgotten(Forgotten(mlist, a), b))
    IN /\ f.part = g.part
       /\ \E x \in Committed(s, k, ns, del, g.id, 0, BOOLEAN) :
             \E r \in (IF over THEN Unlisted(x, b) ELSE {x}) : Become(r)

\* From one part to another: the entry is created (over b), then deleted.  (A move
\* of the part behind would leave lfs_rename with a stale copy of the part before.)
RenameAcross(a, b) ==
    LET f == Find(chain, a)
        g == Find(chain, b)
        over == b \in Names(chain)
        s == State(chain, Forgotten(Forgotten(mlist, a), b))
        ns == IF over THEN chain[g.part].names
              ELSE InsertAt(chain[g.part].names, g.id + 1, b)
    IN /\ f.part # g.part
       /\ \E x \in Committed(s, g.part, ns, IF over THEN g.id ELSE None, g.id, 0,
                             IF f.part = g.part - 1 THEN {FALSE} ELSE BOOLEAN) :
          \E y \in Deleted(x, At(x.chain, chain[f.part].pair), f.id) :
          \E r \in (IF over THEN Unlisted(y, b) ELSE {y}) : Become(r)

Rename(a, b) ==
    /\ a \in Names(chain) /\ a # b
    /\ a \in Folder <=> b \in Folder
    /\ RenameInPart(a, b) \/ RenameAcross(a, b)

-----------------------------------------------------------------------------
(* Calls on directories.                                                     *)

\* lfs_dir_open
OpenDir ==
    /\ Len(mlist) < MaxHandles
    /\ mlist' = Push(DirHandle(chain))
    /\ UNCHANGED chain

\* lfs_dir_read: the two dots, then the entries; at the end nothing.
ReadDots(i) ==
    /\ IsDir(mlist[i]) /\ mlist[i].pos < 2
    /\ mlist' = [mlist EXCEPT ![i].pos = @ + 1]
    /\ UNCHANGED chain

ReadDir(i) ==
    LET d == mlist[i]
        ends == d.id = d.m.count
        m == IF ends THEN Fetch(chain, d.m.tail) ELSE d.m
        id == IF ends THEN 0 ELSE d.id
    IN /\ IsDir(d) /\ d.pos >= 2
       /\ ends => d.m.tail # Null
       /\ mlist' = [mlist EXCEPT
                     ![i] = [d EXCEPT !.m = m, !.id = id + 1, !.pos = @ + 1,
                                      !.seen = @ \union
                                         {chain[At(chain, m.pair)].names[id + 1]}]]
       /\ UNCHANGED chain

\* lfs_dir_rewind
Rewound(d) == [d EXCEPT !.m = Fetch(chain, d.head), !.id = 0, !.pos = 0]

\* lfs_dir_seek: past the end it stays there, and fails.
SeekDir(i, off) ==
    LET d == Rewound(mlist[i])
        n == IF off > 2 THEN off - 2 ELSE 0
        land == IF n = 0 THEN [m |-> d.m, id |-> 0] ELSE Settle(chain, d.m, n)
        over == IF land.id > land.m.count THEN land.id - land.m.count ELSE 0
        to == [d EXCEPT !.m = land.m, !.id = land.id - over, !.pos = off - over]
    IN /\ IsDir(mlist[i])
       /\ mlist' = [mlist EXCEPT ![i] = [to EXCEPT !.seen = Behind(chain, to),
                                                   !.start = Names(chain)]]
       /\ UNCHANGED chain

-----------------------------------------------------------------------------

Init == Mount

Next ==
    \/ OpenDir
    \/ \E n \in Name : OpenFile(n) \/ Mkdir(n) \/ RemoveEntry(n)
    \/ \E a, b \in Name : Rename(a, b)
    \/ \E i \in DOMAIN mlist : SyncFile(i) \/ Close(i) \/ ReadDots(i) \/ ReadDir(i)
    \/ \E i \in DOMAIN mlist, off \in 0 .. MaxPos : SeekDir(i, off)

Spec == Init /\ [][Next]_vars

-----------------------------------------------------------------------------

Handles == {mlist[i] : i \in DOMAIN mlist}
Files   == {d \in Handles : ~IsDir(d)}
Dirs    == {d \in Handles : IsDir(d)}

\* Types, and the order the search relies on: the names ascend through the chain, and
\* no part but the first is empty.
TypeOK ==
    /\ \A k \in DOMAIN chain : chain[k].pair \in Pairs /\ (k > 1 => chain[k].names # <<>>)
    /\ \A j, k \in DOMAIN chain : j # k => chain[j].pair # chain[k].pair
    /\ \A j, k \in DOMAIN chain :
          \A a \in DOMAIN chain[j].names, b \in DOMAIN chain[k].names :
             j < k \/ (j = k /\ a < b) => chain[j].names[a] < chain[k].names[b]
    /\ \A d \in Handles : d.m \in Mdir /\ d.id \in Nat

\* As long as its file has not been removed or renamed a handle names the entry of the
\* file, whatever was created, deleted, split or moved around it: a sync (lfs_file_sync)
\* never writes to the entry of another file.
FollowsFile ==
    \A d \in Files : ~d.gone =>
        /\ d.m.pair \in PairsOf(chain)
        /\ LET ns == chain[At(chain, d.m.pair)].names
           IN d.id + 1 \in DOMAIN ns /\ ns[d.id + 1] = d.name

\* A handle of a file that is gone is detached (a sync leaves the device alone), and a
\* directory that is being read never is: lfs_dir_read would fetch the null pair.
DetachedOnlyIfGone ==
    /\ \A d \in Files : d.gone <=> d.m.pair = Null
    /\ \A d \in Dirs : d.m.pair # Null

\* What a handle knows of its pair and of its directory is what the device holds,
\* so the next commit through it appends where the last one ended.
MdirFresh ==
    \A d \in Handles : d.m.pair # Null =>
        /\ d.m.pair \in PairsOf(chain)
        /\ d.m = Fetch(chain, d.m.pair)
        /\ IsDir(d) => d.head = HeadOf(chain)

\* Reading a directory to its end, with changes to it in between, returns every entry
\* that was there all the time once: what it has returned is behind the cursor, and
\* nothing else that was there at the start is.
ReadsEachOnce ==
    \A d \in Dirs : d.m.pair \in PairsOf(chain) =>
        /\ d.seen \subseteq Behind(chain, d)
        /\ d.start \intersect Behind(chain, d) \subseteq d.seen
=============================================================================
