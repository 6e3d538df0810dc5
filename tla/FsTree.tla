-------------------------------- MODULE FsTree --------------------------------
(***************************************************************************)
(* The directory tree of littlefs and the list that is threaded through it *)
(* (lfs_mkdir, lfs_remove, lfs_rename, the creation of files, lfs_mount    *)
(* and the repairs after a power loss).                                    *)
(*                                                                         *)
(* Each directory is a metadata pair.  Its parent names it, and so does    *)
(* the tail of the directory before it in the list: the list is what the   *)
(* block allocator and the mount walk.  An operation is a sequence of      *)
(* commits to single pairs; MetadataPair shows that each of them is        *)
(* atomic.  A commit may move half of its pair to another block, and then  *)
(* commits to the parent and to the predecessor follow, which may move     *)
(* their pairs too.  What a power loss in the middle leaves to repair, an  *)
(* entry that is moved but still there or a directory that parent and list *)
(* do not agree on, is kept in the global state: the exclusive or of a     *)
(* part stored in each pair.                                               *)
(*                                                                         *)
(* A directory fits in one pair here, and no file or directory is open.    *)
(***************************************************************************)
EXTENDS Naturals, Sequences, FiniteSets, SequencesExt

CONSTANTS Blocks,   \* erase blocks of the device
          S0, S1,   \* blocks 0 and 1, the superblock pair and the root
          Name,     \* names of entries: numbers, in the order of the names
          File,     \* what tells files apart
          Ways,     \* what may become of a commit, see Outcomes
          Risks,    \* situations allowed that the code is known not to handle
          MaxOps,   \* bound: operations started
          MaxMoves, \* bound: blocks replaced
          MaxDepth  \* bound: entries on a path

ASSUME BlocksAssumption == {S0, S1} \subseteq Blocks /\ S0 # S1
ASSUME NameAssumption   == Name \subseteq Nat /\ MaxDepth \in Nat
ASSUME BoundsAssumption == MaxOps \in Nat /\ MaxMoves \in Nat

VARIABLES
    disk,   \* the directory each block holds
    g,      \* lfs->gstate, lfs->gpending and lfs->gdelta
    todo,   \* what is left of the operation in progress, step by step
    taken,  \* blocks handed out since the last lfs_alloc_ack
    ops,    \* operations started
    moves,  \* blocks replaced
    tree,   \* history: what a mount finds now
    goal    \* history: the tree the operation leads to

vars == <<disk, g, todo, taken, ops, moves, tree, goal>>

-------------------------------------------------------------------------------
(* Pairs.  They are written with either half first.                           *)

Super == <<S0, S1>>
Null  == <<>>

Halves(p) == {p[i] : i \in DOMAIN p}

\* lfs_pair_cmp(p, q) == 0: a pair that has moved is still the same.
SamePair(p, q) == Halves(p) \intersect Halves(q) # {}

\* lfs_pair_sync
InSync(p, q) == Halves(p) = Halves(q)

-------------------------------------------------------------------------------
(* The global state.  The move it may hold names an entry by pair and place;  *)
(* the exclusive or of several moves is the set of them.                      *)

Xor(A, B) == (A \ B) \union (B \ A)

Clean == [orphans |-> FALSE, moves |-> {}]

\* Faulty variant: what the pair has stored already is forgotten.
XorStateForgets(a, b) == a

\* lfs_gstate_xor
XorState(a, b) == [orphans |-> a.orphans # b.orphans,
                   moves   |-> Xor(a.moves, b.moves)]

\* lfs_gstate_hasmove, lfs_gstate_hasmovehere
HasMove(s)     == Cardinality(s.moves) = 1
TheMove(s)     == CHOOSE m \in s.moves : TRUE
MoveHere(s, p) == HasMove(s) /\ SamePair(TheMove(s).pair, p)

\* Faulty variant: the device is not told of orphans.
OrphansInRam(r, n) == [r EXCEPT !.pending.orphans = n]

\* lfs_fs_preporphans: the count is kept in RAM, a bit of it goes to the device.
Orphans(r, n) ==
    [r EXCEPT !.pending.orphans = n,
              !.delta.orphans   = @ # ((r.pending.orphans > 0) # (n > 0))]

\* Faulty variant: the move is not stored with the next commit.
MovingInRam(r, m) == [r EXCEPT !.pending.moves = {m}]

\* lfs_fs_prepmove
Moving(r, m) ==
    [r EXCEPT !.pending.moves = {m},
              !.delta.moves   = Xor(@, Xor(r.pending.moves, {m}))]

-------------------------------------------------------------------------------
(* Directories on the device.  Revisions of the two halves of a pair are one  *)
(* apart: they are counted modulo three.                                      *)

NextRev(r) == (r + 1) % 3

Blank == [rev |-> 0, ok |-> FALSE, ents |-> <<>>, tail |-> Null, delta |-> Clean]

\* lfs_dir_fetch: the pair, current half first, and what it holds.
Fetch(d, p) ==
    LET isSecond == /\ d[p[2]].ok
                    /\ d[p[1]].ok => d[p[2]].rev = NextRev(d[p[1]].rev)
        Of(a, b) == [pair |-> <<a, b>>, node |-> d[a]]
    IN IF isSecond THEN Of(p[2], p[1]) ELSE Of(p[1], p[2])

\* The pairs on the list in their order, from pair p on.
ListFrom(d, p) ==
    LET first[n \in 1 .. Cardinality(Blocks)] ==
            IF n = 1 THEN <<p>>
            ELSE LET l == first[n - 1]
                     t == Fetch(d, Last(l)).node.tail
                 IN IF t = Null THEN l ELSE Append(l, t)
    IN IF p = Null THEN <<>> ELSE first[Cardinality(Blocks)]

List(d) == ListFrom(d, Super)

\* The blocks lfs_fs_traverse visits.
Traversed(d) == UNION {Halves(p) : p \in Range(List(d))}

\* Blocks lfs_alloc may return.
Free(d, t) == Blocks \ (Traversed(d) \union t)

\* lfs_mount: the global state is the sum of what the pairs on the list hold.
StateOnDisk(d) ==
    LET list == List(d)
        delta == [n \in DOMAIN list |-> Fetch(d, list[n]).node.delta]
        Odd(S) == Cardinality(S) % 2 = 1
    IN [orphans |-> IF Odd({n \in DOMAIN delta : delta[n].orphans}) THEN 1 ELSE 0,
        moves   |-> {m \in UNION {x.moves : x \in Range(delta)} :
                        Odd({n \in DOMAIN delta : m \in delta[n].moves})}]

IsDir(ref) == ref \notin File

\* Places in a directory that the user sees: an entry that is moved away is
\* hidden (lfs_dir_fetchmatch, lfs_dir_getslice).
Shown(d, s, p) == {i \in DOMAIN Fetch(d, p).node.ents :
                      ~(MoveHere(s, p) /\ TheMove(s).id = i)}

\* Paths and what they lead to: a pair or a file.
Entries(d, s) ==
    LET level[n \in 0 .. MaxDepth] ==
            IF n = 0 THEN {[path |-> <<>>, ref |-> Super]}
            ELSE UNION {{[path |-> Append(x.path, Fetch(d, x.ref).node.ents[i].name),
                          ref  |-> Fetch(d, x.ref).node.ents[i].ref] :
                             i \in Shown(d, s, x.ref)} :
                        x \in {y \in level[n - 1] : IsDir(y.ref)}}
    IN UNION {level[n] : n \in 0 .. MaxDepth}

Directories(d, s) == {x \in Entries(d, s) : IsDir(x.ref)}

Kind(ref) == IF IsDir(ref) THEN "dir" ELSE ref

Tree(d, s) == {[path |-> x.path, kind |-> Kind(x.ref)] :
                   x \in {y \in Entries(d, s) : y.path # <<>>}}

\* What a mount finds.
Recovered(d) == Tree(d, StateOnDisk(d))

Abstract == INSTANCE FileTree WITH tree <- tree, goal <- goal

-------------------------------------------------------------------------------
(* Searches along the list.                                                   *)

First(S) == {n \in S : \A k \in S : n <= k}

\* lfs_fs_pred: the directories whose tail names pair p, at most one.
Pred(d, p) ==
    LET list == List(d)
    IN {Fetch(d, list[n - 1]) : n \in First({k \in 2 .. Len(list) : SamePair(list[k], p)})}

\* Places in directory q with an entry for pair p.
Naming(d, s, q, p) ==
    LET e == Fetch(d, q).node.ents
    IN {i \in Shown(d, s, q) : IsDir(e[i].ref) /\ SamePair(e[i].ref, p)}

\* lfs_fs_parent: the directory with an entry for pair p, and its place there, at
\* most one.  A move that is pending hides its entry and shifts the ones after it.
Parent(d, s, p) ==
    LET list == List(d)
        In(q) == {[dir |-> Fetch(d, q),
                   ref |-> Fetch(d, q).node.ents[i].ref,
                   id  |-> IF MoveHere(s, q) /\ TheMove(s).id < i THEN i - 1 ELSE i] :
                     i \in First(Naming(d, s, q, p))}
    IN UNION {In(list[n]) :
                 n \in First({k \in DOMAIN list : Naming(d, s, list[k], p) # {}})}

\* The first directory on the list that has no parent, or another pair there.
Broken(d) ==
    LET list == List(d)
        Wrong(p) == \A x \in Parent(d, g.state, p) : ~InSync(x.ref, p)
    IN First({n \in 2 .. Len(list) : Wrong(list[n])})

-------------------------------------------------------------------------------
(* lfs_dir_commit.                                                            *)

\* The state of the driver after a commit step; failed: the operation ends with an
\* error.
State(d, r, t, b, n) ==
    [disk |-> d, g |-> r, todo |-> t, taken |-> b, moves |-> n, failed |-> FALSE]

\* Copies of directories that an operation keeps while it commits to others.
Copies(rest) == {rest[i].dir : i \in {j \in DOMAIN rest : rest[j].op \in {"commit", "drop"}}}

Refs(ents) == {ents[i].ref : i \in DOMAIN ents}

\* Situations in which the code gets into trouble when directory m moves in this
\* commit:
\*   delta    the power fails when the old block of m is not on the tree any more
\*            but still on the list, or the other way round, and m or a directory
\*            that joins or leaves the list with m stores a part of the global state
\*   cascade  a directory is out of step with the list already
\*   moved    a directory moves into m: it has no parent for those that come by the list
\*   copy     the parent or the predecessor of m is a directory of which the operation
\*            keeps a copy for a later commit
\*   full     no block is free
Troubles(m, ents, tail, rest) ==
    {k \in {"delta", "cascade", "moved", "copy", "full"} :
        CASE k = "delta"   -> \/ m.node.delta # Clean
                              \/ \E p \in Xor(Range(ListFrom(disk, m.node.tail)),
                                             Range(ListFrom(disk, tail))) :
                                    Fetch(disk, p).node.delta # Clean
          [] k = "cascade" -> \/ \E i \in DOMAIN rest : rest[i].op \in {"parent", "pred", "drop"}
                              \/ Broken(disk) # {}
          [] k = "moved"   -> \E ref \in Refs(ents) \ Refs(m.node.ents) :
                                 IsDir(ref) /\ Halves(ref) \subseteq Traversed(disk)
          [] k = "copy"    -> \E x \in {y.dir : y \in Parent(disk, g.state, m.pair)}
                                      \union Pred(disk, m.pair) :
                                  \E c \in Copies(rest) : SamePair(c.pair, x.pair)
          [] k = "full"    -> Free(disk, taken) = {}}

\* An error in a commit to m leaves no more than orphans behind in RAM: no move that
\* the device does not know, no half of one, nothing read from m.  And no part of the
\* global state is in a directory that was to be linked by the commit.
FailsClean(m, ents, r, delta) ==
    /\ r.pending.moves = g.state.moves
    /\ delta.moves = {}
    /\ m.node.delta = Clean
    /\ \A ref \in Refs(ents) \ Refs(m.node.ents) :
          IsDir(ref) => Fetch(disk, ref).node.delta = Clean

\* The outcomes of a commit to directory m, known as it was when it was fetched,
\* that leaves it with these entries and this tail, when the global state in RAM
\* is r and the operation goes on with rest.  A move away from here that is
\* pending is brought to its end by this commit.
Outcomes(m, ents, tail, r, rest) ==
    LET here == MoveHere(r.pending, m.pair)
        out  == IF here THEN RemoveAt(ents, TheMove(r.pending).id) ELSE ents
        pend == IF here THEN [r.pending EXCEPT !.moves = {}] ELSE r.pending
        dlt  == IF here THEN [r.delta EXCEPT !.moves = Xor(@, r.pending.moves)] ELSE r.delta
        sum  == XorState(dlt, m.node.delta)
        saved == [state |-> pend, pending |-> pend, delta |-> Clean]
        Node(rev, delta) ==
            [rev |-> rev, ok |-> TRUE, ents |-> out, tail |-> tail, delta |-> delta]
        newer == NextRev(m.node.rev)
        \* the log of the current half grows
        Appended ==
            IF disk[m.pair[1]] = m.node
            THEN {State([disk EXCEPT ![m.pair[1]] = Node(m.node.rev, sum)],
                        saved, rest, taken, moves)}
            ELSE {}
        \* the other half is written; in it, the stored part of the global state
        Compacted(delta) ==
            {State([disk EXCEPT ![m.pair[2]] = Node(newer, delta)],
                   saved, rest, taken, moves)}
        \* the other half is replaced; the parent gets the global state
        Spare(way) == IF way = "worn" /\ Free(disk, taken) = {} THEN {m.pair[2]}
                      ELSE Free(disk, taken)
        Relocated(way) ==
            {State([disk EXCEPT ![b] = Node(newer, Clean)],
                   [r EXCEPT !.pending = pend, !.delta = IF way = "worn" THEN sum ELSE dlt],
                   <<[op |-> "parent", old |-> m.pair, new |-> <<b, m.pair[1]>>]>> \o rest,
                   taken \union {b}, moves + 1) :
                 b \in {x \in Spare(way) :
                           /\ moves < MaxMoves
                           /\ ~SamePair(m.pair, Super)
                           /\ Troubles(m, ents, tail, rest) \subseteq Risks}}
        \* an error: nothing is written, and the operation ends; what it changed in
        \* RAM stays, perhaps with the part of the global state read from m
        Failed == {[State(disk, [r EXCEPT !.delta = x], <<>>, taken, moves)
                       EXCEPT !.failed = TRUE] :
                      x \in {y \in {dlt, sum} : FailsClean(m, ents, r, y) \/ "stale" \in Risks}}
    IN UNION {CASE way = "append"  -> Appended
                [] way = "compact" -> Compacted(sum)
                [] way = "retry"   -> Compacted(IF dlt = Clean THEN sum ELSE dlt)
                [] way = "fail"    -> Failed
                [] OTHER           -> Relocated(way) : way \in Ways}

\* A step of an operation that leads to the tree aim, if it does not fail.
DoFor(aim, S) ==
    \E s \in S : /\ disk'  = s.disk
                /\ tree'  = Recovered(s.disk)
                /\ g'     = s.g
                /\ todo'  = s.todo
                /\ taken' = s.taken
                /\ moves' = s.moves
                /\ goal'  = IF s.failed THEN tree' ELSE aim

Do(S) == DoFor(goal, S)

-------------------------------------------------------------------------------
(* lfs_format and lfs_mount.                                                  *)

Root == [rev |-> 1, ok |-> TRUE, ents |-> <<>>, tail |-> Null, delta |-> Clean]

Mounted(s) == [state |-> s, pending |-> s, delta |-> Clean]

Init ==
    /\ disk = [b \in Blocks |-> CASE b = S0 -> Root
                               [] b = S1 -> [Root EXCEPT !.rev = 0]
                               [] OTHER  -> Blank]
    /\ g = Mounted(StateOnDisk(disk))
    /\ todo = <<>>
    /\ taken = {}
    /\ ops = 0
    /\ moves = 0
    /\ tree = {}
    /\ goal = {}

\* Power is lost, or the filesystem is unmounted, and it is mounted again.
Restart ==
    /\ g' = Mounted(StateOnDisk(disk))
    /\ todo' = <<>>
    /\ taken' = {}
    /\ goal' = tree
    /\ UNCHANGED <<disk, tree, ops, moves>>

-------------------------------------------------------------------------------
(* lfs_fs_forceconsistency, at the start of every operation that writes.      *)

Idle       == todo = <<>>
Consistent == ~HasMove(g.state) /\ g.state.orphans = 0

\* lfs_fs_demove: a commit without changes of its own to the directory of the move.
Demove ==
    /\ Idle
    /\ HasMove(g.state)
    /\ LET m == Fetch(disk, TheMove(g.state).pair)
       IN Do(Outcomes(m, m.node.ents, m.node.tail, g, <<>>))
    /\ UNCHANGED ops

\* The end of lfs_fs_deorphan: all is fixed.
AllFixed(r) == LET q == Orphans(r, r.pending.orphans - r.state.orphans)
               IN [q EXCEPT !.state = q.pending]

\* lfs_fs_deorphan: an orphan leaves the list, and the list follows a parent that
\* names another pair.  The first thing that is fixed ends the search.
Deorphan ==
    /\ Idle
    /\ ~HasMove(g.state)
    /\ g.state.orphans > 0
    /\ \/ /\ Broken(disk) = {}
          /\ g' = AllFixed(g)
          /\ UNCHANGED <<disk, tree, todo, taken, moves, goal>>
       \/ \E n \in Broken(disk) :
             LET list == List(disk)
                 pdir == Fetch(disk, list[n - 1])
                 dir  == Fetch(disk, list[n])
                 rest == <<[op |-> "fixed"]>>
             IN \/ /\ Parent(disk, g.state, list[n]) = {}
                   /\ Do(Outcomes(pdir, pdir.node.ents, dir.node.tail,
                                  [g EXCEPT !.delta = XorState(@, dir.node.delta)], rest))
                \/ \E x \in Parent(disk, g.state, list[n]) :
                      Do(Outcomes(pdir, pdir.node.ents, x.ref, g, rest))
    /\ UNCHANGED ops

-------------------------------------------------------------------------------
(* Operations.  Each finds its directories, and makes its first commit.       *)

\* Faulty variant: a new entry comes last.
PlaceLast(ents, n) == 1 + Cardinality({i \in DOMAIN ents : ents[i].name # n})

Names(ents)    == {ents[i].name : i \in DOMAIN ents}
Place(ents, n) == 1 + Cardinality({i \in DOMAIN ents : ents[i].name < n})
Insert(ents, n, ref) == InsertAt(ents, Place(ents, n), [name |-> n, ref |-> ref])

\* Nothing is in progress or left to repair.
Ready == Idle /\ Consistent /\ ops < MaxOps

\* An operation starts that leads to tree t; the outcomes of its first commit are S.
Begin(t, S) ==
    /\ \A x \in t : Len(x.path) <= MaxDepth
    /\ ops' = ops + 1
    /\ DoFor(t, S)

\* lfs_file_opencfg makes a file.
CreateFile(x, n, f) ==
    LET cwd == Fetch(disk, x.ref)
    IN /\ n \notin Names(cwd.node.ents)
       /\ Begin(tree \union {[path |-> Append(x.path, n), kind |-> f]},
                Outcomes(cwd, Insert(cwd.node.ents, n, f), cwd.node.tail, g, <<>>))

\* lfs_mkdir: after lfs_alloc_ack, two blocks are taken and the new directory is
\* written, to continue the list.  Then it is linked into its parent and the list.
MakeDir(x, n) ==
    LET cwd == Fetch(disk, x.ref)
    IN /\ n \notin Names(cwd.node.ents)
       /\ \E b0, b1 \in Free(disk, {}) :
             /\ b0 # b1
             /\ Begin(tree \union {[path |-> Append(x.path, n), kind |-> "dir"]},
                   {State([disk EXCEPT ![b1] =
                             [rev |-> NextRev(disk[b0].rev), ok |-> TRUE, ents |-> <<>>,
                              tail |-> cwd.node.tail, delta |-> g.delta]],
                          [g EXCEPT !.state = g.pending, !.delta = Clean],
                          <<[op |-> "commit", dir |-> cwd, tail |-> <<b1, b0>>,
                             ents |-> Insert(cwd.node.ents, n, <<b1, b0>>)]>>,
                          {b0, b1}, moves)})

\* lfs_remove: the entry is deleted; a directory then leaves the list.
RemoveEntry(x, i) ==
    LET cwd == Fetch(disk, x.ref)
        e   == cwd.node.ents[i]
        dir == Fetch(disk, e.ref)
        Commit(r, rest) ==
            Begin(Abstract!Without(tree, Append(x.path, e.name)),
                  Outcomes(cwd, RemoveAt(cwd.node.ents, i), cwd.node.tail, r, rest))
    IN \/ /\ ~IsDir(e.ref)
          /\ Commit(g, <<>>)
       \/ /\ IsDir(e.ref)
          /\ dir.node.ents = <<>>
          /\ Commit(Orphans(g, g.pending.orphans + 1), <<[op |-> "drop", dir |-> dir]>>)

\* Faulty variant: ids do not shift.
OldPlaceUnshifted(i, n, inserted) == i

\* newoldtagid: an entry inserted in the same directory at place n shifts those from
\* there on.
OldPlace(i, n, inserted) == IF inserted /\ n <= i THEN i + 1 ELSE i

\* lfs_rename: the entry is made in the new place and the old one is marked as
\* moved, in one commit; a commit to the old directory then deletes it there.  A
\* directory that was replaced leaves the list.
RenameEntry(x, i, y, n) ==
    LET old  == Fetch(disk, x.ref)
        new  == Fetch(disk, y.ref)
        e    == old.node.ents[i]
        from == Append(x.path, e.name)
        to   == Append(y.path, n)
        at   == Place(new.node.ents, n)
        prev == {k \in DOMAIN new.node.ents : new.node.ents[k].name = n}
        same == SamePair(old.pair, new.pair)
        dirs == {k \in prev : IsDir(new.node.ents[k].ref)}
        gone == {Fetch(disk, new.node.ents[k].ref) : k \in dirs}
        id   == OldPlace(i, at, same /\ prev = {})
        r    == IF gone = {} THEN g ELSE Orphans(g, g.pending.orphans + 1)
    IN /\ \A k \in prev : IsDir(e.ref) <=> k \in dirs
       /\ \A c \in gone : c.node.ents = <<>>
       /\ from = to => "itself" \in Risks
       /\ IsStrictPrefix(from, to) => "inside" \in Risks
       /\ Begin(Abstract!Moved(tree, from, to),
             Outcomes(new,
                      IF prev = {} THEN Insert(new.node.ents, n, e.ref)
                      ELSE [new.node.ents EXCEPT ![at].ref = e.ref],
                      new.node.tail,
                      Moving(r, [pair |-> old.pair, id |-> id]),
                      (IF same THEN <<>>
                       ELSE <<[op |-> "commit", dir |-> old, tail |-> old.node.tail,
                               ents |-> old.node.ents]>>)
                      \o SetToSeq({[op |-> "drop", dir |-> c] : c \in gone})))

-------------------------------------------------------------------------------
(* The steps after the first commit.                                          *)

Doing(op) == todo # <<>> /\ Head(todo).op = op

\* The next commit of an operation, with its copy of the directory.
Continue ==
    /\ Doing("commit")
    /\ LET t == Head(todo)
       IN Do(Outcomes(t.dir, t.ents, t.tail, g, Tail(todo)))
    /\ UNCHANGED ops

\* The operation has nothing more to do in this step.
NothingToDo(r) == {State(disk, r, Tail(todo), taken, moves)}

\* lfs_dir_drop: the directory before takes over the tail, and the part of the
\* global state.
Drop ==
    /\ Doing("drop")
    /\ LET dir == Head(todo).dir
           r   == Orphans(g, g.pending.orphans - 1)
           s   == [r EXCEPT !.delta = XorState(@, dir.node.delta)]
           at  == Pred(disk, dir.pair)
       IN Do(IF at = {} THEN {State(disk, r, <<>>, taken, moves)}
             ELSE UNION {Outcomes(p, p.node.ents, dir.node.tail, s, Tail(todo)) : p \in at})
    /\ UNCHANGED ops

\* lfs_fs_relocate: the parent names the pair as it is now.  This leaves a desync.
RelocateInParent ==
    /\ Doing("parent")
    /\ LET t    == Head(todo)
           up   == Parent(disk, g.state, t.old)
           next == [op |-> "pred", old |-> t.old, new |-> t.new, desync |-> up # {}]
       IN Do(IF up = {} THEN {State(disk, g, <<next>> \o Tail(todo), taken, moves)}
             ELSE UNION {Outcomes(x.dir, [x.dir.node.ents EXCEPT ![x.id].ref = t.new],
                                  x.dir.node.tail, Orphans(g, g.pending.orphans + 1),
                                  <<next>> \o Tail(todo)) : x \in up})
    /\ UNCHANGED ops

\* Then so does the directory before it in the list.
RelocateInPred ==
    /\ Doing("pred")
    /\ LET t == Head(todo)
           r == IF t.desync THEN Orphans(g, g.pending.orphans - 1) ELSE g
           p == Pred(disk, t.old)
       IN Do(IF p = {} THEN NothingToDo(r)
             ELSE UNION {Outcomes(m, m.node.ents, t.new, r, Tail(todo)) : m \in p})
    /\ UNCHANGED ops

\* lfs_fs_deorphan is over.
MarkFixed ==
    /\ Doing("fixed")
    /\ Do(NothingToDo(AllFixed(g)))
    /\ UNCHANGED ops

Step == Continue \/ Drop \/ RelocateInParent \/ RelocateInPred \/ MarkFixed

Start ==
    /\ Ready
    /\ \E x \in Directories(disk, g.state), n \in Name :
          \/ MakeDir(x, n)
          \/ \E f \in File : CreateFile(x, n, f)
          \/ \E y \in Directories(disk, g.state) :
                \E i \in DOMAIN Fetch(disk, y.ref).node.ents : RenameEntry(y, i, x, n)

Erase ==
    /\ Ready
    /\ \E x \in Directories(disk, g.state) :
          \E i \in DOMAIN Fetch(disk, x.ref).node.ents : RemoveEntry(x, i)

Next == Start \/ Erase \/ Step \/ Demove \/ Deorphan \/ Restart

Spec == Init /\ [][Next]_vars

-------------------------------------------------------------------------------
(* Properties.                                                                *)

\* The halves of every pair on the list differ, the newest one is complete, its
\* entries are in the order of their names, and the orphan count is never negative
\* (it is kept in a few bits of a tag, lfs_fs_preporphans).
TypeOK ==
    /\ \A p \in Range(List(disk)) :
          LET m == Fetch(disk, p)
              e == m.node.ents
          IN /\ Cardinality(Halves(m.pair)) = 2
             /\ m.node.ok
             /\ \A i, k \in DOMAIN e : i < k => e[i].name < e[k].name
    /\ g.state.orphans \in Nat /\ g.pending.orphans \in Nat
    /\ taken \subseteq Blocks
    /\ ops \in 0 .. MaxOps /\ moves \in 0 .. MaxMoves

\* Every operation is atomic: whenever the power fails, a mount finds the tree from
\* before the operation or the one it leads to, never one of its steps, and once it has
\* found the second no repair goes back to the first (README.md: "All POSIX operations,
\* such as remove and rename, are atomic").
Atomic == Abstract!Spec

\* An operation that has returned success is in effect, and what it did not name is
\* as it was.
TakesEffect == Idle => tree = goal

\* When nothing is left to repair, the list holds the directories of the tree and no
\* other, each as its parent names it: the allocator sees every block in use, and
\* none is lost.
ListIsTree ==
    Idle /\ Consistent =>
        LET list == List(disk)
            dirs == Directories(disk, g.state)
        IN /\ \A x \in dirs : \E n \in DOMAIN list : InSync(x.ref, list[n])
           /\ \A n \in DOMAIN list : \E x \in dirs : InSync(x.ref, list[n])

\* The global state in RAM is the one on the device, but for orphans known to be
\* fixed already.
StateIsKept == Idle => LET s == StateOnDisk(disk)
                       IN /\ s.moves = g.state.moves
                          /\ g.state.orphans > 0 => s.orphans = 1

===============================================================================
