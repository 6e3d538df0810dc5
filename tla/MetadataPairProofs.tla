-------------------------- MODULE MetadataPairProofs --------------------------
(***************************************************************************)
(* Proofs about MetadataPair, for any device, any number of commits per    *)
(* block, any revision width and any wear leveling period, and for callers *)
(* that fetch the directory again after an error (KeepHandle = FALSE).     *)
(***************************************************************************)
EXTENDS MetadataPair, SequenceTheorems, TLAPS

-------------------------------------------------------------------------------
(* Revisions. *)

\* lfs_scmp orders two revisions in one way at most.
LEMMA NewerAsymmetric ==
    ASSUME NEW a \in Rev, NEW b \in Rev, Newer(a, b)
    PROVE  ~Newer(b, a)
BY RevAssumption DEF Rev, Newer, RevDistance

\* The next revision is a revision, and newer.
LEMMA NextRevNewer ==
    ASSUME NEW r \in Rev
    PROVE  NextRev(r) \in Rev /\ Newer(NextRev(r), r)
BY RevAssumption DEF Rev, NextRev, Newer, RevDistance

\* So is the one a new directory's first compaction uses (lfs_dir_alloc).
LEMMA FirstRevNewer ==
    ASSUME NEW r \in Rev
    PROVE  EvenRev(r) \in Rev /\ NextRev(EvenRev(r)) \in Rev /\ Newer(NextRev(EvenRev(r)), r)
BY RevAssumption DEF Rev, EvenRev, NextRev, Newer, RevDistance

-------------------------------------------------------------------------------
(* The fetch. *)

\* A linked pair is not the empty tuple.
LEMMA PairNotEmpty ==
    ASSUME NEW p \in Pair
    PROVE  /\ p # <<>>
           /\ p = <<p[1], p[2]>>
           /\ p[1] \in Blocks /\ p[2] \in Blocks
           /\ InPair(p) = {p[1], p[2]}
BY DEF Pair, InPair

\* A block that wins is the one the fetch takes, in whichever order the pair is read.
LEMMA FetchTakesWinner ==
    ASSUME NEW d \in [Blocks -> Block], NEW a \in Blocks, NEW b \in Blocks, Wins(d, a, b)
    PROVE  /\ a # b
           /\ Current(d, <<a, b>>) = <<a, b>>
           /\ Current(d, <<b, a>>) = <<a, b>>
<1>1. d[a].rev \in Rev /\ d[b].rev \in Rev
  BY DEF Block
<1>2. a # b
  BY DEF Wins, Newer
<1>3. CASE HasCommit(d, b)
  <2>1. Newer(d[a].rev, d[b].rev) /\ ~Newer(d[b].rev, d[a].rev)
    BY <1>1, <1>3, NewerAsymmetric DEF Wins
  <2> QED
    BY <2>1, <1>2 DEF Current, Order, Swap, Wins
<1>4. CASE ~HasCommit(d, b)
  BY <1>4, <1>2 DEF Current, Order, Swap, Wins
<1> QED
  BY <1>2, <1>3, <1>4

-------------------------------------------------------------------------------
(* The log of a block. *)

LEMMA LogIsSeq == Log = {s \in Seq(Value) : Len(s) <= LogMax}
<1>1. ASSUME NEW s \in Log
      PROVE  s \in Seq(Value) /\ Len(s) <= LogMax
  <2>1. PICK n \in 0 .. LogMax : s \in [1 .. n -> Value]
    BY DEF Log
  <2>2. n \in Nat /\ n <= LogMax
    BY LogAssumption
  <2>3. s \in Seq(Value) /\ Len(s) = n
    BY <2>1, <2>2, SeqDef, LenProperties
  <2> QED
    BY <2>2, <2>3
<1>2. ASSUME NEW s \in Seq(Value), Len(s) <= LogMax
      PROVE  s \in Log
  <2>1. Len(s) \in 0 .. LogMax /\ s \in [1 .. Len(s) -> Value]
    BY <1>2, LenProperties, LogAssumption
  <2> QED
    BY <2>1 DEF Log
<1> QED
  BY <1>1, <1>2

\* What a commit appended at the end of the log does to it.
LEMMA AppendToLog ==
    ASSUME NEW log \in Log, NEW v \in Value
    PROVE  /\ Len(log) \in 0 .. LogMax
           /\ log # <<>> => Len(log) > 0 /\ Last(log) \in Value
           /\ SubSeq(log, 1, Len(log)) = log
           /\ Append(log, v) # <<>>
           /\ Len(Append(log, v)) = Len(log) + 1
           /\ Last(Append(log, v)) = v
           /\ Len(log) < LogMax => Append(log, v) \in Log
<1>1. log \in Seq(Value) /\ Len(log) \in Nat /\ Len(log) <= LogMax
  BY LogIsSeq, LenProperties
<1>2. Append(log, v) \in Seq(Value) /\ Len(Append(log, v)) = Len(log) + 1
  BY <1>1
<1>3. Append(log, v)[Len(log) + 1] = v
  BY <1>1
<1>4. SubSeq(log, 1, Len(log)) = log
  BY <1>1
<1>5. log # <<>> => Len(log) > 0 /\ log[Len(log)] \in Value
  BY <1>1, EmptySeq
<1>6. Append(log, v) # <<>>
  BY <1>1, <1>2, EmptySeq
<1> QED
  BY <1>1, <1>2, <1>3, <1>4, <1>5, <1>6, LogIsSeq, LogAssumption DEF Last

\* The log a compaction writes.
LEMMA CompactedLog ==
    ASSUME NEW v \in Value
    PROVE  <<v>> \in Log /\ <<v>> # <<>> /\ Len(<<v>>) = 1 /\ Last(<<v>>) = v
BY LogIsSeq, LogAssumption DEF Last

LEMMA EmptyLog == <<>> \in Log
BY LogIsSeq, LogAssumption

-------------------------------------------------------------------------------
(* What a fetch of a sound pair gives. *)

\* One half of the pair p is current.
SoundOn(d, p) == Wins(d, p[1], p[2]) \/ Wins(d, p[2], p[1])

LEMMA FetchOfSound ==
    ASSUME NEW d \in [Blocks -> Block], NEW p \in Pair, NEW q \in {p, Swap(p)},
           Wins(d, q[1], q[2])
    PROVE  /\ Current(d, p) = q
           /\ Current(d, Swap(p)) = q
           /\ q \in Pair /\ q[1] # q[2]
           /\ Fetch(d, p).pair = q
           /\ Fetch(d, p).rev = d[q[1]].rev
           /\ Fetch(d, p).off = Len(d[q[1]].log)
           /\ Fetch(d, p).erased <=> d[q[1]].tail # "garbage"
           /\ Fetch(d, p) \in Mdir
           /\ Fetch(d, Swap(p)) = Fetch(d, p)
           /\ ContentAt(d, p) = Last(d[q[1]].log)
           /\ ContentAt(d, p) \in Value
<1>1. /\ p = <<p[1], p[2]>> /\ p[1] \in Blocks /\ p[2] \in Blocks
      /\ Swap(p) = <<p[2], p[1]>> /\ Swap(p) \in Pair
  BY PairNotEmpty DEF Swap, Pair
<1>2. q = <<q[1], q[2]>> /\ q[1] \in Blocks /\ q[2] \in Blocks /\ q \in Pair
  BY <1>1, PairNotEmpty
<1>3. p \in {<<q[1], q[2]>>, <<q[2], q[1]>>} /\ Swap(p) \in {<<q[1], q[2]>>, <<q[2], q[1]>>}
  BY <1>1, <1>2 DEF Swap
<1>4. Current(d, p) = q /\ Current(d, Swap(p)) = q /\ q[1] # q[2]
  <2>1. /\ q[1] # q[2]
        /\ Current(d, <<q[1], q[2]>>) = <<q[1], q[2]>>
        /\ Current(d, <<q[2], q[1]>>) = <<q[1], q[2]>>
    BY <1>2, FetchTakesWinner
  <2> QED
    BY <2>1, <1>2, <1>3
<1>5. /\ d[q[1]].rev \in Rev /\ d[q[1]].log \in Log /\ d[q[1]].log # <<>>
  BY <1>2 DEF Block, Wins, HasCommit
<1>6. Len(d[q[1]].log) \in 0 .. LogMax /\ Last(d[q[1]].log) \in Value
  <2>1. PICK v : v \in Value
    BY <1>5, LogIsSeq, EmptySeq
  <2> QED
    BY <2>1, <1>5, AppendToLog
<1>7. Fetch(d, p) = [pair |-> q, rev |-> d[q[1]].rev, off |-> Len(d[q[1]].log),
                     erased |-> d[q[1]].tail # "garbage"]
  BY <1>4 DEF Fetch
<1>8. Fetch(d, Swap(p)) = Fetch(d, p)
  BY <1>4 DEF Fetch
<1>9. Fetch(d, p) \in Mdir
  BY <1>2, <1>5, <1>6, <1>7 DEF Mdir
<1>11. /\ Fetch(d, p).pair = q /\ Fetch(d, p).rev = d[q[1]].rev
       /\ Fetch(d, p).off = Len(d[q[1]].log)
  BY <1>7
<1>12. Fetch(d, p).erased <=> d[q[1]].tail # "garbage"
  BY <1>4 DEF Fetch
<1>10. ContentAt(d, p) = Last(d[q[1]].log)
  BY <1>4, <1>5 DEF ContentAt, Last
<1> QED
  BY <1>2, <1>4, <1>6, <1>8, <1>9, <1>10, <1>11, <1>12

LEMMA SoundHasWinner ==
    ASSUME NEW d, NEW p \in Pair, SoundOn(d, p)
    PROVE  \E q \in {p, Swap(p)} : Wins(d, q[1], q[2])
BY DEF SoundOn, Swap

\* Freeing the other blocks does not touch the pair.
LEMMA KeptPair ==
    ASSUME NEW d \in [Blocks -> Block], NEW p \in Pair
    PROVE  /\ Kept(d, p) \in [Blocks -> Block]
           /\ Kept(d, p)[p[1]] = d[p[1]]
           /\ Kept(d, p)[p[2]] = d[p[2]]
           /\ SoundOn(d, p) => SoundOn(Kept(d, p), p)
           /\ ContentAt(Kept(d, p), p) = ContentAt(d, p)
<1>1. Blank \in Block
  BY EmptyLog, RevAssumption DEF Blank, Block, Rev, TailState
<1>2. p # <<>> /\ p[1] \in Blocks /\ p[2] \in Blocks /\ InPair(p) = {p[1], p[2]}
  BY PairNotEmpty
<1>3. Kept(d, p) = [b \in Blocks |-> IF b \in {p[1], p[2]} THEN d[b] ELSE Blank]
  BY <1>2 DEF Kept
<1>4. /\ Kept(d, p) \in [Blocks -> Block]
      /\ Kept(d, p)[p[1]] = d[p[1]] /\ Kept(d, p)[p[2]] = d[p[2]]
  BY <1>1, <1>2, <1>3
<1>5. SoundOn(d, p) => SoundOn(Kept(d, p), p)
  BY <1>4 DEF SoundOn, Wins, HasCommit
<1>6. ContentAt(Kept(d, p), p) = ContentAt(d, p)
  BY <1>4 DEF ContentAt, Current, Order, Swap, HasCommit
<1> QED
  BY <1>4, <1>5, <1>6

-------------------------------------------------------------------------------
(* The content that can be found in the middle of a commit. *)

\* Of two halves, one intact and the other older, void or new, one is current.
LEMMA HalvesSound ==
    ASSUME NEW d \in [Blocks -> Block], NEW p \in Pair, NEW c \in Blocks, NEW o \in Blocks,
           NEW r \in Rev, NEW t \in Value,
           p \in {<<c, o>>, <<o, c>>}, HasCommit(d, c), Newer(r, d[c].rev),
           Wins(d, c, o) \/ (d[o].log = <<t>> /\ d[o].rev = r)
    PROVE  /\ SoundOn(d, p)
           /\ ContentAt(d, p) \in {Last(d[c].log), t}
<1>1. CASE Wins(d, c, o)
  <2>1. <<c, o>> \in {p, Swap(p)}
    BY DEF Swap
  <2>2. ContentAt(d, p) = Last(d[c].log)
    <3> DEFINE q == <<c, o>>
    <3>1. q \in {p, Swap(p)} /\ Wins(d, q[1], q[2]) /\ q[1] = c
      BY <1>1, <2>1
    <3> HIDE DEF q
    <3> QED
      BY <3>1, FetchOfSound
  <2> QED
    BY <1>1, <2>2 DEF SoundOn
<1>2. CASE d[o].log = <<t>> /\ d[o].rev = r
  <2>1. Wins(d, o, c) /\ Last(d[o].log) = t
    BY <1>2, CompactedLog DEF Wins, HasCommit
  <2>2. ContentAt(d, p) = t
    <3> DEFINE q == <<o, c>>
    <3>1. q \in {p, Swap(p)} /\ Wins(d, q[1], q[2]) /\ q[1] = o
      BY <2>1 DEF Swap
    <3> HIDE DEF q
    <3> QED
      BY <3>1, <2>1, FetchOfSound
  <2> QED
    BY <2>1, <2>2 DEF SoundOn
<1> QED
  BY <1>1, <1>2

\* The two halves of the linked pair.
LEMMA LinkedHalves ==
    ASSUME IInv, IsLinked
    PROVE  /\ disk \in [Blocks -> Block]
           /\ ptr \in Pair /\ ptr[1] \in Blocks /\ ptr[2] \in Blocks
           /\ ptr = <<ptr[1], ptr[2]>>
           /\ ptr[1] # ptr[2]
           /\ SoundOn(disk, ptr)
<1>1. disk \in [Blocks -> Block] /\ ptr \in Pair
  BY DEF IInv, TypeOK, IsLinked
<1>2. SoundOn(disk, ptr)
  BY DEF IInv, PairInv, SoundOn
<1>3. ptr = <<ptr[1], ptr[2]>> /\ ptr[1] \in Blocks /\ ptr[2] \in Blocks
  BY <1>1, PairNotEmpty
<1> QED
  BY <1>1, <1>2, <1>3, FetchTakesWinner DEF SoundOn

\* A compaction's current half stays current, or the commit is complete.
LEMMA CompactingSound ==
    ASSUME IInv, IsLinked, Compacting, NEW d \in [Blocks -> Block],
           \A b \in Blocks : b # mdir.pair[2] => d[b] = disk[b],
           d[mdir.pair[2]] = disk[mdir.pair[2]] \/ d[mdir.pair[2]].log = <<>>
    PROVE  SoundOn(d, ptr) /\ ContentAt(d, ptr) \in {known, target}
<1> DEFINE c == mdir.pair[1]
           o == OtherHalf(c)
<1>1. /\ ptr \in Pair /\ ptr[1] \in Blocks /\ ptr[2] \in Blocks
      /\ ptr = <<ptr[1], ptr[2]>> /\ ptr[1] # ptr[2]
      /\ disk \in [Blocks -> Block]
  BY LinkedHalves
<1>2. /\ c \in {ptr[1], ptr[2]} /\ mdir.pair[2] # c /\ HasCommit(disk, c)
      /\ Last(disk[c].log) \in {known, target} /\ mdir.rev = NextRev(disk[c].rev)
      /\ Wins(disk, c, o) \/ (disk[o].log = <<target>> /\ disk[o].rev = mdir.rev)
  BY DEF IInv, CompactInv
<1>3. c \in Blocks /\ o \in Blocks /\ ptr \in {<<c, o>>, <<o, c>>}
  BY <1>1, <1>2 DEF OtherHalf
<1>4. target \in Value
  BY DEF IInv, CallInv, Compacting, Busy
<1>5. d[c] = disk[c] /\ disk[c].rev \in Rev /\ HasCommit(d, c)
  BY <1>1, <1>2, <1>3 DEF Block, HasCommit
<1>6. mdir.rev \in Rev /\ Newer(mdir.rev, d[c].rev)
  BY <1>2, <1>5, NextRevNewer
<1>7. Wins(d, c, o) \/ (d[o].log = <<target>> /\ d[o].rev = mdir.rev)
  <2>1. CASE d[o] = disk[o]
    BY <1>2, <1>5, <2>1 DEF Wins, HasCommit
  <2>2. CASE d[o].log = <<>>
    BY <1>5, <2>2 DEF Wins, HasCommit
  <2> QED
    BY <2>1, <2>2, <1>3
<1> QED
  BY <1>1, <1>2, <1>3, <1>4, <1>5, <1>6, <1>7, HalvesSound

\* What an append that was cut short leaves: the same log, another tail.
LEMMA CutAppendKeepsLog ==
    ASSUME IInv, IsLinked, pc = "append", NEW d \in CutAppend
    PROVE  /\ d \in [Blocks -> Block]
           /\ \A b \in Blocks : d[b].log = disk[b].log /\ d[b].rev = disk[b].rev
           /\ Wins(d, mdir.pair[1], mdir.pair[2])
           /\ Last(d[mdir.pair[1]].log) = known
<1> DEFINE c == mdir.pair[1]
<1>1. disk \in [Blocks -> Block] /\ c \in Blocks /\ mdir.pair[2] \in Blocks
  BY LinkedHalves DEF IInv, HandleInv, Swap
<1>2. /\ Wins(disk, c, mdir.pair[2]) /\ mdir.off = Len(disk[c].log)
      /\ Last(disk[c].log) = known
  BY DEF IInv, HandleInv
<1>3. target \in Value /\ disk[c].log \in Log
  BY <1>1 DEF IInv, CallInv, Busy, Block
<1>4. Prefix(c) = disk[c].log
  BY <1>2, <1>3, AppendToLog DEF Prefix
<1>5. PICK t \in {"torn", "garbage"} :
        d = disk \/ d = [disk EXCEPT ![c].log = disk[c].log,
                                    ![c].tail = IF @ = "garbage" THEN @ ELSE t]
  BY <1>4 DEF CutAppend
<1>6. d \in [Blocks -> Block]
  BY <1>1, <1>3, <1>5 DEF Block, TailState
<1>7. \A b \in Blocks : d[b].log = disk[b].log /\ d[b].rev = disk[b].rev
  BY <1>1, <1>5 DEF Block
<1> QED
  BY <1>1, <1>2, <1>6, <1>7 DEF Wins, HasCommit

\* What an erase leaves: any revision, no commit, and the other blocks as they were.
LEMMA WipedBlock ==
    ASSUME TypeOK, mdir \in Mdir, NEW d \in Wiped(mdir.pair[2])
    PROVE  /\ d \in [Blocks -> Block]
           /\ d[mdir.pair[2]].log = <<>>
           /\ \A b \in Blocks : b # mdir.pair[2] => d[b] = disk[b]
<1>1. /\ disk \in [Blocks -> Block] /\ mdir.pair[2] \in Blocks
      /\ mdir.rev \in Rev /\ GarbageRev \subseteq Rev
  BY RevAssumption DEF TypeOK, Mdir, Pair, Rev
<1>2. PICK r \in Rev :
        d = [disk EXCEPT ![mdir.pair[2]] = [rev |-> r, log |-> <<>>, tail |-> "garbage"]]
  BY <1>1 DEF Wiped
<1> QED
  BY <1>1, <1>2, EmptyLog DEF Block, TailState

\* Wherever a call is cut short, the pair is sound and holds the content from
\* before or the content of the commit.
LEMMA InterruptedSound ==
    ASSUME IInv, pc \notin {"off", "absent"}, NEW d \in Interrupted
    PROVE  /\ d \in [Blocks -> Block]
           /\ IsLinked => /\ SoundOn(d, ptr)
                          /\ ContentAt(d, ptr) \in {known, target}
                          /\ pc = "idle" => ContentAt(d, ptr) = known
<1>1. mdir \in Mdir /\ disk \in [Blocks -> Block]
  BY DEF IInv, CallInv, TypeOK
<1>2. mdir.pair[1] \in Blocks /\ mdir.pair[2] \in Blocks
  BY <1>1 DEF Mdir, Pair
<1>3. d \in [Blocks -> Block]
  <2>1. CASE pc = "append"
    <3>1. IsLinked
      BY <2>1 DEF IInv, NewPairInv
    <3> QED
      BY <3>1, <2>1, CutAppendKeepsLog DEF Interrupted
  <2>2. CASE pc = "erase"
    BY <1>1, <2>2, WipedBlock DEF Interrupted, IInv
  <2>3. CASE pc \notin {"append", "erase"}
    BY <1>1, <2>3 DEF Interrupted
  <2> QED
    BY <2>1, <2>2, <2>3
<1>4. ASSUME IsLinked
      PROVE  /\ SoundOn(d, ptr)
             /\ ContentAt(d, ptr) \in {known, target}
             /\ pc = "idle" => ContentAt(d, ptr) = known
  <2>1. /\ ptr \in Pair /\ ptr[1] \in Blocks /\ ptr[2] \in Blocks
        /\ ptr = <<ptr[1], ptr[2]>> /\ SoundOn(disk, ptr)
    BY <1>4, LinkedHalves
  <2>2. CASE pc \in {"idle", "append", "verify", "compact"}
    <3> DEFINE q == mdir.pair
    <3>1. /\ q \in {ptr, Swap(ptr)} /\ Wins(disk, q[1], q[2])
          /\ pc \in {"idle", "append"} => Last(disk[q[1]].log) = known
          /\ Last(disk[q[1]].log) \in {known, target}
      BY <1>4, <2>2 DEF IInv, HandleInv
    <3>2. /\ Wins(d, q[1], q[2])
          /\ pc \in {"idle", "append"} => Last(d[q[1]].log) = known
          /\ Last(d[q[1]].log) \in {known, target}
      <4>1. CASE pc = "append"
        BY <1>4, <4>1, CutAppendKeepsLog DEF Interrupted
      <4>2. CASE pc # "append"
        BY <2>2, <3>1, <4>2 DEF Interrupted
      <4> QED
        BY <4>1, <4>2
    <3>3. ContentAt(d, ptr) = Last(d[q[1]].log)
      <4> HIDE DEF q
      <4> QED
        BY <1>3, <2>1, <3>1, <3>2, FetchOfSound
    <3>4. SoundOn(d, ptr)
      BY <2>1, <3>1, <3>2 DEF SoundOn, Swap
    <3> QED
      BY <3>2, <3>3, <3>4
  <2>3. CASE Compacting
    <3>1. \A b \in Blocks : b # mdir.pair[2] => d[b] = disk[b]
      BY <1>1, <2>3, WipedBlock DEF Interrupted, Compacting, IInv
    <3>2. d[mdir.pair[2]] = disk[mdir.pair[2]] \/ d[mdir.pair[2]].log = <<>>
      BY <1>1, <2>3, WipedBlock DEF Interrupted, Compacting, IInv
    <3> QED
      BY <1>3, <1>4, <2>3, <3>1, <3>2, CompactingSound DEF Compacting
  <2>4. CASE pc = "link"
    BY <1>4, <2>1, <2>4 DEF Interrupted, IInv, LinkInv, Recovered
  <2> QED
    BY <2>2, <2>3, <2>4 DEF IInv, TypeOK, CallInv, Compacting, Resting, Busy
<1> QED
  BY <1>3, <1>4

-------------------------------------------------------------------------------
(* The invariant holds at first and is kept by every action. *)

LEMMA InitInv == Init => IInv
<1> SUFFICES ASSUME Init
             PROVE  IInv
  OBVIOUS
<1>1. /\ disk \in [Blocks -> Block] /\ pc \in {"absent", "off"} /\ bad = {} /\ mdir = <<>>
      /\ target = NoValue /\ moved = "no" /\ taken = {} /\ known = Recovered
  BY DEF Init
<1>2. CASE pc = "absent"
  <2>1. ptr = <<>> /\ known = NoValue
    BY <1>1, <1>2 DEF Init, Recovered, IsLinked
  <2>2. TypeOK
    BY <1>1, <1>2, <2>1 DEF TypeOK, Resting
  <2> QED
    BY <1>2, <2>1, <2>2 DEF IInv, CallInv, PairInv, NewPairInv, HandleInv, CompactInv,
       CheckInv, LinkInv, Compacting, IsLinked, Busy
<1>3. CASE pc = "off"
  <2>1. ptr \in Pair /\ Wins(disk, ptr[1], ptr[2])
    BY <1>3, BlocksAssumption DEF Init, Pair
  <2>2. ptr \in {ptr, Swap(ptr)} /\ IsLinked
    BY <2>1, PairNotEmpty DEF IsLinked
  <2>3. known \in Value
    BY <1>1, <2>1, <2>2, FetchOfSound DEF Recovered
  <2>4. TypeOK
    BY <1>1, <1>3, <2>1, <2>3 DEF TypeOK, Resting
  <2> QED
    BY <1>3, <2>1, <2>2, <2>4 DEF IInv, CallInv, PairInv, NewPairInv, HandleInv, CompactInv,
       CheckInv, LinkInv, Compacting, Busy
<1> QED
  BY <1>1, <1>2, <1>3

\* A directory that has just been fetched satisfies the invariant.
LEMMA FetchedInv ==
    ASSUME disk' \in [Blocks -> Block], ptr' \in Pair, SoundOn(disk', ptr'),
           mdir' = Fetch(disk', ptr'), known' = ContentAt(disk', ptr'), pc' = "idle",
           bad' \subseteq Blocks, taken' \subseteq Blocks,
           target' \in Value \union {NoValue}, moved' \in {"no", "bad", "worn"}
    PROVE  IInv'
<1>1. PICK q \in {ptr', Swap(ptr')} : Wins(disk', q[1], q[2])
  BY SoundHasWinner
<1>2. /\ mdir'.pair = q /\ mdir'.rev = disk'[q[1]].rev /\ mdir'.off = Len(disk'[q[1]].log)
      /\ mdir'.erased <=> disk'[q[1]].tail # "garbage"
      /\ mdir' \in Mdir
      /\ known' = Last(disk'[q[1]].log)
      /\ known' \in Value
  BY <1>1, FetchOfSound
<1>3. IsLinked'
  BY PairNotEmpty DEF IsLinked
<1>4. TypeOK'
  BY <1>2 DEF TypeOK, Resting
<1>5. CallInv'
  BY <1>2, <1>3 DEF CallInv, Busy
<1>6. PairInv'
  BY DEF PairInv, SoundOn
<1>7. HandleInv'
  BY <1>1, <1>2 DEF HandleInv
<1> QED
  BY <1>3, <1>4, <1>5, <1>6, <1>7
     DEF IInv, NewPairInv, CompactInv, CheckInv, LinkInv, Compacting

LEMMA AllocInv == IInv /\ Alloc => IInv'
<1> SUFFICES ASSUME IInv, Alloc
             PROVE  IInv'
  OBVIOUS
<1>1. ~IsLinked /\ ~IsLinked' /\ TypeOK /\ pc' = "idle"
  BY DEF IInv, CallInv, Alloc, IsLinked
<1>2. PICK b0 \in Blocks, b1 \in Blocks :
        /\ b0 # b1
        /\ mdir' = [pair |-> <<b0, b1>>, rev |-> EvenRev(disk[b0].rev),
                    off |-> 0, erased |-> FALSE]
        /\ taken' = {b0, b1}
  BY DEF Alloc
<1>3. EvenRev(disk[b0].rev) \in Rev
  BY <1>1, FirstRevNewer DEF TypeOK, Block
<1>4. mdir' \in Mdir
  BY <1>2, <1>3, LogAssumption DEF Mdir, Pair
<1>5. TypeOK'
  BY <1>1, <1>2, <1>4 DEF TypeOK, Alloc, Resting
<1>6. CallInv'
  BY <1>1, <1>4 DEF CallInv, Alloc, Busy, IInv
<1>7. NewPairInv'
  BY <1>1, <1>2 DEF NewPairInv, Alloc, Compacting
<1> QED
  BY <1>1, <1>5, <1>6, <1>7
     DEF IInv, PairInv, HandleInv, CompactInv, CheckInv, LinkInv, Compacting

LEMMA CommitInv ==
    ASSUME IInv, NEW v \in Value, NEW crowded \in BOOLEAN, NEW ack \in BOOLEAN,
           Commit(v, crowded, ack)
    PROVE  IInv'
<1>1. /\ pc = "idle" /\ pc' \in {"append", "compact"} /\ target' = v /\ moved' = "no"
      /\ UNCHANGED <<disk, bad, ptr, mdir, known>>
      /\ pc' = "append" => mdir.erased \/ mdir.off > 0
  BY DEF Commit, IInv, CallInv
<1>2. (IsLinked' <=> IsLinked) /\ (ack => IsLinked)
  BY <1>1 DEF IsLinked, Commit
<1>3. TypeOK'
  BY <1>1 DEF IInv, TypeOK, Commit, Busy
<1>4. CallInv'
  BY <1>1, <1>2 DEF IInv, CallInv
<1>5. PairInv'
  BY <1>1, <1>2 DEF IInv, PairInv
<1>6. NewPairInv'
  BY <1>1, <1>2 DEF IInv, NewPairInv, Commit, Compacting
<1>7. HandleInv'
  BY <1>1, <1>2 DEF IInv, HandleInv
<1> QED
  BY <1>1, <1>3, <1>4, <1>5, <1>6, <1>7 DEF IInv, CompactInv, CheckInv, LinkInv, Compacting

\* Only a linked directory is appended to.
LEMMA AppendLinked == IInv /\ pc \in {"append", "verify"} => IsLinked
BY DEF IInv, NewPairInv

LEMMA CutAppendInv == IInv /\ (AppendNoSpace \/ AppendCorrupt) => IInv'
<1> SUFFICES ASSUME IInv, AppendNoSpace \/ AppendCorrupt
             PROVE  IInv'
  OBVIOUS
<1>1. /\ pc = "append" /\ pc' = "compact" /\ disk' \in CutAppend
      /\ UNCHANGED <<bad, ptr, mdir, target, moved, taken, known>>
  BY DEF AppendNoSpace, AppendCorrupt
<1>2. IsLinked /\ IsLinked'
  BY <1>1, AppendLinked DEF IsLinked
<1>3. /\ disk' \in [Blocks -> Block]
      /\ \A b \in Blocks : disk'[b].log = disk[b].log /\ disk'[b].rev = disk[b].rev
      /\ Wins(disk', mdir.pair[1], mdir.pair[2])
      /\ Last(disk'[mdir.pair[1]].log) = known
  BY <1>1, <1>2, CutAppendKeepsLog
<1>4. /\ mdir.pair \in {ptr, Swap(ptr)} /\ mdir.rev = disk[mdir.pair[1]].rev
      /\ mdir.pair[1] \in Blocks
  BY <1>1, <1>2, LinkedHalves DEF IInv, HandleInv, Swap
<1>5. TypeOK'
  BY <1>1, <1>3 DEF IInv, TypeOK, Busy
<1>6. CallInv'
  BY <1>1, <1>2 DEF IInv, CallInv, Busy
<1>7. PairInv'
  BY <1>1, <1>3, <1>4 DEF PairInv, Swap
<1>8. HandleInv'
  BY <1>1, <1>3, <1>4 DEF HandleInv
<1> QED
  BY <1>1, <1>2, <1>5, <1>6, <1>7, <1>8
     DEF IInv, NewPairInv, CompactInv, CheckInv, LinkInv, Compacting

LEMMA AppendProgInv == IInv /\ AppendProg => IInv'
<1> SUFFICES ASSUME IInv, AppendProg
             PROVE  IInv'
  OBVIOUS
<1> DEFINE c == mdir.pair[1]
<1>1. /\ pc = "append" /\ pc' = "verify" /\ mdir.off < LogMax
      /\ disk' = [disk EXCEPT ![c].log = Append(Prefix(c), target),
                              ![c].tail = IF @ = "erased" THEN @ ELSE "torn"]
      /\ UNCHANGED <<bad, ptr, mdir, target, moved, taken, known>>
  BY DEF AppendProg
<1>2. IsLinked /\ IsLinked'
  BY <1>1, AppendLinked DEF IsLinked
<1>3. /\ mdir.pair \in {ptr, Swap(ptr)} /\ mdir.rev = disk[c].rev
      /\ Wins(disk, c, mdir.pair[2]) /\ mdir.off = Len(disk[c].log)
  BY <1>1, <1>2 DEF IInv, HandleInv
<1>4. /\ disk \in [Blocks -> Block] /\ c \in Blocks /\ mdir.pair[2] \in Blocks
      /\ c # mdir.pair[2] /\ disk[c].log \in Log /\ target \in Value
  BY <1>1, <1>2, <1>3, LinkedHalves DEF Swap, Block, IInv, CallInv, Busy
<1>5. Prefix(c) = disk[c].log
  BY <1>3, <1>4, AppendToLog DEF Prefix
<1>6. /\ Append(disk[c].log, target) \in Log /\ Append(disk[c].log, target) # <<>>
      /\ Len(Append(disk[c].log, target)) = mdir.off + 1
      /\ Last(Append(disk[c].log, target)) = target
  BY <1>1, <1>3, <1>4, AppendToLog
<1>7. /\ disk' \in [Blocks -> Block]
      /\ disk'[c].log = Append(disk[c].log, target) /\ disk'[c].rev = disk[c].rev
      /\ disk'[c].tail # "garbage"
      /\ disk'[mdir.pair[2]] = disk[mdir.pair[2]]
  BY ZenonT(60), <1>1, <1>4, <1>5, <1>6 DEF Block, TailState
<1>8. Wins(disk', c, mdir.pair[2])
  BY <1>3, <1>6, <1>7 DEF Wins, HasCommit
<1>9. TypeOK'
  BY <1>1, <1>7 DEF IInv, TypeOK, Busy
<1>10. CallInv'
  BY <1>1, <1>2 DEF IInv, CallInv, Busy
<1>11. PairInv'
  BY <1>1, <1>3, <1>8 DEF PairInv, Swap
<1>12. HandleInv'
  BY <1>1, <1>3, <1>6, <1>7, <1>8 DEF HandleInv
<1> QED
  BY <1>1, <1>2, <1>9, <1>10, <1>11, <1>12
     DEF IInv, NewPairInv, CompactInv, CheckInv, LinkInv, Compacting

LEMMA AppendEndInv == IInv /\ (AppendDone \/ AppendReject) => IInv'
<1> SUFFICES ASSUME IInv, AppendDone \/ AppendReject
             PROVE  IInv'
  OBVIOUS
<1> DEFINE c == mdir.pair[1]
<1>1. /\ pc = "verify" /\ UNCHANGED <<disk, bad, ptr, taken>>
      /\ \/ /\ pc' = "idle" /\ mdir' = [mdir EXCEPT !.off = @ + 1]
            /\ known' = target /\ target' = NoValue /\ moved' = "no"
         \/ /\ pc' = "compact" /\ UNCHANGED <<mdir, target, moved, known>>
  BY DEF AppendDone, AppendReject, Return
<1>2. IsLinked /\ IsLinked'
  BY <1>1, AppendLinked DEF IsLinked
<1>3. /\ mdir.pair \in {ptr, Swap(ptr)} /\ mdir.rev = disk[c].rev
      /\ Wins(disk, c, mdir.pair[2]) /\ mdir.off + 1 = Len(disk[c].log)
      /\ Last(disk[c].log) = target
      /\ mdir.erased => disk[c].tail # "garbage"
  BY <1>1, <1>2 DEF IInv, HandleInv
<1>4. /\ mdir \in Mdir /\ target \in Value /\ disk[c].log \in Log
  BY <1>1, <1>2, <1>3, LinkedHalves DEF Swap, Block, IInv, CallInv, Busy
<1>5. mdir.off + 1 \in 0 .. LogMax
  BY <1>3, <1>4, AppendToLog
<1>6. mdir' \in Mdir /\ mdir'.pair = mdir.pair /\ mdir'.rev = mdir.rev
      /\ mdir'.erased = mdir.erased /\ (pc' = "idle" => mdir'.off = mdir.off + 1)
  BY <1>1, <1>4, <1>5 DEF Mdir
<1>7. TypeOK'
  BY <1>1, <1>4, <1>6 DEF IInv, TypeOK, Busy, Resting
<1>8. CallInv'
  BY <1>1, <1>2, <1>6 DEF IInv, CallInv, Busy
<1>9. PairInv'
  BY <1>1, <1>2 DEF IInv, PairInv
<1>10. HandleInv'
  BY <1>1, <1>3, <1>6 DEF HandleInv
<1> QED
  BY <1>1, <1>2, <1>7, <1>8, <1>9, <1>10
     DEF IInv, NewPairInv, CompactInv, CheckInv, LinkInv, Compacting

LEMMA CompactStartInv == IInv /\ CompactStart => IInv'
<1> SUFFICES ASSUME IInv, CompactStart
             PROVE  IInv'
  OBVIOUS
<1> DEFINE c == mdir.pair[1]
<1>1. /\ pc = "compact" /\ pc' \in {"erase", "relocate"} /\ moved' \in {"no", "worn"}
      /\ moved' = "no" => pc' = "erase"
      /\ mdir' = [mdir EXCEPT !.rev = NextRev(mdir.rev)]
      /\ UNCHANGED <<disk, bad, ptr, target, taken, known>>
  BY DEF CompactStart
<1>2. mdir \in Mdir /\ disk \in [Blocks -> Block] /\ target \in Value
  BY <1>1 DEF IInv, CallInv, Busy, TypeOK
<1>3. /\ mdir' \in Mdir /\ mdir'.pair = mdir.pair /\ mdir'.rev = NextRev(mdir.rev)
      /\ mdir'.off = mdir.off /\ mdir'.erased = mdir.erased
      /\ c \in Blocks /\ disk[c].rev \in Rev
  BY <1>1, <1>2, NextRevNewer DEF Mdir, Pair, Block
<1>4. TypeOK'
  BY <1>1, <1>3 DEF IInv, TypeOK, Busy
<1>5. CallInv'
  BY <1>1, <1>3 DEF IInv, CallInv, Busy, IsLinked
<1>6. PairInv'
  BY <1>1 DEF IInv, PairInv, IsLinked
<1>7. CASE ~IsLinked
  <2>1. mdir.rev = EvenRev(disk[c].rev)
    BY <1>1, <1>7 DEF IInv, NewPairInv
  <2>2. Newer(mdir'.rev, disk[c].rev)
    BY <1>3, <2>1, FirstRevNewer
  <2>3. NewPairInv'
    BY <1>1, <1>3, <1>7, <2>2 DEF IInv, NewPairInv, IsLinked
  <2> QED
    BY <1>1, <1>4, <1>5, <1>6, <1>7, <2>3
       DEF IInv, HandleInv, CompactInv, CheckInv, LinkInv, IsLinked
<1>8. CASE IsLinked
  <2>1. /\ mdir.pair \in {ptr, Swap(ptr)} /\ mdir.rev = disk[c].rev
        /\ Wins(disk, c, mdir.pair[2]) /\ Last(disk[c].log) \in {known, target}
    BY <1>1, <1>8 DEF IInv, HandleInv
  <2>2. /\ ptr \in Pair /\ ptr[1] # ptr[2]
    BY <1>8, LinkedHalves
  <2>3. /\ c \in {ptr[1], ptr[2]} /\ mdir.pair[2] = OtherHalf(c) /\ mdir.pair[2] # c
    BY <2>1, <2>2 DEF OtherHalf, Swap
  <2>4. CompactInv'
    BY <1>1, <1>3, <2>1, <2>3 DEF CompactInv, OtherHalf, Wins
  <2> QED
    BY <1>1, <1>4, <1>5, <1>6, <1>8, <2>4
       DEF IInv, NewPairInv, HandleInv, CheckInv, LinkInv, IsLinked
<1> QED
  BY <1>7, <1>8

\* What the compaction relies on, whether the pair is new or linked.
LEMMA CompactingFacts ==
    ASSUME IInv, Compacting
    PROVE  /\ mdir \in Mdir /\ disk \in [Blocks -> Block] /\ target \in Value
           /\ mdir.pair[1] \in Blocks /\ mdir.pair[2] \in Blocks
           /\ mdir.pair[1] # mdir.pair[2]
           /\ mdir.rev \in Rev /\ disk[mdir.pair[1]].rev \in Rev
           /\ Newer(mdir.rev, disk[mdir.pair[1]].rev)
<1>1. mdir \in Mdir /\ disk \in [Blocks -> Block] /\ target \in Value
  BY DEF IInv, CallInv, TypeOK, Compacting, Busy
<1>2. /\ mdir.pair[1] \in Blocks /\ mdir.pair[2] \in Blocks
      /\ mdir.rev \in Rev /\ disk[mdir.pair[1]].rev \in Rev
  BY <1>1 DEF Mdir, Pair, Block
<1>3. CASE IsLinked
  BY <1>1, <1>2, <1>3, NextRevNewer DEF IInv, CompactInv
<1>4. CASE ~IsLinked
  BY <1>1, <1>2, <1>4 DEF IInv, NewPairInv, Compacting
<1> QED
  BY <1>1, <1>2, <1>3, <1>4

\* A step of the compaction that leaves the handle and the linked pair's current
\* half alone keeps what the compaction relies on.
LEMMA CompactingStep ==
    ASSUME IInv, Compacting, Compacting', disk' \in [Blocks -> Block],
           \A b \in Blocks : b # mdir.pair[2] => disk'[b] = disk[b],
           \/ disk'[mdir.pair[2]] = disk[mdir.pair[2]]
           \/ disk'[mdir.pair[2]].log = <<>>
           \/ disk'[mdir.pair[2]].log = <<target>> /\ disk'[mdir.pair[2]].rev = mdir.rev,
           UNCHANGED <<bad, ptr, mdir, target, taken, known>>,
           moved' \in {"no", "bad", "worn"},
           moved' = "no" => moved = "no" /\ pc' # "relocate"
    PROVE  CheckInv' => IInv'
<1> DEFINE c == mdir.pair[1]
           o == OtherHalf(c)
<1>1. /\ mdir \in Mdir /\ c \in Blocks /\ mdir.pair[2] \in Blocks /\ c # mdir.pair[2]
      /\ disk \in [Blocks -> Block] /\ target \in Value /\ disk'[c] = disk[c]
      /\ disk[c].rev \in Rev
  BY CompactingFacts
<1>2. IsLinked' <=> IsLinked
  BY DEF IsLinked
<1>3. TypeOK'
  BY DEF IInv, TypeOK, Compacting, Busy
<1>4. CallInv'
  BY <1>1, <1>2 DEF IInv, CallInv, Compacting, Busy
<1>5. CASE ~IsLinked
  <2>1. NewPairInv'
    BY <1>1, <1>2, <1>5 DEF IInv, NewPairInv, Compacting
  <2> QED
    BY <1>2, <1>3, <1>4, <1>5, <2>1
       DEF IInv, PairInv, HandleInv, CompactInv, LinkInv, Compacting
<1>6. CASE IsLinked
  <2>1. /\ c \in {ptr[1], ptr[2]} /\ HasCommit(disk, c)
        /\ Last(disk[c].log) \in {known, target} /\ mdir.rev = NextRev(disk[c].rev)
        /\ Wins(disk, c, o) \/ (disk[o].log = <<target>> /\ disk[o].rev = mdir.rev)
        /\ moved = "no" => mdir.pair[2] = o
    BY <1>6 DEF IInv, CompactInv
  <2>2. /\ ptr \in Pair /\ ptr[1] \in Blocks /\ ptr[2] \in Blocks /\ ptr[1] # ptr[2]
        /\ ptr = <<ptr[1], ptr[2]>>
    BY <1>6, LinkedHalves
  <2>3. c \in Blocks /\ o \in Blocks /\ ptr \in {<<c, o>>, <<o, c>>}
    BY <2>1, <2>2 DEF OtherHalf
  <2>4. Wins(disk', c, o) \/ (disk'[o].log = <<target>> /\ disk'[o].rev = mdir.rev)
    <3>1. CASE disk'[o] = disk[o]
      BY <1>1, <2>1, <3>1 DEF Wins, HasCommit
    <3>2. CASE disk'[o].log = <<>>
      BY <1>1, <2>1, <3>2 DEF Wins, HasCommit
    <3> QED
      BY <3>1, <3>2, <2>3
  <2>5. OtherHalf(c)' = o
    BY DEF OtherHalf
  <2>6. CompactInv'
    BY <1>1, <2>1, <2>4, <2>5 DEF CompactInv, HasCommit, Wins
  <2>7. SoundOn(disk', ptr)
    BY <1>1, <2>1, <2>2, <2>3, <2>4, NextRevNewer, HalvesSound DEF HasCommit
  <2>8. PairInv'
    BY <2>7 DEF PairInv, SoundOn
  <2> QED
    BY <1>2, <1>3, <1>4, <1>6, <2>6, <2>8
       DEF IInv, NewPairInv, HandleInv, LinkInv, Compacting
<1> QED
  BY <1>5, <1>6

LEMMA EraseInv == IInv /\ Erase => IInv'
<1> SUFFICES ASSUME IInv, Erase
             PROVE  IInv'
  OBVIOUS
<1>1. /\ pc = "erase" /\ pc' \in {"prog", "relocate"}
      /\ disk' = disk \/ disk' \in Wiped(mdir.pair[2])
      /\ UNCHANGED <<bad, ptr, mdir, target, taken, known>>
      /\ (moved' = moved /\ pc' = "prog") \/ moved' \in {"worn", "bad"}
  BY DEF Erase, NowRelocate
<1>2. Compacting /\ Compacting' /\ TypeOK /\ mdir \in Mdir
  BY <1>1, CompactingFacts DEF Compacting, IInv
<1>3. /\ disk' \in [Blocks -> Block]
      /\ \A b \in Blocks : b # mdir.pair[2] => disk'[b] = disk[b]
      /\ disk'[mdir.pair[2]] = disk[mdir.pair[2]] \/ disk'[mdir.pair[2]].log = <<>>
  BY <1>1, <1>2, WipedBlock DEF TypeOK
<1>4. moved' \in {"no", "bad", "worn"} /\ (moved' = "no" => moved = "no" /\ pc' # "relocate")
  BY <1>1, <1>2 DEF TypeOK
<1>5. CheckInv'
  BY <1>1 DEF CheckInv
<1> QED
  BY <1>1, <1>2, <1>3, <1>4, <1>5, CompactingStep

LEMMA ProgInv == IInv /\ Prog => IInv'
<1> SUFFICES ASSUME IInv, Prog
             PROVE  IInv'
  OBVIOUS
<1> DEFINE new == mdir.pair[2]
<1>1. /\ pc = "prog" /\ pc' = "check"
      /\ disk' = [disk EXCEPT ![new] = [rev |-> mdir.rev, log |-> <<target>>, tail |-> "erased"]]
      /\ UNCHANGED <<bad, ptr, mdir, target, moved, taken, known>>
  BY DEF Prog
<1>2. Compacting /\ Compacting'
  BY <1>1 DEF Compacting
<1>3. /\ disk \in [Blocks -> Block] /\ new \in Blocks /\ mdir.rev \in Rev /\ target \in Value
  BY <1>2, CompactingFacts
<1>4. [rev |-> mdir.rev, log |-> <<target>>, tail |-> "erased"] \in Block
  BY <1>3, CompactedLog DEF Block, TailState
<1>5. /\ disk' \in [Blocks -> Block]
      /\ \A b \in Blocks : b # new => disk'[b] = disk[b]
      /\ disk'[new] = [rev |-> mdir.rev, log |-> <<target>>, tail |-> "erased"]
  BY <1>1, <1>3, <1>4
<1>6. moved \in {"no", "bad", "worn"}
  BY DEF IInv, TypeOK
<1>7. CheckInv'
  BY <1>1, <1>5 DEF CheckInv
<1> QED
  BY <1>1, <1>2, <1>5, <1>6, <1>7, CompactingStep

LEMMA ProgCorruptInv == IInv /\ ProgCorrupt => IInv'
<1> SUFFICES ASSUME IInv, ProgCorrupt
             PROVE  IInv'
  OBVIOUS
<1>1. /\ pc \in {"prog", "check"} /\ pc' = "relocate" /\ moved' \in {"bad", "worn"}
      /\ UNCHANGED <<disk, bad, ptr, mdir, target, taken, known>>
  BY DEF ProgCorrupt, NowRelocate
<1>2. Compacting /\ Compacting' /\ CheckInv'
  BY <1>1 DEF Compacting, CheckInv
<1>3. disk' \in [Blocks -> Block]
  BY <1>1, <1>2, CompactingFacts
<1> QED
  BY <1>1, <1>2, <1>3, CompactingStep

LEMMA RelocateInv == IInv /\ (Relocate \/ RelocateNoSpace) => IInv'
<1> SUFFICES ASSUME IInv, Relocate \/ RelocateNoSpace
             PROVE  IInv'
  OBVIOUS
<1>1. /\ pc = "relocate" /\ pc' = "erase"
      /\ UNCHANGED <<disk, bad, ptr, target, moved, known>>
  BY DEF Relocate, RelocateNoSpace
<1>2. Compacting /\ Compacting'
  BY <1>1 DEF Compacting
<1>3. CASE RelocateNoSpace
  <2>1. disk' \in [Blocks -> Block] /\ UNCHANGED <<mdir, taken>> /\ CheckInv'
    BY <1>1, <1>2, <1>3, CompactingFacts DEF RelocateNoSpace, CheckInv
  <2>2. moved \in {"no", "bad", "worn"}
    BY DEF IInv, TypeOK
  <2> QED
    BY <1>1, <1>2, <2>1, <2>2, CompactingStep
<1>4. CASE Relocate
  <2>1. PICK b \in Free : mdir' = [mdir EXCEPT !.pair[2] = b] /\ taken' = taken \union {b}
    BY <1>4 DEF Relocate
  <2>2. /\ mdir \in Mdir /\ disk \in [Blocks -> Block] /\ target \in Value
        /\ b \in Blocks /\ b \notin InPair(ptr) /\ b \notin taken
    BY <1>2, CompactingFacts DEF Free
  <2>3. /\ mdir' \in Mdir /\ mdir'.pair[1] = mdir.pair[1] /\ mdir'.pair[2] = b
        /\ mdir'.rev = mdir.rev /\ mdir'.off = mdir.off /\ mdir'.erased = mdir.erased
    BY <2>1, <2>2 DEF Mdir, Pair
  <2>4. TypeOK'
    BY <1>1, <2>1, <2>2, <2>3 DEF IInv, TypeOK, Busy
  <2>5. CallInv' /\ PairInv'
    BY <1>1, <2>3 DEF IInv, CallInv, PairInv, IsLinked, Busy
  <2>6. CASE ~IsLinked
    <3>1. NewPairInv'
      BY <1>1, <1>2, <2>1, <2>2, <2>3, <2>6 DEF IInv, NewPairInv, IsLinked, Compacting
    <3> QED
      BY <1>1, <2>4, <2>5, <2>6, <3>1
         DEF IInv, HandleInv, CompactInv, CheckInv, LinkInv, IsLinked
  <2>7. CASE IsLinked
    <3>1. /\ mdir.pair[1] \in {ptr[1], ptr[2]} /\ moved # "no"
      BY <1>1, <1>2, <2>7 DEF IInv, CompactInv
    <3>2. ptr \in Pair /\ InPair(ptr) = {ptr[1], ptr[2]}
      BY <2>7, LinkedHalves, PairNotEmpty
    <3>3. b # mdir.pair[1]
      BY <2>2, <3>1, <3>2
    <3>4. CompactInv'
      BY <1>1, <1>2, <2>3, <2>7, <3>1, <3>3
         DEF IInv, CompactInv, OtherHalf, Compacting, IsLinked, Wins, HasCommit
    <3> QED
      BY <1>1, <2>4, <2>5, <2>7, <3>4
         DEF IInv, NewPairInv, HandleInv, CheckInv, LinkInv, IsLinked
  <2> QED
    BY <2>6, <2>7
<1> QED
  BY <1>3, <1>4

LEMMA CheckStepInv == IInv /\ Check => IInv'
<1> SUFFICES ASSUME IInv, Check
             PROVE  IInv'
  OBVIOUS
<1> DEFINE c   == mdir.pair[1]
           new == mdir.pair[2]
<1>1. /\ pc = "check" /\ mdir' = [mdir EXCEPT !.pair = Swap(mdir.pair), !.off = 1]
      /\ UNCHANGED <<disk, bad, ptr, taken>>
      /\ \/ /\ moved = "no" /\ IsLinked /\ pc' = "idle" /\ known' = target
            /\ target' = NoValue /\ moved' = "no"
         \/ /\ moved # "no" \/ ~IsLinked
            /\ pc' = "link" /\ UNCHANGED <<known, target, moved>>
  BY DEF Check, Return
<1>2. /\ mdir \in Mdir /\ disk \in [Blocks -> Block] /\ target \in Value
      /\ c \in Blocks /\ new \in Blocks /\ c # new
      /\ disk[c].rev \in Rev /\ Newer(mdir.rev, disk[c].rev)
      /\ Compacting
  BY <1>1, CompactingFacts DEF Compacting
<1>3. disk[new] = [rev |-> mdir.rev, log |-> <<target>>, tail |-> "erased"]
  BY <1>1 DEF IInv, CheckInv
<1>4. /\ mdir' \in Mdir /\ mdir'.pair = <<new, c>> /\ mdir'.off = 1 /\ mdir'.rev = mdir.rev
      /\ mdir'.erased = mdir.erased
  <2>1. Swap(mdir.pair) = <<new, c>> /\ <<new, c>> \in Pair /\ 1 \in 0 .. LogMax
    BY <1>2, LogAssumption DEF Swap, Pair
  <2>2. mdir' = [mdir EXCEPT !.pair = <<new, c>>, !.off = 1]
    BY <1>1, <2>1
  <2> HIDE DEF new, c
  <2> QED
    BY <1>2, <2>1, <2>2 DEF Mdir
<1>5. TypeOK'
  BY <1>1, <1>2, <1>4 DEF IInv, TypeOK, Busy, Resting
<1>6. CallInv' /\ PairInv'
  BY <1>1, <1>2, <1>4 DEF IInv, CallInv, PairInv, IsLinked, Busy
<1>7. CASE pc' = "idle"
  <2>1. IsLinked /\ moved = "no" /\ known' = target
    BY <1>1, <1>7
  <2>2. ptr = <<ptr[1], ptr[2]>> /\ ptr[1] # ptr[2]
    BY <2>1, LinkedHalves
  <2>3. c \in {ptr[1], ptr[2]} /\ new = OtherHalf(c)
    BY <1>2, <2>1 DEF IInv, CompactInv
  <2>4. mdir'.pair \in {ptr, Swap(ptr)}
    BY <1>4, <2>2, <2>3 DEF OtherHalf, Swap
  <2>5. Wins(disk, new, c)
    BY <1>2, <1>3, CompactedLog DEF Wins, HasCommit
  <2>6. HandleInv'
    BY <1>1, <1>2, <1>3, <1>4, <1>7, <2>1, <2>4, <2>5, CompactedLog DEF HandleInv
  <2> QED
    BY <1>1, <1>5, <1>6, <1>7, <2>1, <2>6
       DEF IInv, NewPairInv, CompactInv, CheckInv, LinkInv, Compacting, IsLinked
<1>8. CASE pc' = "link"
  <2>1. IsLinked => Recovered \in {known, target}
    BY <1>2, CompactingSound DEF Recovered
  <2>2. Recovered' = Recovered /\ (IsLinked' <=> IsLinked) /\ UNCHANGED <<known, target>>
    BY <1>1, <1>8 DEF Recovered, IsLinked
  <2>3. LinkInv'
    BY <1>1, <1>2, <1>3, <1>4, <1>8, <2>1, <2>2 DEF LinkInv
  <2>4. NewPairInv'
    BY <1>2, <1>4, <1>8 DEF NewPairInv, Compacting
  <2> QED
    BY <1>1, <1>5, <1>6, <1>8, <2>2, <2>3, <2>4
       DEF IInv, HandleInv, CompactInv, CheckInv, Compacting
<1> QED
  BY <1>1, <1>7, <1>8

LEMMA LinkStepInv == IInv /\ Link => IInv'
<1> SUFFICES ASSUME IInv, Link
             PROVE  IInv'
  OBVIOUS
<1> DEFINE new == mdir.pair[1]
           old == mdir.pair[2]
<1>1. /\ pc = "link" /\ pc' = "idle" /\ ptr' = mdir.pair /\ disk' = Kept(disk, ptr')
      /\ known' = target /\ target' = NoValue /\ moved' = "no"
      /\ UNCHANGED <<bad, mdir, taken>>
  BY DEF Link, Return
<1>2. mdir \in Mdir /\ disk \in [Blocks -> Block] /\ target \in Value
  BY <1>1 DEF IInv, CallInv, TypeOK, Busy
<1>3. /\ new # old /\ mdir.off = 1
      /\ disk[new] = [rev |-> mdir.rev, log |-> <<target>>, tail |-> "erased"]
      /\ Newer(mdir.rev, disk[old].rev)
  BY <1>1 DEF IInv, LinkInv
<1>4. mdir.pair \in Pair /\ new \in Blocks /\ old \in Blocks
  BY <1>2 DEF Mdir, Pair
<1>5. disk' \in [Blocks -> Block] /\ disk'[new] = disk[new] /\ disk'[old] = disk[old]
  BY <1>1, <1>2, <1>4, KeptPair
<1>6. Wins(disk', new, old)
  BY <1>3, <1>5, CompactedLog, <1>2 DEF Wins, HasCommit
<1>7. IsLinked'
  BY <1>1, <1>4, PairNotEmpty DEF IsLinked
<1>8. TypeOK'
  BY <1>1, <1>2, <1>4, <1>5 DEF IInv, TypeOK, Resting
<1>9. CallInv' /\ PairInv'
  BY <1>1, <1>2, <1>6, <1>7 DEF CallInv, PairInv, Busy
<1>10. HandleInv'
  BY <1>1, <1>2, <1>3, <1>5, <1>6, CompactedLog DEF HandleInv
<1> QED
  BY <1>1, <1>7, <1>8, <1>9, <1>10
     DEF IInv, NewPairInv, CompactInv, CheckInv, LinkInv, Compacting

\* A directory that no parent names, and no handle of it, leave nothing to say.
LEMMA GoneInv ==
    ASSUME IInv, pc' \in {"absent", "off"}, mdir' = <<>>, disk' \in [Blocks -> Block],
           UNCHANGED <<bad, ptr>>, taken' \subseteq Blocks,
           target' \in Value \union {NoValue}, moved' \in {"no", "bad", "worn"},
           IsLinked => pc' = "off" /\ SoundOn(disk', ptr),
           known' \in Value \union {NoValue}, ~IsLinked => known' = NoValue
    PROVE  IInv'
<1>1. IsLinked' <=> IsLinked
  BY DEF IsLinked
<1>2. TypeOK'
  BY DEF IInv, TypeOK, Resting
<1>3. CallInv'
  BY <1>1 DEF CallInv, Busy
<1>4. PairInv'
  BY <1>1 DEF PairInv, SoundOn
<1> QED
  BY <1>2, <1>3, <1>4
     DEF IInv, NewPairInv, HandleInv, CompactInv, CheckInv, LinkInv, Compacting

LEMMA FailInv == ASSUME KeepHandle = FALSE PROVE IInv /\ Fail => IInv'
<1> SUFFICES ASSUME IInv, Fail
             PROVE  IInv'
  OBVIOUS
<1>1. /\ pc \notin {"off", "absent"}
      /\ UNCHANGED <<bad, ptr, taken>> /\ target' = NoValue /\ moved' = "no"
  BY DEF Fail, Return, Busy
<1>2. bad \subseteq Blocks /\ taken \subseteq Blocks /\ known \in Value \union {NoValue}
      /\ (~IsLinked => known = NoValue)
  BY DEF IInv, TypeOK, CallInv
<1>3. CASE ~IsLinked
  <2>1. disk' \in Interrupted /\ pc' = "absent" /\ mdir' = <<>> /\ UNCHANGED known
    BY <1>3 DEF Fail
  <2>2. disk' \in [Blocks -> Block]
    BY <1>1, <2>1, InterruptedSound
  <2> QED
    BY <1>1, <1>2, <1>3, <2>1, <2>2, GoneInv
<1>4. CASE IsLinked
  <2>1. /\ pc' = "idle" /\ mdir' = Fetch(disk', ptr) /\ known' = ContentAt(disk', ptr)
    BY <1>4 DEF Fail
  <2>2. PICK d \in Interrupted : disk' = Kept(d, ptr)
    BY <1>4 DEF Fail
  <2>3. d \in [Blocks -> Block] /\ SoundOn(d, ptr)
    BY <1>1, <1>4, InterruptedSound
  <2>4. ptr \in Pair
    BY <1>4, LinkedHalves
  <2>5. disk' \in [Blocks -> Block] /\ SoundOn(disk', ptr)
    BY <2>2, <2>3, <2>4, KeptPair
  <2> QED
    BY <1>1, <1>2, <2>1, <2>4, <2>5, FetchedInv
<1> QED
  BY <1>3, <1>4

LEMMA CrashInv == IInv /\ Crash => IInv'
<1> SUFFICES ASSUME IInv, Crash
             PROVE  IInv'
  OBVIOUS
<1>1. /\ pc # "off" /\ pc' = "off" /\ mdir' = <<>> /\ taken' = {}
      /\ UNCHANGED <<bad, ptr, known>> /\ target' = NoValue /\ moved' = "no"
  BY DEF Crash, Return
<1>2. PICK d \in Interrupted : disk' = Kept(d, ptr)
  BY DEF Crash
<1>3. known \in Value \union {NoValue} /\ (~IsLinked => known = NoValue)
  BY DEF IInv, TypeOK, CallInv
<1>4. d \in [Blocks -> Block] /\ (IsLinked => SoundOn(d, ptr))
  <2>1. CASE pc = "absent"
    BY <2>1 DEF IInv, TypeOK, CallInv, Interrupted
  <2>2. CASE pc # "absent"
    BY <1>1, <2>2, InterruptedSound
  <2> QED
    BY <2>1, <2>2
<1>5. disk' \in [Blocks -> Block] /\ (IsLinked => SoundOn(disk', ptr))
  <2>1. CASE IsLinked
    BY <1>2, <1>4, <2>1, LinkedHalves, KeptPair
  <2>2. CASE ~IsLinked
    BY <1>2, <1>4, <2>2 DEF Kept, IsLinked
  <2> QED
    BY <2>1, <2>2
<1> QED
  BY <1>1, <1>3, <1>5, GoneInv

LEMMA MountInv == IInv /\ Mount => IInv'
<1> SUFFICES ASSUME IInv, Mount
             PROVE  IInv'
  OBVIOUS
<1>1. /\ pc = "off" /\ known' = Recovered
      /\ UNCHANGED <<disk, bad, ptr, target, moved, taken>>
  BY DEF Mount
<1>2. TypeOK
  BY DEF IInv
<1>3. CASE IsLinked
  <2>1. pc' = "idle" /\ mdir' = Fetch(disk, ptr) /\ known' = ContentAt(disk, ptr)
    BY <1>1, <1>3 DEF Mount, Recovered
  <2>2. ptr \in Pair /\ SoundOn(disk, ptr) /\ disk \in [Blocks -> Block]
    BY <1>3, LinkedHalves
  <2> QED
    BY <1>1, <1>2, <2>1, <2>2, FetchedInv DEF TypeOK
<1>4. CASE ~IsLinked
  <2>1. pc' = "absent" /\ mdir' = <<>> /\ known' = NoValue
    BY <1>1, <1>4 DEF Mount, Recovered
  <2> QED
    BY <1>1, <1>2, <1>4, <2>1, GoneInv DEF TypeOK
<1> QED
  BY <1>3, <1>4

LEMMA NextInv == ASSUME KeepHandle = FALSE PROVE IInv /\ [Next]_vars => IInv'
<1> SUFFICES ASSUME IInv, [Next]_vars
             PROVE  IInv'
  OBVIOUS
<1>1. CASE Alloc
  BY <1>1, AllocInv
<1>2. ASSUME NEW v \in Value, NEW crowded \in BOOLEAN, NEW ack \in BOOLEAN,
             Commit(v, crowded, ack)
      PROVE  IInv'
  BY <1>2, CommitInv
<1>3. CASE Driver
  <2>1. CASE AppendNoSpace \/ AppendCorrupt
    BY <2>1, CutAppendInv
  <2>2. CASE AppendProg
    BY <2>2, AppendProgInv
  <2>3. CASE AppendDone \/ AppendReject
    BY <2>3, AppendEndInv
  <2>4. CASE CompactStart
    BY <2>4, CompactStartInv
  <2>5. CASE Erase
    BY <2>5, EraseInv
  <2>6. CASE Prog
    BY <2>6, ProgInv
  <2>7. CASE ProgCorrupt
    BY <2>7, ProgCorruptInv
  <2>8. CASE Check
    BY <2>8, CheckStepInv
  <2>9. CASE Relocate \/ RelocateNoSpace
    BY <2>9, RelocateInv
  <2>10. CASE Link
    BY <2>10, LinkStepInv
  <2>11. CASE Frozen
    BY <2>11, FailInv DEF Frozen
  <2> QED
    BY <1>3, <2>1, <2>2, <2>3, <2>4, <2>5, <2>6, <2>7, <2>8, <2>9, <2>10, <2>11 DEF Driver
<1>4. CASE Error
  BY <1>4, FailInv DEF Error
<1>5. CASE Crash
  BY <1>5, CrashInv
<1>6. CASE Mount
  BY <1>6, MountInv
<1>7. CASE (\E b \in Blocks : WearOut(b)) \/ UNCHANGED vars
  <2>1. bad' \subseteq Blocks /\ UNCHANGED <<disk, ptr, mdir, pc, target, moved, taken, known>>
    BY <1>7 DEF WearOut, vars, IInv, TypeOK
  <2> QED
    BY <2>1 DEF IInv, TypeOK, CallInv, PairInv, NewPairInv, HandleInv, CompactInv, CheckInv,
       LinkInv, Compacting, IsLinked, Recovered, OtherHalf
<1> QED
  BY <1>1, <1>2, <1>3, <1>4, <1>5, <1>6, <1>7 DEF Next

\* The invariant of the metadata pair: at every step of every commit the linked
\* pair has exactly one current half, and the handle and the compaction in
\* progress are where lfs_dir_commit and lfs_dir_compact take them to be.
THEOREM InvariantHolds == ASSUME KeepHandle = FALSE PROVE Spec => []IInv
<1>1. Init => IInv
  BY InitInv
<1>2. IInv /\ [Next]_vars => IInv'
  BY NextInv
<1> QED
  BY <1>1, <1>2, PTL DEF Spec

-------------------------------------------------------------------------------
(* What follows from it. *)

\* Between commits the pair holds what was acknowledged, during one it holds that
\* or the commit's content.
Expected == /\ pc = "idle" => Recovered = known
            /\ pc \in Busy => Recovered \in {known, target}

LEMMA InvExpected == IInv => Expected
<1> SUFFICES ASSUME IInv
             PROVE  Expected
  OBVIOUS
<1>1. CASE pc = "idle" \/ pc \in Busy
  <2>1. disk \in Interrupted
    BY DEF Interrupted, CutAppend
  <2>2. CASE IsLinked
    BY <1>1, <2>1, <2>2, InterruptedSound DEF Recovered, Expected, Busy
  <2>3. CASE ~IsLinked
    BY <2>3 DEF IInv, CallInv, Recovered, Expected
  <2> QED
    BY <2>2, <2>3
<1> QED
  BY <1>1 DEF Expected

\* An acknowledged commit is what the next mount finds.
THEOREM CommitsAreDurable == ASSUME KeepHandle = FALSE PROVE Spec => []Durable
<1>1. IInv => Durable
  BY InvExpected DEF Expected, Durable
<1> QED
  BY <1>1, InvariantHolds, PTL

\* No erase, relocation, error or power loss takes the last valid commit of a
\* linked pair.
THEOREM PairStaysFetchable == ASSUME KeepHandle = FALSE PROVE Spec => []Fetchable
<1>1. IInv => Fetchable
  <2> SUFFICES ASSUME IInv, IsLinked
               PROVE  HasCommit(disk, Current(disk, ptr)[1])
    BY DEF Fetchable
  <2>1. PICK q \in {ptr, Swap(ptr)} : Wins(disk, q[1], q[2])
    BY LinkedHalves, SoundHasWinner
  <2>2. disk \in [Blocks -> Block] /\ ptr \in Pair
    BY LinkedHalves
  <2>3. Current(disk, ptr) = q
    BY <2>1, <2>2, FetchOfSound
  <2> QED
    BY <2>1, <2>3 DEF Wins
<1> QED
  BY <1>1, InvariantHolds, PTL

\* The order in which a parent or a predecessor names the halves does not matter.
THEOREM OrderDoesNotMatter == ASSUME KeepHandle = FALSE PROVE Spec => []OrderFree
<1>1. IInv => OrderFree
  <2> SUFFICES ASSUME IInv, IsLinked
               PROVE  Fetch(disk, ptr) = Fetch(disk, Swap(ptr))
    BY DEF OrderFree
  <2>1. PICK q \in {ptr, Swap(ptr)} : Wins(disk, q[1], q[2])
    BY LinkedHalves, SoundHasWinner
  <2> QED
    BY <2>1, LinkedHalves, FetchOfSound
<1> QED
  BY <1>1, InvariantHolds, PTL

\* The handle a caller goes on with is the one a fetch would give it.
THEOREM HandleStaysFresh == ASSUME KeepHandle = FALSE PROVE Spec => []HandleFresh
<1>1. IInv => HandleFresh
  <2> SUFFICES ASSUME IInv, pc = "idle", IsLinked
               PROVE  /\ mdir.pair = Fetch(disk, ptr).pair
                      /\ mdir.rev = Fetch(disk, ptr).rev
                      /\ mdir.off = Fetch(disk, ptr).off
                      /\ mdir.erased => Fetch(disk, ptr).erased
    BY DEF HandleFresh
  <2> DEFINE q == mdir.pair
  <2>1. /\ q \in {ptr, Swap(ptr)} /\ Wins(disk, q[1], q[2])
        /\ mdir.rev = disk[q[1]].rev /\ mdir.off = Len(disk[q[1]].log)
        /\ mdir.erased => disk[q[1]].tail # "garbage"
    BY DEF IInv, HandleInv
  <2> HIDE DEF q
  <2>2. /\ Fetch(disk, ptr).pair = q
        /\ Fetch(disk, ptr).rev = disk[q[1]].rev
        /\ Fetch(disk, ptr).off = Len(disk[q[1]].log)
        /\ Fetch(disk, ptr).erased <=> disk[q[1]].tail # "garbage"
    BY <2>1, LinkedHalves, FetchOfSound
  <2> QED
    BY <2>1, <2>2 DEF q
<1> QED
  BY <1>1, InvariantHolds, PTL

-------------------------------------------------------------------------------
(* The refinement of AtomicCell. *)

\* A step that ends with one content, which was possible before, decides.
LEMMA CellDecides ==
    ASSUME Recovered' \in Maybe, Maybe' = {Recovered'}
    PROVE  Cell!Next
BY DEF Cell!Next, Cell!Decide

LEMMA CellInit == Init => Cell!Init
<1> SUFFICES ASSUME Init
             PROVE  Cell!Init
  OBVIOUS
<1>1. IInv /\ known = Recovered /\ pc \notin Busy
  BY InitInv DEF Init, Busy
<1>2. Recovered \in Value \union {NoValue}
  BY <1>1 DEF IInv, TypeOK
<1> QED
  BY <1>1, <1>2 DEF Cell!Init, Cell!Content, Maybe

LEMMA CellStep ==
    ASSUME KeepHandle = FALSE, IInv, IInv', Expected, Expected', [Next]_vars
    PROVE  [Cell!Next]_(Cell!vars)
<1> USE DEF Cell!vars
<1>1. CASE Alloc
  BY <1>1 DEF Alloc, Maybe, Recovered, IsLinked, Busy
<1>2. ASSUME NEW v \in Value, NEW crowded \in BOOLEAN, NEW ack \in BOOLEAN,
             Commit(v, crowded, ack)
      PROVE  Cell!Next
  <2>1. /\ pc = "idle" /\ pc' \in Busy /\ UNCHANGED <<known, Recovered>> /\ target' = v
    BY <1>2 DEF Commit, IInv, CallInv, Busy, Recovered, IsLinked
  <2>2. Maybe = {known} /\ Maybe' = {known, v}
    BY <2>1 DEF Maybe, Busy, Expected
  <2> QED
    BY <2>1, <2>2 DEF Cell!Next, Cell!Invoke
<1>3. CASE pc \in Busy /\ pc' \in Busy /\ UNCHANGED <<known, target>>
  <2>1. Maybe' = Maybe /\ Recovered' \in Maybe
    BY <1>3 DEF Maybe, Expected
  <2> QED
    BY <2>1 DEF Cell!Next, Cell!Settle
<1>4. CASE pc \in Busy /\ pc' = "idle" /\ known' \in {known, target}
  <2>1. Recovered' \in Maybe /\ Maybe' = {Recovered'}
    BY <1>4 DEF Maybe, Expected, Busy
  <2> QED
    BY <2>1, CellDecides
<1>5. CASE Driver /\ ~Frozen
  <2>1. \/ pc \in Busy /\ pc' \in Busy /\ UNCHANGED <<known, target>>
        \/ pc \in Busy /\ pc' = "idle" /\ known' = target
    BY <1>5 DEF Driver, AppendNoSpace, AppendProg, AppendCorrupt, AppendDone, AppendReject,
       CompactStart, Erase, Prog, ProgCorrupt, NowRelocate, Check, Relocate, RelocateNoSpace,
       Link, Busy
  <2> QED
    BY <2>1, <1>3, <1>4
<1>6. CASE Fail
  <2>1. pc \in Busy
    BY <1>6 DEF Fail
  <2>2. CASE IsLinked
    <3>1. PICK d \in Interrupted : disk' = Kept(d, ptr)
      BY <1>6, <2>2 DEF Fail
    <3>2. d \in [Blocks -> Block] /\ ContentAt(d, ptr) \in {known, target} /\ ptr \in Pair
      BY <2>1, <2>2, <3>1, InterruptedSound, LinkedHalves DEF Busy
    <3>3. ContentAt(disk', ptr) = ContentAt(d, ptr)
      BY <3>1, <3>2, KeptPair
    <3>4. pc' = "idle" /\ known' = ContentAt(disk', ptr)
      BY <1>6, <2>2 DEF Fail
    <3> QED
      BY <2>1, <3>2, <3>3, <3>4, <1>4
  <2>3. CASE ~IsLinked
    <3>1. pc' = "absent" /\ UNCHANGED <<ptr, known>> /\ known = NoValue
      BY <1>6, <2>3 DEF Fail, IInv, CallInv
    <3>2. Recovered' = NoValue /\ Maybe' = {NoValue} /\ NoValue \in Maybe
      BY <2>1, <2>3, <3>1 DEF Recovered, IsLinked, Maybe, Busy
    <3> QED
      BY <3>2, CellDecides
  <2> QED
    BY <2>2, <2>3
<1>7. CASE Crash
  <2>1. pc # "off" /\ pc' = "off" /\ UNCHANGED <<ptr, known>>
    BY <1>7 DEF Crash
  <2>2. Maybe' = {Recovered', known}
    BY <2>1 DEF Maybe, Busy
  <2>3. CASE ~IsLinked
    <3>1. Recovered' = NoValue /\ Recovered = NoValue /\ known = NoValue
      BY <2>1, <2>3 DEF Recovered, IsLinked, IInv, CallInv
    <3> QED
      BY <2>2, <3>1, CellDecides DEF Maybe
  <2>4. CASE IsLinked
    <3>1. pc \notin {"off", "absent"}
      BY <2>1, <2>4 DEF IInv, CallInv
    <3>2. PICK d \in Interrupted : disk' = Kept(d, ptr)
      BY <1>7 DEF Crash
    <3>3. /\ d \in [Blocks -> Block] /\ ptr \in Pair
          /\ ContentAt(d, ptr) \in {known, target}
          /\ pc = "idle" => ContentAt(d, ptr) = known
      BY <2>4, <3>1, <3>2, InterruptedSound, LinkedHalves
    <3>4. Recovered' = ContentAt(d, ptr)
      BY <2>1, <2>4, <3>2, <3>3, KeptPair DEF Recovered, IsLinked
    <3>5. CASE Recovered' = known
      <4>1. known \in Maybe
        BY DEF Maybe
      <4> QED
        BY <2>2, <3>5, <4>1, CellDecides
    <3>6. CASE Recovered' # known
      <4>1. Recovered' = target /\ pc # "idle"
        BY <3>3, <3>4, <3>6
      <4>2. pc \in Busy
        BY <3>1, <4>1 DEF IInv, TypeOK, CallInv, Resting
      <4>3. Maybe' = Maybe /\ Recovered' \in Maybe
        BY <2>2, <4>1, <4>2 DEF Maybe
      <4> QED
        BY <4>3 DEF Cell!Next, Cell!Settle
    <3> QED
      BY <3>5, <3>6
  <2> QED
    BY <2>3, <2>4
<1>8. CASE Mount
  <2>1. /\ pc = "off" /\ pc' \in {"idle", "absent"} /\ known' = Recovered
        /\ Recovered' = Recovered
    BY <1>8 DEF Mount, Recovered, IsLinked
  <2>2. Maybe' = {Recovered'} /\ Recovered' \in Maybe
    BY <2>1 DEF Maybe, Busy
  <2> QED
    BY <2>2, CellDecides
<1>9. CASE (\E b \in Blocks : WearOut(b)) \/ UNCHANGED vars
  BY <1>9 DEF WearOut, vars, Maybe, Recovered, IsLinked
<1> QED
  BY <1>1, <1>2, <1>5, <1>6, <1>7, <1>8, <1>9 DEF Next, Driver, Error, Frozen

\* Commits, with their compactions, relocations, errors and power losses, are
\* atomic changes of the directory's content: MetadataPair implements AtomicCell.
THEOREM CommitsAreAtomic == ASSUME KeepHandle = FALSE PROVE Spec => ImplementsCell
<1>1. IInv => Expected
  BY InvExpected
<1>2. IInv /\ IInv' /\ Expected /\ Expected' /\ [Next]_vars => [Cell!Next]_(Cell!vars)
  BY CellStep
<1> QED
  BY <1>1, <1>2, CellInit, InvariantHolds, PTL DEF Spec, ImplementsCell, Cell!Spec

===============================================================================
