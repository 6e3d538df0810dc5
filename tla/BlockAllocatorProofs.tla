------------------------- MODULE BlockAllocatorProofs -------------------------
(***************************************************************************)
(* Proofs about the block allocator, for every size of the device and of   *)
(* the lookahead buffer.  The argument is about distances: Dist(b) says    *)
(* how far block b lies ahead of the place the allocator looks at next, so *)
(* that a step of n places takes n from every distance, going round the    *)
(* device, and a new window changes none.                                  *)
(***************************************************************************)
EXTENDS BlockAllocator, TLAPS

-------------------------------------------------------------------------------
(* Arithmetic on places.                                                      *)

LEMMA ModSmall ==
    ASSUME NEW x \in Nat, x < BlockCount
    PROVE  x % BlockCount = x
BY BlockCountAssumption

LEMMA ModOnce ==
    ASSUME NEW x \in Nat, x >= BlockCount, x < 2 * BlockCount
    PROVE  x % BlockCount = x - BlockCount
BY BlockCountAssumption

\* The cursor is a block, found by one subtraction.
LEMMA CursorIs ==
    ASSUME TypeOK
    PROVE  /\ Cursor \in Block
           /\ Cursor = IF off + i < BlockCount THEN off + i ELSE off + i - BlockCount
<1>1. off \in Nat /\ i \in Nat /\ size \in Nat /\ i <= size /\ size <= BlockCount /\ off < BlockCount
  BY BlockCountAssumption DEF TypeOK, Block
<1>2. off + i < 2 * BlockCount /\ off + i \in Nat
  BY <1>1, BlockCountAssumption
<1>3. CASE off + i < BlockCount
  BY <1>1, <1>2, <1>3, ModSmall, BlockCountAssumption DEF Cursor, At, Block
<1>4. CASE off + i >= BlockCount
  BY <1>1, <1>2, <1>4, ModOnce, BlockCountAssumption DEF Cursor, At, Block
<1>5. QED
  BY <1>1, <1>3, <1>4, BlockCountAssumption

LEMMA DistIs ==
    ASSUME TypeOK, NEW b \in Block
    PROVE  Dist(b) \in Block
BY CursorIs, BlockCountAssumption DEF Dist, Block

\* Different blocks lie at different distances.
LEMMA DistInjective ==
    ASSUME TypeOK, NEW b \in Block, NEW c \in Block, Dist(b) = Dist(c)
    PROVE  b = c
BY CursorIs, BlockCountAssumption DEF Dist, Block

\* A block inside the window is at the place its distance tells.
LEMMA AtDist ==
    ASSUME TypeOK, NEW b \in Block, Dist(b) < size - i
    PROVE  At(i + Dist(b)) = b
<1>1. off \in Nat /\ i \in Nat /\ size \in Nat /\ i <= size /\ size <= BlockCount /\ off < BlockCount
      /\ b \in Nat /\ b < BlockCount
  BY BlockCountAssumption DEF TypeOK, Block
<1>2. Dist(b) \in Nat
  BY DistIs, BlockCountAssumption DEF Block
<1>3. i + Dist(b) < size
  BY <1>1, <1>2
<1>4. off + (i + Dist(b)) \in Nat /\ off + (i + Dist(b)) < 2 * BlockCount
  BY <1>1, <1>2, <1>3, BlockCountAssumption
<1>5. off + (i + Dist(b)) = b \/ off + (i + Dist(b)) = b + BlockCount
  BY <1>1, <1>3, <1>4, CursorIs, BlockCountAssumption DEF Dist, Block
<1>6. CASE off + (i + Dist(b)) = b
  BY <1>1, <1>6, ModSmall DEF At
<1>7. CASE off + (i + Dist(b)) = b + BlockCount
  BY <1>1, <1>4, <1>7, ModOnce, BlockCountAssumption DEF At
<1>8. QED
  BY <1>5, <1>6, <1>7

\* The bit of a block, in a window at o, is its distance from o.
LEMMA OffsetIs ==
    ASSUME NEW o \in Block, NEW b \in Block
    PROVE  Offset(o, b) = IF b >= o THEN b - o ELSE b + BlockCount - o
<1>1. BlockCount + b - o \in Nat /\ BlockCount + b - o < 2 * BlockCount
      /\ o \in Nat /\ b \in Nat /\ o < BlockCount /\ b < BlockCount
  BY BlockCountAssumption DEF Block
<1>2. CASE b >= o
  BY <1>1, <1>2, ModOnce, BlockCountAssumption DEF Offset
<1>3. CASE b < o
  BY <1>1, <1>3, ModSmall, BlockCountAssumption DEF Offset
<1>4. QED
  BY <1>1, <1>2, <1>3

\* A step of n places takes n from every distance, round the device.
LEMMA Advance ==
    ASSUME TypeOK, TypeOK', off' = off, NEW n \in Nat, i' = i + n, NEW b \in Block
    PROVE  Dist(b)' = IF Dist(b) >= n THEN Dist(b) - n ELSE Dist(b) + BlockCount - n
<1>1. /\ off \in Nat /\ i \in Nat /\ off < BlockCount /\ i <= BlockCount /\ i' <= BlockCount
      /\ b \in Nat /\ b < BlockCount
  BY BlockCountAssumption DEF TypeOK, Block
<1>2. Cursor' \in Block /\ Cursor' = IF off + i' < BlockCount THEN off + i' ELSE off + i' - BlockCount
  <2>1. Cursor' = (off + i') % BlockCount
    BY DEF Cursor, At
  <2>2. i' \in Nat /\ off + i' \in Nat /\ off + i' < 2 * BlockCount
    BY <1>1, BlockCountAssumption
  <2>3. CASE off + i' < BlockCount
    BY <1>1, <2>1, <2>2, <2>3, ModSmall, BlockCountAssumption DEF Block
  <2>4. CASE off + i' >= BlockCount
    BY <1>1, <2>1, <2>2, <2>4, ModOnce, BlockCountAssumption DEF Block
  <2>5. QED
    BY <1>1, <2>2, <2>3, <2>4, BlockCountAssumption
<1>3. QED
  BY <1>1, <1>2, CursorIs, BlockCountAssumption DEF Dist, Block

\* A new window starts at the cursor.
LEMMA NextWindowKeepsCursor ==
    ASSUME TypeOK, i = size, NextWindow
    PROVE  /\ off' \in Block
           /\ off' = Cursor
           /\ Cursor' = Cursor
           /\ \A b \in Block : Dist(b)' = Dist(b)
<1>1. off' = Cursor /\ off' \in Block
  BY CursorIs DEF NextWindow, Cursor, At
<1>2. Cursor' = off'
  <2>1. Cursor' = (off' + 0) % BlockCount
    BY DEF NextWindow, Cursor, At
  <2>2. QED
    BY <1>1, <2>1, ModSmall, BlockCountAssumption DEF Block
<1>3. QED
  BY <1>1, <1>2 DEF Dist
-------------------------------------------------------------------------------
(* The initial states.                                                        *)

LEMMA InitHolds == Init => IInv
<1> SUFFICES ASSUME Init PROVE IInv
  OBVIOUS
<1>1. TypeOK
  BY BlockCountAssumption, LookaheadAssumption DEF Init, TypeOK, Block, Smaller, Returned
<1>2. AckInv
  BY BlockCountAssumption, LookaheadAssumption DEF Init, AckInv, Smaller
<1>3. SpareInv
  <2>1. \A b \in Block : Dist(b) \in Nat /\ Dist(b) < BlockCount
    BY <1>1, DistIs, BlockCountAssumption DEF Block
  <2>2. QED
    BY <2>1 DEF Init, SpareInv
<1>4. WindowInv /\ HeldInv /\ FoundInv
  BY DEF Init, WindowInv, HeldInv, FoundInv
<1>5. QED
  BY <1>1, <1>2, <1>3, <1>4 DEF IInv, Init

-------------------------------------------------------------------------------
(* Steps of lfs_alloc.                                                        *)

\* Facts every step starts from.
LEMMA Ranges ==
    ASSUME TypeOK
    PROVE  /\ off \in Nat /\ size \in Nat /\ i \in Nat /\ ack \in Nat /\ BlockCount \in Nat
           /\ BlockCount > 1 /\ off < BlockCount /\ i <= size /\ size <= BlockCount
           /\ ack <= BlockCount
           /\ \A b \in Block : Dist(b) \in Nat /\ Dist(b) < BlockCount
           /\ \A b \in tree \union held \union spare : b \in Block
BY DistIs, BlockCountAssumption DEF TypeOK, Block

LEMMA SkipHolds == IInv /\ Skip => IInv'
<1> SUFFICES ASSUME IInv, Skip PROVE IInv'
  OBVIOUS
<1> USE DEF IInv
<1>1. i < size /\ i \in mark /\ i' = i + 1 /\ ack' = ack - 1 /\ pc' = "scan"
      /\ off' = off /\ size' = size /\ mark' = mark /\ block' = block
      /\ held' = held /\ tree' = tree /\ spare' = spare
  BY DEF Skip, clients
<1>2. ack > 0
  BY <1>1, Ranges DEF AckInv
<1>3. TypeOK'
  BY <1>1, <1>2, Ranges DEF TypeOK, Returned
<1>4. \A b \in Block : Dist(b)' = IF Dist(b) >= 1 THEN Dist(b) - 1 ELSE Dist(b) + BlockCount - 1
  BY <1>1, <1>3, Advance
<1>5. \A b \in Block : Dist(b)' < size - i' =>
            Dist(b) >= 1 /\ Dist(b) < size - i /\ i' + Dist(b)' = i + Dist(b)
  BY <1>1, <1>4, Ranges
<1>6. AckInv'
  BY <1>1, Ranges DEF AckInv
<1>7. WindowInv'
  BY <1>1, <1>5, Ranges DEF WindowInv
<1>8. HeldInv'
  BY <1>1, <1>2, <1>4, Ranges DEF HeldInv
<1>9. SpareInv'
  <2> SUFFICES ASSUME NEW b \in spare
               PROVE  /\ b \notin tree \union held
                      /\ Dist(b)' < ack'
                      /\ Dist(b)' < size - i' => i' + Dist(b)' \notin mark
    BY <1>1 DEF SpareInv
  <2>1. b \in Block /\ Dist(b) \in Nat /\ Dist(b) < ack /\ b \notin tree \union held
        /\ (Dist(b) < size - i => i + Dist(b) \notin mark)
    BY Ranges DEF SpareInv
  <2>2. Dist(b) # 0
    BY <1>1, <2>1, Ranges
  <2>3. QED
    BY <1>1, <1>2, <1>4, <1>5, <2>1, <2>2, Ranges
<1>10. FoundInv'
  BY <1>1 DEF FoundInv
<1>11. QED
  BY <1>1, <1>3, <1>6, <1>7, <1>8, <1>9, <1>10

LEMMA TakeHolds == IInv /\ Take => IInv'
<1> SUFFICES ASSUME IInv, Take PROVE IInv'
  OBVIOUS
<1> USE DEF IInv
<1>1. PICK j \in i + 1 .. size : /\ i + 1 .. j - 1 \subseteq mark
                                /\ j \notin mark
                                /\ i' = j
                                /\ ack' = ack - (j - i)
  BY DEF Take
<1> DEFINE n == j - i
<1>2. n \in Nat /\ n >= 1 /\ i' = i + n /\ j \in Nat /\ i + n <= size /\ ack' = ack - n
  BY <1>1, Ranges
<1> HIDE DEF n
<1>3. off' = off /\ size' = size /\ mark' = mark /\ held' = held /\ tree' = tree
      /\ block' = Cursor /\ spare' = spare \ {Cursor} /\ pc' = "done" /\ i \notin mark
  BY DEF Take, clients, Cursor
<1>4. Cursor \in Block
  BY CursorIs
<1>5. TypeOK'
  BY <1>1, <1>2, <1>3, <1>4, Ranges DEF TypeOK, AckInv, Returned
<1>6. \A b \in Block : Dist(b)' = IF Dist(b) >= n THEN Dist(b) - n ELSE Dist(b) + BlockCount - n
  BY <1>2, <1>3, <1>5, Advance
<1>7. \A b \in Block : Dist(b)' < size - i' =>
            Dist(b) >= n /\ Dist(b) < size - i /\ i' + Dist(b)' = i + Dist(b)
  BY <1>2, <1>6, Ranges
<1>8. Dist(Cursor) = 0
  BY <1>4, BlockCountAssumption DEF Dist, Block
<1>9. AckInv'
  BY <1>2, <1>3, Ranges DEF AckInv
<1>10. WindowInv'
  BY <1>3, <1>7, Ranges DEF WindowInv
<1>11. HeldInv'
  BY <1>2, <1>3, <1>6, Ranges DEF HeldInv
<1>12. SpareInv'
  <2> SUFFICES ASSUME NEW b \in spare, b # Cursor
               PROVE  /\ b \notin tree \union held
                      /\ Dist(b)' < ack'
                      /\ Dist(b)' < size - i' => i' + Dist(b)' \notin mark
    BY <1>3 DEF SpareInv
  <2>1. b \in Block /\ Dist(b) \in Nat /\ Dist(b) < ack /\ b \notin tree \union held
        /\ (Dist(b) < size - i => i + Dist(b) \notin mark)
    BY Ranges DEF SpareInv
  <2>2. Dist(b) # 0
    BY <1>4, <1>8, <2>1, DistInjective
  <2>3. Dist(b) >= n
    <3> SUFFICES ASSUME Dist(b) < n PROVE FALSE
      BY <1>2, <2>1
    <3>1. i + Dist(b) \in i + 1 .. j - 1
      BY <1>1, <1>2, <2>1, <2>2, Ranges
    <3>2. Dist(b) < size - i
      BY <1>2, <2>1, Ranges
    <3>3. QED
      BY <1>1, <2>1, <3>1, <3>2
  <2>4. QED
    BY <1>2, <1>6, <1>7, <2>1, <2>3, Ranges
<1>13. FoundInv'
  <2>1. Cursor \notin tree \union held
    <3>1. i + Dist(Cursor) = i /\ Dist(Cursor) < size - i
      BY <1>2, <1>8, Ranges
    <3>2. QED
      BY <1>3, <3>1 DEF WindowInv
  <2>2. \A b \in Block : b = Cursor => Dist(b)' = BlockCount - n
    BY <1>2, <1>6, <1>8, Ranges
  <2>3. QED
    BY <1>2, <1>3, <1>4, <1>7, <1>8, <2>1, <2>2, Ranges DEF FoundInv
<1>14. QED
  BY <1>3, <1>5, <1>9, <1>10, <1>11, <1>12, <1>13

LEMMA RescanHolds == IInv /\ Rescan => IInv'
<1> SUFFICES ASSUME IInv, Rescan PROVE IInv'
  OBVIOUS
<1> USE DEF IInv
<1>1. i = size /\ ack # 0 /\ NextWindow /\ mark' = Marks(tree, off', size') /\ ack' = ack
      /\ pc' = "scan" /\ block' = block /\ held' = held /\ tree' = tree /\ spare' = spare
  BY DEF Rescan, clients
<1>2. off' \in Block /\ off' = Cursor /\ \A b \in Block : Dist(b)' = Dist(b)
  BY <1>1, NextWindowKeepsCursor
<1>3. i' = 0 /\ size' \in Nat /\ size' <= ack /\ size' <= BlockCount
  BY <1>1, Ranges, LookaheadAssumption DEF NextWindow, Smaller
<1>4. TypeOK'
  <2>1. mark' \subseteq 0 .. size' - 1
    BY <1>1 DEF Marks
  <2>2. QED
    BY <1>1, <1>2, <1>3, <2>1, Ranges DEF TypeOK, Returned
<1>5. \A b \in Block : Offset(off', b) = Dist(b)
  BY <1>2, OffsetIs DEF Dist
<1>6. AckInv'
  BY <1>1, <1>3, Ranges DEF AckInv
<1>7. WindowInv'
  <2> SUFFICES ASSUME NEW b \in tree \union held, Dist(b)' < size' - i'
               PROVE  i' + Dist(b)' \in mark'
    BY <1>1 DEF WindowInv
  <2>1. Dist(b)' = Dist(b) /\ Dist(b) \in Nat /\ Dist(b) < size' /\ b \in Block
    BY <1>2, <1>3, Ranges
  <2>2. b \in tree
    BY <1>3, <2>1, Ranges DEF HeldInv
  <2>3. Offset(off', b) \in Marks(tree, off', size')
    BY <1>3, <1>5, <2>1, <2>2 DEF Marks
  <2>4. QED
    BY <1>1, <1>3, <1>5, <2>1, <2>3
<1>8. HeldInv'
  BY <1>1, <1>2, Ranges DEF HeldInv
<1>9. SpareInv'
  <2> SUFFICES ASSUME NEW b \in spare
               PROVE  /\ b \notin tree \union held
                      /\ Dist(b)' < ack
                      /\ i' + Dist(b)' \notin mark'
    BY <1>1 DEF SpareInv
  <2>1. b \in Block /\ b \notin tree \union held /\ Dist(b) < ack /\ Dist(b)' = Dist(b)
        /\ Dist(b) \in Nat
    BY <1>2, Ranges DEF SpareInv
  <2>2. ASSUME Dist(b) \in mark' PROVE FALSE
    <3>1. PICK c \in tree : Offset(off', c) = Dist(b)
      BY <1>1, <2>2 DEF Marks
    <3>2. c \in Block
      BY Ranges
    <3>3. Dist(c) = Dist(b)
      BY <1>5, <3>1, <3>2
    <3>4. QED
      BY <2>1, <3>2, <3>3, DistInjective
  <2>3. QED
    BY <1>3, <2>1, <2>2
<1>10. FoundInv'
  BY <1>1 DEF FoundInv
<1>11. QED
  BY <1>1, <1>4, <1>6, <1>7, <1>8, <1>9, <1>10

-------------------------------------------------------------------------------
(* Steps that leave the window alone.                                         *)

\* Nothing the invariant speaks of changes but the stage of the call.
LEMMA StageHolds ==
    ASSUME IInv, UNCHANGED <<window, ack, clients, spare>>, TypeOK', FoundInv',
           pc' = "full" => i = size /\ ack = 0
    PROVE  IInv'
<1>1. off' = off /\ size' = size /\ i' = i /\ mark' = mark /\ ack' = ack
      /\ held' = held /\ tree' = tree /\ spare' = spare
  BY DEF window, clients
<1>2. \A b \in Block : Dist(b)' = Dist(b)
  BY <1>1 DEF Dist, Cursor, At
<1>3. QED
  BY <1>1, <1>2, Ranges DEF IInv, AckInv, WindowInv, HeldInv, SpareInv

LEMMA NoSpaceHolds == IInv /\ NoSpace => IInv'
<1> SUFFICES ASSUME IInv, NoSpace PROVE IInv'
  OBVIOUS
<1>1. TypeOK' /\ FoundInv'
  BY DEF NoSpace, IInv, TypeOK, Returned, FoundInv, window, clients
<1>2. QED
  BY <1>1, StageHolds DEF NoSpace

LEMMA CallHolds == IInv /\ Call => IInv'
<1> SUFFICES ASSUME IInv, Call PROVE IInv'
  OBVIOUS
<1>1. TypeOK' /\ FoundInv'
  BY DEF Call, IInv, TypeOK, Returned, FoundInv, window, clients
<1>2. QED
  BY <1>1, StageHolds DEF Call

LEMMA DropHolds == IInv /\ Drop => IInv'
<1> SUFFICES ASSUME IInv, Drop PROVE IInv'
  OBVIOUS
<1>1. TypeOK' /\ FoundInv'
  BY DEF Drop, IInv, TypeOK, Returned, FoundInv, window, clients
<1>2. QED
  BY <1>1, StageHolds DEF Drop

\* What is in use only passes from one client to another, or is given back.
LEMMA ClientHolds ==
    ASSUME IInv, UNCHANGED <<window, ack, pc, block, spare>>, pc = "idle",
           held' \subseteq held, tree' \union held' \subseteq tree \union held
    PROVE  IInv'
<1>1. off' = off /\ size' = size /\ i' = i /\ mark' = mark /\ ack' = ack
      /\ pc' = "idle" /\ block' = block /\ spare' = spare
  BY DEF window
<1>2. \A b \in Block : Dist(b)' = Dist(b)
  BY <1>1 DEF Dist, Cursor, At
<1>3. TypeOK'
  BY <1>1 DEF IInv, TypeOK
<1>4. \A b \in tree' \union held' : b \in tree \union held /\ Dist(b)' = Dist(b)
  BY <1>2, Ranges DEF IInv
<1>5. \A b \in spare : Dist(b)' = Dist(b) /\ b \notin tree' \union held'
  BY <1>2, <1>4, Ranges DEF IInv, SpareInv
<1>6. QED
  BY <1>1, <1>3, <1>4, <1>5 DEF IInv, AckInv, WindowInv, HeldInv, SpareInv, FoundInv

LEMMA LinkHolds == ASSUME NEW b \in Block PROVE IInv /\ Link(b) => IInv'
BY ClientHolds DEF Link

LEMMA AbandonHolds == ASSUME NEW b \in Block PROVE IInv /\ Abandon(b) => IInv'
BY ClientHolds DEF Abandon

LEMMA ReleaseHolds == ASSUME NEW b \in Block PROVE IInv /\ Release(b) => IInv'
BY ClientHolds DEF Release

LEMMA UseHolds == IInv /\ Use => IInv'
<1> SUFFICES ASSUME IInv, Use PROVE IInv'
  OBVIOUS
<1>1. off' = off /\ size' = size /\ i' = i /\ mark' = mark /\ ack' = ack /\ pc' = "idle"
      /\ block' = NoBlock /\ held' = held \union {block} /\ tree' = tree /\ spare' = spare
  BY DEF Use, window
<1>2. /\ block \in Block \ (tree \union held \union spare)
      /\ Dist(block) >= ack
      /\ Dist(block) < size - i => i + Dist(block) \in mark
  BY DEF Use, IInv, FoundInv
<1>3. \A b \in Block : Dist(b)' = Dist(b)
  BY <1>1 DEF Dist, Cursor, At
<1>4. TypeOK'
  BY <1>1, <1>2 DEF IInv, TypeOK
<1>5. WindowInv' /\ HeldInv' /\ SpareInv'
  BY <1>1, <1>2, <1>3, Ranges DEF IInv, WindowInv, HeldInv, SpareInv
<1>6. QED
  BY <1>1, <1>4, <1>5 DEF IInv, AckInv, FoundInv

\* The ack is sound because nothing is held: every block but the marked ones in
\* what is left of the window may be found now.
LEMMA AckHolds ==
    ASSUME NestedAck = FALSE
    PROVE  IInv /\ Ack => IInv'
<1> SUFFICES ASSUME IInv, Ack PROVE IInv'
  OBVIOUS
<1>1. off' = off /\ size' = size /\ i' = i /\ mark' = mark /\ ack' = BlockCount /\ pc' = "idle"
      /\ block' = block /\ held' = held /\ tree' = tree /\ held = {}
      /\ spare' = Block \ (tree \union held \union Stale)
  BY DEF Ack, MayAck, window, clients
<1>2. \A b \in Block : Dist(b)' = Dist(b)
  BY <1>1 DEF Dist, Cursor, At
<1>3. TypeOK'
  BY <1>1, Ranges DEF IInv, TypeOK
<1>4. AckInv' /\ HeldInv' /\ FoundInv'
  BY <1>1, Ranges DEF IInv, AckInv, HeldInv, FoundInv
<1>5. WindowInv'
  BY <1>1, <1>2, Ranges DEF IInv, WindowInv
<1>6. SpareInv'
  <2> SUFFICES ASSUME NEW b \in Block, b \notin tree \union held \union Stale
               PROVE  Dist(b) < BlockCount /\ (Dist(b) < size - i => i + Dist(b) \notin mark)
    BY <1>1, <1>2 DEF SpareInv
  <2>1. Dist(b) \in Nat /\ Dist(b) < BlockCount
    BY Ranges DEF IInv
  <2>2. ASSUME Dist(b) < size - i, i + Dist(b) \in mark PROVE FALSE
    <3>1. At(i + Dist(b)) = b
      BY <2>2, AtDist DEF IInv
    <3>2. i + Dist(b) \in i .. size - 1
      BY <2>1, <2>2, Ranges DEF IInv
    <3>3. QED
      BY <2>2, <3>1, <3>2 DEF Stale
  <2>3. QED
    BY <2>1, <2>2
<1>7. QED
  BY <1>1, <1>3, <1>4, <1>5, <1>6 DEF IInv

LEMMA MountHolds ==
    ASSUME NEW o \in Block, NEW S \in SUBSET (tree \ SuperPair)
    PROVE  IInv /\ Mount(o, S) => IInv'
<1> SUFFICES ASSUME IInv, Mount(o, S) PROVE IInv'
  OBVIOUS
<1>1. off' = o /\ size' = 0 /\ i' = 0 /\ mark' = {} /\ ack' = BlockCount /\ pc' = "idle"
      /\ block' = NoBlock /\ held' = {} /\ tree' = tree \ S /\ spare' = Block \ tree'
  BY DEF Mount
<1>2. TypeOK'
  BY <1>1, Ranges DEF IInv, TypeOK
<1>3. \A b \in Block : Dist(b)' \in Nat /\ Dist(b)' < BlockCount
  <2>1. Cursor' = (o + 0) % BlockCount
    BY <1>1 DEF Cursor, At
  <2>2. Cursor' = o
    BY <2>1, ModSmall, BlockCountAssumption DEF Block
  <2>3. QED
    BY <2>2, BlockCountAssumption DEF Dist, Block
<1>4. \A b \in Block : ~(Dist(b)' < size' - i')
  BY <1>1, <1>3
<1>5. tree' \subseteq Block
  BY <1>1, Ranges DEF IInv
<1>6. AckInv' /\ HeldInv' /\ FoundInv'
  BY <1>1, BlockCountAssumption DEF AckInv, HeldInv, FoundInv
<1>7. WindowInv'
  BY <1>1, <1>4, <1>5 DEF WindowInv
<1>8. SpareInv'
  BY <1>1, <1>3, <1>4 DEF SpareInv
<1>9. QED
  BY <1>1, <1>2, <1>6, <1>7, <1>8 DEF IInv

-------------------------------------------------------------------------------
(* The theorems.                                                              *)

\* Every step keeps the invariant, if no operation acks while it holds blocks and
\* the scan of the tree is complete.
LEMMA NextHolds ==
    ASSUME NestedAck = FALSE
    PROVE  IInv /\ [Next]_vars => IInv'
<1> SUFFICES ASSUME IInv, [Next]_vars PROVE IInv'
  OBVIOUS
<1>1. CASE Alloc
  BY <1>1, SkipHolds, TakeHolds, NoSpaceHolds, RescanHolds DEF Alloc
<1>2. CASE Client
  BY <1>2, CallHolds, AckHolds, UseHolds, DropHolds, LinkHolds, AbandonHolds, ReleaseHolds,
     MountHolds DEF Client
<1>3. CASE UNCHANGED vars
  BY <1>3 DEF vars, IInv, TypeOK, AckInv, WindowInv, HeldInv, SpareInv, FoundInv, Dist, Cursor, At
<1>4. QED
  BY <1>1, <1>2, <1>3 DEF Next

\* The inductive invariant holds for every size of the device and of the lookahead
\* buffer (lfs_alloc, lfs_alloc_ack).
THEOREM AllocatorInvariant ==
    ASSUME NestedAck = FALSE
    PROVE  Spec => []IInv
BY InitHolds, NextHolds, PTL DEF Spec

\* lfs_alloc never returns a block that is reachable, or that an operation holds.
THEOREM NeverInUse ==
    ASSUME NestedAck = FALSE
    PROVE  Spec => []NoDoubleUse
<1>1. IInv => NoDoubleUse
  BY DEF IInv, FoundInv, NoDoubleUse
<1>2. QED
  BY <1>1, AllocatorInvariant, PTL

\* lfs_alloc returns LFS_ERR_NOSPC only after every block that was free, and not
\* marked, when the operation acked has been handed out.
THEOREM NoSpaceIsEarned ==
    ASSUME NestedAck = FALSE
    PROVE  Spec => []NoEarlyNoSpace
<1>1. IInv => NoEarlyNoSpace
  BY Ranges DEF IInv, SpareInv, NoEarlyNoSpace
<1>2. QED
  BY <1>1, AllocatorInvariant, PTL
===============================================================================
