----------------------------- MODULE BdCacheProofs -----------------------------
(***************************************************************************)
(* Proofs about BdCache: for any blocks, any sizes of block, caches, reads *)
(* and programs that divide each other as lfs_init demands, any values and *)
(* any number of faults, what is read is what was last programmed, what    *)
(* was checked is on the device, and the assertions of the code hold.      *)
(***************************************************************************)
EXTENDS BdCache, TLAPS

-------------------------------------------------------------------------------
(* Arithmetic: multiples of a size n. *)

LEMMA DivMod ==
    ASSUME NEW a \in Nat, NEW n \in Nat \ {0}
    PROVE  /\ a \div n \in Nat /\ a % n \in 0 .. n - 1
           /\ a = n * (a \div n) + (a % n)
OBVIOUS

\* A product is a multiple.
LEMMA ProductIsMultiple ==
    ASSUME NEW k \in Nat, NEW n \in Nat \ {0}
    PROVE  n * k \in Nat /\ (n * k) % n = 0
<1> DEFINE a == n * k
           q == a \div n
           r == a % n
<1>1. a \in Nat
  OBVIOUS
<1>2. q \in Nat /\ r \in 0 .. n - 1 /\ a = n * q + r
  BY <1>1, DivMod
<1>3. n * k = n * q + r
  BY <1>2
<1>4. k <= q
  <2>1. SUFFICES ASSUME q + 1 <= k
                 PROVE  FALSE
    BY <1>2
  <2>2. n * (q + 1) <= n * k
    BY <1>2, <2>1
  <2> QED
    BY <1>2, <1>3, <2>2
<1>5. q <= k
  <2>1. SUFFICES ASSUME k + 1 <= q
                 PROVE  FALSE
    BY <1>2
  <2>2. n * (k + 1) <= n * q
    BY <1>2, <2>1
  <2> QED
    BY <1>2, <1>3, <2>2
<1>6. r = 0
  BY <1>2, <1>3, <1>4, <1>5
<1> QED
  BY <1>1, <1>6

\* A multiple is a product.
LEMMA MultipleIsProduct ==
    ASSUME NEW a \in Nat, NEW n \in Nat \ {0}, a % n = 0
    PROVE  \E k \in Nat : a = n * k
<1>1. a \div n \in Nat /\ a = n * (a \div n)
  BY DivMod
<1> QED
  BY <1>1

LEMMA SumOfMultiples ==
    ASSUME NEW a \in Nat, NEW b \in Nat, NEW n \in Nat \ {0}, a % n = 0, b % n = 0
    PROVE  (a + b) % n = 0
<1>1. PICK k \in Nat : a = n * k
  BY MultipleIsProduct
<1>2. PICK j \in Nat : b = n * j
  BY MultipleIsProduct
<1>3. a + b = n * (k + j)
  BY <1>1, <1>2
<1>4. k + j \in Nat
  BY <1>1, <1>2
<1>5. (n * (k + j)) % n = 0
  BY <1>4, ProductIsMultiple
<1> QED
  BY <1>3, <1>5

\* Divisibility is transitive.
LEMMA MultipleOfMultiple ==
    ASSUME NEW a \in Nat, NEW m \in Nat \ {0}, NEW n \in Nat \ {0}, a % m = 0, m % n = 0
    PROVE  a % n = 0
<1>1. PICK k \in Nat : a = m * k
  BY MultipleIsProduct
<1>2. PICK j \in Nat : m = n * j
  BY MultipleIsProduct
<1>3. a = n * (j * k)
  BY <1>1, <1>2
<1>4. j * k \in Nat
  BY <1>1, <1>2
<1>5. (n * (j * k)) % n = 0
  BY <1>4, ProductIsMultiple
<1> QED
  BY <1>3, <1>5

\* Between a number and a multiple above it there is room for its whole unit.
LEMMA RoomForUnit ==
    ASSUME NEW a \in Nat, NEW b \in Nat, NEW n \in Nat \ {0}, a % n = 0, b % n = 0, a < b
    PROVE  a + n <= b
<1>1. PICK k \in Nat : a = n * k
  BY MultipleIsProduct
<1>2. PICK j \in Nat : b = n * j
  BY MultipleIsProduct
<1>3. k + 1 <= j
  <2>1. SUFFICES ASSUME j <= k
                 PROVE  FALSE
    BY <1>1, <1>2
  <2>2. n * j <= n * k
    BY <2>1, <1>1, <1>2
  <2> QED
    BY <2>2, <1>1, <1>2
<1>4. n * (k + 1) <= n * j
  BY <1>3
<1> QED
  BY <1>1, <1>2, <1>4

LEMMA AlignDownFacts ==
    ASSUME NEW a \in Nat, NEW n \in Nat \ {0}
    PROVE  /\ AlignDown(a, n) \in Nat
           /\ AlignDown(a, n) % n = 0
           /\ AlignDown(a, n) <= a /\ a < AlignDown(a, n) + n
           /\ a % n = 0 => AlignDown(a, n) = a
<1>1. a \div n \in Nat /\ a % n \in 0 .. n - 1 /\ a = n * (a \div n) + (a % n)
  BY DivMod
<1>2. AlignDown(a, n) = n * (a \div n)
  BY <1>1 DEF AlignDown
<1>3. (n * (a \div n)) % n = 0
  BY <1>1, ProductIsMultiple
<1>4. AlignDown(a, n) \in Nat /\ AlignDown(a, n) <= a /\ a < AlignDown(a, n) + n
  BY <1>1 DEF AlignDown
<1>5. a % n = 0 => AlignDown(a, n) = a
  BY DEF AlignDown
<1> QED
  BY <1>2, <1>3, <1>4, <1>5

LEMMA AlignUpFacts ==
    ASSUME NEW a \in Nat, NEW n \in Nat \ {0}
    PROVE  /\ AlignUp(a, n) \in Nat
           /\ AlignUp(a, n) % n = 0
           /\ a <= AlignUp(a, n) /\ AlignUp(a, n) < a + n
           /\ a % n = 0 => AlignUp(a, n) = a
           /\ \A b \in Nat : b % n = 0 /\ a <= b => AlignUp(a, n) <= b
<1>1. a + n - 1 \in Nat
  OBVIOUS
<1>2. /\ AlignUp(a, n) \in Nat
      /\ AlignUp(a, n) % n = 0
      /\ AlignUp(a, n) <= a + n - 1 /\ a + n - 1 < AlignUp(a, n) + n
  BY <1>1, AlignDownFacts DEF AlignUp
<1>3. \A b \in Nat : b % n = 0 /\ a <= b => AlignUp(a, n) <= b
  <2>1. SUFFICES ASSUME NEW b \in Nat, b % n = 0, a <= b, b < AlignUp(a, n)
                 PROVE  FALSE
    BY <1>2
  <2>2. b + n <= AlignUp(a, n)
    BY <1>2, <2>1, RoomForUnit
  <2> QED
    BY <1>2, <2>1, <2>2
<1> QED
  BY <1>2, <1>3

\* Aligning behind a multiple.
LEMMA AlignUpShifted ==
    ASSUME NEW a \in Nat, NEW b \in Nat, NEW n \in Nat \ {0}, a % n = 0
    PROVE  AlignUp(a + b, n) = a + AlignUp(b, n)
<1>1. /\ AlignUp(b, n) \in Nat /\ AlignUp(b, n) % n = 0
      /\ b <= AlignUp(b, n) /\ AlignUp(b, n) < b + n
  BY AlignUpFacts
<1>2. a + b \in Nat
  OBVIOUS
<1>3. /\ AlignUp(a + b, n) \in Nat /\ AlignUp(a + b, n) % n = 0
      /\ a + b <= AlignUp(a + b, n)
      /\ \A c \in Nat : c % n = 0 /\ a + b <= c => AlignUp(a + b, n) <= c
  BY <1>2, AlignUpFacts
<1>4. (a + AlignUp(b, n)) % n = 0
  BY <1>1, SumOfMultiples
<1>5. AlignUp(a + b, n) <= a + AlignUp(b, n)
  BY <1>1, <1>3, <1>4
<1>6. SUFFICES ASSUME AlignUp(a + b, n) < a + AlignUp(b, n)
               PROVE  FALSE
  BY <1>1, <1>3, <1>5
<1>7. AlignUp(a + b, n) + n <= a + AlignUp(b, n)
  BY <1>1, <1>3, <1>4, <1>6, RoomForUnit
<1> QED
  BY <1>1, <1>3, <1>7

LEMMA Sizes ==
    /\ BlockSize \in Nat \ {0} /\ CacheSize \in Nat \ {0}
    /\ ReadSize \in Nat \ {0} /\ ProgSize \in Nat \ {0}
    /\ CacheSize <= BlockSize /\ ReadSize <= CacheSize /\ ProgSize <= CacheSize
    /\ CacheSize % ProgSize = 0 /\ BlockSize % ProgSize = 0 /\ BlockSize % ReadSize = 0
<1>1. /\ BlockSize \in Nat \ {0} /\ CacheSize \in Nat \ {0}
      /\ ReadSize \in Nat \ {0} /\ ProgSize \in Nat \ {0}
      /\ CacheSize <= BlockSize /\ ReadSize <= CacheSize /\ ProgSize <= CacheSize
      /\ CacheSize % ProgSize = 0 /\ CacheSize % ReadSize = 0 /\ BlockSize % CacheSize = 0
  BY SizesAssumption
<1>2. BlockSize % ProgSize = 0 /\ BlockSize % ReadSize = 0
  BY <1>1, MultipleOfMultiple
<1> QED
  BY <1>1, <1>2

\* The markers of the model differ from what they are not.
LEMMA Marks ==
    /\ NoBlock \notin Blocks
    /\ Erased \in Values /\ Spoilt \in Values /\ Value \subseteq Values
    /\ "off" \notin Values /\ "empty" \notin Values /\ "done" \notin Values
    /\ None \notin File /\ None \notin Move /\ None \notin Commit /\ None \notin Cell
    /\ \A h \in Hints : h \in Nat \ {0}
BY ValuesAssumption DEF Values

-------------------------------------------------------------------------------
(* Reads. *)

\* What is loaded lies within the block, fits in the cache and has the cell.
LEMMA LoadedFacts ==
    ASSUME NEW b \in Blocks, NEW o \in Cell, NEW h \in Nat \ {0}
    PROVE  /\ Loaded(b, o, h) \in Desc
           /\ Loaded(b, o, h).block = b
           /\ Within(Loaded(b, o, h))
           /\ Holds(Loaded(b, o, h), b, o)
<1> DEFINE off == AlignDown(o, ReadSize)
           end == AlignUp(o + h, ReadSize)
           size == Lesser(Lesser(end, BlockSize) - off, CacheSize)
<1>1. Loaded(b, o, h) = [block |-> b, off |-> off, size |-> size]
  BY DEF Loaded
<1>2. o \in Nat /\ o < BlockSize
  BY Sizes DEF Cell
<1>3. off \in Nat /\ off <= o /\ o < off + ReadSize
  BY <1>2, Sizes, AlignDownFacts
<1>4. o + h \in Nat /\ o + 1 <= o + h
  BY <1>2
<1>5. end \in Nat /\ o + 1 <= end
  BY <1>4, <1>2, Sizes, AlignUpFacts
<1> HIDE DEF off, end
<1>6. size \in 0 .. CacheSize /\ o < off + size /\ off + size <= BlockSize
  BY <1>2, <1>3, <1>5, Sizes DEF Lesser
<1> QED
  BY <1>1, <1>2, <1>3, <1>6, Sizes DEF Desc, Within, Holds, Cell

\* A cell that a descriptor holds has its place in the buffer.
LEMMA SlotOf ==
    ASSUME NEW c \in Desc, NEW b, NEW o \in Cell, Holds(c, b, o)
    PROVE  o - c.off \in Slot /\ o - c.off < c.size /\ c.off + (o - c.off) = o
BY Sizes DEF Desc, Cell, Slot, Holds

Unused(c)     == c.block = NoBlock
IsOf(c, b)    == c.block = b

\* A descriptor with nothing or cells of one block.
Sound(c)      == c \in Desc /\ (~Unused(c) => Within(c))

\* All that the descriptor c says of the buffer buf is true.
True(c, buf)  == \A b \in Blocks, o \in Cell : Holds(c, b, o) => buf[o - c.off] = disk[b][o]

\* A read leaves the cache as it was or has loaded it.
LEMMA ReadLeaves ==
    ASSUME TypeOK, NEW p, NEW r, Sound(r),
           NEW b \in Blocks, NEW o \in Cell, NEW h \in Nat \ {0}
    PROVE  /\ Sound(ReadCache(p, r, b, o, h))
           /\ ReadBuffer(p, r, b, o, h) \in [Slot -> Values]
           /\ ~Unused(r) => ~Unused(ReadCache(p, r, b, o, h))
           /\ ~Holds(p, b, o) => IsOf(ReadCache(p, r, b, o, h), b)
           /\ \/ /\ ReadCache(p, r, b, o, h) = r
                 /\ ReadBuffer(p, r, b, o, h) = rbuf
              \/ /\ ~Holds(p, b, o)
                 /\ True(ReadCache(p, r, b, o, h), ReadBuffer(p, r, b, o, h))
<1> DEFINE r2   == ReadCache(p, r, b, o, h)
           buf2 == ReadBuffer(p, r, b, o, h)
           l    == Loaded(b, o, h)
<1>1. l \in Desc /\ l.block = b /\ Within(l) /\ Holds(l, b, o)
  BY LoadedFacts
<1>2. b # NoBlock
  BY Marks
<1>3. CASE ReadLoads(p, r, b, o)
  <2>1. r2 = l /\ buf2 = [i \in Slot |-> IF i < l.size THEN disk[b][l.off + i] ELSE rbuf[i]]
    BY <1>3 DEF ReadCache, ReadBuffer
  <2>2. ASSUME NEW i \in Slot, i < l.size
        PROVE  l.off + i \in Cell
    BY <1>1, <2>2, Sizes DEF Slot, Cell, Desc, Within
  <2>3. buf2 \in [Slot -> Values]
    BY <2>1, <2>2 DEF TypeOK
  <2>4. ASSUME NEW c \in Blocks, NEW x \in Cell, Holds(l, c, x)
        PROVE  buf2[x - l.off] = disk[c][x]
    <3>1. x - l.off \in Slot /\ x - l.off < l.size /\ l.off + (x - l.off) = x
      BY <1>1, <2>4, SlotOf
    <3>2. c = b
      BY <1>1, <2>4 DEF Holds
    <3> HIDE DEF l, buf2
    <3> QED
      BY <2>1, <3>1, <3>2
  <2>5. Sound(l) /\ ~Unused(l) /\ IsOf(l, b)
    BY <1>1, <1>2 DEF Sound, Unused, IsOf
  <2> HIDE DEF r2, buf2, l
  <2>6. True(r2, buf2)
    BY <2>1, <2>4 DEF True
  <2>7. ~Holds(p, b, o)
    BY <1>3 DEF ReadLoads
  <2> QED
    BY <2>1, <2>3, <2>5, <2>6, <2>7 DEF r2, buf2
<1>4. CASE ~ReadLoads(p, r, b, o)
  <2>1. r2 = r /\ buf2 = rbuf
    BY <1>4 DEF ReadCache, ReadBuffer
  <2>2. ~Holds(p, b, o) => IsOf(r, b)
    BY <1>4 DEF ReadLoads, Holds, IsOf
  <2> QED
    BY <2>1, <2>2 DEF TypeOK
<1> QED
  BY <1>3, <1>4

\* A read returns what was meant when the program cache does or is not asked, and
\* then the device holds it and the read cache is fresh.
LEMMA ReadRight ==
    ASSUME NEW p, NEW r, NEW b, NEW o,
           Holds(p, b, o) => p.data[o] = meant[b][o],
           ~Holds(p, b, o) => AsMeant(b, o) /\ Fresh(r, b, o)
    PROVE  /\ ReadValue(p, r, b, o) = meant[b][o]
           /\ ~Differs(p, r, b, o)
BY DEF ReadValue, Differs, AsMeant, Fresh

-------------------------------------------------------------------------------
(* Programs and flushes. *)

\* What a program cache p for block b holds after the next cell of the block went in.
LEMMA ProgrammedFacts ==
    ASSUME NEW p \in Program, NEW b \in Blocks, NEW at \in Cell, NEW v \in Values,
           Pending(p, b), Ready(p, b, at)
    PROVE  LET q == Programmed(p, b, at, v)
           IN /\ q \in Program /\ q.block = b
              /\ q.off = Start(p, at) /\ q.off % ProgSize = 0
              /\ q.off + q.size = at + 1 /\ q.size >= 1
              /\ Within(q) /\ Holds(q, b, at)
              /\ q.data[at] = v
              /\ \A o \in Cell : o # at => /\ q.data[o] = p.data[o]
                                           /\ Holds(q, b, o) <=> Holds(p, b, o)
<1> DEFINE q == Programmed(p, b, at, v)
<1>1. at \in Nat /\ at < BlockSize /\ b # NoBlock
  BY Sizes, Marks DEF Cell
<1>2. p.off \in Nat /\ p.size \in 0 .. CacheSize /\ p.data \in [Cell -> Values]
  BY DEF Program, Cell
<1>3. SUFFICES /\ q \in Program /\ q.block = b
               /\ q.off = Start(p, at) /\ q.off % ProgSize = 0
               /\ q.off + q.size = at + 1 /\ q.size >= 1
               /\ q.data = [p.data EXCEPT ![at] = v]
               /\ \A o \in Cell : o < at => (Holds(p, b, o) <=> q.off <= o)
               /\ \A o \in Cell : Holds(p, b, o) => o < at
  <2> HIDE DEF q
  <2>1. q.off \in Nat /\ q.size \in Nat
    BY <1>3 DEF Program, Cell
  <2>2. q.off + q.size <= BlockSize /\ q.off <= at /\ at < q.off + q.size
    BY <1>1, <1>3, <2>1, Sizes
  <2>3. \A o \in Cell : o # at => (Holds(q, b, o) <=> Holds(p, b, o))
    BY <1>1, <1>3, <2>1, Sizes DEF Holds, Cell
  <2>4. Within(q) /\ Holds(q, b, at)
    BY <1>3, <2>2 DEF Within, Holds
  <2>5. q.data[at] = v /\ \A o \in Cell : o # at => q.data[o] = p.data[o]
    BY <1>2, <1>3
  <2> QED
    BY <1>3, <2>3, <2>4, <2>5 DEF q
<1>4. [p.data EXCEPT ![at] = v] \in [Cell -> Values]
  BY <1>2
<1>5. CASE p.block = NoBlock
  <2>1. at % ProgSize = 0
    BY <1>5 DEF Ready
  <2>2. AlignDown(at, ProgSize) = at
    BY <1>1, <2>1, Sizes, AlignDownFacts
  <2>3. ~FitsIn(p, b, at)
    BY <1>1, <1>5 DEF FitsIn
  <2>4. q = [block |-> b, off |-> at, size |-> 1, data |-> [p.data EXCEPT ![at] = v]]
    BY <1>1, <2>2, <2>3 DEF Programmed
  <2>5. \A o \in Cell : ~Holds(p, b, o)
    BY <1>1, <1>5 DEF Holds
  <2> HIDE DEF q
  <2>6. q \in Program /\ q.block = b /\ q.off = at /\ q.size = 1 /\ q.data = [p.data EXCEPT ![at] = v]
    BY <1>4, <2>4, Sizes DEF Program
  <2> QED
    BY <1>1, <1>5, <2>1, <2>5, <2>6, Sizes DEF Start, Cell
<1>6. CASE p.block # NoBlock
  <2>1. /\ p.block = b /\ p.off % ProgSize = 0 /\ p.size >= 1
        /\ p.off + p.size = at /\ p.size < CacheSize
    BY <1>6 DEF Pending, Ready
  <2>2. FitsIn(p, b, at)
    BY <1>1, <1>2, <2>1, Sizes DEF FitsIn
  <2>3. at + 1 - p.off = p.size + 1 /\ p.size + 1 \in 0 .. CacheSize
    BY <1>1, <1>2, <2>1, Sizes
  <2>4. q = [block |-> b, off |-> p.off, size |-> p.size + 1,
             data |-> [p.data EXCEPT ![at] = v]]
    BY <1>1, <1>2, <2>2, <2>3 DEF Programmed
  <2> HIDE DEF q
  <2>5. /\ q \in Program /\ q.block = b /\ q.off = p.off /\ q.size = p.size + 1
        /\ q.data = [p.data EXCEPT ![at] = v]
    BY <1>2, <1>4, <2>3, <2>4 DEF Program, Cell
  <2>6. \A o \in Cell : o < at => (Holds(p, b, o) <=> q.off <= o)
    BY <2>1, <2>5 DEF Holds
  <2>7. \A o \in Cell : Holds(p, b, o) => o < at
    BY <2>1 DEF Holds
  <2> QED
    BY <1>1, <1>2, <1>6, <2>1, <2>5, <2>6, <2>7 DEF Start
<1> QED
  BY <1>5, <1>6

\* The cells a flush programs are cells of the block, and few more than were given.
LEMMA FlushFacts ==
    ASSUME NEW p \in Program, p.off % ProgSize = 0, p.size >= 1, Within(p)
    PROVE  /\ FlushEnd(p) \in Nat /\ FlushEnd(p) <= BlockSize
           /\ p.off + p.size <= FlushEnd(p)
           /\ FlushEnd(p) = AlignUp(p.off + p.size, ProgSize)
           /\ FlushEnd(p) % ProgSize = 0
           /\ FlushRange(p) \subseteq Cell
           /\ \A o \in Cell : o \in FlushRange(p) <=> p.off <= o /\ o < FlushEnd(p)
           /\ IsFull(p) => FlushEnd(p) = p.off + p.size
<1>1. p.off \in Nat /\ p.size \in Nat /\ p.size <= CacheSize /\ p.off + p.size <= BlockSize
  BY Sizes DEF Program, Cell, Within
<1>2. /\ AlignUp(p.size, ProgSize) \in Nat /\ AlignUp(p.size, ProgSize) % ProgSize = 0
      /\ p.size <= AlignUp(p.size, ProgSize)
      /\ p.size % ProgSize = 0 => AlignUp(p.size, ProgSize) = p.size
  BY <1>1, Sizes, AlignUpFacts
<1>3. FlushEnd(p) = AlignUp(p.off + p.size, ProgSize)
  BY <1>1, Sizes, AlignUpShifted DEF FlushEnd
<1>4. p.off + p.size \in Nat
  BY <1>1
<1>5. /\ FlushEnd(p) \in Nat /\ FlushEnd(p) % ProgSize = 0 /\ p.off + p.size <= FlushEnd(p)
      /\ \A c \in Nat : c % ProgSize = 0 /\ p.off + p.size <= c => FlushEnd(p) <= c
  BY <1>3, <1>4, Sizes, AlignUpFacts
<1>6. FlushEnd(p) <= BlockSize
  BY <1>1, <1>5, Sizes
<1>7. /\ FlushRange(p) \subseteq Cell
      /\ \A o \in Cell : o \in FlushRange(p) <=> p.off <= o /\ o < FlushEnd(p)
  BY <1>1, <1>5, <1>6, Sizes DEF FlushRange, Cell
<1>8. IsFull(p) => FlushEnd(p) = p.off + p.size
  BY <1>1, <1>2, Sizes DEF IsFull, FlushEnd
<1> QED
  BY <1>3, <1>5, <1>6, <1>7, <1>8

\* What a flush changes on the device, and in what it is meant to hold.
LEMMA FlushWrites ==
    ASSUME TypeOK, NEW p \in Program, p.block \in Blocks, FlushRange(p) \subseteq Cell,
           DeviceTakes(p)
    PROVE  /\ disk' \in [Blocks -> [Cell -> Values]] /\ meant' \in [Blocks -> [Cell -> Values]]
           /\ faults' \in Nat
           /\ \A b \in Blocks, o \in Cell :
                 b # p.block \/ o \notin FlushRange(p) =>
                     disk'[b][o] = disk[b][o] /\ meant'[b][o] = meant[b][o]
           /\ \A o \in Cell : o \in FlushRange(p) => meant'[p.block][o] = p.data[o]
<1>1. PICK bad \in FlushRange(p) \union {None} :
        /\ faults' = IF bad = None THEN faults ELSE faults + 1
        /\ disk' = [disk EXCEPT ![p.block] =
                      [o \in Cell |-> IF o \notin FlushRange(p) THEN disk[p.block][o]
                                      ELSE IF o = bad THEN Spoilt ELSE p.data[o]]]
        /\ meant' = [meant EXCEPT ![p.block] =
                       [o \in Cell |-> IF o \in FlushRange(p) THEN p.data[o]
                                       ELSE meant[p.block][o]]]
  BY DEF DeviceTakes
<1>2. /\ disk \in [Blocks -> [Cell -> Values]] /\ meant \in [Blocks -> [Cell -> Values]]
      /\ faults \in Nat /\ p.data \in [Cell -> Values]
  BY DEF TypeOK, Program
<1>3. [o \in Cell |-> IF o \notin FlushRange(p) THEN disk[p.block][o]
                      ELSE IF o = bad THEN Spoilt ELSE p.data[o]] \in [Cell -> Values]
  BY <1>2, Marks
<1>4. [o \in Cell |-> IF o \in FlushRange(p) THEN p.data[o]
                      ELSE meant[p.block][o]] \in [Cell -> Values]
  BY <1>2
<1>5. faults' \in Nat
  BY <1>1, <1>2
<1>6. disk' \in [Blocks -> [Cell -> Values]] /\ meant' \in [Blocks -> [Cell -> Values]]
  BY <1>1, <1>2, <1>3, <1>4
<1>7. \A b \in Blocks, o \in Cell :
         b # p.block \/ o \notin FlushRange(p) =>
             disk'[b][o] = disk[b][o] /\ meant'[b][o] = meant[b][o]
  BY <1>1, <1>2
<1>8. \A o \in Cell : o \in FlushRange(p) => meant'[p.block][o] = p.data[o]
  BY <1>1, <1>2
<1> QED
  BY <1>5, <1>6, <1>7, <1>8

-------------------------------------------------------------------------------
(* What a step leaves as it is. *)

\* The cell o of block b: nothing that is known of it is lost.
Kept(b, o) ==
    /\ disk'[b][o] = disk[b][o] /\ meant'[b][o] = meant[b][o]
    /\ Fresh(rc, b, o) => Fresh(rc, b, o)'

AllKept == \A b \in Blocks, o \in Cell : Kept(b, o)

\* A read through rcache.
LEMMA ReadRcKeeps ==
    ASSUME TypeOK, Inside, UNCHANGED device,
           NEW p, NEW b \in Blocks, NEW o \in Cell, NEW h \in Nat \ {0}, ReadRc(p, b, o, h)
    PROVE  /\ Sound(rc)' /\ rbuf' \in [Slot -> Values]
           /\ ~Unused(rc) => ~Unused(rc)'
           /\ ~Holds(p, b, o) => IsOf(rc', b)
           /\ Holds(p, b, o) => rc' = rc /\ rbuf' = rbuf
           /\ AllKept
<1>1. Sound(rc) /\ rc' = ReadCache(p, rc, b, o, h) /\ rbuf' = ReadBuffer(p, rc, b, o, h)
  BY DEF TypeOK, Inside, ReadRc, Sound, Unused
<1>2. /\ Sound(rc)' /\ rbuf' \in [Slot -> Values]
      /\ ~Unused(rc) => ~Unused(rc)'
      /\ ~Holds(p, b, o) => IsOf(rc', b)
      /\ \/ rc' = rc /\ rbuf' = rbuf
         \/ ~Holds(p, b, o) /\ True(rc', rbuf')
  BY <1>1, ReadLeaves
<1>3. AllKept
  BY <1>2 DEF AllKept, Kept, Fresh, True, device
<1> QED
  BY <1>1, <1>2, <1>3 DEF ReadCache, ReadBuffer, ReadLoads

LEMMA FileKept ==
    ASSUME FileInv, UNCHANGED <<fc, file>>, Steady' => Steady, TypeOK,
           file # None => \A o \in Cell :
               /\ o < Start(fc, file.at) => Kept(file.block, o)
               /\ Holds(fc, file.block, o) => meant'[file.block][o] = meant[file.block][o]
    PROVE  FileInv'
<1> SUFFICES ASSUME file' # None
             PROVE  FileInv'
  BY DEF FileInv
<1>1. file # None
  OBVIOUS
<1>2. Pending(fc, file.block)'
  BY <1>1 DEF FileInv, Pending
<1>3. \A o \in Cell : o < Start(fc, file.at) =>
          AsMeant(file.block, o)' /\ Fresh(rc, file.block, o)'
  BY <1>1 DEF FileInv, Kept, AsMeant
<1> QED
  BY <1>1, <1>2, <1>3 DEF FileInv, Start, Ready

LEMMA MoveKept ==
    ASSUME TypeOK, MoveInv, UNCHANGED <<pc, move>>,
           move # None => /\ step' = "run" => step = "run"
                          /\ step' = "check" => step = "check" /\ file' = file,
           move # None => \A o \in Cell :
               /\ o < Start(pc, move.at) => Kept(move.block, o)
               /\ Holds(pc, move.block, o) => meant'[move.block][o] = meant[move.block][o]
    PROVE  MoveInv'
<1> SUFFICES ASSUME move' # None
             PROVE  MoveInv'
  BY DEF MoveInv
<1>1. move # None
  OBVIOUS
<1>2. Pending(pc, move.block)'
  BY <1>1 DEF MoveInv, Pending
<1>3. \A o \in Cell : o < Start(pc, move.at) =>
          AsMeant(move.block, o)' /\ Fresh(rc, move.block, o)'
  BY <1>1 DEF MoveInv, Kept, AsMeant
<1> QED
  BY <1>1, <1>2, <1>3 DEF MoveInv, Start, Ready

LEMMA CommitKept ==
    ASSUME TypeOK, CommitInv, UNCHANGED <<pc, commit, step, pos>>,
           commit # None => \A o \in Cell : Kept(commit.block, o)
    PROVE  CommitInv'
<1> SUFFICES ASSUME commit' # None
             PROVE  CommitInv'
  BY DEF CommitInv
<1>1. commit # None /\ commit \in Commit
  BY DEF TypeOK
<1>2. Pending(pc, commit.block)'
  BY <1>1 DEF CommitInv, Pending, Kept
<1>3. \A o \in Cell : /\ AsMeant(commit.block, o) => AsMeant(commit.block, o)'
                      /\ Fresh(rc, commit.block, o) => Fresh(rc, commit.block, o)'
  BY <1>1 DEF Kept, AsMeant
<1>4. /\ \A o \in commit.at .. BlockSize - 1 : o \in Cell
      /\ pos <= commit.at => \A o \in commit.start .. pos - 1 : o \in Cell
      /\ \A o \in AlignUp(commit.at, ProgSize) .. BlockSize - 1 : o \in Cell
  <2>1. commit.at \in Nat /\ commit.start \in Nat /\ pos \in Nat /\ commit.at <= BlockSize
    BY <1>1, Sizes DEF Commit, TypeOK
  <2>2. AlignUp(commit.at, ProgSize) \in Nat
    BY <2>1, Sizes, AlignUpFacts
  <2> QED
    BY <2>1, <2>2, Sizes DEF Cell
<1>5. CASE step = "run"
  BY <1>1, <1>2, <1>3, <1>4, <1>5 DEF CommitInv, Start, Ready
<1>6. CASE step = "verify"
  BY <1>1, <1>2, <1>3, <1>4, <1>6 DEF CommitInv
<1>7. CASE step \notin {"run", "verify"}
  BY <1>1, <1>2, <1>7 DEF CommitInv
<1> QED
  BY <1>5, <1>6, <1>7

LEMMA AppendableKept ==
    ASSUME TypeOK, Appendable,
           \A b \in Blocks :
              next'[b] < BlockSize => next'[b] = next[b] /\ settled'[b] \subseteq settled[b],
           commit # None <=> commit' # None,
           commit # None => commit'.block = commit.block /\ commit'.start = commit.start,
           \A b \in Blocks, o \in Cell :
              next'[b] <= o /\ (commit = None \/ commit.block # b) => Kept(b, o)
    PROVE  Appendable'
<1>1. ASSUME NEW b \in Blocks, next'[b] < BlockSize, commit = None \/ commit.block # b
      PROVE  \A o \in next'[b] .. BlockSize - 1 :
                 /\ AsMeant(b, o) => AsMeant(b, o)'
                 /\ Fresh(rc, b, o) => Fresh(rc, b, o)'
  <2>1. \A o \in next'[b] .. BlockSize - 1 : o \in Cell /\ next'[b] <= o
    BY <1>1, Sizes DEF TypeOK, Cell
  <2> QED
    BY <1>1, <2>1 DEF Kept, AsMeant
<1> QED
  BY <1>1 DEF Appendable

LEMMA SettledKept ==
    ASSUME TypeOK, WrittenHolds, ReadFresh,
           \A b \in Blocks : settled'[b] \subseteq settled[b],
           \A b \in Blocks : \A o \in settled'[b] : Kept(b, o)
    PROVE  WrittenHolds' /\ ReadFresh'
<1>1. \A b \in Blocks : \A o \in settled'[b] : AsMeant(b, o)' /\ Fresh(rc, b, o)'
  BY DEF WrittenHolds, ReadFresh, Kept, AsMeant
<1> QED
  BY <1>1 DEF WrittenHolds, ReadFresh, AsMeant

\* The handle that the rest of a file is read with.
LEMMA CopyKept ==
    ASSUME TypeOK, FileInv, CopyFresh, UNCHANGED <<orig, hand, file, fc, settled>>,
           step' = "run" => step = "run",
           hand = "empty" => rc'.block = NoBlock,
           hand # "off" /\ rc'.block = NoBlock /\ step' = "run" =>
               /\ rc.block = NoBlock /\ rbuf' = rbuf
               /\ \A b \in Blocks : \A o \in settled[b] : disk'[b][o] = disk[b][o]
               /\ file # None => \A o \in Cell :
                    o < Start(fc, file.at) => disk'[file.block][o] = disk[file.block][o]
    PROVE  CopyFresh'
BY DEF CopyFresh, Fresh, Start

\* The program cache whose flush is checked.
LEMMA CheckedFacts ==
    ASSUME TypeOK, Owners, FileInv, MoveInv, CheckInv, step = "check"
    PROVE  /\ commit = None /\ file # None /\ file \in File
           /\ Checked \in Program
           /\ Checked.block = (IF move = None THEN file.block ELSE move.block)
           /\ Checked.block \in Blocks
           /\ Checked.off % ProgSize = 0 /\ Checked.size >= 1 /\ Within(Checked)
           /\ \A o \in Cell : Holds(Checked, Checked.block, o) =>
                 Checked.data[o] = meant[Checked.block][o]
<1>1. commit = None /\ file # None /\ file \in File /\ Checked \in Program
  BY DEF TypeOK, Owners, Checked
<1>2. Checked.block # NoBlock
  BY DEF CheckInv
<1>3. CASE move = None
  <2>1. Pending(fc, file.block) /\ Checked = fc
    BY <1>1, <1>3 DEF FileInv, Checked
  <2> QED
    BY <1>1, <1>2, <1>3, <2>1 DEF Pending, File
<1>4. CASE move # None
  <2>1. Pending(pc, move.block) /\ Checked = pc /\ move \in Move
    BY <1>1, <1>4 DEF MoveInv, Checked, TypeOK
  <2> QED
    BY <1>1, <1>2, <1>4, <2>1 DEF Pending, Move
<1> QED
  BY <1>3, <1>4

LEMMA CheckKept ==
    ASSUME TypeOK, Owners, FileInv, MoveInv, CheckInv,
           UNCHANGED <<fc, pc, file, move, commit, step, pos>>,
           rc.block # NoBlock => rc'.block # NoBlock,
           step = "check" => \A o \in Cell : Kept(Checked.block, o)
    PROVE  CheckInv'
<1>1. CASE step = "check"
  <2>1. /\ Checked \in Program /\ Checked.block \in Blocks
        /\ Checked.off % ProgSize = 0 /\ Checked.size >= 1 /\ Within(Checked)
    BY <1>1, CheckedFacts
  <2>2. Checked' = Checked
    BY DEF Checked
  <2>3. \A o \in Checked.off .. pos - 1 : o \in Cell
    <3>1. pos <= FlushEnd(Checked)
      BY <1>1 DEF CheckInv
    <3>2. FlushEnd(Checked) <= BlockSize /\ FlushEnd(Checked) \in Nat
      BY <2>1, FlushFacts
    <3> QED
      BY <2>1, <3>1, <3>2, Sizes DEF Cell, Program, TypeOK
  <2> QED
    BY <1>1, <2>2, <2>3 DEF CheckInv, Kept
<1>2. CASE step # "check"
  BY <1>2 DEF CheckInv
<1> QED
  BY <1>1, <1>2

\* A read through rcache of what is known leaves the invariant true.
LEMMA ReadStep ==
    ASSUME IInv, UNCHANGED <<device, ends, orig, pc, fc, file, calls, step, pos, erases>>,
           faults' \in Nat, wrong' = FALSE, hand # "empty",
           NEW p, NEW b \in Blocks, NEW o \in Cell, NEW h \in Nat \ {0}, ReadRc(p, b, o, h)
    PROVE  IInv'
<1>1. TypeOK /\ Inside
  BY DEF IInv
<1>2. UNCHANGED <<disk, meant, settled, next, orig, pc, fc, file, move, commit, hand,
                  step, pos, erases>>
  BY DEF device, ends, calls
<1>3. /\ Sound(rc)' /\ rbuf' \in [Slot -> Values]
      /\ ~Unused(rc) => ~Unused(rc)'
      /\ ~Holds(p, b, o) => IsOf(rc', b)
      /\ Holds(p, b, o) => rc' = rc /\ rbuf' = rbuf
      /\ AllKept
  BY <1>1, ReadRcKeeps
<1>4. rc'.block = NoBlock => rc.block = NoBlock /\ rbuf' = rbuf
  BY <1>3, Marks DEF Unused, IsOf
<1>5. TypeOK' /\ Inside'
  BY <1>1, <1>2, <1>3 DEF TypeOK, Inside, Sound, Unused
<1>6. \A c \in Blocks, x \in Cell : Kept(c, x)
  BY <1>3 DEF AllKept
<1>7. \A c \in Blocks : settled[c] \subseteq Cell
  BY <1>1 DEF TypeOK
<1>8. /\ file # None => file.block \in Blocks
      /\ move # None => move.block \in Blocks
      /\ commit # None => commit.block \in Blocks
  BY <1>1 DEF TypeOK, File, Move, Commit
<1>9. WrittenHolds' /\ ReadFresh'
  BY <1>1, <1>2, <1>6, <1>7, SettledKept DEF IInv
<1>10. Owners'
  BY <1>2 DEF IInv, Owners, FileBlock
<1>11. Appendable'
  BY <1>1, <1>2, <1>6, AppendableKept DEF IInv
<1>12. CopyFresh'
  <2>1. hand # "empty"
    OBVIOUS
  <2> QED
    BY <1>1, <1>2, <1>4, CopyKept DEF IInv
<1>13. FileInv'
  BY <1>1, <1>2, <1>6, <1>8, FileKept DEF IInv, Idle, Steady, Kept
<1>14. MoveInv'
  BY <1>1, <1>2, <1>6, <1>8, MoveKept DEF IInv, Kept
<1>15. CommitInv'
  BY <1>1, <1>2, <1>6, <1>8, CommitKept DEF IInv
<1>16. CheckInv'
  <2>1. step = "check" => Checked.block \in Blocks
    BY <1>1, CheckedFacts DEF IInv
  <2>2. step = "check" => \A x \in Cell : Kept(Checked.block, x)
    BY <1>6, <2>1
  <2> QED
    BY <1>1, <1>2, <1>3, <2>2, CheckKept DEF IInv, Unused
<1> QED
  BY <1>5, <1>9, <1>10, <1>11, <1>12, <1>13, <1>14, <1>15, <1>16 DEF IInv, ReadsLast

LEMMA InitHolds == Init => IInv
<1> SUFFICES ASSUME Init
             PROVE  IInv
  OBVIOUS
<1> USE DEF Init
<1>1. Blank \in [Cell -> Values] /\ Zeroed \in Program /\ NoDesc \in Desc
  BY Sizes, Marks DEF Blank, Zeroed, NoDesc, Program, Desc, Cell
<1>2. Zeroed.block = NoBlock /\ NoDesc.block = NoBlock
  BY DEF Zeroed, NoDesc
<1>3. TypeOK
  <2>1. disk \in [Blocks -> [Cell -> Values]] /\ meant \in [Blocks -> [Cell -> Values]]
    BY <1>1
  <2>2. settled \in [Blocks -> SUBSET Cell] /\ next \in [Blocks -> 0 .. BlockSize]
    BY Sizes
  <2>3. rc \in Desc /\ orig \in Desc /\ rbuf \in [Slot -> Values] /\ pc \in Program /\ fc \in Program
    BY <1>1, Marks
  <2>4. /\ file = None /\ move = None /\ commit = None
        /\ hand \in Values \union {"off", "empty", "done"}
        /\ step \in {"run", "check", "verify", "bad"} /\ wrong \in BOOLEAN
    OBVIOUS
  <2>5. pos \in 0 .. BlockSize /\ faults \in Nat /\ erases \in Nat
    BY Sizes
  <2> QED
    BY <2>1, <2>2, <2>3, <2>4, <2>5 DEF TypeOK
<1>4. Inside
  BY <1>2 DEF Inside
<1>5. Owners
  BY <1>2 DEF Owners
<1>6. Appendable
  BY Sizes DEF Appendable
<1>7. ReadsLast /\ WrittenHolds /\ ReadFresh /\ CopyFresh
  BY DEF ReadsLast, WrittenHolds, ReadFresh, CopyFresh
<1>8. FileInv /\ MoveInv /\ CommitInv /\ CheckInv
  BY DEF FileInv, MoveInv, CommitInv, CheckInv
<1> QED
  BY <1>3, <1>4, <1>5, <1>6, <1>7, <1>8 DEF IInv

\* Nothing is found in a cache that is not asked.
LEMMA ZeroedHoldsNone ==
    \A b \in Blocks, o \in Cell : ~Holds(Zeroed, b, o)
BY Marks DEF Zeroed, Holds

\* Types of what the steps speak of.
LEMMA BlocksOf ==
    ASSUME TypeOK
    PROVE  /\ file # None => file.block \in Blocks /\ file.at \in Nat /\ file.at <= BlockSize
           /\ move # None => move.block \in Blocks /\ move.at \in Nat /\ move.at <= BlockSize
           /\ commit # None => /\ commit.block \in Blocks /\ commit.at \in Nat
                               /\ commit.at <= BlockSize /\ commit.start \in Nat
           /\ \A b \in Blocks : settled[b] \subseteq Cell /\ next[b] \in Nat
BY Sizes DEF TypeOK, File, Move, Commit

\* What is known of the cells of a file that is written: those before Start are on
\* the device, the others in its program cache.
LEMMA OfFile ==
    ASSUME TypeOK, FileInv, file # None, NEW o \in Cell, o < file.at
    PROVE  /\ Holds(fc, file.block, o) => fc.data[o] = meant[file.block][o]
           /\ ~Holds(fc, file.block, o) =>
                 o < Start(fc, file.at) /\ AsMeant(file.block, o) /\ Fresh(rc, file.block, o)
<1>1. file.block \in Blocks /\ file.at \in Nat
  BY BlocksOf
<1>2. /\ Pending(fc, file.block)
      /\ fc.block # NoBlock => file.at <= fc.off + fc.size
      /\ \A x \in Cell : x < Start(fc, file.at) =>
            AsMeant(file.block, x) /\ Fresh(rc, file.block, x)
  BY DEF FileInv
<1>3. Holds(fc, file.block, o) => fc.data[o] = meant[file.block][o]
  BY <1>2 DEF Pending, Holds
<1>4. ~Holds(fc, file.block, o) => o < Start(fc, file.at)
  BY <1>1, <1>2, Sizes, Marks DEF Pending, Holds, Start, Program, TypeOK, Cell
<1> QED
  BY <1>2, <1>3, <1>4

LEMMA LookupStep ==
    ASSUME IInv, NEW b \in Blocks, NEW o \in Cell, NEW h \in Hints, Lookup(b, o, h)
    PROVE  IInv'
<1>1. TypeOK /\ WrittenHolds /\ ReadFresh /\ ReadsLast
  BY DEF IInv
<1>2. ~Differs(Zeroed, rc, b, o)
  <2>1. AsMeant(b, o) /\ Fresh(rc, b, o)
    BY <1>1 DEF Lookup, WrittenHolds, ReadFresh, AsMeant
  <2> QED
    BY <2>1, ZeroedHoldsNone, ReadRight
<1>3. wrong' = FALSE
  BY <1>1, <1>2 DEF Lookup, ReadsLast
<1>4. h \in Nat \ {0}
  BY Marks
<1>5. /\ UNCHANGED <<device, ends, orig, pc, fc, file, calls, step, pos, erases>>
      /\ faults' \in Nat /\ hand # "empty" /\ ReadRc(Zeroed, b, o, h)
  BY <1>1 DEF Lookup, TypeOK
<1> QED
  BY <1>3, <1>4, <1>5, ReadStep

LEMMA LookupOwnStep ==
    ASSUME IInv, NEW o \in Cell, NEW h \in Hints, LookupOwn(o, h)
    PROVE  IInv'
<1>1. TypeOK /\ FileInv /\ ReadsLast
  BY DEF IInv
<1>2. file # None /\ o < file.at /\ file.block \in Blocks
  BY <1>1, BlocksOf DEF LookupOwn
<1>3. ~Differs(fc, rc, file.block, o)
  BY <1>1, <1>2, OfFile, ReadRight
<1>4. wrong' = FALSE
  BY <1>1, <1>3 DEF LookupOwn, ReadsLast
<1>5. h \in Nat \ {0}
  BY Marks
<1>6. /\ UNCHANGED <<device, ends, orig, pc, fc, file, calls, step, pos, erases>>
      /\ faults' \in Nat /\ hand # "empty" /\ ReadRc(fc, file.block, o, h)
  BY <1>1 DEF LookupOwn, TypeOK
<1> QED
  BY <1>2, <1>4, <1>5, <1>6, ReadStep

LEMMA CommitPeekStep ==
    ASSUME IInv, NEW h \in Hints, CommitPeek(h)
    PROVE  IInv'
<1> DEFINE b    == commit.block
           noff == AlignUp(commit.at + 1, ProgSize)
<1>1. TypeOK /\ Owners /\ CommitInv /\ ReadsLast
  BY DEF IInv
<1>2. commit # None /\ step = "run" /\ noff < BlockSize
  BY DEF CommitPeek, MayCommit
<1>3. b \in Blocks /\ commit.at \in Nat
  BY <1>1, <1>2, BlocksOf
<1>4. commit.at + 1 \in Nat
  BY <1>3
<1>5. noff \in Nat /\ commit.at + 1 <= noff
  BY <1>4, Sizes, AlignUpFacts
<1> HIDE DEF noff
<1>6. noff \in Cell /\ noff \in commit.at .. BlockSize - 1
  BY <1>2, <1>3, <1>5, Sizes DEF Cell
<1>7. AsMeant(b, noff) /\ Fresh(rc, b, noff)
  BY <1>1, <1>2, <1>6 DEF CommitInv
<1>8. ~Differs(Zeroed, rc, b, noff)
  BY <1>3, <1>6, <1>7, ZeroedHoldsNone, ReadRight
<1>9. wrong' = FALSE
  BY <1>1, <1>8 DEF CommitPeek, ReadsLast, noff
<1>10. h \in Nat \ {0}
  BY Marks
<1>11. hand # "empty"
  BY <1>1, <1>2 DEF Owners
<1>12. /\ UNCHANGED <<device, ends, orig, pc, fc, file, calls, step, pos, erases>>
       /\ faults' \in Nat /\ ReadRc(Zeroed, b, noff, h)
  BY <1>1 DEF CommitPeek, TypeOK, noff
<1> QED
  BY <1>3, <1>6, <1>9, <1>10, <1>11, <1>12, ReadStep

\* A step that loses nothing of any cell and leaves the owners' records as they are.
LEMMA WhenAllKept ==
    ASSUME IInv, AllKept, UNCHANGED <<settled, next, pc, fc, file, move, commit>>,
           Steady' => Steady,
           move # None => /\ step' = "run" => step = "run"
                          /\ step' = "check" => step = "check"
    PROVE  WrittenHolds' /\ ReadFresh' /\ Appendable' /\ FileInv' /\ MoveInv'
<1>1. TypeOK
  BY DEF IInv
<1>2. \A c \in Blocks, x \in Cell : Kept(c, x)
  BY DEF AllKept
<1>3. WrittenHolds' /\ ReadFresh'
  BY <1>1, <1>2, BlocksOf, SettledKept DEF IInv
<1>4. Appendable'
  BY <1>1, <1>2, AppendableKept DEF IInv
<1>5. FileInv'
  BY <1>1, <1>2, BlocksOf, FileKept DEF IInv, Kept
<1>6. MoveInv'
  BY <1>1, <1>2, BlocksOf, MoveKept DEF IInv, Kept
<1> QED
  BY <1>3, <1>4, <1>5, <1>6

LEMMA CopyReadStep ==
    ASSUME IInv, NEW b \in Blocks, NEW o \in Cell, NEW h \in Hints, CopyRead(b, o, h)
    PROVE  IInv'
<1>1. TypeOK /\ Inside /\ Owners /\ WrittenHolds /\ CopyFresh /\ ReadsLast
  BY DEF IInv
<1>2. hand = "empty" /\ o \in settled[b] /\ hand' \in Values
  BY DEF CopyRead
<1>3. UNCHANGED <<disk, meant, settled, next, rc, pc, fc, file, move, commit, step, pos,
                  faults, erases>>
  BY DEF CopyRead, device, ends
<1>4. step = "run" /\ move = None /\ commit = None /\ rc.block = NoBlock
  BY <1>1, <1>2 DEF Owners, CopyFresh
<1>5. hand' \notin {"off", "empty", "done"}
  BY <1>2, Marks
<1>6. Fresh(orig, b, o) /\ AsMeant(b, o)
  BY <1>1, <1>2, <1>4 DEF CopyFresh, WrittenHolds, AsMeant
<1>7. wrong' = FALSE
  <2>1. ~Differs(Zeroed, orig, b, o)
    BY <1>6, ZeroedHoldsNone, ReadRight
  <2> QED
    BY <1>1, <2>1 DEF CopyRead, ReadsLast
<1>8. Sound(orig) /\ h \in Nat \ {0}
  BY <1>1, Marks DEF TypeOK, Inside, Sound, Unused
<1>9. /\ Sound(orig)' /\ rbuf' \in [Slot -> Values]
      /\ \/ orig' = orig /\ rbuf' = rbuf
         \/ True(orig', rbuf')
  BY <1>1, <1>8, ReadLeaves DEF CopyRead
<1>10. TypeOK' /\ Inside'
  BY <1>1, <1>2, <1>3, <1>7, <1>9 DEF TypeOK, Inside, Sound, Unused
<1>11. AllKept
  BY <1>3, <1>4, Marks DEF AllKept, Kept, Fresh, Holds
<1>12. WrittenHolds' /\ ReadFresh' /\ Appendable' /\ FileInv' /\ MoveInv'
  BY <1>3, <1>11, WhenAllKept DEF Idle, Steady
<1>13. Owners'
  BY <1>1, <1>3, <1>4, <1>5 DEF Owners, FileBlock
<1>14. CopyFresh'
  <2>1. \A c \in Blocks, x \in Cell : Fresh(orig, c, x) => Fresh(orig, c, x)'
    BY <1>3, <1>9 DEF Fresh, True
  <2>2. /\ \A c \in Blocks : \A x \in settled[c] : Fresh(orig, c, x)
        /\ file # None => \A x \in Cell :
              x < Start(fc, file.at) => Fresh(orig, file.block, x)
    BY <1>1, <1>2, <1>4 DEF CopyFresh
  <2> QED
    BY <1>1, <1>3, <1>4, <2>1, <2>2, BlocksOf DEF CopyFresh, Start
<1>15. CommitInv' /\ CheckInv'
  BY <1>3, <1>4 DEF CommitInv, CheckInv
<1> QED
  BY <1>7, <1>10, <1>12, <1>13, <1>14, <1>15 DEF IInv, ReadsLast

LEMMA CheckCellStep ==
    ASSUME IInv, CheckCell
    PROVE  IInv'
<1> DEFINE w == Checked
           b == w.block
<1>1. TypeOK /\ Inside /\ Owners /\ CheckInv /\ FileInv /\ MoveInv /\ CopyFresh
  BY DEF IInv
<1>2. step = "check" /\ pos < FlushEnd(w) /\ ReadRc(Zeroed, b, pos, FlushEnd(w) - pos)
  BY DEF CheckCell
<1>3. UNCHANGED <<disk, meant, settled, next, orig, pc, fc, file, move, commit, hand,
                  wrong, faults, erases>>
  BY DEF CheckCell, device, ends, calls
<1>4. /\ commit = None /\ file # None /\ w \in Program /\ b \in Blocks
      /\ w.off % ProgSize = 0 /\ w.size >= 1 /\ Within(w)
  BY <1>1, <1>2, CheckedFacts
<1>5. FlushEnd(w) \in Nat /\ FlushEnd(w) <= BlockSize
  BY <1>4, FlushFacts
<1>6. pos \in Cell /\ FlushEnd(w) - pos \in Nat \ {0} /\ w.off \in Nat
  BY <1>1, <1>2, <1>4, <1>5, Sizes DEF TypeOK, Cell, Program
<1>7. /\ Sound(rc)' /\ rbuf' \in [Slot -> Values] /\ IsOf(rc', b) /\ AllKept
  <2> HIDE DEF w, b
  <2>1. UNCHANGED device
    BY <1>3 DEF device
  <2> QED
    BY <1>1, <1>2, <1>4, <1>6, <2>1, ZeroedHoldsNone, ReadRcKeeps
<1>8. rc'.block # NoBlock
  BY <1>4, <1>7, Marks DEF IsOf
<1>9. ReadValue(Zeroed, rc, b, pos) = disk[b][pos]
  <2>1. ~Holds(Zeroed, b, pos)
    BY <1>4, <1>6, ZeroedHoldsNone
  <2>2. Fresh(rc, b, pos)
    BY <1>1, <1>2, <1>6 DEF CheckInv
  <2> QED
    BY <2>1, <2>2 DEF ReadValue, Fresh
<1>10. \/ pos' = pos + 1 /\ step' = step /\ disk[b][pos] = w.data[pos]
       \/ step' = "bad" /\ pos' = pos
  BY <1>9 DEF CheckCell
<1>11. TypeOK' /\ Inside'
  <2>1. step' \in {"run", "check", "verify", "bad"}
    BY <1>1, <1>10 DEF TypeOK
  <2>2. pos' \in 0 .. BlockSize
    BY <1>2, <1>5, <1>6, <1>10, Sizes DEF Cell
  <2> QED
    BY <1>1, <1>3, <1>7, <2>1, <2>2 DEF TypeOK, Inside, Sound, Unused
<1>12. WrittenHolds' /\ ReadFresh' /\ Appendable' /\ FileInv' /\ MoveInv'
  BY <1>2, <1>3, <1>7, <1>10, WhenAllKept DEF Idle, Steady
<1>13. Owners'
  BY <1>1, <1>2, <1>3, <1>4, <1>10 DEF Owners, FileBlock
<1>14. CopyFresh'
  BY <1>1, <1>2, <1>3, <1>10 DEF Owners, CopyFresh
<1>15. CommitInv'
  BY <1>3, <1>4 DEF CommitInv
<1>16. CheckInv'
  <2>1. Checked' = w
    BY <1>3 DEF Checked
  <2>2. \A o \in Cell : Fresh(rc, b, o)'
    BY <1>1, <1>2, <1>4, <1>7, <2>1 DEF CheckInv, AllKept, Kept
  <2>3. ASSUME step' = "check"
        PROVE  /\ w.off <= pos' /\ pos' <= FlushEnd(w)
               /\ \A o \in w.off .. pos' - 1 : disk[b][o] = w.data[o]
    <3>1. pos' = pos + 1 /\ disk[b][pos] = w.data[pos]
      BY <1>10, <2>3
    <3>2. w.off <= pos /\ \A o \in w.off .. pos - 1 : disk[b][o] = w.data[o]
      BY <1>1, <1>2 DEF CheckInv
    <3> QED
      BY <1>2, <1>5, <1>6, <3>1, <3>2, Sizes DEF Cell
  <2>4. b # NoBlock /\ (IsFull(w) \/ (move = None /\ file.last))
    BY <1>1, <1>2 DEF CheckInv
  <2>5. \/ step' = "check" /\ file' = file /\ move' = move
        \/ step' = "bad"
    BY <1>2, <1>3, <1>10
  <2>6. /\ FlushEnd(Checked)' = FlushEnd(w)
        /\ \A o \in Cell : Fresh(rc, Checked.block, o)'
        /\ IsFull(Checked)' <=> IsFull(w)
    BY <2>1, <2>2 DEF FlushEnd, IsFull
  <2> HIDE DEF w
  <2>7. CASE step' = "check"
    BY <1>3, <1>8, <2>1, <2>3, <2>4, <2>5, <2>6, <2>7 DEF CheckInv
  <2>8. CASE step' = "bad"
    BY <1>8, <2>8 DEF CheckInv
  <2> QED
    BY <2>5, <2>7, <2>8
<1>17. ReadsLast'
  BY <1>3 DEF IInv, ReadsLast
<1> QED
  BY <1>11, <1>12, <1>13, <1>14, <1>15, <1>16, <1>17 DEF IInv

LEMMA VerifyCellStep ==
    ASSUME IInv, VerifyCell
    PROVE  IInv'
<1> DEFINE b == commit.block
<1>1. TypeOK /\ Inside /\ Owners /\ CommitInv /\ CopyFresh
  BY DEF IInv
<1>2. step = "verify" /\ pos < commit.at /\ ReadRc(Zeroed, b, pos, commit.at - pos)
  BY DEF VerifyCell
<1>3. UNCHANGED <<disk, meant, settled, next, orig, pc, fc, file, move, commit, hand,
                  wrong, faults, erases>>
  BY DEF VerifyCell, device, ends, calls
<1>4. commit # None /\ hand = "off" /\ move = None
  BY <1>1, <1>2 DEF Owners
<1>5. b \in Blocks /\ commit.at \in Nat /\ commit.at <= BlockSize /\ commit.start \in Nat
  BY <1>1, <1>4, BlocksOf
<1>6. pos \in Cell /\ commit.at - pos \in Nat \ {0}
  BY <1>1, <1>2, <1>5, Sizes DEF TypeOK, Cell
<1>7. Sound(rc)' /\ rbuf' \in [Slot -> Values] /\ AllKept
  <2>1. UNCHANGED device
    BY <1>3 DEF device
  <2> QED
    BY <1>1, <1>2, <1>5, <1>6, <2>1, ReadRcKeeps
<1>8. ReadValue(Zeroed, rc, b, pos) = disk[b][pos]
  <2>1. ~Holds(Zeroed, b, pos)
    BY <1>5, <1>6, ZeroedHoldsNone
  <2>2. Fresh(rc, b, pos)
    BY <1>1, <1>2, <1>4, <1>6 DEF CommitInv
  <2> QED
    BY <2>1, <2>2 DEF ReadValue, Fresh
<1>9. \/ pos' = pos + 1 /\ step' = step /\ disk[b][pos] = meant[b][pos]
      \/ step' = "bad" /\ pos' = pos
  BY <1>8 DEF VerifyCell
<1>10. TypeOK' /\ Inside'
  <2>1. step' \in {"run", "check", "verify", "bad"}
    BY <1>1, <1>9 DEF TypeOK
  <2>2. pos' \in 0 .. BlockSize
    BY <1>2, <1>5, <1>6, <1>9, Sizes DEF Cell
  <2> QED
    BY <1>1, <1>3, <1>7, <2>1, <2>2 DEF TypeOK, Inside, Sound, Unused
<1>11. WrittenHolds' /\ ReadFresh' /\ Appendable' /\ FileInv' /\ MoveInv'
  BY <1>2, <1>3, <1>4, <1>7, <1>9, WhenAllKept DEF Idle, Steady
<1>12. Owners'
  BY <1>1, <1>2, <1>3, <1>4, <1>9 DEF Owners, FileBlock
<1>13. CopyFresh'
  BY <1>3, <1>4 DEF CopyFresh
<1>14. CommitInv'
  <2>1. Pending(pc, b)'
    BY <1>1, <1>3, <1>4 DEF CommitInv, Pending
  <2>2. \A o \in Cell : Fresh(rc, b, o)' /\ (AsMeant(b, o)' <=> AsMeant(b, o))
    BY <1>1, <1>2, <1>3, <1>4, <1>5, <1>7 DEF CommitInv, AllKept, Kept, AsMeant
  <2>3. CASE step' = "bad"
    BY <1>3, <2>1, <2>3 DEF CommitInv
  <2>4. CASE step' # "bad"
    <3>1. pos' = pos + 1 /\ step' = "verify" /\ AsMeant(b, pos)
      BY <1>2, <1>9, <2>4 DEF AsMeant
    <3>2. /\ commit.start <= pos /\ pc.block = NoBlock
          /\ \A o \in commit.start .. pos - 1 : AsMeant(b, o)
          /\ \A o \in AlignUp(commit.at, ProgSize) .. BlockSize - 1 : AsMeant(b, o)
      BY <1>1, <1>2, <1>4 DEF CommitInv
    <3>3. ASSUME NEW o \in commit.start .. pos' - 1
          PROVE  AsMeant(b, o)'
      <4>1. o = pos \/ o \in commit.start .. pos - 1
        BY <1>5, <1>6, <3>1, Sizes DEF Cell
      <4> QED
        BY <1>3, <3>1, <3>2, <4>1 DEF AsMeant
    <3>4. \A o \in AlignUp(commit.at, ProgSize) .. BlockSize - 1 : AsMeant(b, o)'
      BY <1>3, <3>2 DEF AsMeant
    <3>5. commit.start <= pos' /\ pos' <= commit.at
      BY <1>2, <1>5, <1>6, <3>1, <3>2, Sizes DEF Cell
    <3> QED
      BY <1>3, <2>1, <2>2, <3>1, <3>2, <3>3, <3>4, <3>5 DEF CommitInv
  <2> QED
    BY <2>3, <2>4
<1>15. CheckInv'
  BY <1>2, <1>3, <1>4, <1>9 DEF CheckInv
<1>16. ReadsLast'
  BY <1>3 DEF IInv, ReadsLast
<1> QED
  BY <1>10, <1>11, <1>12, <1>13, <1>14, <1>15, <1>16 DEF IInv

LEMMA DroppedFacts ==
    /\ \A c \in Desc : Dropped(c) \in Desc /\ Dropped(c).block = NoBlock
    /\ \A p \in Program : Dropped(p) \in Program /\ Dropped(p).block = NoBlock
    /\ Zeroed \in Program /\ Zeroed.block = NoBlock
<1>1. 0 \in Cell /\ 0 \in 0 .. CacheSize
  BY Sizes DEF Cell
<1>2. ASSUME NEW c \in Desc
      PROVE  Dropped(c) \in Desc /\ Dropped(c).block = NoBlock
  <2>1. Dropped(c) \in Desc
    BY <1>1 DEF Dropped, Desc
  <2>2. Dropped(c).block = NoBlock
    BY DEF Dropped, Desc
  <2> QED
    BY <2>1, <2>2
<1>3. ASSUME NEW p \in Program
      PROVE  Dropped(p) \in Program /\ Dropped(p).block = NoBlock
  <2>1. Dropped(p) \in Program
    BY <1>1 DEF Dropped, Program
  <2>2. Dropped(p).block = NoBlock
    BY DEF Dropped, Program
  <2> QED
    BY <2>1, <2>2
<1>4. Blank \in [Cell -> Values]
  BY Marks DEF Blank
<1>5. Zeroed \in Program /\ Zeroed.block = NoBlock
  BY <1>1, <1>4 DEF Zeroed, Program
<1> QED
  BY <1>2, <1>3, <1>5

\* The cell at of block b went into its program cache, which was p and is q.
PutIn(q, p, b, at) ==
    /\ q \in Program /\ q.block = b /\ q.block # NoBlock
    /\ q.off % ProgSize = 0 /\ q.size >= 1 /\ Within(q)
    /\ \A o \in Cell : Holds(q, b, o) => q.data[o] = meant'[b][o]
    /\ q.off + q.size = at + 1 /\ q.size < CacheSize
    /\ q.off = Start(p, at)

\* Only that cell is meant to hold something else.
OnlyMeant(b, at) ==
    /\ meant' \in [Blocks -> [Cell -> Values]]
    /\ \A c \in Blocks, o \in Cell : c # b \/ o # at => meant'[c][o] = meant[c][o]

\* A cell goes into the program cache p of block b and does not fill it.
LEMMA PutFacts ==
    ASSUME TypeOK, NEW p \in Program, NEW b \in Blocks, NEW at \in Cell, NEW v \in Values,
           Pending(p, b), Ready(p, b, at),
           NEW q, q = Programmed(p, b, at, v), ~IsFull(q),
           meant' = [meant EXCEPT ![b][at] = v]
    PROVE  PutIn(q, p, b, at) /\ OnlyMeant(b, at)
<1>1. /\ q \in Program /\ q.block = b
      /\ q.off = Start(p, at) /\ q.off % ProgSize = 0
      /\ q.off + q.size = at + 1 /\ q.size >= 1
      /\ Within(q) /\ Holds(q, b, at)
      /\ q.data[at] = v
      /\ \A o \in Cell : o # at => /\ q.data[o] = p.data[o]
                                   /\ Holds(q, b, o) <=> Holds(p, b, o)
  BY ProgrammedFacts
<1>2. b # NoBlock
  BY Marks
<1>3. meant \in [Blocks -> [Cell -> Values]]
  BY DEF TypeOK
<1>4. /\ meant' \in [Blocks -> [Cell -> Values]]
      /\ meant'[b][at] = v
      /\ \A c \in Blocks, o \in Cell : c # b \/ o # at => meant'[c][o] = meant[c][o]
  BY <1>3
<1>5. \A o \in Cell : Holds(p, b, o) => p.data[o] = meant[b][o]
  BY DEF Pending, Holds
<1>6. ASSUME NEW o \in Cell, Holds(q, b, o)
      PROVE  q.data[o] = meant'[b][o]
  <2>1. CASE o = at
    BY <1>1, <1>4, <2>1
  <2>2. CASE o # at
    <3>1. q.data[o] = p.data[o] /\ Holds(p, b, o)
      BY <1>1, <1>6, <2>2
    <3> QED
      BY <1>4, <1>5, <2>2, <3>1
  <2> QED
    BY <2>1, <2>2
<1>7. q.size < CacheSize
  BY <1>1, Sizes DEF IsFull, Program
<1> QED
  BY <1>1, <1>2, <1>4, <1>6, <1>7 DEF PutIn, OnlyMeant

\* A flush of p that is going to be checked.
LEMMA FlushCheckedFacts ==
    ASSUME TypeOK, NEW p \in Program, p.block \in Blocks,
           p.off % ProgSize = 0, p.size >= 1, Within(p), FlushChecked(p)
    PROVE  /\ disk' \in [Blocks -> [Cell -> Values]] /\ meant' \in [Blocks -> [Cell -> Values]]
           /\ faults' \in Nat
           /\ rc' \in Desc /\ rc'.block = NoBlock
           /\ step' = "check" /\ pos' = p.off /\ pos' \in 0 .. BlockSize
           /\ pos' <= FlushEnd(p)
           /\ \A b \in Blocks, o \in Cell : Fresh(rc, b, o)'
           /\ \A b \in Blocks, o \in Cell : b # p.block \/ o < p.off => Kept(b, o)
           /\ \A o \in Cell : Holds(p, p.block, o) => p.data[o] = meant'[p.block][o]
<1>1. /\ FlushEnd(p) \in Nat /\ p.off + p.size <= FlushEnd(p)
      /\ FlushRange(p) \subseteq Cell
      /\ \A o \in Cell : o \in FlushRange(p) <=> p.off <= o /\ o < FlushEnd(p)
  BY FlushFacts
<1>2. p.off \in Nat /\ p.off < BlockSize /\ p.size \in Nat
  BY Sizes DEF Program, Cell
<1>3. /\ disk' \in [Blocks -> [Cell -> Values]] /\ meant' \in [Blocks -> [Cell -> Values]]
      /\ faults' \in Nat
      /\ \A b \in Blocks, o \in Cell :
            b # p.block \/ o \notin FlushRange(p) =>
                disk'[b][o] = disk[b][o] /\ meant'[b][o] = meant[b][o]
      /\ \A o \in Cell : o \in FlushRange(p) => meant'[p.block][o] = p.data[o]
  BY <1>1, FlushWrites DEF FlushChecked
<1>4. rc' \in Desc /\ rc'.block = NoBlock
  BY DroppedFacts DEF FlushChecked, TypeOK
<1>5. step' = "check" /\ pos' = p.off
  BY DEF FlushChecked
<1>6. \A b \in Blocks, o \in Cell : Fresh(rc, b, o)'
  BY <1>4, Marks DEF Fresh, Holds
<1>7. ASSUME NEW b \in Blocks, NEW o \in Cell, b # p.block \/ o < p.off
      PROVE  Kept(b, o)
  <2>1. b # p.block \/ o \notin FlushRange(p)
    BY <1>1, <1>2, <1>7, Sizes DEF Cell
  <2> QED
    BY <1>3, <1>6, <2>1 DEF Kept
<1>8. ASSUME NEW o \in Cell, Holds(p, p.block, o)
      PROVE  p.data[o] = meant'[p.block][o]
  <2>1. o \in FlushRange(p)
    BY <1>1, <1>2, <1>8, Sizes DEF Cell, Holds
  <2> QED
    BY <1>3, <2>1
<1>9. pos' \in 0 .. BlockSize /\ pos' <= FlushEnd(p)
  BY <1>1, <1>2, <1>5, Sizes
<1> QED
  BY <1>3, <1>4, <1>5, <1>6, <1>7, <1>8, <1>9

LEMMA PutStep ==
    ASSUME IInv, NEW v \in Value, Put(v)
    PROVE  IInv'
<1> DEFINE b == file.block
           at == file.at
<1>1. TypeOK /\ Inside /\ Owners /\ FileInv /\ CopyFresh /\ CheckInv
  BY DEF IInv
<1>2. /\ step = "run" /\ commit = None /\ move = None
      /\ file # None /\ ~file.last /\ at < BlockSize
      /\ hand # "off" => hand = v
  BY DEF Put, MayPut, Idle, Steady, Copying
<1>3. UNCHANGED <<disk, settled, next, rc, rbuf, orig, pc, move, commit, step, pos, wrong,
                  faults, erases>>
  BY DEF Put, ends, reader
<1>4. b \in Blocks /\ at \in Cell /\ v \in Values /\ file \in File
  BY <1>1, <1>2, BlocksOf, Marks, Sizes DEF Cell, TypeOK
<1>5. fc \in Program /\ Pending(fc, b) /\ Ready(fc, b, at) /\ Start(fc, at) <= at
  BY <1>1, <1>2 DEF FileInv, TypeOK, Idle, Steady
<1>6. /\ fc' = Programmed(fc, b, at, v) /\ ~IsFull(fc')
      /\ meant' = [meant EXCEPT ![b][at] = v]
      /\ file' = [file EXCEPT !.at = @ + 1]
      /\ hand' = IF Copying THEN "done" ELSE hand
  BY DEF Put
<1>7. PutIn(fc', fc, b, at) /\ OnlyMeant(b, at)
  <2> HIDE DEF b, at
  <2> QED
    BY <1>1, <1>4, <1>5, <1>6, PutFacts
<1>8. /\ file' # None /\ file' \in File /\ file'.block = b /\ file'.at = at + 1
      /\ file'.last = file.last
  <2>1. file' = [block |-> b, at |-> at + 1, last |-> file.last]
    BY <1>4, <1>6 DEF File
  <2>2. file' \in File
    BY <1>4, <2>1, Sizes DEF File, Cell
  <2> QED
    BY <2>1, <2>2, Marks
<1>9. hand' \in {"off", "done"}
  BY <1>2, <1>6 DEF Copying
<1>10. \A c \in Blocks, o \in Cell : c # b \/ o # at => Kept(c, o)
  BY <1>3, <1>7 DEF Kept, Fresh, OnlyMeant
<1>11. settled[b] = {} /\ next[b] = BlockSize
  BY <1>1, <1>2 DEF Owners
<1>12. TypeOK' /\ Inside'
  BY <1>1, <1>3, <1>7, <1>8, <1>9 DEF TypeOK, Inside, PutIn, OnlyMeant
<1>13. WrittenHolds' /\ ReadFresh'
  BY <1>1, <1>3, <1>10, <1>11, BlocksOf, SettledKept DEF IInv
<1>14. Owners'
  BY <1>1, <1>2, <1>3, <1>8, <1>9, <1>11 DEF Owners, FileBlock
<1>15. Appendable'
  <2>1. \A c \in Blocks, o \in Cell : next[c] <= o => Kept(c, o)
    BY <1>10, <1>11, Sizes DEF Cell
  <2> QED
    BY <1>1, <1>3, <2>1, AppendableKept DEF IInv
<1>16. CopyFresh'
  <2>1. ASSUME hand' # "off", rc'.block = NoBlock
        PROVE  /\ \A c \in Blocks : \A o \in settled[c] : Fresh(orig, c, o)
               /\ \A o \in Cell : o < Start(fc, at) => Fresh(orig, b, o)
    BY <1>1, <1>2, <1>3, <1>6, <2>1 DEF CopyFresh, Copying
  <2>2. Start(fc', file'.at) = Start(fc, at)
    BY <1>7 DEF Start, PutIn
  <2> QED
    BY <1>3, <1>8, <1>9, <2>1, <2>2 DEF CopyFresh, Fresh
<1>17. FileInv'
  <2>1. Pending(fc, file.block)'
    BY <1>7, <1>8 DEF Pending, PutIn
  <2>2. Start(fc', file'.at) = Start(fc, at)
    BY <1>7 DEF Start, PutIn
  <2>3. \A o \in Cell : o < Start(fc, at) => AsMeant(b, o)' /\ Fresh(rc, b, o)'
    <3>1. \A o \in Cell : o < Start(fc, at) => AsMeant(b, o) /\ Fresh(rc, b, o)
      BY <1>1, <1>2 DEF FileInv
    <3>2. \A o \in Cell : o < Start(fc, at) => o # at
      BY <1>4, <1>5, <1>7, Sizes DEF PutIn, Cell, Program
    <3> QED
      BY <1>4, <1>8, <1>10, <3>1, <3>2 DEF Kept, AsMeant
  <2>4. Ready(fc', b, at + 1)
    BY <1>7 DEF Ready, PutIn
  <2>5. Start(fc, at) <= at + 1
    BY <1>4, <1>5, <1>7, Sizes DEF PutIn, Cell, Program
  <2>6. at + 1 <= fc'.off + fc'.size
    BY <1>4, <1>7, Sizes DEF PutIn, Cell
  <2> QED
    BY <1>8, <2>1, <2>2, <2>3, <2>4, <2>5, <2>6 DEF FileInv
<1>18. MoveInv' /\ CommitInv' /\ CheckInv'
  BY <1>2, <1>3 DEF MoveInv, CommitInv, CheckInv
<1>19. ReadsLast'
  BY <1>3 DEF IInv, ReadsLast
<1> QED
  BY <1>12, <1>13, <1>14, <1>15, <1>16, <1>17, <1>18, <1>19 DEF IInv

LEMMA CommitProgStep ==
    ASSUME IInv, NEW v \in Value, CommitProg(v)
    PROVE  IInv'
<1> DEFINE b == commit.block
           at == commit.at
<1>1. TypeOK /\ Inside /\ Owners /\ Appendable /\ FileInv /\ CommitInv /\ CopyFresh
  BY DEF IInv
<1>2. step = "run" /\ commit # None /\ at < BlockSize - 1
  BY DEF CommitProg, MayProg, MayCommit
<1>3. UNCHANGED <<disk, settled, next, rc, rbuf, orig, fc, file, move, hand, step, pos, wrong,
                  faults, erases>>
  BY DEF CommitProg, ends, reader
<1>4. b \in Blocks /\ at \in Cell /\ v \in Values /\ commit \in Commit /\ commit.start \in Nat
  BY <1>1, <1>2, BlocksOf, Marks, Sizes DEF Cell, TypeOK
<1>5. /\ move = None /\ hand = "off" /\ ~FileBlock(b) /\ commit.start <= at
      /\ settled[b] \subseteq 0 .. commit.start - 1
  BY <1>1, <1>2 DEF Owners
<1>6. /\ pc \in Program /\ Pending(pc, b) /\ Ready(pc, b, at)
      /\ Start(pc, at) >= commit.start
      /\ \A o \in at .. BlockSize - 1 : AsMeant(b, o) /\ Fresh(rc, b, o)
  BY <1>1, <1>2 DEF CommitInv, TypeOK
<1>7. /\ pc' = Programmed(pc, b, at, v) /\ ~IsFull(pc')
      /\ meant' = [meant EXCEPT ![b][at] = v]
      /\ commit' = [commit EXCEPT !.at = @ + 1]
  BY DEF CommitProg
<1>8. PutIn(pc', pc, b, at) /\ OnlyMeant(b, at)
  <2> HIDE DEF b, at
  <2> QED
    BY <1>1, <1>4, <1>6, <1>7, PutFacts
<1>9. /\ commit' # None /\ commit' \in Commit /\ commit'.block = b /\ commit'.at = at + 1
      /\ commit'.start = commit.start
  <2>1. commit' = [block |-> b, start |-> commit.start, at |-> at + 1]
    BY <1>4, <1>7 DEF Commit
  <2>2. commit' \in Commit
    BY <1>4, <2>1, Sizes DEF Commit, Cell
  <2> QED
    BY <2>1, <2>2, Marks
<1>10. \A c \in Blocks, o \in Cell : c # b \/ o # at => Kept(c, o)
  BY <1>3, <1>8 DEF Kept, Fresh, OnlyMeant
<1>11. TypeOK' /\ Inside'
  BY <1>1, <1>3, <1>8, <1>9 DEF TypeOK, Inside, PutIn, OnlyMeant
<1>12. WrittenHolds' /\ ReadFresh'
  <2>1. ASSUME NEW c \in Blocks, NEW o \in settled[c]
        PROVE  Kept(c, o)
    <3>1. o \in Cell /\ (c = b => o < commit.start)
      BY <1>1, <1>4, <1>5, BlocksOf, Sizes DEF Cell
    <3> QED
      BY <1>4, <1>5, <1>10, <3>1, Sizes DEF Cell
  <2> QED
    BY <1>1, <1>3, <2>1, SettledKept DEF IInv
<1>13. Owners'
  <2>1. commit'.start <= commit'.at
    BY <1>4, <1>5, <1>9, Sizes DEF Cell
  <2> QED
    BY <1>1, <1>2, <1>3, <1>5, <1>9, <2>1 DEF Owners, FileBlock
<1>14. Appendable'
  BY <1>1, <1>2, <1>3, <1>9, <1>10, AppendableKept
<1>15. CopyFresh'
  BY <1>3, <1>5 DEF CopyFresh
<1>16. FileInv'
  <2>1. file # None => file.block # b
    BY <1>5 DEF FileBlock
  <2>2. file # None => \A o \in Cell : Kept(file.block, o)
    BY <1>1, <1>10, <2>1, BlocksOf
  <2> QED
    BY <1>1, <1>2, <1>3, <2>2, FileKept DEF Steady, Kept
<1>17. CommitInv'
  <2>1. Pending(pc, commit.block)'
    BY <1>8, <1>9 DEF Pending, PutIn
  <2>2. Ready(pc', b, at + 1) /\ Start(pc', at + 1) >= commit.start
    BY <1>6, <1>8 DEF Ready, Start, PutIn
  <2>3. at + 1 < BlockSize
    BY <1>2, <1>4, Sizes DEF Cell
  <2>4. ASSUME NEW o \in at + 1 .. BlockSize - 1
        PROVE  AsMeant(b, o)' /\ Fresh(rc, b, o)'
    <3>1. o \in at .. BlockSize - 1 /\ o \in Cell /\ o # at
      BY <1>4, Sizes DEF Cell
    <3>2. AsMeant(b, o) /\ Fresh(rc, b, o)
      BY <1>6, <3>1
    <3>3. Kept(b, o) /\ b' = b
      BY <1>4, <1>9, <1>10, <3>1
    <3> QED
      BY <3>2, <3>3 DEF Kept, AsMeant
  <2> QED
    BY <1>2, <1>3, <1>9, <2>1, <2>2, <2>3, <2>4 DEF CommitInv
<1>18. MoveInv' /\ CheckInv'
  BY <1>2, <1>3, <1>5 DEF MoveInv, CheckInv
<1>19. ReadsLast'
  BY <1>3 DEF IInv, ReadsLast
<1> QED
  BY <1>11, <1>12, <1>13, <1>14, <1>15, <1>16, <1>17, <1>18, <1>19 DEF IInv

\* What lfs_file_relocate reads is what the file should hold.
LEMMA MovedFacts ==
    ASSUME IInv, MayMove
    PROVE  /\ step = "run" /\ move # None /\ file # None /\ commit = None
           /\ file \in File /\ move \in Move
           /\ file.block \in Blocks /\ move.block \in Blocks /\ file.block # move.block
           /\ move.at \in Cell /\ file.at \in Nat /\ move.at < file.at /\ file.at <= BlockSize
           /\ MovedValue \in Values
           /\ ~Differs(fc, rc, file.block, move.at)
           /\ hand # "empty" /\ rc.block # NoBlock
           /\ settled[move.block] = {} /\ next[move.block] = BlockSize
           /\ settled[file.block] = {} /\ next[file.block] = BlockSize
           /\ pc \in Program /\ Pending(pc, move.block) /\ Ready(pc, move.block, move.at)
           /\ Start(pc, move.at) <= move.at
<1>1. TypeOK /\ Owners /\ FileInv /\ MoveInv /\ CheckInv
  BY DEF IInv
<1>2. step = "run" /\ move # None /\ move.at < file.at
  BY DEF MayMove
<1>3. /\ file # None /\ commit = None /\ file.block # move.block /\ hand # "empty"
      /\ settled[move.block] = {} /\ next[move.block] = BlockSize
      /\ settled[file.block] = {} /\ next[file.block] = BlockSize
  BY <1>1, <1>2 DEF Owners
<1>4. /\ file.block \in Blocks /\ move.block \in Blocks /\ file \in File /\ move \in Move
      /\ move.at \in Nat /\ file.at \in Nat /\ file.at <= BlockSize
  BY <1>1, <1>2, <1>3, BlocksOf DEF TypeOK
<1>5. move.at \in Cell
  BY <1>2, <1>4, Sizes DEF Cell
<1>6. MovedValue = meant[file.block][move.at] /\ ~Differs(fc, rc, file.block, move.at)
  BY <1>1, <1>2, <1>3, <1>5, OfFile, ReadRight DEF MovedValue
<1>7. MovedValue \in Values
  BY <1>1, <1>4, <1>5, <1>6 DEF TypeOK
<1>8. rc.block # NoBlock
  BY <1>1, <1>2 DEF CheckInv
<1>9. /\ pc \in Program /\ Pending(pc, move.block) /\ Ready(pc, move.block, move.at)
      /\ Start(pc, move.at) <= move.at
  BY <1>1, <1>2 DEF MoveInv, TypeOK
<1> QED
  BY <1>2, <1>3, <1>4, <1>5, <1>6, <1>7, <1>8, <1>9

LEMMA MoveCellStep ==
    ASSUME IInv, MoveCell
    PROVE  IInv'
<1> DEFINE b  == move.block
           at == move.at
           a  == file.block
<1>1. TypeOK /\ Inside /\ Owners /\ FileInv /\ MoveInv /\ CheckInv /\ CopyFresh
  BY DEF IInv
<1>2. MayMove /\ ReadRc(fc, a, at, file.at - at)
  BY DEF MoveCell
<1>3. UNCHANGED <<disk, settled, next, orig, fc, file, commit, hand, step, pos, faults, erases>>
  BY DEF MoveCell, ends
<1>4. /\ step = "run" /\ move # None /\ file # None /\ commit = None
      /\ file \in File /\ move \in Move
      /\ a \in Blocks /\ b \in Blocks /\ a # b
      /\ at \in Cell /\ file.at \in Nat /\ at < file.at /\ file.at <= BlockSize
      /\ MovedValue \in Values
      /\ ~Differs(fc, rc, a, at)
      /\ hand # "empty" /\ rc.block # NoBlock
      /\ settled[b] = {} /\ next[b] = BlockSize
      /\ settled[a] = {} /\ next[a] = BlockSize
      /\ pc \in Program /\ Pending(pc, b) /\ Ready(pc, b, at)
      /\ Start(pc, at) <= at
  BY <1>2, MovedFacts
<1>5. /\ pc' = Programmed(pc, b, at, MovedValue) /\ ~IsFull(pc')
      /\ meant' = [meant EXCEPT ![b][at] = MovedValue]
      /\ move' = [move EXCEPT !.at = @ + 1]
  BY DEF MoveCell
<1>6. PutIn(pc', pc, b, at) /\ OnlyMeant(b, at)
  <2> HIDE DEF b, at, a
  <2> QED
    BY <1>1, <1>4, <1>5, PutFacts
<1>7. /\ move' # None /\ move' \in Move /\ move'.block = b /\ move'.at = at + 1
  <2>1. move' = [block |-> b, at |-> at + 1]
    BY <1>4, <1>5 DEF Move
  <2>2. move' \in Move
    BY <1>4, <2>1, Sizes DEF Move, Cell
  <2> QED
    BY <2>1, <2>2, Marks
<1>8. wrong' = FALSE
  BY <1>4 DEF MoveCell, IInv, ReadsLast
<1>9. Sound(rc) /\ file.at - at \in Nat \ {0}
  BY <1>1, <1>4, Sizes DEF TypeOK, Inside, Sound, Unused, Cell
<1>10. /\ Sound(rc)' /\ rbuf' \in [Slot -> Values]
       /\ ~Unused(rc)'
       /\ \/ rc' = rc /\ rbuf' = rbuf
          \/ True(rc', rbuf')
  <2>1. ~Unused(rc)
    BY <1>4 DEF Unused
  <2> HIDE DEF b, at, a
  <2> QED
    BY ZenonT(60), <1>1, <1>2, <1>4, <1>9, <2>1, ReadLeaves DEF ReadRc
<1>11. \A c \in Blocks, o \in Cell : c # b \/ o # at => Kept(c, o)
  BY <1>3, <1>6, <1>10 DEF Kept, Fresh, True, OnlyMeant
<1>12. TypeOK' /\ Inside'
  BY <1>1, <1>3, <1>6, <1>7, <1>8, <1>10 DEF TypeOK, Inside, PutIn, OnlyMeant, Sound, Unused
<1>13. WrittenHolds' /\ ReadFresh'
  BY <1>1, <1>3, <1>4, <1>11, BlocksOf, SettledKept DEF IInv
<1>14. Owners'
  BY <1>1, <1>3, <1>4, <1>7, Sizes DEF Owners, FileBlock, Cell
<1>15. Appendable'
  <2>1. \A c \in Blocks, o \in Cell : next[c] <= o => Kept(c, o)
    BY <1>4, <1>11, Sizes DEF Cell
  <2> QED
    BY <1>1, <1>3, <2>1, AppendableKept DEF IInv
<1>16. CopyFresh'
  BY <1>3, <1>4, <1>10 DEF CopyFresh, Unused
<1>17. FileInv'
  <2>1. \A o \in Cell : Kept(a, o)
    BY <1>4, <1>11
  <2> QED
    BY <1>1, <1>3, <1>7, <2>1, FileKept DEF Idle, Steady, Kept
<1>18. MoveInv'
  <2>1. Pending(pc, move.block)'
    BY <1>6, <1>7 DEF Pending, PutIn
  <2>2. Ready(pc', b, at + 1) /\ Start(pc', at + 1) = Start(pc, at)
    BY <1>6 DEF Ready, Start, PutIn
  <2>3. Start(pc, at) <= at + 1 /\ \A o \in Cell : o < Start(pc, at) => o # at
    BY <1>4, <1>6, Sizes DEF Cell, Program, PutIn
  <2>4. ASSUME NEW o \in Cell, o < Start(pc, at)
        PROVE  AsMeant(b, o)' /\ Fresh(rc, b, o)'
    <3>1. AsMeant(b, o) /\ Fresh(rc, b, o)
      BY <1>1, <1>4, <2>4 DEF MoveInv
    <3>2. Kept(b, o) /\ b' = b
      BY <1>4, <1>7, <1>11, <2>3, <2>4
    <3> QED
      BY <3>1, <3>2 DEF Kept, AsMeant
  <2> QED
    BY <1>3, <1>4, <1>7, <2>1, <2>2, <2>3, <2>4 DEF MoveInv
<1>19. CommitInv' /\ CheckInv'
  BY <1>3, <1>4, <1>10 DEF CommitInv, CheckInv, Unused
<1> QED
  BY <1>8, <1>12, <1>13, <1>14, <1>15, <1>16, <1>17, <1>18, <1>19 DEF IInv, ReadsLast

\* The file's program cache q is flushed and going to be checked.
LEMMA FlushFileStep ==
    ASSUME IInv, Idle, file # None, hand # "empty", NEW q \in Program,
           q.block = file.block, q.off % ProgSize = 0, q.size >= 1, Within(q),
           q.off = Start(fc, file.at), file.at <= q.off + q.size,
           fc' = q, FlushChecked(q),
           file' # None, file' \in File, file'.block = file.block, file'.at = file.at,
           IsFull(q) \/ file'.last,
           UNCHANGED <<settled, next, orig, rbuf, pc, move, commit, hand, wrong, erases>>
    PROVE  IInv'
<1> DEFINE b == file.block
<1>1. TypeOK /\ Inside /\ Owners /\ Appendable /\ FileInv
  BY DEF IInv
<1>2. step = "run" /\ commit = None /\ move = None /\ b \in Blocks /\ q.block \in Blocks
  BY <1>1, BlocksOf DEF Idle, Steady
<1>3. /\ disk' \in [Blocks -> [Cell -> Values]] /\ meant' \in [Blocks -> [Cell -> Values]]
      /\ faults' \in Nat
      /\ rc' \in Desc /\ rc'.block = NoBlock
      /\ step' = "check" /\ pos' = q.off /\ pos' \in 0 .. BlockSize
      /\ pos' <= FlushEnd(q)
      /\ \A c \in Blocks, o \in Cell : Fresh(rc, c, o)'
      /\ \A c \in Blocks, o \in Cell : c # q.block \/ o < q.off => Kept(c, o)
      /\ \A o \in Cell : Holds(q, q.block, o) => q.data[o] = meant'[q.block][o]
  BY <1>1, <1>2, FlushCheckedFacts
<1>4. settled[b] = {} /\ next[b] = BlockSize
  BY <1>1 DEF Owners
<1>5. TypeOK' /\ Inside'
  BY <1>1, <1>3 DEF TypeOK, Inside
<1>6. WrittenHolds' /\ ReadFresh'
  BY <1>1, <1>3, <1>4, BlocksOf, SettledKept DEF IInv
<1>7. Owners'
  BY <1>1, <1>2, <1>3, <1>4 DEF Owners, FileBlock
<1>8. Appendable'
  <2>1. \A c \in Blocks, o \in Cell : next[c] <= o => Kept(c, o)
    BY <1>3, <1>4, Sizes DEF Cell
  <2> QED
    BY <1>1, <2>1, AppendableKept
<1>9. CopyFresh'
  BY <1>3 DEF CopyFresh
<1>10. FileInv'
  <2>1. Pending(fc, file.block)'
    BY <1>3 DEF Pending
  <2>2. fc'.block # NoBlock /\ Start(fc, file.at)' = q.off
    BY <1>2, Marks DEF Start
  <2>3. q.off <= file.at
    BY <1>1 DEF FileInv
  <2>4. ASSUME NEW o \in Cell, o < q.off
        PROVE  AsMeant(file.block, o)' /\ Fresh(rc, file.block, o)'
    <3>1. AsMeant(b, o) /\ Kept(b, o) /\ b' = b
      BY <1>1, <1>2, <1>3, <2>4 DEF FileInv
    <3> QED
      BY <1>2, <1>3, <3>1 DEF Kept, AsMeant
  <2> QED
    BY <1>3, <2>1, <2>2, <2>3, <2>4 DEF FileInv, Idle, Steady
<1>11. MoveInv' /\ CommitInv'
  BY <1>2 DEF MoveInv, CommitInv
<1>12. CheckInv'
  <2>1. Checked' = q
    BY <1>2 DEF Checked
  <2>2. /\ q.block # NoBlock /\ FlushEnd(Checked)' = FlushEnd(q) /\ IsFull(Checked)' = IsFull(q)
        /\ \A o \in Cell : Fresh(rc, Checked.block, o)'
    BY <1>2, <1>3, <2>1, Marks DEF FlushEnd, IsFull
  <2>3. ~(pos' > q.off) /\ q.off .. pos' - 1 = {} /\ q.off <= pos'
    BY <1>3, Sizes DEF Program, Cell
  <2> QED
    BY <1>2, <1>3, <2>1, <2>2, <2>3 DEF CheckInv
<1>13. ReadsLast'
  BY DEF IInv, ReadsLast
<1> QED
  BY <1>5, <1>6, <1>7, <1>8, <1>9, <1>10, <1>11, <1>12, <1>13 DEF IInv

LEMMA PutFullStep ==
    ASSUME IInv, NEW v \in Value, PutFull(v)
    PROVE  IInv'
<1> DEFINE b  == file.block
           at == file.at
           q  == Programmed(fc, b, at, v)
<1>1. TypeOK /\ FileInv
  BY DEF IInv
<1>2. Idle /\ file # None /\ ~file.last /\ at < BlockSize /\ (hand # "off" => hand = v)
  BY DEF PutFull, MayPut, Copying
<1>3. b \in Blocks /\ at \in Cell /\ at \in Nat /\ v \in Values /\ hand # "empty"
  BY <1>1, <1>2, BlocksOf, Marks, Sizes DEF Cell
<1>4. fc \in Program /\ Pending(fc, b) /\ Ready(fc, b, at)
  BY <1>1, <1>2 DEF FileInv, TypeOK, Steady
<1>5. IsFull(q) /\ fc' = q /\ FlushChecked(q)
  BY DEF PutFull
<1>6. UNCHANGED <<settled, next, orig, rbuf, pc, file, move, commit, hand, wrong, erases>>
  BY DEF PutFull, ends, calls
<1>7. /\ q \in Program /\ q.block = b /\ q.off = Start(fc, at) /\ q.off % ProgSize = 0
      /\ q.off + q.size = at + 1 /\ q.size >= 1 /\ Within(q)
  BY <1>3, <1>4, ProgrammedFacts
<1> HIDE DEF q
<1>8. at <= q.off + q.size
  BY <1>3, <1>7
<1>9. file' # None /\ file' \in File
  BY <1>1, <1>2, <1>6 DEF TypeOK
<1> QED
  BY <1>2, <1>3, <1>5, <1>6, <1>7, <1>8, <1>9, FlushFileStep

LEMMA FlushStep ==
    ASSUME IInv, Flush
    PROVE  IInv'
<1>1. TypeOK /\ FileInv
  BY DEF IInv
<1>2. Idle /\ file # None /\ fc.block # NoBlock /\ hand = "off" /\ FlushChecked(fc)
  BY DEF Flush, Copying
<1>3. UNCHANGED <<settled, next, orig, rbuf, pc, fc, move, commit, hand, wrong, erases>>
  BY DEF Flush, ends, calls
<1>4. /\ file' # None /\ file' \in File /\ file'.block = file.block /\ file'.at = file.at
      /\ file'.last
  <2>1. file \in File
    BY <1>1, <1>2 DEF TypeOK
  <2>2. file' = [block |-> file.block, at |-> file.at, last |-> TRUE]
    BY <2>1 DEF Flush, File
  <2>3. file' \in File
    BY <2>1, <2>2 DEF File
  <2> QED
    BY <2>2, <2>3, Marks
<1>5. /\ fc \in Program /\ fc.block = file.block /\ fc.off % ProgSize = 0 /\ fc.size >= 1
      /\ Within(fc) /\ fc.off = Start(fc, file.at) /\ file.at <= fc.off + fc.size
  BY <1>1, <1>2 DEF TypeOK, FileInv, Pending, Start
<1> QED
  BY <1>2, <1>3, <1>4, <1>5, FlushFileStep

LEMMA MoveFullStep ==
    ASSUME IInv, MoveFull
    PROVE  IInv'
<1> DEFINE b  == move.block
           at == move.at
           a  == file.block
           q  == Programmed(pc, b, at, MovedValue)
<1>1. TypeOK /\ Inside /\ Owners /\ FileInv /\ MoveInv /\ CheckInv /\ Appendable
  BY DEF IInv
<1>2. MayMove /\ IsFull(q) /\ pc' = q /\ FlushChecked(q)
  BY DEF MoveFull
<1>3. UNCHANGED <<settled, next, orig, fc, file, move, commit, hand, erases>>
  BY DEF MoveFull, ends, calls
<1>4. /\ step = "run" /\ move # None /\ file # None /\ commit = None
      /\ file \in File /\ move \in Move
      /\ a \in Blocks /\ b \in Blocks /\ a # b
      /\ at \in Cell /\ file.at \in Nat /\ at < file.at /\ file.at <= BlockSize
      /\ MovedValue \in Values
      /\ ~Differs(fc, rc, a, at)
      /\ hand # "empty" /\ rc.block # NoBlock
      /\ settled[b] = {} /\ next[b] = BlockSize
      /\ settled[a] = {} /\ next[a] = BlockSize
      /\ pc \in Program /\ Pending(pc, b) /\ Ready(pc, b, at)
      /\ Start(pc, at) <= at
  BY <1>2, MovedFacts
<1>5. /\ q \in Program /\ q.block = b /\ q.off = Start(pc, at) /\ q.off % ProgSize = 0
      /\ q.off + q.size = at + 1 /\ q.size >= 1 /\ Within(q)
  <2> HIDE DEF b, at
  <2> QED
    BY <1>4, ProgrammedFacts
<1> HIDE DEF q
<1>6. /\ disk' \in [Blocks -> [Cell -> Values]] /\ meant' \in [Blocks -> [Cell -> Values]]
      /\ faults' \in Nat
      /\ rc' \in Desc /\ rc'.block = NoBlock
      /\ step' = "check" /\ pos' = q.off /\ pos' \in 0 .. BlockSize
      /\ pos' <= FlushEnd(q)
      /\ \A c \in Blocks, o \in Cell : Fresh(rc, c, o)'
      /\ \A c \in Blocks, o \in Cell : c # q.block \/ o < q.off => Kept(c, o)
      /\ \A o \in Cell : Holds(q, q.block, o) => q.data[o] = meant'[q.block][o]
  <2>1. q.block \in Blocks
    BY <1>4, <1>5
  <2> QED
    BY <1>1, <1>2, <1>5, <2>1, FlushCheckedFacts
<1>7. wrong' = FALSE
  BY <1>4 DEF MoveFull, IInv, ReadsLast
<1>8. rbuf' \in [Slot -> Values]
  <2>1. Sound(rc) /\ file.at - at \in Nat \ {0}
    BY <1>1, <1>4, Sizes DEF TypeOK, Inside, Sound, Unused, Cell
  <2>2. rbuf' = ReadBuffer(fc, rc, a, at, file.at - at)
    BY DEF MoveFull
  <2> HIDE DEF a, at
  <2> QED
    BY <1>1, <1>4, <2>1, <2>2, ReadLeaves
<1>9. TypeOK' /\ Inside'
  BY <1>1, <1>2, <1>3, <1>5, <1>6, <1>7, <1>8 DEF TypeOK, Inside
<1>10. WrittenHolds' /\ ReadFresh'
  BY <1>1, <1>3, <1>4, <1>5, <1>6, BlocksOf, SettledKept DEF IInv
<1>11. Owners'
  BY <1>1, <1>3, <1>4, <1>6 DEF Owners, FileBlock
<1>12. Appendable'
  <2>1. \A c \in Blocks, o \in Cell : next[c] <= o => Kept(c, o)
    BY <1>4, <1>5, <1>6, Sizes DEF Cell
  <2> QED
    BY <1>1, <1>3, <2>1, AppendableKept
<1>13. CopyFresh'
  BY <1>3, <1>4, <1>6 DEF CopyFresh
<1>14. FileInv'
  <2>1. \A o \in Cell : Kept(a, o)
    BY <1>4, <1>5, <1>6
  <2> QED
    BY <1>1, <1>3, <1>4, <2>1, FileKept DEF Idle, Steady, Kept
<1>15. MoveInv'
  <2>1. Pending(pc, move.block)'
    BY <1>2, <1>3, <1>5, <1>6 DEF Pending
  <2>2. Start(pc, move.at)' = q.off
    BY <1>2, <1>4, <1>5, Marks DEF Start
  <2>3. q.off <= at /\ q.off + q.size <= file.at
    BY <1>4, <1>5, Sizes DEF Cell
  <2>4. ASSUME NEW o \in Cell, o < q.off
        PROVE  AsMeant(move.block, o)' /\ Fresh(rc, move.block, o)'
    <3>1. AsMeant(b, o) /\ Kept(b, o) /\ b' = b
      BY <1>1, <1>3, <1>4, <1>5, <1>6, <2>4 DEF MoveInv
    <3> QED
      BY <1>4, <1>6, <3>1 DEF Kept, AsMeant
  <2> QED
    BY <1>2, <1>3, <1>6, <2>1, <2>2, <2>3, <2>4 DEF MoveInv
<1>16. CommitInv'
  BY <1>3, <1>4 DEF CommitInv
<1>17. CheckInv'
  <2>1. Checked' = q
    BY <1>2, <1>3, <1>4 DEF Checked
  <2>2. /\ q.block # NoBlock /\ FlushEnd(Checked)' = FlushEnd(q) /\ IsFull(Checked)' = IsFull(q)
        /\ \A o \in Cell : Fresh(rc, Checked.block, o)'
    BY <1>4, <1>5, <1>6, <2>1, Marks DEF FlushEnd, IsFull
  <2>3. ~(pos' > q.off) /\ q.off .. pos' - 1 = {} /\ q.off <= pos'
    BY <1>5, <1>6, Sizes DEF Program, Cell
  <2> QED
    BY <1>2, <1>6, <2>1, <2>2, <2>3 DEF CheckInv
<1> QED
  BY <1>7, <1>9, <1>10, <1>11, <1>12, <1>13, <1>14, <1>15, <1>16, <1>17 DEF IInv, ReadsLast

\* The flush of the program cache that is checked was checked to its end.
LEMMA AllChecked ==
    ASSUME IInv, step = "check", pos = FlushEnd(Checked)
    PROVE  /\ Checked.off + Checked.size \in Nat /\ Checked.off + Checked.size <= BlockSize
           /\ IsFull(Checked) => (Checked.off + Checked.size) % ProgSize = 0
           /\ rc.block # NoBlock
           /\ \A o \in Cell : Checked.off <= o /\ o < Checked.off + Checked.size =>
                 AsMeant(Checked.block, o)
           /\ \A o \in Cell : Fresh(rc, Checked.block, o)
<1> DEFINE p == Checked
<1>1. TypeOK /\ Owners /\ FileInv /\ MoveInv /\ CheckInv
  BY DEF IInv
<1>2. /\ p \in Program /\ p.block \in Blocks
      /\ p.off % ProgSize = 0 /\ p.size >= 1 /\ Within(p)
      /\ \A o \in Cell : Holds(p, p.block, o) => p.data[o] = meant[p.block][o]
  BY <1>1, CheckedFacts
<1>3. /\ FlushEnd(p) \in Nat /\ p.off + p.size <= FlushEnd(p)
      /\ IsFull(p) => FlushEnd(p) = p.off + p.size
      /\ FlushEnd(p) % ProgSize = 0
  BY <1>2, FlushFacts
<1>4. p.off \in Nat /\ p.size \in Nat /\ p.off + p.size <= BlockSize
  BY <1>2, Sizes DEF Program, Cell, Within
<1>5. /\ pos > p.off => rc.block # NoBlock
      /\ \A o \in Cell : Fresh(rc, p.block, o)
      /\ \A o \in p.off .. pos - 1 : disk[p.block][o] = p.data[o]
  BY <1>1 DEF CheckInv
<1> HIDE DEF p
<1>6. pos > p.off
  BY <1>2, <1>3, <1>4 DEF p
<1>7. ASSUME NEW o \in Cell, p.off <= o, o < p.off + p.size
      PROVE  AsMeant(p.block, o)
  <2>1. o \in p.off .. pos - 1
    BY <1>3, <1>4, <1>7, Sizes DEF Cell, p
  <2>2. Holds(p, p.block, o)
    BY <1>7 DEF Holds
  <2> QED
    BY <1>2, <1>5, <2>1, <2>2 DEF AsMeant
<1> QED
  BY <1>3, <1>4, <1>5, <1>6, <1>7 DEF p

LEMMA PutCheckedStep ==
    ASSUME IInv, PutChecked
    PROVE  IInv'
<1> DEFINE b  == file.block
           at == fc.off + fc.size
<1>1. TypeOK /\ Inside /\ Owners /\ Appendable /\ FileInv /\ MoveInv /\ CheckInv
  BY DEF IInv
<1>2. /\ step = "check" /\ move = None /\ pos = FlushEnd(fc)
      /\ file' = [file EXCEPT !.at = at] /\ fc' = Zeroed
      /\ hand' = IF Copying THEN "done" ELSE hand
      /\ step' = "run" /\ pos' = 0
  BY DEF PutChecked
<1>3. UNCHANGED <<disk, meant, settled, next, rc, rbuf, orig, pc, move, commit, wrong,
                  faults, erases>>
  BY DEF PutChecked, device, ends, reader
<1>4. Checked = fc
  BY <1>2 DEF Checked
<1>5. /\ commit = None /\ file # None /\ file \in File /\ b \in Blocks /\ fc.block = b
  BY <1>1, <1>2, <1>4, CheckedFacts
<1>6. /\ at \in Nat /\ at <= BlockSize
      /\ IsFull(fc) => at % ProgSize = 0
      /\ rc.block # NoBlock
      /\ \A o \in Cell : fc.off <= o /\ o < at => AsMeant(b, o)
      /\ \A o \in Cell : Fresh(rc, b, o)
  BY <1>2, <1>4, <1>5, AllChecked
<1>7. /\ file' # None /\ file' \in File /\ file'.block = b /\ file'.at = at
      /\ file'.last = file.last
  <2>1. file' = [block |-> b, at |-> at, last |-> file.last]
    BY <1>2, <1>5 DEF File
  <2>2. file' \in File
    BY <1>5, <1>6, <2>1, Sizes DEF File
  <2> QED
    BY <2>1, <2>2, Marks
<1>8. hand' \in {"off", "done"}
  BY <1>2 DEF Copying
<1>9. \A c \in Blocks, o \in Cell : Kept(c, o)
  BY <1>3 DEF Kept, Fresh
<1>10. TypeOK' /\ Inside'
  BY <1>1, <1>2, <1>3, <1>7, <1>8, DroppedFacts, Sizes DEF TypeOK, Inside
<1>11. WrittenHolds' /\ ReadFresh'
  BY <1>1, <1>3, <1>9, BlocksOf, SettledKept DEF IInv
<1>12. Owners'
  BY <1>1, <1>2, <1>3, <1>5, <1>7, <1>8 DEF Owners, FileBlock
<1>13. Appendable'
  BY <1>1, <1>3, <1>9, AppendableKept
<1>14. CopyFresh'
  BY <1>3, <1>6, <1>8 DEF CopyFresh
<1>15. FileInv'
  <2>1. Pending(fc, file.block)' /\ fc'.block = NoBlock
    BY <1>2, <1>5, DroppedFacts, Marks DEF Pending
  <2>2. Start(fc, file.at)' = at
    BY <1>7, <2>1 DEF Start
  <2>3. ASSUME ~file'.last
        PROVE  Ready(fc, file.block, file.at)'
    <3>1. IsFull(fc)
      BY <1>1, <1>2, <1>4, <1>7, <2>3 DEF CheckInv
    <3> QED
      BY <1>6, <1>7, <2>1, <3>1 DEF Ready
  <2>4. ASSUME NEW o \in Cell, o < at
        PROVE  AsMeant(file.block, o)' /\ Fresh(rc, file.block, o)'
    <3>1. AsMeant(b, o)
      <4>1. CASE o < fc.off
        <5>1. Start(fc, file.at) = fc.off
          BY <1>5, Marks DEF Start
        <5> QED
          BY <1>1, <1>5, <4>1, <5>1 DEF FileInv
      <4>2. CASE fc.off <= o
        BY <1>6, <2>4, <4>2
      <4> QED
        BY <1>1, <4>1, <4>2, Sizes DEF Cell, TypeOK, Program
    <3> QED
      BY <1>3, <1>6, <1>7, <3>1 DEF AsMeant, Fresh
  <2> QED
    BY <1>6, <1>7, <2>1, <2>2, <2>3, <2>4 DEF FileInv
<1>16. MoveInv' /\ CommitInv' /\ CheckInv'
  BY <1>2, <1>3, <1>5 DEF MoveInv, CommitInv, CheckInv
<1>17. ReadsLast'
  BY <1>3 DEF IInv, ReadsLast
<1> QED
  BY <1>10, <1>11, <1>12, <1>13, <1>14, <1>15, <1>16, <1>17 DEF IInv

LEMMA MoveCheckedStep ==
    ASSUME IInv, MoveChecked
    PROVE  IInv'
<1> DEFINE b  == move.block
           at == pc.off + pc.size
<1>1. TypeOK /\ Inside /\ Owners /\ Appendable /\ FileInv /\ MoveInv /\ CheckInv
  BY DEF IInv
<1>2. /\ step = "check" /\ move # None /\ pos = FlushEnd(pc)
      /\ move' = [move EXCEPT !.at = at] /\ pc' = Zeroed
      /\ step' = "run" /\ pos' = 0
  BY DEF MoveChecked
<1>3. UNCHANGED <<disk, meant, settled, next, rc, rbuf, orig, fc, file, commit, hand, wrong,
                  faults, erases>>
  BY DEF MoveChecked, device, ends, reader
<1>4. Checked = pc
  BY <1>2 DEF Checked
<1>5. /\ commit = None /\ file # None /\ b \in Blocks /\ pc.block = b /\ move \in Move
  BY <1>1, <1>2, <1>4, CheckedFacts DEF TypeOK
<1>6. /\ at \in Nat /\ at <= BlockSize
      /\ IsFull(pc) => at % ProgSize = 0
      /\ rc.block # NoBlock
      /\ \A o \in Cell : pc.off <= o /\ o < at => AsMeant(b, o)
      /\ \A o \in Cell : Fresh(rc, b, o)
  BY <1>2, <1>4, <1>5, AllChecked
<1>7. IsFull(pc) /\ at <= file.at /\ hand # "empty"
  BY <1>1, <1>2, <1>4 DEF CheckInv, MoveInv, Owners
<1>8. /\ move' # None /\ move' \in Move /\ move'.block = b /\ move'.at = at
  <2>1. move' = [block |-> b, at |-> at]
    BY <1>2, <1>5 DEF Move
  <2>2. move' \in Move
    BY <1>5, <1>6, <2>1, Sizes DEF Move
  <2> QED
    BY <2>1, <2>2, Marks
<1>9. \A c \in Blocks, o \in Cell : Kept(c, o)
  BY <1>3 DEF Kept, Fresh
<1>10. TypeOK' /\ Inside'
  BY <1>1, <1>2, <1>3, <1>8, DroppedFacts, Sizes DEF TypeOK, Inside
<1>11. WrittenHolds' /\ ReadFresh'
  BY <1>1, <1>3, <1>9, BlocksOf, SettledKept DEF IInv
<1>12. Owners'
  BY <1>1, <1>2, <1>3, <1>5, <1>7, <1>8 DEF Owners, FileBlock
<1>13. Appendable'
  BY <1>1, <1>3, <1>9, AppendableKept
<1>14. CopyFresh'
  BY <1>3, <1>6, <1>7 DEF CopyFresh
<1>15. FileInv'
  BY <1>1, <1>3, <1>8, <1>9, BlocksOf, FileKept DEF Idle, Steady, Kept
<1>16. MoveInv'
  <2>1. Pending(pc, move.block)' /\ pc'.block = NoBlock
    BY <1>2, <1>5, DroppedFacts, Marks DEF Pending
  <2>2. Start(pc, move.at)' = at
    BY <1>8, <2>1 DEF Start
  <2>3. Ready(pc, move.block, move.at)'
    BY <1>6, <1>7, <1>8, <2>1 DEF Ready
  <2>4. ASSUME NEW o \in Cell, o < at
        PROVE  AsMeant(move.block, o)' /\ Fresh(rc, move.block, o)'
    <3>1. AsMeant(b, o)
      <4>1. CASE o < pc.off
        <5>1. Start(pc, move.at) = pc.off
          BY <1>5, Marks DEF Start
        <5> QED
          BY <1>1, <1>2, <4>1, <5>1 DEF MoveInv
      <4>2. CASE pc.off <= o
        BY <1>6, <2>4, <4>2
      <4> QED
        BY <1>1, <4>1, <4>2, Sizes DEF Cell, TypeOK, Program
    <3> QED
      BY <1>3, <1>6, <1>8, <3>1 DEF AsMeant, Fresh
  <2> QED
    BY <1>2, <1>6, <1>8, <2>1, <2>2, <2>3, <2>4 DEF MoveInv
<1>17. CommitInv' /\ CheckInv'
  BY <1>2, <1>3, <1>5, <1>6 DEF CommitInv, CheckInv
<1>18. ReadsLast'
  BY <1>3 DEF IInv, ReadsLast
<1> QED
  BY <1>10, <1>11, <1>12, <1>13, <1>14, <1>15, <1>16, <1>17, <1>18 DEF IInv

LEMMA FinishBlockStep ==
    ASSUME IInv, FinishBlock
    PROVE  IInv'
<1> DEFINE b == file.block
<1>1. TypeOK /\ Inside /\ Owners /\ Appendable /\ FileInv /\ CopyFresh /\ WrittenHolds /\ ReadFresh
  BY DEF IInv
<1>2. /\ step = "run" /\ commit = None /\ move = None /\ file # None /\ fc.block = NoBlock
      /\ settled' = [settled EXCEPT ![b] = 0 .. file.at - 1] /\ file' = None
  BY DEF FinishBlock, Idle
<1>3. UNCHANGED <<disk, meant, next, rc, rbuf, orig, pc, fc, move, commit, hand, step, pos,
                  wrong, faults, erases>>
  BY DEF FinishBlock, device, reader, calls
<1>4. b \in Blocks /\ file.at \in Nat /\ file.at <= BlockSize
  BY <1>1, <1>2, BlocksOf
<1>5. Start(fc, file.at) = file.at
  BY <1>2 DEF Start
<1>6. /\ settled' \in [Blocks -> SUBSET Cell]
      /\ settled'[b] = 0 .. file.at - 1
      /\ \A c \in Blocks : c # b => settled'[c] = settled[c]
      /\ \A o \in settled'[b] : o \in Cell /\ o < file.at
  <2>1. 0 .. file.at - 1 \in SUBSET Cell
    BY <1>4, Sizes DEF Cell
  <2>2. settled \in [Blocks -> SUBSET Cell]
    BY <1>1 DEF TypeOK
  <2> QED
    BY <1>2, <1>4, <2>1, <2>2
<1>7. TypeOK' /\ Inside'
  BY <1>1, <1>2, <1>3, <1>6 DEF TypeOK, Inside
<1>8. ASSUME NEW c \in Blocks, NEW o \in settled'[c]
      PROVE  AsMeant(c, o) /\ Fresh(rc, c, o)
  <2>1. CASE c = b
    BY <1>1, <1>2, <1>5, <1>6, <1>8, <2>1 DEF FileInv
  <2>2. CASE c # b
    BY <1>1, <1>6, <1>8, <2>2 DEF WrittenHolds, ReadFresh, AsMeant
  <2> QED
    BY <2>1, <2>2
<1>9. WrittenHolds' /\ ReadFresh'
  BY <1>3, <1>8 DEF WrittenHolds, ReadFresh, AsMeant, Fresh
<1>10. Owners'
  BY <1>1, <1>2, <1>3 DEF Owners
<1>11. Appendable'
  <2>1. next[b] = BlockSize
    BY <1>1, <1>2 DEF Owners
  <2>2. \A c \in Blocks : next'[c] < BlockSize => next'[c] = next[c] /\ settled'[c] \subseteq settled[c]
    BY <1>3, <1>4, <1>6, <2>1, Sizes
  <2>3. \A c \in Blocks, o \in Cell : Kept(c, o)
    BY <1>3 DEF Kept, Fresh
  <2> QED
    BY <1>1, <1>3, <2>2, <2>3, AppendableKept
<1>12. CopyFresh'
  <2>1. ASSUME hand # "off", rc.block = NoBlock, NEW c \in Blocks, NEW o \in settled'[c]
        PROVE  Fresh(orig, c, o)
    <3>1. CASE c = b
      BY <1>1, <1>2, <1>5, <1>6, <2>1, <3>1 DEF CopyFresh
    <3>2. CASE c # b
      BY <1>1, <1>2, <1>6, <2>1, <3>2 DEF CopyFresh
    <3> QED
      BY <3>1, <3>2
  <2> QED
    BY <1>1, <1>2, <1>3, <2>1 DEF CopyFresh, Fresh
<1>13. FileInv' /\ MoveInv' /\ CommitInv' /\ CheckInv'
  BY <1>2, <1>3 DEF FileInv, MoveInv, CommitInv, CheckInv
<1>14. ReadsLast'
  BY <1>3 DEF IInv, ReadsLast
<1> QED
  BY <1>7, <1>9, <1>10, <1>11, <1>12, <1>13, <1>14 DEF IInv

LEMMA StartOverStep ==
    ASSUME IInv, StartOver
    PROVE  IInv'
<1>1. TypeOK /\ Inside /\ Owners /\ Appendable /\ CheckInv
  BY DEF IInv
<1>2. /\ step = "bad" /\ commit = None /\ fc' = Dropped(fc) /\ pc' = Dropped(pc)
      /\ file' = None /\ move' = None /\ step' = "run" /\ pos' = 0
  BY DEF StartOver
<1>3. UNCHANGED <<disk, meant, settled, next, rc, rbuf, orig, commit, hand, wrong, faults, erases>>
  BY DEF StartOver, device, ends, reader
<1>4. fc' \in Program /\ fc'.block = NoBlock /\ pc' \in Program /\ pc'.block = NoBlock
  BY <1>1, <1>2, DroppedFacts DEF TypeOK
<1>5. rc.block # NoBlock
  BY <1>1, <1>2 DEF CheckInv
<1>6. \A c \in Blocks, o \in Cell : Kept(c, o)
  BY <1>3 DEF Kept, Fresh
<1>7. TypeOK' /\ Inside'
  BY <1>1, <1>2, <1>3, <1>4, Sizes DEF TypeOK, Inside
<1>8. WrittenHolds' /\ ReadFresh'
  BY <1>1, <1>3, <1>6, BlocksOf, SettledKept DEF IInv
<1>9. Owners'
  BY <1>1, <1>2, <1>3, <1>4 DEF Owners
<1>10. Appendable'
  BY <1>1, <1>3, <1>6, AppendableKept
<1>11. CopyFresh'
  BY <1>1, <1>2, <1>3, <1>5 DEF CopyFresh, Owners
<1>12. FileInv' /\ MoveInv' /\ CommitInv' /\ CheckInv'
  BY <1>2, <1>3 DEF FileInv, MoveInv, CommitInv, CheckInv
<1>13. ReadsLast'
  BY <1>3 DEF IInv, ReadsLast
<1> QED
  BY <1>7, <1>8, <1>9, <1>10, <1>11, <1>12, <1>13 DEF IInv

LEMMA MoveDoneStep ==
    ASSUME IInv, MoveDone
    PROVE  IInv'
<1> DEFINE b == move.block
<1>1. TypeOK /\ Inside /\ Owners /\ Appendable /\ MoveInv /\ CheckInv
  BY DEF IInv
<1>2. /\ step = "run" /\ move # None /\ move.at = file.at
      /\ fc' = pc /\ pc' = Zeroed /\ file' = [file EXCEPT !.block = b] /\ move' = None
  BY DEF MoveDone
<1>3. UNCHANGED <<disk, meant, settled, next, rc, rbuf, orig, commit, hand, step, pos, wrong,
                  faults, erases>>
  BY DEF MoveDone, device, ends, reader
<1>4. /\ commit = None /\ file # None /\ hand # "empty" /\ rc.block # NoBlock
      /\ settled[b] = {} /\ next[b] = BlockSize
  BY <1>1, <1>2 DEF Owners, CheckInv
<1>5. b \in Blocks /\ file \in File /\ file.at \in Nat
  BY <1>1, <1>2, <1>4, BlocksOf DEF TypeOK
<1>6. /\ file' # None /\ file' \in File /\ file'.block = b /\ file'.at = file.at
  <2>1. file' = [block |-> b, at |-> file.at, last |-> file.last]
    BY <1>2, <1>5 DEF File
  <2>2. file' \in File
    BY <1>5, <2>1 DEF File
  <2> QED
    BY <2>1, <2>2, Marks
<1>7. \A c \in Blocks, o \in Cell : Kept(c, o)
  BY <1>3 DEF Kept, Fresh
<1>8. TypeOK' /\ Inside'
  BY <1>1, <1>2, <1>3, <1>6, DroppedFacts DEF TypeOK, Inside
<1>9. WrittenHolds' /\ ReadFresh'
  BY <1>1, <1>3, <1>7, BlocksOf, SettledKept DEF IInv
<1>10. Owners'
  BY <1>1, <1>2, <1>3, <1>4, <1>6, DroppedFacts DEF Owners
<1>11. Appendable'
  BY <1>1, <1>3, <1>7, AppendableKept
<1>12. CopyFresh'
  BY <1>3, <1>4 DEF CopyFresh
<1>13. FileInv'
  <2>1. /\ Pending(pc, b) /\ Start(pc, file.at) <= file.at /\ Ready(pc, b, file.at)
        /\ \A o \in Cell : o < Start(pc, file.at) => AsMeant(b, o) /\ Fresh(rc, b, o)
    BY <1>1, <1>2 DEF MoveInv
  <2>2. Pending(fc, file.block)'
    BY <1>2, <1>3, <1>6, <2>1 DEF Pending
  <2>3. Start(fc, file.at)' = Start(pc, file.at)
    BY <1>2, <1>6 DEF Start
  <2>4. Ready(fc, file.block, file.at)'
    BY <1>2, <1>6, <2>1 DEF Ready
  <2>5. fc'.block # NoBlock => file'.at <= fc'.off + fc'.size
    BY <1>2, <1>5, <1>6, <2>1 DEF Ready
  <2>6. \A o \in Cell : o < Start(pc, file.at) => AsMeant(file.block, o)' /\ Fresh(rc, file.block, o)'
    BY <1>3, <1>6, <2>1 DEF AsMeant, Fresh
  <2> QED
    BY <1>6, <2>1, <2>2, <2>3, <2>4, <2>5, <2>6 DEF FileInv
<1>14. MoveInv' /\ CommitInv' /\ CheckInv'
  BY <1>2, <1>3, <1>4 DEF MoveInv, CommitInv, CheckInv
<1>15. ReadsLast'
  BY <1>3 DEF IInv, ReadsLast
<1> QED
  BY <1>8, <1>9, <1>10, <1>11, <1>12, <1>13, <1>14, <1>15 DEF IInv

\* An erase: nothing is known of the block that is not so.
LEMMA EraseFacts ==
    ASSUME TypeOK, NEW b \in Blocks, Erase(b)
    PROVE  /\ disk' \in [Blocks -> [Cell -> Values]] /\ meant' \in [Blocks -> [Cell -> Values]]
           /\ settled' \in [Blocks -> SUBSET Cell] /\ erases' \in Nat
           /\ settled'[b] = {}
           /\ \A c \in Blocks : c # b => settled'[c] = settled[c]
           /\ \A o \in Cell : AsMeant(b, o)'
           /\ \A c \in Blocks, o \in Cell :
                 c # b => disk'[c][o] = disk[c][o] /\ meant'[c][o] = meant[c][o]
<1>1. Blank \in [Cell -> Values]
  BY Marks DEF Blank
<1>2. /\ disk \in [Blocks -> [Cell -> Values]] /\ meant \in [Blocks -> [Cell -> Values]]
      /\ settled \in [Blocks -> SUBSET Cell]
  BY DEF TypeOK
<1>3. /\ disk' \in [Blocks -> [Cell -> Values]] /\ meant' \in [Blocks -> [Cell -> Values]]
      /\ disk'[b] = Blank /\ meant'[b] = Blank
      /\ \A c \in Blocks : c # b => disk'[c] = disk[c] /\ meant'[c] = meant[c]
  BY <1>1, <1>2 DEF Erase
<1>4. /\ settled' \in [Blocks -> SUBSET Cell]
      /\ settled'[b] = {}
      /\ \A c \in Blocks : c # b => settled'[c] = settled[c]
  BY <1>2 DEF Erase
<1>5. erases' \in Nat
  BY DEF Erase, TypeOK
<1>6. \A o \in Cell : AsMeant(b, o)'
  BY <1>3 DEF AsMeant
<1> QED
  BY <1>3, <1>4, <1>5, <1>6

\* The blocks that are not erased, when nothing is lost of them.
LEMMA ErasedOthers ==
    ASSUME TypeOK, WrittenHolds, ReadFresh, Appendable, NEW b \in Blocks, Erase(b),
           next' = [next EXCEPT ![b] = BlockSize],
           commit = None, commit' # None => commit'.block = b,
           \A c \in Blocks, o \in Cell : c # b => Kept(c, o)
    PROVE  /\ next' \in [Blocks -> 0 .. BlockSize] /\ next'[b] = BlockSize
           /\ \A c \in Blocks : c # b => next'[c] = next[c]
           /\ WrittenHolds' /\ ReadFresh' /\ Appendable'
<1>1. /\ settled'[b] = {}
      /\ \A c \in Blocks : c # b => settled'[c] = settled[c]
  BY EraseFacts
<1>2. /\ next' \in [Blocks -> 0 .. BlockSize] /\ next'[b] = BlockSize
      /\ \A c \in Blocks : c # b => next'[c] = next[c]
  <2>1. next \in [Blocks -> 0 .. BlockSize] /\ BlockSize \in 0 .. BlockSize
    BY Sizes DEF TypeOK
  <2> QED
    BY <2>1
<1>3. WrittenHolds' /\ ReadFresh'
  <2>1. \A c \in Blocks : settled'[c] \subseteq settled[c]
    BY <1>1
  <2>2. \A c \in Blocks : \A o \in settled'[c] : Kept(c, o)
    BY <1>1, BlocksOf
  <2> QED
    BY <2>1, <2>2, SettledKept
<1>4. Appendable'
  <2>1. SUFFICES ASSUME NEW c \in Blocks, next'[c] < BlockSize
                 PROVE  /\ next'[c] % ProgSize = 0
                        /\ settled'[c] \subseteq 0 .. next'[c] - 1
                        /\ commit' = None \/ commit'.block # c
                        /\ \A o \in next'[c] .. BlockSize - 1 : AsMeant(c, o)' /\ Fresh(rc, c, o)'
    BY DEF Appendable
  <2>2. c # b
    BY <1>2, <2>1, Sizes
  <2>3. /\ next[c] < BlockSize /\ next'[c] = next[c] /\ settled'[c] = settled[c]
        /\ next[c] \in Nat
    BY <1>1, <1>2, <2>1, <2>2, BlocksOf
  <2>4. /\ next[c] % ProgSize = 0
        /\ settled[c] \subseteq 0 .. next[c] - 1
        /\ \A o \in next[c] .. BlockSize - 1 : AsMeant(c, o) /\ Fresh(rc, c, o)
    BY <2>3 DEF Appendable
  <2>5. \A o \in next[c] .. BlockSize - 1 : o \in Cell
    BY <2>3, Sizes DEF Cell
  <2>6. \A o \in next[c] .. BlockSize - 1 : AsMeant(c, o)' /\ Fresh(rc, c, o)'
    BY <2>2, <2>4, <2>5 DEF Kept, AsMeant
  <2> QED
    BY <2>2, <2>3, <2>4, <2>6
<1> QED
  BY <1>2, <1>3, <1>4

LEMMA StartBlockStep ==
    ASSUME IInv, NEW b \in Blocks, StartBlock(b)
    PROVE  IInv'
<1>1. TypeOK /\ Inside /\ Owners /\ Appendable /\ CopyFresh /\ WrittenHolds /\ ReadFresh
  BY DEF IInv
<1>2. /\ step = "run" /\ commit = None /\ move = None /\ hand # "empty" /\ file = None
      /\ Erase(b) /\ next' = [next EXCEPT ![b] = BlockSize]
      /\ file' = [block |-> b, at |-> 0, last |-> FALSE]
  BY DEF StartBlock, Idle
<1>3. UNCHANGED <<rc, rbuf, orig, pc, fc, move, commit, hand, step, pos, wrong, faults>>
  BY DEF StartBlock, reader, calls
<1>4. fc.block = NoBlock
  BY <1>1, <1>2 DEF Owners
<1>5. file' # None /\ file' \in File /\ file'.block = b /\ file'.at = 0 /\ file'.last = FALSE
  <2>1. file' \in File
    BY <1>2, Sizes DEF File
  <2> QED
    BY <1>2, <2>1, Marks
<1>6. /\ disk' \in [Blocks -> [Cell -> Values]] /\ meant' \in [Blocks -> [Cell -> Values]]
      /\ settled' \in [Blocks -> SUBSET Cell] /\ erases' \in Nat
      /\ settled'[b] = {}
      /\ \A c \in Blocks : c # b => settled'[c] = settled[c]
      /\ \A c \in Blocks, o \in Cell :
            c # b => disk'[c][o] = disk[c][o] /\ meant'[c][o] = meant[c][o]
  BY <1>1, <1>2, EraseFacts
<1>7. \A c \in Blocks, o \in Cell : c # b => Kept(c, o)
  BY <1>3, <1>6 DEF Kept, Fresh
<1>8. /\ next' \in [Blocks -> 0 .. BlockSize] /\ next'[b] = BlockSize
      /\ WrittenHolds' /\ ReadFresh' /\ Appendable'
  BY <1>1, <1>2, <1>3, <1>7, ErasedOthers
<1>9. TypeOK' /\ Inside'
  BY <1>1, <1>3, <1>5, <1>6, <1>8 DEF TypeOK, Inside
<1>10. Owners'
  BY <1>1, <1>2, <1>3, <1>5, <1>6, <1>8 DEF Owners
<1>11. CopyFresh'
  <2>1. ASSUME hand # "off", rc.block = NoBlock, NEW c \in Blocks, NEW o \in settled'[c]
        PROVE  Fresh(orig, c, o)'
    <3>1. c # b /\ o \in settled[c] /\ o \in Cell
      BY <1>1, <1>6, <2>1, BlocksOf
    <3>2. Fresh(orig, c, o)
      BY <1>1, <1>2, <2>1, <3>1 DEF CopyFresh
    <3> QED
      BY <1>3, <1>6, <3>1, <3>2 DEF Fresh
  <2>2. Start(fc, file.at)' = 0
    BY <1>3, <1>4, <1>5 DEF Start
  <2>3. \A o \in Cell : ~(o < 0)
    BY Sizes DEF Cell
  <2> QED
    BY <1>1, <1>2, <1>3, <2>1, <2>2, <2>3 DEF CopyFresh
<1>12. FileInv'
  <2>1. Pending(fc, file.block)' /\ Start(fc, file.at)' = 0 /\ fc'.block = NoBlock
    BY <1>3, <1>4, <1>5, Marks DEF Pending, Start
  <2>2. Ready(fc, file.block, file.at)'
    BY <1>5, <2>1, Sizes DEF Ready
  <2>3. \A o \in Cell : ~(o < 0)
    BY Sizes DEF Cell
  <2> QED
    BY <1>5, <2>1, <2>2, <2>3 DEF FileInv
<1>13. MoveInv' /\ CommitInv' /\ CheckInv'
  BY <1>2, <1>3 DEF MoveInv, CommitInv, CheckInv
<1>14. ReadsLast'
  BY <1>3 DEF IInv, ReadsLast
<1> QED
  BY <1>8, <1>9, <1>10, <1>11, <1>12, <1>13, <1>14 DEF IInv

LEMMA MoveStartStep ==
    ASSUME IInv, NEW b \in Blocks, MoveStart(b)
    PROVE  IInv'
<1>1. /\ TypeOK /\ Inside /\ Owners /\ Appendable /\ CopyFresh /\ WrittenHolds /\ ReadFresh
      /\ FileInv /\ CheckInv
  BY DEF IInv
<1>2. /\ step = "bad" /\ commit = None /\ ~FileBlock(b)
      /\ Erase(b) /\ next' = [next EXCEPT ![b] = BlockSize]
      /\ pc' = Dropped(pc) /\ move' = [block |-> b, at |-> 0]
      /\ step' = "run" /\ pos' = 0
  BY DEF MoveStart, FreeBlock
<1>3. UNCHANGED <<rc, rbuf, orig, fc, file, commit, hand, wrong, faults>>
  BY DEF MoveStart, reader
<1>4. /\ file # None /\ hand # "empty" /\ rc.block # NoBlock
      /\ settled[file.block] = {} /\ next[file.block] = BlockSize
  BY <1>1, <1>2 DEF Owners, CheckInv
<1>5. file.block \in Blocks /\ file.block # b /\ file.at \in Nat
  BY <1>1, <1>2, <1>4, BlocksOf DEF FileBlock
<1>6. move' # None /\ move' \in Move /\ move'.block = b /\ move'.at = 0
  <2>1. move' \in Move
    BY <1>2, Sizes DEF Move
  <2> QED
    BY <1>2, <2>1, Marks
<1>7. pc' \in Program /\ pc'.block = NoBlock
  BY <1>1, <1>2, DroppedFacts DEF TypeOK
<1>8. /\ disk' \in [Blocks -> [Cell -> Values]] /\ meant' \in [Blocks -> [Cell -> Values]]
      /\ settled' \in [Blocks -> SUBSET Cell] /\ erases' \in Nat
      /\ settled'[b] = {}
      /\ \A c \in Blocks : c # b => settled'[c] = settled[c]
      /\ \A c \in Blocks, o \in Cell :
            c # b => disk'[c][o] = disk[c][o] /\ meant'[c][o] = meant[c][o]
  BY <1>1, <1>2, EraseFacts
<1>9. \A c \in Blocks, o \in Cell : c # b => Kept(c, o)
  BY <1>3, <1>8 DEF Kept, Fresh
<1>10. /\ next' \in [Blocks -> 0 .. BlockSize] /\ next'[b] = BlockSize
       /\ \A c \in Blocks : c # b => next'[c] = next[c]
       /\ WrittenHolds' /\ ReadFresh' /\ Appendable'
  BY <1>1, <1>2, <1>3, <1>9, ErasedOthers
<1>11. TypeOK' /\ Inside'
  BY <1>1, <1>2, <1>3, <1>6, <1>7, <1>8, <1>10, Sizes DEF TypeOK, Inside
<1>12. Owners'
  <2>1. settled'[file.block] = {}
    BY <1>4, <1>5, <1>8
  <2>2. next'[file.block] = BlockSize
    BY <1>4, <1>5, <1>10
  <2>3. 0 <= file.at
    BY <1>5
  <2> QED
    BY <1>2, <1>3, <1>4, <1>5, <1>6, <1>8, <1>10, <2>1, <2>2, <2>3 DEF Owners
<1>13. CopyFresh'
  BY <1>3, <1>4 DEF CopyFresh
<1>14. FileInv'
  <2>1. \A o \in Cell : Kept(file.block, o)
    BY <1>5, <1>9
  <2> QED
    BY <1>1, <1>2, <1>3, <1>6, <2>1, FileKept DEF Idle, Steady, Kept
<1>15. MoveInv'
  <2>1. Pending(pc, move.block)' /\ Start(pc, move.at)' = 0
    BY <1>6, <1>7, Marks DEF Pending, Start
  <2>2. Ready(pc, move.block, move.at)'
    BY <1>6, <1>7, Sizes DEF Ready
  <2>3. \A o \in Cell : ~(o < 0)
    BY Sizes DEF Cell
  <2> QED
    BY <1>2, <1>6, <2>1, <2>2, <2>3 DEF MoveInv
<1>16. CommitInv' /\ CheckInv'
  BY <1>2, <1>3, <1>4 DEF CommitInv, CheckInv
<1>17. ReadsLast'
  BY <1>3 DEF IInv, ReadsLast
<1> QED
  BY <1>10, <1>11, <1>12, <1>13, <1>14, <1>15, <1>16, <1>17 DEF IInv

LEMMA FreeStep ==
    ASSUME IInv, NEW b \in Blocks, Free(b)
    PROVE  IInv'
<1>1. TypeOK /\ Inside /\ Owners /\ Appendable /\ CopyFresh /\ WrittenHolds /\ ReadFresh /\ FileInv
  BY DEF IInv
<1>2. /\ step = "run" /\ commit = None /\ move = None /\ hand = "off" /\ ~FileBlock(b)
      /\ settled' = [settled EXCEPT ![b] = {}] /\ next' = [next EXCEPT ![b] = BlockSize]
  BY DEF Free, Idle, Copying
<1>3. UNCHANGED <<disk, meant, rc, rbuf, orig, pc, fc, file, move, commit, hand, step, pos,
                  wrong, faults, erases>>
  BY DEF Free, device, reader, calls
<1>4. /\ settled' \in [Blocks -> SUBSET Cell] /\ settled'[b] = {}
      /\ \A c \in Blocks : c # b => settled'[c] = settled[c]
  BY <1>1, <1>2 DEF TypeOK
<1>5. /\ next' \in [Blocks -> 0 .. BlockSize] /\ next'[b] = BlockSize
      /\ \A c \in Blocks : c # b => next'[c] = next[c]
  <2>1. next \in [Blocks -> 0 .. BlockSize] /\ BlockSize \in 0 .. BlockSize
    BY <1>1, Sizes DEF TypeOK
  <2> QED
    BY <1>2, <2>1
<1>6. \A c \in Blocks, o \in Cell : Kept(c, o)
  BY <1>3 DEF Kept, Fresh
<1>7. TypeOK' /\ Inside'
  BY <1>1, <1>3, <1>4, <1>5 DEF TypeOK, Inside
<1>8. WrittenHolds' /\ ReadFresh'
  <2>1. \A c \in Blocks : settled'[c] \subseteq settled[c]
    BY <1>4
  <2> QED
    BY <1>1, <1>6, <2>1, BlocksOf, SettledKept
<1>9. Owners'
  <2>1. file # None => settled'[file.block] = {} /\ next'[file.block] = BlockSize
    BY <1>1, <1>2, <1>4, <1>5, BlocksOf DEF Owners, FileBlock
  <2> QED
    BY <1>1, <1>2, <1>3, <2>1 DEF Owners
<1>10. Appendable'
  <2>1. \A c \in Blocks : next'[c] < BlockSize => next'[c] = next[c] /\ settled'[c] \subseteq settled[c]
    BY <1>4, <1>5, Sizes
  <2> QED
    BY <1>1, <1>3, <1>6, <2>1, AppendableKept
<1>11. CopyFresh'
  BY <1>2, <1>3 DEF CopyFresh
<1>12. FileInv'
  BY <1>1, <1>3, <1>6, BlocksOf, FileKept DEF Idle, Steady, Kept
<1>13. MoveInv' /\ CommitInv' /\ CheckInv'
  BY <1>2, <1>3 DEF MoveInv, CommitInv, CheckInv
<1>14. ReadsLast'
  BY <1>3 DEF IInv, ReadsLast
<1> QED
  BY <1>7, <1>8, <1>9, <1>10, <1>11, <1>12, <1>13, <1>14 DEF IInv

LEMMA CopyStartStep ==
    ASSUME IInv, CopyStart
    PROVE  IInv'
<1>1. TypeOK /\ Inside /\ Owners /\ ReadFresh /\ FileInv
  BY DEF IInv
<1>2. /\ step = "run" /\ commit = None /\ move = None /\ hand = "off" /\ file # None
      /\ orig' = rc /\ rc' = Dropped(rc) /\ hand' = "empty"
  BY DEF CopyStart, Idle, Copying
<1>3. UNCHANGED <<disk, meant, settled, next, rbuf, pc, fc, file, move, commit, step, pos,
                  wrong, faults, erases>>
  BY DEF CopyStart, device, ends
<1>4. rc' \in Desc /\ rc'.block = NoBlock
  BY <1>1, <1>2, DroppedFacts DEF TypeOK
<1>5. TypeOK' /\ Inside'
  BY <1>1, <1>2, <1>3, <1>4 DEF TypeOK, Inside
<1>6. AllKept
  BY <1>3, <1>4, Marks DEF AllKept, Kept, Fresh, Holds
<1>7. WrittenHolds' /\ ReadFresh' /\ Appendable' /\ FileInv' /\ MoveInv'
  BY <1>2, <1>3, <1>6, WhenAllKept DEF Idle, Steady
<1>8. Owners'
  BY <1>1, <1>2, <1>3 DEF Owners, FileBlock
<1>9. CopyFresh'
  <2>1. /\ \A b \in Blocks : \A o \in settled[b] : Fresh(rc, b, o)
        /\ \A o \in Cell : o < Start(fc, file.at) => Fresh(rc, file.block, o)
    BY <1>1, <1>2 DEF ReadFresh, FileInv
  <2> QED
    BY <1>2, <1>3, <1>4, <2>1 DEF CopyFresh, Fresh, Start
<1>10. CommitInv' /\ CheckInv'
  BY <1>2, <1>3 DEF CommitInv, CheckInv
<1>11. ReadsLast'
  BY <1>3 DEF IInv, ReadsLast
<1> QED
  BY <1>5, <1>7, <1>8, <1>9, <1>10, <1>11 DEF IInv

LEMMA CopyNextStep ==
    ASSUME IInv, CopyNext
    PROVE  IInv'
<1>1. TypeOK /\ Inside /\ Owners /\ CopyFresh
  BY DEF IInv
<1>2. /\ step = "run" /\ commit = None /\ move = None /\ hand = "done" /\ hand' = "empty"
      /\ \/ rc.block # NoBlock /\ orig' = Dropped(orig) /\ rc' = Dropped(rc)
         \/ rc.block = NoBlock /\ orig' = orig /\ rc' = rc
  BY DEF CopyNext, Idle
<1>3. UNCHANGED <<disk, meant, settled, next, rbuf, pc, fc, file, move, commit, step, pos,
                  wrong, faults, erases>>
  BY DEF CopyNext, device, ends
<1>4. /\ rc' \in Desc /\ rc'.block = NoBlock /\ orig' \in Desc
      /\ \/ orig'.block = NoBlock
         \/ rc.block = NoBlock /\ orig' = orig
  BY <1>1, <1>2, DroppedFacts DEF TypeOK
<1>5. TypeOK' /\ Inside'
  BY <1>1, <1>2, <1>3, <1>4 DEF TypeOK, Inside
<1>6. AllKept
  BY <1>3, <1>4, Marks DEF AllKept, Kept, Fresh, Holds
<1>7. WrittenHolds' /\ ReadFresh' /\ Appendable' /\ FileInv' /\ MoveInv'
  BY <1>2, <1>3, <1>6, WhenAllKept DEF Idle, Steady
<1>8. Owners'
  BY <1>1, <1>2, <1>3 DEF Owners, FileBlock
<1>9. CopyFresh'
  <2>1. CASE orig'.block = NoBlock
    <3>1. \A c \in Blocks, o \in Cell : Fresh(orig, c, o)'
      BY <2>1, Marks DEF Fresh, Holds
    <3>2. /\ file # None => file.block \in Blocks
          /\ \A c \in Blocks : settled[c] \subseteq Cell
      BY <1>1, BlocksOf
    <3> QED
      BY <1>3, <1>4, <3>1, <3>2 DEF CopyFresh
  <2>2. CASE rc.block = NoBlock /\ orig' = orig
    BY <1>1, <1>2, <1>3, <1>4, <2>2 DEF CopyFresh, Fresh, Start
  <2> QED
    BY <1>4, <2>1, <2>2
<1>10. CommitInv' /\ CheckInv'
  BY <1>2, <1>3 DEF CommitInv, CheckInv
<1>11. ReadsLast'
  BY <1>3 DEF IInv, ReadsLast
<1> QED
  BY <1>5, <1>7, <1>8, <1>9, <1>10, <1>11 DEF IInv

LEMMA CopyEndStep ==
    ASSUME IInv, CopyEnd
    PROVE  IInv'
<1>1. TypeOK /\ Inside /\ Owners
  BY DEF IInv
<1>2. /\ hand = "empty" /\ hand' = "off" /\ orig' = NoDesc
      /\ UNCHANGED <<disk, meant, settled, next, rc, rbuf, pc, fc, file, move, commit, step,
                     pos, wrong, faults, erases>>
  BY DEF CopyEnd, device, ends, reader
<1>3. step = "run" /\ move = None /\ commit = None
  BY <1>1, <1>2 DEF Owners
<1>4. orig' \in Desc /\ orig'.block = NoBlock
  BY <1>2, Sizes DEF NoDesc, Desc, Cell
<1>5. TypeOK' /\ Inside'
  BY <1>1, <1>2, <1>4 DEF TypeOK, Inside
<1>6. AllKept
  BY <1>2 DEF AllKept, Kept, Fresh
<1>7. WrittenHolds' /\ ReadFresh' /\ Appendable' /\ FileInv' /\ MoveInv'
  BY <1>2, <1>3, <1>6, WhenAllKept DEF Idle, Steady
<1>8. Owners'
  BY <1>1, <1>2, <1>3 DEF Owners, FileBlock
<1>9. CopyFresh' /\ CommitInv' /\ CheckInv'
  BY <1>2, <1>3 DEF CopyFresh, CommitInv, CheckInv
<1>10. ReadsLast'
  BY <1>2 DEF IInv, ReadsLast
<1> QED
  BY <1>5, <1>7, <1>8, <1>9, <1>10 DEF IInv

LEMMA CommitAppendStep ==
    ASSUME IInv, NEW b \in Blocks, CommitAppend(b)
    PROVE  IInv'
<1> DEFINE at == next[b]
<1>1. TypeOK /\ Inside /\ Owners /\ Appendable /\ FileInv
  BY DEF IInv
<1>2. /\ step = "run" /\ commit = None /\ move = None /\ hand = "off" /\ ~FileBlock(b)
      /\ at < BlockSize
      /\ commit' = [block |-> b, start |-> at, at |-> at]
  BY DEF CommitAppend, Idle, Copying
<1>3. UNCHANGED <<disk, meant, settled, next, rc, rbuf, orig, pc, fc, file, move, hand, step,
                  pos, wrong, faults, erases>>
  BY DEF CommitAppend, device, ends, reader
<1>4. /\ at \in Nat /\ at % ProgSize = 0 /\ settled[b] \subseteq 0 .. at - 1
      /\ \A o \in at .. BlockSize - 1 : AsMeant(b, o) /\ Fresh(rc, b, o)
  BY <1>1, <1>2, BlocksOf DEF Appendable
<1>5. /\ commit' # None /\ commit' \in Commit
      /\ commit'.block = b /\ commit'.start = at /\ commit'.at = at
  <2>1. commit' \in Commit
    BY <1>1, <1>2 DEF Commit, TypeOK
  <2> QED
    BY <1>2, <2>1, Marks
<1>6. pc.block = NoBlock
  BY <1>1, <1>2 DEF Owners
<1>7. \A c \in Blocks, o \in Cell : Kept(c, o)
  BY <1>3 DEF Kept, Fresh
<1>8. TypeOK' /\ Inside'
  BY <1>1, <1>3, <1>5 DEF TypeOK, Inside
<1>9. WrittenHolds' /\ ReadFresh'
  BY <1>1, <1>3, <1>7, BlocksOf, SettledKept DEF IInv
<1>10. Owners'
  <2>1. at <= at
    BY <1>4
  <2> QED
    BY <1>1, <1>2, <1>3, <1>4, <1>5, <2>1 DEF Owners, FileBlock
<1>11. Appendable'
  <2>1. ASSUME NEW c \in Blocks, next[c] < BlockSize
        PROVE  /\ next[c] % ProgSize = 0
               /\ settled[c] \subseteq 0 .. next[c] - 1
               /\ b = c => at = next[c]
               /\ \A o \in next[c] .. BlockSize - 1 : AsMeant(c, o)' /\ Fresh(rc, c, o)'
    <3>1. \A o \in next[c] .. BlockSize - 1 : AsMeant(c, o) /\ Fresh(rc, c, o)
      BY <1>1, <1>2, <2>1 DEF Appendable
    <3> QED
      BY <1>1, <1>3, <2>1, <3>1 DEF Appendable, AsMeant, Fresh
  <2> QED
    BY <1>3, <1>5, <2>1 DEF Appendable
<1>12. CopyFresh'
  BY <1>2, <1>3 DEF CopyFresh
<1>13. FileInv'
  BY <1>1, <1>2, <1>3, <1>7, BlocksOf, FileKept DEF Idle, Steady, Kept
<1>14. CommitInv'
  <2>1. Pending(pc, commit.block)' /\ Start(pc, commit.at)' = at /\ Ready(pc, commit.block, commit.at)'
    BY <1>3, <1>4, <1>5, <1>6, Marks DEF Pending, Start, Ready
  <2>2. \A o \in at .. BlockSize - 1 : AsMeant(commit.block, o)' /\ Fresh(rc, commit.block, o)'
    BY <1>3, <1>4, <1>5 DEF AsMeant, Fresh
  <2>3. at >= at
    BY <1>4
  <2> QED
    BY <1>2, <1>3, <1>5, <2>1, <2>2, <2>3 DEF CommitInv
<1>15. MoveInv' /\ CheckInv'
  BY <1>2, <1>3 DEF MoveInv, CheckInv
<1>16. ReadsLast'
  BY <1>3 DEF IInv, ReadsLast
<1> QED
  BY <1>8, <1>9, <1>10, <1>11, <1>12, <1>13, <1>14, <1>15, <1>16 DEF IInv

LEMMA CommitCompactStep ==
    ASSUME IInv, NEW b \in Blocks, NEW s \in Blocks, NEW o \in Cell, NEW h \in Hints,
           CommitCompact(b, s, o, h)
    PROVE  IInv'
<1>1. TypeOK /\ Inside /\ Owners /\ Appendable /\ WrittenHolds /\ ReadFresh /\ FileInv
  BY DEF IInv
<1>2. /\ step = "run" /\ commit = None /\ move = None /\ hand = "off" /\ ~FileBlock(b)
      /\ s # b /\ Erase(b) /\ next' = [next EXCEPT ![b] = BlockSize]
      /\ ReadRc(Zeroed, s, o, h)
      /\ commit' = [block |-> b, start |-> 0, at |-> 0]
  BY DEF CommitCompact, Idle, Copying
<1>3. UNCHANGED <<orig, pc, fc, file, move, hand, step, pos, wrong, faults>>
  BY DEF CommitCompact
<1>4. /\ commit' # None /\ commit' \in Commit
      /\ commit'.block = b /\ commit'.start = 0 /\ commit'.at = 0
  <2>1. commit' \in Commit
    BY <1>2, Sizes DEF Commit
  <2> QED
    BY <1>2, <2>1, Marks
<1>5. pc.block = NoBlock
  BY <1>1, <1>2 DEF Owners
<1>6. /\ disk' \in [Blocks -> [Cell -> Values]] /\ meant' \in [Blocks -> [Cell -> Values]]
      /\ settled' \in [Blocks -> SUBSET Cell] /\ erases' \in Nat
      /\ settled'[b] = {}
      /\ \A c \in Blocks : c # b => settled'[c] = settled[c]
      /\ \A x \in Cell : AsMeant(b, x)'
      /\ \A c \in Blocks, x \in Cell :
            c # b => disk'[c][x] = disk[c][x] /\ meant'[c][x] = meant[c][x]
  BY <1>1, <1>2, EraseFacts
<1>7. /\ Sound(rc)' /\ rbuf' \in [Slot -> Values] /\ IsOf(rc', s)
      /\ \/ rc' = rc /\ rbuf' = rbuf
         \/ True(rc', rbuf')
  <2>1. Sound(rc) /\ h \in Nat \ {0} /\ ~Holds(Zeroed, s, o)
    BY <1>1, Marks, ZeroedHoldsNone DEF TypeOK, Inside, Sound, Unused
  <2> QED
    BY <1>1, <1>2, <2>1, ReadLeaves DEF ReadRc
<1>8. \A c \in Blocks, x \in Cell : c # b => Kept(c, x)
  BY <1>6, <1>7 DEF Kept, Fresh, True
<1>9. \A x \in Cell : Fresh(rc, b, x)'
  BY <1>2, <1>7 DEF Fresh, Holds, IsOf
<1>10. /\ next' \in [Blocks -> 0 .. BlockSize] /\ next'[b] = BlockSize
       /\ \A c \in Blocks : c # b => next'[c] = next[c]
       /\ WrittenHolds' /\ ReadFresh' /\ Appendable'
  BY <1>1, <1>2, <1>4, <1>8, ErasedOthers
<1>11. TypeOK' /\ Inside'
  BY <1>1, <1>3, <1>4, <1>6, <1>7, <1>10 DEF TypeOK, Inside, Sound, Unused
<1>12. Owners'
  <2>1. file # None => settled'[file.block] = {} /\ next'[file.block] = BlockSize
    <3>1. ASSUME file # None
          PROVE  file.block \in Blocks /\ file.block # b /\ settled[file.block] = {}
                 /\ next[file.block] = BlockSize
      BY <1>1, <1>2, <3>1, BlocksOf DEF Owners, FileBlock
    <3> QED
      BY <1>6, <1>10, <3>1
  <2> QED
    BY <1>1, <1>2, <1>3, <1>4, <1>6, <2>1 DEF Owners, FileBlock
<1>13. CopyFresh'
  BY <1>2, <1>3 DEF CopyFresh
<1>14. FileInv'
  <2>1. file # None => \A x \in Cell : Kept(file.block, x)
    BY <1>1, <1>2, <1>8, BlocksOf DEF FileBlock
  <2> QED
    BY <1>1, <1>2, <1>3, <2>1, FileKept DEF Idle, Steady, Kept
<1>15. CommitInv'
  <2>1. Pending(pc, commit.block)' /\ Start(pc, commit.at)' = 0 /\ Ready(pc, commit.block, commit.at)'
    BY <1>3, <1>4, <1>5, Sizes, Marks DEF Pending, Start, Ready
  <2>2. \A x \in 0 .. BlockSize - 1 : AsMeant(commit.block, x)' /\ Fresh(rc, commit.block, x)'
    BY <1>4, <1>6, <1>9 DEF AsMeant, Cell
  <2> QED
    BY <1>2, <1>3, <1>4, <2>1, <2>2, Sizes DEF CommitInv
<1>16. MoveInv' /\ CheckInv'
  BY <1>2, <1>3 DEF MoveInv, CheckInv
<1>17. ReadsLast'
  BY <1>3 DEF IInv, ReadsLast
<1> QED
  BY <1>10, <1>11, <1>12, <1>13, <1>14, <1>15, <1>16, <1>17 DEF IInv

\* A cell goes into the program cache of a commit, and the cache is flushed.
LEMMA CommitFlushFacts ==
    ASSUME IInv, MayCommit, NEW v \in Value,
           DeviceTakes(Programmed(pc, commit.block, commit.at, v)),
           commit' = [commit EXCEPT !.at = @ + 1],
           NEW q, q = Programmed(pc, commit.block, commit.at, v)
    PROVE  /\ move = None /\ hand = "off" /\ ~FileBlock(commit.block)
           /\ commit.block \in Blocks /\ commit.at \in Nat /\ commit.at < BlockSize
           /\ commit.start \in Nat /\ commit.start <= commit.at
           /\ settled[commit.block] \subseteq 0 .. commit.start - 1
           /\ commit' # None /\ commit' \in Commit /\ commit'.block = commit.block
           /\ commit'.start = commit.start /\ commit'.at = commit.at + 1
           /\ disk' \in [Blocks -> [Cell -> Values]] /\ meant' \in [Blocks -> [Cell -> Values]]
           /\ faults' \in Nat
           /\ FlushEnd(q) = AlignUp(commit.at + 1, ProgSize)
           /\ FlushEnd(q) \in Nat /\ FlushEnd(q) % ProgSize = 0 /\ commit.at + 1 <= FlushEnd(q)
           /\ IsFull(q) => FlushEnd(q) = commit.at + 1
           /\ \A c \in Blocks, o \in Cell :
                 c # commit.block \/ o < commit.start \/ FlushEnd(q) <= o =>
                     disk'[c][o] = disk[c][o] /\ meant'[c][o] = meant[c][o]
<1> DEFINE b == commit.block
           at == commit.at
<1>1. TypeOK /\ Owners /\ CommitInv
  BY DEF IInv
<1>2. step = "run" /\ commit # None
  BY DEF MayCommit
<1>3. /\ move = None /\ hand = "off" /\ ~FileBlock(b) /\ commit.start <= at
      /\ settled[b] \subseteq 0 .. commit.start - 1
  BY <1>1, <1>2 DEF Owners
<1>4. /\ pc \in Program /\ Pending(pc, b) /\ Ready(pc, b, at) /\ Start(pc, at) >= commit.start
      /\ at < BlockSize
  BY <1>1, <1>2 DEF CommitInv, TypeOK
<1>5. b \in Blocks /\ at \in Nat /\ at \in Cell /\ commit.start \in Nat /\ commit \in Commit /\ v \in Values
  BY <1>1, <1>2, <1>4, BlocksOf, Marks, Sizes DEF Cell, TypeOK
<1>6. /\ commit' # None /\ commit' \in Commit /\ commit'.block = b /\ commit'.start = commit.start
      /\ commit'.at = at + 1
  <2>1. commit' = [block |-> b, start |-> commit.start, at |-> at + 1]
    BY <1>5 DEF Commit
  <2>2. commit' \in Commit
    BY <1>4, <1>5, <2>1, Sizes DEF Commit
  <2> QED
    BY <2>1, <2>2, Marks
<1>7. /\ q \in Program /\ q.block = b /\ q.off = Start(pc, at) /\ q.off % ProgSize = 0
      /\ q.off + q.size = at + 1 /\ q.size >= 1 /\ Within(q)
  <2> HIDE DEF b, at
  <2>1. q = Programmed(pc, b, at, v)
    BY DEF b, at
  <2> QED
    BY <1>4, <1>5, <2>1, ProgrammedFacts
<1>8. /\ FlushEnd(q) \in Nat /\ FlushEnd(q) % ProgSize = 0 /\ at + 1 <= FlushEnd(q)
      /\ FlushEnd(q) = AlignUp(at + 1, ProgSize)
      /\ FlushRange(q) \subseteq Cell
      /\ \A o \in Cell : o \in FlushRange(q) <=> q.off <= o /\ o < FlushEnd(q)
      /\ IsFull(q) => FlushEnd(q) = at + 1
  BY <1>7, FlushFacts
<1>9. /\ disk' \in [Blocks -> [Cell -> Values]] /\ meant' \in [Blocks -> [Cell -> Values]]
      /\ faults' \in Nat
      /\ \A c \in Blocks, o \in Cell :
            c # q.block \/ o \notin FlushRange(q) =>
                disk'[c][o] = disk[c][o] /\ meant'[c][o] = meant[c][o]
  <2>1. q.block \in Blocks /\ DeviceTakes(q)
    BY <1>5, <1>7
  <2> QED
    BY <1>1, <1>7, <1>8, <2>1, FlushWrites
<1>10. ASSUME NEW c \in Blocks, NEW o \in Cell,
              c # b \/ o < commit.start \/ FlushEnd(q) <= o
       PROVE  disk'[c][o] = disk[c][o] /\ meant'[c][o] = meant[c][o]
  <2>1. c # q.block \/ o \notin FlushRange(q)
    BY <1>4, <1>5, <1>7, <1>8, <1>10, Sizes DEF Cell, Program
  <2> QED
    BY <1>9, <2>1
<1> QED
  BY <1>3, <1>4, <1>5, <1>6, <1>8, <1>9, <1>10

LEMMA CommitFullStep ==
    ASSUME IInv, NEW v \in Value, CommitFull(v)
    PROVE  IInv'
<1> DEFINE b   == commit.block
           q   == Programmed(pc, b, commit.at, v)
           end == FlushEnd(q)
<1>1. TypeOK /\ Inside /\ Owners /\ Appendable /\ FileInv /\ CommitInv
  BY DEF IInv
<1>2. /\ MayCommit /\ step = "run" /\ commit # None /\ commit.at < BlockSize - 1
      /\ IsFull(q) /\ pc' = Zeroed /\ DeviceTakes(q)
      /\ commit' = [commit EXCEPT !.at = @ + 1]
  BY DEF CommitFull, MayProg, MayCommit
<1>3. UNCHANGED <<settled, next, rc, rbuf, orig, fc, file, move, hand, step, pos, wrong, erases>>
  BY DEF CommitFull, ends, reader
<1>4. /\ move = None /\ hand = "off" /\ ~FileBlock(b)
      /\ b \in Blocks /\ commit.at \in Nat
      /\ commit.start \in Nat /\ commit.start <= commit.at
      /\ settled[b] \subseteq 0 .. commit.start - 1
      /\ commit' # None /\ commit' \in Commit /\ commit'.block = b
      /\ commit'.start = commit.start /\ commit'.at = commit.at + 1
      /\ disk' \in [Blocks -> [Cell -> Values]] /\ meant' \in [Blocks -> [Cell -> Values]]
      /\ faults' \in Nat
      /\ end % ProgSize = 0 /\ end = commit.at + 1
      /\ \A c \in Blocks, o \in Cell :
            c # b \/ o < commit.start \/ end <= o =>
                disk'[c][o] = disk[c][o] /\ meant'[c][o] = meant[c][o]
  BY <1>2, CommitFlushFacts
<1> HIDE DEF end
<1>5. \A c \in Blocks, o \in Cell : c # b \/ o < commit.start \/ end <= o => Kept(c, o)
  BY <1>3, <1>4 DEF Kept, Fresh
<1>6. pc' \in Program /\ pc'.block = NoBlock
  BY <1>2, DroppedFacts
<1>7. TypeOK' /\ Inside'
  BY <1>1, <1>3, <1>4, <1>6 DEF TypeOK, Inside
<1>8. WrittenHolds' /\ ReadFresh'
  <2>1. ASSUME NEW c \in Blocks, NEW o \in settled[c]
        PROVE  Kept(c, o)
    <3>1. o \in Cell /\ (c = b => o < commit.start)
      BY <1>1, <1>4, BlocksOf, Sizes DEF Cell
    <3> QED
      BY <1>5, <3>1
  <2> QED
    BY <1>1, <1>3, <2>1, SettledKept DEF IInv
<1>9. Owners'
  <2>1. commit'.start <= commit'.at
    BY <1>4
  <2> QED
    BY <1>1, <1>2, <1>3, <1>4, <2>1 DEF Owners, FileBlock
<1>10. Appendable'
  BY <1>1, <1>2, <1>3, <1>4, <1>5, AppendableKept
<1>11. CopyFresh'
  BY <1>3, <1>4 DEF CopyFresh
<1>12. FileInv'
  <2>1. file # None => \A o \in Cell : Kept(file.block, o)
    BY <1>1, <1>4, <1>5, BlocksOf DEF FileBlock
  <2> QED
    BY <1>1, <1>2, <1>3, <2>1, FileKept DEF Steady, Kept
<1>13. CommitInv'
  <2>1. Pending(pc, commit.block)' /\ Start(pc, commit.at)' = end /\ Ready(pc, commit.block, commit.at)'
    BY <1>4, <1>6, Marks DEF Pending, Start, Ready
  <2>2. end >= commit.start /\ end < BlockSize
    BY <1>2, <1>4, Sizes
  <2>3. ASSUME NEW o \in end .. BlockSize - 1
        PROVE  AsMeant(b, o)' /\ Fresh(rc, b, o)'
    <3>1. o \in commit.at .. BlockSize - 1 /\ o \in Cell /\ end <= o
      BY <1>4, Sizes DEF Cell
    <3>2. AsMeant(b, o) /\ Fresh(rc, b, o)
      BY <1>1, <1>2, <3>1 DEF CommitInv
    <3>3. Kept(b, o) /\ b' = b
      BY <1>4, <1>5, <3>1
    <3> QED
      BY <3>2, <3>3 DEF Kept, AsMeant
  <2> QED
    BY <1>2, <1>3, <1>4, <2>1, <2>2, <2>3 DEF CommitInv
<1>14. MoveInv' /\ CheckInv'
  BY <1>2, <1>3, <1>4 DEF MoveInv, CheckInv
<1>15. ReadsLast'
  BY <1>3 DEF IInv, ReadsLast
<1> QED
  BY <1>7, <1>8, <1>9, <1>10, <1>11, <1>12, <1>13, <1>14, <1>15 DEF IInv

LEMMA CommitCrcStep ==
    ASSUME IInv, NEW v \in Value, CommitCrc(v)
    PROVE  IInv'
<1> DEFINE b   == commit.block
           q   == Programmed(pc, b, commit.at, v)
           end == FlushEnd(q)
<1>1. TypeOK /\ Inside /\ Owners /\ Appendable /\ FileInv /\ CommitInv
  BY DEF IInv
<1>2. /\ MayCommit /\ step = "run" /\ commit # None
      /\ rc' = Dropped(rc) /\ pc' = Zeroed /\ DeviceTakes(q)
      /\ commit' = [commit EXCEPT !.at = @ + 1]
      /\ step' = "verify" /\ pos' = commit.start
  BY DEF CommitCrc, MayCommit
<1>3. UNCHANGED <<settled, next, rbuf, orig, fc, file, move, hand, wrong, erases>>
  BY DEF CommitCrc, ends
<1>4. /\ move = None /\ hand = "off" /\ ~FileBlock(b)
      /\ b \in Blocks /\ commit.at \in Nat /\ commit.at < BlockSize
      /\ commit.start \in Nat /\ commit.start <= commit.at
      /\ settled[b] \subseteq 0 .. commit.start - 1
      /\ commit' # None /\ commit' \in Commit /\ commit'.block = b
      /\ commit'.start = commit.start /\ commit'.at = commit.at + 1
      /\ disk' \in [Blocks -> [Cell -> Values]] /\ meant' \in [Blocks -> [Cell -> Values]]
      /\ faults' \in Nat
      /\ end = AlignUp(commit.at + 1, ProgSize)
      /\ end \in Nat /\ commit.at + 1 <= end
      /\ \A c \in Blocks, o \in Cell :
            c # b \/ o < commit.start \/ end <= o =>
                disk'[c][o] = disk[c][o] /\ meant'[c][o] = meant[c][o]
  BY <1>2, CommitFlushFacts
<1> HIDE DEF end
<1>5. rc' \in Desc /\ rc'.block = NoBlock /\ pc' \in Program /\ pc'.block = NoBlock
  BY <1>1, <1>2, DroppedFacts DEF TypeOK
<1>6. \A c \in Blocks, o \in Cell : Fresh(rc, c, o)'
  BY <1>5, Marks DEF Fresh, Holds
<1>7. \A c \in Blocks, o \in Cell : c # b \/ o < commit.start \/ end <= o => Kept(c, o)
  BY <1>4, <1>6 DEF Kept
<1>8. TypeOK' /\ Inside'
  <2>1. pos' \in 0 .. BlockSize
    BY <1>2, <1>4, Sizes
  <2> QED
    BY <1>1, <1>2, <1>3, <1>4, <1>5, <2>1 DEF TypeOK, Inside
<1>9. WrittenHolds' /\ ReadFresh'
  <2>1. ASSUME NEW c \in Blocks, NEW o \in settled[c]
        PROVE  Kept(c, o)
    <3>1. o \in Cell /\ (c = b => o < commit.start)
      BY <1>1, <1>4, BlocksOf, Sizes DEF Cell
    <3> QED
      BY <1>7, <3>1
  <2> QED
    BY <1>1, <1>3, <2>1, SettledKept DEF IInv
<1>10. Owners'
  <2>1. commit'.start <= commit'.at
    BY <1>4
  <2> QED
    BY <1>1, <1>2, <1>3, <1>4, <2>1 DEF Owners, FileBlock
<1>11. Appendable'
  BY <1>1, <1>2, <1>3, <1>4, <1>7, AppendableKept
<1>12. CopyFresh'
  BY <1>3, <1>4 DEF CopyFresh
<1>13. FileInv'
  <2>1. file # None => \A o \in Cell : Kept(file.block, o)
    BY <1>1, <1>4, <1>7, BlocksOf DEF FileBlock
  <2> QED
    BY <1>1, <1>2, <1>3, <2>1, FileKept DEF Steady, Kept
<1>14. CommitInv'
  <2>1. Pending(pc, commit.block)'
    BY <1>4, <1>5, Marks DEF Pending
  <2>2. commit.start <= pos' /\ pos' <= commit.at + 1 /\ commit.start .. pos' - 1 = {}
    BY <1>2, <1>4
  <2>3. \A o \in Cell : Fresh(rc, commit.block, o)'
    BY <1>4, <1>6
  <2>4. ASSUME NEW o \in end .. BlockSize - 1
        PROVE  AsMeant(b, o)'
    <3>1. o \in commit.at .. BlockSize - 1 /\ o \in Cell /\ end <= o
      BY <1>4, Sizes DEF Cell
    <3>2. AsMeant(b, o)
      BY <1>1, <1>2, <3>1 DEF CommitInv
    <3>3. Kept(b, o) /\ b' = b
      BY <1>4, <1>7, <3>1
    <3> QED
      BY <3>2, <3>3 DEF Kept, AsMeant
  <2> QED
    BY <1>2, <1>4, <1>5, <2>1, <2>2, <2>3, <2>4 DEF CommitInv
<1>15. MoveInv' /\ CheckInv'
  BY <1>2, <1>3, <1>4 DEF MoveInv, CheckInv
<1>16. ReadsLast'
  BY <1>3 DEF IInv, ReadsLast
<1> QED
  BY <1>8, <1>9, <1>10, <1>11, <1>12, <1>13, <1>14, <1>15, <1>16 DEF IInv

LEMMA CommittedStep ==
    ASSUME IInv, Committed
    PROVE  IInv'
<1> DEFINE b   == commit.block
           end == AlignUp(commit.at, ProgSize)
<1>1. TypeOK /\ Inside /\ Owners /\ Appendable /\ FileInv /\ CommitInv /\ WrittenHolds /\ ReadFresh
  BY DEF IInv
<1>2. /\ step = "verify" /\ pos = commit.at
      /\ settled' = [settled EXCEPT ![b] = @ \union commit.start .. commit.at - 1]
      /\ next' = [next EXCEPT ![b] = end]
      /\ commit' = None /\ step' = "run" /\ pos' = 0
  BY DEF Committed
<1>3. UNCHANGED <<disk, meant, rc, rbuf, orig, pc, fc, file, move, hand, wrong, faults, erases>>
  BY DEF Committed, device, reader
<1>4. /\ commit # None /\ move = None /\ hand = "off" /\ ~FileBlock(b) /\ commit.start <= commit.at
      /\ settled[b] \subseteq 0 .. commit.start - 1
  BY <1>1, <1>2 DEF Owners
<1>5. b \in Blocks /\ commit.at \in Nat /\ commit.at <= BlockSize /\ commit.start \in Nat
  BY <1>1, <1>4, BlocksOf
<1>6. /\ end \in Nat /\ end % ProgSize = 0 /\ commit.at <= end /\ end <= BlockSize
  BY <1>5, Sizes, AlignUpFacts
<1>7. /\ pc.block = NoBlock
      /\ \A o \in Cell : Fresh(rc, b, o)
      /\ \A o \in commit.start .. commit.at - 1 : AsMeant(b, o)
      /\ \A o \in end .. BlockSize - 1 : AsMeant(b, o)
  BY <1>1, <1>2, <1>4 DEF CommitInv
<1> HIDE DEF end
<1>8. /\ settled' \in [Blocks -> SUBSET Cell]
      /\ \A c \in Blocks : c # b => settled'[c] = settled[c]
      /\ settled'[b] = settled[b] \union commit.start .. commit.at - 1
  <2>1. commit.start .. commit.at - 1 \in SUBSET Cell
    BY <1>5, Sizes DEF Cell
  <2>2. settled \in [Blocks -> SUBSET Cell]
    BY <1>1 DEF TypeOK
  <2> QED
    BY <1>2, <1>5, <2>1, <2>2
<1>9. /\ next' \in [Blocks -> 0 .. BlockSize] /\ next'[b] = end
      /\ \A c \in Blocks : c # b => next'[c] = next[c]
  <2>1. next \in [Blocks -> 0 .. BlockSize] /\ end \in 0 .. BlockSize
    BY <1>1, <1>6, Sizes DEF TypeOK
  <2> QED
    BY <1>2, <1>5, <2>1
<1>10. TypeOK' /\ Inside'
  BY <1>1, <1>2, <1>3, <1>8, <1>9, Sizes DEF TypeOK, Inside
<1>11. ASSUME NEW c \in Blocks, NEW o \in settled'[c]
       PROVE  AsMeant(c, o) /\ Fresh(rc, c, o)
  <2>1. CASE o \in settled[c]
    BY <1>1, <2>1 DEF WrittenHolds, ReadFresh, AsMeant
  <2>2. CASE o \notin settled[c]
    <3>1. c = b /\ o \in commit.start .. commit.at - 1 /\ o \in Cell
      BY <1>8, <1>11, <2>2
    <3> QED
      BY <1>7, <3>1
  <2> QED
    BY <2>1, <2>2
<1>12. WrittenHolds' /\ ReadFresh'
  BY <1>3, <1>11 DEF WrittenHolds, ReadFresh, AsMeant, Fresh
<1>13. Owners'
  <2>1. file # None => settled'[file.block] = {} /\ next'[file.block] = BlockSize
    <3>1. ASSUME file # None
          PROVE  file.block \in Blocks /\ file.block # b /\ settled[file.block] = {}
                 /\ next[file.block] = BlockSize
      BY <1>1, <1>4, <3>1, BlocksOf DEF Owners, FileBlock
    <3> QED
      BY <1>8, <1>9, <3>1
  <2> QED
    BY <1>1, <1>2, <1>3, <1>4, <1>7, <2>1 DEF Owners, FileBlock
<1>14. Appendable'
  <2>1. SUFFICES ASSUME NEW c \in Blocks, next'[c] < BlockSize
                 PROVE  /\ next'[c] % ProgSize = 0
                        /\ settled'[c] \subseteq 0 .. next'[c] - 1
                        /\ \A o \in next'[c] .. BlockSize - 1 : AsMeant(c, o)' /\ Fresh(rc, c, o)'
    BY <1>2 DEF Appendable
  <2>2. CASE c = b
    <3>1. settled'[b] \subseteq 0 .. end - 1
      BY <1>4, <1>5, <1>6, <1>8
    <3>2. \A o \in end .. BlockSize - 1 : o \in Cell
      BY <1>6, Sizes DEF Cell
    <3> QED
      BY <1>3, <1>6, <1>7, <1>9, <2>2, <3>1, <3>2 DEF AsMeant, Fresh
  <2>3. CASE c # b
    <3>1. next[c] < BlockSize /\ next'[c] = next[c] /\ settled'[c] = settled[c]
      BY <1>8, <1>9, <2>1, <2>3
    <3>2. /\ next[c] % ProgSize = 0
          /\ settled[c] \subseteq 0 .. next[c] - 1
          /\ \A o \in next[c] .. BlockSize - 1 : AsMeant(c, o) /\ Fresh(rc, c, o)
      BY <1>1, <2>3, <3>1 DEF Appendable
    <3> QED
      BY <1>3, <3>1, <3>2 DEF AsMeant, Fresh
  <2> QED
    BY <2>2, <2>3
<1>15. CopyFresh'
  BY <1>3, <1>4 DEF CopyFresh
<1>16. FileInv'
  <2>1. \A c \in Blocks, o \in Cell : Kept(c, o)
    BY <1>3 DEF Kept, Fresh
  <2> QED
    BY <1>1, <1>3, <1>4, <2>1, BlocksOf, FileKept DEF Steady, Kept
<1>17. MoveInv' /\ CommitInv' /\ CheckInv'
  BY <1>2, <1>3, <1>4 DEF MoveInv, CommitInv, CheckInv
<1>18. ReadsLast'
  BY <1>3 DEF IInv, ReadsLast
<1> QED
  BY <1>10, <1>12, <1>13, <1>14, <1>15, <1>16, <1>17, <1>18 DEF IInv

LEMMA CommitBadStep ==
    ASSUME IInv, CommitBad
    PROVE  IInv'
<1> DEFINE b == commit.block
<1>1. TypeOK /\ Inside /\ Owners /\ Appendable /\ FileInv /\ WrittenHolds /\ ReadFresh
  BY DEF IInv
<1>2. /\ commit # None /\ pc' = Dropped(pc) /\ next' = [next EXCEPT ![b] = BlockSize]
      /\ commit' = None /\ step' = "run" /\ pos' = 0
  BY DEF CommitBad
<1>3. UNCHANGED <<disk, meant, settled, rc, rbuf, orig, fc, file, move, hand, wrong, faults, erases>>
  BY DEF CommitBad, device, reader
<1>4. move = None /\ hand = "off" /\ ~FileBlock(b) /\ b \in Blocks
  BY <1>1, <1>2, BlocksOf DEF Owners
<1>5. pc' \in Program /\ pc'.block = NoBlock
  BY <1>1, <1>2, DroppedFacts DEF TypeOK
<1>6. /\ next' \in [Blocks -> 0 .. BlockSize] /\ next'[b] = BlockSize
      /\ \A c \in Blocks : c # b => next'[c] = next[c]
  <2>1. next \in [Blocks -> 0 .. BlockSize] /\ BlockSize \in 0 .. BlockSize
    BY <1>1, Sizes DEF TypeOK
  <2> QED
    BY <1>2, <1>4, <2>1
<1>7. TypeOK' /\ Inside'
  BY <1>1, <1>2, <1>3, <1>5, <1>6, Sizes DEF TypeOK, Inside
<1>8. \A c \in Blocks, o \in Cell : Kept(c, o)
  BY <1>3 DEF Kept, Fresh
<1>9. WrittenHolds' /\ ReadFresh'
  BY <1>1, <1>3, <1>8, BlocksOf, SettledKept
<1>10. Owners'
  <2>1. file # None => next'[file.block] = BlockSize
    BY <1>1, <1>4, <1>6, BlocksOf DEF Owners, FileBlock
  <2> QED
    BY <1>1, <1>2, <1>3, <1>4, <1>5, <2>1 DEF Owners, FileBlock
<1>11. Appendable'
  <2>1. SUFFICES ASSUME NEW c \in Blocks, next'[c] < BlockSize
                 PROVE  /\ next'[c] % ProgSize = 0
                        /\ settled'[c] \subseteq 0 .. next'[c] - 1
                        /\ \A o \in next'[c] .. BlockSize - 1 : AsMeant(c, o)' /\ Fresh(rc, c, o)'
    BY <1>2 DEF Appendable
  <2>2. c # b /\ next'[c] = next[c]
    BY <1>6, <2>1, Sizes
  <2>3. /\ next[c] % ProgSize = 0
        /\ settled[c] \subseteq 0 .. next[c] - 1
        /\ \A o \in next[c] .. BlockSize - 1 : AsMeant(c, o) /\ Fresh(rc, c, o)
    BY <1>1, <2>1, <2>2 DEF Appendable
  <2> QED
    BY <1>3, <2>2, <2>3 DEF AsMeant, Fresh
<1>12. CopyFresh'
  BY <1>3, <1>4 DEF CopyFresh
<1>13. FileInv'
  BY <1>1, <1>2, <1>3, <1>8, BlocksOf, FileKept DEF Steady, Kept
<1>14. MoveInv' /\ CommitInv' /\ CheckInv'
  BY <1>2, <1>3, <1>4 DEF MoveInv, CommitInv, CheckInv
<1>15. ReadsLast'
  BY <1>3 DEF IInv, ReadsLast
<1> QED
  BY <1>7, <1>9, <1>10, <1>11, <1>12, <1>13, <1>14, <1>15 DEF IInv

LEMMA StepHolds ==
    ASSUME IInv, [Next]_vars
    PROVE  IInv'
<1>1. CASE UNCHANGED vars
  BY <1>1 DEF vars, IInv, TypeOK, Inside, ReadsLast, WrittenHolds, Owners, Appendable, ReadFresh,
              CopyFresh, FileInv, MoveInv, CommitInv, CheckInv, FileBlock, Fresh, AsMeant,
              Pending, Ready, Start, Steady, Idle, Checked
<1>2. CASE Next
  <2>1. ASSUME NEW b \in Blocks, NEW o \in Cell, NEW h \in Hints, Lookup(b, o, h)
        PROVE  IInv'
    BY <2>1, LookupStep
  <2>2. ASSUME NEW b \in Blocks, NEW o \in Cell, NEW h \in Hints, CopyRead(b, o, h)
        PROVE  IInv'
    BY <2>2, CopyReadStep
  <2>3. ASSUME NEW o \in Cell, NEW h \in Hints, LookupOwn(o, h)
        PROVE  IInv'
    BY <2>3, LookupOwnStep
  <2>4. ASSUME NEW b \in Blocks, Free(b) \/ StartBlock(b) \/ MoveStart(b) \/ CommitAppend(b)
        PROVE  IInv'
    BY <2>4, FreeStep, StartBlockStep, MoveStartStep, CommitAppendStep
  <2>5. ASSUME NEW v \in Value,
               Put(v) \/ PutFull(v) \/ CommitProg(v) \/ CommitFull(v) \/ CommitCrc(v)
        PROVE  IInv'
    BY <2>5, PutStep, PutFullStep, CommitProgStep, CommitFullStep, CommitCrcStep
  <2>6. CASE Flush \/ CheckCell \/ PutChecked \/ FinishBlock \/ StartOver
    BY <2>6, FlushStep, CheckCellStep, PutCheckedStep, FinishBlockStep, StartOverStep
  <2>7. CASE MoveCell \/ MoveFull \/ MoveChecked \/ MoveDone
    BY <2>7, MoveCellStep, MoveFullStep, MoveCheckedStep, MoveDoneStep
  <2>8. CASE CopyStart \/ CopyNext \/ CopyEnd
    BY <2>8, CopyStartStep, CopyNextStep, CopyEndStep
  <2>9. ASSUME NEW b \in Blocks, NEW s \in Blocks, NEW o \in Cell, NEW h \in Hints,
               CommitCompact(b, s, o, h)
        PROVE  IInv'
    BY <2>9, CommitCompactStep
  <2>10. ASSUME NEW h \in Hints, CommitPeek(h)
         PROVE  IInv'
    BY <2>10, CommitPeekStep
  <2>11. CASE VerifyCell \/ Committed \/ CommitBad
    BY <2>11, VerifyCellStep, CommittedStep, CommitBadStep
  <2> QED
    BY <1>2, <2>1, <2>2, <2>3, <2>4, <2>5, <2>6, <2>7, <2>8, <2>9, <2>10, <2>11 DEF Next
<1> QED
  BY <1>1, <1>2

\* The invariant is inductive: whatever is read, written, moved, copied and committed,
\* in which order, the caches and the device are in the relation that the code relies
\* on without ever stating it (lfs_bd_read, lfs_bd_prog, lfs_bd_flush, lfs_bd_erase and
\* their callers).
THEOREM CacheInvariant == Spec => []IInv
<1>1. Init => IInv
  BY InitHolds
<1>2. IInv /\ [Next]_vars => IInv'
  BY StepHolds
<1> QED
  BY <1>1, <1>2, PTL DEF Spec

\* Every read returns what the cell was last programmed or erased to: neither an erase
\* nor a flush that leaves rcache as it is, nor the buffer that a copied handle shares,
\* is ever seen by a caller (lfs_bd_read).
THEOREM ReadsAreRight == Spec => []ReadsLast
<1>1. IInv => ReadsLast
  BY DEF IInv
<1> QED
  BY <1>1, CacheInvariant, PTL

\* What a validated flush or a commit has called written is on the device, whatever
\* cells did not take what was programmed (lfs_bd_flush, lfs_dir_commitcrc).
THEOREM WrittenIsThere == Spec => []WrittenHolds
<1>1. IInv => WrittenHolds
  BY DEF IInv
<1> QED
  BY <1>1, CacheInvariant, PTL

\* The assertion of lfs_bd_prog, "pcache must have been flushed", never fails.
THEOREM AssertionsNeverFail == Spec => []AssertionsHold
<1>1. ASSUME IInv
      PROVE  AssertionsHold
  <2>1. TypeOK /\ FileInv /\ MoveInv /\ CommitInv
    BY <1>1 DEF IInv
  <2>2. ASSUME NEW p \in Program, NEW b \in Blocks, NEW at \in Nat, Pending(p, b), Ready(p, b, at)
        PROVE  FlushedBefore(p, b, at)
    BY <2>2, Sizes DEF Pending, Ready, FlushedBefore, FitsIn, Program, Cell
  <2>3. ASSUME Idle, file # None, ~file.last
        PROVE  FlushedBefore(fc, file.block, file.at)
    BY <2>1, <2>2, <2>3, BlocksOf DEF FileInv, TypeOK, Steady
  <2>4. ASSUME step = "run", commit # None
        PROVE  FlushedBefore(pc, commit.block, commit.at)
    BY <2>1, <2>2, <2>4, BlocksOf DEF CommitInv, TypeOK
  <2>5. ASSUME step = "run", move # None
        PROVE  FlushedBefore(pc, move.block, move.at)
    BY <2>1, <2>2, <2>5, BlocksOf DEF MoveInv, TypeOK
  <2> QED
    BY <2>3, <2>4, <2>5 DEF AssertionsHold
<1> QED
  BY <1>1, CacheInvariant, PTL

===============================================================================
