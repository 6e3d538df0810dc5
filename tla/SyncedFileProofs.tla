--------------------------- MODULE SyncedFileProofs ---------------------------
(***************************************************************************)
(* That an open file is a SyncedFile: what FileIO keeps in blocks, caches  *)
(* and steps that are left of a call, read as the content of a file, takes *)
(* only the steps SyncedFile allows, wherever a block turns out bad, no    *)
(* block is free or the power fails.                                       *)
(*                                                                         *)
(* Holds says of each stack of steps what its call has still to do to the  *)
(* content (Told), that a clean cache shows the device (CleanOK) and that  *)
(* a read handle has the block of its place (ReadingOK). It is proved step *)
(* by step on top of the invariant of FileIOProofs.                        *)
(***************************************************************************)
EXTENDS FileIOProofs

-----------------------------------------------------------------------------
(* Contents.                                                                 *)

\* The same cell n times.
Rep(n, x) == [j \in 1 .. n |-> x]

\* Content v with zeros behind it, up to size n.
Grown(v, n) == Promise!Put(v, Len(v), Rep(n - Len(v), Zero))

LEMMA SeqSame ==
    ASSUME NEW S, NEW a \in Seq(S), NEW b \in Seq(S), Len(a) = Len(b),
           \A j \in 1 .. Len(a) : a[j] = b[j]
    PROVE  a = b
    OBVIOUS

LEMMA RepIs ==
    ASSUME NEW n \in Nat, NEW x \in Cell
    PROVE  /\ Rep(n, x) \in Seq(Cell) /\ Len(Rep(n, x)) = n
           /\ \A j \in 1 .. n : Rep(n, x)[j] = x
    BY DEF Rep

\* w is v with the n cells of t from place p on.
IsPut(w, v, p, t, n) ==
    /\ w \in Seq(Cell)
    /\ Len(w) = IF Len(v) > p + n THEN Len(v) ELSE p + n
    /\ \A j \in 1 .. Len(w) : w[j] = IF j > p /\ j <= p + n THEN t[j - p]
                                     ELSE IF j <= Len(v) THEN v[j] ELSE Zero

LEMMA PutIs ==
    ASSUME NEW v \in Seq(Cell), NEW p \in Nat, NEW t \in Seq(Cell), NEW n, n = Len(t)
    PROVE  IsPut(Promise!Put(v, p, t), v, p, t, n)
<1> DEFINE l == IF Len(v) > p + n THEN Len(v) ELSE p + n
           at(j) == IF j > p /\ j <= p + n THEN t[j - p]
                    ELSE IF j <= Len(v) THEN v[j] ELSE Zero
<1>1. l \in Nat
    OBVIOUS
<1>2. ASSUME NEW j \in 1 .. l PROVE at(j) \in Cell
    <2>1. CASE j > p /\ j <= p + n
        <3>1. j - p \in 1 .. Len(t)
            BY <2>1
        <3> QED BY <2>1, <3>1
    <2>2. CASE ~(j > p /\ j <= p + n)
        BY <2>2, Bounds
    <2> QED BY <2>1, <2>2
<1>3. Promise!Put(v, p, t) = [j \in 1 .. l |-> at(j)]
    BY DEF Promise!Put
<1> DEFINE w == Promise!Put(v, p, t)
<1> HIDE DEF l, at, w
<1>4. [j \in 1 .. l |-> at(j)] \in Seq(Cell) /\ Len([j \in 1 .. l |-> at(j)]) = l
    BY <1>1, <1>2
<1>5. \A j \in 1 .. l : w[j] = at(j)
    BY <1>3 DEF w
<1>6. w \in Seq(Cell) /\ Len(w) = l
    BY Zenon, <1>3, <1>4 DEF w
<1>7. IsPut(w, v, p, t, n)
    BY <1>5, <1>6 DEF IsPut, l, at
<1> QED BY <1>7 DEF w

\* There is one such w.
LEMMA PutOne ==
    ASSUME NEW v \in Seq(Cell), NEW p \in Nat, NEW t \in Seq(Cell), NEW n, n = Len(t),
           NEW w, IsPut(w, v, p, t, n)
    PROVE  w = Promise!Put(v, p, t)
<1> DEFINE z == Promise!Put(v, p, t)
<1>1. IsPut(z, v, p, t, n)
    BY PutIs
<1> HIDE DEF z
<1>2. w \in Seq(Cell) /\ z \in Seq(Cell) /\ Len(w) = Len(z)
    BY <1>1 DEF IsPut
<1>3. \A j \in 1 .. Len(w) : w[j] = z[j]
    BY <1>1, <1>2 DEF IsPut
<1>4. w = z
    BY <1>2, <1>3, SeqSame
<1> QED BY <1>4 DEF z

\* A value is written over what was there.
LEMMA PutMore ==
    ASSUME NEW v \in Seq(Cell), NEW p \in Nat, NEW k \in Nat, NEW m \in Nat, NEW x \in Cell
    PROVE  Promise!Put(Promise!Put(v, p, Rep(k, x)), p + k, Rep(m, x))
           = Promise!Put(v, p, Rep(k + m, x))
<1> DEFINE a == Rep(k, x)
           b == Rep(m, x)
           q == p + k
           r == k + m
           l == Rep(r, x)
           u == Promise!Put(v, p, a)
           w == Promise!Put(u, q, b)
<1>0. q \in Nat /\ r \in Nat /\ q = p + k /\ r = k + m
    OBVIOUS
<1> HIDE DEF q, r
<1>1. /\ a \in Seq(Cell) /\ k = Len(a) /\ \A j \in 1 .. k : a[j] = x
      /\ b \in Seq(Cell) /\ m = Len(b) /\ \A j \in 1 .. m : b[j] = x
      /\ l \in Seq(Cell) /\ r = Len(l) /\ \A j \in 1 .. r : l[j] = x
    BY <1>0, RepIs
<1> HIDE DEF a, b, l
<1>2. IsPut(u, v, p, a, k)
    BY <1>1, PutIs
<1> HIDE DEF u
<1>3. u \in Seq(Cell)
    BY <1>2 DEF IsPut
<1>4. IsPut(w, u, q, b, m)
    BY <1>0, <1>1, <1>3, PutIs
<1> HIDE DEF w
<1>5. /\ Len(u) = IF Len(v) > q THEN Len(v) ELSE q
      /\ \A j \in 1 .. Len(u) : u[j] = IF j > p /\ j <= q THEN x
                                       ELSE IF j <= Len(v) THEN v[j] ELSE Zero
    <2>1. ASSUME NEW j \in 1 .. Len(u), j > p, j <= q PROVE a[j - p] = x
        <3>1. j - p \in 1 .. k
            BY <1>0, <1>3, <2>1
        <3> QED BY <1>1, <3>1
    <2> QED BY <1>0, <1>2, <2>1 DEF IsPut
<1>6. /\ Len(w) = IF Len(u) > q + m THEN Len(u) ELSE q + m
      /\ \A j \in 1 .. Len(w) : w[j] = IF j > q /\ j <= q + m THEN x
                                       ELSE IF j <= Len(u) THEN u[j] ELSE Zero
    <2>1. ASSUME NEW j \in 1 .. Len(w), j > q, j <= q + m PROVE b[j - q] = x
        <3>1. j - q \in 1 .. m
            BY <1>0, <2>1
        <3> QED BY <1>1, <3>1
    <2> QED BY <1>0, <1>4, <2>1 DEF IsPut
<1>7. w \in Seq(Cell) /\ Len(w) = IF Len(v) > p + r THEN Len(v) ELSE p + r
    <2>1. w \in Seq(Cell)
        BY <1>4 DEF IsPut
    <2> QED BY <1>0, <1>5, <1>6, <2>1
<1>8. ASSUME NEW j \in 1 .. Len(w)
      PROVE  w[j] = IF j > p /\ j <= p + r THEN l[j - p]
                    ELSE IF j <= Len(v) THEN v[j] ELSE Zero
    <2>0. j \in Nat /\ j > 0 /\ p + r = q + m
        BY <1>0
    <2>1. CASE j > p /\ j <= p + r
        <3>1. j - p \in 1 .. r
            BY <1>0, <2>0, <2>1
        <3>2. l[j - p] = x
            BY <1>1, <3>1
        <3>3. CASE j > q
            BY <1>6, <2>0, <2>1, <3>2, <3>3
        <3>4. CASE j <= q
            <4>1. j \in 1 .. Len(u)
                BY <1>0, <1>5, <2>0, <3>4
            <4> QED BY <1>0, <1>5, <1>6, <2>0, <2>1, <3>2, <3>4, <4>1
        <3> QED BY <1>0, <2>0, <3>3, <3>4
    <2>2. CASE ~(j > p /\ j <= p + r)
        BY <1>0, <1>5, <1>6, <1>7, <2>0, <2>2
    <2> QED BY <2>1, <2>2
<1>9. IsPut(w, v, p, l, r)
    BY <1>7, <1>8 DEF IsPut
<1>10. w = Promise!Put(v, p, l)
    BY <1>0, <1>1, <1>9, PutOne
<1> QED BY <1>10 DEF w, u, a, b, l, q, r

LEMMA GrownIs ==
    ASSUME NEW v \in Seq(Cell), NEW n \in Nat, Len(v) <= n
    PROVE  /\ Grown(v, n) \in Seq(Cell) /\ Len(Grown(v, n)) = n
           /\ \A j \in 1 .. n : Grown(v, n)[j] = IF j <= Len(v) THEN v[j] ELSE Zero
<1> DEFINE k == n - Len(v)
           l == Len(v)
           t == Rep(k, Zero)
           g == Promise!Put(v, l, t)
<1>1. k \in Nat /\ l \in Nat /\ l + k = n /\ l = Len(v)
    OBVIOUS
<1> HIDE DEF k, l
<1>2. t \in Seq(Cell) /\ k = Len(t) /\ \A j \in 1 .. k : t[j] = Zero
    BY Zenon, <1>1, RepIs, Bounds
<1> HIDE DEF t
<1>3. IsPut(g, v, l, t, k)
    BY <1>1, <1>2, PutIs
<1>4. Grown(v, n) = g
    BY DEF Grown, g, t, k, l
<1> HIDE DEF g
<1>5. g \in Seq(Cell) /\ Len(g) = n
    BY <1>1, <1>3 DEF IsPut
<1>6. ASSUME NEW j \in 1 .. n PROVE g[j] = IF j <= Len(v) THEN v[j] ELSE Zero
    <2>1. CASE j <= l
        BY <1>1, <1>3, <1>5, <2>1 DEF IsPut
    <2>2. CASE j > l
        <3>1. j - l \in 1 .. k
            BY <1>1, <2>2
        <3> QED BY <1>1, <1>2, <1>3, <1>5, <2>2, <3>1 DEF IsPut
    <2> QED BY <1>1, <2>1, <2>2
<1> QED BY <1>4, <1>5, <1>6

LEMMA GrownNext ==
    ASSUME NEW v \in Seq(Cell), NEW n \in Nat, Len(v) <= n
    PROVE  Promise!Put(Grown(v, n), n, <<Zero>>) = Grown(v, n + 1)
<1> DEFINE o == <<Zero>>
           g == Grown(v, n)
           h == Grown(v, n + 1)
<1>1. o \in Seq(Cell) /\ 1 = Len(o) /\ o[1] = Zero
    BY Bounds
<1>2. /\ g \in Seq(Cell) /\ Len(g) = n
      /\ \A j \in 1 .. n : g[j] = IF j <= Len(v) THEN v[j] ELSE Zero
    BY GrownIs
<1>3. /\ h \in Seq(Cell) /\ Len(h) = n + 1
      /\ \A j \in 1 .. n + 1 : h[j] = IF j <= Len(v) THEN v[j] ELSE Zero
    BY GrownIs
<1> HIDE DEF o, g, h
<1>4. ASSUME NEW j \in 1 .. Len(h)
      PROVE  h[j] = IF j > n /\ j <= n + 1 THEN o[j - n] ELSE IF j <= Len(g) THEN g[j] ELSE Zero
    <2>1. CASE j = n + 1
        <3>1. j - n = 1
            BY <2>1
        <3> QED BY <1>1, <1>3, <2>1, <3>1
    <2>2. CASE j # n + 1
        BY <1>2, <1>3, <2>2
    <2> QED BY <2>1, <2>2
<1>5. IsPut(h, g, n, o, 1)
    BY <1>2, <1>3, <1>4 DEF IsPut
<1>6. h = Promise!Put(g, n, o)
    BY Zenon, <1>1, <1>2, <1>5, PutOne
<1> QED BY <1>6 DEF o, g, h

\* Nothing changes.
LEMMA PutSame ==
    ASSUME NEW v \in Seq(Cell), NEW p \in Nat
    PROVE  /\ p < Len(v) => Promise!Put(v, p, <<v[p + 1]>>) = v
           /\ p <= Len(v) => \A x \in Cell : Promise!Put(v, p, Rep(0, x)) = v
           /\ p >= Len(v) => \A x \in Cell : Promise!Put(v, p, Rep(0, x)) = Grown(v, p)
           /\ Grown(v, Len(v)) = v
<1>1. ASSUME p < Len(v) PROVE Promise!Put(v, p, <<v[p + 1]>>) = v
    <2> DEFINE x == v[p + 1]
               o == <<x>>
    <2>1. x \in Cell /\ p + 1 \in 1 .. Len(v) /\ x = v[p + 1]
        BY <1>1
    <2> HIDE DEF x
    <2>2. o \in Seq(Cell) /\ 1 = Len(o) /\ o[1] = x
        BY <2>1
    <2> HIDE DEF o
    <2>3. ASSUME NEW j \in 1 .. Len(v)
          PROVE  v[j] = IF j > p /\ j <= p + 1 THEN o[j - p] ELSE IF j <= Len(v) THEN v[j] ELSE Zero
        <3>1. CASE j = p + 1
            <4>1. j - p = 1
                BY <3>1
            <4> QED BY <2>1, <2>2, <3>1, <4>1
        <3>2. CASE j # p + 1
            BY <3>2
        <3> QED BY <3>1, <3>2
    <2>4. IsPut(v, v, p, o, 1)
        BY <1>1, <2>3 DEF IsPut
    <2>5. v = Promise!Put(v, p, o)
        BY Zenon, <2>2, <2>4, PutOne
    <2> QED BY <2>5 DEF x, o
<1>2. ASSUME NEW x \in Cell
      PROVE  LET w == Promise!Put(v, p, Rep(0, x))
             IN  /\ w \in Seq(Cell) /\ Len(w) = IF Len(v) > p THEN Len(v) ELSE p
                 /\ \A j \in 1 .. Len(w) : w[j] = IF j <= Len(v) THEN v[j] ELSE Zero
    <2> DEFINE o == Rep(0, x)
               w == Promise!Put(v, p, o)
    <2>1. o \in Seq(Cell) /\ 0 = Len(o)
        BY RepIs
    <2> HIDE DEF o
    <2>2. IsPut(w, v, p, o, 0)
        BY Zenon, <2>1, PutIs
    <2> HIDE DEF w
    <2>3. /\ w \in Seq(Cell) /\ Len(w) = IF Len(v) > p THEN Len(v) ELSE p
          /\ \A j \in 1 .. Len(w) : w[j] = IF j <= Len(v) THEN v[j] ELSE Zero
        BY <2>2 DEF IsPut
    <2> QED BY <2>3 DEF w, o
<1>3. ASSUME p <= Len(v), NEW x \in Cell PROVE Promise!Put(v, p, Rep(0, x)) = v
    <2> DEFINE w == Promise!Put(v, p, Rep(0, x))
    <2>1. w \in Seq(Cell) /\ Len(w) = Len(v) /\ \A j \in 1 .. Len(w) : w[j] = v[j]
        BY <1>2, <1>3
    <2> HIDE DEF w
    <2>2. w = v
        BY <2>1, SeqSame
    <2> QED BY <2>2 DEF w
<1>4. ASSUME NEW q \in Nat, q >= Len(v)
      PROVE  /\ Grown(v, q) \in Seq(Cell) /\ Len(Grown(v, q)) = q
             /\ \A j \in 1 .. q : Grown(v, q)[j] = IF j <= Len(v) THEN v[j] ELSE Zero
    BY <1>4, GrownIs
<1>5. ASSUME p >= Len(v), NEW x \in Cell PROVE Promise!Put(v, p, Rep(0, x)) = Grown(v, p)
    <2> DEFINE w == Promise!Put(v, p, Rep(0, x))
    <2>1. /\ w \in Seq(Cell) /\ Len(w) = p
          /\ \A j \in 1 .. Len(w) : w[j] = IF j <= Len(v) THEN v[j] ELSE Zero
        BY <1>2, <1>5
    <2> HIDE DEF w
    <2>2. w = Grown(v, p)
        BY <1>4, <1>5, <2>1, SeqSame
    <2> QED BY <2>2 DEF w
<1>6. Grown(v, Len(v)) = v
    BY <1>4, SeqSame
<1> QED BY <1>1, <1>3, <1>5, <1>6

\* Only the first q cells are there, and what is written goes on from there.
LEMMA PutFirst ==
    ASSUME NEW v \in Seq(Cell), NEW q \in Nat, q <= Len(v), NEW t \in Seq(Cell)
    PROVE  LET w == Promise!Put(SubSeq(v, 1, q), q, t)
           IN  /\ w = SubSeq(Promise!Put(v, q, t), 1, q + Len(t))
               /\ q + Len(t) >= Len(v) => w = Promise!Put(v, q, t)
<1> DEFINE u == SubSeq(v, 1, q)
           w == Promise!Put(u, q, t)
           z == Promise!Put(v, q, t)
           n == Len(t)
<1>0. n \in Nat /\ n = Len(t)
    OBVIOUS
<1> HIDE DEF n
<1>1. u \in Seq(Cell) /\ Len(u) = q /\ \A j \in 1 .. q : u[j] = v[j]
    OBVIOUS
<1> HIDE DEF u
<1>2. IsPut(w, u, q, t, n) /\ IsPut(z, v, q, t, n)
    BY <1>0, <1>1, PutIs
<1> HIDE DEF w, z
<1>3. /\ w \in Seq(Cell) /\ Len(w) = q + n
      /\ \A j \in 1 .. q + n : w[j] = IF j > q THEN t[j - q] ELSE v[j]
    BY <1>0, <1>1, <1>2 DEF IsPut
<1>4. /\ z \in Seq(Cell) /\ Len(z) >= q + n
      /\ q + n >= Len(v) => Len(z) = q + n
      /\ \A j \in 1 .. q + n : z[j] = IF j > q THEN t[j - q] ELSE v[j]
    BY <1>0, <1>2 DEF IsPut
<1> DEFINE y == SubSeq(z, 1, q + n)
<1>5. y \in Seq(Cell) /\ Len(y) = q + n /\ \A j \in 1 .. q + n : y[j] = z[j]
    BY <1>0, <1>4
<1> HIDE DEF y
<1>6. w = y
    BY Zenon, <1>3, <1>4, <1>5, SeqSame
<1>7. q + n >= Len(v) => w = z
    BY Zenon, <1>3, <1>4, SeqSame
<1> QED BY <1>0, <1>6, <1>7 DEF w, u, z, y

-----------------------------------------------------------------------------
(* What the handle shows, cell by cell, at any step of a call.               *)

OldCell(d, f, p) ==
    Peek(d, NoCache, Block(d, NoCache, f.head, f.size, Place[p - 1].index), Place[p - 1].off)

NewCell(d, f, p) ==
    Peek(d, f.cache, Block(d, f.cache, f.block, TipSize(f), Place[p - 1].index), Place[p - 1].off)

CellAt(d, f, p) ==
    IF f.inline THEN f.cache.data[p]
    ELSE IF f.writing /\ p <= f.pos THEN NewCell(d, f, p) ELSE OldCell(d, f, p)

\* A file that was inline has no old list behind the new one.
Length(f) == IF ~f.inline /\ f.head = Inline THEN f.pos ELSE SizeOf(f)

Content(d, f) == [p \in 1 .. Length(f) |-> CellAt(d, f, p)]

LEMMA BehindIs ==
    ASSUME NEW S, NEW o \in Seq(S), NEW q \in Nat
    PROVE  LET w == SubSeq(o, q + 1, Len(o))
           IN  /\ w \in Seq(S) /\ Len(w) = IF q < Len(o) THEN Len(o) - q ELSE 0
               /\ \A p \in 1 .. Len(w) : w[p] = o[q + p]
<1> DEFINE w == SubSeq(o, q + 1, Len(o))
<1>1. CASE q < Len(o)
    <2>1. w \in Seq(S) /\ Len(w) = Len(o) - q
        BY <1>1
    <2>2. \A p \in 1 .. Len(o) - q : w[p] = o[q + p]
        BY <1>1
    <2> QED BY <1>1, <2>1, <2>2
<1>2. CASE q >= Len(o)
    <2>1. w = <<>>
        BY <1>2
    <2> QED BY <1>2, <2>1
<1> QED BY <1>1, <1>2

LEMMA JoinIs ==
    ASSUME NEW S, NEW u \in Seq(S), NEW w \in Seq(S)
    PROVE  /\ u \o w \in Seq(S) /\ Len(u \o w) = Len(u) + Len(w)
           /\ \A p \in 1 .. Len(u) + Len(w) :
                 (u \o w)[p] = IF p <= Len(u) THEN u[p] ELSE w[p - Len(u)]
    OBVIOUS

LEMMA LengthIs ==
    ASSUME NEW d, NEW e, NEW f, NEW s, Sound(d, e, f, s)
    PROVE  /\ f \in Handles
           /\ Length(f) \in Nat /\ Length(f) <= MaxSize
           /\ f.writing => f.pos <= Length(f)
           /\ ~f.writing => Length(f) = f.size
           /\ f.inline => Length(f) <= CacheSize /\ Len(f.cache.data) = CacheSize
           /\ f.writing /\ ~f.inline /\ f.pos < Length(f) =>
                 f.head # Inline /\ Length(f) = f.size /\ NeedsOld(f)
           /\ ~f.inline /\ ~f.writing => f.head # Inline /\ NeedsOld(f)
<1>1. f \in Handles /\ (f.inline => InlineOK(f))
    BY SoundHandle DEF Sound
<1>2. /\ f.pos \in Nat /\ f.pos <= MaxSize /\ f.size \in Nat /\ f.size <= MaxSize
      /\ f.writing \in BOOLEAN /\ f.inline \in BOOLEAN
    BY <1>1, HandleType
<1>3. SizeOf(f) = IF f.writing /\ f.pos >= f.size THEN f.pos ELSE f.size
    BY DEF SizeOf
<1>4. ~f.inline /\ ~f.writing => f.head # Inline
    BY Zenon, SoundHandle, Bounds DEF RestingOK
<1>5. f.inline => SizeOf(f) <= CacheSize /\ Len(f.cache.data) = CacheSize
    BY <1>1, <1>2, <1>3, Bounds DEF InlineOK
<1> QED BY <1>1, <1>2, <1>3, <1>4, <1>5 DEF Length, NeedsOld

LEMMA CellType ==
    ASSUME NEW d, NEW e, NEW f, NEW s, Sound(d, e, f, s), NEW p \in 1 .. Length(f)
    PROVE  /\ CellAt(d, f, p) \in Cell
           /\ p \in Nat /\ p <= MaxSize /\ p - 1 \in Nat /\ p - 1 <= Reach
           /\ Place[p - 1].off \in 0 .. BlockSize - 1 /\ Place[p - 1].index \in Nat
<1>1. /\ f \in Handles /\ Length(f) \in Nat /\ Length(f) <= MaxSize
      /\ f.inline => Length(f) <= CacheSize /\ Len(f.cache.data) = CacheSize
    BY LengthIs
<1>2. p \in Nat /\ p <= MaxSize /\ p - 1 \in Nat /\ p - 1 <= Reach /\ BlockSize \in Nat
    BY <1>1, Bounds
<1>3. Place[p - 1].off \in 0 .. BlockSize - 1 /\ Place[p - 1].index \in Nat
    <2> DEFINE q == p - 1
    <2>1. q \in Nat /\ q <= Reach
        BY <1>2
    <2> HIDE DEF q
    <2>2. Place[q].off \in Nat /\ Place[q].off < BlockSize /\ Place[q].index \in Nat
        BY <2>1, PlaceType
    <2> QED BY <1>2, <2>2 DEF q
<1>4. d \in Device(Cell) /\ f.cache \in Caches /\ NoCache \in Caches /\ f.cache.data \in Seq(Cell)
    BY <1>1, HandleType, Bounds DEF Sound
<1>5. ~f.inline => CellAt(d, f, p) \in Cell
    BY <1>3, <1>4, PeekType DEF CellAt, OldCell, NewCell
<1>6. f.inline => CellAt(d, f, p) \in Cell
    BY <1>1, <1>2, <1>4 DEF CellAt
<1> QED BY <1>2, <1>3, <1>5, <1>6

LEMMA ContentIs ==
    ASSUME NEW d, NEW e, NEW f, NEW s, Sound(d, e, f, s)
    PROVE  /\ Content(d, f) \in Seq(Cell) /\ Len(Content(d, f)) = Length(f)
           /\ \A p \in 1 .. Length(f) : Content(d, f)[p] = CellAt(d, f, p)
<1>1. Length(f) \in Nat
    BY LengthIs
<1>2. \A p \in 1 .. Length(f) : CellAt(d, f, p) \in Cell
    BY CellType
<1> QED BY <1>1, <1>2 DEF Content

-----------------------------------------------------------------------------
(* What a reader of the device sees.                                         *)

OldOf(d, f) == IF f.size > 0 /\ f.head # Inline
               THEN Cells(d, NoCache, f.head, f.size) ELSE <<>>

ViewOf(d, f) ==
    IF f.inline THEN SubSeq(f.cache.data, 1, SizeOf(f))
    ELSE IF f.writing
         THEN Cells(d, f.cache, f.block, f.pos) \o SubSeq(OldOf(d, f), f.pos + 1, Len(OldOf(d, f)))
    ELSE OldOf(d, f)

LEMMA CellsIs ==
    ASSUME NEW d \in Device(Cell), NEW c \in Caches, NEW head, NEW size \in Nat, size <= MaxSize
    PROVE  /\ Cells(d, c, head, size) \in Seq(Cell) /\ Len(Cells(d, c, head, size)) = size
           /\ \A p \in 1 .. size :
                 Cells(d, c, head, size)[p]
                 = Peek(d, c, Block(d, c, head, size, Place[p - 1].index), Place[p - 1].off)
<1> DEFINE at(p) == Peek(d, c, Block(d, c, head, size, Place[p - 1].index), Place[p - 1].off)
<1>1. ASSUME NEW p \in 1 .. size PROVE at(p) \in Cell
    <2> DEFINE q == p - 1
    <2>1. q \in Nat /\ q <= Reach /\ BlockSize \in Nat
        BY Bounds
    <2> HIDE DEF q
    <2>2. Place[q].off \in Nat /\ Place[q].off < BlockSize
        BY <2>1, PlaceType
    <2>3. Place[q].off \in 0 .. BlockSize - 1
        BY <2>1, <2>2
    <2> QED BY <2>3, PeekType DEF q
<1>2. Cells(d, c, head, size) = [p \in 1 .. size |-> at(p)]
    BY DEF Cells
<1> HIDE DEF at
<1>3. /\ Cells(d, c, head, size) \in Seq(Cell) /\ Len(Cells(d, c, head, size)) = size
      /\ \A p \in 1 .. size : Cells(d, c, head, size)[p] = at(p)
    BY <1>1, <1>2
<1> QED BY <1>3 DEF at

LEMMA OldIs ==
    ASSUME NEW d, NEW e, NEW f, NEW s, Sound(d, e, f, s), f.head # Inline
    PROVE  /\ OldOf(d, f) \in Seq(Cell) /\ Len(OldOf(d, f)) = f.size
           /\ \A p \in 1 .. f.size : OldOf(d, f)[p] = OldCell(d, f, p)
<1>1. d \in Device(Cell) /\ NoCache \in Caches /\ f \in Handles
    BY Bounds DEF Sound
<1>2. f.size \in Nat /\ f.size <= MaxSize
    BY <1>1, HandleType
<1>3. CASE f.size = 0
    BY <1>3 DEF OldOf
<1>4. CASE f.size # 0
    <2>1. OldOf(d, f) = Cells(d, NoCache, f.head, f.size)
        BY <1>2, <1>4 DEF OldOf
    <2> QED BY <1>1, <1>2, <2>1, CellsIs DEF OldCell
<1> QED BY <1>3, <1>4

\* Between the calls that is what the handle shows.
LEMMA ViewIs ==
    ASSUME NEW d, NEW e, NEW f, NEW s, Sound(d, e, f, s), ~Is(s, "put")
    PROVE  ViewOf(d, f) = Content(d, f)
<1>1. /\ f \in Handles /\ Length(f) \in Nat
      /\ f.writing => f.pos <= Length(f)
      /\ ~f.writing => Length(f) = f.size
      /\ f.inline => Length(f) <= CacheSize /\ Len(f.cache.data) = CacheSize
      /\ f.writing /\ ~f.inline /\ f.pos < Length(f) => f.head # Inline /\ Length(f) = f.size
      /\ ~f.inline /\ ~f.writing => f.head # Inline
    BY LengthIs
<1>2. /\ Content(d, f) \in Seq(Cell) /\ Len(Content(d, f)) = Length(f)
      /\ \A p \in 1 .. Length(f) : Content(d, f)[p] = CellAt(d, f, p)
    BY ContentIs
<1>3. /\ f.pos \in Nat /\ f.pos <= MaxSize /\ f.size \in Nat /\ f.cache \in Caches
      /\ f.cache.data \in Seq(Cell) /\ d \in Device(Cell)
      /\ f.writing \in BOOLEAN /\ f.inline \in BOOLEAN
    BY <1>1, HandleType DEF Sound
<1>4. CASE f.inline
    <2> DEFINE n == Length(f)
               v == SubSeq(f.cache.data, 1, n)
    <2>1. SizeOf(f) = n /\ n \in Nat /\ n <= Len(f.cache.data)
        BY <1>1, <1>4 DEF Length
    <2> HIDE DEF n
    <2>2. v \in Seq(Cell) /\ Len(v) = n /\ \A p \in 1 .. n : v[p] = f.cache.data[p]
        BY <1>3, <2>1
    <2>3. ViewOf(d, f) = v
        BY <1>4, <2>1 DEF ViewOf
    <2> HIDE DEF v
    <2>4. \A p \in 1 .. n : Content(d, f)[p] = f.cache.data[p]
        BY <1>2, <1>4 DEF n, CellAt
    <2>5. Len(Content(d, f)) = n
        BY <1>2 DEF n
    <2> QED BY <1>2, <2>2, <2>3, <2>4, <2>5, SeqSame
<1>5. CASE ~f.inline /\ ~f.writing
    <2>1. /\ OldOf(d, f) \in Seq(Cell) /\ Len(OldOf(d, f)) = f.size
          /\ \A p \in 1 .. f.size : OldOf(d, f)[p] = OldCell(d, f, p)
        BY <1>1, <1>5, OldIs
    <2>2. ViewOf(d, f) = OldOf(d, f)
        BY <1>5 DEF ViewOf
    <2>3. \A p \in 1 .. f.size : Content(d, f)[p] = OldCell(d, f, p)
        BY <1>1, <1>2, <1>5 DEF CellAt
    <2> QED BY <1>1, <1>2, <1>5, <2>1, <2>2, <2>3, SeqSame
<1>6. CASE ~f.inline /\ f.writing
    <2> DEFINE u == Cells(d, f.cache, f.block, f.pos)
               o == OldOf(d, f)
               w == SubSeq(o, f.pos + 1, Len(o))
    <2>1. /\ u \in Seq(Cell) /\ Len(u) = f.pos
          /\ \A p \in 1 .. f.pos :
                u[p] = Peek(d, f.cache, Block(d, f.cache, f.block, f.pos, Place[p - 1].index),
                            Place[p - 1].off)
        BY <1>3, CellsIs
    <2>2. \A p \in 1 .. f.pos : u[p] = NewCell(d, f, p)
        <3>1. CASE f.pos = 0
            BY <3>1
        <3>2. CASE f.pos # 0
            <4>1. TipOK(d, e, f) /\ UnusedOK(f, s)
                BY <1>6, SoundHandle
            <4>2. LastNo(f.pos) = LastNo(TipSize(f))
                BY <1>1, <1>3, <3>2, <4>1, TipFacts DEF UnusedOK
            <4>3. \A i : Block(d, f.cache, f.block, f.pos, i)
                         = Block(d, f.cache, f.block, TipSize(f), i)
                BY <4>2 DEF Block, LastNo
            <4> QED BY <2>1, <4>3 DEF NewCell
        <3> QED BY <3>1, <3>2
    <2>3. /\ o \in Seq(Cell)
          /\ f.head # Inline => Len(o) = f.size /\ \A p \in 1 .. f.size : o[p] = OldCell(d, f, p)
          /\ f.head = Inline => Len(o) = 0
        <3>1. f.head = Inline => o = <<>>
            BY DEF OldOf
        <3> HIDE DEF o
        <3>2. f.head # Inline => /\ o \in Seq(Cell) /\ Len(o) = f.size
                                 /\ \A p \in 1 .. f.size : o[p] = OldCell(d, f, p)
            BY OldIs DEF o
        <3>3. CASE f.head = Inline
            BY <3>1, <3>3
        <3>4. CASE f.head # Inline
            BY <3>2, <3>4
        <3> QED BY <3>3, <3>4
    <2>4. ViewOf(d, f) = u \o w
        BY Zenon, <1>6 DEF ViewOf
    <2> HIDE DEF u, o
    <2>5. /\ w \in Seq(Cell) /\ Len(w) = IF f.pos < Len(o) THEN Len(o) - f.pos ELSE 0
          /\ \A p \in 1 .. Len(w) : w[p] = o[f.pos + p]
        BY Zenon, <1>3, <2>3, BehindIs
    <2> HIDE DEF w
    <2>6. Len(u) + Len(w) = Length(f)
        <3>1. Length(f) = IF f.head = Inline THEN f.pos
                          ELSE IF f.pos >= f.size THEN f.pos ELSE f.size
            BY <1>6 DEF Length, SizeOf
        <3> QED BY <1>3, <2>1, <2>3, <2>5, <3>1
    <2> DEFINE z == u \o w
    <2>7. /\ z \in Seq(Cell) /\ Len(z) = Length(f)
          /\ \A p \in 1 .. Length(f) : z[p] = IF p <= f.pos THEN u[p] ELSE w[p - f.pos]
        <3>1. /\ z \in Seq(Cell) /\ Len(z) = Len(u) + Len(w)
              /\ \A p \in 1 .. Len(u) + Len(w) : z[p] = IF p <= Len(u) THEN u[p] ELSE w[p - Len(u)]
            BY Zenon, <2>1, <2>5, JoinIs
        <3> QED BY <2>1, <2>6, <3>1
    <2> HIDE DEF z
    <2>8. ASSUME NEW p \in 1 .. Length(f) PROVE z[p] = Content(d, f)[p]
        <3>1. CASE p <= f.pos
            BY <1>2, <1>6, <2>2, <2>7, <3>1 DEF CellAt
        <3>2. CASE p > f.pos
            <4>1. f.head # Inline /\ Length(f) = f.size /\ f.pos < f.size
                BY <1>1, <1>3, <1>6, <3>2
            <4>2. p - f.pos \in 1 .. Len(w) /\ f.pos + (p - f.pos) = p /\ p \in 1 .. f.size
                BY <1>3, <2>3, <2>5, <3>2, <4>1
            <4>3. w[p - f.pos] = OldCell(d, f, p)
                BY <2>3, <2>5, <4>1, <4>2
            <4>4. CellAt(d, f, p) = OldCell(d, f, p)
                BY <1>3, <1>6, <3>2, <4>2 DEF CellAt
            <4>5. ~(p <= f.pos)
                BY <1>3, <3>2, <4>2
            <4> QED BY <1>2, <2>7, <4>3, <4>4, <4>5
        <3> QED BY <1>1, <1>3, <3>1, <3>2
    <2>9. z = Content(d, f)
        BY <1>2, <2>7, <2>8, SeqSame
    <2> QED BY <2>4, <2>9 DEF z
<1> QED BY <1>4, <1>5, <1>6

\* What a mount would find.
SavedOf(d, e) == IF e = Absent THEN Absent
                 ELSE IF e.head = Inline THEN e.data
                 ELSE Cells(d, NoCache, e.head, e.size)

LEMMA SavedKept ==
    ASSUME NEW d, NEW d2, NEW b, Same(d, d2, b), NEW e \in Entries \union {Absent},
           EntryOK(d, e), Listed(e) => b \notin BlocksOfEntry(d, e)
    PROVE  SavedOf(d2, e) = SavedOf(d, e)
<1>1. CASE ~Listed(e)
    BY <1>1 DEF SavedOf, Listed
<1>2. CASE Listed(e)
    <2>1. e \in Entries /\ e # Absent /\ e.head # Inline
        BY <1>2 DEF Listed
    <2>2. e.size \in Nat /\ e.size <= MaxSize
        BY <2>1, EntryType
    <2>3. IsList(d, NoCache, e.head, e.size) /\ b \notin ListBlocks(d, NoCache, e.head, e.size)
        BY <1>2 DEF EntryOK, BlocksOfEntry
    <2>4. \A p \in 1 .. e.size : Block(d2, NoCache, e.head, e.size, Place[p - 1].index)
                                 = Block(d, NoCache, e.head, e.size, Place[p - 1].index)
        BY <2>2, <2>3, Frame
    <2>5. ASSUME NEW p \in 1 .. e.size
          PROVE  LET x == Block(d, NoCache, e.head, e.size, Place[p - 1].index)
                 IN  \A k : Peek(d2, NoCache, x, k) = Peek(d, NoCache, x, k)
        <3> DEFINE x == Block(d, NoCache, e.head, e.size, Place[p - 1].index)
        <3>1. IsSize(e.size)
            BY <2>2, <2>5, SizeIs, Bounds
        <3>2. Place[p - 1].index \in 0 .. LastNo(e.size)
            BY <2>2, <3>1, LastIndex
        <3>3. x \in Blocks /\ x \in ListBlocks(d, NoCache, e.head, e.size)
            BY <2>3, <3>1, <3>2, ListFacts
        <3> HIDE DEF x
        <3>4. d2[x] = d[x]
            BY <2>3, <3>3 DEF Same
        <3>5. NoCache.data = <<>> /\ NoCache.off \in Nat
            BY NoCacheIs
        <3>6. \A k : Peek(d2, NoCache, x, k) = Peek(d, NoCache, x, k)
            BY <3>3, <3>4, <3>5, PeekBare
        <3> QED BY <3>6 DEF x
    <2>6. Cells(d2, NoCache, e.head, e.size) = Cells(d, NoCache, e.head, e.size)
        BY <2>4, <2>5 DEF Cells
    <2> QED BY <2>1, <2>6 DEF SavedOf
<1> QED BY <1>1, <1>2

LEMMA SavedIs ==
    ASSUME NEW d \in Device(Cell), NEW e \in Entries
    PROVE  SavedOf(d, e) \in Seq(Cell) /\ SavedOf(d, e) # Absent /\ e # Absent
<1>1. e.size \in Nat /\ e.size <= MaxSize /\ e.data \in Seq(Cell) /\ NoCache \in Caches
    BY EntryType, Bounds
<1>2. Cells(d, NoCache, e.head, e.size) \in Seq(Cell)
    BY <1>1, CellsIs
<1>3. e # Absent /\ Absent \notin Seq(Cell)
    BY SentinelAssumption
<1> QED BY <1>1, <1>2, <1>3 DEF SavedOf

\* The variables.
LEMMA ViewNow ==
    ASSUME file \in Handles
    PROVE  View = ViewOf(disk, file)
<1>1. FileSize = SizeOf(file) /\ file # Closed
    BY FileSizeIs, HandleOpen
<1> QED BY <1>1 DEF View, ViewOf, Old, OldOf

LEMMA SavedNow ==
    Saved = SavedOf(disk, entry)
    BY DEF Saved, SavedOf

LEMMA ViewThen ==
    ASSUME file' \in Handles
    PROVE  View' = ViewOf(disk', file')
<1>1. FileSize' = SizeOf(file')
    <2>1. /\ file'.pos \in Nat /\ file'.size \in Nat /\ file'.writing \in BOOLEAN
        BY HandleType
    <2> QED BY <2>1, MaxOf DEF FileSize, SizeOf
<1>2. file' # Closed
    BY HandleOpen
<1> QED BY <1>1, <1>2 DEF View, ViewOf, Old, OldOf

LEMMA SavedThen ==
    Saved' = SavedOf(disk', entry')
    BY DEF Saved, SavedOf

-----------------------------------------------------------------------------
(* The steps of SyncedFile.                                                  *)

LEMMA GoOn ==
    ASSUME NEW steps, Go(steps)
    PROVE  /\ todo' # <<>> => result' = result /\ call' = call
           /\ todo' = <<>> => /\ result' = "ok"
                              /\ call' = IF call.writes THEN [call EXCEPT !.failed = FALSE] ELSE call
    BY DEF Go

\* The call goes on.
LEMMA Stutters ==
    ASSUME todo # <<>>, todo' # <<>>, result' = result, call' = call, got' = got, Saved' = Saved
    PROVE  UNCHANGED Promise!vars
    BY DEF Promise!vars

\* Nothing of the handle is seen to change.
LEMMA CallBegins ==
    ASSUME todo = <<>>, todo' # <<>>, file # Closed, result' = result, got' = got, Saved' = Saved,
           call'.view = View, call'.pos = file.pos, call'.failed = call.failed
    PROVE  Promise!Next
<1>1. Promise!Call
    BY DEF Promise!Call
<1> QED BY <1>1 DEF Promise!Next

LEMMA WriteReturns ==
    ASSUME todo # <<>>, todo' = <<>>, result' = "ok", call'.failed = FALSE,
           got' = got, Saved' = Saved, file' # Closed,
           NEW v \in Value, NEW n \in 1 .. MaxSize, NEW p \in {call.pos, Len(call.view)},
           p + n <= MaxSize, View' = Promise!Put(call.view, p, Rep(n, v)), file'.pos = p + n
    PROVE  Promise!Next
<1>1. Promise!Write(v, n)
    BY Zenon DEF Promise!Write, Promise!Ok, Rep
<1> QED BY <1>1 DEF Promise!Next

LEMMA ReadReturns ==
    ASSUME todo # <<>>, todo' = <<>>, result' = "ok", call.failed \in BOOLEAN,
           call'.failed = call.failed, Saved' = Saved, file' # Closed,
           NEW n \in 1 .. MaxSize, View' = call.view,
           got' = SubSeq(call.view, call.pos + 1, Promise!Least(call.pos + n, Len(call.view))),
           file'.pos = call.pos + Len(got')
    PROVE  Promise!Next
<1>1. Promise!Read(n)
    BY Zenon DEF Promise!Read, Promise!Ok
<1> QED BY <1>1 DEF Promise!Next

LEMMA SeekReturns ==
    ASSUME todo # <<>>, todo' = <<>>, result' = "ok", call.failed \in BOOLEAN,
           call'.failed = call.failed, got' = got, Saved' = Saved, file' # Closed,
           View' = call.view, file'.pos \in 0 .. MaxSize
    PROVE  Promise!Next
<1>1. Promise!Seek(file'.pos)
    BY DEF Promise!Seek, Promise!Ok
<1> QED BY <1>1 DEF Promise!Next

LEMMA TruncateReturns ==
    ASSUME todo # <<>>, todo' = <<>>, result' = "ok", call.failed \in BOOLEAN,
           got' = got, Saved' = Saved, file' # Closed, NEW n \in 0 .. MaxSize,
           file'.pos = call.pos, Len(call.view) \in Nat,
           \/ n <= Len(call.view) /\ View' = SubSeq(call.view, 1, n) /\ call'.failed = call.failed
           \/ n > Len(call.view) /\ View' = Grown(call.view, n) /\ call'.failed = FALSE
    PROVE  Promise!Next
<1>1. Promise!Truncate(n)
    <2>1. CASE n <= Len(call.view) /\ View' = SubSeq(call.view, 1, n) /\ call'.failed = call.failed
        <3>1. ~(n > Len(call.view))
            BY <2>1
        <3> QED BY <2>1, <3>1 DEF Promise!Truncate, Promise!Ok
    <2>2. CASE n > Len(call.view) /\ View' = Grown(call.view, n) /\ call'.failed = FALSE
        <3>1. ~(n <= Len(call.view)) /\ n > Len(call.view)
            BY <2>2
        <3> QED BY Zenon, <2>2, <3>1 DEF Promise!Truncate, Promise!Ok, Grown, Rep
    <2> QED BY Zenon, <2>1, <2>2
<1> QED BY <1>1 DEF Promise!Next

LEMMA SyncReturns ==
    ASSUME todo # <<>>, todo' = <<>>, result' = "ok", call.failed \in BOOLEAN,
           call'.failed = call.failed, got' = got, file' # Closed,
           View' = call.view, file'.pos = call.pos,
           Saved' = call.view \/ (Saved' = Saved /\ call.failed)
    PROVE  Promise!Next
<1>1. Promise!Sync
    BY DEF Promise!Sync, Promise!Ok
<1> QED BY <1>1 DEF Promise!Next

LEMMA Saves ==
    ASSUME todo # <<>>, todo' # <<>>, result' = result, call' = call, got' = got,
           Saved' = call.view
    PROVE  Promise!Next
<1>1. Promise!Save
    BY DEF Promise!Save
<1> QED BY <1>1 DEF Promise!Next

LEMMA CloseReturns ==
    ASSUME todo # <<>>, todo' = <<>>, result' = "ok", call.failed \in BOOLEAN,
           call'.failed = call.failed, got' = got, Saved' = Saved, file' = Closed,
           call.failed \/ Saved = call.view
    PROVE  Promise!Next
<1>1. View' = Closed
    BY DEF View
<1>2. Promise!Close
    BY <1>1 DEF Promise!Close, Promise!Ok
<1> QED BY <1>2 DEF Promise!Next

LEMMA FailReturns ==
    ASSUME todo # <<>>, todo' = <<>>, result' = "error", call'.failed = TRUE,
           got' = got, Saved' = Saved,
           \/ file' = Closed
           \/ /\ file' # Closed /\ file'.pos \in 0 .. MaxSize
              /\ \/ \E v \in Value \union {Zero}, n \in 0 .. MaxSize,
                       p \in {call.pos, Len(call.view)} :
                       View' = Promise!Put(call.view, p, Rep(n, v))
                 \/ \E n \in 0 .. MaxSize :
                       View' = Promise!Put(call.view, Len(call.view), Rep(n, Zero))
    PROVE  Promise!Next
<1>1. CASE file' = Closed
    <2>1. View' = Closed
        BY <1>1 DEF View
    <2>2. 0 \in 0 .. MaxSize
        BY Bounds
    <2>3. Promise!Fail
        BY <1>1, <2>1, <2>2 DEF Promise!Fail
    <2> QED BY <2>3 DEF Promise!Next
<1>2. CASE file' # Closed
    <2>1. Promise!Fail
        BY Zenon, <1>2 DEF Promise!Fail, Rep
    <2> QED BY <2>1 DEF Promise!Next
<1> QED BY <1>1, <1>2

LEMMA Crashes ==
    ASSUME file' = Closed, todo' = <<>>, got' = got, result' = result, call' = call, Saved' = Saved
    PROVE  Promise!Next
<1>1. View' = Closed
    BY DEF View
<1>2. Promise!Crash
    BY <1>1 DEF Promise!Crash
<1> QED BY <1>2 DEF Promise!Next

LEMMA Opens ==
    ASSUME file = Closed, todo = <<>>, todo' = <<>>, file' # Closed, file'.pos = 0,
           result' = "ok", call'.failed = FALSE, got' = got, View' # Absent,
           \/ Saved = Absent /\ Saved' = <<>> /\ Saved' # Absent /\ View' = <<>>
           \/ Saved # Absent /\ Saved' = Saved /\ View' \in {Saved, <<>>}
    PROVE  Promise!Next
<1>1. View = Closed
    BY DEF View
<1>2. Promise!Open
    BY <1>1 DEF Promise!Open
<1> QED BY <1>2 DEF Promise!Next

-----------------------------------------------------------------------------
(* What the steps that are left mean, when the handle shows content V: what  *)
(* the call still has to do to it, and what it has done to the content c.view *)
(* that the handle had when it began.                                        *)

BackTo(s, p) == Returning(s) /\ Tail(s)[1].pos = p

\* The cells before position p have been read.
MeansGet(s, V, p, c) ==
    /\ Is(s, "get") /\ ~c.writes /\ V = c.view
    /\ s[1].n + Len(s[1].cells) > 0
    /\ p = c.pos + Len(s[1].cells)
    /\ s[1].cells # <<>> => p <= Len(V)
    /\ s[1].cells = SubSeq(V, c.pos + 1, p)

\* The last step of a seek, of a truncate that has made the file shorter, or longer.
MeansSet(s, V, f, c) ==
    /\ Ends(s, "setpos")
    /\ \/ ~c.writes /\ V = c.view
       \/ /\ ~c.writes /\ ~f.writing /\ s[1].pos = c.pos
          /\ \E n \in 0 .. Len(c.view) : V = SubSeq(c.view, 1, n)
       \/ /\ c.writes /\ ~f.erred /\ s[1].pos = c.pos
          /\ \E n \in 0 .. MaxSize : n > Len(c.view) /\ V = Grown(c.view, n)

MeansSave(s, V, p, c) == Is(s, "commit") /\ ~c.writes /\ V = c.view /\ p = c.pos

MeansCut(s, V, c) ==
    Is(s, "cut") /\ ~c.writes /\ V = c.view /\ s[1].size < Len(V) /\ BackTo(Tail(s), c.pos)

\* The file will be made longer.
MeansGo(s, V, c) ==
    /\ Is(s, "setpos") /\ Is(Tail(s), "fill") /\ BackTo(Tail(Tail(s)), c.pos)
    /\ c.writes /\ V = c.view
    /\ s[1].pos = Len(V) /\ Tail(s)[1].to > Len(V)

\* After a flush, p being where it leaves the handle.
Means(s, V, p, f, c) ==
    \/ MeansGet(s, V, p, c) \/ MeansSet(s, V, f, c) \/ MeansSave(s, V, p, c)
    \/ MeansCut(s, V, c) \/ MeansGo(s, V, c)

MeansFlush(s, V, f, c)  == Is(s, "flush") /\ Means(Tail(s), V, f.pos, f, c)
MeansSettle(s, V, f, c) == Is(s, "settle") /\ Means(Tail(s), V, s[1].pos, f, c)
MeansDrain(s, V, f, c)  == Is(s, "drain") /\ MeansSettle(Tail(s), V, f, c)
MeansCopy(s, V, f, c)   == Is(s, "copy") /\ MeansDrain(Tail(s), V, f, c)

\* The zeros up to the position have been written.
MeansFill(s, V, f, c) ==
    /\ Is(s, "fill") /\ c.writes
    /\ f.size <= f.pos /\ Len(c.view) <= f.pos /\ f.pos <= s[1].to /\ V = Grown(c.view, f.pos)
    /\ \/ /\ BackTo(Tail(s), c.pos) /\ s[1].to > Len(c.view)
          /\ f.pos > Len(c.view) => ~f.erred
       \/ /\ Ends(Tail(s), "put") /\ s[1].to = c.pos
          /\ \E x \in Value : Tail(s)[1].cells = Rep(Len(Tail(s)[1].cells), x)

\* Of the cells of a write, k have been written at place p.  What is left of a file that
\* was inline ends at the position.
MeansWrite(s, V, f, c) ==
    /\ Ends(s, "put") /\ c.writes
    /\ \E p \in {c.pos, Len(c.view)}, k \in Nat, x \in Value :
          /\ f.pos = p + k
          /\ s[1].cells = Rep(Len(s[1].cells), x)
          /\ LET W == Promise!Put(c.view, p, Rep(k, x))
             IN  \/ V = W
                 \/ /\ V = SubSeq(W, 1, f.pos)
                    /\ Len(W) <= f.size
                    /\ f.head = Inline /\ ~f.inline /\ f.pos < f.size

MeansPut(s, V, f, c) ==
    \/ MeansWrite(s, V, f, c)
    \/ /\ Is(s, "put") /\ s[1].cells = <<Zero>>
       /\ MeansFill(Tail(s), V, f, c) /\ f.pos < Tail(s)[1].to
    \/ /\ Is(s, "put") /\ f.pos < Len(V) /\ s[1].cells = <<V[f.pos + 1]>>
       /\ MeansCopy(Tail(s), V, f, c) /\ f.head # Inline

MeansExtend(s, V, f, c) == Is(s, "extend") /\ MeansPut(Tail(s), V, f, c)

MeansMove(s, V, f, c) ==
    /\ Is(s, "relocate")
    /\ \/ MeansPut(Tail(s), V, f, c)
       \/ MeansDrain(Tail(s), V, f, c)
       \/ MeansFlush(Tail(s), V, f, c) /\ Is(Tail(Tail(s)), "commit")

Meaning(s, V, f, c, saved) ==
    \/ Is(s, "toobig") /\ ~c.writes /\ V = c.view
    \/ Is(s, "close") /\ ~c.writes /\ V = c.view /\ (c.failed \/ saved = c.view)
    \/ Means(s, V, f.pos, f, c)
    \/ MeansFlush(s, V, f, c) \/ MeansSettle(s, V, f, c)
    \/ MeansDrain(s, V, f, c) \/ MeansCopy(s, V, f, c)
    \/ MeansFill(s, V, f, c) \/ MeansPut(s, V, f, c)
    \/ MeansExtend(s, V, f, c) \/ MeansMove(s, V, f, c)

\* A handle that is clean shows what is saved.
CleanOK(e, f) ==
    f.inline /\ ~f.dirty /\ ~f.writing => SubSeq(f.cache.data, 1, f.size) = e.data

\* The block that is read from is the one of the position.
ReadingOK(d, f, s) ==
    f.reading /\ (s = <<>> \/ Is(s, "get")) =>
        IF f.inline THEN f.block = Inline /\ f.off = f.pos
        ELSE f.off # BlockSize =>
                f.block = Block(d, NoCache, f.head, f.size, Place[f.pos].index)

CallOK(c) ==
    /\ c = [view |-> c.view, pos |-> c.pos, writes |-> c.writes, failed |-> c.failed]
    /\ c.failed \in BOOLEAN /\ c.writes \in BOOLEAN

BeganOK(c) == c.view \in Seq(Cell) /\ Len(c.view) <= MaxSize /\ c.pos \in 0 .. MaxSize

Told(d, e, f, s, c) ==
    /\ CallOK(c)
    /\ f.erred => c.failed
    /\ CleanOK(e, f)
    /\ ReadingOK(d, f, s)
    /\ s # <<>> => BeganOK(c) /\ Meaning(s, Content(d, f), f, c, SavedOf(d, e))

LEMMA MeaningOf ==
    ASSUME NEW s, NEW V, NEW f, NEW c, NEW saved, Meaning(s, V, f, c, saved)
    PROVE  /\ Is(s, "toobig") => ~c.writes /\ V = c.view
           /\ Is(s, "close") => ~c.writes /\ V = c.view /\ (c.failed \/ saved = c.view)
           /\ Is(s, "get") => MeansGet(s, V, f.pos, c)
           /\ Is(s, "setpos") => MeansSet(s, V, f, c) \/ MeansGo(s, V, c)
           /\ Is(s, "commit") => MeansSave(s, V, f.pos, c)
           /\ Is(s, "cut") => MeansCut(s, V, c)
           /\ Is(s, "flush") => Means(Tail(s), V, f.pos, f, c)
           /\ Is(s, "settle") => Means(Tail(s), V, s[1].pos, f, c)
           /\ Is(s, "drain") => MeansSettle(Tail(s), V, f, c)
           /\ Is(s, "copy") => MeansDrain(Tail(s), V, f, c)
           /\ Is(s, "fill") => MeansFill(s, V, f, c)
           /\ Is(s, "put") => MeansPut(s, V, f, c)
           /\ Is(s, "extend") => MeansPut(Tail(s), V, f, c)
           /\ Is(s, "relocate") => MeansMove(s, V, f, c)
<1>1. /\ MeansGet(s, V, f.pos, c) => Is(s, "get")
      /\ MeansSet(s, V, f, c) => Is(s, "setpos")
      /\ MeansSave(s, V, f.pos, c) => Is(s, "commit")
      /\ MeansCut(s, V, c) => Is(s, "cut")
      /\ MeansGo(s, V, c) => Is(s, "setpos")
      /\ MeansFill(s, V, f, c) => Is(s, "fill")
      /\ MeansPut(s, V, f, c) => Is(s, "put")
      /\ MeansMove(s, V, f, c) => Is(s, "relocate")
    BY DEF MeansGet, MeansSet, MeansSave, MeansCut, MeansGo, MeansFill, MeansPut, MeansWrite,
           MeansMove, Ends
<1>2. \A a, b : Is(s, a) /\ Is(s, b) => a = b
    BY DEF Is
<1>3. Meaning(s, V, f, c, saved)
    OBVIOUS
<1> QED BY Zenon, <1>1, <1>2, <1>3 DEF Meaning, Means, MeansFlush, MeansSettle, MeansDrain, MeansCopy,
                                MeansExtend

-----------------------------------------------------------------------------
(* What does not change the content.                                         *)

LEMMA OldCellIs ==
    ASSUME NEW d, NEW f, NEW p
    PROVE  /\ OldCell(d, f, p) = CellOf(d, NoCache, f.head, f.size, p)
           /\ NewCell(d, f, p) = CellOf(d, f.cache, f.block, TipSize(f), p)
    BY DEF OldCell, NewCell, CellOf

\* What is written to a block that is not of the old list.
LEMMA OldKept ==
    ASSUME NEW d, NEW d2, NEW b, Same(d, d2, b), NEW f \in Handles, OldOK(d, f), NeedsOld(f),
           b \notin OldBlocks(d, f), NEW f2, f2.head = f.head, f2.size = f.size,
           NEW p \in 1 .. f.size
    PROVE  OldCell(d2, f2, p) = OldCell(d, f, p)
<1> DEFINE i_ == Place[p - 1].index
           x == Block(d, NoCache, f.head, f.size, i_)
<1>1. Block(d2, NoCache, f.head, f.size, i_) = x
    BY OldFrame
<1>2. IsSize(f.size) /\ IsList(d, NoCache, f.head, f.size)
    <2>1. f.size \in Nat /\ f.size <= MaxSize /\ f.size # 0
        BY HandleType
    <2>2. IsSize(f.size)
        BY <2>1, Bounds, SizeIs
    <2> QED BY <2>2 DEF NeedsOld, OldOK
<1>3. i_ \in 0 .. LastNo(f.size)
    BY <1>2, CellNo
<1>4. x \in Blocks /\ x \in OldBlocks(d, f)
    BY <1>2, <1>3, ListFacts DEF OldBlocks
<1> HIDE DEF i_, x
<1>5. \A k : Peek(d2, NoCache, x, k) = Peek(d, NoCache, x, k)
    BY <1>4, NoCacheIs, PeekBare DEF Same
<1> QED BY <1>1, <1>5 DEF OldCell, i_, x

\* What is in front of the position in the last block lies before file.off.
LEMMA TipCells ==
    ASSUME NEW d, NEW e, NEW f \in Handles, TipOK(d, e, f), NEW p \in 1 .. f.pos
    PROVE  /\ p \in 1 .. TipSize(f)
           /\ Place[p - 1].index = LastNo(TipSize(f)) => Place[p - 1].off < f.off
<1>1. /\ IsSize(TipSize(f)) /\ TipSize(f) \in {f.pos, f.pos + 1}
      /\ f.pos \in Nat /\ f.pos <= MaxSize /\ f.off \in Nat /\ f.off <= BlockSize
      /\ MaxSize <= Reach /\ MaxSize \in Nat /\ Reach \in Nat
    BY TipFacts, HandleType, Bounds
<1>2. p \in 1 .. TipSize(f)
    BY <1>1
<1>3. CASE f.off < BlockSize
    <2> DEFINE q == p - 1
    <2>1. q \in Nat /\ q < f.pos /\ f.pos <= Reach
        BY <1>1
    <2>2. LastNo(TipSize(f)) = Place[f.pos].index /\ Place[f.pos].off = f.off
        <3>1. TipSize(f) = f.pos + 1 /\ (f.pos + 1) - 1 = f.pos
            BY <1>1, <1>3 DEF TipSize
        <3> QED BY <1>3, <3>1 DEF LastNo, TipOK
    <2> HIDE DEF q
    <2>3. Place[q].index = Place[f.pos].index => Place[q].off < Place[f.pos].off
        BY <1>1, <2>1, PlaceLess
    <2> QED BY <1>2, <2>2, <2>3 DEF q
<1>4. CASE ~(f.off < BlockSize)
    <2>1. f.off = BlockSize /\ BlockSize \in Nat
        BY <1>1, <1>4, Bounds
    <2>2. Place[p - 1].off \in 0 .. BlockSize - 1
        BY <1>1, <1>2, CellNo
    <2> QED BY <1>2, <2>1, <2>2
<1> QED BY <1>3, <1>4

\* What is seen of other blocks than the one that is written.
LEMMA OthersSame ==
    ASSUME NEW d, NEW d2, NEW b, Same(d, d2, b), NEW c, NEW c2, NEW x \in Blocks, x # b,
           c = NoCache \/ c.block # x, c2 = NoCache \/ c2.block # x, NEW k
    PROVE  Peek(d2, c2, x, k) = Peek(d, c, x, k)
<1>1. c.block # x /\ c2.block # x
    BY NoCacheIs, CellAssumption
<1>2. d2[x] = d[x]
    BY DEF Same
<1> QED BY <1>1, <1>2, PeekElsewhere

\* The new list, when its last block is copied to another or holds more.
LEMMA NewKept ==
    ASSUME NEW d, NEW e, NEW f \in Handles, TipOK(d, e, f), f.cache = NoCache \/ f.cache.block = f.block,
           NEW d2, NEW e2, NEW f2 \in Handles, TipOK(d2, e2, f2),
           f2.cache = NoCache \/ f2.cache.block = f2.block,
           LastNo(TipSize(f2)) = LastNo(TipSize(f)),
           f2.block = f.block \/ f2.block \notin ListBlocks(d, f.cache, f.block, TipSize(f)),
           NEW b, Same(d, d2, b),
           b = f.block \/ b \notin ListBlocks(d, f.cache, f.block, TipSize(f)),
           \A k \in Nat : k < f.off =>
              Peek(d2, f2.cache, f2.block, k) = Peek(d, f.cache, f.block, k),
           NEW p \in 1 .. f.pos
    PROVE  NewCell(d2, f2, p) = NewCell(d, f, p)
<1> DEFINE L == ListBlocks(d, f.cache, f.block, TipSize(f))
           s == TipSize(f)
           s2 == TipSize(f2)
           o == f.off
<1>1. /\ IsSize(s) /\ IsList(d, f.cache, f.block, s)
      /\ IsSize(s2) /\ IsList(d2, f2.cache, f2.block, s2)
    BY Zenon, TipFacts DEF TipOK
<1>2. \A x \in L : x # f.block => \A k \in Nat : Peek(d2, f2.cache, x, k) = Peek(d, f.cache, x, k)
    <2>1. SUFFICES ASSUME NEW x \in L, x # f.block, NEW k \in Nat
                   PROVE  Peek(d2, f2.cache, x, k) = Peek(d, f.cache, x, k)
        OBVIOUS
    <2>2. x \in Blocks
        <3>1. PICK B : Lists(d, f.cache, B, LastNo(s)) /\ L = {B[i] : i \in 0 .. LastNo(s)}
            BY <1>1, ListPick
        <3> QED BY <2>1, <3>1 DEF Lists, IsListOf
    <2>3. x # f2.block /\ x # b
        BY <2>1
    <2> DEFINE c == f.cache
               c2 == f2.cache
    <2>4. c = NoCache \/ c.block # x
        BY <2>1
    <2>5. c2 = NoCache \/ c2.block # x
        BY <2>3
    <2>6. Same(d, d2, b)
        OBVIOUS
    <2> HIDE DEF L, c, c2
    <2>7. Peek(d2, c2, x, k) = Peek(d, c, x, k)
        BY <2>2, <2>3, <2>4, <2>5, <2>6, OthersSame
    <2> QED BY <2>7 DEF c, c2
<1>3. LastNo(s) > 0 => o > 0
    <2>1. ASSUME LastNo(s) > 0 PROVE o > 0
        <3>1. LastNo(s) \in Nat /\ \A k \in 0 .. Ctz[LastNo(s)] :
                 k \in Nat /\ PointerSize * k \in Nat /\ PointerSize * k < o
            BY <2>1, TipFacts
        <3>2. 0 \in 0 .. Ctz[LastNo(s)]
            BY <2>1, <3>1, CtzDef
        <3>3. PointerSize * 0 \in Nat /\ PointerSize * 0 < o /\ o \in Nat
            BY <3>1, <3>2, HandleType
        <3> HIDE DEF o
        <3> QED BY <3>3
    <2> QED BY <2>1
<1>4. p \in 1 .. s /\ (Place[p - 1].index = LastNo(s) => Place[p - 1].off < o)
    BY TipCells
<1>5. /\ LastNo(s2) = LastNo(s) /\ (f2.block = f.block \/ f2.block \notin L)
      /\ \A k \in Nat : k < o => Peek(d2, f2.cache, f2.block, k) = Peek(d, f.cache, f.block, k)
    OBVIOUS
<1> DEFINE c == f.cache
           h == f.block
           c2 == f2.cache
           h2 == f2.block
<1>6. /\ LastNo(s2) = LastNo(s)
      /\ IsSize(s) /\ IsList(d, c, h, s)
      /\ IsSize(s2) /\ IsList(d2, c2, h2, s2)
      /\ h2 = h \/ h2 \notin ListBlocks(d, c, h, s)
      /\ \A x \in ListBlocks(d, c, h, s) : x # h =>
            \A k \in Nat : Peek(d2, c2, x, k) = Peek(d, c, x, k)
      /\ \A k \in Nat : k < o => Peek(d2, c2, h2, k) = Peek(d, c, h, k)
    BY <1>1, <1>2, <1>5
<1> HIDE DEF s, s2, o, c, h, c2, h2
<1>7. CellOf(d2, c2, h2, s2, p) = CellOf(d, c, h, s, p)
    BY <1>3, <1>4, <1>6, CellsKept
<1> QED BY <1>7, OldCellIs DEF s, s2, c, h, c2, h2

LEMMA ContentSame ==
    ASSUME NEW d, NEW f, NEW d2, NEW f2, Length(f2) = Length(f),
           \A p \in 1 .. Length(f) : CellAt(d2, f2, p) = CellAt(d, f, p)
    PROVE  Content(d2, f2) = Content(d, f)
    BY DEF Content

LEMMA LengthSame ==
    ASSUME NEW f, NEW f2, f2.pos = f.pos, f2.size = f.size, f2.head = f.head,
           f2.writing = f.writing, f2.inline = f.inline
    PROVE  Length(f2) = Length(f)
    BY DEF Length, SizeOf

\* The handle shows the same of its old list.
LEMMA OldSame ==
    ASSUME NEW d, NEW e, NEW f, NEW s, Sound(d, e, f, s), ~f.inline,
           NEW d2, NEW b, Same(d, d2, b), NeedsOld(f) => b \notin OldBlocks(d, f),
           NEW f2, f2.head = f.head, f2.size = f.size,
           NEW p \in 1 .. Length(f), ~(f.writing /\ p <= f.pos)
    PROVE  OldCell(d2, f2, p) = OldCell(d, f, p)
<1>1. f \in Handles /\ OldOK(d, f)
    BY SoundHandle DEF Sound
<1>2. /\ f.pos \in Nat /\ f.size \in Nat
      /\ Length(f) \in Nat
    BY <1>1, HandleType, LengthIs
<1>3. Length(f) = f.size /\ NeedsOld(f)
    <2>1. CASE f.writing
        <3>1. f.pos < Length(f)
            BY <1>2, <2>1
        <3> QED BY <2>1, <3>1, LengthIs
    <2>2. CASE ~f.writing
        BY <2>2, LengthIs
    <2> QED BY <2>1, <2>2
<1>4. p \in 1 .. f.size
    BY <1>3
<1> QED BY <1>1, <1>3, <1>4, OldKept

\* A write that is about the last block of the new list, or about one that is in no list.
LEMMA ContentKept ==
    ASSUME NEW d, NEW e, NEW f, NEW s, Sound(d, e, f, s), f.writing, ~f.inline,
           NEW d2, NEW e2, NEW f2, NEW s2, Sound(d2, e2, f2, s2), f2.writing, ~f2.inline,
           f2.pos = f.pos, f2.head = f.head, f2.size = f.size, f2.off = f.off,
           NEW b, Same(d, d2, b), NeedsOld(f) => b \notin OldBlocks(d, f),
           f.pos > 0 =>
              /\ f2.block = f.block \/ f2.block \notin ListBlocks(d, f.cache, f.block, TipSize(f))
              /\ b = f.block \/ b \notin ListBlocks(d, f.cache, f.block, TipSize(f)),
           \A k \in Nat : k < f.off =>
              Peek(d2, f2.cache, f2.block, k) = Peek(d, f.cache, f.block, k)
    PROVE  Content(d2, f2) = Content(d, f)
<1>1. f \in Handles /\ f2 \in Handles
    BY DEF Sound
<1>2. TipOK(d, e, f) /\ CacheOK(f, s) /\ TipOK(d2, e2, f2) /\ CacheOK(f2, s2)
    BY SoundHandle
<1>3. /\ f.cache = NoCache \/ f.cache.block = f.block
      /\ f2.cache = NoCache \/ f2.cache.block = f2.block
    BY <1>2 DEF CacheOK
<1>4. TipSize(f2) = TipSize(f)
    BY DEF TipSize
<1>5. f.writing \in BOOLEAN /\ f2.writing \in BOOLEAN /\ f.inline \in BOOLEAN /\ f2.inline \in BOOLEAN
      /\ f.pos \in Nat
    BY <1>1, HandleType
<1>6. f2.writing = f.writing /\ f2.inline = f.inline
    BY <1>5
<1>7. Length(f2) = Length(f)
    BY Zenon, <1>6, LengthSame
<1>8. ASSUME NEW p \in 1 .. Length(f), p <= f.pos
      PROVE  NewCell(d2, f2, p) = NewCell(d, f, p)
    <2>1. p \in 1 .. f.pos /\ f.pos > 0
        BY <1>5, <1>8
    <2>2. LastNo(TipSize(f2)) = LastNo(TipSize(f))
        BY <1>4
    <2>3. /\ f2.block = f.block \/ f2.block \notin ListBlocks(d, f.cache, f.block, TipSize(f))
          /\ b = f.block \/ b \notin ListBlocks(d, f.cache, f.block, TipSize(f))
        BY <2>1
    <2> QED BY <1>1, <1>2, <1>3, <2>1, <2>2, <2>3, NewKept
<1>9. ASSUME NEW p \in 1 .. Length(f), ~(p <= f.pos)
      PROVE  OldCell(d2, f2, p) = OldCell(d, f, p)
    BY <1>9, OldSame
<1>10. \A p \in 1 .. Length(f) : CellAt(d2, f2, p) = CellAt(d, f, p)
    BY <1>6, <1>8, <1>9 DEF CellAt
<1> QED BY <1>7, <1>10, ContentSame

\* What is written to the last block of the new list is not of the committed file.
LEMMA TipWrites ==
    ASSUME Sound(disk, entry, file, todo), file.writing, ~file.inline,
           NEW d2, NEW f2, NEW s2, Sound(d2, entry, f2, s2), f2.writing, ~f2.inline,
           f2.pos = file.pos, f2.head = file.head, f2.size = file.size, f2.off = file.off,
           f2.block = file.block, Same(disk, d2, file.block),
           \A k \in Nat : k < file.off =>
              Peek(d2, f2.cache, file.block, k) = Peek(disk, file.cache, file.block, k)
    PROVE  Content(d2, f2) = Content(disk, file) /\ SavedOf(d2, entry) = SavedOf(disk, entry)
<1> DEFINE b == file.block
<1>1. TipOK(disk, entry, file) /\ EntryOK(disk, entry) /\ entry \in Entries \union {Absent}
      /\ file \in Handles
    BY SoundHandle DEF Sound
<1>2. NeedsOld(file) => b \notin OldBlocks(disk, file)
    BY <1>1 DEF TipOK, NeedsOld
<1>3. Listed(entry) => b \notin BlocksOfEntry(disk, entry)
    BY <1>1 DEF TipOK
<1>4. /\ Same(disk, d2, b) /\ f2.block = b
      /\ \A k \in Nat : k < file.off =>
              Peek(d2, f2.cache, f2.block, k) = Peek(disk, file.cache, file.block, k)
    OBVIOUS
<1>5. /\ f2.block = file.block
      /\ b = file.block
    OBVIOUS
<1> HIDE DEF b
<1>6. Content(d2, f2) = Content(disk, file)
    BY <1>2, <1>4, <1>5, ContentKept
<1>7. SavedOf(d2, entry) = SavedOf(disk, entry)
    BY <1>1, <1>3, <1>4, SavedKept
<1> QED BY <1>6, <1>7

\* What is written to a block that is free is not seen.
LEMMA FreshWrites ==
    ASSUME Sound(disk, entry, file, todo), NEW b \in Free, NEW d2 \in Device(Cell),
           Same(disk, d2, b),
           ~file.inline /\ file.writing => file.pos = 0 \/ ~Unused(file)
    PROVE  Content(d2, file) = Content(disk, file) /\ SavedOf(d2, entry) = SavedOf(disk, entry)
<1>1. Sound(d2, entry, file, todo)
    BY FreshSound
<1>2. /\ b \in Blocks
      /\ Listed(entry) => b \notin BlocksOfEntry(disk, entry)
      /\ ~file.inline /\ NeedsOld(file) => b \notin OldBlocks(disk, file)
      /\ ~file.inline /\ file.writing /\ file.pos > 0 /\ ~Unused(file) =>
            b \notin ListBlocks(disk, file.cache, file.block, TipSize(file))
    BY FreshOf
<1>3. EntryOK(disk, entry) /\ entry \in Entries \union {Absent} /\ file \in Handles
    BY DEF Sound
<1>4. SavedOf(d2, entry) = SavedOf(disk, entry)
    BY <1>2, <1>3, SavedKept
<1>5. file.pos \in Nat /\ file.pos <= MaxSize
    BY <1>3, HandleType
<1>6. CASE file.inline
    BY <1>4, <1>6 DEF Content, CellAt
<1>7. CASE ~file.inline /\ ~file.writing
    <2>1. \A p \in 1 .. Length(file) : OldCell(d2, file, p) = OldCell(disk, file, p)
        BY <1>2, <1>7, OldSame
    <2>2. \A p \in 1 .. Length(file) : CellAt(d2, file, p) = CellAt(disk, file, p)
        BY <1>7, <2>1 DEF CellAt
    <2> QED BY <1>4, <2>2, ContentSame
<1>8. CASE ~file.inline /\ file.writing /\ file.pos = 0
    <2>1. \A p \in 1 .. Length(file) : ~(p <= file.pos)
        BY <1>8
    <2>2. \A p \in 1 .. Length(file) : OldCell(d2, file, p) = OldCell(disk, file, p)
        BY <1>2, <1>8, <2>1, OldSame
    <2>3. \A p \in 1 .. Length(file) : CellAt(d2, file, p) = CellAt(disk, file, p)
        BY <1>8, <2>1, <2>2 DEF CellAt
    <2> QED BY <1>4, <2>3, ContentSame
<1>9. CASE ~file.inline /\ file.writing /\ file.pos # 0
    <2> DEFINE L == ListBlocks(disk, file.cache, file.block, TipSize(file))
    <2>1. b \notin L
        BY <1>2, <1>5, <1>9
    <2>2. TipOK(disk, entry, file) /\ CacheOK(file, todo)
        BY <1>9, SoundHandle
    <2>3. file.block \in L /\ file.block \in Blocks
        <3> DEFINE t == TipSize(file)
                   c == file.cache
                   h == file.block
        <3>1. IsSize(t) /\ IsList(disk, c, h, t)
            BY Zenon, <1>3, <2>2, TipFacts DEF TipOK
        <3> HIDE DEF t, c, h
        <3>2. /\ LastNo(t) \in Nat /\ Block(disk, c, h, t, LastNo(t)) = h
              /\ \A i \in 0 .. LastNo(t) : Block(disk, c, h, t, i) \in ListBlocks(disk, c, h, t)
            BY <3>1, ListFacts
        <3>3. h \in ListBlocks(disk, c, h, t)
            BY <3>2
        <3> QED BY <2>2, <3>3 DEF t, c, h, TipOK
    <2>4. ASSUME NEW k \in Nat
          PROVE  Peek(d2, file.cache, file.block, k) = Peek(disk, file.cache, file.block, k)
        <3>1. file.block # b
            BY <2>1, <2>3
        <3>2. d2[file.block] = disk[file.block]
            BY <2>3, <3>1 DEF Same
        <3> QED BY <3>2 DEF Peek
    <2>5. /\ \A k \in Nat : k < file.off =>
                Peek(d2, file.cache, file.block, k) = Peek(disk, file.cache, file.block, k)
          /\ file.block = file.block \/ file.block \notin ListBlocks(disk, file.cache, file.block, TipSize(file))
          /\ b = file.block \/ b \notin ListBlocks(disk, file.cache, file.block, TipSize(file))
          /\ NeedsOld(file) => b \notin OldBlocks(disk, file)
        BY <1>2, <1>9, <2>1, <2>4
    <2> HIDE DEF L
    <2>6. Content(d2, file) = Content(disk, file)
        BY <1>1, <1>9, <2>5, ContentKept
    <2> QED BY <1>4, <2>6
<1> QED BY <1>6, <1>7, <1>8, <1>9

LEMMA DrainShows ==
    ASSUME Sound(disk, entry, file, todo), Drain
    PROVE  /\ Content(disk', file') = Content(disk, file)
           /\ SavedOf(disk', entry') = SavedOf(disk, entry)
<1> DEFINE c == file.cache
           b == file.block
           d2 == IF c.block = NoBlock THEN disk ELSE Written(disk, c, Len(c.data))
           f2 == [file EXCEPT !.cache = NoCache]
<1>1. Is(todo, "drain")
    BY DoingIs DEF Drain
<1>2. disk \in Device(Cell) /\ file \in Handles
    BY DEF Sound
<1>3. entry' = entry /\ disk' = d2 /\ file' = f2
    BY DEF Drain
<1>4. /\ file.writing /\ ~file.inline
      /\ b \in Blocks
      /\ \/ c = NoCache /\ c.block = NoBlock
         \/ c \in [block : {b}, off : Nat, data : Seq(Cell)] /\ c.block # NoBlock
    BY <1>1, DrainFacts
<1>5. file.off \in Nat /\ file.off <= BlockSize /\ BlockSize \in Nat
    BY <1>2, HandleType, Bounds
<1>6. Same(disk, d2, b) /\ \A k \in Nat : k < file.off => Peek(d2, NoCache, b, k) = Peek(disk, c, b, k)
    <2> HIDE DEF b, c
    <2>1. CASE c = NoCache /\ c.block = NoBlock
        BY <1>2, <2>1 DEF Same
    <2>2. CASE c \in [block : {b}, off : Nat, data : Seq(Cell)] /\ c.block # NoBlock
        <3> DEFINE w == Written(disk, c, Len(c.data))
        <3>1. d2 = w
            BY <2>2
        <3>2. /\ Same(disk, w, b)
              /\ \A k \in 0 .. BlockSize - 1 : Peek(w, NoCache, b, k) = Peek(disk, c, b, k)
            BY <1>2, <1>4, <2>2, DrainedOf
        <3> HIDE DEF w, d2
        <3>3. ASSUME NEW k \in Nat, k < file.off PROVE Peek(w, NoCache, b, k) = Peek(disk, c, b, k)
            <4>1. k \in 0 .. BlockSize - 1
                BY <1>5, <3>3
            <4> QED BY <3>2, <4>1
        <3> QED BY <3>1, <3>2, <3>3
    <2> QED BY <1>4, <2>1, <2>2
<1> HIDE DEF d2
<1>7. /\ f2.pos = file.pos /\ f2.size = file.size /\ f2.off = file.off /\ f2.head = file.head
      /\ f2.writing /\ ~f2.inline /\ f2.cache = NoCache /\ f2.block = file.block
    BY <1>2, <1>4 DEF Handles
<1> HIDE DEF f2
<1>8. Sound(d2, entry, f2, todo')
    BY <1>3, DrainKeeps
<1>9. /\ Same(disk, d2, file.block)
      /\ \A k \in Nat : k < file.off =>
            Peek(d2, f2.cache, file.block, k) = Peek(disk, file.cache, file.block, k)
    BY <1>6, <1>7
<1>10. Content(d2, f2) = Content(disk, file) /\ SavedOf(d2, entry) = SavedOf(disk, entry)
    BY <1>4, <1>7, <1>8, <1>9, TipWrites
<1> QED BY <1>3, <1>10

LEMMA DrainBadShows ==
    ASSUME Sound(disk, entry, file, todo), DrainBad
    PROVE  /\ Content(disk', file') = Content(disk, file)
           /\ SavedOf(disk', entry') = SavedOf(disk, entry)
<1> DEFINE c == file.cache
           b == file.block
           d2 == Spoilt(disk, c, 1)
<1>1. Is(todo, "drain")
    BY DoingIs DEF DrainBad
<1>2. /\ disk \in Device(Cell) /\ file \in Handles
    BY DEF Sound
<1>3. entry' = entry /\ file' = file /\ disk' = d2 /\ c.block # NoBlock
    BY DEF DrainBad
<1>4. file.writing /\ ~file.inline
    BY <1>1, DrainFacts
<1>5. /\ b \in Blocks
      /\ c \in [block : {b}, off : Nat, data : Seq(Cell)]
      /\ c.data # <<>>
      /\ c.off + Len(c.data) = file.off
    BY <1>1, <1>3, DrainFacts
<1>6. file.off \in Nat /\ file.off <= BlockSize /\ BlockSize \in Nat /\ CacheSize \in Nat
    BY <1>2, HandleType, Bounds
<1> HIDE DEF c, b
<1>7. /\ Same(disk, d2, b)
      /\ \A k \in 0 .. BlockSize - 1 : k < file.off => Peek(d2, c, b, k) = Peek(disk, c, b, k)
    <2> DEFINE j == 1
               c2 == IF j = 1 THEN c ELSE Kept(c, j - 1)
    <2>1. j \in Nat \ {0} /\ (j - 1) * CacheSize < Len(c.data)
        <3>1. Len(c.data) \in Nat /\ Len(c.data) > 0
            BY <1>5
        <3>2. 0 * CacheSize = 0
            BY <1>6
        <3> QED BY <3>1, <3>2
    <2>2. c2 = c /\ d2 = Spoilt(disk, c, j)
        OBVIOUS
    <2> HIDE DEF j
    <2>3. /\ Same(disk, Spoilt(disk, c, j), b)
          /\ \A k \in 0 .. BlockSize - 1 : k < c.off + Len(c.data) =>
                Peek(Spoilt(disk, c, j), c2, b, k) = Peek(disk, c, b, k)
        BY <1>2, <1>5, <2>1, SpoiltOf, Bounds
    <2> HIDE DEF c2, d2
    <2> QED BY <1>5, <2>2, <2>3
<1> HIDE DEF d2
<1>8. ASSUME NEW k \in Nat, k < file.off PROVE Peek(d2, c, b, k) = Peek(disk, c, b, k)
    <2>1. k \in 0 .. BlockSize - 1
        BY <1>6, <1>8
    <2> QED BY <1>7, <1>8, <2>1
<1>9. /\ Same(disk, d2, file.block)
      /\ \A k \in Nat : k < file.off =>
            Peek(d2, file.cache, file.block, k) = Peek(disk, file.cache, file.block, k)
    <2>1. b = file.block /\ c = file.cache
        BY DEF b, c
    <2> QED BY <1>7, <1>8, <2>1
<1>10. Sound(d2, entry, file, todo')
    BY <1>3, DrainBadKeeps
<1>11. Content(d2, file) = Content(disk, file) /\ SavedOf(d2, entry) = SavedOf(disk, entry)
    BY <1>4, <1>9, <1>10, TipWrites
<1> QED BY <1>3, <1>11

LEMMA PutBadShows ==
    ASSUME Risks = {}, Sound(disk, entry, file, todo), PutBad
    PROVE  /\ Content(disk', file') = Content(disk, file)
           /\ SavedOf(disk', entry') = SavedOf(disk, entry)
<1> DEFINE c == Filled(file.cache, file.block, file.off, SubSeq(Top.cells, 1, Chunk))
<1>1. Is(todo, "put") /\ ~file.inline /\ ~NeedsBlock
    BY DoingIs DEF PutBad
<1>2. /\ disk \in Device(Cell) /\ file \in Handles
    BY DEF Sound
<1>3. PICK j \in 1 .. Flushes(c) :
         /\ disk' = Spoilt(disk, c, j)
         /\ file' = [file EXCEPT !.cache = IF j = 1 THEN c ELSE Kept(c, j - 1)]
    BY DEF PutBad
<1>4. /\ file.writing /\ file.off < BlockSize /\ file.block \in Blocks
      /\ Chunk \in Nat /\ Chunk > 0
      /\ c \in [block : {file.block}, off : Nat, data : Seq(Cell)]
      /\ c.off + Len(c.data) = file.off + Chunk
      /\ \A d : \A k \in Nat : k < file.off =>
            Peek(d, c, file.block, k) = Peek(d, file.cache, file.block, k)
    BY <1>1, PutFacts
<1>5. file.off \in Nat /\ BlockSize \in Nat
    BY <1>2, HandleType, Bounds
<1> HIDE DEF c
<1> DEFINE d2 == Spoilt(disk, c, j)
           c2 == IF j = 1 THEN c ELSE Kept(c, j - 1)
           f2 == [file EXCEPT !.cache = c2]
<1>6. /\ Same(disk, d2, file.block)
      /\ \A k \in 0 .. BlockSize - 1 :
            k < c.off + Len(c.data) => Peek(d2, c2, file.block, k) = Peek(disk, c, file.block, k)
    <2>1. Len(c.data) \in Nat
        BY <1>4
    <2>2. j \in Nat \ {0} /\ (j - 1) * CacheSize < Len(c.data)
        BY <2>1, FlushNo
    <2> DEFINE b == file.block
    <2>3. b \in Blocks /\ c \in [block : {b}, off : Nat, data : Seq(Cell)]
        BY <1>4
    <2> HIDE DEF b
    <2>4. Same(disk, d2, b)
        BY <1>2, <2>2, <2>3, SpoiltOf, Bounds
    <2>5. \A k \in 0 .. BlockSize - 1 :
             k < c.off + Len(c.data) => Peek(d2, c2, b, k) = Peek(disk, c, b, k)
        BY <1>2, <2>2, <2>3, SpoiltOf, Bounds
    <2> HIDE DEF d2, c2
    <2> QED BY <2>4, <2>5 DEF b
<1>7. disk' = d2 /\ file' = f2 /\ entry' = entry
    BY <1>3 DEF PutBad
<1> HIDE DEF d2, c2
<1>8. ASSUME NEW k \in Nat, k < file.off
      PROVE  Peek(d2, c2, file.block, k) = Peek(disk, file.cache, file.block, k)
    <2>1. k \in 0 .. BlockSize - 1
        BY <1>4, <1>5, <1>8
    <2>2. k < c.off + Len(c.data)
        <3> DEFINE x == c.off + Len(c.data)
                   q == Chunk
        <3>1. x = file.off + q /\ q \in Nat
            BY <1>4
        <3> HIDE DEF x, q
        <3>2. k < x
            BY <1>5, <1>8, <3>1
        <3> QED BY <3>2 DEF x
    <2> QED BY <1>4, <1>6, <1>8, <2>1, <2>2
<1>9. /\ f2.pos = file.pos /\ f2.size = file.size /\ f2.off = file.off /\ f2.head = file.head
      /\ f2.writing /\ ~f2.inline /\ f2.cache = c2 /\ f2.block = file.block
    BY <1>1, <1>2, <1>4 DEF Handles
<1> HIDE DEF f2
<1>10. Sound(d2, entry, f2, todo')
    BY <1>7, PutBadKeeps
<1>11. /\ Same(disk, d2, file.block)
       /\ \A k \in Nat : k < file.off =>
             Peek(d2, f2.cache, file.block, k) = Peek(disk, file.cache, file.block, k)
    BY <1>6, <1>8, <1>9
<1>12. Content(d2, f2) = Content(disk, file) /\ SavedOf(d2, entry) = SavedOf(disk, entry)
    BY <1>1, <1>4, <1>9, <1>10, <1>11, TipWrites
<1> QED BY <1>7, <1>12

LEMMA RelocateBadShows ==
    ASSUME Sound(disk, entry, file, todo), NEW b \in Blocks, RelocateBad(b)
    PROVE  /\ Content(disk', file') = Content(disk, file)
           /\ SavedOf(disk', entry') = SavedOf(disk, entry)
<1>1. Is(todo, "relocate")
    BY DoingIs DEF RelocateBad
<1>2. /\ disk \in Device(Cell) /\ file \in Handles
    BY DEF Sound
<1>3. b \in Free /\ disk' = Erased(disk, b) /\ entry' = entry /\ file' = file
    BY DEF RelocateBad
<1>4. Erased(disk, b) \in Device(Cell) /\ Same(disk, Erased(disk, b), b)
    BY <1>2, ErasedOf, Bounds
<1>5. ~file.inline /\ file.writing => file.pos = 0 \/ ~Unused(file)
    BY <1>1, <1>2, MovingFacts, HandleType
<1> QED BY <1>3, <1>4, <1>5, FreshWrites

LEMMA ExtendBadShows ==
    ASSUME Risks = {}, Sound(disk, entry, file, todo), NEW b \in Blocks, ExtendBad(b)
    PROVE  /\ Content(disk', file') = Content(disk, file)
           /\ SavedOf(disk', entry') = SavedOf(disk, entry)
           /\ file' = file
<1> DEFINE h == Header(Top.head, Top.size)
           c == Filled(file.cache, b, 0, h)
<1>1. Is(todo, "extend")
    BY DoingIs DEF ExtendBad
<1>2. disk \in Device(Cell) /\ file \in Handles
    BY DEF Sound
<1>3. /\ file.cache = NoCache /\ ~file.inline
      /\ file.writing => ~Unused(file)
    BY <1>1, ExtendFacts
<1>4. entry' = entry /\ b \in Free
    BY DEF ExtendBad
<1>5. file' = file
    <2>1. file' = [file EXCEPT !.cache = NoCache]
        BY DEF ExtendBad
    <2>2. [file EXCEPT !.cache = file.cache] = file
        BY <1>2 DEF Handles
    <2> QED BY <1>3, <2>1, <2>2
<1>6. disk' \in Device(Cell)
    BY ExtendBadKeeps DEF Sound
<1>7. Same(disk, disk', b)
    <2> DEFINE e1 == Erased(disk, b)
    <2>1. disk' = e1 \/ \E j \in 1 .. Flushes(c) : disk' = Spoilt(e1, c, j)
        BY Zenon DEF ExtendBad
    <2>2. e1 \in Device(Cell) /\ Same(disk, e1, b)
        BY <1>2, ErasedOf, Bounds
    <2>3. c.block = b
        BY DEF Filled
    <2> HIDE DEF e1, c
    <2>4. ASSUME NEW j PROVE Same(e1, Spoilt(e1, c, j), b)
        BY <2>2, <2>3 DEF Same, Spoilt, Written, Device
    <2> QED BY <2>1, <2>2, <2>4 DEF Same
<1> DEFINE d2 == disk'
<1>8. d2 \in Device(Cell) /\ Same(disk, d2, b)
    BY <1>6, <1>7
<1> HIDE DEF d2
<1>9. Content(d2, file) = Content(disk, file) /\ SavedOf(d2, entry) = SavedOf(disk, entry)
    BY <1>3, <1>4, <1>8, FreshWrites
<1> QED BY <1>4, <1>5, <1>9 DEF d2

\* A block is copied to another.  Of an inline file what lies behind the position is left
\* behind: the write that follows reaches further.
LEMMA RelocateShows ==
    ASSUME Sound(disk, entry, file, todo), NEW b \in Blocks, Relocate(b)
    PROVE  /\ ~file.inline => Content(disk', file') = Content(disk, file)
           /\ file.inline =>
                 /\ file.pos <= Length(file)
                 /\ Content(disk', file') = SubSeq(Content(disk, file), 1, file.pos)
           /\ SavedOf(disk', entry') = SavedOf(disk, entry)
<1> DEFINE h == Copied
           d2 == Begun(disk, b, h)
           c2 == BegunCache(b, h)
           f2 == [file EXCEPT !.cache = c2, !.block = b, !.writing = TRUE, !.inline = FALSE]
<1>1. Is(todo, "relocate")
    BY DoingIs DEF Relocate
<1>2. /\ disk \in Device(Cell) /\ entry \in Entries \union {Absent} /\ EntryOK(disk, entry)
      /\ file \in Handles
    BY DEF Sound
<1>3. /\ file.pos \in Nat /\ file.off \in Nat /\ file.off <= BlockSize /\ BlockSize \in Nat
      /\ file.size \in Nat /\ InlineMax \in Nat /\ InlineMax < BlockSize /\ InlineMax <= CacheSize
      /\ file.pos <= Reach /\ CacheSize \in Nat
    BY <1>2, HandleType, Bounds
<1>4. h \in Seq(Cell) /\ Len(h) = file.off
    BY <1>1, CopiedOf
<1>5. file.off = 0 <=> h = <<>>
    <2> HIDE DEF h
    <2> QED BY <1>3, <1>4
<1>6. b \in Free /\ entry' = entry
    BY DEF Relocate
<1>7. disk' = d2 /\ file' = f2
    BY Zenon, <1>5 DEF Relocate, Begun, BegunCache
<1>8. /\ Moving(todo, file) /\ ~file.reading
      /\ file.inline => file.off = file.pos /\ file.pos <= InlineMax /\ InlineOK(file)
      /\ ~file.inline => file.writing /\ (file.pos > 0 => ~Unused(file))
    BY <1>1, MovingFacts
<1>9. /\ file.inline => \A k \in 1 .. file.pos : h[k] = file.cache.data[k]
      /\ ~file.inline => \A k \in 1 .. file.off : h[k] = Peek(disk, file.cache, file.block, k - 1)
    <2>1. file.inline => Len(file.cache.data) = CacheSize /\ file.off = file.pos /\ file.pos <= CacheSize
        BY <1>3, <1>8 DEF InlineOK
    <2> QED BY <1>3, <2>1 DEF Copied
<1> HIDE DEF h
<1>10. /\ Same(disk, d2, b)
       /\ \A k \in 0 .. Len(h) - 1 : Peek(d2, c2, b, k) = h[k + 1]
    BY <1>2, <1>3, <1>4, BegunOf, Bounds
<1> HIDE DEF d2, c2
<1>11. /\ f2.pos = file.pos /\ f2.size = file.size /\ f2.off = file.off
       /\ f2.writing /\ ~f2.reading /\ ~f2.inline
       /\ f2.head = file.head /\ f2.cache = c2 /\ f2.block = b
    BY <1>2, <1>8 DEF Handles
<1> HIDE DEF f2
<1>12. Sound(d2, entry, f2, todo')
    BY <1>6, <1>7, RelocateKeeps
<1>13. SavedOf(d2, entry) = SavedOf(disk, entry)
    BY <1>2, <1>6, <1>10, FreshOf, SavedKept
<1>14. ASSUME ~file.inline PROVE Content(d2, f2) = Content(disk, file)
    <2>1. file.writing
        BY <1>8, <1>14
    <2>2. NeedsOld(file) => b \notin OldBlocks(disk, file)
        BY <1>6, <1>14, FreshOf
    <2>3. file.pos > 0 => b \notin ListBlocks(disk, file.cache, file.block, TipSize(file))
        BY <1>6, <1>8, <1>14, FreshOf
    <2>4. \A k \in Nat : k < file.off =>
             Peek(d2, f2.cache, f2.block, k) = Peek(disk, file.cache, file.block, k)
        <3>1. SUFFICES ASSUME NEW k \in Nat, k < file.off
                       PROVE  Peek(d2, c2, b, k) = Peek(disk, file.cache, file.block, k)
            BY <1>11
        <3>2. k \in 0 .. Len(h) - 1 /\ k + 1 \in 1 .. file.off /\ (k + 1) - 1 = k
            BY <1>3, <1>4, <3>1
        <3> QED BY Zenon, <1>9, <1>10, <1>14, <3>2
    <2>5. /\ Same(disk, d2, b)
          /\ f2.block = b
          /\ file.pos > 0 =>
              /\ f2.block = file.block
                 \/ f2.block \notin ListBlocks(disk, file.cache, file.block, TipSize(file))
              /\ b = file.block
                 \/ b \notin ListBlocks(disk, file.cache, file.block, TipSize(file))
        BY <1>10, <1>11, <2>3
    <2> QED BY <1>11, <1>12, <1>14, <2>1, <2>2, <2>4, <2>5, ContentKept
<1>15. ASSUME file.inline
       PROVE  file.pos <= Length(file) /\ Content(d2, f2) = SubSeq(Content(disk, file), 1, file.pos)
    <2> DEFINE V == Content(disk, file)
               W == Content(d2, f2)
               u == SubSeq(V, 1, file.pos)
    <2>1. file.pos <= Length(file)
        <3>1. CASE file.writing
            BY <3>1, LengthIs
        <3>2. CASE ~file.writing
            <4>1. file.pos = file.size \/ Starting(file)
                BY <1>8, <1>15 DEF Moving
            <4>2. file.pos <= file.size
                BY <1>3, <3>2, <4>1 DEF Starting
            <4> QED BY <3>2, <4>2, LengthIs
        <3> QED BY <3>1, <3>2
    <2>2. Length(f2) = file.pos
        BY <1>8, <1>11, <1>15 DEF Length, InlineOK
    <2>3. /\ V \in Seq(Cell) /\ Len(V) = Length(file) /\ Length(file) \in Nat
          /\ \A p \in 1 .. Length(file) : V[p] = CellAt(disk, file, p)
        BY ContentIs, LengthIs
    <2>4. /\ W \in Seq(Cell) /\ Len(W) = file.pos
          /\ \A p \in 1 .. file.pos : W[p] = CellAt(d2, f2, p)
        BY <1>12, <2>2, ContentIs
    <2> HIDE DEF V, W
    <2>5. u \in Seq(Cell) /\ Len(u) = file.pos /\ \A p \in 1 .. file.pos : u[p] = V[p]
        BY <1>3, <2>1, <2>3
    <2> HIDE DEF u
    <2>6. ASSUME NEW p \in 1 .. file.pos PROVE CellAt(d2, f2, p) = CellAt(disk, file, p)
        <3> DEFINE q == p - 1
                   t == TipSize(f2)
        <3>1. q \in Nat /\ q < file.pos /\ q < BlockSize /\ q <= Reach /\ q + 1 = p
              /\ file.pos < BlockSize /\ p <= file.pos
            BY <1>3, <1>8, <1>15, Bounds
        <3>2. CellAt(disk, file, p) = file.cache.data[p]
            BY <1>15 DEF CellAt
        <3>3. CellAt(d2, f2, p) = CellOf(d2, c2, b, t, p)
            BY <1>11, <3>1, OldCellIs DEF CellAt
        <3>4. t = file.pos + 1 /\ (file.pos + 1) - 1 = file.pos
            BY <1>3, <1>8, <1>11, <1>15, <3>1 DEF TipSize
        <3>5. Place[file.pos].index = 0
            <4>1. Place[file.pos] = [index |-> 0, off |-> file.pos]
                BY <1>3, <3>1, PlaceFirst
            <4> QED BY <4>1
        <3>6. LastNo(t) = 0
            BY <3>4, <3>5 DEF LastNo
        <3>7. TipOK(d2, entry, f2) /\ f2 \in Handles
            BY <1>11, <1>12, SoundHandle DEF Sound
        <3>8. IsSize(t) /\ IsList(d2, c2, b, t)
            BY <1>11, <3>7, TipFacts DEF TipOK
        <3> HIDE DEF q, t
        <3>9. Block(d2, c2, b, t, 0) = b
            BY <3>6, <3>8, ListFacts
        <3>10. Place[q] = [index |-> 0, off |-> q]
            BY <3>1, PlaceFirst
        <3>11. CellOf(d2, c2, b, t, p) = Peek(d2, c2, b, q)
            BY <3>9, <3>10 DEF CellOf, q
        <3>12. q \in 0 .. Len(h) - 1
            BY <1>3, <1>4, <1>8, <1>15, <3>1
        <3>13. Peek(d2, c2, b, q) = h[p]
            BY <1>10, <3>1, <3>12
        <3> QED BY <1>9, <1>15, <3>2, <3>3, <3>11, <3>13
    <2>7. ASSUME NEW p \in 1 .. file.pos PROVE p \in 1 .. Length(file)
        BY <1>3, <2>1, <2>3
    <2>8. \A p \in 1 .. Len(W) : W[p] = u[p]
        BY <2>3, <2>4, <2>5, <2>6, <2>7
    <2>9. W = u
        BY <2>4, <2>5, <2>8, SeqSame
    <2> QED BY <2>1, <2>9 DEF W, u, V
<1> QED BY <1>6, <1>7, <1>13, <1>14, <1>15

\* The block that is put in front, or that takes the place of the last one, shows all that
\* the list did.
LEMMA ExtendCells ==
    ASSUME Sound(disk, entry, file, todo), Is(todo, "extend"), NEW b \in Free,
           NEW h, h = Header(Top.head, Top.size),
           NEW d2, NEW c2, Same(disk, d2, b), c2 = NoCache \/ c2.block = b,
           \A k \in 0 .. Len(h) - 1 : Peek(d2, c2, b, k) = h[k + 1],
           NEW s2, s2 = file.pos + 1, IsList(d2, c2, b, s2), LastNo(s2) > 0 => Len(h) > 0,
           NEW p \in 1 .. file.pos
    PROVE  CellOf(d2, c2, b, s2, p) = CellOf(disk, NoCache, Top.head, file.pos, p)
<1> DEFINE q == file.pos
           hd == Top.head
           m == Top.size
           L == ListBlocks(disk, NoCache, hd, q)
           last == CtzIndex(m - 1)
<1>1. file \in Handles
    BY DEF Sound
<1>2. /\ q \in Nat /\ q > 0 /\ q <= MaxSize /\ MaxSize \in Nat /\ MaxSize <= Reach /\ Reach \in Nat
      /\ BlockSize \in Nat
    BY <1>1, HandleType, Bounds
<1>3. /\ m \in Nat /\ m <= MaxSize
      /\ hd \in Blocks /\ IsList(disk, NoCache, hd, q) /\ b \notin L
      /\ m # 0 /\ Place[m - 1].off = Place[q - 1].off
      /\ Place[q - 1].off = BlockSize - 1 => m = q
    <2>1. /\ ExtendOK(disk, file, Top) /\ Top.size \in Nat /\ Top.size <= MaxSize
          /\ file.pos > 0 => /\ Top.head \in Blocks
                             /\ IsList(disk, NoCache, Top.head, file.pos)
                             /\ b \notin ListBlocks(disk, NoCache, Top.head, file.pos)
        BY ExtendFacts
    <2> QED BY <1>2, <2>1 DEF ExtendOK
<1>4. /\ h \in Seq(Cell) /\ Len(h) = Place[q].off /\ Len(h) < BlockSize
      /\ last.off + 1 = BlockSize => h[1] = hd
    BY <1>2, HeaderOf
<1>5. last = Place[m - 1] /\ last.off = Place[q - 1].off
    <2>1. m - 1 \in Nat /\ m - 1 <= Reach
        BY <1>2, <1>3
    <2> QED BY <1>3, <2>1, PlaceType
<1>6. h = IF last.off + 1 # BlockSize
          THEN [k \in 1 .. last.off + 1 |-> Peek(disk, NoCache, hd, k - 1)]
          ELSE NewPointers(disk, hd, last.index + 1)
    BY <1>3 DEF Header
<1> DEFINE r == q - 1
<1>7. /\ r \in Nat /\ r + 1 = q /\ r <= Reach /\ q <= Reach /\ s2 = q + 1 /\ s2 - 1 = q
      /\ IsSize(q) /\ IsSize(s2)
    BY <1>2 DEF IsSize
<1>8. LastNo(q) = Place[r].index /\ LastNo(s2) = Place[q].index
    BY <1>7 DEF LastNo
<1>9. /\ Place[r].off \in Nat /\ Place[r].off < BlockSize /\ Place[r].index \in Nat
      /\ Place[q].off \in Nat
    BY Zenon, <1>2, <1>7, PlaceType
<1>10. \A x \in L : /\ x \in Blocks /\ x # b
                    /\ \A k \in Nat : Peek(d2, c2, x, k) = Peek(disk, NoCache, x, k)
    <2>1. SUFFICES ASSUME NEW x \in L
                   PROVE  /\ x \in Blocks /\ x # b
                          /\ \A k \in Nat : Peek(d2, c2, x, k) = Peek(disk, NoCache, x, k)
        OBVIOUS
    <2>2. x \in Blocks
        <3> HIDE DEF q, hd
        <3>1. L \subseteq Blocks
            BY <1>3, <1>7, ListInBlocks
        <3> QED BY <2>1, <3>1
    <2>3. x # b
        BY <1>3, <2>1
    <2>4. NoCache.block # x /\ c2.block # x
        BY <2>2, <2>3, NoCacheIs, Bounds
    <2>5. d2[x] = disk[x]
        BY <2>2, <2>3 DEF Same
    <2>6. ASSUME NEW k \in Nat PROVE Peek(d2, c2, x, k) = Peek(disk, NoCache, x, k)
        BY <2>4, <2>5, PeekElsewhere
    <2> QED BY <2>2, <2>3, <2>6
<1>11. p \in 1 .. q /\ b \in Blocks
    BY DEF Free
<1>12. /\ IsSize(q) /\ IsList(disk, NoCache, hd, q) /\ IsSize(s2) /\ IsList(d2, c2, b, s2)
       /\ b \notin ListBlocks(disk, NoCache, hd, q)
       /\ \A x \in ListBlocks(disk, NoCache, hd, q) :
             \A k \in Nat : Peek(d2, c2, x, k) = Peek(disk, NoCache, x, k)
    BY <1>3, <1>7, <1>10
<1> HIDE DEF q, hd, m, L, last, r
<1>13. CASE Place[r].off = BlockSize - 1
    <2>1. last.off + 1 = BlockSize /\ ~(Place[r].off + 1 < BlockSize)
        BY <1>2, <1>5, <1>9, <1>13 DEF r
    <2>2. LastNo(s2) = LastNo(q) + 1
        <3>1. Place[r + 1].index = Place[r].index + 1
            BY <1>2, <1>7, <1>13, <2>1, PlaceNext
        <3> QED BY <1>7, <1>8, <3>1
    <2>3. Peek(d2, c2, b, 0) = hd
        <3>1. LastNo(s2) > 0
            BY <1>8, <1>9, <2>2
        <3>2. 0 \in 0 .. Len(h) - 1
            BY <1>4, <1>9, <3>1
        <3> QED BY <1>4, <2>1, <3>2
    <2>4. CellOf(d2, c2, b, s2, p) = CellOf(disk, NoCache, hd, q, p)
        BY <1>11, <1>12, <2>2, <2>3, CellsBehind
    <2> QED BY <2>4 DEF hd, q
<1>14. CASE Place[r].off # BlockSize - 1
    <2>1. last.off + 1 # BlockSize /\ Place[r].off + 1 < BlockSize /\ last.off \in Nat
          /\ last.off + 1 < BlockSize
        BY <1>2, <1>5, <1>9, <1>14 DEF r
    <2>2. LastNo(s2) = LastNo(q) /\ Place[q].off = last.off + 1
        <3>1. Place[r + 1].index = Place[r].index /\ Place[r + 1].off = Place[r].off + 1
            BY Zenon, <1>2, <1>7, <2>1, PlaceNext
        <3> QED BY <1>5, <1>7, <1>8, <3>1 DEF r
    <2> DEFINE o == Len(h)
    <2>3. o = last.off + 1 /\ o \in Nat /\ o > 0
        BY <1>4, <2>1, <2>2
    <2>4. \A k \in Nat : k < o => Peek(d2, c2, b, k) = Peek(disk, NoCache, hd, k)
        <3>1. SUFFICES ASSUME NEW k \in Nat, k < o
                       PROVE  Peek(d2, c2, b, k) = Peek(disk, NoCache, hd, k)
            OBVIOUS
        <3>2. k \in 0 .. Len(h) - 1 /\ k + 1 \in 1 .. last.off + 1 /\ (k + 1) - 1 = k
            BY <2>3, <3>1
        <3>3. h[k + 1] = Peek(disk, NoCache, hd, k)
            BY <1>6, <2>1, <3>2
        <3> QED BY <3>2, <3>3
    <2> HIDE DEF o
    <2>5. Place[p - 1].index = LastNo(q) => Place[p - 1].off < o
        <3> DEFINE i == p - 1
        <3>1. i \in Nat /\ i < q
            BY <1>7, <1>11
        <3>2. Place[q].index = LastNo(q) /\ Place[q].off = o
            BY <1>8, <2>2, <2>3
        <3> HIDE DEF i
        <3>3. Place[i].index = Place[q].index => Place[i].off < Place[q].off
            BY <1>7, <3>1, PlaceLess
        <3> QED BY <3>2, <3>3 DEF i
    <2>6. CellOf(d2, c2, b, s2, p) = CellOf(disk, NoCache, hd, q, p)
        BY <1>11, <1>12, <2>2, <2>3, <2>4, <2>5, CellsKept
    <2> QED BY <2>6 DEF hd, q
<1> QED BY <1>13, <1>14

LEMMA ExtendShows ==
    ASSUME Sound(disk, entry, file, todo), NEW b \in Blocks, Extend(b)
    PROVE  /\ Content(disk', file') = Content(disk, file)
           /\ SavedOf(disk', entry') = SavedOf(disk, entry)
<1> DEFINE h == Header(Top.head, Top.size)
           d2 == Begun(disk, b, h)
           c2 == BegunCache(b, h)
           q == file.pos
           f2 == [file EXCEPT !.block = b, !.off = Len(h), !.writing = TRUE, !.cache = c2]
<1>1. Is(todo, "extend")
    BY DoingIs DEF Extend
<1>2. /\ disk \in Device(Cell) /\ entry \in Entries \union {Absent} /\ EntryOK(disk, entry)
      /\ file \in Handles
    BY DEF Sound
<1>3. /\ ~file.inline /\ ~file.reading /\ Starting(file)
      /\ file.cache = NoCache
      /\ file.writing => file.off = BlockSize
      /\ ExtendOK(disk, file, Top)
    BY <1>1, ExtendFacts
<1>4. entry' = entry /\ disk' = d2 /\ file' = f2
    BY <1>3 DEF Extend, Begun, BegunCache
<1>5. b \in Free
    BY DEF Extend
<1>6. h \in Seq(Cell) /\ Len(h) = Place[q].off /\ Len(h) < BlockSize
    BY <1>1, HeaderOf
<1>7. h = Header(Top.head, Top.size)
    OBVIOUS
<1> HIDE DEF h
<1>8. Len(h) \in Nat /\ Len(h) <= BlockSize /\ q \in Nat /\ BlockSize \in Nat /\ file.size \in Nat
      /\ q <= MaxSize /\ file.size <= MaxSize /\ MaxSize \in Nat /\ MaxSize <= Reach /\ Reach \in Nat
    BY <1>2, <1>6, HandleType, Bounds
<1>9. /\ Same(disk, d2, b)
      /\ \A k \in 0 .. Len(h) - 1 : Peek(d2, c2, b, k) = h[k + 1]
      /\ c2 = NoCache \/ c2.block = b
    BY <1>2, <1>6, <1>8, BegunOf, Bounds
<1> HIDE DEF d2, c2
<1>10. /\ f2.pos = q /\ f2.size = file.size /\ f2.off = Len(h)
       /\ f2.writing /\ f2.inline = file.inline /\ ~f2.inline
       /\ f2.head = file.head /\ f2.cache = c2 /\ f2.block = b
    BY <1>2, <1>3 DEF Handles
<1> HIDE DEF f2
<1>11. Sound(d2, entry, f2, todo')
    BY <1>4, ExtendKeeps
<1>12. SavedOf(d2, entry) = SavedOf(disk, entry)
    BY <1>2, <1>5, <1>9, FreshOf, SavedKept
<1>13. TipOK(d2, entry, f2) /\ f2 \in Handles /\ TipSize(f2) = q + 1
    BY <1>6, <1>10, <1>11, SoundHandle DEF Sound, TipSize
<1> DEFINE s2 == q + 1
<1>14. /\ IsList(d2, c2, b, s2)
       /\ LastNo(s2) > 0 => Len(h) > 0
    <2>1. IsList(d2, f2.cache, f2.block, TipSize(f2))
        BY <1>13 DEF TipOK
    <2>2. ASSUME LastNo(TipSize(f2)) > 0 PROVE Len(h) > 0
        <3>1. LastNo(TipSize(f2)) \in Nat /\ \A k \in 0 .. Ctz[LastNo(TipSize(f2))] :
                 k \in Nat /\ PointerSize * k \in Nat /\ PointerSize * k < f2.off
            BY <1>13, <2>2, TipFacts
        <3>2. 0 \in 0 .. Ctz[LastNo(TipSize(f2))]
            BY <2>2, <3>1, CtzDef
        <3>3. PointerSize * 0 \in Nat /\ PointerSize * 0 < Len(h)
            BY <1>10, <3>1, <3>2
        <3> QED BY <1>8, <3>3
    <2> QED BY <1>10, <1>13, <2>1, <2>2
<1>15. Length(f2) = Length(file)
    <2>1. CASE file.writing
        <3>1. f2.writing = file.writing
            BY <1>2, <1>10, <2>1, HandleType
        <3> QED BY <1>10, <3>1, LengthSame
    <2>2. CASE ~file.writing
        <3>1. file.pos <= file.size /\ Length(file) = file.size /\ file.head # Inline
            BY <1>3, <2>2, LengthIs DEF Starting
        <3>2. SizeOf(f2) = file.size
            BY <1>8, <1>10, <3>1 DEF SizeOf
        <3> QED BY <1>10, <3>1, <3>2 DEF Length
    <2> QED BY <2>1, <2>2
<1>16. ASSUME NEW p \in 1 .. Length(file), p <= q
       PROVE  CellAt(d2, f2, p) = CellAt(disk, file, p)
    <2>1. p \in 1 .. file.pos /\ q > 0
        BY <1>8, <1>16
    <2>2. CellAt(d2, f2, p) = CellOf(d2, c2, b, s2, p)
        BY <1>10, <1>13, <1>16, OldCellIs DEF CellAt
    <2>3. CellOf(d2, c2, b, s2, p) = CellOf(disk, NoCache, Top.head, q, p)
        <3> HIDE DEF s2
        <3>1. s2 = file.pos + 1
            BY DEF s2
        <3> QED BY <1>1, <1>5, <1>7, <1>9, <1>14, <2>1, <3>1, ExtendCells
    <2>4. CASE file.writing
        <3>1. Top.head = file.block
            BY <1>3, <2>4 DEF ExtendOK
        <3>2. TipSize(file) = q
            BY <1>3, <1>8, <2>4 DEF TipSize
        <3>3. CellAt(disk, file, p) = CellOf(disk, NoCache, file.block, q, p)
            BY <1>3, <1>16, <2>4, <3>2, OldCellIs DEF CellAt
        <3> QED BY <2>2, <2>3, <3>1, <3>3
    <2>5. CASE ~file.writing
        <3> DEFINE hd == file.head
                   n == file.size
        <3>1. Top.head = Block(disk, NoCache, hd, n, LastNo(q))
            BY <1>3, <2>1, <2>5 DEF ExtendOK, LastNo
        <3>2. q \in 1 .. n /\ IsSize(n) /\ IsList(disk, NoCache, hd, n)
            <4>1. q <= n
                BY <1>3, <2>5 DEF Starting
            <4>2. IsList(disk, NoCache, hd, n)
                BY <1>3, <2>5, LengthIs, SoundHandle DEF OldOK, NeedsOld
            <4> QED BY <1>8, <2>1, <4>1, <4>2, SizeIs
        <3>3. CellAt(disk, file, p) = CellOf(disk, NoCache, hd, n, p)
            BY <1>3, <2>5, OldCellIs DEF CellAt
        <3> HIDE DEF hd, n
        <3>4. CellOf(disk, NoCache, Top.head, q, p) = CellOf(disk, NoCache, hd, n, p)
            BY <2>1, <3>1, <3>2, CellsTo
        <3> QED BY <2>2, <2>3, <3>3, <3>4
    <2> QED BY <2>4, <2>5
<1>17. ASSUME NEW p \in 1 .. Length(file), ~(p <= q)
       PROVE  CellAt(d2, f2, p) = CellAt(disk, file, p)
    <2>1. NeedsOld(file) => b \notin OldBlocks(disk, file)
        BY <1>3, <1>5, FreshOf
    <2>2. ~(file.writing /\ p <= file.pos)
        BY <1>17
    <2>3. OldCell(d2, f2, p) = OldCell(disk, file, p)
        BY <1>3, <1>9, <1>10, <2>1, <2>2, OldSame
    <2> QED BY <1>3, <1>10, <1>17, <2>3 DEF CellAt
<1>18. \A p \in 1 .. Length(file) : CellAt(d2, f2, p) = CellAt(disk, file, p)
    BY <1>16, <1>17
<1>19. Content(d2, f2) = Content(disk, file)
    BY <1>15, <1>18, ContentSame
<1> QED BY <1>4, <1>12, <1>19

\* The cells that are written are seen at once, in the cache or on the device.
LEMMA PutSees ==
    ASSUME Sound(disk, entry, file, todo), Is(todo, "put"), ~file.inline, ~NeedsBlock
    PROVE  LET t == SubSeq(Top.cells, 1, Chunk)
               c == Filled(file.cache, file.block, file.off, t)
           IN  /\ t \in Seq(Cell) /\ Len(t) = Chunk
               /\ \A d : \A j \in 1 .. Chunk : Peek(d, c, file.block, (file.off + j) - 1) = t[j]
<1> DEFINE fc == file.cache
           b == file.block
           o == file.off
           cells == Top.cells
           m == Chunk
           t == SubSeq(cells, 1, m)
           c == Filled(fc, b, o, t)
<1>1. file \in Handles /\ todo \in Seq(CallSteps)
    BY DEF Sound
<1>2. /\ Top = todo[1] /\ Putting(todo, file) /\ file.writing /\ b \in Blocks
      /\ m \in Nat /\ m > 0 /\ m <= Len(cells) /\ Len(cells) \in Nat
    BY PutFacts
<1>3. cells \in Seq(Cell)
    BY <1>1, <1>2, PutBounds
<1>4. o \in Nat /\ fc.data \in Seq(Cell)
    BY <1>1, HandleType
<1>5. Follows_(fc, b, o)
    <2>1. CacheOK(file, todo) /\ ~Is(todo, "relocate")
        BY <1>2, SoundHandle DEF Is
    <2> QED BY <1>1, <2>1, HandleType DEF CacheOK, Follows_
<1> HIDE DEF fc, b, o, cells, m
<1>6. t \in Seq(Cell) /\ Len(t) = m
    <2>1. \A i \in 1 .. m : cells[i] \in Cell
        BY <1>2, <1>3
    <2>2. 1 \in Int /\ m \in Int /\ 1 <= m /\ m - 1 + 1 = m
        BY <1>2
    <2> QED BY <2>1, <2>2, SubSeqProperties
<1> HIDE DEF t
<1>7. \A d : \A j \in Nat : Peek(d, c, b, j) = IF j \in o .. o + Len(t) - 1 THEN t[j - o + 1]
                                               ELSE Peek(d, fc, b, j)
    BY <1>2, <1>4, <1>5, <1>6, FilledOf
<1> HIDE DEF c
<1>8. ASSUME NEW d, NEW j \in 1 .. m PROVE Peek(d, c, b, (o + j) - 1) = t[j]
    <2> DEFINE k == (o + j) - 1
    <2>1. k \in Nat /\ k \in o .. o + Len(t) - 1 /\ (k - o) + 1 = j
        BY <1>2, <1>4, <1>6
    <2> HIDE DEF k
    <2>2. Peek(d, c, b, k) = t[k - o + 1]
        BY <1>7, <2>1
    <2> QED BY <2>1, <2>2 DEF k
<1> QED BY <1>6, <1>8 DEF t, c, m, b, o, fc, cells

LEMMA PutShows ==
    ASSUME Sound(disk, entry, file, todo), Put
    PROVE  LET t == SubSeq(Top.cells, 1, Chunk)
           IN  /\ t \in Seq(Cell) /\ Len(t) = Chunk
               /\ Content(disk', file') = Promise!Put(Content(disk, file), file.pos, t)
               /\ SavedOf(disk', entry') = SavedOf(disk, entry)
<1> DEFINE t == SubSeq(Top.cells, 1, Chunk)
           c == Filled(file.cache, file.block, file.off, t)
           n == Flushes(c)
           more == SubSeq(Top.cells, Chunk + 1, Len(Top.cells))
           d2 == Written(disk, c, n * CacheSize)
           c2 == Kept(c, n)
           m == Chunk
           e == file.erred /\ more # <<>>
           q == file.pos
           o == file.off
           b == file.block
           f2 == [file EXCEPT !.cache = c2, !.pos = @ + m, !.off = @ + m, !.erred = e]
<1>1. Is(todo, "put") /\ ~file.inline /\ ~NeedsBlock
    BY DoingIs DEF Put
<1>2. /\ disk \in Device(Cell) /\ entry \in Entries \union {Absent} /\ EntryOK(disk, entry)
      /\ file \in Handles
    BY DEF Sound
<1>3. entry' = entry /\ disk' = d2 /\ file' = f2
    <2>1. file' = f2
        BY <1>2 DEF Put, Handles
    <2> QED BY <2>1 DEF Put
<1>4. /\ file.writing /\ o < BlockSize /\ b \in Blocks
      /\ m \in Nat /\ m > 0
      /\ o + m <= BlockSize /\ q + m <= MaxSize
      /\ c \in [block : {b}, off : Nat, data : Seq(Cell)]
      /\ \A d : \A k \in Nat : k < o => Peek(d, c, b, k) = Peek(d, file.cache, b, k)
    BY <1>1, PutFacts
<1>5. /\ t \in Seq(Cell) /\ Len(t) = m
      /\ \A d : \A j \in 1 .. m : Peek(d, c, b, (o + j) - 1) = t[j]
    BY Zenon, <1>1, PutSees
<1>6. /\ q \in Nat /\ q <= MaxSize /\ file.size \in Nat /\ o \in Nat /\ BlockSize \in Nat
      /\ MaxSize \in Nat /\ MaxSize <= Reach /\ Reach \in Nat
    BY <1>2, HandleType, Bounds
<1> HIDE DEF t, c
<1>7. /\ \A x \in Blocks : x # b => d2[x] = disk[x]
      /\ \A j \in 0 .. BlockSize - 1 : Peek(d2, c2, b, j) = Peek(disk, c, b, j)
    BY <1>2, <1>4, FlushedOf
<1> HIDE DEF d2, c2
<1>8. TipOK(disk, entry, file) /\ CacheOK(file, todo)
    BY <1>1, <1>4, SoundHandle
<1>9. Place[q].off = o
    BY <1>4, <1>8 DEF TipOK
<1>10. /\ f2.pos = q + m /\ f2.size = file.size /\ f2.off = o + m
       /\ f2.writing = file.writing /\ f2.writing /\ f2.inline = file.inline
       /\ f2.head = file.head /\ f2.cache = c2 /\ f2.block = b
    BY Zenon, <1>2, <1>4 DEF Handles
<1> HIDE DEF f2, m
<1>11. Sound(d2, entry, f2, todo')
    BY <1>3, PutKeeps
<1>12. TipOK(d2, entry, f2) /\ CacheOK(f2, todo') /\ f2 \in Handles
    BY <1>1, <1>10, <1>11, SoundHandle DEF Sound
<1>13. Same(disk, d2, b)
    BY <1>7 DEF Same
<1>14. SavedOf(d2, entry) = SavedOf(disk, entry)
    <2>1. Listed(entry) => b \notin BlocksOfEntry(disk, entry)
        BY <1>8 DEF TipOK
    <2> QED BY <1>2, <1>13, <2>1, SavedKept
<1> HIDE DEF q, o, b
<1>15. /\ q + m <= Reach
       /\ \A j \in 1 .. m : /\ Place[(q + j) - 1].index = Place[q].index
                            /\ Place[(q + j) - 1].off = (o + j) - 1
       /\ o + m < BlockSize => Place[q + m].index = Place[q].index
    <2>1. q + m <= Reach
        BY <1>4, <1>6
    <2>2. ASSUME NEW j \in 1 .. m
          PROVE  /\ Place[(q + j) - 1].index = Place[q].index
                 /\ Place[(q + j) - 1].off = (o + j) - 1
                 /\ o + j < BlockSize => Place[q + j].index = Place[q].index
        <3>1. j \in Nat /\ j > 0 /\ q + j <= Reach /\ o + j <= BlockSize
            BY <1>4, <1>6, <2>1
        <3> QED BY <1>4, <1>6, <1>9, <3>1, TipGrows
    <2>3. m \in 1 .. m
        BY <1>4
    <2> QED BY <2>1, <2>2, <2>3
<1>16. LastNo(TipSize(file)) = Place[q].index /\ LastNo(TipSize(f2)) = Place[q].index
    <2>1. TipSize(file) = q + 1 /\ (q + 1) - 1 = q
        BY <1>4, <1>6 DEF TipSize, q, o
    <2>2. CASE o + m < BlockSize
        <3>1. TipSize(f2) = (q + m) + 1 /\ ((q + m) + 1) - 1 = q + m
            BY <1>4, <1>6, <1>10, <2>2 DEF TipSize
        <3> QED BY <1>15, <2>1, <2>2, <3>1 DEF LastNo
    <2>3. CASE ~(o + m < BlockSize)
        <3>1. TipSize(f2) = q + m /\ m \in 1 .. m
            BY <1>4, <1>10, <2>3 DEF TipSize
        <3> QED BY <1>15, <2>1, <3>1 DEF LastNo
    <2> QED BY <2>2, <2>3
<1> DEFINE V == Content(disk, file)
           W == Content(d2, f2)
<1>17. /\ V \in Seq(Cell) /\ Len(V) = Length(file) /\ Length(file) \in Nat
       /\ \A p \in 1 .. Length(file) : V[p] = CellAt(disk, file, p)
       /\ W \in Seq(Cell) /\ Len(W) = Length(f2)
       /\ \A p \in 1 .. Length(f2) : W[p] = CellAt(d2, f2, p)
       /\ q <= Length(file) /\ q + m <= Length(f2)
    BY <1>4, <1>10, <1>11, ContentIs, LengthIs DEF q
<1>18. Length(f2) = IF Length(file) > q + m THEN Length(file) ELSE q + m
    <2>1. SizeOf(file) = IF q >= file.size THEN q ELSE file.size
        BY <1>4 DEF SizeOf, q
    <2>2. SizeOf(f2) = IF q + m >= file.size THEN q + m ELSE file.size
        BY <1>10 DEF SizeOf
    <2>3. Length(file) = IF file.head = Inline THEN q ELSE SizeOf(file)
        BY <1>1 DEF Length, q
    <2>4. Length(f2) = IF file.head = Inline THEN q + m ELSE SizeOf(f2)
        BY <1>1, <1>10 DEF Length
    <2> QED BY <1>4, <1>6, <2>1, <2>2, <2>3, <2>4
<1> HIDE DEF V, W
<1>19. ASSUME NEW p \in 1 .. Length(f2), p > q, p <= q + m
       PROVE  W[p] = t[p - q]
    <2> DEFINE j == p - q
    <2>1. j \in 1 .. m /\ q + j = p
        BY <1>4, <1>6, <1>17, <1>19
    <2> HIDE DEF j
    <2>2. /\ Place[p - 1].index = LastNo(TipSize(f2)) /\ Place[p - 1].off = (o + j) - 1
        BY <1>15, <1>16, <2>1
    <2>3. W[p] = CellOf(d2, c2, b, TipSize(f2), p)
        BY <1>1, <1>10, <1>17, <1>19, OldCellIs DEF CellAt
    <2>4. Block(d2, c2, b, TipSize(f2), LastNo(TipSize(f2))) = b
        <3> DEFINE s2 == TipSize(f2)
        <3>1. IsSize(s2) /\ IsList(d2, c2, b, s2)
            BY <1>10, <1>12, TipFacts DEF TipOK
        <3> HIDE DEF s2
        <3> QED BY <3>1, ListFacts DEF s2
    <2>5. W[p] = Peek(d2, c2, b, (o + j) - 1)
        BY <2>2, <2>3, <2>4 DEF CellOf
    <2>6. (o + j) - 1 \in 0 .. BlockSize - 1
        BY <1>4, <1>6, <2>1
    <2> QED BY <1>5, <1>7, <2>1, <2>5, <2>6 DEF j
<1>20. ASSUME NEW p \in 1 .. Length(f2), p <= q
       PROVE  W[p] = V[p]
    <2>1. p \in 1 .. file.pos /\ p \in 1 .. Length(file) /\ p <= q + m
        BY <1>4, <1>6, <1>17, <1>20 DEF q
    <2>2. \A k \in Nat : k < file.off =>
             Peek(d2, f2.cache, f2.block, k) = Peek(disk, file.cache, file.block, k)
        <3>1. SUFFICES ASSUME NEW k \in Nat, k < o
                       PROVE  Peek(d2, c2, b, k) = Peek(disk, file.cache, b, k)
            BY <1>10 DEF o, b
        <3>2. k \in 0 .. BlockSize - 1
            BY <1>4, <1>6, <3>1
        <3> QED BY <1>4, <1>7, <3>1, <3>2
    <2>3. /\ f2.block = file.block /\ Same(disk, d2, b) /\ b = file.block
          /\ LastNo(TipSize(f2)) = LastNo(TipSize(file))
        BY <1>10, <1>13, <1>16 DEF b
    <2>4. /\ file.cache = NoCache \/ file.cache.block = file.block
          /\ f2.cache = NoCache \/ f2.cache.block = f2.block
        BY <1>8, <1>12 DEF CacheOK
    <2>5. NewCell(d2, f2, p) = NewCell(disk, file, p)
        BY <1>2, <1>8, <1>12, <2>1, <2>2, <2>3, <2>4, NewKept
    <2>6. W[p] = NewCell(d2, f2, p)
        BY <1>1, <1>10, <1>17, <2>1 DEF CellAt
    <2>7. V[p] = NewCell(disk, file, p)
        BY <1>1, <1>4, <1>17, <2>1 DEF CellAt
    <2> QED BY <2>5, <2>6, <2>7
<1>21. ASSUME NEW p \in 1 .. Length(f2), p > q + m
       PROVE  p <= Length(file) /\ W[p] = V[p]
    <2>1. p \in 1 .. Length(file) /\ ~(p <= q)
        BY <1>4, <1>6, <1>17, <1>18, <1>21
    <2>2. NeedsOld(file) => b \notin OldBlocks(disk, file)
        BY <1>4, <1>8 DEF TipOK, NeedsOld, b
    <2>3. ~(file.writing /\ p <= file.pos)
        BY <2>1 DEF q
    <2>4. OldCell(d2, f2, p) = OldCell(disk, file, p)
        BY <1>1, <1>10, <1>13, <2>1, <2>2, <2>3, OldSame
    <2>5. W[p] = OldCell(d2, f2, p)
        <3>1. ~(p <= f2.pos)
            BY <1>4, <1>6, <1>10, <1>17, <1>21
        <3> QED BY <1>1, <1>10, <1>17, <3>1 DEF CellAt
    <2>6. V[p] = OldCell(disk, file, p)
        BY <1>1, <1>17, <2>1, <2>3 DEF CellAt
    <2> QED BY <2>1, <2>4, <2>5, <2>6
<1>22. IsPut(W, V, q, t, m)
    <2>1. ASSUME NEW p \in 1 .. Len(W)
          PROVE  W[p] = IF p > q /\ p <= q + m THEN t[p - q]
                        ELSE IF p <= Len(V) THEN V[p] ELSE Zero
        <3>1. p \in 1 .. Length(f2) /\ p \in Nat
            BY <1>17
        <3>2. CASE p > q /\ p <= q + m
            BY <1>19, <3>1, <3>2
        <3>3. CASE p <= q
            <4>1. p <= Len(V) /\ ~(p > q)
                BY <1>6, <1>17, <3>1, <3>3
            <4> QED BY <1>20, <3>1, <3>3, <4>1
        <3>4. CASE p > q + m
            <4>1. ~(p <= q + m)
                BY <1>4, <1>6, <3>1, <3>4
            <4> QED BY <1>17, <1>21, <3>1, <3>4, <4>1
        <3> QED BY <1>4, <1>6, <3>1, <3>2, <3>3, <3>4
    <2> QED BY <1>17, <1>18, <2>1 DEF IsPut
<1>23. W = Promise!Put(V, q, t)
    BY <1>5, <1>6, <1>17, <1>22, PutOne
<1> QED BY <1>3, <1>5, <1>14, <1>23 DEF W, V, q, t, m

-----------------------------------------------------------------------------
(* The steps that do not write to the device.                                *)

\* What a handle that does not write shows.
LEMMA RestingSame ==
    ASSUME NEW d, NEW f, NEW f2, ~f.writing, ~f2.writing, f2.inline = f.inline, f2.head = f.head,
           f2.size = f.size, f.inline => f2.cache = f.cache, ~f.inline => f.head # Inline
    PROVE  Length(f2) = Length(f) /\ Content(d, f2) = Content(d, f)
<1>1. Length(f2) = Length(f)
    BY DEF Length, SizeOf
<1>2. ASSUME NEW p PROVE CellAt(d, f2, p) = CellAt(d, f, p)
    <2>1. OldCell(d, f2, p) = OldCell(d, f, p)
        BY DEF OldCell
    <2> QED BY <2>1 DEF CellAt
<1> QED BY <1>1, <1>2, ContentSame

LEMMA SameShown ==
    ASSUME NEW d, NEW f, NEW f2, f2.writing = f.writing, f2.inline = f.inline, f2.head = f.head,
           f2.size = f.size, f2.cache = f.cache, f2.pos = f.pos, f2.off = f.off, f2.block = f.block
    PROVE  Content(d, f2) = Content(d, f)
<1>1. Length(f2) = Length(f) /\ TipSize(f2) = TipSize(f)
    BY DEF Length, SizeOf, TipSize
<1>2. ASSUME NEW p PROVE CellAt(d, f2, p) = CellAt(d, f, p)
    <2>1. OldCell(d, f2, p) = OldCell(d, f, p) /\ NewCell(d, f2, p) = NewCell(d, f, p)
        BY <1>1 DEF OldCell, NewCell
    <2> QED BY <2>1 DEF CellAt
<1> QED BY <1>1, <1>2, ContentSame

LEMMA DropShows ==
    ASSUME NEW d, NEW e, NEW f, NEW s, Sound(d, e, f, s)
    PROVE  /\ Content(d, DropRead(f)) = Content(d, f)
           /\ f.inline => DropRead(f).cache = f.cache
           /\ DropRead(f).erred = f.erred
<1> DEFINE g == DropRead(f)
<1>1. /\ f \in Handles /\ g.inline = f.inline /\ g.writing = f.writing /\ g.size = f.size
      /\ g.head = f.head /\ (f.writing => g = f)
    BY DropOf DEF Sound
<1>2. (f.inline => g.cache = f.cache) /\ g.erred = f.erred
    BY <1>1 DEF DropRead, Handles
<1> HIDE DEF g
<1>3. CASE ~f.writing
    <2>1. ~f.inline => f.head # Inline
        BY <1>3, LengthIs
    <2>2. Content(d, g) = Content(d, f)
        BY <1>1, <1>2, <1>3, <2>1, RestingSame
    <2> QED BY <1>2, <2>2 DEF g
<1> QED BY <1>1, <1>2, <1>3 DEF g

\* An inline handle goes to its end.
LEMMA FlushShows ==
    ASSUME Sound(disk, entry, file, todo), Flush
    PROVE  Content(disk, file') = Content(disk, file)
<1> DEFINE f == DropRead(file)
<1>1. Content(disk, f) = Content(disk, file) /\ f \in Handles
    BY DropShows, DropOf
<1>2. /\ f.pos \in Nat /\ f.size \in Nat
      /\ f.writing \in BOOLEAN /\ f.inline \in BOOLEAN
    BY <1>1, HandleType
<1>3. f.writing => f = file
    BY DropOf
<1>4. \/ file' = f
      \/ f.writing /\ f.inline /\ file' = [f EXCEPT !.pos = Max({f.pos, f.size})]
    BY DEF Flush
<1> HIDE DEF f
<1>5. CASE f.writing /\ f.inline /\ file' = [f EXCEPT !.pos = Max({f.pos, f.size})]
    <2> DEFINE m == Max({f.pos, f.size})
               g == [f EXCEPT !.pos = m]
    <2>1. m = IF f.pos >= f.size THEN f.pos ELSE f.size
        BY <1>2, MaxOf
    <2> HIDE DEF m
    <2>2. /\ g.pos = m /\ g.size = f.size /\ g.writing = f.writing /\ g.inline = f.inline
          /\ g.cache = f.cache
        BY <1>1 DEF Handles
    <2> HIDE DEF g
    <2>3. Length(g) = Length(f)
        BY <1>2, <1>5, <2>1, <2>2 DEF Length, SizeOf
    <2>4. \A p : CellAt(disk, g, p) = CellAt(disk, f, p)
        BY <1>5, <2>2 DEF CellAt
    <2>5. Content(disk, g) = Content(disk, f)
        BY <2>3, <2>4, ContentSame
    <2> QED BY <1>1, <1>5, <2>5 DEF g, m
<1> QED BY <1>1, <1>4, <1>5

\* The new list takes the place of the old.
LEMMA SettleShows ==
    ASSUME Sound(disk, entry, file, todo), Settle
    PROVE  Content(disk, file') = Content(disk, file)
<1>1. Is(todo, "settle")
    BY DoingIs DEF Settle
<1>2. file \in Handles /\ file.writing /\ file.pos >= file.size
    BY <1>1, LegalOf DEF Sound
<1>3. /\ file.pos \in Nat /\ file.size \in Nat
      /\ file.writing \in BOOLEAN /\ file.inline \in BOOLEAN
    BY <1>2, HandleType
<1> DEFINE g == file'
<1>4. /\ g.head = file.block /\ g.size = file.pos /\ ~g.writing
      /\ g.inline = file.inline /\ g.cache = file.cache
    BY <1>2 DEF Settle, Handles
<1> HIDE DEF g
<1>5. CASE file.inline
    <2>1. Length(g) = Length(file)
        BY <1>2, <1>3, <1>4, <1>5 DEF Length, SizeOf
    <2>2. \A p : CellAt(disk, g, p) = CellAt(disk, file, p)
        BY <1>4, <1>5 DEF CellAt
    <2> QED BY <2>1, <2>2, ContentSame DEF g
<1>6. CASE ~file.inline
    <2>1. TipOK(disk, entry, file) /\ UnusedOK(file, todo) /\ CacheOK(file, todo)
        BY <1>2, <1>6, SoundHandle
    <2>2. ~Is(todo, "put") /\ ~Is(todo, "relocate")
        BY <1>1 DEF Is
    <2>3. file.cache = NoCache
        BY <1>1, <2>1, <2>2 DEF CacheOK
    <2>4. file.block \in Blocks /\ file.block # Inline
        BY <2>1, Bounds DEF TipOK
    <2>5. Length(file) = file.pos /\ Length(g) = file.pos
        BY <1>2, <1>3, <1>4, <1>6, <2>4 DEF Length, SizeOf
    <2>6. ASSUME NEW p \in 1 .. Length(file)
          PROVE  CellAt(disk, g, p) = CellAt(disk, file, p)
        <3>1. file.pos > 0 /\ p <= file.pos
            BY <1>3, <2>5, <2>6
        <3>2. LastNo(file.pos) = LastNo(TipSize(file))
            BY <1>2, <2>1, <2>2, <3>1, TipFacts DEF UnusedOK
        <3>3. \A i : Block(disk, NoCache, file.block, file.pos, i)
                     = Block(disk, NoCache, file.block, TipSize(file), i)
            BY <3>2 DEF Block, LastNo
        <3>4. OldCell(disk, g, p) = NewCell(disk, file, p)
            BY <1>4, <2>3, <3>3 DEF OldCell, NewCell
        <3> QED BY <1>2, <1>4, <1>6, <3>1, <3>4 DEF CellAt
    <2> QED BY <2>5, <2>6, ContentSame DEF g
<1> QED BY <1>5, <1>6

LEMMA CutShows ==
    ASSUME Sound(disk, entry, file, todo), Sound(disk, entry, file', todo'), Cut
    PROVE  /\ Top.size \in Nat /\ Top.size < Length(file)
           /\ Content(disk, file') = SubSeq(Content(disk, file), 1, Top.size)
<1> DEFINE r == Top.size
           g == file'
           at == IF file.inline THEN [block |-> Inline, off |-> r]
                 ELSE CtzFind(disk, file.head, file.size, r)
<1>1. Is(todo, "cut") /\ todo \in Seq(CallSteps) /\ file \in Handles /\ Top = todo[1]
    BY DoingIs DEF Cut, Sound, Top
<1>2. Cutting(todo, file) /\ ~file.writing /\ r \in Nat
    BY Zenon, <1>1, Popped, StepType, LegalOf DEF Sound
<1>3. r < file.size /\ Length(file) = file.size /\ file.size \in Nat /\ file.size <= MaxSize
      /\ (~file.inline => file.head # Inline /\ NeedsOld(file))
    BY <1>1, <1>2, HandleType, LengthIs DEF Cutting, SizeOf
<1>4. /\ g.head = at.block /\ g.size = r /\ g.writing = file.writing
      /\ g.inline = file.inline /\ g.cache = file.cache
    BY <1>1 DEF Cut, Handles
<1> DEFINE V == Content(disk, file)
           W == Content(disk, g)
<1>5. /\ V \in Seq(Cell) /\ Len(V) = file.size
      /\ \A p \in 1 .. file.size : V[p] = CellAt(disk, file, p)
    BY <1>3, ContentIs
<1>6. /\ W \in Seq(Cell) /\ Len(W) = Length(g) /\ Length(g) = r
      /\ \A p \in 1 .. r : W[p] = CellAt(disk, g, p)
    <2>1. Length(g) = r
        BY <1>2, <1>4, LengthIs
    <2> QED BY <2>1, ContentIs
<1>7. ASSUME NEW p \in 1 .. r
      PROVE  CellAt(disk, g, p) = CellAt(disk, file, p)
    <2>1. CASE file.inline
        BY <1>4, <2>1 DEF CellAt
    <2>2. CASE ~file.inline
        <3>1. OldOK(disk, file) /\ IsList(disk, NoCache, file.head, file.size)
              /\ file.head \in Blocks
            BY Zenon, <1>1, <1>2, <1>3, <2>2, SoundHandle, HandleType DEF OldOK, NeedsOld, RestingOK
        <3>2. at.block = Block(disk, NoCache, file.head, file.size, Place[r].index)
            <4> DEFINE h == file.head
                       z == file.size
                       q == r
            <4>1. h \in Blocks /\ z \in Nat /\ z <= MaxSize /\ IsList(disk, NoCache, h, z)
                  /\ q \in Nat /\ q < z
                BY <1>2, <1>3, <3>1
            <4>2. at = CtzFind(disk, h, z, q)
                BY <2>2
            <4> HIDE DEF h, z, q, r, at
            <4>3. CtzFind(disk, h, z, q) = [block |-> Block(disk, NoCache, h, z, Place[q].index),
                                            off |-> Place[q].off]
                BY Zenon, <4>1, FoundOf
            <4>4. at.block = Block(disk, NoCache, h, z, Place[q].index)
                BY <4>2, <4>3
            <4> QED BY <4>4 DEF h, z, q
        <3>3. r # 0 /\ Place[r].index = Place[r - 1].index
            BY <1>1, <1>2, <1>7, <2>2 DEF Cutting
        <3> HIDE DEF at
        <3>4. g.head = Block(disk, NoCache, file.head, file.size, LastNo(r))
            BY <1>4, <3>2, <3>3 DEF LastNo
        <3>5. IsSize(file.size) /\ r \in 1 .. file.size
            BY <1>2, <1>3, <3>3, SizeIs, Bounds
        <3> HIDE DEF r
        <3>6. CellOf(disk, NoCache, g.head, r, p)
              = CellOf(disk, NoCache, file.head, file.size, p)
            BY <3>1, <3>4, <3>5, CellsTo
        <3>7. OldCell(disk, g, p) = OldCell(disk, file, p)
            BY <1>4, <3>6, OldCellIs
        <3> QED BY <1>2, <1>4, <2>2, <3>7 DEF CellAt
    <2> QED BY <2>1, <2>2
<1> HIDE DEF V, W, g, at
<1> HIDE DEF r
<1>8. W = SubSeq(V, 1, r)
    <2>1. r \in Nat /\ r <= Len(V)
        BY <1>2, <1>3, <1>5
    <2>2. SubSeq(V, 1, r) \in Seq(Cell) /\ Len(SubSeq(V, 1, r)) = r
          /\ \A p \in 1 .. r : SubSeq(V, 1, r)[p] = V[p]
        BY <1>5, <2>1
    <2>3. ASSUME NEW p \in 1 .. r PROVE W[p] = SubSeq(V, 1, r)[p]
        <3>1. p \in 1 .. file.size
            BY <1>2, <1>3, <2>3
        <3> QED BY <1>5, <1>6, <1>7, <2>2, <3>1
    <2> HIDE DEF V
    <2> QED BY <1>6, <2>2, <2>3, SeqSame
<1> QED BY <1>2, <1>3, <1>8 DEF V, W, g, r

LEMMA PutInlineShows ==
    ASSUME Sound(disk, entry, file, todo), Sound(disk, entry, file', todo'), PutInline
    PROVE  /\ Top.cells \in Seq(Cell)
           /\ Content(disk, file') = Promise!Put(Content(disk, file), file.pos, Top.cells)
<1> DEFINE cells == Top.cells
           n == Len(cells)
           q == file.pos
           old == file.cache.data
           o == Overlay(old, q, cells)
           g == file'
<1>1. Is(todo, "put") /\ file \in Handles /\ todo \in Seq(CallSteps) /\ Legal(todo, file)
    BY DoingIs DEF PutInline, Sound
<1>2. Top = todo[1] /\ Putting(todo, file) /\ Starting(file) /\ file.inline
    BY <1>1, LegalOf DEF PutInline, Top
<1>3. /\ cells \in Seq(Cell) /\ n \in Nat /\ n > 0 /\ q + n <= MaxSize
    BY <1>1, <1>2, PutBounds
<1>4. /\ g.writing /\ g.inline = file.inline /\ g.pos = q + n /\ g.size = file.size
      /\ g.cache.data = o
    <2>1. file.cache \in Caches
        BY <1>1, HandleType
    <2> QED BY Zenon, <1>1, <2>1 DEF PutInline, Handles, Caches
<1>5. /\ q \in Nat /\ file.size \in Nat /\ file.writing \in BOOLEAN
      /\ old \in Seq(Cell) /\ Len(old) = CacheSize
      /\ Length(file) \in Nat /\ Length(file) <= CacheSize /\ Length(g) <= CacheSize
    <2>1. file.inline => Length(file) <= CacheSize /\ Len(file.cache.data) = CacheSize
        BY LengthIs
    <2>2. g.inline => Length(g) <= CacheSize
        BY LengthIs
    <2> QED BY <1>1, <1>2, <1>4, <2>1, <2>2, HandleType, LengthIs
<1>6. Length(g) = (IF q + n >= file.size THEN q + n ELSE file.size)
    BY <1>2, <1>3, <1>4, <1>5 DEF Length, SizeOf
<1>7. /\ Length(file) = (IF file.writing /\ q >= file.size THEN q ELSE file.size)
      /\ q <= Length(file)
    BY <1>2, <1>5 DEF Length, SizeOf, Starting
<1> DEFINE V == Content(disk, file)
           W == Content(disk, g)
<1>8. /\ V \in Seq(Cell) /\ Len(V) = Length(file)
      /\ W \in Seq(Cell) /\ Len(W) = Length(g)
      /\ \A p \in 1 .. Length(file) : V[p] = CellAt(disk, file, p)
      /\ \A p \in 1 .. Length(g) : W[p] = CellAt(disk, g, p)
    BY ContentIs
<1>9. /\ \A p \in 1 .. Length(file) : V[p] = old[p]
      /\ \A p \in 1 .. Length(g) : W[p] = o[p]
    BY <1>2, <1>4, <1>8 DEF CellAt
<1> HIDE DEF V, W, g, old, q
<1>10. q <= Len(old) /\ q + n <= CacheSize
    BY <1>3, <1>5, <1>6, <1>7, Bounds
<1> HIDE DEF o
<1>11. \A j \in 1 .. CacheSize : o[j] = IF j \in q + 1 .. q + n THEN cells[j - q] ELSE old[j]
    <2> DEFINE m == IF q + n >= Len(old) THEN q + n ELSE Len(old)
    <2>1. m = CacheSize
        BY <1>3, <1>5, <1>10, Bounds
    <2> HIDE DEF m
    <2>2. \A j \in 1 .. m : o[j] = IF j \in q + 1 .. q + Len(cells) THEN cells[j - q] ELSE old[j]
        <3>1. old \in Seq(Cell) /\ cells \in Seq(Cell) /\ q \in Nat /\ q <= Len(old)
            BY <1>3, <1>5, <1>10 DEF q
        <3> HIDE DEF cells
        <3>2. \A j \in 1 .. (IF q + Len(cells) >= Len(old) THEN q + Len(cells) ELSE Len(old)) :
                 Overlay(old, q, cells)[j]
                 = IF j \in q + 1 .. q + Len(cells) THEN cells[j - q] ELSE old[j]
            BY <3>1, OverlayOf
        <3> QED BY <3>2 DEF m, o
    <2> QED BY <2>1, <2>2
<1> HIDE DEF n, cells
<1>12. IsPut(W, V, q, cells, n)
    <2>1. Len(W) = IF Len(V) > q + n THEN Len(V) ELSE q + n
        BY <1>3, <1>5, <1>6, <1>7, <1>8
    <2>2. ASSUME NEW j \in 1 .. Len(W)
          PROVE  W[j] = IF j > q /\ j <= q + n THEN cells[j - q]
                        ELSE IF j <= Len(V) THEN V[j] ELSE Zero
        <3>1. j \in 1 .. CacheSize /\ W[j] = o[j] /\ j \in Nat
            BY <1>5, <1>8, <1>9, Bounds
        <3>2. W[j] = IF j \in q + 1 .. q + n THEN cells[j - q] ELSE old[j]
            BY <1>11, <3>1
        <3>3. CASE j > q /\ j <= q + n
            BY <1>3, <1>5, <3>1, <3>2, <3>3
        <3>4. CASE ~(j > q /\ j <= q + n)
            <4>1. j <= Len(V)
                BY <1>3, <1>5, <1>7, <1>8, <2>1, <3>1, <3>4
            <4>2. W[j] = old[j]
                BY <1>3, <1>5, <3>1, <3>2, <3>4
            <4>3. V[j] = old[j]
                BY <1>5, <1>8, <1>9, <3>1, <4>1
            <4> QED BY <3>4, <4>1, <4>2, <4>3
        <3> QED BY <3>3, <3>4
    <2> QED BY <1>8, <2>1, <2>2 DEF IsPut
<1>13. W = Promise!Put(V, q, cells)
    BY <1>3, <1>5, <1>8, <1>12, PutOne DEF n
<1> QED BY <1>3, <1>13 DEF W, V, g, q, cells

GetNext(y, m, w) == [y EXCEPT !.n = m, !.cells = w]

LEMMA GetGoesOn ==
    ASSUME NEW y \in CallSteps, y.op = "get", NEW m \in Nat, NEW w \in Seq(Cell)
    PROVE  LET z == GetNext(y, m, w)
           IN  z \in CallSteps /\ z.op = "get" /\ z.n = m /\ z.cells = w
<1> DEFINE G == [op : {"get"}, n : Nat, cells : Seq(Cell)]
           z == GetNext(y, m, w)
<1>1. y \in G
    BY DEF CallSteps
<1>2. z \in G /\ z.n = m /\ z.cells = w
    BY Zenon, <1>1 DEF GetNext
<1> HIDE DEF z
<1>3. z.op = "get"
    BY <1>2
<1> QED BY <1>2, <1>3 DEF CallSteps, z

\* A piece of a read is what the handle shows there.
LEMMA GetShows ==
    ASSUME Sound(disk, entry, file, todo), ReadingOK(disk, file, todo), Get,
           ~(Top.n = 0 \/ file.pos >= file.size)
    PROVE  \E n \in Nat, s \in Seq(Cell) :
              /\ n > 0 /\ n <= Top.n /\ file.pos + n <= file.size
              /\ Len(s) = n /\ \A j \in 1 .. n : s[j] = Content(disk, file)[file.pos + j]
              /\ Top.n \in Nat /\ Top.cells \in Seq(Cell)
              /\ Is(todo', "get") /\ Tail(todo') = <<>>
              /\ todo'[1].n = Top.n - n /\ todo'[1].cells = Top.cells \o s
              /\ \E steps : Go(steps)
              /\ file'.pos = file.pos + n
              /\ file'.inline = file.inline /\ file'.head = file.head
              /\ file'.size = file.size /\ file'.writing = file.writing
              /\ file'.dirty = file.dirty /\ file'.erred = file.erred
              /\ file.inline => file'.cache = file.cache
              /\ ReadingOK(disk, file', todo')
<1>1. Is(todo, "get") /\ file \in Handles /\ todo \in Seq(CallSteps) /\ Legal(todo, file)
      /\ disk \in Device(Cell)
    BY DoingIs DEF Get, Sound
<1>2. Tail(todo) = <<>> /\ ~file.writing
    BY <1>1, LegalOf
<1>3. /\ Top \in CallSteps /\ Top = todo[1] /\ Top.op = "get"
      /\ Top.n \in Nat /\ Top.cells \in Seq(Cell)
      /\ Top = [op |-> "get", n |-> Top.n, cells |-> Top.cells]
    BY <1>1, GoneOn, StepType
<1> DEFINE at == IF file.reading /\ file.off # BlockSize
                 THEN [block |-> file.block, off |-> file.off]
                 ELSE IF file.inline THEN [block |-> Inline, off |-> file.pos]
                 ELSE CtzFind(disk, file.head, file.size, file.pos)
           n  == Min({Top.n, file.size - file.pos, BlockSize - at.off})
           s  == [k \in 1 .. n |-> Peek(disk, file.cache, at.block, at.off + k - 1)]
           c2 == IF file.inline THEN file.cache ELSE [NoCache EXCEPT !.block = at.block]
           f2 == [file EXCEPT !.reading = TRUE, !.block = at.block,
                              !.pos = file.pos + n, !.off = at.off + n, !.cache = c2]
           x  == [Top EXCEPT !.n = Top.n - n, !.cells = Top.cells \o s]
<1>4. /\ at.block \in Blocks \union {Inline} /\ file' = f2 /\ Go(<<x>>)
    BY DEF Get
<1>5. /\ file.pos \in Nat /\ file.size \in Nat /\ file.pos < file.size /\ Top.n > 0
      /\ file.size <= MaxSize /\ MaxSize <= Reach /\ MaxSize \in Nat /\ Reach \in Nat
      /\ BlockSize \in Nat /\ file.off \in Nat /\ file.off <= BlockSize
    BY <1>1, <1>3, HandleType, Bounds
<1>6. ASSUME ~file.inline
      PROVE  /\ at.block = Block(disk, NoCache, file.head, file.size, Place[file.pos].index)
             /\ at.block \in Blocks /\ at.off = Place[file.pos].off /\ file.head \in Blocks
             /\ file.cache.data = <<>> /\ file.cache.off \in Nat
    <2>1. RestingOK(file, todo) /\ OldOK(disk, file)
        BY <1>2, <1>6, SoundHandle
    <2>2. file.cache.data = <<>> /\ file.cache.off \in Nat
        BY <2>1, NoCacheIs DEF RestingOK, NoCache
    <2>3. CASE file.reading /\ file.off # BlockSize
        <3>1. file.block = Block(disk, NoCache, file.head, file.size, Place[file.pos].index)
            BY <1>1, <1>6, <2>3 DEF ReadingOK
        <3> QED BY <1>1, <2>1, <2>2, <2>3, <3>1 DEF RestingOK
    <2>4. CASE ~(file.reading /\ file.off # BlockSize)
        <3>1. at = CtzFind(disk, file.head, file.size, file.pos)
            BY <1>6, <2>4
        <3> HIDE DEF at
        <3>2. file.head \in Blocks /\ IsList(disk, NoCache, file.head, file.size)
            BY <1>2, <2>1, Bounds DEF RestingOK, OldOK
        <3> DEFINE b == Block(disk, NoCache, file.head, file.size, Place[file.pos].index)
        <3>3. at = [block |-> b, off |-> Place[file.pos].off] /\ b \in Blocks
            BY Zenon, <1>5, <3>1, <3>2, FoundOf
        <3>4. at.block = b /\ at.off = Place[file.pos].off
            <4> HIDE DEF b
            <4> QED BY <3>3
        <3> QED BY <2>2, <3>2, <3>3, <3>4
    <2> QED BY <2>3, <2>4
<1>7. ASSUME file.inline
      PROVE  at.block = Inline /\ at.off = file.pos /\ InlineOK(file) /\ file.pos < BlockSize
    <2>1. InlineOK(file) /\ file.pos < BlockSize
        BY <1>5, <1>7, SoundHandle, Bounds DEF InlineOK
    <2>2. file.reading => file.block = Inline /\ file.off = file.pos
        BY <1>1, <1>7 DEF ReadingOK
    <2> QED BY <1>7, <2>1, <2>2
<1> HIDE DEF at
<1>8. at.off \in Nat /\ at.off < BlockSize
    <2>1. CASE file.inline
        BY <1>5, <1>7, <2>1
    <2>2. CASE ~file.inline
        BY <1>5, <1>6, <2>2, PlaceType
    <2> QED BY <2>1, <2>2
<1> HIDE DEF n
<1>9. n \in Nat /\ n > 0 /\ n <= Top.n /\ n <= file.size - file.pos /\ n <= BlockSize - at.off
    <2> DEFINE u == file.size - file.pos
               v == BlockSize - at.off
    <2>1. u \in Int /\ v \in Int /\ u > 0 /\ v > 0 /\ Top.n \in Int /\ Top.n > 0
        BY <1>3, <1>5, <1>8
    <2>2. n = Min({Top.n, u, v})
        BY DEF n
    <2> HIDE DEF u, v
    <2>3. n \in {Top.n, u, v} /\ n <= Top.n /\ n <= u /\ n <= v
        BY Zenon, <2>1, <2>2, MinOfThree
    <2> QED BY <2>1, <2>3 DEF u, v
<1>10. ~file.inline => file.head # Inline
    BY <1>6, Bounds
<1>11. Length(file) = file.size
    BY <1>2, LengthIs
<1>12. ASSUME NEW j \in 1 .. n
       PROVE  /\ Peek(disk, file.cache, at.block, at.off + j - 1)
                 = Content(disk, file)[file.pos + j]
              /\ Content(disk, file)[file.pos + j] \in Cell
    <2> DEFINE p == file.pos + j
               k == at.off + j - 1
    <2>1. /\ p \in 1 .. Length(file) /\ j \in Nat /\ j > 0 /\ k \in 0 .. BlockSize - 1
          /\ p - 1 = file.pos + (j - 1) /\ j - 1 \in Nat /\ k = at.off + (j - 1)
          /\ p = file.pos + j
        BY <1>5, <1>8, <1>9, <1>11
    <2> HIDE DEF p, k
    <2>2. Content(disk, file)[p] = CellAt(disk, file, p) /\ CellAt(disk, file, p) \in Cell
        BY <2>1, ContentIs, CellType
    <2>3. CASE file.inline
        <3>1. CellAt(disk, file, p) = file.cache.data[p]
            BY <2>3 DEF CellAt
        <3>2. /\ file.cache.block = Inline /\ file.cache.off = 0
              /\ Len(file.cache.data) = CacheSize /\ file.size <= InlineMax
              /\ at.block = Inline /\ at.off = file.pos
            BY <1>7, <2>3 DEF InlineOK
        <3> DEFINE cd == file.cache.data
                   co == file.cache.off
                   cb == file.cache.block
        <3>3. /\ k + 1 = p /\ k \in co .. co + Len(cd) - 1 /\ k - co + 1 = p
            BY <1>5, <1>8, <1>11, <2>1, <3>2, Bounds
        <3>4. cb = at.block
            BY <3>2
        <3> HIDE DEF cd, co, cb
        <3>5. Peek(disk, file.cache, at.block, k) = cd[p]
            BY <3>3, <3>4 DEF Peek, cd, co, cb
        <3> QED BY <2>1, <2>2, <3>1, <3>5 DEF cd, k, p
    <2>4. CASE ~file.inline
        <3>1. CellAt(disk, file, p) = OldCell(disk, file, p)
            BY <1>2, <2>4 DEF CellAt
        <3> DEFINE q == file.pos
                   m == j - 1
        <3>2. /\ q \in Nat /\ m \in Nat /\ q + m <= Reach /\ at.off + m < BlockSize
              /\ k = at.off + m /\ p - 1 = q + m
            BY <1>5, <1>8, <1>9, <2>1
        <3>6. at.off = Place[q].off
            BY <1>6, <2>4
        <3> HIDE DEF q, m
        <3>3. Place[q + m].index = Place[q].index /\ Place[q + m].off = Place[q].off + m
            BY <3>2, <3>6, PlaceRun
        <3>4. Place[p - 1].index = Place[q].index /\ Place[p - 1].off = k
            BY <3>2, <3>3, <3>6
        <3>5. OldCell(disk, file, p) = Peek(disk, NoCache, at.block, k)
            BY <1>6, <2>4, <3>4 DEF OldCell, q
        <3>7. Peek(disk, file.cache, at.block, k) = Peek(disk, NoCache, at.block, k)
            BY <1>6, <2>4, PeekBare, NoCacheIs
        <3> QED BY <2>2, <3>1, <3>5, <3>7 DEF k, p
    <2> QED BY <2>2, <2>3, <2>4 DEF p
<1>13. s \in Seq(Cell) /\ Len(s) = n /\ \A j \in 1 .. n : s[j] = Content(disk, file)[file.pos + j]
    <2> DEFINE g(k) == Peek(disk, file.cache, at.block, at.off + k - 1)
               h(k) == Content(disk, file)[file.pos + k]
    <2>1. s = [k \in 1 .. n |-> g(k)] /\ \A k \in 1 .. n : g(k) = h(k) /\ h(k) \in Cell
        BY <1>12
    <2> HIDE DEF g, h, s
    <2>2. s \in Seq(Cell) /\ Len(s) = n /\ \A k \in 1 .. n : s[k] = h(k)
        BY <1>9, <2>1
    <2> QED BY <2>2 DEF h
<1> HIDE DEF s
<1>14. x \in CallSteps /\ x.op = "get" /\ x.n = Top.n - n /\ x.cells = Top.cells \o s
    <2> DEFINE t == Top
               m == Top.n - n
               w == Top.cells \o s
    <2>1. m \in Nat /\ w \in Seq(Cell) /\ t \in CallSteps /\ t.op = "get"
        BY <1>3, <1>9, <1>13
    <2>2. x = GetNext(t, m, w)
        BY DEF GetNext
    <2> HIDE DEF t, m, w, x
    <2>3. x \in CallSteps /\ x.op = "get" /\ x.n = m /\ x.cells = w
        BY <2>1, <2>2, GetGoesOn
    <2> QED BY <2>3 DEF m, w
<1> HIDE DEF x
<1>15. Go(<<x>>)
    BY <1>4
<1>16. /\ Is(todo', "get") /\ Tail(todo') = <<>> /\ todo'[1] = x
    <2>1. todo' = <<x>> \o Tail(todo)
        <3>1. \A y \in CallSteps : Go(<<y>>) => todo' = <<y>> \o Tail(todo)
            BY Zenon, <1>1, GoneOn
        <3> QED BY <1>14, <1>15, <3>1
    <2>2. Tail(todo) \in Seq(CallSteps)
        BY <1>1, GoneOn
    <2>3. Tail(todo') = Tail(todo) /\ todo'[1] = x /\ Is(todo', "get")
        BY Zenon, <1>14, <2>1, <2>2, Pushed
    <2> QED BY Zenon, <1>2, <2>3
<1>17. /\ f2.pos = file.pos + n /\ f2.inline = file.inline /\ f2.head = file.head
       /\ f2.size = file.size /\ f2.writing = file.writing /\ f2.dirty = file.dirty
       /\ f2.erred = file.erred /\ f2.cache = c2 /\ f2.block = at.block /\ f2.off = at.off + n
    BY <1>1 DEF Handles
<1> HIDE DEF f2
<1>18. ReadingOK(disk, f2, todo')
    <2>1. CASE file.inline
        BY <1>7, <1>17, <2>1 DEF ReadingOK
    <2>2. CASE ~file.inline
        <3>1. SUFFICES ASSUME f2.off # BlockSize
                       PROVE  f2.block = Block(disk, NoCache, f2.head, f2.size, Place[f2.pos].index)
            BY <1>17, <2>2 DEF ReadingOK
        <3> DEFINE q == file.pos
        <3>2. at.off = Place[q].off
            BY <1>6, <2>2
        <3>4. q \in Nat /\ n \in Nat /\ q + n <= Reach /\ at.off + n < BlockSize
            BY <1>5, <1>8, <1>9, <1>17, <3>1
        <3> HIDE DEF q
        <3>3. Place[q + n].index = Place[q].index
            BY <3>2, <3>4, PlaceRun
        <3> QED BY <1>6, <1>17, <2>2, <3>3 DEF q
    <2> QED BY <2>1, <2>2
<1>19. file.inline => f2.cache = file.cache
    BY <1>17
<1>20. /\ file.pos + n <= file.size
       /\ \E steps : Go(steps)
    BY <1>5, <1>9, <1>15
<1> HIDE DEF c2
<1>21. file' = f2
    BY <1>4
<1> QED BY Zenon, <1>3, <1>9, <1>13, <1>14, <1>16, <1>17, <1>18, <1>19, <1>20, <1>21

-----------------------------------------------------------------------------
(* What every step has to show.                                              *)

Holds == CallOK(call) /\ (file # Closed => Told(disk, entry, file, todo, call))

HoldsOn == Holds' /\ (Promise!Next \/ UNCHANGED Promise!vars)

CallWith(c, x) == [c EXCEPT !.failed = x]

LEMMA CallSet ==
    ASSUME NEW c, CallOK(c), NEW x \in BOOLEAN
    PROVE  LET z == CallWith(c, x)
           IN  /\ CallOK(z) /\ z.view = c.view /\ z.pos = c.pos /\ z.writes = c.writes
               /\ z.failed = x
<1> DEFINE v == c.view
           p == c.pos
           w == c.writes
           y == c.failed
           z == CallWith(c, x)
<1>1. c = [view |-> v, pos |-> p, writes |-> w, failed |-> y] /\ w \in BOOLEAN
    BY DEF CallOK
<1> HIDE DEF v, p, w, y
<1>2. z = [view |-> v, pos |-> p, writes |-> w, failed |-> x]
    BY <1>1 DEF CallWith
<1> HIDE DEF z
<1>3. z.view = v /\ z.pos = p /\ z.writes = w /\ z.failed = x
    BY <1>2
<1>4. CallOK(z)
    BY <1>1, <1>2, <1>3 DEF CallOK
<1> QED BY <1>3, <1>4 DEF v, p, w, z

\* The view, in a state that the invariant describes.
LEMMA ViewShown ==
    ASSUME Sound(disk, entry, file, todo), ~Is(todo, "put")
    PROVE  View = Content(disk, file)
<1>1. file \in Handles
    BY DEF Sound
<1> QED BY <1>1, ViewNow, ViewIs

LEMMA ViewAfter ==
    ASSUME Sound(disk', entry', file', todo'), ~Is(todo', "put")
    PROVE  View' = Content(disk', file')
<1>1. file' \in Handles
    BY DEF Sound
<1> QED BY <1>1, ViewThen, ViewIs

\* The call goes on.
LEMMA Continues ==
    ASSUME Told(disk, entry, file, todo, call), todo # <<>>, NEW steps, Go(steps), todo' # <<>>,
           got' = got, SavedOf(disk', entry') = SavedOf(disk, entry),
           file'.erred => file.erred, CleanOK(entry', file'), ReadingOK(disk', file', todo'),
           Meaning(todo', Content(disk', file'), file', call, SavedOf(disk, entry))
    PROVE  HoldsOn
<1>1. result' = result /\ call' = call
    BY GoOn
<1>2. Saved' = Saved
    BY SavedNow, SavedThen
<1>3. UNCHANGED Promise!vars
    BY <1>1, <1>2, Stutters
<1>4. CallOK(call') /\ Told(disk', entry', file', todo', call')
    BY <1>1 DEF Told
<1> QED BY <1>3, <1>4 DEF HoldsOn, Holds

\* The call returns.
LEMMA Returns ==
    ASSUME Told(disk, entry, file, todo, call), Sound(disk', entry', file', todo'),
           NEW steps, Go(steps), todo' = <<>>,
           file'.erred => file.erred /\ ~call.writes,
           CleanOK(entry', file'), ReadingOK(disk', file', todo')
    PROVE  /\ Holds'
           /\ result' = "ok"
           /\ call'.failed = (IF call.writes THEN FALSE ELSE call.failed)
           /\ file' # Closed /\ file'.pos \in 0 .. MaxSize
           /\ View' = Content(disk', file')
<1>1. result' = "ok" /\ call' = IF call.writes THEN CallWith(call, FALSE) ELSE call
    BY GoOn DEF CallWith
<1>2. CallOK(call) /\ (file.erred => call.failed)
    BY DEF Told
<1>3. CallOK(call') /\ call'.failed = IF call.writes THEN FALSE ELSE call.failed
    <2>1. CallOK(CallWith(call, FALSE)) /\ CallWith(call, FALSE).failed = FALSE
        BY Zenon, <1>2, CallSet
    <2> QED BY Zenon, <1>1, <1>2, <2>1
<1>4. file' \in Handles
    BY DEF Sound
<1>5. file' # Closed /\ file'.pos \in 0 .. MaxSize
    BY <1>4, HandleOpen DEF Handles
<1>6. View' = Content(disk', file')
    <2>1. ~Is(todo', "put")
        BY DEF Is
    <2> QED BY <2>1, ViewAfter
<1>7. Told(disk', entry', file', todo', call')
    BY <1>2, <1>3 DEF Told
<1>8. Holds'
    BY <1>3, <1>7 DEF Holds
<1> QED BY Zenon, <1>1, <1>3, <1>5, <1>6, <1>8

\* What an error leaves behind: part of what was to be written, or of the zeros.
Fits(W, c) ==
    \/ \E v \in Value \union {Zero}, n \in 0 .. MaxSize, p \in {c.pos, Len(c.view)} :
          W = Promise!Put(c.view, p, Rep(n, v))
    \/ \E n \in 0 .. MaxSize : W = Promise!Put(c.view, Len(c.view), Rep(n, Zero))

LEMMA FitsSame ==
    ASSUME NEW c, BeganOK(c)
    PROVE  Fits(c.view, c)
<1> DEFINE v == c.view
           p == Len(c.view)
<1>1. v \in Seq(Cell) /\ p \in Nat /\ p <= Len(v) /\ Zero \in Cell /\ 0 \in 0 .. MaxSize
    BY Bounds DEF BeganOK
<1> HIDE DEF v, p
<1>2. Promise!Put(v, p, Rep(0, Zero)) = v
    BY Zenon, <1>1, PutSame
<1> QED BY <1>1, <1>2 DEF Fits, v, p

LEMMA FitsGrown ==
    ASSUME NEW c, BeganOK(c), NEW n \in Nat, n <= MaxSize, Len(c.view) <= n
    PROVE  Fits(Grown(c.view, n), c)
<1> DEFINE l == Len(c.view)
           m == n - l
<1>1. l \in Nat
    BY DEF BeganOK
<1>2. m \in 0 .. MaxSize
    BY <1>1, Bounds
<1> HIDE DEF m
<1>3. Grown(c.view, n) = Promise!Put(c.view, Len(c.view), Rep(m, Zero))
    BY DEF Grown, m, l
<1> QED BY <1>2, <1>3 DEF Fits

LEMMA FailsShown ==
    ASSUME Told(disk, entry, file, todo, call), todo # <<>>, Fails,
           got' = got, SavedOf(disk', entry') = SavedOf(disk, entry),
           \/ file' = Closed
           \/ /\ Sound(disk', entry', file', todo')
              /\ CleanOK(entry', file') /\ ~file'.reading
              /\ Fits(Content(disk', file'), call)
    PROVE  HoldsOn
<1>1. todo' = <<>> /\ result' = "error" /\ call' = CallWith(call, TRUE)
    BY DEF Fails, CallWith
<1>2. CallOK(call') /\ call'.failed = TRUE
    BY Zenon, <1>1, CallSet DEF Told
<1>3. Saved' = Saved
    BY SavedNow, SavedThen
<1>4. CASE file' = Closed
    <2>1. Promise!Next
        BY Zenon, <1>1, <1>2, <1>3, <1>4, FailReturns
    <2> QED BY <1>2, <1>4, <2>1 DEF HoldsOn, Holds
<1>5. CASE file' # Closed
    <2>1. /\ Sound(disk', entry', file', todo') /\ CleanOK(entry', file') /\ ~file'.reading
          /\ Fits(Content(disk', file'), call)
        BY <1>5
    <2>2. file' \in Handles
        BY <2>1 DEF Sound
    <2>3. file'.pos \in 0 .. MaxSize
        BY <2>2 DEF Handles
    <2>4. View' = Content(disk', file')
        <3>1. ~Is(todo', "put")
            BY <1>1 DEF Is
        <3> QED BY <2>1, <3>1, ViewAfter
    <2> DEFINE W == View'
    <2>5. Fits(W, call)
        BY <2>1, <2>4
    <2>6. Promise!Next
        BY Zenon, <1>1, <1>2, <1>3, <1>5, <2>3, <2>5, FailReturns DEF Fits
    <2>7. Told(disk', entry', file', todo', call')
        BY Zenon, <1>1, <1>2, <2>1 DEF Told, ReadingOK
    <2> QED BY <1>2, <2>6, <2>7 DEF HoldsOn, Holds
<1> QED BY <1>4, <1>5

-----------------------------------------------------------------------------
(* What steps mean depends on little of the handle.                          *)

LEMMA MeansFrame ==
    ASSUME NEW f, NEW f2, f2.erred => f.erred, f2.writing => f.writing, NEW s, NEW V, NEW p, NEW c
    PROVE  /\ Means(s, V, p, f, c) => Means(s, V, p, f2, c)
           /\ MeansSettle(s, V, f, c) => MeansSettle(s, V, f2, c)
           /\ MeansDrain(s, V, f, c) => MeansDrain(s, V, f2, c)
           /\ MeansCopy(s, V, f, c) => MeansCopy(s, V, f2, c)
<1>1. \A t : MeansSet(t, V, f, c) => MeansSet(t, V, f2, c)
    BY DEF MeansSet
<1>2. \A t, q : Means(t, V, q, f, c) => Means(t, V, q, f2, c)
    BY <1>1 DEF Means
<1>3. \A t : MeansSettle(t, V, f, c) => MeansSettle(t, V, f2, c)
    BY <1>2 DEF MeansSettle
<1>4. \A t : MeansDrain(t, V, f, c) => MeansDrain(t, V, f2, c)
    BY <1>3 DEF MeansDrain
<1>5. \A t : MeansCopy(t, V, f, c) => MeansCopy(t, V, f2, c)
    BY <1>4 DEF MeansCopy
<1> QED BY <1>2, <1>3, <1>4, <1>5

LEMMA PutFrame ==
    ASSUME NEW f, NEW f2, NEW s, NEW V, NEW c, MeansPut(s, V, f, c),
           f2.pos = f.pos, f2.size = f.size, f2.head = f.head, f2.inline = f.inline,
           f2.erred => f.erred, f2.writing => f.writing \/ ~Is(Tail(s), "copy")
    PROVE  MeansPut(s, V, f2, c)
<1>1. MeansWrite(s, V, f, c) => MeansWrite(s, V, f2, c)
    BY DEF MeansWrite
<1>2. MeansFill(Tail(s), V, f, c) => MeansFill(Tail(s), V, f2, c)
    BY Zenon DEF MeansFill
<1>3. MeansCopy(Tail(s), V, f, c) => MeansCopy(Tail(s), V, f2, c)
    <2>1. CASE Is(Tail(s), "copy")
        BY <2>1, MeansFrame
    <2>2. CASE ~Is(Tail(s), "copy")
        BY <2>2 DEF MeansCopy
    <2> QED BY <2>1, <2>2
<1> QED BY Zenon, <1>1, <1>2, <1>3 DEF MeansPut

-----------------------------------------------------------------------------
(* The steps keep the promise.                                               *)

LEMMA TooBigHolds ==
    ASSUME Sound(disk, entry, file, todo), Told(disk, entry, file, todo, call), TooBig
    PROVE  HoldsOn
<1>1. Is(todo, "toobig") /\ todo # <<>>
    BY DoingIs DEF TooBig, Doing
<1>2. ~file.reading
    BY <1>1, LegalOf DEF Sound
<1>3. disk' = disk /\ entry' = entry /\ file' = file /\ got' = got /\ Fails
    BY DEF TooBig, storage
<1>4. Sound(disk', entry', file', todo')
    BY TooBigKeeps
<1>5. Content(disk, file) = call.view /\ BeganOK(call) /\ CleanOK(entry, file)
    BY <1>1, MeaningOf DEF Told
<1>6. Fits(Content(disk', file'), call)
    BY <1>3, <1>5, FitsSame
<1> QED BY <1>1, <1>2, <1>3, <1>4, <1>5, <1>6, FailsShown

LEMMA SetPosHolds ==
    ASSUME Sound(disk, entry, file, todo), Told(disk, entry, file, todo, call), SetPos
    PROVE  HoldsOn
<1> DEFINE g == file'
           V == Content(disk, file)
<1>1. Is(todo, "setpos") /\ todo # <<>> /\ todo \in Seq(CallSteps) /\ file \in Handles
    BY DoingIs DEF SetPos, Doing, Sound
<1>2. ~file.writing /\ ~file.reading
    BY <1>1, LegalOf DEF Sound
<1>3. disk' = disk /\ entry' = entry /\ got' = got /\ Go(<<>>) /\ Top = todo[1]
    BY DEF SetPos, storage, Top
<1>4. todo' = Tail(todo)
    BY <1>1, <1>3, GoneOn
<1>5. /\ g.pos = todo[1].pos /\ g.inline = file.inline /\ g.head = file.head /\ g.size = file.size
      /\ g.writing = file.writing /\ g.cache = file.cache /\ g.erred = file.erred
      /\ g.dirty = file.dirty /\ g.reading = file.reading
    BY <1>1 DEF SetPos, Handles, Top
<1>6. Sound(disk', entry', file', todo')
    BY SetPosKeeps
<1> HIDE DEF g
<1>7. Content(disk, g) = V
    <2>1. ~file.inline => file.head # Inline
        BY <1>2, LengthIs
    <2> QED BY <1>2, <1>5, <2>1, RestingSame
<1>8. CleanOK(entry, g) /\ ReadingOK(disk, g, todo')
    BY <1>2, <1>5 DEF Told, CleanOK, ReadingOK
<1>9. BeganOK(call) /\ CallOK(call) /\ call.failed \in BOOLEAN
      /\ (MeansSet(todo, V, file, call) \/ MeansGo(todo, V, call))
    BY <1>1, MeaningOf DEF Told, CallOK
<1>10. V \in Seq(Cell) /\ Len(V) = file.size /\ file.size \in Nat /\ file.size <= MaxSize
    BY <1>1, <1>2, ContentIs, LengthIs, HandleType
<1> HIDE DEF V
<1>11. CASE MeansGo(todo, V, call)
    <2>1. /\ Is(todo', "fill") /\ BackTo(Tail(todo'), call.pos) /\ call.writes /\ V = call.view
          /\ todo[1].pos = Len(V) /\ todo'[1].to > Len(V)
        BY Zenon, <1>4, <1>11 DEF MeansGo
    <2>2. todo'[1].to \in Nat /\ todo' # <<>>
        <3>1. todo' \in Seq(CallSteps)
            BY <1>6 DEF Sound
        <3> QED BY ZenonT(60), <2>1, <3>1, Popped, StepType
    <2>3. V = Grown(V, Len(V))
        BY Zenon, <1>10, PutSame
    <2>4. g.pos = Len(V) /\ g.size = Len(V) /\ Len(V) \in Nat
        BY <1>5, <1>10, <2>1
    <2>5. MeansFill(todo', V, g, call)
        BY <2>1, <2>2, <2>3, <2>4 DEF MeansFill
    <2>6. Meaning(todo', V, g, call, SavedOf(disk, entry))
        BY <2>5 DEF Meaning
    <2> QED BY <1>1, <1>3, <1>5, <1>7, <1>8, <2>2, <2>6, Continues DEF g
<1>12. CASE MeansSet(todo, V, file, call)
    <2>1. todo' = <<>>
        BY <1>4, <1>12 DEF MeansSet, Ends
    <2>2. g.erred => file.erred /\ ~call.writes
        BY <1>5, <1>12 DEF MeansSet
    <2>3. /\ Holds' /\ result' = "ok"
          /\ call'.failed = (IF call.writes THEN FALSE ELSE call.failed)
          /\ file' # Closed /\ file'.pos \in 0 .. MaxSize /\ View' = V
        BY Zenon, <1>3, <1>6, <1>7, <1>8, <2>1, <2>2, Returns DEF g
    <2>4. Saved' = Saved
        BY <1>3, SavedNow, SavedThen
    <2>5. Len(call.view) \in Nat /\ Len(call.view) <= MaxSize /\ MaxSize \in Nat
        BY <1>9, Bounds DEF BeganOK
    <2>6. CASE ~call.writes /\ V = call.view
        <3>1. Promise!Next
            BY <1>1, <1>3, <1>9, <2>1, <2>3, <2>4, <2>6, SeekReturns
        <3> QED BY <2>3, <3>1 DEF HoldsOn
    <2>7. CASE /\ ~call.writes /\ todo[1].pos = call.pos
               /\ \E n \in 0 .. Len(call.view) : V = SubSeq(call.view, 1, n)
        <3>1. PICK n \in 0 .. Len(call.view) : V = SubSeq(call.view, 1, n)
            BY <2>7
        <3>2. n \in 0 .. MaxSize /\ n <= Len(call.view) /\ file'.pos = call.pos
            BY <1>5, <2>5, <2>7 DEF g
        <3>3. Promise!Next
            BY Zenon, <1>1, <1>3, <1>9, <2>1, <2>3, <2>4, <2>5, <2>7, <3>1, <3>2, TruncateReturns
        <3> QED BY <2>3, <3>3 DEF HoldsOn
    <2>8. CASE /\ call.writes /\ todo[1].pos = call.pos
               /\ \E n \in 0 .. MaxSize : n > Len(call.view) /\ V = Grown(call.view, n)
        <3>1. PICK n \in 0 .. MaxSize : n > Len(call.view) /\ V = Grown(call.view, n)
            BY <2>8
        <3>2. file'.pos = call.pos
            BY <1>5, <2>8 DEF g
        <3>3. Promise!Next
            BY Zenon, <1>1, <1>3, <1>9, <2>1, <2>3, <2>4, <2>5, <2>8, <3>1, <3>2, TruncateReturns
        <3> QED BY <2>3, <3>3 DEF HoldsOn
    <2> QED BY <1>12, <2>6, <2>7, <2>8 DEF MeansSet
<1> QED BY <1>9, <1>11, <1>12

LEMMA SettleHolds ==
    ASSUME Sound(disk, entry, file, todo), Told(disk, entry, file, todo, call), Settle
    PROVE  HoldsOn
<1> DEFINE g == file'
           V == Content(disk, file)
<1>1. Is(todo, "settle") /\ todo # <<>> /\ todo \in Seq(CallSteps) /\ file \in Handles
    BY DoingIs DEF Settle, Doing, Sound
<1>2. file.writing
    BY <1>1, LegalOf DEF Sound
<1>3. disk' = disk /\ entry' = entry /\ got' = got /\ Go(<<>>) /\ Top = todo[1]
    BY DEF Settle, storage, Top
<1>4. todo' = Tail(todo)
    BY <1>1, <1>3, GoneOn
<1>5. /\ g.pos = todo[1].pos /\ ~g.writing /\ g.erred = file.erred /\ g.dirty
      /\ g.reading = file.reading
    BY <1>1 DEF Settle, Handles, Top
<1>6. ~file.reading
    BY <1>2, SoundHandle
<1>7. Content(disk, g) = V
    BY SettleShows
<1> HIDE DEF g, V
<1>8. Means(todo', V, g.pos, file, call)
    BY <1>1, <1>4, <1>5, MeaningOf DEF Told, V
<1>9. Means(todo', V, g.pos, g, call)
    BY <1>5, <1>8, MeansFrame
<1>10. todo' # <<>>
    BY <1>9 DEF Means, MeansGet, MeansSet, MeansSave, MeansCut, MeansGo, Ends, Is
<1>11. Meaning(todo', V, g, call, SavedOf(disk, entry))
    BY <1>9 DEF Meaning
<1>12. CleanOK(entry, g) /\ ReadingOK(disk, g, todo')
    BY <1>5, <1>6 DEF CleanOK, ReadingOK
<1> QED BY <1>1, <1>3, <1>5, <1>7, <1>10, <1>11, <1>12, Continues DEF g, V

LEMMA DrainHolds ==
    ASSUME Sound(disk, entry, file, todo), Told(disk, entry, file, todo, call), Drain
    PROVE  HoldsOn
<1> DEFINE g == file'
           V == Content(disk, file)
<1>1. Is(todo, "drain") /\ todo # <<>> /\ todo \in Seq(CallSteps) /\ file \in Handles
    BY DoingIs DEF Drain, Doing, Sound
<1>2. file.writing /\ ~file.inline /\ ~file.reading
    BY <1>1, LegalOf, SoundHandle DEF Sound
<1>3. entry' = entry /\ got' = got /\ Go(<<>>)
    BY DEF Drain
<1>4. todo' = Tail(todo)
    BY <1>1, <1>3, GoneOn
<1>5. /\ g.writing = file.writing /\ g.erred = file.erred /\ g.inline = file.inline
      /\ g.reading = file.reading
    BY <1>1 DEF Drain, Handles
<1>6. Content(disk', g) = V /\ SavedOf(disk', entry') = SavedOf(disk, entry)
    BY DrainShows
<1> HIDE DEF g, V
<1>7. MeansSettle(todo', V, file, call)
    BY <1>1, <1>4, MeaningOf DEF Told, V
<1>8. MeansSettle(todo', V, g, call)
    BY <1>5, <1>7, MeansFrame
<1>9. todo' # <<>> /\ Meaning(todo', V, g, call, SavedOf(disk, entry))
    BY <1>8 DEF MeansSettle, Is, Meaning
<1>10. CleanOK(entry', g) /\ ReadingOK(disk', g, todo')
    BY <1>2, <1>5 DEF CleanOK, ReadingOK
<1> QED BY <1>1, <1>3, <1>5, <1>6, <1>9, <1>10, Continues DEF g, V

LEMMA DrainBadHolds ==
    ASSUME Sound(disk, entry, file, todo), Told(disk, entry, file, todo, call), DrainBad
    PROVE  HoldsOn
<1> DEFINE V == Content(disk, file)
<1>1. Is(todo, "drain") /\ todo # <<>> /\ todo \in Seq(CallSteps)
    BY DoingIs DEF DrainBad, Doing, Sound
<1>2. file.writing /\ ~file.inline /\ ~file.reading
    BY <1>1, LegalOf, SoundHandle DEF Sound
<1>3. entry' = entry /\ got' = got /\ Go(Step("relocate") \o <<Top>>) /\ file' = file
    BY DEF DrainBad
<1>4. Tail(todo') = todo /\ Is(todo', "relocate") /\ todo' # <<>>
    <2>1. [op |-> "relocate"] \in CallSteps
        BY StepMade
    <2>2. todo' = <<[op |-> "relocate"]>> \o todo
        BY Zenon, <1>1, <1>3, <2>1, GoneOn DEF Step
    <2> QED BY <1>1, <2>1, <2>2, Pushed
<1>5. Content(disk', file') = V /\ SavedOf(disk', entry') = SavedOf(disk, entry)
    BY DrainBadShows
<1> HIDE DEF V
<1>6. MeansDrain(todo, V, file, call)
    BY <1>1, MeaningOf DEF Told, V, MeansDrain
<1>7. Meaning(todo', V, file, call, SavedOf(disk, entry))
    BY Zenon, <1>4, <1>6 DEF MeansMove, Meaning
<1>8. CleanOK(entry', file') /\ ReadingOK(disk', file', todo')
    BY <1>2, <1>3 DEF CleanOK, ReadingOK
<1> QED BY <1>1, <1>3, <1>4, <1>5, <1>7, <1>8, Continues DEF V

LEMMA CopyHolds ==
    ASSUME Sound(disk, entry, file, todo), Told(disk, entry, file, todo, call), Copy
    PROVE  HoldsOn
<1> DEFINE V == Content(disk, file)
           at == CtzFind(disk, file.head, file.size, file.pos)
           y == Peek(disk, NoCache, at.block, at.off)
<1>1. /\ Is(todo, "copy") /\ todo # <<>> /\ todo \in Seq(CallSteps) /\ file \in Handles
      /\ disk \in Device(Cell)
    BY DoingIs DEF Copy, Doing, Sound
<1>2. file.writing /\ ~file.inline /\ ~file.reading
    BY <1>1, LegalOf, SoundHandle DEF Sound
<1>3. disk' = disk /\ entry' = entry /\ file' = file /\ got' = got
    BY DEF Copy, storage
<1>4. /\ file.pos < file.size => Go(PutStep(<<y>>) \o <<Top>>)
      /\ ~(file.pos < file.size) => Go(<<>>)
    BY DEF Copy
<1>5. MeansDrain(Tail(todo), V, file, call)
    BY <1>1, MeaningOf DEF Told
<1>6. CleanOK(entry, file) /\ \A s : ReadingOK(disk, file, s)
    BY <1>2 DEF CleanOK, ReadingOK
<1>7. CASE ~(file.pos < file.size)
    <2>1. todo' = Tail(todo)
        BY <1>1, <1>4, <1>7, GoneOn
    <2>2. todo' # <<>> /\ Meaning(todo', V, file, call, SavedOf(disk, entry))
        BY <1>5, <2>1 DEF MeansDrain, Meaning, Is
    <2> QED BY <1>1, <1>3, <1>4, <1>6, <1>7, <2>2, Continues
<1>8. CASE file.pos < file.size
    <2>1. /\ file.pos \in Nat /\ file.size \in Nat /\ file.size <= MaxSize
          /\ file.head \in Blocks \union {Inline}
        BY <1>1, HandleType
    <2>2. file.head # Inline
        <3>1. OutlinedOK(file, todo)
            BY <1>2, SoundHandle
        <3>2. ~Is(todo, "put") /\ ~Is(todo, "relocate")
            BY <1>1 DEF Is
        <3> QED BY <1>8, <3>1, <3>2 DEF OutlinedOK
    <2>3. NeedsOld(file) /\ file.head \in Blocks /\ IsList(disk, NoCache, file.head, file.size)
        <3>1. OldOK(disk, file)
            BY <1>2, SoundHandle
        <3> QED BY <1>2, <1>8, <2>1, <2>2, <3>1 DEF NeedsOld, OldOK
    <2> DEFINE p == file.pos + 1
    <2>4. Length(file) = file.size /\ p \in 1 .. file.size /\ ~(p <= file.pos) /\ p - 1 = file.pos
        BY <1>2, <1>8, <2>1, <2>2 DEF Length, SizeOf
    <2> HIDE DEF p
    <2>5. V[p] = CellAt(disk, file, p) /\ CellAt(disk, file, p) \in Cell /\ Len(V) = file.size
        BY <2>4, ContentIs, CellType
    <2>6. CellAt(disk, file, p)
          = Peek(disk, NoCache, Block(disk, NoCache, file.head, file.size, Place[file.pos].index),
                 Place[file.pos].off)
        BY <1>2, <2>4 DEF CellAt, OldCell
    <2>7. /\ at.block = Block(disk, NoCache, file.head, file.size, Place[file.pos].index)
          /\ at.off = Place[file.pos].off
        <3> DEFINE b == Block(disk, NoCache, file.head, file.size, Place[file.pos].index)
                   o == Place[file.pos].off
        <3>1. at = [block |-> b, off |-> o]
            BY Zenon, <1>8, <2>1, <2>3, FoundOf
        <3> HIDE DEF at, b, o
        <3>2. at.block = b /\ at.off = o
            BY <3>1
        <3> QED BY <3>2 DEF b, o
    <2>8. y = V[p] /\ y \in Cell
        BY <2>5, <2>6, <2>7
    <2> HIDE DEF y
    <2> DEFINE z == [op |-> "put", cells |-> <<y>>]
    <2>9. z \in CallSteps /\ z.op = "put" /\ z.cells = <<y>>
        <3>1. <<y>> \in Seq(Cell)
            BY <2>8
        <3> QED BY Zenon, <3>1, StepMade
    <2>10. Go(<<z>> \o <<Top>>)
        BY <1>4, <1>8 DEF PutStep
    <2> HIDE DEF z
    <2>11. todo' = <<z>> \o todo
        BY Zenon, <1>1, <2>9, <2>10, GoneOn
    <2>12. Is(todo', "put") /\ todo' # <<>> /\ todo'[1] = z /\ Tail(todo') = todo
        BY <1>1, <2>9, <2>11, Pushed
    <2>13. MeansCopy(todo, V, file, call)
        BY <1>1, <1>5 DEF MeansCopy
    <2> HIDE DEF V
    <2>14. MeansPut(todo', V, file, call)
        BY Zenon, <1>8, <2>2, <2>5, <2>8, <2>9, <2>12, <2>13 DEF MeansPut, p
    <2>15. Meaning(todo', V, file, call, SavedOf(disk, entry))
        BY <2>14 DEF Meaning
    <2> QED BY <1>1, <1>3, <1>6, <2>10, <2>12, <2>15, Continues DEF V
<1> QED BY <1>7, <1>8

LEMMA FillHolds ==
    ASSUME Sound(disk, entry, file, todo), Told(disk, entry, file, todo, call), Fill
    PROVE  HoldsOn
<1> DEFINE V == Content(disk, file)
<1>1. Is(todo, "fill") /\ todo # <<>> /\ todo \in Seq(CallSteps) /\ file \in Handles
    BY DoingIs DEF Fill, Doing, Sound
<1>2. disk' = disk /\ entry' = entry /\ got' = got
    BY DEF Fill, storage
<1>3. Top = todo[1] /\ file.pos \in Nat /\ file.pos <= MaxSize /\ todo[1].to \in Nat
    BY <1>1, GoneOn, HandleType, StepType
<1>4. MeansFill(todo, V, file, call) /\ CleanOK(entry, file) /\ BeganOK(call)
    BY <1>1, MeaningOf DEF Told
<1>5. CASE file.pos < Top.to
    <2> DEFINE g == DropRead(file)
               x == [op |-> "put", cells |-> <<Zero>>]
    <2>1. file' = g /\ Go(<<x>> \o <<Top>>)
        BY <1>5 DEF Fill, PutStep
    <2>2. x \in CallSteps /\ x.op = "put" /\ x.cells = <<Zero>>
        <3>1. <<Zero>> \in Seq(Cell)
            BY Bounds
        <3> QED BY Zenon, <3>1, StepMade
    <2> HIDE DEF x
    <2>3. todo' = <<x>> \o todo
        BY Zenon, <1>1, <2>1, <2>2, GoneOn
    <2>4. Is(todo', "put") /\ ~Is(todo', "get") /\ todo' # <<>> /\ Tail(todo') = todo /\ todo'[1] = x
        BY <1>1, <2>2, <2>3, Pushed
    <2>5. /\ g.writing = file.writing /\ g.pos = file.pos /\ g.size = file.size /\ ~g.reading
          /\ g.inline = file.inline /\ g.dirty = file.dirty
        BY DropOf
    <2>6. Content(disk, g) = V /\ (file.inline => g.cache = file.cache) /\ g.erred = file.erred
        BY DropShows
    <2> HIDE DEF g, V
    <2>7. MeansFill(todo, V, g, call)
        BY Zenon, <1>4, <2>5, <2>6 DEF MeansFill
    <2>8. MeansPut(todo', V, g, call)
        BY Zenon, <1>3, <1>5, <2>2, <2>4, <2>5, <2>7 DEF MeansPut
    <2>9. Meaning(todo', V, g, call, SavedOf(disk, entry))
        BY <2>8 DEF Meaning
    <2>10. CleanOK(entry, g) /\ ReadingOK(disk, g, todo')
        BY <1>4, <2>5, <2>6 DEF CleanOK, ReadingOK
    <2> QED BY <1>1, <1>2, <2>1, <2>4, <2>6, <2>9, <2>10, Continues
<1>6. CASE ~(file.pos < Top.to)
    <2> DEFINE t == Tail(todo)
    <2>1. file' = file /\ Go(<<>>)
        BY <1>6 DEF Fill
    <2>2. todo' = t
        BY <1>1, <2>1, GoneOn
    <2> HIDE DEF V, t
    <2>3. /\ call.writes /\ Len(call.view) <= file.pos /\ file.pos = todo[1].to
          /\ V = Grown(call.view, file.pos)
        BY <1>3, <1>4, <1>6 DEF MeansFill
    <2>4. /\ \/ /\ BackTo(t, call.pos) /\ todo[1].to > Len(call.view)
                /\ file.pos > Len(call.view) => ~file.erred
             \/ /\ Ends(t, "put") /\ todo[1].to = call.pos
                /\ \E x \in Value : t[1].cells = Rep(Len(t[1].cells), x)
        BY Zenon, <1>4 DEF MeansFill, t
    <2>5. call.view \in Seq(Cell) /\ Len(call.view) \in Nat /\ call.pos \in Nat
        BY <1>4, Bounds DEF BeganOK
    <2>6. CASE /\ BackTo(t, call.pos) /\ todo[1].to > Len(call.view)
               /\ file.pos > Len(call.view) => ~file.erred
        <3>1. file.pos > Len(call.view) /\ file.pos \in 0 .. MaxSize /\ ~file.erred
            BY <1>3, <2>3, <2>6, Bounds
        <3>2. MeansSet(Tail(t), V, file, call)
            BY Zenon, <2>3, <2>6, <3>1 DEF MeansSet, BackTo, Returning
        <3>3. MeansFlush(t, V, file, call) /\ t # <<>> /\ ~Is(t, "get")
            BY <2>6, <3>2 DEF MeansFlush, Means, BackTo, Returning, Is
        <3>4. Meaning(todo', V, file, call, SavedOf(disk, entry))
            BY <2>2, <3>3 DEF Meaning
        <3>5. ReadingOK(disk, file, todo')
            BY <2>2, <3>3 DEF ReadingOK
        <3> QED BY <1>1, <1>2, <1>4, <2>1, <2>2, <3>3, <3>4, <3>5, Continues DEF V
    <2>7. CASE /\ Ends(t, "put") /\ todo[1].to = call.pos
               /\ \E x \in Value : t[1].cells = Rep(Len(t[1].cells), x)
        <3>1. PICK x \in Value : t[1].cells = Rep(Len(t[1].cells), x)
            BY <2>7
        <3> DEFINE p == call.pos
                   v == call.view
        <3>2. x \in Cell /\ p \in Nat /\ v \in Seq(Cell) /\ p >= Len(v) /\ file.pos = p
            BY <2>3, <2>5, <2>7 DEF Cell
        <3>3. V = Grown(v, p) /\ file.pos = p + 0
            BY <2>3, <3>2
        <3> HIDE DEF p, v
        <3>4. Promise!Put(v, p, Rep(0, x)) = V
            BY ZenonT(60), <3>2, <3>3, PutSame
        <3> USE DEF p, v
        <3>5. MeansWrite(t, V, file, call)
            BY <2>3, <2>7, <3>1, <3>2, <3>3, <3>4 DEF MeansWrite
        <3>6. Meaning(todo', V, file, call, SavedOf(disk, entry))
            BY <2>2, <3>5 DEF Meaning, MeansPut
        <3>7. t # <<>> /\ ReadingOK(disk, file, todo')
            BY <2>2, <2>7 DEF ReadingOK, Ends, Is
        <3> QED BY <1>1, <1>2, <1>4, <2>1, <2>2, <3>6, <3>7, Continues DEF V
    <2> QED BY <2>4, <2>6, <2>7
<1> QED BY <1>5, <1>6

\* A file that was inline is written to a block.
LEMMA OutlineHolds ==
    ASSUME Sound(disk, entry, file, todo), Told(disk, entry, file, todo, call), Outline
    PROVE  HoldsOn
<1> DEFINE g == file'
           V == Content(disk, file)
<1>1. Is(todo, "put") /\ todo # <<>> /\ todo \in Seq(CallSteps) /\ file \in Handles
    BY DoingIs DEF Outline, Doing, Sound
<1>2. /\ disk' = disk /\ entry' = entry /\ got' = got /\ file.inline
      /\ Go(Step("relocate") \o <<Top>>)
    BY DEF Outline, storage
<1>3. /\ g.pos = file.pos /\ g.size = file.size /\ g.head = file.head /\ g.inline = file.inline
      /\ g.writing = file.writing /\ g.erred = file.erred /\ g.dirty = file.dirty
      /\ g.cache = file.cache /\ g.reading = file.reading
    BY Zenon, <1>1 DEF Outline, Handles
<1>4. Tail(todo') = todo /\ Is(todo', "relocate") /\ todo' # <<>>
    <2>1. [op |-> "relocate"] \in CallSteps
        BY StepMade
    <2>2. todo' = <<[op |-> "relocate"]>> \o todo
        BY Zenon, <1>1, <1>2, <2>1, GoneOn DEF Step
    <2> QED BY <1>1, <2>1, <2>2, Pushed
<1>5. ~file.reading
    BY <1>1, LegalOf DEF Sound
<1> HIDE DEF g
<1>6. Content(disk, g) = V
    BY <1>2, <1>3 DEF Content, CellAt, Length, SizeOf
<1> HIDE DEF V
<1>7. MeansPut(todo, V, file, call) /\ CleanOK(entry, file)
    BY <1>1, MeaningOf DEF Told, V
<1>8. MeansPut(todo, V, g, call)
    BY <1>3, <1>7, PutFrame
<1>9. Meaning(todo', V, g, call, SavedOf(disk, entry))
    BY Zenon, <1>4, <1>8 DEF MeansMove, Meaning
<1>10. CleanOK(entry, g) /\ ReadingOK(disk, g, todo')
    BY <1>3, <1>5, <1>7 DEF CleanOK, ReadingOK
<1> QED BY <1>1, <1>2, <1>3, <1>4, <1>6, <1>9, <1>10, Continues DEF g, V

\* The two parts of a value that is written.
LEMMA RepParts ==
    ASSUME NEW n \in Nat, NEW m \in Nat, m <= n, NEW x \in Cell
    PROVE  /\ SubSeq(Rep(n, x), 1, m) = Rep(m, x)
           /\ SubSeq(Rep(n, x), m + 1, n) = Rep(n - m, x)
<1> DEFINE r == Rep(n, x)
           a == SubSeq(r, 1, m)
           b == SubSeq(r, m + 1, n)
           l == n - m
           u == Rep(m, x)
           v == Rep(l, x)
<1>1. r \in Seq(Cell) /\ Len(r) = n /\ (\A j \in 1 .. n : r[j] = x) /\ l \in Nat
    BY RepIs
<1>2. u \in Seq(Cell) /\ Len(u) = m /\ (\A j \in 1 .. m : u[j] = x)
    BY RepIs
<1>3. v \in Seq(Cell) /\ Len(v) = l /\ (\A j \in 1 .. l : v[j] = x)
    BY <1>1, RepIs
<1> HIDE DEF r, u, v
<1>4. a \in Seq(Cell) /\ Len(a) = m /\ (\A j \in 1 .. m : a[j] = x)
    BY <1>1
<1>5. b \in Seq(Cell) /\ Len(b) = l
    BY <1>1
<1>6. \A j \in 1 .. l : b[j] = x
    <2> SUFFICES ASSUME NEW j \in 1 .. l PROVE b[j] = x
        OBVIOUS
    <2>1. b[j] = r[m + j] /\ m + j \in 1 .. n
        BY <1>1
    <2> QED BY <1>1, <2>1
<1> HIDE DEF a, b, l
<1>7. a = u
    BY <1>2, <1>4, SeqSame
<1>8. b = v
    BY <1>3, <1>5, <1>6, SeqSame
<1> QED BY <1>7, <1>8 DEF a, b, l, u, v, r

\* What the first m cells of the step do: they are part of a write, or the only one of the
\* step and part of something that goes on.
PutLeaves(s, W, f, c) ==
    \/ /\ Ends(s, "put") /\ c.writes
       /\ \E p \in {c.pos, Len(c.view)}, k \in Nat, x \in Value :
             /\ k > 0 /\ f.pos = p + k
             /\ W = Promise!Put(c.view, p, Rep(k, x))
             /\ s[1].cells = Rep(Len(s[1].cells), x)
    \/ Len(s[1].cells) = 1 /\ MeansFill(Tail(s), W, f, c)
    \/ Len(s[1].cells) = 1 /\ MeansCopy(Tail(s), W, f, c)

LEMMA PutMeans ==
    ASSUME NEW s, NEW f, NEW g, NEW c, NEW V \in Seq(Cell), NEW m \in Nat, m > 0,
           MeansPut(s, V, f, c), BeganOK(c), s[1].cells \in Seq(Cell), m <= Len(s[1].cells),
           f.pos \in Nat, f.size \in Nat, g.pos = f.pos + m, g.size = f.size,
           g.erred => f.erred, m = Len(s[1].cells) => ~g.erred,
           f.head # Inline => (g.writing => f.writing),
           f.head = Inline /\ ~f.inline /\ f.pos < f.size => f.pos + m >= f.size,
           (Tail(s) # <<>> /\ Is(Tail(s), "fill")) => Tail(s)[1].to \in Nat
    PROVE  PutLeaves(s, Promise!Put(V, f.pos, SubSeq(s[1].cells, 1, m)), g, c)
<1> DEFINE L == Len(s[1].cells)
           y == s[1].cells
           t == SubSeq(y, 1, m)
           q == f.pos
           W == Promise!Put(V, q, t)
           v == c.view
<1>1. v \in Seq(Cell) /\ c.pos \in Nat /\ Len(v) \in Nat /\ L \in Nat /\ q \in Nat
    BY Bounds DEF BeganOK
<1>2. t \in Seq(Cell) /\ Len(t) = m /\ y \in Seq(Cell) /\ m <= L
    BY <1>1
<1>6. ASSUME m = L PROVE t = y
    <2>1. \A j \in 1 .. Len(t) : t[j] = y[j]
        BY <1>1, <1>2
    <2> HIDE DEF t, y
    <2>2. Len(t) = Len(y)
        BY <1>2, <1>6 DEF y
    <2> QED BY <1>2, <2>1, <2>2, SeqSame
<1>3. CASE MeansWrite(s, V, f, c)
    <2>1. PICK p \in {c.pos, Len(c.view)}, k \in Nat, x \in Value :
             /\ q = p + k
             /\ y = Rep(L, x)
             /\ LET Z == Promise!Put(v, p, Rep(k, x))
                IN  \/ V = Z
                    \/ /\ V = SubSeq(Z, 1, q)
                       /\ Len(Z) <= f.size
                       /\ f.head = Inline /\ ~f.inline /\ q < f.size
        BY Zenon, <1>3 DEF MeansWrite
    <2>2. x \in Cell /\ p \in Nat
        BY <1>1 DEF Cell
    <2>3. t = Rep(m, x)
        <3> HIDE DEF y, L
        <3> QED BY ZenonT(60), <1>1, <1>2, <2>1, <2>2, RepParts
    <2> DEFINE Z == Promise!Put(v, p, Rep(k, x))
               n == k + m
               w == Promise!Put(v, p, Rep(n, x))
    <2>4. Promise!Put(Z, q, t) = w
        <3> HIDE DEF q, t, v
        <3> QED BY <1>1, <2>1, <2>2, <2>3, PutMore
    <2>5. Z \in Seq(Cell) /\ Len(Z) >= q
        <3> DEFINE r == Rep(k, x)
        <3>1. r \in Seq(Cell) /\ k = Len(r)
            BY Zenon, <2>2, RepIs
        <3> HIDE DEF r
        <3>2. IsPut(Promise!Put(v, p, r), v, p, r, k)
            BY <1>1, <2>2, <3>1, PutIs
        <3> QED BY <1>1, <2>1, <2>2, <3>2 DEF IsPut, r
    <2>6. W = w
        <3>1. CASE V = Z
            BY <2>4, <3>1
        <3>2. CASE /\ V = SubSeq(Z, 1, q) /\ Len(Z) <= f.size
                   /\ f.head = Inline /\ ~f.inline /\ q < f.size
            <4> HIDE DEF Z, w, t
            <4>1. q + Len(t) >= Len(Z) /\ q <= Len(Z)
                BY <1>1, <1>2, <2>5, <3>2
            <4> HIDE DEF q
            <4>2. Promise!Put(SubSeq(Z, 1, q), q, t) = Promise!Put(Z, q, t)
                BY <1>1, <1>2, <2>5, <4>1, PutFirst
            <4> QED BY <2>4, <3>2, <4>2
        <3> QED BY <2>1, <3>1, <3>2
    <2>7. n \in Nat /\ n > 0 /\ g.pos = p + n
        BY <1>1, <2>1, <2>2
    <2> HIDE DEF W, w, n
    <2>8. Ends(s, "put") /\ c.writes
        BY <1>3 DEF MeansWrite
    <2>9. PutLeaves(s, W, g, c)
        BY Zenon, <2>1, <2>6, <2>7, <2>8 DEF PutLeaves, w
    <2> QED BY <2>9 DEF W
<1>4. CASE /\ Is(s, "put") /\ s[1].cells = <<Zero>>
           /\ MeansFill(Tail(s), V, f, c) /\ f.pos < Tail(s)[1].to
    <2>1. L = 1 /\ m = 1
        BY <1>1, <1>4
    <2>2. t = <<Zero>>
        BY <1>4, <1>6, <2>1
    <2>3. Len(v) <= q /\ V = Grown(v, q)
        BY <1>4 DEF MeansFill
    <2>4. W = Grown(v, q + 1)
        BY Zenon, <1>1, <2>2, <2>3, GrownNext
    <2>5. Tail(s) # <<>> /\ Is(Tail(s), "fill")
        BY Zenon, <1>4 DEF MeansFill, Is
    <2>6. /\ g.size <= g.pos /\ Len(v) <= g.pos /\ g.pos <= Tail(s)[1].to /\ W = Grown(v, g.pos)
          /\ ~g.erred
        BY SMTT(60), <1>1, <1>4, <2>1, <2>3, <2>4, <2>5 DEF MeansFill
    <2> HIDE DEF W
    <2>7. MeansFill(Tail(s), W, g, c)
        BY Zenon, <1>4, <2>6 DEF MeansFill
    <2>8. PutLeaves(s, W, g, c)
        BY <2>1, <2>7 DEF PutLeaves
    <2> QED BY <2>8 DEF W
<1>5. CASE /\ Is(s, "put") /\ f.pos < Len(V) /\ s[1].cells = <<V[f.pos + 1]>>
           /\ MeansCopy(Tail(s), V, f, c) /\ f.head # Inline
    <2>1. L = 1 /\ m = 1
        BY <1>1, <1>5
    <2>2. t = <<V[q + 1]>>
        BY <1>5, <1>6, <2>1
    <2>3. W = V
        <3> HIDE DEF q
        <3>1. q < Len(V)
            BY <1>5 DEF q
        <3> HIDE DEF t
        <3> QED BY <1>1, <2>2, <3>1, PutSame
    <2> HIDE DEF W
    <2>4. MeansCopy(Tail(s), W, g, c)
        BY Zenon, <1>5, <2>3, MeansFrame
    <2>5. PutLeaves(s, W, g, c)
        BY <2>1, <2>4 DEF PutLeaves
    <2> QED BY <2>5 DEF W
<1> QED BY Zenon, <1>3, <1>4, <1>5 DEF MeansPut

\* All cells of the step have been written.
LEMMA PutEnds ==
    ASSUME Told(disk, entry, file, todo, call), Is(todo, "put"), todo \in Seq(CallSteps),
           Sound(disk', entry', file', todo'), Go(<<>>), got' = got,
           SavedOf(disk', entry') = SavedOf(disk, entry), ~file'.erred, ~file'.reading,
           CleanOK(entry', file'), PutLeaves(todo, Content(disk', file'), file', call)
    PROVE  HoldsOn
<1> DEFINE W == Content(disk', file')
           g == file'
<1>1. todo' = Tail(todo) /\ todo # <<>>
    BY GoneOn DEF Is
<1>2. ReadingOK(disk', file', todo')
    BY DEF ReadingOK
<1>3. BeganOK(call) /\ CallOK(call)
    BY <1>1 DEF Told
<1> HIDE DEF W, g
<1>4. CASE /\ Ends(todo, "put") /\ call.writes
           /\ \E p \in {call.pos, Len(call.view)}, k \in Nat, x \in Value :
                 /\ k > 0 /\ g.pos = p + k
                 /\ W = Promise!Put(call.view, p, Rep(k, x))
    <2>1. todo' = <<>>
        BY <1>1, <1>4 DEF Ends
    <2>2. /\ Holds' /\ result' = "ok" /\ call'.failed = FALSE
          /\ file' # Closed /\ file'.pos \in 0 .. MaxSize /\ View' = W
        BY Zenon, <1>2, <1>4, <2>1, Returns DEF W
    <2>3. PICK p \in {call.pos, Len(call.view)}, k \in Nat, x \in Value :
             k > 0 /\ g.pos = p + k /\ W = Promise!Put(call.view, p, Rep(k, x))
        BY Zenon, <1>4
    <2>4. p \in Nat
        BY <1>3, Bounds DEF BeganOK
    <2>5. k \in 1 .. MaxSize /\ p + k <= MaxSize
        BY <2>2, <2>3, <2>4, Bounds DEF g
    <2>6. Saved' = Saved
        BY SavedNow, SavedThen
    <2>7. Promise!Next
        BY Zenon, <1>1, <2>1, <2>2, <2>3, <2>5, <2>6, WriteReturns DEF g
    <2> QED BY <2>2, <2>7 DEF HoldsOn
<1>5. CASE MeansFill(todo', W, g, call) \/ MeansCopy(todo', W, g, call)
    <2>1. todo' # <<>> /\ Meaning(todo', W, g, call, SavedOf(disk, entry))
        BY Zenon, <1>5 DEF Meaning, MeansFill, MeansCopy, Is
    <2> QED BY <1>1, <1>2, <2>1, Continues DEF W, g
<1> QED BY <1>1, <1>4, <1>5 DEF PutLeaves, W, g

LEMMA PutInlineHolds ==
    ASSUME Sound(disk, entry, file, todo), Told(disk, entry, file, todo, call), PutInline
    PROVE  HoldsOn
<1> DEFINE V == Content(disk, file)
           g == file'
           y == todo[1].cells
           m == Len(y)
<1>1. Is(todo, "put") /\ todo # <<>> /\ todo \in Seq(CallSteps) /\ file \in Handles
    BY DoingIs DEF PutInline, Doing, Sound
<1>2. /\ disk' = disk /\ entry' = entry /\ got' = got /\ file.inline /\ Go(<<>>)
    BY DEF PutInline, storage
<1>3. Putting(todo, file) /\ ~file.reading /\ InlineOK(file)
    BY <1>1, <1>2, LegalOf, SoundHandle DEF Sound
<1>4. Top = todo[1] /\ y \in Seq(Cell) /\ m \in Nat /\ m > 0 /\ Tail(todo) \in Seq(CallSteps)
    BY <1>1, <1>3, PutBounds DEF Top
<1>5. file.pos \in Nat /\ file.size \in Nat
    BY <1>1, HandleType
<1>6. Sound(disk', entry', g, todo')
    BY PutInlineKeeps
<1>7. /\ g.pos = file.pos + m /\ g.size = file.size /\ g.writing /\ ~g.erred /\ ~g.reading
    BY <1>1, <1>3, <1>4 DEF PutInline, Handles
<1>8. Content(disk, g) = Promise!Put(V, file.pos, y)
    BY <1>2, <1>4, <1>6, PutInlineShows
<1> HIDE DEF g
<1>9. V \in Seq(Cell) /\ MeansPut(todo, V, file, call) /\ BeganOK(call)
    BY <1>1, ContentIs, MeaningOf DEF Told
<1>10. SubSeq(y, 1, m) = y
    <2> HIDE DEF y
    <2> QED BY <1>4
<1>11. file.head = Inline
    BY <1>3 DEF InlineOK
<1>12. (Tail(todo) # <<>> /\ Is(Tail(todo), "fill")) => Tail(todo)[1].to \in Nat
    BY Zenon, <1>4, Popped, StepType
<1> HIDE DEF V
<1>13. PutLeaves(todo, Promise!Put(V, file.pos, SubSeq(y, 1, m)), g, call)
    BY <1>2, <1>4, <1>5, <1>7, <1>9, <1>11, <1>12, PutMeans
<1>14. PutLeaves(todo, Content(disk', g), g, call)
    BY Zenon, <1>2, <1>8, <1>10, <1>13
<1>15. CleanOK(entry', g)
    BY <1>7 DEF CleanOK
<1> QED BY <1>1, <1>2, <1>6, <1>7, <1>14, <1>15, PutEnds DEF g

LEMMA PutHolds ==
    ASSUME Sound(disk, entry, file, todo), Told(disk, entry, file, todo, call), Put
    PROVE  HoldsOn
<1> DEFINE V == Content(disk, file)
           g == file'
           y == todo[1].cells
           m == Chunk
           L == Len(y)
           q == file.pos
           more == SubSeq(y, m + 1, L)
<1>1. Is(todo, "put") /\ todo # <<>> /\ todo \in Seq(CallSteps) /\ file \in Handles
    BY DoingIs DEF Put, Doing, Sound
<1>2. /\ entry' = entry /\ got' = got /\ ~file.inline /\ ~NeedsBlock
    BY DEF Put
<1>3. Top = todo[1] /\ y \in Seq(Cell) /\ L \in Nat /\ L > 0 /\ Tail(todo) \in Seq(CallSteps)
    <2>1. Putting(todo, file)
        BY <1>1, LegalOf DEF Sound
    <2> QED BY <1>1, <2>1, PutBounds DEF Top
<1>4. /\ file.writing /\ ~file.reading /\ file.off < BlockSize
      /\ m \in Nat /\ m > 0 /\ m <= L
      /\ m = L \/ file.off + m = BlockSize
      /\ more \in Seq(Cell) /\ Len(more) = L - m
    BY <1>1, <1>2, <1>3, PutFacts
<1>5. q \in Nat /\ file.size \in Nat /\ file.off \in Nat
    BY <1>1, HandleType
<1>6. Sound(disk', entry', g, todo')
    BY PutKeeps
<1>7. /\ g.pos = q + m /\ g.size = file.size /\ g.writing
      /\ g.erred = (file.erred /\ more # <<>>) /\ ~g.reading
    BY <1>1, <1>3, <1>4 DEF Put, Handles
<1>8. /\ Content(disk', g) = Promise!Put(V, q, SubSeq(y, 1, m))
      /\ SavedOf(disk', entry') = SavedOf(disk, entry)
    BY <1>3, PutShows
<1>9. Go(IF more = <<>> THEN <<>> ELSE PutStep(more))
    BY <1>3 DEF Put
<1> HIDE DEF g
<1>10. V \in Seq(Cell) /\ MeansPut(todo, V, file, call) /\ BeganOK(call)
    BY <1>1, ContentIs, MeaningOf DEF Told
<1>11. more = <<>> <=> m = L
    <2> HIDE DEF more
    <2> QED BY <1>3, <1>4
<1>12. file.head = Inline /\ q < file.size => q + m >= file.size
    <2> SUFFICES ASSUME file.head = Inline, q < file.size PROVE q + m >= file.size
        OBVIOUS
    <2>1. OutlinedOK(file, todo)
        BY <1>2, SoundHandle
    <2>2. file.size <= InlineMax /\ file.off = q /\ q + L >= file.size
        BY <1>1, <2>1 DEF OutlinedOK, Is
    <2> QED BY <1>3, <1>4, <1>5, <2>2, Bounds
<1>13. (Tail(todo) # <<>> /\ Is(Tail(todo), "fill")) => Tail(todo)[1].to \in Nat
    BY Zenon, <1>3, Popped, StepType
<1>14. g.erred => file.erred
    BY Zenon, <1>7
<1>15. m = L => ~g.erred
    BY Zenon, <1>7, <1>11
<1> HIDE DEF V, m, more
<1>16. PutLeaves(todo, Promise!Put(V, q, SubSeq(y, 1, m)), g, call)
    BY Zenon, <1>2, <1>3, <1>4, <1>5, <1>7, <1>10, <1>12, <1>13, <1>14, <1>15, PutMeans
<1> DEFINE W == Content(disk', g)
<1>17. PutLeaves(todo, W, g, call)
    BY <1>8, <1>16
<1>18. CleanOK(entry', g)
    BY <1>7 DEF CleanOK
<1>19. CASE m = L
    <2>1. Go(<<>>)
        BY <1>9, <1>11, <1>19
    <2> QED BY <1>1, <1>2, <1>6, <1>7, <1>8, <1>15, <1>17, <1>18, <1>19, <2>1, PutEnds DEF g
<1>20. CASE m # L
    <2> DEFINE z == [op |-> "put", cells |-> more]
    <2>1. Go(<<z>>)
        BY <1>9, <1>11, <1>20 DEF PutStep
    <2>2. z \in CallSteps /\ z.op = "put" /\ z.cells = more
        BY <1>4, StepMade
    <2> HIDE DEF z
    <2>3. todo' = <<z>> \o Tail(todo)
        BY <1>1, <2>1, <2>2, GoneOn
    <2>4. Is(todo', "put") /\ todo'[1] = z /\ Tail(todo') = Tail(todo) /\ todo' # <<>>
        BY Zenon, <1>3, <2>2, <2>3, Pushed
    <2>5. L # 1
        BY <1>3, <1>4, <1>20
    <2> HIDE DEF W
    <2>6. /\ Ends(todo, "put") /\ call.writes
          /\ \E p \in {call.pos, Len(call.view)}, k \in Nat, x \in Value :
                /\ k > 0 /\ g.pos = p + k
                /\ W = Promise!Put(call.view, p, Rep(k, x))
                /\ y = Rep(L, x)
        BY <1>17, <2>5 DEF PutLeaves
    <2>7. PICK p \in {call.pos, Len(call.view)}, k \in Nat, x \in Value :
                /\ k > 0 /\ g.pos = p + k
                /\ W = Promise!Put(call.view, p, Rep(k, x))
                /\ y = Rep(L, x)
        BY Zenon, <2>6
    <2>8. more = Rep(Len(more), x)
        <3> DEFINE l == L
        <3>1. x \in Cell /\ y = Rep(l, x) /\ l \in Nat
            BY <1>3, <2>7 DEF Cell
        <3> HIDE DEF l
        <3>2. SubSeq(Rep(l, x), m + 1, l) = Rep(l - m, x)
            <4>1. m <= l
                BY <1>4 DEF l
            <4> QED BY Zenon, <1>4, <3>1, <4>1, RepParts
        <3> QED BY <1>4, <3>1, <3>2 DEF more, l
    <2>9. MeansWrite(todo', W, g, call)
        BY Zenon, <2>2, <2>4, <2>6, <2>7, <2>8 DEF MeansWrite, Ends
    <2>10. Meaning(todo', W, g, call, SavedOf(disk, entry))
        BY <2>9 DEF Meaning, MeansPut
    <2>11. ReadingOK(disk', g, todo')
        BY <1>7 DEF ReadingOK
    <2> QED BY <1>1, <1>2, <1>8, <1>14, <1>18, <2>1, <2>4, <2>10, <2>11, Continues DEF g, W
<1> QED BY <1>19, <1>20

LEMMA PutBadHolds ==
    ASSUME Risks = {}, Sound(disk, entry, file, todo), Told(disk, entry, file, todo, call), PutBad
    PROVE  HoldsOn
<1> DEFINE g == file'
           V == Content(disk, file)
           c == Filled(file.cache, file.block, file.off, SubSeq(Top.cells, 1, Chunk))
<1>1. Is(todo, "put") /\ todo # <<>> /\ todo \in Seq(CallSteps) /\ file \in Handles
    BY DoingIs DEF PutBad, Doing, Sound
<1>2. /\ entry' = entry /\ got' = got /\ ~file.inline /\ Go(Step("relocate") \o <<Top>>)
    BY DEF PutBad
<1>3. /\ g.pos = file.pos /\ g.size = file.size /\ g.head = file.head /\ g.inline = file.inline
      /\ g.writing = file.writing /\ g.erred = file.erred /\ g.reading = file.reading
    <2>1. \E j : file' = [file EXCEPT !.cache = IF j = 1 THEN c ELSE Kept(c, j - 1)]
        BY DEF PutBad
    <2> HIDE DEF c
    <2> QED BY <1>1, <2>1 DEF Handles
<1>4. Tail(todo') = todo /\ Is(todo', "relocate") /\ todo' # <<>>
    <2>1. [op |-> "relocate"] \in CallSteps
        BY StepMade
    <2>2. todo' = <<[op |-> "relocate"]>> \o todo
        BY Zenon, <1>1, <1>2, <2>1, GoneOn DEF Step
    <2> QED BY <1>1, <2>1, <2>2, Pushed
<1>5. ~file.reading
    BY <1>1, LegalOf DEF Sound
<1>6. Content(disk', g) = V /\ SavedOf(disk', entry') = SavedOf(disk, entry)
    BY PutBadShows
<1> HIDE DEF g, V
<1>7. MeansPut(todo, V, file, call)
    BY <1>1, MeaningOf DEF Told, V
<1>8. MeansPut(todo, V, g, call)
    BY <1>3, <1>7, PutFrame
<1>9. Meaning(todo', V, g, call, SavedOf(disk, entry))
    BY Zenon, <1>4, <1>8 DEF MeansMove, Meaning
<1>10. CleanOK(entry', g) /\ ReadingOK(disk', g, todo')
    BY <1>2, <1>3, <1>5 DEF CleanOK, ReadingOK
<1> QED BY <1>1, <1>2, <1>3, <1>4, <1>6, <1>9, <1>10, Continues DEF g, V

LEMMA StartExtendHolds ==
    ASSUME Sound(disk, entry, file, todo), Told(disk, entry, file, todo, call), StartExtend
    PROVE  HoldsOn
<1> DEFINE g == file'
           V == Content(disk, file)
           found == ~file.writing /\ file.pos > 0
           from == IF found THEN CtzFind(disk, file.head, file.size, file.pos - 1).block
                   ELSE file.block
           x == [op |-> "extend", head |-> from, size |-> file.pos]
<1>1. Is(todo, "put") /\ todo # <<>> /\ todo \in Seq(CallSteps) /\ file \in Handles
    BY DoingIs DEF StartExtend, Doing, Sound
<1>2. /\ disk' = disk /\ entry' = entry /\ got' = got /\ ~file.inline
      /\ g = IF found THEN [file EXCEPT !.block = from, !.cache = NoCache] ELSE file
      /\ Go(<<x, Top>>)
    BY DEF StartExtend, storage
<1>3. ~file.reading
    BY <1>1, LegalOf DEF Sound
<1>4. x.op = "extend"
    OBVIOUS
<1> HIDE DEF from, x, g
<1>5. /\ g.pos = file.pos /\ g.size = file.size /\ g.head = file.head /\ g.inline = file.inline
      /\ g.writing = file.writing /\ g.erred = file.erred /\ g.reading = file.reading
      /\ file.writing => g = file
    <2>1. CASE found
        BY <1>1, <1>2, <2>1 DEF Handles
    <2>2. CASE ~found
        BY <1>2, <2>2
    <2> QED BY <2>1, <2>2
<1>6. x \in CallSteps
    <2>1. todo' \in Seq(CallSteps)
        BY StartExtendKeeps DEF Sound
    <2>2. todo' = <<x, Top>> \o Tail(todo)
        BY <1>2 DEF Go
    <2>3. Top \in CallSteps /\ Tail(todo) \in Seq(CallSteps)
        BY <1>1, GoneOn
    <2>4. todo'[1] = x /\ Len(todo') > 0
        BY <2>2, <2>3
    <2> QED BY <2>1, <2>4
<1>7. todo' = <<x>> \o todo
    BY <1>1, <1>2, <1>6, GoneOn
<1>8. Is(todo', "extend") /\ todo' # <<>> /\ Tail(todo') = todo
    BY <1>1, <1>4, <1>6, <1>7, Pushed
<1>9. Content(disk, g) = V
    <2>1. CASE file.writing
        BY <1>5, <2>1
    <2>2. CASE ~file.writing
        <3>1. file.head # Inline
            BY <1>2, <2>2, LengthIs
        <3> QED BY Zenon, <1>2, <1>5, <2>2, <3>1, RestingSame
    <2> QED BY <2>1, <2>2
<1> HIDE DEF V, found
<1>10. MeansPut(todo, V, file, call)
    BY <1>1, MeaningOf DEF Told, V
<1>11. MeansPut(todo, V, g, call)
    BY <1>5, <1>10, PutFrame
<1>12. Meaning(todo', V, g, call, SavedOf(disk, entry))
    BY Zenon, <1>8, <1>11 DEF Meaning, MeansExtend
<1>13. CleanOK(entry, g) /\ ReadingOK(disk, g, todo')
    BY <1>2, <1>3, <1>5 DEF CleanOK, ReadingOK
<1> QED BY <1>1, <1>2, <1>5, <1>8, <1>9, <1>12, <1>13, Continues DEF g, V

LEMMA ExtendHolds ==
    ASSUME Sound(disk, entry, file, todo), Told(disk, entry, file, todo, call),
           NEW b \in Blocks, Extend(b)
    PROVE  HoldsOn
<1> DEFINE g == file'
           V == Content(disk, file)
           s == Tail(todo)
<1>1. Is(todo, "extend") /\ todo # <<>> /\ todo \in Seq(CallSteps) /\ file \in Handles
    BY DoingIs DEF Extend, Doing, Sound
<1>2. entry' = entry /\ got' = got /\ Go(<<>>)
    BY DEF Extend
<1>3. /\ g.pos = file.pos /\ g.size = file.size /\ g.head = file.head /\ g.inline = file.inline
      /\ g.writing /\ g.erred = file.erred /\ g.reading = file.reading
    <2> DEFINE h == Header(Top.head, Top.size)
               c == Filled(file.cache, b, 0, h)
               n == Flushes(c)
    <2>1. g = [file EXCEPT !.block = b, !.off = Len(h), !.writing = TRUE,
                           !.cache = IF h = <<>> THEN @ ELSE Kept(c, n)]
        BY DEF Extend
    <2> HIDE DEF h, c, n, g
    <2> QED BY <1>1, <2>1 DEF Handles
<1>4. todo' = s
    BY <1>1, <1>2, GoneOn
<1>5. Putting(s, file) /\ ~file.reading /\ ~file.inline
    BY <1>1, ExtendFacts
<1>6. Content(disk', g) = V /\ SavedOf(disk', entry') = SavedOf(disk, entry)
    BY ExtendShows
<1> HIDE DEF g, V, s
<1>7. MeansPut(s, V, file, call)
    BY <1>1, MeaningOf DEF Told, V, s
<1>8. Is(Tail(s), "copy") => file.writing
    BY <1>5 DEF Putting, FillsUp, Is
<1>9. MeansPut(s, V, g, call)
    BY <1>3, <1>7, <1>8, PutFrame
<1>10. todo' # <<>> /\ ~Is(todo', "get") /\ Meaning(todo', V, g, call, SavedOf(disk, entry))
    BY <1>4, <1>5, <1>9 DEF Meaning, Putting, Is
<1>11. CleanOK(entry', g) /\ ReadingOK(disk', g, todo')
    BY <1>3, <1>5 DEF CleanOK, ReadingOK
<1> QED BY <1>1, <1>2, <1>3, <1>6, <1>10, <1>11, Continues DEF g, V

LEMMA ExtendBadHolds ==
    ASSUME Risks = {}, Sound(disk, entry, file, todo), Told(disk, entry, file, todo, call),
           NEW b \in Blocks, ExtendBad(b)
    PROVE  HoldsOn
<1> DEFINE V == Content(disk, file)
<1>1. Is(todo, "extend") /\ todo # <<>> /\ todo \in Seq(CallSteps)
    BY DoingIs DEF ExtendBad, Doing, Sound
<1>2. entry' = entry /\ got' = got
    BY DEF ExtendBad
<1>3. Content(disk', file') = V /\ SavedOf(disk', entry') = SavedOf(disk, entry) /\ file' = file
    BY ExtendBadShows
<1>4. PICK y : Go(<<y>>) /\ y.op = "extend"
    <2> DEFINE h == Header(Top.head, Top.size)
               c == Filled(file.cache, b, 0, h)
               last == CtzIndex(Top.size - 1)
               hd(j) == IF last.off + 1 # BlockSize THEN Top.head
                        ELSE h[PointerSize * ((j * CacheSize - 1) \div PointerSize) + 1]
               z(j) == [op |-> "extend", size |-> last.off + 1, head |-> hd(j)]
    <2>1. Go(<<Top>>) \/ \E j \in 1 .. Flushes(c) : Go(<<z(j)>>)
        BY Zenon DEF ExtendBad
    <2>2. Top.op = "extend"
        BY <1>1 DEF Top, Is
    <2>3. \A j : z(j).op = "extend"
        OBVIOUS
    <2> HIDE DEF z, c
    <2> QED BY <2>1, <2>2, <2>3
<1>5. Is(todo', "extend") /\ todo' # <<>> /\ Tail(todo') = Tail(todo)
    <2>1. Tail(todo) \in Seq(CallSteps)
        BY <1>1, GoneOn
    <2>2. todo' = <<y>> \o Tail(todo)
        BY <1>4 DEF Go
    <2>3. y \in CallSteps
        <3>1. todo' \in Seq(CallSteps)
            BY ExtendBadKeeps DEF Sound
        <3>2. todo'[1] = y /\ Len(todo') > 0
            BY <2>1, <2>2
        <3> QED BY <3>1, <3>2
    <2> QED BY Zenon, <1>4, <2>1, <2>2, <2>3, Pushed
<1>6. ~file.reading /\ ~file.inline
    BY <1>1, ExtendFacts
<1> HIDE DEF V
<1>7. MeansPut(Tail(todo), V, file, call)
    BY <1>1, MeaningOf DEF Told, V
<1>8. Meaning(todo', V, file, call, SavedOf(disk, entry))
    BY Zenon, <1>5, <1>7 DEF Meaning, MeansExtend
<1>9. CleanOK(entry', file') /\ ReadingOK(disk', file', todo')
    BY <1>3, <1>6 DEF CleanOK, ReadingOK
<1> QED BY <1>1, <1>2, <1>3, <1>4, <1>5, <1>8, <1>9, Continues DEF V

LEMMA RelocateBadHolds ==
    ASSUME Sound(disk, entry, file, todo), Told(disk, entry, file, todo, call),
           NEW b \in Blocks, RelocateBad(b)
    PROVE  HoldsOn
<1> DEFINE V == Content(disk, file)
<1>1. Is(todo, "relocate") /\ todo # <<>> /\ todo \in Seq(CallSteps)
    BY DoingIs DEF RelocateBad, Doing, Sound
<1>2. entry' = entry /\ got' = got /\ file' = file /\ Go(<<Top>>)
    BY DEF RelocateBad
<1>3. todo' = todo
    BY <1>1, <1>2, GoneOn
<1>4. Content(disk', file') = V /\ SavedOf(disk', entry') = SavedOf(disk, entry)
    BY RelocateBadShows
<1>5. ~file.reading
    BY <1>1, MovingFacts
<1>6. Meaning(todo', V, file', call, SavedOf(disk, entry)) /\ CleanOK(entry', file')
    BY <1>1, <1>2, <1>3 DEF Told
<1>7. ReadingOK(disk', file', todo')
    BY <1>2, <1>5 DEF ReadingOK
<1> QED BY <1>1, <1>2, <1>3, <1>4, <1>6, <1>7, Continues

LEMMA SaveOnly ==
    ASSUME NEW s, NEW V, NEW p, NEW f, NEW c, Means(s, V, p, f, c), Is(s, "commit")
    PROVE  MeansSave(s, V, p, c)
    BY DEF Means, MeansGet, MeansSet, MeansCut, MeansGo, Ends, Is

\* What a step means that was to write, once the block has been copied.
LEMMA MovedPut ==
    ASSUME NEW f, NEW g, NEW s, NEW V \in Seq(Cell), NEW c, MeansPut(s, V, f, c), BeganOK(c),
           f.inline, f.head = Inline, ~g.inline,
           g.pos = f.pos, g.size = f.size, g.head = f.head, g.erred => f.erred,
           f.pos \in Nat, f.size \in Nat, f.pos <= Len(V),
           f.pos < f.size => Len(V) = f.size, f.pos >= f.size => Len(V) = f.pos
    PROVE  MeansPut(s, SubSeq(V, 1, f.pos), g, c)
<1> DEFINE q == f.pos
           W == SubSeq(V, 1, q)
<1>1. ASSUME Len(V) = q PROVE W = V
    <2> HIDE DEF q
    <2> QED BY <1>1
<1>2. CASE MeansWrite(s, V, f, c)
    <2>1. PICK p \in {c.pos, Len(c.view)}, k \in Nat, x \in Value :
             /\ q = p + k
             /\ s[1].cells = Rep(Len(s[1].cells), x)
             /\ V = Promise!Put(c.view, p, Rep(k, x))
        BY <1>2 DEF MeansWrite
    <2>2. W = V \/ (Len(V) <= g.size /\ q < g.size)
        BY <1>1
    <2>3. MeansWrite(s, W, g, c)
        <3> HIDE DEF W
        <3>1. \/ W = V
              \/ W = SubSeq(V, 1, g.pos) /\ Len(V) <= g.size /\ g.pos < g.size
            BY <2>2 DEF W
        <3> QED BY Zenon, <1>2, <2>1, <3>1 DEF MeansWrite
    <2> QED BY <2>3 DEF MeansPut
<1>3. CASE /\ Is(s, "put") /\ s[1].cells = <<Zero>>
           /\ MeansFill(Tail(s), V, f, c) /\ f.pos < Tail(s)[1].to
    <2>1. V = Grown(c.view, q) /\ Len(c.view) <= q /\ c.view \in Seq(Cell)
        BY <1>3 DEF MeansFill, BeganOK
    <2>2. Len(V) = q
        BY <2>1, GrownIs
    <2>3. W = V
        BY <1>1, <2>2
    <2>6. g.pos = q /\ q < Tail(s)[1].to
        BY Zenon, <1>3
    <2> HIDE DEF W
    <2>4. MeansFill(Tail(s), W, g, c)
        BY Zenon, <1>3, <2>3 DEF MeansFill
    <2>5. MeansPut(s, W, g, c)
        BY Zenon, <1>3, <2>4, <2>6 DEF MeansPut
    <2> QED BY <2>5 DEF W
<1> QED BY Zenon, <1>2, <1>3 DEF MeansPut

LEMMA RelocateHolds ==
    ASSUME Sound(disk, entry, file, todo), Told(disk, entry, file, todo, call),
           NEW b \in Blocks, Relocate(b)
    PROVE  HoldsOn
<1> DEFINE g == file'
           V == Content(disk, file)
           W == Content(disk', g)
           s == Tail(todo)
<1>1. Is(todo, "relocate") /\ todo # <<>> /\ todo \in Seq(CallSteps) /\ file \in Handles
    BY DoingIs DEF Relocate, Doing, Sound
<1>2. entry' = entry /\ got' = got /\ Go(<<>>)
    BY DEF Relocate
<1>3. todo' = s
    BY <1>1, <1>2, GoneOn
<1>4. /\ Moving(todo, file) /\ ~file.reading
      /\ file.inline => InlineOK(file)
      /\ ~file.inline => file.writing
    BY <1>1, MovingFacts
<1>5. /\ g.pos = file.pos /\ g.size = file.size /\ g.head = file.head /\ ~g.inline
      /\ g.writing /\ g.erred = file.erred /\ g.reading = file.reading
    <2> DEFINE c == Filled(NoCache, b, 0, Copied)
               c2 == IF file.off = 0 THEN NoCache ELSE Kept(c, Flushes(c))
    <2>1. g = [file EXCEPT !.cache = c2, !.block = b, !.writing = TRUE, !.inline = FALSE]
        BY DEF Relocate
    <2> HIDE DEF c2, g
    <2> QED BY <1>1, <2>1 DEF Handles
<1>6. /\ file.pos \in Nat /\ file.size \in Nat
      /\ file.inline \in BOOLEAN /\ g.inline \in BOOLEAN
    <2>1. g \in Handles
        BY RelocateKeeps DEF Sound
    <2> HIDE DEF g
    <2> QED BY <1>1, <2>1, HandleType
<1>7. /\ ~file.inline => W = V
      /\ file.inline => file.pos <= Len(V) /\ W = SubSeq(V, 1, file.pos)
      /\ SavedOf(disk', entry') = SavedOf(disk, entry)
      /\ V \in Seq(Cell) /\ Len(V) = Length(file)
    BY RelocateShows, ContentIs
<1>8. BeganOK(call) /\ MeansMove(todo, V, file, call)
    BY <1>1, MeaningOf DEF Told
<1> HIDE DEF g, V, W, s
<1>9. ASSUME ~file.inline
      PROVE  MeansPut(s, W, g, call) \/ MeansDrain(s, W, g, call) \/ MeansFlush(s, W, g, call)
    <2>5. W = V /\ (g.erred => file.erred) /\ file.writing /\ g.inline = file.inline
        BY <1>4, <1>5, <1>6, <1>7, <1>9
    <2>6. MeansPut(s, V, file, call) => MeansPut(s, V, g, call)
        BY <1>5, <2>5, PutFrame
    <2>1. MeansPut(s, V, file, call) => MeansPut(s, W, g, call)
        BY <2>5, <2>6
    <2>7. MeansDrain(s, V, file, call) => MeansDrain(s, V, g, call)
        BY <2>5, MeansFrame
    <2>2. MeansDrain(s, V, file, call) => MeansDrain(s, W, g, call)
        BY <2>5, <2>7
    <2>3. MeansFlush(s, V, file, call) => MeansFlush(s, W, g, call)
        <3> DEFINE q == file.pos
        <3>1. q = g.pos /\ W = V
            BY <1>5, <1>7, <1>9
        <3> HIDE DEF q
        <3>2. Means(Tail(s), V, q, file, call) => Means(Tail(s), V, q, g, call)
            BY <1>4, <1>5, <1>9, MeansFrame
        <3> QED BY <3>1, <3>2 DEF MeansFlush, q
    <2>4. MeansPut(s, W, g, call) \/ MeansDrain(s, W, g, call) \/ MeansFlush(s, W, g, call)
        BY <1>8, <2>1, <2>2, <2>3 DEF MeansMove, s
    <2> QED BY <2>4
<1>10. ASSUME file.inline
       PROVE  MeansPut(s, W, g, call) \/ MeansDrain(s, W, g, call) \/ MeansFlush(s, W, g, call)
    <2>1. file.head = Inline /\ ~Is(s, "drain")
        BY <1>4, <1>10 DEF InlineOK, Moving, Putting, Is, s
    <2>2. CASE Is(s, "put")
        <3>1. Starting(file)
            BY <1>4, <1>10, <2>2 DEF Moving, Is, s
        <3>2. /\ file.pos < file.size => Len(V) = file.size
              /\ file.pos >= file.size => Len(V) = file.pos
            BY <1>6, <1>7, <1>10, <3>1 DEF Length, SizeOf, Starting
        <3>3. MeansPut(s, V, file, call)
            BY <1>8, <2>2 DEF MeansMove, MeansDrain, MeansFlush, Is, s
        <3>4. MeansPut(s, SubSeq(V, 1, file.pos), g, call)
            <4>1. /\ file.pos <= Len(V) /\ (g.erred => file.erred) /\ V \in Seq(Cell)
                  /\ g.pos = file.pos /\ g.size = file.size /\ g.head = file.head /\ ~g.inline
                BY <1>5, <1>7, <1>10
            <4> QED BY <1>6, <1>8, <1>10, <2>1, <3>2, <3>3, <4>1, MovedPut
        <3> QED BY Zenon, <1>7, <1>10, <3>4
    <2>3. CASE ~Is(s, "put")
        <3>1. Is(s, "flush") /\ ~file.writing /\ file.pos = file.size
            BY <1>4, <1>10, <2>1, <2>3 DEF Moving, Putting, Draining, s
        <3>2. Len(V) = file.pos
            BY <1>7, <1>10, <3>1 DEF Length, SizeOf
        <3>3. W = V
            <4> DEFINE q == file.pos
            <4>1. W = SubSeq(V, 1, q) /\ Len(V) = q /\ V \in Seq(Cell)
                BY <1>7, <1>10, <3>2
            <4> HIDE DEF q
            <4> QED BY <4>1
        <3>4. MeansFlush(s, V, file, call) /\ Is(Tail(s), "commit")
            BY <1>8, <2>1, <2>3 DEF MeansMove, MeansDrain, MeansPut, MeansWrite, Ends, s
        <3> DEFINE q == file.pos
        <3>5. Means(Tail(s), V, q, file, call)
            BY <3>4 DEF MeansFlush
        <3> HIDE DEF q
        <3>6. MeansSave(Tail(s), V, q, call)
            BY <3>4, <3>5, SaveOnly
        <3>7. Means(Tail(s), V, q, g, call) /\ g.pos = q
            BY <1>5, <3>6 DEF Means, q
        <3>8. MeansFlush(s, V, g, call)
            BY <3>1, <3>7 DEF MeansFlush
        <3> QED BY <3>3, <3>8
    <2> QED BY <2>2, <2>3
<1>11. MeansPut(s, W, g, call) \/ MeansDrain(s, W, g, call) \/ MeansFlush(s, W, g, call)
    BY <1>9, <1>10
<1>12. todo' # <<>> /\ Meaning(todo', W, g, call, SavedOf(disk, entry))
    BY Zenon, <1>3, <1>11 DEF Meaning, MeansPut, MeansWrite, MeansDrain, MeansFlush, Ends, Is
<1>13. CleanOK(entry', g) /\ ReadingOK(disk', g, todo')
    BY <1>4, <1>5 DEF CleanOK, ReadingOK
<1> QED BY <1>1, <1>2, <1>5, <1>7, <1>12, <1>13, Continues DEF g, W

\* What is shown before all has been written, or copied.
LEMMA MeansFits ==
    ASSUME NEW s, NEW V, NEW p, NEW f, NEW c, Means(s, V, p, f, c), BeganOK(c),
           f.writing \/ Is(s, "commit")
    PROVE  Fits(V, c)
<1>1. Fits(c.view, c)
    BY FitsSame
<1>2. CASE V = c.view
    BY <1>1, <1>2
<1>3. CASE \E n \in 0 .. MaxSize : n > Len(c.view) /\ V = Grown(c.view, n)
    <2>1. PICK n \in 0 .. MaxSize : n > Len(c.view) /\ V = Grown(c.view, n)
        BY <1>3
    <2>2. n \in Nat /\ n <= MaxSize /\ Len(c.view) <= n
        BY <2>1, Bounds DEF BeganOK
    <2> QED BY <2>1, <2>2, FitsGrown
<1>4. Is(s, "setpos") => f.writing
    BY DEF Is
<1> QED BY <1>2, <1>3, <1>4 DEF Means, MeansGet, MeansSet, MeansSave, MeansCut, MeansGo, Ends

LEMMA PutFits ==
    ASSUME NEW s, NEW V, NEW f, NEW c, MeansPut(s, V, f, c), BeganOK(c),
           f.pos \in Nat, f.pos <= MaxSize,
           f.head = Inline /\ ~f.inline => f.pos >= f.size, f.size \in Nat,
           Is(Tail(s), "copy") => f.writing
    PROVE  Fits(V, c)
<1>1. CASE MeansWrite(s, V, f, c)
    <2>4. ~(f.head = Inline /\ ~f.inline /\ f.pos < f.size)
        OBVIOUS
    <2>1. PICK p \in {c.pos, Len(c.view)}, k \in Nat, x \in Value :
             f.pos = p + k /\ V = Promise!Put(c.view, p, Rep(k, x))
        BY Zenon, <1>1, <2>4, Zenon DEF MeansWrite
    <2>2. p \in Nat
        BY Bounds DEF BeganOK
    <2>3. k \in 0 .. MaxSize
        BY <2>1, <2>2, Bounds
    <2> QED BY <2>1, <2>3 DEF Fits
<1>2. CASE MeansFill(Tail(s), V, f, c)
    <2> DEFINE q == f.pos
    <2>1. q \in Nat /\ q <= MaxSize /\ Len(c.view) <= q /\ V = Grown(c.view, q)
        BY <1>2 DEF MeansFill
    <2> HIDE DEF q
    <2> QED BY <2>1, FitsGrown
<1>3. CASE MeansCopy(Tail(s), V, f, c)
    <2> DEFINE t == Tail(Tail(Tail(Tail(s))))
               q == Tail(Tail(Tail(s)))[1].pos
    <2>1. Means(t, V, q, f, c) /\ f.writing
        BY Zenon, <1>3 DEF MeansCopy, MeansDrain, MeansSettle
    <2> HIDE DEF t, q
    <2> QED BY <2>1, MeansFits
<1> QED BY <1>1, <1>2, <1>3 DEF MeansPut

\* An error in a call whose handle shows something that fits.
LEMMA ErringHolds ==
    ASSUME Sound(disk, entry, file, todo), Told(disk, entry, file, todo, call), todo # <<>>,
           disk' = disk, entry' = entry, got' = got, file' = Erring(file), Fails,
           Whole(disk', entry', file', todo'), ~file.reading, Fits(Content(disk, file), call)
    PROVE  HoldsOn
<1>1. CASE file' = Closed
    BY <1>1, FailsShown
<1>2. CASE file' # Closed
    <2> DEFINE g == file'
               e == file.erred \/ Within("put") \/ Within("commit")
    <2>1. file \in Handles
        BY DEF Sound
    <2>2. g = [file EXCEPT !.erred = e]
        BY <1>2 DEF Erring
    <2> HIDE DEF e, g
    <2>3. /\ g.writing = file.writing /\ g.inline = file.inline /\ g.head = file.head
          /\ g.size = file.size /\ g.cache = file.cache /\ g.pos = file.pos /\ g.off = file.off
          /\ g.block = file.block /\ g.dirty = file.dirty /\ g.reading = file.reading
        BY <2>1, <2>2 DEF Handles
    <2>4. Content(disk, g) = Content(disk, file)
        BY <2>3, SameShown
    <2>5. Sound(disk', entry', g, todo')
        BY <1>2 DEF Whole, g
    <2>6. CleanOK(entry, g)
        BY <2>3 DEF Told, CleanOK
    <2> QED BY <2>3, <2>4, <2>5, <2>6, FailsShown DEF g
<1> QED BY <1>1, <1>2

LEMMA NoSpaceHolds ==
    ASSUME Risks = {}, Sound(disk, entry, file, todo), Told(disk, entry, file, todo, call), NoSpace
    PROVE  HoldsOn
<1> DEFINE V == Content(disk, file)
           s == Tail(todo)
<1>1. Is(todo, "extend") \/ Is(todo, "relocate")
    BY DoingIs DEF NoSpace
<1>2. todo # <<>> /\ todo \in Seq(CallSteps) /\ file \in Handles
    BY <1>1 DEF Sound, Is
<1>3. disk' = disk /\ entry' = entry /\ got' = got /\ file' = Erring(file) /\ Fails
    BY DEF NoSpace, storage
<1>4. Whole(disk', entry', file', todo')
    BY NoSpaceKeeps
<1>5. file.pos \in Nat /\ file.pos <= MaxSize /\ file.size \in Nat
    BY <1>2, HandleType
<1>6. BeganOK(call)
    BY <1>2 DEF Told
<1>7. CASE Is(todo, "extend")
    <2>1. MeansPut(s, V, file, call)
        BY <1>2, <1>7, MeaningOf DEF Told
    <2>2. ~file.reading /\ ~file.inline /\ Putting(s, file)
        BY <1>7, ExtendFacts
    <2>3. file.head = Inline => file.pos >= file.size
        <3>1. OutlinedOK(file, todo)
            BY <2>2, SoundHandle
        <3>2. ~Is(todo, "put") /\ ~Is(todo, "relocate")
            BY <1>7 DEF Is
        <3> QED BY <1>5, <3>1, <3>2 DEF OutlinedOK
    <2>4. Is(Tail(s), "copy") => file.writing
        BY <2>2 DEF Putting, FillsUp, Is
    <2> HIDE DEF V, s
    <2>5. Fits(V, call)
        BY <1>5, <1>6, <2>1, <2>3, <2>4, PutFits
    <2> QED BY <1>2, <1>3, <1>4, <2>2, <2>5, ErringHolds DEF V
<1>8. CASE Is(todo, "relocate")
    <2>1. MeansMove(todo, V, file, call)
        BY <1>2, <1>8, MeaningOf DEF Told
    <2>2. Moving(todo, file) /\ ~file.reading
        BY <1>8, MovingFacts
    <2>3. ASSUME Is(s, "put") PROVE file.inline
        <3>1. Within("put")
            <4>1. todo # <<>> /\ s # <<>> /\ s[1].op = "put"
                BY <1>2, <2>3 DEF Is
            <4>2. Len(todo) \in Nat /\ Len(s) = Len(todo) - 1 /\ s \in Seq(CallSteps)
                BY <1>2
            <4>3. Len(s) > 0
                BY <4>1, <4>2
            <4>4. s[1] = todo[2] /\ 2 \in DOMAIN todo
                BY <1>2, <4>1, <4>2, <4>3
            <4> QED BY <4>1, <4>4 DEF Within
        <3>2. Doing("relocate")
            BY <1>8 DEF Doing, Top, Is
        <3> QED BY <3>1, <3>2 DEF NoSpace, PartlyPut
    <2> HIDE DEF V, s
    <2>4. CASE MeansPut(s, V, file, call)
        <3>1. Is(s, "put")
            BY <2>4 DEF MeansPut, MeansWrite, Ends
        <3>2. Putting(s, file)
            BY <2>2, <3>1 DEF Moving, Draining, Is, s
        <3>3. Is(Tail(s), "copy") => file.writing
            BY <3>2 DEF Putting, FillsUp, Is
        <3>4. Fits(V, call)
            BY <1>5, <1>6, <2>3, <2>4, <3>1, <3>3, PutFits
        <3> QED BY <1>2, <1>3, <1>4, <2>2, <3>4, ErringHolds DEF V
    <2>5. CASE MeansDrain(s, V, file, call)
        <3> DEFINE t == Tail(Tail(s))
                   q == Tail(s)[1].pos
        <3>1. Means(t, V, q, file, call) /\ Is(s, "drain")
            BY Zenon, <2>5 DEF MeansDrain, MeansSettle
        <3>2. file.writing
            BY <2>2, <3>1 DEF Moving, Putting, Is, s
        <3> HIDE DEF t, q
        <3>3. Fits(V, call)
            BY <1>6, <3>1, <3>2, MeansFits
        <3> QED BY <1>2, <1>3, <1>4, <2>2, <3>3, ErringHolds DEF V
    <2>6. CASE MeansFlush(s, V, file, call) /\ Is(Tail(s), "commit")
        <3> DEFINE q == file.pos
                   t == Tail(s)
        <3>1. Means(t, V, q, file, call) /\ Is(t, "commit")
            BY <2>6 DEF MeansFlush
        <3> HIDE DEF q, t
        <3>2. Fits(V, call)
            BY <1>6, <3>1, MeansFits
        <3> QED BY <1>2, <1>3, <1>4, <2>2, <3>2, ErringHolds DEF V
    <2> QED BY <2>1, <2>4, <2>5, <2>6 DEF MeansMove, s
<1> QED BY <1>1, <1>7, <1>8

\* A clean handle shows what is saved.
LEMMA CleanSaved ==
    ASSUME NEW d, NEW e, NEW f, NEW s, Sound(d, e, f, s), ~Is(s, "put"), ~f.writing, ~f.dirty,
           CleanOK(e, f)
    PROVE  e # Absent /\ SavedOf(d, e) = Content(d, f)
<1>1. e # Absent /\ f.head = e.head /\ f.size = e.size
    BY SoundHandle
<1>2. ViewOf(d, f) = Content(d, f)
    BY ViewIs
<1>3. CASE f.inline
    <2>1. e.head = Inline /\ e.data = SubSeq(f.cache.data, 1, f.size)
        BY <1>1, <1>3, SoundHandle DEF InlineOK, CleanOK
    <2> QED BY <1>1, <1>2, <1>3, <2>1 DEF SavedOf, ViewOf, SizeOf
<1>4. CASE ~f.inline
    <2>1. f.head # Inline
        BY <1>4, LengthIs
    <2>2. d \in Device(Cell) /\ f \in Handles
        BY DEF Sound
    <2> DEFINE h == f.head
               n == f.size
               w == Cells(d, NoCache, h, n)
    <2>3. n \in Nat /\ n <= MaxSize
        BY <2>2, HandleType
    <2>4. SavedOf(d, e) = w
        BY <1>1, <2>1 DEF SavedOf
    <2>5. ViewOf(d, f) = IF n > 0 THEN w ELSE <<>>
        BY <1>4, <2>1 DEF ViewOf, OldOf
    <2> HIDE DEF h, n
    <2>6. w \in Seq(Cell) /\ Len(w) = n
        BY <2>2, <2>3, CellsIs, Bounds
    <2> HIDE DEF w
    <2>7. ~(n > 0) => w = <<>>
        BY <2>3, <2>6
    <2> QED BY <1>1, <1>2, <2>4, <2>5, <2>7
<1> QED BY <1>3, <1>4

LEMMA CommitFullHolds ==
    ASSUME Risks = {}, Sound(disk, entry, file, todo), Told(disk, entry, file, todo, call),
           CommitFull
    PROVE  HoldsOn
<1> DEFINE V == Content(disk, file)
<1>1. Is(todo, "commit") /\ todo # <<>> /\ todo \in Seq(CallSteps) /\ file \in Handles
    BY DoingIs DEF CommitFull, Doing, Sound
<1>2. disk' = disk /\ entry' = entry /\ got' = got
    BY DEF CommitFull, storage
<1>3. ~file.reading /\ ~file.writing
    BY <1>1, LegalOf DEF Sound
<1>4. MeansSave(todo, V, file.pos, call) /\ BeganOK(call)
    BY <1>1, MeaningOf DEF Told
<1>5. CASE file.inline
    <2> DEFINE g == file'
               m == [op |-> "relocate"]
               l == [op |-> "flush"]
               u == <<l>> \o todo
    <2>1. g = [file EXCEPT !.off = file.pos] /\ Go(Step("relocate") \o Step("flush") \o <<Top>>)
        BY <1>5 DEF CommitFull
    <2>2. m \in CallSteps /\ l \in CallSteps /\ m.op = "relocate" /\ l.op = "flush"
        BY StepMade
    <2>3. todo' = <<m>> \o u
        <3>1. todo' = ((<<m>> \o <<l>>) \o <<Top>>) \o Tail(todo)
            BY <2>1 DEF Go, Step
        <3>2. Top \in CallSteps /\ Tail(todo) \in Seq(CallSteps) /\ <<Top>> \o Tail(todo) = todo
            BY <1>1, Popped DEF Top
        <3> HIDE DEF m, l
        <3>3. ((<<m>> \o <<l>>) \o <<Top>>) \o Tail(todo) = <<m>> \o (<<l>> \o (<<Top>> \o Tail(todo)))
            BY <2>2, <3>2, PushThree
        <3> QED BY <3>1, <3>2, <3>3
    <2> HIDE DEF m, l, g
    <2>4. u \in Seq(CallSteps) /\ Tail(u) = todo /\ Is(u, "flush")
        BY <1>1, <2>2, Pushed
    <2> HIDE DEF u
    <2>5. Tail(todo') = u /\ Is(todo', "relocate") /\ todo' # <<>>
        BY <2>2, <2>3, <2>4, Pushed
    <2>6. /\ g.pos = file.pos /\ g.size = file.size /\ g.head = file.head /\ g.inline = file.inline
          /\ g.writing = file.writing /\ g.erred = file.erred /\ g.dirty = file.dirty
          /\ g.cache = file.cache /\ g.reading = file.reading
        BY <1>1, <2>1 DEF Handles
    <2>7. Content(disk, g) = V
        BY Zenon, <1>3, <1>5, <2>6, RestingSame
    <2> HIDE DEF V
    <2>8. MeansFlush(u, V, g, call)
        BY Zenon, <1>4, <2>4, <2>6 DEF MeansFlush, Means
    <2>9. Meaning(todo', V, g, call, SavedOf(disk, entry))
        BY Zenon, <1>1, <2>4, <2>5, <2>8 DEF Meaning, MeansMove
    <2>10. CleanOK(entry, g) /\ ReadingOK(disk, g, todo')
        BY <1>3, <2>6 DEF Told, CleanOK, ReadingOK
    <2> QED BY <1>1, <1>2, <2>1, <2>5, <2>6, <2>7, <2>9, <2>10, Continues DEF g, V
<1>6. CASE ~file.inline
    <2>1. file' = Erring(file) /\ Fails
        BY <1>6 DEF CommitFull
    <2>2. Fits(V, call)
        <3>1. V = call.view
            BY <1>4 DEF MeansSave
        <3> QED BY <1>4, <3>1, FitsSame
    <2>3. Whole(disk', entry', file', todo')
        BY CommitFullKeeps
    <2> QED BY <1>1, <1>2, <1>3, <2>1, <2>2, <2>3, ErringHolds
<1> QED BY <1>5, <1>6

LEMMA FlushHolds ==
    ASSUME Sound(disk, entry, file, todo), Told(disk, entry, file, todo, call), Flush
    PROVE  HoldsOn
<1> DEFINE V == Content(disk, file)
           f == DropRead(file)
           g == file'
           s == Tail(todo)
<1>1. Is(todo, "flush") /\ todo # <<>> /\ todo \in Seq(CallSteps) /\ file \in Handles
    BY DoingIs DEF Flush, Doing, Sound
<1>2. disk' = disk /\ entry' = entry /\ got' = got
    BY DEF Flush, storage
<1>3. Means(s, V, file.pos, file, call) /\ CleanOK(entry, file)
    BY <1>1, MeaningOf DEF Told
<1>4. /\ f \in Handles
      /\ f.inline = file.inline /\ f.writing = file.writing /\ f.pos = file.pos
      /\ f.size = file.size /\ f.dirty = file.dirty
      /\ ~f.reading
      /\ file.writing => f = file
    BY DropOf
<1>5. /\ f.inline => f.cache = file.cache
      /\ f.erred = file.erred
    BY <1>4, DropShows
<1>6. Content(disk, g) = V
    BY FlushShows
<1>7. s \in Seq(CallSteps)
    BY <1>1, GoneOn
<1>8. f.pos \in 0 .. MaxSize
    BY <1>4, HandleType
<1> DEFINE settle == [op |-> "settle", pos |-> f.pos]
<1>9. settle \in CallSteps /\ settle.op = "settle" /\ settle.pos = file.pos
    BY Zenon, <1>4, <1>8, StepMade
<1>10. CASE ~file.writing
    <2>1. g = f /\ Go(<<>>)
        BY <1>4, <1>10 DEF Flush
    <2>2. todo' = s
        BY <1>1, <2>1, GoneOn
    <2> HIDE DEF f, g, V, s
    <2>3. Means(s, V, g.pos, g, call)
        <3> DEFINE q == file.pos
        <3>1. Means(s, V, q, file, call) /\ (g.erred => file.erred) /\ (g.writing => file.writing)
              /\ g.pos = q
            BY <1>3, <1>4, <1>5, <2>1
        <3> HIDE DEF q
        <3> QED BY <3>1, MeansFrame
    <2>4. todo' # <<>> /\ Meaning(todo', V, g, call, SavedOf(disk, entry))
        BY <2>2, <2>3 DEF Meaning, Means, MeansGet, MeansSet, MeansSave, MeansCut, MeansGo, Ends, Is
    <2>5. CleanOK(entry, g) /\ ReadingOK(disk, g, todo')
        BY <1>3, <1>4, <1>5, <2>1 DEF CleanOK, ReadingOK
    <2> QED BY <1>1, <1>2, <1>5, <1>6, <2>1, <2>4, <2>5, Continues DEF g, V
<1>11. CASE file.writing /\ file.inline
    <2> DEFINE m == Max({file.pos, file.size})
    <2>1. g = [file EXCEPT !.pos = m] /\ Go(<<settle>>)
        BY <1>4, <1>11 DEF Flush
    <2> HIDE DEF m, f, settle, g
    <2>2. todo' = <<settle>> \o s
        BY <1>1, <1>9, <2>1, GoneOn
    <2>3. todo' # <<>> /\ Is(todo', "settle") /\ Tail(todo') = s /\ todo'[1] = settle
        BY Zenon, <1>7, <1>9, <2>2, Pushed
    <2>4. /\ g.writing = file.writing /\ g.erred = file.erred /\ g.reading = file.reading
        BY <1>1, <2>1 DEF Handles
    <2> HIDE DEF V, s
    <2>5. Means(s, V, settle.pos, g, call)
        <3> DEFINE q == file.pos
        <3>1. Means(s, V, q, file, call) /\ settle.pos = q
            BY <1>3, <1>9
        <3> HIDE DEF q
        <3> QED BY <2>4, <3>1, MeansFrame
    <2>6. Meaning(todo', V, g, call, SavedOf(disk, entry))
        BY Zenon, <2>3, <2>5 DEF Meaning, MeansSettle
    <2>7. CleanOK(entry, g) /\ ReadingOK(disk, g, todo')
        BY <1>11, <2>3, <2>4 DEF CleanOK, ReadingOK, Is
    <2> QED BY Zenon, <1>1, <1>2, <1>6, <2>1, <2>3, <2>4, <2>6, <2>7, Continues DEF g, V
<1>12. CASE file.writing /\ ~file.inline
    <2> DEFINE c == [op |-> "copy"]
               r == [op |-> "drain"]
               u == <<settle>> \o s
               v == <<r>> \o u
               all == (<<c>> \o <<r>>) \o <<settle>>
    <2>1. file' = file /\ Go(all)
        BY <1>4, <1>12 DEF Flush, Step
    <2>2. /\ c \in CallSteps /\ c.op = "copy" /\ r \in CallSteps /\ r.op = "drain"
        BY StepMade
    <2> HIDE DEF settle, c, r, f
    <2>3. todo' = all \o s
        BY <2>1 DEF Go
    <2>4. todo' = <<c>> \o v
        BY <1>7, <1>9, <2>2, <2>3, PushThree
    <2>5. u \in Seq(CallSteps) /\ Is(u, "settle") /\ Tail(u) = s /\ u[1] = settle
        BY Zenon, <1>7, <1>9, <2>2, Pushed
    <2> HIDE DEF u
    <2>6. v \in Seq(CallSteps) /\ Is(v, "drain") /\ Tail(v) = u
        BY <2>2, <2>5, Pushed
    <2> HIDE DEF v, all
    <2>7. Is(todo', "copy") /\ Tail(todo') = v /\ todo' # <<>>
        BY <2>2, <2>4, <2>6, Pushed
    <2> HIDE DEF V, s
    <2>8. MeansSettle(u, V, file, call)
        BY Zenon, <1>3, <1>9, <2>5 DEF MeansSettle
    <2>9. MeansCopy(todo', V, file, call)
        BY Zenon, <2>6, <2>7, <2>8 DEF MeansCopy, MeansDrain
    <2>10. Meaning(todo', V, file, call, SavedOf(disk, entry))
        BY <2>9 DEF Meaning
    <2>11. ReadingOK(disk, file, todo')
        BY <2>7 DEF ReadingOK, Is
    <2> QED BY <1>1, <1>2, <1>3, <1>6, <2>1, <2>7, <2>10, <2>11, Continues DEF V
<1> QED BY <1>10, <1>11, <1>12

LEMMA CommitHolds ==
    ASSUME Sound(disk, entry, file, todo), Told(disk, entry, file, todo, call), Commit
    PROVE  HoldsOn
<1> DEFINE V == Content(disk, file)
           g == file'
           s == Tail(todo)
<1>1. Is(todo, "commit") /\ todo # <<>> /\ todo \in Seq(CallSteps) /\ file \in Handles
    BY DoingIs DEF Commit, Doing, Sound
<1>2. /\ disk' = disk /\ got' = got /\ Go(<<>>)
      /\ IF Commits
         THEN /\ entry' = IF file.inline THEN InlineEntry(SubSeq(file.cache.data, 1, file.size))
                          ELSE [head |-> file.head, size |-> file.size, data |-> <<>>]
              /\ g = [file EXCEPT !.dirty = FALSE]
         ELSE entry' = entry /\ g = file
    BY DEF Commit
<1>3. Saving(todo) /\ ~file.writing /\ ~file.reading
    BY <1>1, LegalOf DEF Sound
<1>4. todo' = s
    BY <1>1, <1>2, GoneOn
<1>5. /\ ~call.writes /\ V = call.view /\ file.pos = call.pos
      /\ BeganOK(call) /\ CallOK(call) /\ CleanOK(entry, file) /\ (file.erred => call.failed)
    BY <1>1, MeaningOf DEF Told, MeansSave
<1>6. Sound(disk', entry', g, todo')
    BY CommitKeeps
<1> HIDE DEF g
<1>7. /\ g.pos = file.pos /\ g.size = file.size /\ g.head = file.head /\ g.inline = file.inline
      /\ g.writing = file.writing /\ g.erred = file.erred /\ g.cache = file.cache
      /\ g.reading = file.reading
      /\ g.dirty = (file.dirty /\ ~Commits)
    <2>1. CASE Commits
        BY Zenon, <1>1, <1>2, <2>1 DEF Handles
    <2>2. CASE ~Commits
        BY <1>1, <1>2, <2>2, HandleType
    <2> QED BY <2>1, <2>2
<1>8. Content(disk, g) = V
    <2>1. ~file.inline => file.head # Inline
        BY <1>3, LengthIs
    <2> QED BY <1>3, <1>7, <2>1, RestingSame
<1>9. CleanOK(entry', g)
    <2>1. CASE Commits /\ file.inline
        <3>1. entry' = InlineEntry(SubSeq(file.cache.data, 1, file.size))
            BY <1>2, <2>1
        <3>2. entry'.data = SubSeq(file.cache.data, 1, file.size)
            BY Zenon, <3>1 DEF InlineEntry
        <3> QED BY <1>7, <3>2 DEF CleanOK
    <2>2. CASE ~Commits
        BY <1>2, <1>5, <2>2
    <2>3. CASE ~file.inline
        BY <1>7, <2>3 DEF CleanOK
    <2> QED BY <2>1, <2>2, <2>3
<1>10. ReadingOK(disk', g, todo')
    BY <1>3, <1>7 DEF ReadingOK
<1>11. \/ SavedOf(disk', entry') = V
       \/ SavedOf(disk', entry') = SavedOf(disk, entry) /\ call.failed
    <2>1. CASE ~g.dirty
        <3> DEFINE d2 == disk'
                   e2 == entry'
                   t2 == todo'
        <3>1. ~Is(t2, "put") /\ Sound(d2, e2, g, t2) /\ CleanOK(e2, g) /\ ~g.writing
            BY <1>3, <1>4, <1>6, <1>7, <1>9 DEF Saving, Ends, Is
        <3> HIDE DEF d2, e2, t2
        <3>2. SavedOf(d2, e2) = Content(d2, g)
            BY <2>1, <3>1, CleanSaved
        <3> QED BY <1>2, <1>8, <3>2 DEF d2, e2
    <2>2. CASE g.dirty
        <3>1. ~Commits /\ file.dirty
            BY Zenon, <1>7, <2>2
        <3> QED BY <1>2, <1>5, <3>1 DEF Commits
    <2> QED BY <2>1, <2>2
<1>12. Saved' = SavedOf(disk', entry') /\ Saved = SavedOf(disk, entry)
    BY SavedNow, SavedThen
<1> HIDE DEF V, s
<1>13. CASE s = <<>>
    <2>1. todo' = <<>>
        BY <1>4, <1>13
    <2>2. g.erred => file.erred /\ ~call.writes
        BY <1>5, <1>7
    <2>3. /\ Holds' /\ result' = "ok" /\ call'.failed = call.failed
          /\ file' # Closed /\ View' = V
        BY <1>2, <1>5, <1>6, <1>8, <1>9, <1>10, <2>1, <2>2, Returns DEF g
    <2>4. call.failed \in BOOLEAN
        BY <1>5 DEF CallOK
    <2>5. Promise!Next
        BY <1>1, <1>2, <1>5, <1>7, <1>11, <1>12, <2>1, <2>3, <2>4, SyncReturns DEF g
    <2> QED BY <2>3, <2>5 DEF HoldsOn
<1>14. CASE Ends(s, "close")
    <2>1. Is(todo', "close") /\ todo' # <<>>
        BY <1>4, <1>14 DEF Ends, Is
    <2>2. result' = result /\ call' = call
        BY <1>2, <2>1, GoOn
    <2>3. CASE SavedOf(disk', entry') = V
        <3>1. Promise!Next
            BY <1>1, <1>2, <1>5, <1>12, <2>1, <2>2, <2>3, Saves
        <3>2. Meaning(todo', Content(disk', g), g, call, SavedOf(disk', entry'))
            BY <1>2, <1>5, <1>8, <2>1, <2>3 DEF Meaning
        <3>3. Told(disk', entry', g, todo', call')
            BY <1>5, <1>7, <1>9, <1>10, <2>2, <3>2 DEF Told
        <3>4. Holds'
            BY <1>5, <2>2, <3>3 DEF Holds, g
        <3> QED BY <3>1, <3>4 DEF HoldsOn
    <2>4. CASE SavedOf(disk', entry') = SavedOf(disk, entry) /\ call.failed
        <3>1. Meaning(todo', V, g, call, SavedOf(disk, entry))
            BY <1>5, <2>1, <2>4 DEF Meaning
        <3> QED BY <1>1, <1>2, <1>7, <1>8, <1>9, <1>10, <2>1, <2>4, <3>1, Continues DEF g
    <2> QED BY <1>11, <2>3, <2>4
<1> QED BY <1>3, <1>13, <1>14 DEF Saving, s

LEMMA ClosesHolds ==
    ASSUME Sound(disk, entry, file, todo), Told(disk, entry, file, todo, call), Closes
    PROVE  HoldsOn
<1>1. Is(todo, "close") /\ todo # <<>> /\ todo \in Seq(CallSteps)
    BY DoingIs DEF Closes, Doing, Sound
<1>2. disk' = disk /\ entry' = entry /\ got' = got /\ file' = Closed /\ Go(<<>>)
    BY DEF Closes, storage
<1>3. todo' = <<>>
    <2>1. todo' = Tail(todo)
        BY <1>1, <1>2, GoneOn
    <2> QED BY <1>1, <2>1, LegalOf DEF Sound
<1>4. ~call.writes /\ CallOK(call) /\ (call.failed \/ SavedOf(disk, entry) = call.view)
    BY <1>1, MeaningOf DEF Told
<1>5. result' = "ok" /\ call' = call
    BY <1>2, <1>3, <1>4, GoOn
<1>6. Saved' = Saved /\ Saved = SavedOf(disk, entry)
    BY <1>2, SavedNow, SavedThen
<1>7. call.failed \in BOOLEAN
    BY <1>4 DEF CallOK
<1>8. Promise!Next
    BY <1>1, <1>2, <1>3, <1>4, <1>5, <1>6, <1>7, CloseReturns
<1> QED BY <1>2, <1>4, <1>5, <1>8 DEF HoldsOn, Holds

\* What has been read, and the piece that is read next.
Reads(V, q, r, s) == Len(s) = r - q /\ \A j \in 1 .. r - q : s[j] = V[q + j]

Piece(V, p, q) == SubSeq(V, p + 1, q)

Joined(w, s, V, p, r) == w \o s = Piece(V, p, r) /\ Len(w \o s) = r - p

LEMMA ReadOn ==
    ASSUME NEW V \in Seq(Cell), NEW p \in Nat, NEW q \in Nat, NEW r \in Nat,
           p <= q, q <= r, r <= Len(V), NEW w \in Seq(Cell), w = Piece(V, p, q),
           NEW s \in Seq(Cell), Reads(V, q, r, s)
    PROVE  Joined(w, s, V, p, r)
<1> DEFINE u == Piece(V, p, r)
           v == w \o s
<1>1. Len(w) = q - p /\ \A j \in 1 .. q - p : w[j] = V[p + j]
    BY DEF Piece
<1>2. u \in Seq(Cell) /\ Len(u) = r - p /\ \A j \in 1 .. r - p : u[j] = V[p + j]
    BY DEF Piece
<1>3. Len(s) = r - q /\ \A j \in 1 .. r - q : s[j] = V[q + j]
    BY DEF Reads
<1>4. /\ v \in Seq(Cell) /\ Len(v) = Len(w) + Len(s)
      /\ \A j \in 1 .. Len(w) + Len(s) : v[j] = IF j <= Len(w) THEN w[j] ELSE s[j - Len(w)]
    BY JoinIs
<1> HIDE DEF u, v
<1>5. Len(v) = r - p
    BY <1>1, <1>3, <1>4
<1>6. \A j \in 1 .. r - p : v[j] = u[j]
    <2> SUFFICES ASSUME NEW j \in 1 .. r - p PROVE v[j] = u[j]
        OBVIOUS
    <2>1. v[j] = IF j <= q - p THEN w[j] ELSE s[j - (q - p)]
        BY <1>1, <1>3, <1>4
    <2>2. CASE j <= q - p
        BY <1>1, <1>2, <2>1, <2>2
    <2>3. CASE ~(j <= q - p)
        <3> DEFINE i == j - (q - p)
        <3>1. i \in 1 .. r - q /\ q + i = p + j
            BY <2>3
        <3>2. v[j] = s[i]
            BY <2>1, <2>3
        <3> HIDE DEF i
        <3>3. s[i] = V[q + i]
            BY <1>3, <3>1
        <3> QED BY Zenon, <1>2, <3>1, <3>2, <3>3
    <2> QED BY <2>2, <2>3
<1>7. v = u
    BY Zenon, <1>2, <1>4, <1>5, <1>6, SeqSame
<1> QED BY <1>5, <1>7 DEF Joined, u, v

\* The end of a read, by its bound or that of the file.
LEMMA ReadEnds ==
    ASSUME NEW V \in Seq(Cell), Len(V) <= MaxSize, NEW p \in Nat, NEW n \in Nat,
           NEW w \in Seq(Cell), n + Len(w) > 0, w # <<>> => p + Len(w) <= Len(V),
           w = SubSeq(V, p + 1, p + Len(w)), n = 0 \/ p + Len(w) >= Len(V)
    PROVE  \E m \in 1 .. MaxSize : w = SubSeq(V, p + 1, Promise!Least(p + m, Len(V)))
<1> DEFINE k == Len(w)
           L == Len(V)
           m == IF n + k <= MaxSize THEN n + k ELSE MaxSize
           l == Promise!Least(p + m, L)
<1>1. MaxSize \in Nat /\ MaxSize >= 1
    BY BoundAssumption, Bounds
<1>2. k \in Nat /\ L \in Nat /\ (w = <<>> <=> k = 0)
    OBVIOUS
<1>3. m \in 1 .. MaxSize
    BY <1>1, <1>2
<1>4. l = IF p + m < L THEN p + m ELSE L
    BY DEF Promise!Least
<1>5. CASE k > 0
    <2>1. l = p + k
        BY <1>1, <1>2, <1>4, <1>5
    <2> QED BY Zenon, <1>3, <2>1
<1>6. CASE k = 0
    <2>1. n > 0 /\ p >= L
        BY <1>2, <1>6
    <2>2. l = L
        BY <1>1, <1>2, <1>3, <1>4, <2>1
    <2>3. SubSeq(V, p + 1, L) = <<>>
        BY <2>1
    <2> QED BY Zenon, <1>2, <1>3, <1>6, <2>2, <2>3
<1> QED BY <1>2, <1>5, <1>6

LEMMA GetHolds ==
    ASSUME Sound(disk, entry, file, todo), Told(disk, entry, file, todo, call), Get
    PROVE  HoldsOn
<1> DEFINE V == Content(disk, file)
           g == file'
           w == todo[1].cells
           n0 == todo[1].n
           p == call.pos
<1>1. Is(todo, "get") /\ todo # <<>> /\ todo \in Seq(CallSteps) /\ file \in Handles
    BY DoingIs DEF Get, Doing, Sound
<1>2. disk' = disk /\ entry' = entry /\ Top = todo[1]
    BY DEF Get, storage, Top
<1>3. Tail(todo) = <<>> /\ ~file.writing
    BY <1>1, LegalOf DEF Sound
<1>4. w \in Seq(Cell) /\ n0 \in Nat
    BY ZenonT(60), <1>1, Popped, StepType
<1>5. /\ CallOK(call) /\ BeganOK(call) /\ CleanOK(entry, file) /\ ReadingOK(disk, file, todo)
      /\ MeansGet(todo, V, file.pos, call)
    BY <1>1, MeaningOf DEF Told
<1>6. /\ ~call.writes /\ V = call.view /\ n0 + Len(w) > 0 /\ file.pos = p + Len(w)
      /\ (w # <<>> => file.pos <= Len(V)) /\ w = SubSeq(V, p + 1, file.pos)
    BY Zenon, <1>5 DEF MeansGet
<1>7. V \in Seq(Cell) /\ Len(V) = file.size /\ file.size \in Nat /\ file.size <= MaxSize
      /\ file.pos \in Nat /\ p \in Nat
    BY <1>1, <1>3, <1>5, ContentIs, LengthIs, HandleType, Bounds DEF BeganOK
<1>8. Saved' = Saved /\ SavedOf(disk', entry') = SavedOf(disk, entry)
    BY <1>2, SavedNow, SavedThen
<1> HIDE DEF V, w, n0, p, g
<1>9. CASE n0 = 0 \/ file.pos >= file.size
    <2>1. got' = w /\ Go(<<>>) /\ g = file
        BY <1>2, <1>9 DEF Get, w, n0, g
    <2>2. todo' = <<>>
        BY Zenon, <1>1, <1>3, <2>1, GoneOn
    <2>3. Sound(disk', entry', g, todo')
        BY GetKeeps DEF g
    <2>4. CleanOK(entry', g) /\ ReadingOK(disk', g, todo')
        BY <1>1, <1>2, <1>5, <2>1, <2>2 DEF ReadingOK
    <2>5. g.erred => file.erred /\ ~call.writes
        BY <1>6, <2>1
    <2>6. /\ Holds' /\ result' = "ok" /\ call'.failed = call.failed
          /\ file' # Closed /\ View' = V
        BY <1>2, <1>6, <2>1, <2>2, <2>3, <2>4, <2>5, Returns DEF g, V
    <2>7. call.failed \in BOOLEAN
        BY <1>5 DEF CallOK
    <2>8. PICK m \in 1 .. MaxSize : w = SubSeq(V, p + 1, Promise!Least(p + m, Len(V)))
        <3>1. w = SubSeq(V, p + 1, p + Len(w)) /\ (w # <<>> => p + Len(w) <= Len(V))
              /\ (n0 = 0 \/ p + Len(w) >= Len(V)) /\ Len(V) <= MaxSize /\ n0 + Len(w) > 0
            <4>1. file.pos = p + Len(w) /\ Len(V) = file.size /\ file.size <= MaxSize
                BY <1>6, <1>7
            <4>2. w = SubSeq(V, p + 1, p + Len(w)) /\ (w # <<>> => p + Len(w) <= Len(V))
                BY Zenon, <1>6, <4>1
            <4>3. n0 = 0 \/ p + Len(w) >= Len(V)
                BY <1>9, <4>1
            <4> QED BY Zenon, <1>6, <4>1, <4>2, <4>3
        <3>2. V \in Seq(Cell) /\ p \in Nat /\ n0 \in Nat /\ w \in Seq(Cell)
            BY <1>4, <1>7
        <3> QED BY Zenon, <3>1, <3>2, ReadEnds
    <2>9. /\ got' = SubSeq(call.view, call.pos + 1, Promise!Least(call.pos + m, Len(call.view)))
          /\ file'.pos = call.pos + Len(got') /\ View' = call.view
        BY Zenon, <1>6, <2>1, <2>6, <2>8 DEF g, p
    <2>10. Promise!Next
        BY Zenon, <1>1, <1>8, <2>2, <2>6, <2>7, <2>9, ReadReturns
    <2> QED BY <2>6, <2>10 DEF HoldsOn
<1>10. CASE ~(n0 = 0 \/ file.pos >= file.size)
    <2>1. got' = got
        BY <1>2, <1>10 DEF Get, n0
    <2>2. PICK n \in Nat, s \in Seq(Cell) :
              /\ n > 0 /\ n <= n0 /\ file.pos + n <= file.size
              /\ Len(s) = n /\ \A j \in 1 .. n : s[j] = V[file.pos + j]
              /\ Is(todo', "get") /\ Tail(todo') = <<>>
              /\ todo'[1].n = n0 - n /\ todo'[1].cells = w \o s
              /\ \E steps : Go(steps)
              /\ g.pos = file.pos + n
              /\ g.inline = file.inline /\ g.head = file.head
              /\ g.size = file.size /\ g.writing = file.writing
              /\ g.dirty = file.dirty /\ g.erred = file.erred
              /\ file.inline => g.cache = file.cache
              /\ ReadingOK(disk, g, todo')
        <3>1. ~(Top.n = 0 \/ file.pos >= file.size)
            BY <1>2, <1>10 DEF n0
        <3> QED BY Zenon, <1>2, <1>5, <3>1, GetShows DEF V, w, n0, g
    <2>3. PICK steps : Go(steps)
        BY <2>2
    <2> DEFINE k == Len(w)
    <2>4. w \o s = SubSeq(V, p + 1, p + k + n) /\ Len(w \o s) = k + n /\ g.pos = p + k + n
        <3>1. file.pos = p + k /\ k \in Nat /\ p + k + n <= Len(V) /\ w = SubSeq(V, p + 1, p + k)
            <4>1. file.pos = p + Len(w) /\ w = SubSeq(V, p + 1, file.pos)
                BY Zenon, <1>6
            <4>2. w = SubSeq(V, p + 1, p + k)
                BY Zenon, <4>1
            <4>3. k \in Nat
                BY <1>4
            <4>4. file.pos = p + k /\ file.pos + n <= Len(V)
                BY <1>7, <2>2, <4>1
            <4> HIDE DEF k
            <4>5. p + k + n <= Len(V)
                BY <4>4
            <4> QED BY <4>2, <4>3, <4>4, <4>5
        <3>2. \A j \in 1 .. n : s[j] = V[(p + k) + j]
            BY <2>2, <3>1
        <3>3. g.pos = p + k + n
            BY <2>2, <3>1
        <3> HIDE DEF k
        <3>4. V \in Seq(Cell) /\ p \in Nat /\ n \in Nat /\ n > 0 /\ w \in Seq(Cell)
              /\ s \in Seq(Cell) /\ Len(s) = n
            BY <1>4, <1>7, <2>2
        <3>5. /\ p + k + n <= Len(V) /\ k \in Nat /\ w = SubSeq(V, p + 1, p + k)
              /\ V \in Seq(Cell) /\ p \in Nat /\ n \in Nat /\ n > 0 /\ w \in Seq(Cell)
              /\ s \in Seq(Cell) /\ Len(s) = n /\ \A j \in 1 .. n : s[j] = V[(p + k) + j]
            BY Zenon, <3>1, <3>2, <3>4
        <3> DEFINE q == p + k
                   r == q + n
        <3>6. /\ q \in Nat /\ r \in Nat /\ p <= q /\ q <= r
              /\ r <= Len(V) /\ w = SubSeq(V, p + 1, q) /\ r - q = n
            BY <3>5
        <3>10. w = Piece(V, p, q)
            BY <3>6 DEF Piece
        <3>9. Reads(V, q, r, s)
            BY <3>5, <3>6 DEF Reads
        <3>8. r = p + k + n /\ r - p = k + n
            BY <3>5
        <3> HIDE DEF q, r
        <3>7. Joined(w, s, V, p, r)
            <4>1. V \in Seq(Cell) /\ p \in Nat /\ w \in Seq(Cell) /\ s \in Seq(Cell)
                BY <3>5
            <4>2. q \in Nat /\ r \in Nat /\ p <= q /\ q <= r /\ r <= Len(V)
                BY <3>6
            <4> QED BY ONLY <4>1, <4>2, <3>9, <3>10, ReadOn
        <3> QED BY Zenon, <3>3, <3>7, <3>8 DEF Piece, Joined
    <2>5. Content(disk, g) = V
        <3>1. ~file.inline => file.head # Inline
            BY <1>3, LengthIs
        <3> QED BY <1>3, <2>2, <3>1, RestingSame DEF V
    <2>6. MeansGet(todo', V, g.pos, call)
        <3> DEFINE z == todo'[1]
        <3>1. /\ z.n + Len(z.cells) > 0 /\ g.pos = p + Len(z.cells) /\ g.pos <= Len(V)
              /\ z.cells = SubSeq(V, p + 1, g.pos)
            <4>1. z.n = n0 - n /\ z.cells = w \o s
                BY <2>2
            <4> HIDE DEF z
            <4>2. k \in Nat /\ n \in Nat /\ p \in Nat /\ n0 \in Nat /\ n > 0 /\ n <= n0
                BY <1>4, <1>7, <2>2
            <4>3. g.pos <= Len(V)
                BY <1>7, <2>2
            <4>4. Len(z.cells) = k + n /\ z.cells = SubSeq(V, p + 1, p + k + n)
                  /\ g.pos = p + k + n
                BY Zenon, <2>4, <4>1
            <4> HIDE DEF k
            <4>5. p + k + n = p + (k + n)
                BY <4>2
            <4>6. z.n + Len(z.cells) > 0
                BY <4>1, <4>2, <4>4
            <4>7. g.pos = p + Len(z.cells) /\ z.cells = SubSeq(V, p + 1, g.pos)
                BY <4>4, <4>5
            <4> QED BY Zenon, <4>3, <4>6, <4>7
        <3> HIDE DEF z
        <3>2. Is(todo', "get") /\ ~call.writes /\ V = call.view
            BY <1>6, <2>2
        <3> QED BY Zenon, <3>1, <3>2 DEF MeansGet, z, p
    <2>7. todo' # <<>> /\ Meaning(todo', V, g, call, SavedOf(disk, entry))
        BY <2>2, <2>6 DEF Meaning, Means, Is
    <2>8. CleanOK(entry, g)
        BY <1>5, <2>2 DEF CleanOK
    <2> QED BY <1>1, <1>2, <1>8, <2>1, <2>2, <2>3, <2>5, <2>7, <2>8, Continues DEF g
<1> QED BY <1>9, <1>10

LEMMA CutHolds ==
    ASSUME Sound(disk, entry, file, todo), Told(disk, entry, file, todo, call), Cut
    PROVE  HoldsOn
<1> DEFINE V == Content(disk, file)
           g == file'
           W == Content(disk, g)
           n == todo[1].size
<1>1. Is(todo, "cut") /\ todo # <<>> /\ todo \in Seq(CallSteps) /\ file \in Handles
    BY DoingIs DEF Cut, Doing, Sound
<1>2. disk' = disk /\ entry' = entry /\ got' = got /\ Go(<<>>) /\ Top = todo[1]
    BY DEF Cut, storage, Top
<1>3. ~file.writing /\ ~file.reading
    BY <1>1, LegalOf DEF Sound
<1>4. todo' = Tail(todo)
    BY <1>1, <1>2, GoneOn
<1>5. MeansCut(todo, V, call) /\ BeganOK(call)
    BY <1>1, MeaningOf DEF Told
<1>6. n \in Nat /\ W = SubSeq(V, 1, n)
    <2>1. Sound(disk, entry, file', todo')
        BY <1>2, CutKeeps
    <2> QED BY <1>2, <2>1, CutShows
<1>7. /\ g.writing = file.writing /\ g.erred = file.erred /\ g.dirty
    <2> DEFINE at == IF file.inline THEN [block |-> Inline, off |-> Top.size]
                     ELSE CtzFind(disk, file.head, file.size, Top.size)
    <2>1. g = [file EXCEPT !.block = at.block, !.off = at.off, !.head = at.block,
                           !.size = Top.size, !.dirty = TRUE, !.reading = TRUE]
        BY DEF Cut
    <2> HIDE DEF at, g
    <2> QED BY <1>1, <2>1 DEF Handles
<1> HIDE DEF g, V, W, n
<1>8. /\ ~call.writes /\ V = call.view /\ n < Len(V) /\ BackTo(todo', call.pos)
    BY <1>4, <1>5 DEF MeansCut, n
<1>9. n \in 0 .. Len(call.view) /\ W = SubSeq(call.view, 1, n)
    BY <1>5, <1>6, <1>8 DEF BeganOK
<1>10. MeansSet(Tail(todo'), W, g, call)
    BY Zenon, <1>3, <1>7, <1>8, <1>9 DEF MeansSet, BackTo, Returning
<1>11. Is(todo', "flush") /\ todo' # <<>>
    BY <1>8 DEF BackTo, Returning, Is
<1>12. Meaning(todo', W, g, call, SavedOf(disk, entry))
    BY <1>10, <1>11 DEF Meaning, MeansFlush, Means
<1>13. CleanOK(entry, g) /\ ReadingOK(disk, g, todo')
    BY <1>7, <1>11 DEF CleanOK, ReadingOK, Is
<1> QED BY <1>1, <1>2, <1>7, <1>11, <1>12, <1>13, Continues DEF g, W

-----------------------------------------------------------------------------
(* The calls.                                                                *)

\* The call that begins.
Called(w) == [Shown EXCEPT !.writes = w]

LEMMA CalledIs ==
    ASSUME Sound(disk, entry, file, todo), todo = <<>>, CallOK(call), NEW w \in BOOLEAN
    PROVE  /\ CallOK(Called(w)) /\ BeganOK(Called(w))
           /\ Called(w).view = Content(disk, file) /\ Called(w).view = View
           /\ Called(w).pos = file.pos /\ Called(w).writes = w /\ Called(w).failed = call.failed
<1> DEFINE z == [view |-> View, pos |-> file.pos, writes |-> w, failed |-> call.failed]
<1>1. Called(w) = z
    BY DEF Called, Shown
<1>2. View = Content(disk, file)
    BY ViewShown DEF Is
<1>3. file.pos \in 0 .. MaxSize /\ file \in Handles
    <2>1. file \in Handles
        BY DEF Sound
    <2> QED BY <2>1, HandleType, Bounds
<1>4. Content(disk, file) \in Seq(Cell) /\ Len(Content(disk, file)) <= MaxSize
    BY ContentIs, LengthIs
<1>5. call.failed \in BOOLEAN
    BY DEF CallOK
<1> DEFINE V == Content(disk, file)
           q == file.pos
           x == call.failed
<1>6. z = [view |-> V, pos |-> q, writes |-> w, failed |-> x]
    BY <1>2
<1>7. V \in Seq(Cell) /\ Len(V) <= MaxSize /\ q \in 0 .. MaxSize /\ x \in BOOLEAN
    BY <1>3, <1>4, <1>5
<1> HIDE DEF z, V, q, x
<1>8. z.view = V /\ z.pos = q /\ z.writes = w /\ z.failed = x
    BY <1>6
<1>9. CallOK(z)
    BY <1>6, <1>7, <1>8 DEF CallOK
<1>10. BeganOK(z)
    BY <1>7, <1>8 DEF BeganOK
<1> QED BY <1>1, <1>2, <1>8, <1>9, <1>10 DEF V, q, x

\* A call begins.
LEMMA Begins ==
    ASSUME Sound(disk, entry, file, todo), Told(disk, entry, file, todo, call), todo = <<>>,
           disk' = disk, entry' = entry, got' = got, result' = result, todo' # <<>>,
           NEW w \in BOOLEAN, call' = Called(w),
           file'.erred => file.erred, CleanOK(entry', file'), ReadingOK(disk', file', todo'),
           Meaning(todo', Content(disk', file'), file', Called(w), SavedOf(disk, entry))
    PROVE  HoldsOn
<1>1. CallOK(call)
    BY DEF Told
<1>2. file # Closed
    BY HandleOpen DEF Sound
<1> DEFINE c == Called(w)
<1>3. /\ CallOK(c) /\ BeganOK(c) /\ c.view = View /\ c.pos = file.pos /\ c.failed = call.failed
    BY <1>1, CalledIs
<1>4. call' = c
    OBVIOUS
<1> HIDE DEF c
<1>5. Saved' = Saved
    BY SavedNow, SavedThen
<1>6. Promise!Next
    BY <1>2, <1>3, <1>4, <1>5, CallBegins
<1>7. file'.erred => c.failed
    BY <1>3 DEF Told
<1>8. Told(disk', entry', file', todo', call')
    <2>1. Meaning(todo', Content(disk', file'), file', c, SavedOf(disk, entry))
        BY DEF c
    <2>2. SavedOf(disk', entry') = SavedOf(disk, entry)
        OBVIOUS
    <2> QED BY <1>3, <1>4, <1>7, <2>1, <2>2 DEF Told
<1> QED BY <1>3, <1>4, <1>6, <1>8 DEF HoldsOn, Holds

\* A call that only says what is to be done.
LEMMA Starts ==
    ASSUME Sound(disk, entry, file, todo), Told(disk, entry, file, todo, call),
           NEW s \in Seq(CallSteps), NEW w \in BOOLEAN, Start(s, w), s # <<>>,
           Meaning(s, Content(disk, file), file, Called(w), SavedOf(disk, entry))
    PROVE  HoldsOn
<1>1. /\ todo = <<>> /\ todo' = s /\ disk' = disk /\ entry' = entry /\ file' = file
      /\ got' = got /\ result' = result
    BY DEF Start, Begin, storage
<1>2. call' = Called(w)
    BY DEF Start, Called
<1>3. CleanOK(entry, file) /\ ReadingOK(disk, file, <<>>)
    BY <1>1 DEF Told
<1>4. ReadingOK(disk, file, s)
    BY <1>3 DEF ReadingOK
<1> QED BY <1>1, <1>2, <1>3, <1>4, Begins

LEMMA Opened ==
    ASSUME Whole(disk, entry, file, todo), Holds, file # Closed
    PROVE  Sound(disk, entry, file, todo) /\ Told(disk, entry, file, todo, call)
    BY DEF Whole, Holds

\* What follows a flush.
LEMMA FlushThen ==
    ASSUME NEW t \in Seq(CallSteps), NEW x \in CallSteps, x.op = "flush",
           NEW V, NEW f, NEW c, NEW z, Means(t, V, f.pos, f, c)
    PROVE  /\ <<x>> \o t \in Seq(CallSteps) /\ <<x>> \o t # <<>>
           /\ Meaning(<<x>> \o t, V, f, c, z)
<1> DEFINE s == <<x>> \o t
<1>1. s \in Seq(CallSteps) /\ s # <<>> /\ Tail(s) = t /\ Is(s, "flush")
    BY Pushed
<1> HIDE DEF s
<1>2. Meaning(s, V, f, c, z)
    BY Zenon, <1>1 DEF Meaning, MeansFlush
<1> QED BY <1>1, <1>2 DEF s

LEMMA ReadHolds ==
    ASSUME Whole(disk, entry, file, todo), Holds, NEW n \in ReadSizes, Read(n)
    PROVE  HoldsOn
<1> DEFINE x == [op |-> "flush"]
           y == [op |-> "get", n |-> n, cells |-> <<>>]
           c == Called(FALSE)
           V == Content(disk, file)
<1>1. n \in Nat /\ n > 0 /\ <<>> \in Seq(Cell)
    BY BoundAssumption
<1>2. x \in CallSteps /\ y \in CallSteps /\ x.op = "flush" /\ y.op = "get"
      /\ y.n = n /\ y.cells = <<>>
    BY Zenon, <1>1, StepMade
<1>3. Start((IF file # Closed /\ file.writing THEN <<x>> ELSE <<>>) \o <<y>>, FALSE)
    BY Zenon DEF Read, Step
<1>4. file # Closed /\ todo = <<>>
    BY DEF Read, Start, Begin
<1>5. Sound(disk, entry, file, todo) /\ Told(disk, entry, file, todo, call)
    BY <1>4, Opened
<1>6. c.view = V /\ c.pos = file.pos /\ c.writes = FALSE
    BY Zenon, <1>4, <1>5, CalledIs DEF Told
<1>7. file.pos \in Nat /\ V \in Seq(Cell)
    BY <1>5, ContentIs, LengthIs, HandleType
<1> HIDE DEF x, y, c, V
<1>8. <<y>> \in Seq(CallSteps) /\ <<y>> # <<>> /\ <<y>>[1] = y /\ Is(<<y>>, "get")
    BY <1>2, Alone
<1>9. MeansGet(<<y>>, V, file.pos, c)
    <2> DEFINE q == file.pos
    <2>1. SubSeq(V, q + 1, q) = <<>> /\ q = q + 0
        BY <1>7
    <2>2. <<y>>[1].n = n /\ <<y>>[1].cells = <<>> /\ Len(<<>>) = 0
        BY <1>2, <1>8
    <2>3. c.pos = q /\ q \in Nat
        BY <1>6, <1>7
    <2> HIDE DEF q
    <2> DEFINE t == <<y>>
    <2>4. Is(t, "get") /\ t[1].n = n /\ t[1].cells = <<>>
        BY <1>8, <2>2
    <2> HIDE DEF t
    <2>5. t[1].n + Len(t[1].cells) > 0 /\ q = c.pos + Len(t[1].cells)
          /\ t[1].cells = SubSeq(V, c.pos + 1, q)
        BY <1>1, <2>1, <2>2, <2>3, <2>4
    <2>6. MeansGet(t, V, q, c)
        BY Zenon, <1>6, <2>4, <2>5 DEF MeansGet
    <2> QED BY <2>6 DEF q, t
<1>10. Means(<<y>>, V, file.pos, file, c)
    BY <1>9 DEF Means
<1>11. CASE file.writing
    <2> DEFINE s == <<x>> \o <<y>>
    <2>1. Start(s, FALSE)
        BY Zenon, <1>3, <1>4, <1>11
    <2>2. s \in Seq(CallSteps) /\ s # <<>> /\ Meaning(s, V, file, c, SavedOf(disk, entry))
        BY Zenon, <1>2, <1>8, <1>10, FlushThen
    <2> HIDE DEF s
    <2> QED BY Zenon, <1>5, <2>1, <2>2, Starts DEF V, c
<1>12. CASE ~file.writing
    <2>1. <<>> \o <<y>> = <<y>>
        BY <1>8
    <2>2. Start(<<y>>, FALSE)
        BY Zenon, <1>3, <1>12, <2>1
    <2>3. Meaning(<<y>>, V, file, c, SavedOf(disk, entry))
        BY <1>10 DEF Meaning
    <2> QED BY Zenon, <1>5, <1>8, <2>2, <2>3, Starts DEF V, c
<1> QED BY <1>11, <1>12

\* The way back.
LEMMA BackIs ==
    ASSUME NEW p \in 0 .. MaxSize
    PROVE  /\ SeekSteps(p) \in Seq(CallSteps) /\ SeekSteps(p) # <<>> /\ BackTo(SeekSteps(p), p)
           /\ Is(SeekSteps(p), "flush") /\ Ends(Tail(SeekSteps(p)), "setpos")
<1> DEFINE x == [op |-> "flush"]
           y == [op |-> "setpos", pos |-> p]
           s == <<x>> \o <<y>>
<1>1. SeekSteps(p) = s
    BY DEF SeekSteps, Step
<1>2. x \in CallSteps /\ y \in CallSteps /\ x.op = "flush" /\ y.op = "setpos" /\ y.pos = p
    BY Zenon, StepMade
<1> HIDE DEF x, y
<1>3. <<y>> \in Seq(CallSteps) /\ Ends(<<y>>, "setpos") /\ <<y>>[1] = y
    BY <1>2, Alone
<1>4. s \in Seq(CallSteps) /\ s # <<>> /\ Is(s, "flush") /\ Tail(s) = <<y>>
    BY Zenon, <1>2, <1>3, Pushed
<1> HIDE DEF s
<1>5. Tail(s)[1].pos = p
    BY Zenon, <1>2, <1>3, <1>4
<1> QED BY Zenon, <1>1, <1>3, <1>4, <1>5 DEF Returning, BackTo

LEMMA SeekHolds ==
    ASSUME Whole(disk, entry, file, todo), Holds, NEW p \in Positions, Seek(p)
    PROVE  HoldsOn
<1> DEFINE s == SeekSteps(p)
           c == Called(FALSE)
           V == Content(disk, file)
<1>1. p \in 0 .. MaxSize
    BY BoundAssumption
<1>2. s \in Seq(CallSteps) /\ s # <<>> /\ Is(s, "flush") /\ Ends(Tail(s), "setpos")
    BY <1>1, BackIs
<1>3. Start(s, FALSE)
    BY Zenon DEF Seek
<1>4. file # Closed /\ todo = <<>>
    BY DEF Seek, Start, Begin
<1>5. Sound(disk, entry, file, todo) /\ Told(disk, entry, file, todo, call)
    BY <1>4, Opened
<1>6. c.view = V /\ c.writes = FALSE
    BY Zenon, <1>4, <1>5, CalledIs DEF Told
<1> HIDE DEF s, c, V
<1>7. MeansSet(Tail(s), V, file, c)
    BY <1>2, <1>6 DEF MeansSet
<1>8. Meaning(s, V, file, c, SavedOf(disk, entry))
    BY <1>2, <1>7 DEF Meaning, MeansFlush, Means
<1> QED BY Zenon, <1>2, <1>3, <1>5, <1>8, Starts DEF V, c

LEMMA SyncHolds ==
    ASSUME Whole(disk, entry, file, todo), Holds, Sync \/ Close
    PROVE  HoldsOn
<1> DEFINE x == [op |-> "flush"]
           y == [op |-> "commit"]
           z == [op |-> "close"]
           c == Called(FALSE)
           V == Content(disk, file)
<1>1. /\ x \in CallSteps /\ y \in CallSteps /\ z \in CallSteps
      /\ x.op = "flush" /\ y.op = "commit" /\ z.op = "close"
    BY StepMade
<1>2. Start(<<x>> \o <<y>>, FALSE) \/ Start((<<x>> \o <<y>>) \o <<z>>, FALSE)
    BY Zenon DEF Sync, Close, Step
<1>3. file # Closed /\ todo = <<>>
    BY DEF Sync, Close, Start, Begin
<1>4. Sound(disk, entry, file, todo) /\ Told(disk, entry, file, todo, call)
    BY <1>3, Opened
<1>5. c.view = V /\ c.writes = FALSE /\ c.pos = file.pos
    BY Zenon, <1>3, <1>4, CalledIs DEF Told
<1> HIDE DEF x, y, z, c, V
<1>6. ASSUME NEW t \in Seq(CallSteps), Is(t, "commit"), Start(<<x>> \o t, FALSE)
      PROVE  HoldsOn
    <2> DEFINE s == <<x>> \o t
    <2>1. MeansSave(t, V, file.pos, c)
        BY <1>5, <1>6 DEF MeansSave
    <2>2. Means(t, V, file.pos, file, c)
        BY <2>1 DEF Means
    <2>3. s \in Seq(CallSteps) /\ s # <<>> /\ Meaning(s, V, file, c, SavedOf(disk, entry))
        BY <1>1, <2>2, FlushThen
    <2>4. Start(s, FALSE)
        BY Zenon, <1>6
    <2> HIDE DEF s
    <2> QED BY Zenon, <1>4, <2>3, <2>4, Starts DEF V, c
<1>7. CASE Start(<<x>> \o <<y>>, FALSE)
    <2>1. <<y>> \in Seq(CallSteps) /\ Is(<<y>>, "commit")
        BY <1>1, Alone
    <2> QED BY Zenon, <1>6, <1>7, <2>1
<1>8. CASE Start((<<x>> \o <<y>>) \o <<z>>, FALSE)
    <2>1. <<z>> \in Seq(CallSteps)
        BY <1>1, Alone
    <2> DEFINE t == <<y>> \o <<z>>
    <2>2. t \in Seq(CallSteps) /\ Is(t, "commit")
        BY Zenon, <1>1, <2>1, Pushed
    <2>3. (<<x>> \o <<y>>) \o <<z>> = <<x>> \o t
        BY <1>1, <2>1, PushTwo
    <2> HIDE DEF t
    <2> QED BY Zenon, <1>6, <1>8, <2>2, <2>3
<1> QED BY Zenon, <1>2, <1>7, <1>8

\* Between the calls the size of the content is that of the file.
LEMMA SizeShown ==
    ASSUME Sound(disk, entry, file, todo), todo = <<>>
    PROVE  /\ Len(Content(disk, file)) = FileSize /\ FileSize = SizeOf(file)
           /\ FileSize \in 0 .. MaxSize
<1>1. file \in Handles
    BY DEF Sound
<1>2. FileSize = SizeOf(file) /\ FileSize \in 0 .. MaxSize
    BY <1>1, FileSizeIs
<1>3. Length(file) = SizeOf(file)
    <2>1. ASSUME ~file.inline, file.head = Inline
          PROVE  file.pos = SizeOf(file)
        <3>1. OutlinedOK(file, todo)
            BY <2>1, SoundHandle
        <3>2. ~Is(todo, "put") /\ ~Is(todo, "relocate")
            BY DEF Is
        <3>3. file.writing /\ ~(file.pos < file.size)
            BY <2>1, <3>1, <3>2 DEF OutlinedOK
        <3> QED BY <1>1, <3>3, HandleType DEF SizeOf
    <2> QED BY <2>1 DEF Length
<1> QED BY <1>2, <1>3, ContentIs

LEMMA TruncateHolds ==
    ASSUME Whole(disk, entry, file, todo), Holds, NEW n \in TruncateSizes, Truncate(n)
    PROVE  HoldsOn
<1>1. file # Closed /\ todo = <<>>
    BY Zenon DEF Truncate, Start, Begin
<1>2. Sound(disk, entry, file, todo) /\ Told(disk, entry, file, todo, call) /\ file \in Handles
    BY <1>1, Opened DEF Sound
<1>3. n \in 0 .. MaxSize /\ n \in Nat /\ MaxSize \in Nat
    BY BoundAssumption, Bounds
<1> DEFINE V == Content(disk, file)
           size == FileSize
<1>4. Len(V) = size /\ size = SizeOf(file) /\ size \in 0 .. MaxSize /\ size \in Nat
      /\ V \in Seq(Cell)
    BY <1>1, <1>2, <1>3, SizeShown, ContentIs
<1>5. file.pos \in Nat /\ file.pos \in 0 .. MaxSize /\ file.size \in Nat
    BY <1>2, <1>3, HandleType
<1> DEFINE x == [op |-> "flush"]
           cut == [op |-> "cut", size |-> n]
           go == [op |-> "setpos", pos |-> size]
           fill == [op |-> "fill", to |-> n]
           back == SeekSteps(file.pos)
           c == Called(TRUE)
           z == Called(FALSE)
<1>6. /\ x \in CallSteps /\ cut \in CallSteps /\ go \in CallSteps /\ fill \in CallSteps
      /\ x.op = "flush" /\ cut.op = "cut" /\ go.op = "setpos" /\ fill.op = "fill"
      /\ cut.size = n /\ go.pos = size /\ fill.to = n
    BY Zenon, <1>3, <1>4, StepMade
<1>7. back \in Seq(CallSteps) /\ back # <<>> /\ BackTo(back, file.pos)
      /\ Is(back, "flush") /\ Ends(Tail(back), "setpos")
    BY <1>5, BackIs
<1>8. IF n < size
      THEN Start((<<x>> \o <<cut>>) \o back, FALSE)
      ELSE Start(((IF n > size /\ file.pos # size THEN <<x>> \o <<go>> ELSE <<>>)
                  \o (IF n > size THEN <<fill>> ELSE <<>>))
                 \o back, n > size)
    BY Zenon DEF Truncate, SeekSteps, Step, FillStep
<1>9. /\ c.view = V /\ c.pos = file.pos /\ c.writes
      /\ z.view = V /\ z.pos = file.pos /\ ~z.writes
    BY Zenon, <1>1, <1>2, CalledIs DEF Told
<1> HIDE DEF x, cut, go, fill, back, c, z, V, size
<1>10. ASSUME NEW t \in Seq(CallSteps), NEW w \in BOOLEAN,
              Means(t, V, file.pos, file, Called(w)), Start(<<x>> \o t, w)
       PROVE  HoldsOn
    <2> DEFINE s == <<x>> \o t
    <2>1. s \in Seq(CallSteps) /\ s # <<>> /\ Meaning(s, V, file, Called(w), SavedOf(disk, entry))
        BY <1>6, <1>10, FlushThen
    <2>2. Start(s, w)
        BY <1>10
    <2> HIDE DEF s
    <2> QED BY <1>2, <1>10, <2>1, <2>2, Starts DEF V
<1>11. CASE n < size
    <2> DEFINE t == <<cut>> \o back
    <2>1. t \in Seq(CallSteps) /\ t[1] = cut /\ Tail(t) = back /\ Is(t, "cut")
        BY <1>6, <1>7, Pushed
    <2>2. (<<x>> \o <<cut>>) \o back = <<x>> \o t
        BY <1>6, <1>7, PushTwo
    <2> HIDE DEF t
    <2>4. MeansCut(t, V, z)
        BY Zenon, <1>4, <1>6, <1>7, <1>9, <1>11, <2>1 DEF MeansCut
    <2>5. Means(t, V, file.pos, file, z)
        BY <2>4 DEF Means
    <2>6. Start(<<x>> \o t, FALSE)
        BY Zenon, <1>8, <1>11, <2>2
    <2> QED BY Zenon, <1>10, <2>1, <2>5, <2>6 DEF z
<1>12. CASE n = size
    <2>1. ~(n < size) /\ ~(n > size)
        BY <1>3, <1>4, <1>12
    <2> DEFINE w == n > size
               t == (<<>> \o <<>>) \o back
    <2>7. Start(t, w)
        BY <1>8, <2>1
    <2>8. w = FALSE
        BY <2>1
    <2> HIDE DEF w, t
    <2>9. Start(t, FALSE)
        BY Zenon, <2>7, <2>8
    <2>2. Start((<<>> \o <<>>) \o back, FALSE)
        BY Zenon, <2>9 DEF t
    <2>3. (<<>> \o <<>>) \o back = back
        BY <1>7
    <2>4. Start(back, FALSE)
        BY Zenon, <2>2, <2>3
    <2>5. MeansSet(Tail(back), V, file, z)
        BY <1>7, <1>9 DEF MeansSet
    <2>6. Meaning(back, V, file, z, SavedOf(disk, entry))
        BY <1>7, <2>5 DEF Meaning, MeansFlush, Means
    <2> QED BY Zenon, <1>2, <1>7, <2>4, <2>6, Starts DEF V, z
<1>13. ASSUME n > size
       PROVE  LET t == <<fill>> \o back
              IN  t \in Seq(CallSteps) /\ t # <<>> /\ Is(t, "fill") /\ t[1] = fill /\ Tail(t) = back
    BY <1>6, <1>7, Pushed
<1>14. CASE n > size /\ file.pos # size
    <2> DEFINE t2 == <<fill>> \o back
               t == <<go>> \o t2
    <2>1. Start(((<<x>> \o <<go>>) \o <<fill>>) \o back, TRUE)
        <3>1. ~(n < size)
            BY <1>3, <1>4, <1>14
        <3> QED BY Zenon, <1>8, <1>14, <3>1
    <2>2. ((<<x>> \o <<go>>) \o <<fill>>) \o back = <<x>> \o t
        BY <1>6, <1>7, PushThree
    <2>3. t2 \in Seq(CallSteps) /\ Is(t2, "fill") /\ t2[1] = fill /\ Tail(t2) = back
        BY <1>13, <1>14
    <2> HIDE DEF t2
    <2>4. t \in Seq(CallSteps) /\ t[1] = go /\ Tail(t) = t2 /\ Is(t, "setpos")
        BY <1>6, <2>3, Pushed
    <2> HIDE DEF t
    <2>5. MeansGo(t, V, c)
        <3>1. Is(Tail(t), "fill") /\ BackTo(Tail(Tail(t)), c.pos)
            BY Zenon, <1>7, <1>9, <2>3, <2>4
        <3>2. t[1].pos = Len(V) /\ Tail(t)[1].to > Len(V)
            BY Zenon, <1>4, <1>6, <1>14, <2>3, <2>4
        <3> QED BY Zenon, <1>9, <1>14, <2>4, <3>1, <3>2 DEF MeansGo
    <2>6. Means(t, V, file.pos, file, c)
        BY <2>5 DEF Means
    <2>7. Start(<<x>> \o t, TRUE)
        BY Zenon, <2>1, <2>2
    <2> QED BY Zenon, <1>10, <2>4, <2>6, <2>7 DEF c
<1>15. CASE n > size /\ file.pos = size
    <2> DEFINE t == <<fill>> \o back
    <2>1. Start((<<>> \o <<fill>>) \o back, TRUE)
        <3>1. ~(n < size)
            BY <1>3, <1>4, <1>15
        <3> QED BY Zenon, <1>8, <1>15, <3>1
    <2>2. (<<>> \o <<fill>>) \o back = t
        <3>1. <<>> \o <<fill>> = <<fill>>
            BY <1>6, Alone
        <3> QED BY <3>1
    <2>3. t \in Seq(CallSteps) /\ t # <<>> /\ Is(t, "fill") /\ t[1] = fill /\ Tail(t) = back
        BY <1>13, <1>15
    <2>4. Start(t, TRUE)
        BY Zenon, <2>1, <2>2
    <2> HIDE DEF t
    <2>5. file.size <= file.pos
        BY <1>4, <1>5, <1>15 DEF SizeOf
    <2>6. V = Grown(c.view, file.pos)
        <3>1. Grown(V, Len(V)) = V
            BY Zenon, <1>4, PutSame
        <3> QED BY <1>4, <1>9, <1>15, <3>1
    <2>7. Len(c.view) = file.pos /\ t[1].to > Len(c.view) /\ file.pos <= t[1].to
        BY <1>3, <1>4, <1>6, <1>9, <1>15, <2>3
    <2>8. BackTo(Tail(t), c.pos) /\ c.writes
        BY Zenon, <1>7, <1>9, <1>15, <2>3
    <2>9. MeansFill(t, V, file, c)
        BY <1>5, <2>3, <2>5, <2>6, <2>7, <2>8 DEF MeansFill
    <2>10. Meaning(t, V, file, c, SavedOf(disk, entry))
        BY <2>9 DEF Meaning
    <2> QED BY Zenon, <1>2, <2>3, <2>4, <2>10, Starts DEF V, c
<1> QED BY <1>3, <1>4, <1>11, <1>12, <1>14, <1>15

AtPos(f, x) == [f EXCEPT !.pos = x]

\* A handle that no longer reads, and that goes elsewhere if it does not write.
LEMMA AtShows ==
    ASSUME Sound(disk, entry, file, todo), todo = <<>>, CleanOK(entry, file),
           NEW x \in 0 .. MaxSize, file.writing => x = file.pos,
           NEW g, g = AtPos(DropRead(file), x)
    PROVE  /\ Content(disk, g) = Content(disk, file) /\ CleanOK(entry, g)
           /\ ~g.reading /\ g.pos = x /\ g.size = file.size /\ g.erred = file.erred
<1> DEFINE f == DropRead(file)
<1>1. /\ f \in Handles /\ f.inline = file.inline /\ f.writing = file.writing
      /\ f.dirty = file.dirty /\ f.pos = file.pos /\ f.off = file.off /\ f.size = file.size
      /\ f.head = file.head /\ f.block = file.block /\ ~f.reading
      /\ (file.writing => f = file)
    BY DropOf
<1>2. /\ Content(disk, f) = Content(disk, file)
      /\ (file.inline => f.cache = file.cache) /\ f.erred = file.erred
    BY DropShows
<1>3. g = [f EXCEPT !.pos = x]
    BY DEF AtPos
<1> HIDE DEF f
<1>4. /\ g.pos = x /\ g.size = f.size /\ g.writing = f.writing /\ g.reading = f.reading
      /\ g.inline = f.inline /\ g.dirty = f.dirty /\ g.head = f.head /\ g.cache = f.cache
      /\ g.off = f.off /\ g.block = f.block /\ g.erred = f.erred
    BY <1>1, <1>3 DEF Handles
<1>5. CASE file.writing
    <2>1. Content(disk, g) = Content(disk, f)
        BY Zenon, <1>1, <1>4, <1>5, SameShown
    <2>2. CleanOK(entry, g)
        BY <1>1, <1>4, <1>5 DEF CleanOK
    <2> QED BY <1>1, <1>2, <1>4, <2>1, <2>2
<1>6. CASE ~file.writing
    <2>1. ~file.inline => file.head # Inline
        BY <1>6, LengthIs
    <2>2. Content(disk, g) = Content(disk, file)
        BY <1>1, <1>2, <1>4, <1>6, <2>1, RestingSame
    <2>3. CleanOK(entry, g)
        BY <1>1, <1>2, <1>4 DEF CleanOK
    <2> QED BY <1>1, <1>2, <1>4, <2>2, <2>3
<1> QED BY <1>5, <1>6

LEMMA ShownIs ==
    Shown = Called(FALSE) /\ [Shown EXCEPT !.writes = TRUE] = Called(TRUE)
<1> DEFINE z(w) == [view |-> View, pos |-> file.pos, writes |-> w, failed |-> call.failed]
<1>4. ASSUME NEW w PROVE Called(w) = z(w)
    BY DEF Called, Shown
<1>2. Shown = z(FALSE)
    BY DEF Shown
<1> HIDE DEF z
<1>1. Called(FALSE) = z(FALSE)
    BY Zenon, <1>4, Zenon
<1>3. [Shown EXCEPT !.writes = TRUE] = Called(TRUE)
    BY DEF Called
<1> QED BY Zenon, <1>1, <1>2, <1>3

LEMMA WriteHolds ==
    ASSUME Whole(disk, entry, file, todo), Holds, ops \in 0 .. MaxOps, NEW n \in WriteSizes, Write(n)
    PROVE  HoldsOn
<1> DEFINE f == DropRead(file)
           p == IF f.append /\ f.pos < f.size THEN f.size ELSE f.pos
           hole == ~f.writing /\ p > f.size
           v == ops'
           cells == [j \in 1 .. n |-> v]
           put == [op |-> "put", cells |-> cells]
           fill == [op |-> "fill", to |-> p]
           bad == [op |-> "toobig"]
           q == IF hole THEN f.size ELSE p
           V == Content(disk, file)
           c == Called(TRUE)
           z == Called(FALSE)
<1>1. /\ file # Closed /\ todo = <<>> /\ disk' = disk /\ entry' = entry
      /\ got' = got /\ result' = result /\ ops < MaxOps /\ ops' = ops + 1
    BY DEF Write, Begin, storage
<1>2. Sound(disk, entry, file, todo) /\ Told(disk, entry, file, todo, call) /\ file \in Handles
    BY <1>1, Opened DEF Sound
<1>3. IF p + n <= MaxSize
      THEN /\ todo' = (IF hole THEN <<fill>> ELSE <<>>) \o <<put>>
           /\ file' = AtPos(f, q)
           /\ call' = [Shown EXCEPT !.writes = TRUE]
      ELSE /\ todo' = <<bad>>
           /\ file' = AtPos(f, p)
           /\ call' = Shown
    BY Zenon DEF Write, Begin, FillStep, PutStep, Step, AtPos
<1>4. /\ f \in Handles /\ f.pos = file.pos /\ f.size = file.size /\ f.append = file.append
      /\ f.writing = file.writing
    BY <1>2, DropOf
<1>5. CleanOK(entry, file) /\ CallOK(call)
    BY <1>2 DEF Told
<1>6. /\ c.view = V /\ c.pos = file.pos /\ c.writes
      /\ z.view = V /\ z.pos = file.pos /\ ~z.writes
    BY Zenon, <1>1, <1>2, <1>5, CalledIs
<1>7. Shown = Called(FALSE) /\ [Shown EXCEPT !.writes = TRUE] = Called(TRUE)
    BY ShownIs
<1>8. /\ f.pos \in Nat /\ f.pos <= MaxSize /\ f.size \in Nat /\ f.size <= MaxSize
      /\ MaxSize \in Nat /\ n \in Nat /\ n > 0 /\ MaxOps \in Nat
    BY <1>4, HandleType, BoundAssumption, Bounds
<1>9. /\ V \in Seq(Cell) /\ Len(V) <= MaxSize
      /\ (f.writing => f.pos <= Len(V)) /\ (~f.writing => Len(V) = f.size)
    BY <1>2, <1>4, ContentIs, LengthIs
<1>10. f.append /\ f.writing => f.pos >= f.size
    BY Zenon, <1>2, <1>4, SoundHandle
<1>11. v \in Value /\ v \in Cell
    BY <1>1, <1>8 DEF Cell, Value
<1> HIDE DEF v
<1>12. cells = Rep(n, v) /\ cells \in Seq(Cell) /\ Len(cells) = n /\ cells = Rep(Len(cells), v)
    <2>1. cells = Rep(n, v)
        BY DEF Rep
    <2> HIDE DEF cells
    <2> QED BY <1>8, <1>11, <2>1, RepIs
<1> HIDE DEF cells, V, c, z, f
<1>13. p \in 0 .. MaxSize /\ q \in 0 .. MaxSize /\ p \in Nat /\ q \in Nat
    BY <1>8
<1>14. /\ put \in CallSteps /\ bad \in CallSteps /\ fill \in CallSteps
      /\ put.op = "put" /\ bad.op = "toobig" /\ fill.op = "fill"
      /\ put.cells = cells /\ fill.to = p
    BY Zenon, <1>12, <1>13, StepMade
<1>15. f.writing => p = f.pos /\ ~hole /\ q = p
    BY <1>8, <1>10
<1>16. /\ hole => ~f.writing /\ q = f.size /\ f.size <= p /\ p = f.pos
       /\ ~hole => q = p /\ p <= Len(V) /\ (p = f.pos \/ p = Len(V))
    BY <1>8, <1>9, <1>15
<1> HIDE DEF put, bad, fill, p, q, hole
<1>17. <<put>> \in Seq(CallSteps) /\ Ends(<<put>>, "put") /\ <<put>>[1] = put
       /\ <<put>> # <<>> /\ (\A op : Is(<<put>>, op) <=> op = "put")
    BY <1>14, Alone
<1>18. <<bad>> # <<>> /\ (\A op : Is(<<bad>>, op) <=> op = "toobig")
    BY <1>14, Alone
<1> DEFINE g == file'
<1>19. ASSUME NEW x \in 0 .. MaxSize, f.writing => x = f.pos, g = AtPos(f, x)
       PROVE  /\ Content(disk, g) = V /\ CleanOK(entry, g)
              /\ ~g.reading /\ g.pos = x /\ g.size = f.size /\ g.erred = file.erred
    BY <1>1, <1>2, <1>4, <1>5, <1>19, AtShows DEF f, V
<1>20. CASE ~(p + n <= MaxSize)
    <2>1. todo' = <<bad>> /\ g = AtPos(f, p) /\ call' = z
        BY <1>3, <1>7, <1>20 DEF z
    <2> HIDE DEF g
    <2>2. /\ Content(disk, g) = V /\ CleanOK(entry, g)
          /\ ~g.reading /\ g.erred = file.erred
        BY <1>13, <1>15, <1>19, <2>1
    <2>3. Meaning(todo', V, g, z, SavedOf(disk, entry))
        BY <1>6, <1>18, <2>1 DEF Meaning
    <2>4. ReadingOK(disk, g, todo')
        BY <2>2 DEF ReadingOK
    <2> QED BY Zenon, <1>1, <1>2, <1>18, <2>1, <2>2, <2>3, <2>4, Begins DEF z, g
<1>21. CASE p + n <= MaxSize /\ hole
    <2> DEFINE u == <<put>>
               t == <<fill>> \o u
    <2>1. todo' = t /\ g = AtPos(f, q) /\ call' = c
        BY Zenon, <1>3, <1>7, <1>21 DEF c
    <2> HIDE DEF g
    <2>2. /\ Content(disk, g) = V /\ CleanOK(entry, g)
          /\ ~g.reading /\ g.pos = q /\ g.size = f.size /\ g.erred = file.erred
        BY <1>13, <1>15, <1>19, <2>1
    <2>3. u \in Seq(CallSteps) /\ Ends(u, "put") /\ u[1].cells = cells
        BY <1>14, <1>17
    <2> HIDE DEF u
    <2>4. t \in Seq(CallSteps) /\ t # <<>> /\ Tail(t) = u /\ t[1] = fill /\ Is(t, "fill")
        BY <1>14, <2>3, Pushed
    <2> HIDE DEF t
    <2>5. q = Len(V) /\ q = f.size /\ q <= p /\ p = c.pos
        BY <1>4, <1>6, <1>9, <1>16, <1>21
    <2>6. V = Grown(c.view, q)
        <3>1. Grown(V, Len(V)) = V
            BY Zenon, <1>9, PutSame
        <3> QED BY <1>6, <2>5, <3>1
    <2>7. \E y \in Value : u[1].cells = Rep(Len(u[1].cells), y)
        BY <1>11, <1>12, <2>3
    <2>8. t[1].to = c.pos /\ Tail(t) = u
        BY <1>14, <2>4, <2>5
    <2>9. g.size <= g.pos /\ Len(c.view) <= g.pos /\ g.pos <= t[1].to
        BY <1>6, <1>8, <1>13, <2>2, <2>5, <2>8
    <2>10. V = Grown(c.view, g.pos)
        BY <2>2, <2>6
    <2>11. MeansFill(t, V, g, c)
        BY Zenon, <1>6, <2>3, <2>4, <2>7, <2>8, <2>9, <2>10 DEF MeansFill
    <2>12. Meaning(todo', V, g, c, SavedOf(disk, entry))
        BY <2>1, <2>11 DEF Meaning
    <2>13. ReadingOK(disk, g, todo')
        BY <2>2 DEF ReadingOK
    <2> QED BY Zenon, <1>1, <1>2, <2>1, <2>2, <2>4, <2>12, <2>13, Begins DEF c, g
<1>22. CASE p + n <= MaxSize /\ ~hole
    <2> DEFINE t == <<put>>
    <2>1. <<>> \o t = t
        BY <1>17
    <2>2. todo' = t /\ g = AtPos(f, p) /\ call' = c
        BY Zenon, <1>3, <1>7, <1>16, <1>22, <2>1 DEF c
    <2> HIDE DEF g
    <2>3. /\ Content(disk, g) = V /\ CleanOK(entry, g)
          /\ ~g.reading /\ g.pos = p /\ g.size = f.size /\ g.erred = file.erred
        BY <1>13, <1>15, <1>19, <2>2
    <2>4. t # <<>> /\ Ends(t, "put") /\ t[1].cells = cells
        BY <1>14, <1>17
    <2> HIDE DEF t
    <2>5. p \in {c.pos, Len(c.view)} /\ p <= Len(V)
        BY <1>4, <1>6, <1>16, <1>22
    <2>6. V = Promise!Put(c.view, p, Rep(0, v))
        <3>1. Promise!Put(V, p, Rep(0, v)) = V
            BY Zenon, <1>9, <1>11, <1>13, <2>5, PutSame
        <3> QED BY <1>6, <3>1
    <2>7. g.pos = p + 0 /\ t[1].cells = Rep(Len(t[1].cells), v)
        BY <1>12, <1>13, <2>3, <2>4
    <2>8. MeansWrite(t, V, g, c)
        <3>1. 0 \in Nat
            OBVIOUS
        <3> QED BY <1>6, <1>11, <2>4, <2>5, <2>6, <2>7, <3>1 DEF MeansWrite
    <2>9. Meaning(todo', V, g, c, SavedOf(disk, entry))
        BY <2>2, <2>8 DEF Meaning, MeansPut
    <2>10. ReadingOK(disk, g, todo')
        BY <2>3 DEF ReadingOK
    <2> QED BY Zenon, <1>1, <1>2, <2>2, <2>3, <2>4, <2>9, <2>10, Begins DEF c, g
<1> QED BY <1>20, <1>21, <1>22

\* A new handle shows what its entry says.
LEMMA HandleShows ==
    ASSUME NEW d, NEW e \in Entries, EntryOK(d, e), NEW a \in BOOLEAN
    PROVE  LET g == Handle(e, a)
           IN  /\ g.pos = 0 /\ ~g.dirty /\ ~g.erred /\ ~g.reading /\ ~g.writing
               /\ g.size = e.size /\ CleanOK(e, g)
<1> DEFINE g == Handle(e, a)
           c == IF e.head = Inline THEN Buffer(e.data) ELSE NoCache
<1>1. g = [append |-> a, inline |-> e.head = Inline,
           reading |-> FALSE, writing |-> FALSE, dirty |-> FALSE, erred |-> FALSE,
           pos |-> 0, off |-> 0, block |-> NoBlock, head |-> e.head, size |-> e.size,
           cache |-> c]
    BY DEF Handle, c
<1> HIDE DEF g
<1>2. ASSUME e.head = Inline
      PROVE  SubSeq(c.data, 1, e.size) = e.data
    <2> DEFINE old == [j \in 1 .. CacheSize |-> Filler]
               s == e.data
               o == Overlay(old, 0, s)
    <2>1. s \in Seq(Cell) /\ Len(s) = e.size /\ Len(s) \in Nat /\ Len(s) <= CacheSize
        <3>1. e # Absent
            BY SentinelAssumption
        <3>2. e.size <= InlineMax /\ Len(s) = e.size
            BY <1>2, <3>1 DEF EntryOK
        <3> QED BY <3>2, EntryType, Bounds
    <2>2. old \in Seq(Cell) /\ Len(old) = CacheSize /\ CacheSize \in Nat
        BY Bounds
    <2>3. c.data = o
        BY <1>2 DEF Buffer
    <2> HIDE DEF old, s, c
    <2>4. 0 \in Nat /\ 0 <= Len(old)
        BY <2>2
    <2>5. /\ o \in Seq(Cell)
          /\ Len(o) = IF 0 + Len(s) >= Len(old) THEN 0 + Len(s) ELSE Len(old)
          /\ \A j \in 1 .. Len(s) : o[0 + j] = s[j]
        BY <2>1, <2>2, <2>4, OverlayOf
    <2> HIDE DEF o
    <2> DEFINE m == Len(s)
               u == SubSeq(o, 1, m)
    <2>6. m \in Nat /\ m <= Len(o) /\ \A j \in 1 .. m : o[j] = s[j]
        BY <2>1, <2>2, <2>5
    <2>7. Len(s) = m
        OBVIOUS
    <2> HIDE DEF m
    <2>8. u \in Seq(Cell) /\ Len(u) = m /\ \A j \in 1 .. m : u[j] = s[j]
        BY <2>5, <2>6
    <2> HIDE DEF u
    <2>9. u = s
        BY <2>1, <2>7, <2>8, SeqSame
    <2> QED BY <2>1, <2>3, <2>9 DEF u, m, s
<1> HIDE DEF c
<1>3. /\ g.pos = 0 /\ ~g.dirty /\ ~g.erred /\ ~g.reading /\ ~g.writing
      /\ g.size = e.size /\ g.cache = c /\ g.inline = (e.head = Inline)
    BY <1>1
<1>4. CleanOK(e, g)
    BY Zenon, <1>2, <1>3 DEF CleanOK
<1> QED BY <1>3, <1>4 DEF g

LEMMA OpenHolds ==
    ASSUME Whole(disk, entry, file, todo), Holds, NEW a \in BOOLEAN, NEW t \in BOOLEAN, Open(a, t)
    PROVE  HoldsOn
<1> DEFINE g == file'
           e0 == InlineEntry(<<>>)
<1>1. /\ disk \in Device(Cell) /\ entry \in Entries \union {Absent} /\ EntryOK(disk, entry)
      /\ todo = <<>> /\ file = Closed
    BY DEF Open, Whole
<1>2. /\ disk' = disk /\ todo' = <<>> /\ got' = got /\ result' = "ok"
      /\ call' = CallWith(call, FALSE)
    BY <1>1 DEF Open, CallWith
<1>3. CallOK(call') /\ call'.failed = FALSE
    BY Zenon, <1>2, CallSet DEF Holds
<1>4. e0 \in Entries /\ e0 # Absent /\ EntryOK(disk, e0)
    BY EmptyEntry
<1>5. e0.head = Inline /\ e0.size = 0 /\ e0.data = <<>>
    BY DEF InlineEntry
<1>6. Whole(disk', entry', file', todo')
    BY OpenKeeps
<1> HIDE DEF e0
<1>7. Saved = SavedOf(disk, entry) /\ Saved' = SavedOf(disk', entry')
    BY SavedNow, SavedThen
<1>8. <<>> \in Seq(Cell) /\ Absent \notin Seq(Cell)
    BY SentinelAssumption
<1>9. ASSUME g \in Handles, g.pos = 0, ~g.erred, ~g.reading, CleanOK(entry', g),
             View' \in Seq(Cell) =>
                \/ Saved = Absent /\ Saved' = <<>> /\ View' = <<>>
                \/ Saved # Absent /\ Saved' = Saved /\ View' \in {Saved, <<>>}
      PROVE  HoldsOn
    <2>1. file' # Closed
        BY <1>9, HandleOpen
    <2>2. Sound(disk', entry', file', todo')
        BY <1>6, <2>1 DEF Whole
    <2>3. ~Is(todo', "put")
        BY <1>2 DEF Is
    <2>4. View' \in Seq(Cell)
        BY <2>2, <2>3, ViewAfter, ContentIs
    <2>5. View' # Absent /\ <<>> # Absent
        BY Zenon, <1>8, <2>4
    <2>6. \/ Saved = Absent /\ Saved' = <<>> /\ Saved' # Absent /\ View' = <<>>
          \/ Saved # Absent /\ Saved' = Saved /\ View' \in {Saved, <<>>}
        BY <1>9, <2>4, <2>5
    <2>7. file'.pos = 0
        BY <1>9
    <2>8. Promise!Next
        BY Zenon, <1>1, <1>2, <1>3, <2>1, <2>5, <2>6, <2>7, Opens
    <2>9. ReadingOK(disk', g, todo')
        BY <1>9 DEF ReadingOK
    <2> HIDE DEF g
    <2>10. Told(disk', entry', g, todo', call')
        BY Zenon, <1>2, <1>3, <1>9, <2>9 DEF Told
    <2> QED BY <1>3, <2>8, <2>10 DEF HoldsOn, Holds, g
<1>10. CASE entry # Absent /\ t
    <2> DEFINE h == Handle(e0, a)
               f2 == [h EXCEPT !.dirty = TRUE]
    <2>1. h \in Handles /\ h.pos = 0 /\ ~h.erred /\ ~h.reading /\ ~h.writing /\ h.size = e0.size
        BY <1>4, HandleOf, HandleShows
    <2>2. g = f2 /\ entry' = entry
        BY <1>10 DEF Open, e0
    <2> HIDE DEF h
    <2>3. /\ f2 \in Handles /\ f2.pos = 0 /\ ~f2.erred /\ ~f2.reading /\ ~f2.writing
          /\ f2.size = 0 /\ f2.dirty
        BY Zenon, <1>5, <2>1 DEF Handles
    <2> HIDE DEF f2
    <2>4. CleanOK(entry', g)
        BY <2>2, <2>3 DEF CleanOK
    <2>5. Saved # Absent /\ Saved' = Saved
        BY <1>1, <1>2, <1>7, <1>10, <2>2, SavedIs
    <2>6. View' = <<>>
        <3>1. file' # Closed /\ file' = f2
            BY <2>2, <2>3, HandleOpen
        <3>2. Sound(disk', entry', file', todo')
            BY <1>6, <3>1 DEF Whole
        <3>3. View' = Content(disk', file')
            BY <1>2, <3>2, ViewAfter DEF Is
        <3>4. Content(disk', file') \in Seq(Cell) /\ Len(Content(disk', file')) = 0
            BY <2>3, <3>1, <3>2, ContentIs, LengthIs
        <3> QED BY <3>3, <3>4
    <2> QED BY <1>9, <2>2, <2>3, <2>4, <2>5, <2>6
<1>11. CASE entry = Absent \/ ~t
    <2> DEFINE e == IF entry = Absent THEN e0 ELSE entry
               h == Handle(e, a)
    <2>1. e \in Entries /\ EntryOK(disk, e)
        BY <1>1, <1>4
    <2>2. entry' = e /\ g = h
        BY <1>11 DEF Open, e0
    <2>3. (entry = Absent => e = e0) /\ (entry # Absent => e = entry)
        OBVIOUS
    <2> HIDE DEF e
    <2>4. h \in Handles /\ h.pos = 0 /\ ~h.erred /\ ~h.reading /\ ~h.writing /\ ~h.dirty
          /\ CleanOK(e, h)
        BY <2>1, HandleOf, HandleShows
    <2> HIDE DEF h
    <2>5. Saved' \in Seq(Cell) /\ Saved' = View'
        <3>1. file' # Closed /\ file' = h
            BY <2>2, <2>4, HandleOpen
        <3>2. Sound(disk', entry', file', todo')
            BY <1>6, <3>1 DEF Whole
        <3>3. ~Is(todo', "put")
            BY <1>2 DEF Is
        <3>4. View' = Content(disk', file')
            BY <3>2, <3>3, ViewAfter
        <3>5. CleanOK(entry', file') /\ ~file'.writing /\ ~file'.dirty
            BY <2>2, <2>4, <3>1
        <3>6. SavedOf(disk', entry') = Content(disk', file')
            BY <3>2, <3>3, <3>5, CleanSaved
        <3>7. Content(disk', file') \in Seq(Cell)
            BY <3>2, ContentIs
        <3> QED BY <1>7, <3>4, <3>6, <3>7
    <2>6. CASE entry = Absent
        <3>1. Saved = Absent
            BY <1>7, <2>6 DEF SavedOf
        <3>2. Saved' = <<>>
            BY <1>4, <1>5, <1>7, <2>2, <2>3, <2>6 DEF SavedOf
        <3> QED BY <1>9, <2>2, <2>4, <2>5, <3>1, <3>2
    <2>7. CASE entry # Absent
        <3>1. Saved' = Saved
            BY <1>2, <1>7, <2>2, <2>3, <2>7
        <3>2. Saved # Absent
            BY <1>8, <2>5, <3>1
        <3> QED BY <1>9, <2>2, <2>4, <2>5, <3>1, <3>2
    <2> QED BY <2>6, <2>7
<1> QED BY <1>10, <1>11

LEMMA CrashHolds ==
    ASSUME Holds, Crash
    PROVE  HoldsOn
<1>1. /\ file' = Closed /\ todo' = <<>> /\ got' = got /\ result' = result /\ call' = call
      /\ disk' = disk /\ entry' = entry
    BY DEF Crash, storage
<1>2. Saved' = Saved
    BY <1>1, SavedNow, SavedThen
<1>3. Promise!Next
    BY <1>1, <1>2, Crashes
<1> QED BY <1>1, <1>3 DEF HoldsOn, Holds

-----------------------------------------------------------------------------
(* Every step keeps the promise.                                             *)

LEMMA CallsHold ==
    ASSUME Whole(disk, entry, file, todo), Holds, ops \in 0 .. MaxOps, Calls
    PROVE  HoldsOn
<1>1. CASE \E a, t \in BOOLEAN : Open(a, t)
    BY <1>1, OpenHolds
<1>2. CASE \E n \in WriteSizes : Write(n)
    BY <1>2, WriteHolds
<1>3. CASE \E n \in ReadSizes : Read(n)
    BY <1>3, ReadHolds
<1>4. CASE \E p \in Positions : Seek(p)
    BY <1>4, SeekHolds
<1>5. CASE \E n \in TruncateSizes : Truncate(n)
    BY <1>5, TruncateHolds
<1>6. CASE Sync \/ Close
    BY <1>6, SyncHolds
<1> QED BY <1>1, <1>2, <1>3, <1>4, <1>5, <1>6 DEF Calls

LEMMA StepsHold ==
    ASSUME Risks = {}, Whole(disk, entry, file, todo), Holds, Steps
    PROVE  HoldsOn
<1>1. Sound(disk, entry, file, todo) /\ Told(disk, entry, file, todo, call)
    <2>1. todo # <<>>
        BY Zenon DEF Steps, Doing, TooBig, Fill, Outline, PutInline, StartExtend, Put, PutBad, NoSpace,
               Extend, ExtendBad, Relocate, RelocateBad, Flush, Copy, Drain, DrainBad, Settle,
               Commit, CommitFull, Closes, Get, SetPos, Cut
    <2>2. file # Closed
        BY <2>1 DEF Whole
    <2> QED BY <2>2, Opened
<1>2. CASE TooBig \/ Fill \/ Outline \/ PutInline \/ StartExtend
    <2>1. CASE TooBig
        BY <1>1, <2>1, TooBigHolds
    <2>2. CASE Fill
        BY <1>1, <2>2, FillHolds
    <2>3. CASE Outline
        BY <1>1, <2>3, OutlineHolds
    <2>4. CASE PutInline
        BY <1>1, <2>4, PutInlineHolds
    <2>5. CASE StartExtend
        BY <1>1, <2>5, StartExtendHolds
    <2> QED BY <1>2, <2>1, <2>2, <2>3, <2>4, <2>5
<1>3. CASE Put \/ PutBad \/ NoSpace
    <2>1. CASE Put
        BY <1>1, <2>1, PutHolds
    <2>2. CASE PutBad
        BY <1>1, <2>2, PutBadHolds
    <2>3. CASE NoSpace
        BY <1>1, <2>3, NoSpaceHolds
    <2> QED BY <1>3, <2>1, <2>2, <2>3
<1>4. ASSUME NEW b \in Blocks, Extend(b) \/ ExtendBad(b) \/ Relocate(b) \/ RelocateBad(b)
      PROVE  HoldsOn
    <2>1. CASE Extend(b)
        BY <1>1, <2>1, ExtendHolds
    <2>2. CASE ExtendBad(b)
        BY <1>1, <2>2, ExtendBadHolds
    <2>3. CASE Relocate(b)
        BY <1>1, <2>3, RelocateHolds
    <2>4. CASE RelocateBad(b)
        BY <1>1, <2>4, RelocateBadHolds
    <2> QED BY <1>4, <2>1, <2>2, <2>3, <2>4
<1>5. CASE Flush \/ Copy \/ Drain \/ DrainBad \/ Settle
    <2>1. CASE Flush
        BY <1>1, <2>1, FlushHolds
    <2>2. CASE Copy
        BY <1>1, <2>2, CopyHolds
    <2>3. CASE Drain
        BY <1>1, <2>3, DrainHolds
    <2>4. CASE DrainBad
        BY <1>1, <2>4, DrainBadHolds
    <2>5. CASE Settle
        BY <1>1, <2>5, SettleHolds
    <2> QED BY <1>5, <2>1, <2>2, <2>3, <2>4, <2>5
<1>6. CASE Commit \/ CommitFull \/ Closes
    <2>1. CASE Commit
        BY <1>1, <2>1, CommitHolds
    <2>2. CASE CommitFull
        BY <1>1, <2>2, CommitFullHolds
    <2>3. CASE Closes
        BY <1>1, <2>3, ClosesHolds
    <2> QED BY <1>6, <2>1, <2>2, <2>3
<1>7. CASE Get \/ SetPos \/ Cut
    <2>1. CASE Get
        BY <1>1, <2>1, GetHolds
    <2>2. CASE SetPos
        BY <1>1, <2>2, SetPosHolds
    <2>3. CASE Cut
        BY <1>1, <2>3, CutHolds
    <2> QED BY <1>7, <2>1, <2>2, <2>3
<1> QED BY <1>2, <1>3, <1>4, <1>5, <1>6, <1>7 DEF Steps

\* Nothing happens.
LEMMA StandsStill ==
    ASSUME Holds, UNCHANGED vars
    PROVE  HoldsOn
<1>1. /\ disk' = disk /\ entry' = entry /\ file' = file /\ todo' = todo /\ got' = got
      /\ result' = result /\ call' = call
    BY DEF vars, storage
<1>2. Saved' = Saved
    BY <1>1, SavedNow, SavedThen
<1>3. View' = View
    <2>1. FileSize' = FileSize /\ Old' = Old
        BY <1>1 DEF FileSize, Old
    <2> QED BY <1>1, <2>1 DEF View
<1>4. UNCHANGED Promise!vars
    BY <1>1, <1>2, <1>3 DEF Promise!vars
<1>5. Holds'
    BY <1>1 DEF Holds
<1> QED BY <1>4, <1>5 DEF HoldsOn

LEMMA NextHolds ==
    ASSUME Risks = {}, IInv, Holds, [Next]_vars
    PROVE  HoldsOn
<1>1. Whole(disk, entry, file, todo) /\ ops \in 0 .. MaxOps
    BY IInvIs
<1>2. CASE Calls
    BY <1>1, <1>2, CallsHold
<1>3. CASE Steps
    BY <1>1, <1>3, StepsHold
<1>4. CASE Crash
    BY <1>4, CrashHolds
<1>5. CASE UNCHANGED vars
    BY <1>5, StandsStill
<1> QED BY <1>2, <1>3, <1>4, <1>5 DEF Next

LEMMA InitTold ==
    ASSUME Init
    PROVE  Holds /\ Promise!Init
<1>1. /\ entry = Absent /\ file = Closed /\ todo = <<>> /\ got = <<>> /\ result = "ok"
      /\ call = [view |-> Closed, pos |-> 0, writes |-> FALSE, failed |-> FALSE]
    BY DEF Init, Mounted
<1>2. CallOK(call)
    BY <1>1 DEF CallOK
<1>3. Saved = Absent /\ View = Closed
    BY <1>1 DEF Saved, View
<1>4. Promise!Init
    BY <1>1, <1>3 DEF Promise!Init
<1> QED BY <1>1, <1>2, <1>4 DEF Holds

-----------------------------------------------------------------------------

\* An open file keeps the promise of SyncedFile: what a read returns, what a sync saves and
\* what a call that fails leaves behind (lfs_file_read, lfs_file_write, lfs_file_sync,
\* lfs_file_truncate, lfs_file_close), for every file, every sequence of calls and wherever
\* a block is bad, no block is free or the power fails.
THEOREM KeepsItsPromise ==
    ASSUME Risks = {}
    PROVE  Spec => KeepsPromise
<1> DEFINE J == IInv /\ Holds
<1>1. Init => J /\ Promise!Init
    BY InitHolds, InitTold
<1>2. J /\ [Next]_vars => J' /\ [Promise!Next]_(Promise!vars)
    <2> SUFFICES ASSUME J, [Next]_vars
                 PROVE  J' /\ [Promise!Next]_(Promise!vars)
        OBVIOUS
    <2>1. IInv'
        BY NextKeeps
    <2>2. HoldsOn
        BY NextHolds
    <2> QED BY <2>1, <2>2 DEF HoldsOn
<1> HIDE DEF J
<1>3. KeepsPromise <=> Promise!Init /\ [][Promise!Next]_(Promise!vars)
    BY DEF KeepsPromise, Promise!Spec
<1> QED BY <1>1, <1>2, <1>3, PTL DEF Spec

=============================================================================
