-------------------------- MODULE OpenHandlesProofs --------------------------
(***************************************************************************)
(* What is proved of the handles over a directory: whatever is created,    *)
(* removed, renamed, read and synced, and however the parts of the         *)
(* directory split, move and drop out under them, a handle of a file stays *)
(* with its entry until that is gone, and a directory that is read returns *)
(* each entry once.                                                        *)
(***************************************************************************)
EXTENDS OpenHandles, Recursion, SequenceTheorems, FiniteSetTheorems, Integers

-----------------------------------------------------------------------------
(* A directory is one sequence of names, all, in ascending order.  Part k    *)
(* has those behind place b[k].                                              *)

Part == [pair : Pairs, names : Seq(Name)]

Parts(c) ==
    /\ c \in Seq(Part) /\ c # <<>>
    /\ \A k \in 1 .. Len(c) : k > 1 => c[k].names # <<>>
    /\ \A j, k \in 1 .. Len(c) : j # k => c[j].pair # c[k].pair

Offsets(c, b) ==
    /\ b \in [1 .. Len(c) + 1 -> Nat]
    /\ b[1] = 0
    /\ \A k \in 1 .. Len(c) : b[k + 1] = b[k] + Len(c[k].names)

Spread(c, b, all) ==
    /\ Parts(c)
    /\ Offsets(c, b)
    /\ all \in Seq(Name)
    /\ Len(all) = b[Len(c) + 1]
    /\ \A k \in 1 .. Len(c) : \A a \in 1 .. Len(c[k].names) : all[b[k] + a] = c[k].names[a]

Up(all) == \A i, j \in 1 .. Len(all) : i < j => all[i] < all[j]

LEMMA PartsOf ==
    ASSUME NEW c, Parts(c)
    PROVE  /\ Len(c) \in Nat /\ Len(c) >= 1 /\ DOMAIN c = 1 .. Len(c)
           /\ \A k \in 1 .. Len(c) :
                 /\ c[k] \in Part
                 /\ c[k] = [pair |-> c[k].pair, names |-> c[k].names]
                 /\ c[k].pair \in Pairs /\ c[k].pair # Null
                 /\ c[k].names \in Seq(Name)
                 /\ Len(c[k].names) \in Nat
                 /\ DOMAIN c[k].names = 1 .. Len(c[k].names)
                 /\ \A a \in 1 .. Len(c[k].names) : c[k].names[a] \in Name
                 /\ k > 1 => Len(c[k].names) >= 1
<1>1. c \in Seq(Part) /\ c # <<>>
    BY DEF Parts
<1>2. Len(c) \in Nat /\ Len(c) >= 1 /\ DOMAIN c = 1 .. Len(c)
    BY <1>1
<1>3. ASSUME NEW k \in 1 .. Len(c)
      PROVE  /\ c[k] \in Part
             /\ c[k] = [pair |-> c[k].pair, names |-> c[k].names]
             /\ c[k].pair \in Pairs /\ c[k].pair # Null
             /\ c[k].names \in Seq(Name)
             /\ k > 1 => c[k].names # <<>>
    <2>1. c[k] \in Part
        BY <1>1
    <2> QED BY <2>1, ConstantsAssumption DEF Part, Parts
<1>4. ASSUME NEW k \in 1 .. Len(c)
      PROVE  /\ Len(c[k].names) \in Nat
             /\ DOMAIN c[k].names = 1 .. Len(c[k].names)
             /\ \A a \in 1 .. Len(c[k].names) : c[k].names[a] \in Name
             /\ k > 1 => Len(c[k].names) >= 1
    <2> DEFINE s == c[k].names
    <2>1. s \in Seq(Name) /\ (k > 1 => s # <<>>)
        BY <1>3
    <2> HIDE DEF s
    <2>2. Len(s) \in Nat /\ DOMAIN s = 1 .. Len(s) /\ (\A a \in 1 .. Len(s) : s[a] \in Name)
        BY <2>1
    <2>3. s # <<>> => Len(s) >= 1
        BY <2>1
    <2> QED BY <2>1, <2>2, <2>3 DEF s
<1> QED BY <1>2, <1>3, <1>4

LEMMA AtOf ==
    ASSUME NEW c, Parts(c), NEW k \in 1 .. Len(c)
    PROVE  At(c, c[k].pair) = k
<1>1. \A j \in DOMAIN c : c[j].pair = c[k].pair => j = k
    BY PartsOf DEF Parts
<1>2. k \in DOMAIN c
    BY PartsOf
<1> QED BY <1>1, <1>2 DEF At

LEMMA FetchOf ==
    ASSUME NEW c, Parts(c), NEW k \in 1 .. Len(c)
    PROVE  /\ Fetch(c, c[k].pair) =
                [pair |-> c[k].pair, count |-> Len(c[k].names),
                 tail |-> IF k < Len(c) THEN c[k + 1].pair ELSE Null]
           /\ Fetch(c, c[k].pair) \in Mdir
           /\ Fetch(c, c[k].pair).pair = c[k].pair
           /\ Fetch(c, c[k].pair).count = Len(c[k].names)
           /\ Fetch(c, c[k].pair).tail = Null <=> k = Len(c)
           /\ k < Len(c) => Fetch(c, c[k].pair).tail = c[k + 1].pair
<1> DEFINE t == IF k < Len(c) THEN c[k + 1].pair ELSE Null
<1>1. Fetch(c, c[k].pair) = [pair |-> c[k].pair, count |-> Len(c[k].names), tail |-> t]
    BY AtOf DEF Fetch
<1>2. Len(c) \in Nat /\ k \in Nat /\ k <= Len(c)
    BY PartsOf
<1>3. k < Len(c) => c[k + 1].pair \in Pairs /\ c[k + 1].pair # Null
    <2>1. k < Len(c) => k + 1 \in 1 .. Len(c)
        BY <1>2
    <2> QED BY <2>1, PartsOf
<1>4. t \in Pairs \union {Null} /\ (t = Null <=> k = Len(c))
    BY <1>2, <1>3
<1>5. c[k].pair \in Pairs /\ Len(c[k].names) \in Nat
    BY PartsOf
<1>6. k < Len(c) => t = c[k + 1].pair
    OBVIOUS
<1> HIDE DEF t
<1>7. [pair |-> c[k].pair, count |-> Len(c[k].names), tail |-> t] \in Mdir
    BY <1>4, <1>5 DEF Mdir
<1> QED BY <1>1, <1>4, <1>6, <1>7 DEF t

LEMMA PairAt ==
    ASSUME NEW c, Parts(c), NEW p
    PROVE  p \in PairsOf(c) <=> \E k \in 1 .. Len(c) : p = c[k].pair
    BY PartsOf DEF PairsOf

LEMMA NameAt ==
    ASSUME NEW c, Parts(c), NEW x
    PROVE  x \in Names(c) <=> \E k \in 1 .. Len(c) : \E a \in 1 .. Len(c[k].names) :
                                 x = c[k].names[a]
<1>1. x \in Names(c) <=> \E k \in DOMAIN c : x \in Range(c[k].names)
    BY DEF Names
<1>2. \A k \in DOMAIN c : x \in Range(c[k].names) <=> \E a \in DOMAIN c[k].names : x = c[k].names[a]
    BY DEF Range
<1> QED BY <1>1, <1>2, PartsOf

-----------------------------------------------------------------------------
(* Places in the sequence.                                                    *)

LEMMA OffsetsOf ==
    ASSUME NEW c, NEW b, Parts(c), Offsets(c, b)
    PROVE  /\ b[1] = 0
           /\ \A k \in 1 .. Len(c) + 1 : b[k] \in Nat
           /\ \A k \in 1 .. Len(c) : b[k + 1] = b[k] + Len(c[k].names)
           /\ \A j, k \in 1 .. Len(c) + 1 : j <= k => b[j] <= b[k]
           /\ \A j, k \in 1 .. Len(c) + 1 : j < k => b[j] + Len(c[j].names) <= b[k]
<1>1. /\ b[1] = 0
      /\ \A k \in 1 .. Len(c) + 1 : b[k] \in Nat
      /\ \A k \in 1 .. Len(c) : b[k + 1] = b[k] + Len(c[k].names)
    BY DEF Offsets
<1>2. Len(c) \in Nat /\ \A k \in 1 .. Len(c) : Len(c[k].names) \in Nat
    BY PartsOf
<1> DEFINE T == {n \in Nat : \A j \in 1 .. Len(c) + 1 : j + n <= Len(c) + 1 => b[j] <= b[j + n]}
<1>3. 0 \in T
    BY <1>1
<1>4. ASSUME NEW n \in Nat, n \in T PROVE n + 1 \in T
    <2>1. SUFFICES ASSUME NEW j \in 1 .. Len(c) + 1, j + (n + 1) <= Len(c) + 1
                   PROVE  b[j] <= b[j + (n + 1)]
        OBVIOUS
    <2>2. b[j] <= b[j + n]
        BY <1>2, <1>4, <2>1
    <2>3. j + n \in 1 .. Len(c) /\ j + (n + 1) = (j + n) + 1
        BY <1>2, <2>1
    <2>4. b[(j + n) + 1] = b[j + n] + Len(c[j + n].names)
        BY <1>1, <2>3
    <2>5. b[j] \in Nat /\ b[j + n] \in Nat /\ Len(c[j + n].names) \in Nat
        BY <1>1, <1>2, <2>3
    <2> QED BY <2>2, <2>3, <2>4, <2>5
<1>5. \A n \in Nat : n \in T
    <2> HIDE DEF T
    <2> QED BY <1>3, <1>4, Induction
<1>6. ASSUME NEW j \in 1 .. Len(c) + 1, NEW k \in 1 .. Len(c) + 1, j <= k PROVE b[j] <= b[k]
    <2> DEFINE n == k - j
    <2>1. n \in Nat /\ j + n = k /\ j + n <= Len(c) + 1
        BY <1>2, <1>6
    <2> HIDE DEF n
    <2>2. b[j] <= b[j + n]
        BY <1>5, <2>1
    <2> QED BY <2>1, <2>2
<1>7. ASSUME NEW j \in 1 .. Len(c) + 1, NEW k \in 1 .. Len(c) + 1, j < k
      PROVE  b[j] + Len(c[j].names) <= b[k]
    <2>1. j \in 1 .. Len(c) /\ j + 1 \in 1 .. Len(c) + 1 /\ j + 1 <= k
        BY <1>2, <1>7
    <2> QED BY <1>1, <1>6, <2>1
<1> QED BY <1>1, <1>6, <1>7

\* Each place is in a part, and in one.
LEMMA PartOf ==
    ASSUME NEW c, NEW b, Parts(c), Offsets(c, b), NEW i \in Nat, i >= 1, i <= b[Len(c) + 1]
    PROVE  \E k \in 1 .. Len(c) : \E a \in 1 .. Len(c[k].names) : i = b[k] + a
<1>1. Len(c) \in Nat /\ \A k \in 1 .. Len(c) : Len(c[k].names) \in Nat
    BY PartsOf
<1>2. /\ b[1] = 0
      /\ \A k \in 1 .. Len(c) + 1 : b[k] \in Nat
      /\ \A k \in 1 .. Len(c) : b[k + 1] = b[k] + Len(c[k].names)
    BY OffsetsOf
<1> DEFINE H(k) == \E a \in 1 .. Len(c[k].names) : i = b[k] + a
           T == {n \in Nat : n <= Len(c) /\ i <= b[n + 1] => \E k \in 1 .. Len(c) : H(k)}
<1>3. 0 \in T
    BY <1>2
<1>4. ASSUME NEW n \in Nat, n \in T PROVE n + 1 \in T
    <2>1. SUFFICES ASSUME n + 1 <= Len(c), i <= b[(n + 1) + 1] PROVE \E k \in 1 .. Len(c) : H(k)
        OBVIOUS
    <2>2. n + 1 \in 1 .. Len(c) /\ n + 1 \in 1 .. Len(c) + 1 /\ n <= Len(c)
        BY <1>1, <2>1
    <2>3. b[(n + 1) + 1] = b[n + 1] + Len(c[n + 1].names)
        BY <1>2, <2>2
    <2>4. b[n + 1] \in Nat /\ Len(c[n + 1].names) \in Nat
        BY <1>1, <1>2, <2>2
    <2>5. CASE i <= b[n + 1]
        <3> HIDE DEF H
        <3> QED BY <1>4, <2>2, <2>5
    <2>6. CASE ~(i <= b[n + 1])
        <3>1. i - b[n + 1] \in 1 .. Len(c[n + 1].names) /\ i = b[n + 1] + (i - b[n + 1])
            BY <2>1, <2>3, <2>4, <2>6
        <3>2. H(n + 1)
            BY <3>1
        <3> HIDE DEF H
        <3> QED BY <2>2, <3>2
    <2> QED BY <2>5, <2>6
<1>5. \A n \in Nat : n \in T
    <2> HIDE DEF T
    <2> QED BY <1>3, <1>4, Induction
<1>6. Len(c) \in T
    BY <1>1, <1>5
<1> QED BY <1>1, <1>6

LEMMA PartOnce ==
    ASSUME NEW c, NEW b, Parts(c), Offsets(c, b),
           NEW j \in 1 .. Len(c), NEW h \in 1 .. Len(c[j].names),
           NEW k \in 1 .. Len(c), NEW a \in 1 .. Len(c[k].names),
           b[j] + h = b[k] + a
    PROVE  j = k /\ h = a
<1>1. Len(c) \in Nat /\ Len(c[j].names) \in Nat /\ Len(c[k].names) \in Nat
    BY PartsOf
<1>2. b[j] \in Nat /\ b[k] \in Nat
    BY <1>1, OffsetsOf
<1>3. j < k => b[j] + Len(c[j].names) <= b[k]
    BY SMTT(60), <1>1, OffsetsOf
<1>4. k < j => b[k] + Len(c[k].names) <= b[j]
    BY SMTT(60), <1>1, OffsetsOf
<1>5. h \in Nat /\ a \in Nat /\ h >= 1 /\ a >= 1 /\ h <= Len(c[j].names) /\ a <= Len(c[k].names)
    BY <1>1
<1> DEFINE x == b[j]
           y == b[k]
           m == Len(c[j].names)
           n == Len(c[k].names)
<1>6. /\ x \in Nat /\ y \in Nat /\ m \in Nat /\ n \in Nat /\ x + h = y + a
      /\ h <= m /\ a <= n /\ (j < k => x + m <= y) /\ (k < j => y + n <= x)
    BY <1>1, <1>2, <1>3, <1>4, <1>5
<1>7. x = y => h = a
    BY <1>5, <1>6
<1> HIDE DEF x, y, m, n
<1>8. ~(j < k) /\ ~(k < j)
    BY <1>5, <1>6
<1>9. j = k
    BY <1>1, <1>8
<1> QED BY <1>7, <1>9 DEF x, y


\* The names of a directory are fewer than ids.
LEMMA FewNames ==
    ASSUME NEW c, NEW b, NEW all, Spread(c, b, all), Up(all)
    PROVE  Len(all) < None /\ \A k \in 1 .. Len(c) : b[k] + Len(c[k].names) < None
<1>1. all \in Seq(Name) /\ Len(all) \in Nat /\ all \in [1 .. Len(all) -> Name]
    BY DEF Spread
<1>2. \A i \in 1 .. Len(all) : all[i] \in Nat
    BY <1>1, ConstantsAssumption
<1>3. \A i, j \in 1 .. Len(all) : all[i] = all[j] => i = j
    BY <1>1, <1>2 DEF Up
<1>4. all \in Injection(1 .. Len(all), Name)
    BY <1>1, <1>3 DEF Injection, IsInjective
<1>5. Cardinality(1 .. Len(all)) <= Cardinality(Name)
    BY <1>4, FS_Injection, ConstantsAssumption
<1>6. Cardinality(1 .. Len(all)) = Len(all)
    BY <1>1, FS_Interval
<1>7. Cardinality(Name) \in Nat /\ Cardinality(Name) < None
    BY FS_CardinalityType, ConstantsAssumption
<1>8. Len(all) < None
    BY <1>1, <1>5, <1>6, <1>7 DEF None
<1>9. ASSUME NEW k \in 1 .. Len(c) PROVE b[k] + Len(c[k].names) < None
    <2>1. Parts(c) /\ Offsets(c, b) /\ Len(all) = b[Len(c) + 1] /\ Len(c) \in Nat
        BY PartsOf DEF Spread
    <2>2. b[k] + Len(c[k].names) <= b[Len(c) + 1]
        BY <2>1, OffsetsOf
    <2>3. b[k] \in Nat /\ Len(c[k].names) \in Nat
        BY <2>1, OffsetsOf, PartsOf
    <2> QED BY <1>1, <1>8, <2>1, <2>2, <2>3 DEF None
<1> QED BY <1>8, <1>9

-----------------------------------------------------------------------------
(* The loop that moves a place into its part.                                 *)

\* A loop is a function of the number of its rounds.
LEMMA Rounds ==
    ASSUME NEW S, NEW s \in S, NEW step \in [S -> S]
    PROVE  \E f \in [Nat -> S] : f = [n \in Nat |-> IF n = 0 THEN s ELSE step[f[n - 1]]]
<1> DEFINE Def(j, f) == IF j = 0 THEN s ELSE step[f[j - 1]]
           G == [x \in Nat \X [Nat -> S] |-> Def(x[1], x[2])]
<1>1. \A j \in Nat, f \in [Nat -> S] : G[<<j, f>>] = Def(j, f)
    OBVIOUS
<1>2. \A j \in Nat, f \in [Nat -> S] : Def(j, f) \in S
    OBVIOUS
<1>3. G \in [Nat \X [Nat -> S] -> S]
    BY <1>2
<1>4. ASSUME NEW j \in Nat, NEW f \in [Nat -> S], NEW h \in [Nat -> S],
             \A i \in Nat : i < j => f[i] = h[i]
      PROVE  G[<<j, f>>] = G[<<j, h>>]
    <2>1. Def(j, f) = Def(j, h)
        BY <1>4
    <2> HIDE DEF G, Def
    <2> QED BY <1>1, <2>1
<1> HIDE DEF G
<1>5. PICK f \in [Nat -> S] : \A j \in Nat : f[j] = G[<<j, f>>]
    <2>1. Recurs(G, S)
        BY <1>3, <1>4 DEF Recurs
    <2>2. \E f : Follows(f, G, S)
        BY <2>1, Recursion
    <2> QED BY <2>2 DEF Follows
<1>6. f = [j \in Nat |-> Def(j, f)]
    <2>1. \A j \in Nat : f[j] = Def(j, f)
        BY <1>1, <1>5
    <2> HIDE DEF Def
    <2> QED BY <2>1
<1> QED BY <1>6

\* A place in the directory, from any part before it, ends in the part that has it;
\* only in the last part it may be behind all names.
SettlesAt(c, b, s, p) ==
    \E j \in 1 .. Len(c) : \E x \in Nat :
        /\ s = [m |-> Fetch(c, c[j].pair), id |-> x]
        /\ b[j] + x = p
        /\ x < Len(c[j].names) \/ j = Len(c)

LEMMA SettleFar ==
    ASSUME NEW c, NEW b, NEW all, Spread(c, b, all), NEW k \in 1 .. Len(c), NEW id \in Nat
    PROVE  SettlesAt(c, b, Settle(c, Fetch(c, c[k].pair), id), b[k] + id)
<1> DEFINE N == Len(c)
           at(j) == Fetch(c, c[j].pair)
           n_(j) == Len(c[j].names)
           pl(j, x) == [m |-> at(j), id |-> x]
           Step(s) == IF s.id >= s.m.count /\ s.m.tail # Null
                      THEN [m |-> Fetch(c, s.m.tail), id |-> s.id - s.m.count]
                      ELSE s
           S == {pl(y[1], y[2]) : y \in (1 .. N) \X Nat}
           Ends(s) == \E j \in 1 .. N : \E x \in Nat :
                          s = pl(j, x) /\ b[j] + x = b[k] + id /\ (x < n_(j) \/ j = N)
           Goes(s, n) == \E j \in 1 .. N : \E x \in Nat :
                          s = pl(j, x) /\ b[j] + x = b[k] + id /\ j > n
<1>1. Parts(c) /\ Offsets(c, b) /\ Len(all) = b[N + 1] /\ N \in Nat /\ N >= 1 /\ Len(all) \in Nat
    BY PartsOf DEF Spread
<1>2. \A j \in 1 .. N : n_(j) \in Nat /\ b[j] \in Nat /\ b[j + 1] = b[j] + n_(j)
    BY <1>1, PartsOf, OffsetsOf
<1>3. ASSUME NEW j \in 1 .. N
      PROVE  at(j).count = n_(j) /\ (at(j).tail = Null <=> j = N)
             /\ (j < N => at(j).tail = c[j + 1].pair)
    BY <1>1, FetchOf
<1> HIDE DEF n_
<1>4. ASSUME NEW j \in 1 .. N, NEW x \in Nat
      PROVE  /\ x < n_(j) \/ j = N => Step(pl(j, x)) = pl(j, x)
             /\ ~(x < n_(j)) /\ j # N =>
                   /\ j + 1 \in 1 .. N /\ x - n_(j) \in Nat
                   /\ Step(pl(j, x)) = pl(j + 1, x - n_(j))
    <2> DEFINE s == pl(j, x)
    <2>1. s.id = x /\ s.m = at(j) /\ s.m.count = n_(j)
        BY <1>3
    <2>2. n_(j) \in Nat /\ (j # N => j < N /\ j + 1 \in 1 .. N)
        BY <1>1, <1>2
    <2>3. CASE x < n_(j) \/ j = N
        <3>1. ~(s.id >= s.m.count /\ s.m.tail # Null)
            BY <1>3, <2>1, <2>2, <2>3
        <3> HIDE DEF s
        <3>2. Step(s) = s
            BY <3>1
        <3> QED BY <2>3, <3>2 DEF s
    <2>4. CASE ~(x < n_(j)) /\ j # N
        <3>1. s.id >= s.m.count /\ s.m.tail # Null /\ s.m.tail = c[j + 1].pair
            BY <1>3, <2>1, <2>2, <2>4
        <3>2. s.id - s.m.count = x - n_(j) /\ x - n_(j) \in Nat
            BY <2>1, <2>2, <2>4
        <3> HIDE DEF s
        <3>3. Step(s) = [m |-> at(j + 1), id |-> x - n_(j)]
            BY <3>1, <3>2
        <3> QED BY <2>2, <2>4, <3>2, <3>3 DEF s
    <2> QED BY <2>3, <2>4
<1>5. \A s \in S : \E j \in 1 .. N : \E x \in Nat : s = pl(j, x)
    OBVIOUS
<1>6. \A j \in 1 .. N : \A x \in Nat : pl(j, x) \in S
    <2> SUFFICES ASSUME NEW j \in 1 .. N, NEW x \in Nat PROVE pl(j, x) \in S
        OBVIOUS
    <2>1. <<j, x>> \in (1 .. N) \X Nat /\ pl(j, x) = pl(<<j, x>>[1], <<j, x>>[2])
        OBVIOUS
    <2> QED BY <2>1
<1> HIDE DEF S, at
<1>7. \A s \in S : Step(s) \in S
    <2> SUFFICES ASSUME NEW s \in S PROVE Step(s) \in S
        OBVIOUS
    <2>1. PICK j \in 1 .. N, x \in Nat : s = pl(j, x)
        BY <1>5
    <2> HIDE DEF pl, Step
    <2> QED BY <1>4, <1>6, <2>1
<1> DEFINE s0 == pl(k, id)
           step == [s \in S |-> Step(s)]
           after[n \in Nat] == IF n = 0 THEN [m |-> Fetch(c, c[k].pair), id |-> id]
                               ELSE LET s == after[n - 1]
                                    IN IF s.id >= s.m.count /\ s.m.tail # Null
                                       THEN [m |-> Fetch(c, s.m.tail), id |-> s.id - s.m.count]
                                       ELSE s
<1>8. s0 \in S
    BY <1>6
<1>9. PICK f \in [Nat -> S] : f = [n \in Nat |-> IF n = 0 THEN s0 ELSE step[f[n - 1]]]
    <2> HIDE DEF s0
    <2>1. step \in [S -> S]
        BY <1>7
    <2> HIDE DEF step
    <2> QED BY SMTT(60), <1>8, <2>1, Rounds
<1>10. f = [n \in Nat |-> IF n = 0 THEN s0 ELSE Step(f[n - 1])]
    <2>1. \A n \in Nat : n # 0 => f[n - 1] \in S
        OBVIOUS
    <2>2. \A s \in S : step[s] = Step(s)
        OBVIOUS
    <2> HIDE DEF step, Step, s0
    <2>3. ASSUME NEW n \in Nat
          PROVE  (IF n = 0 THEN s0 ELSE step[f[n - 1]]) = (IF n = 0 THEN s0 ELSE Step(f[n - 1]))
        <3> DEFINE s == f[n - 1]
        <3>1. n # 0 => s \in S
            BY <2>1
        <3> HIDE DEF s
        <3>2. n # 0 => step[s] = Step(s)
            BY <2>2, <3>1
        <3> QED BY <3>2 DEF s
    <2> QED BY <1>9, <2>3
<1>11. after = [n \in Nat |-> IF n = 0 THEN s0 ELSE Step(after[n - 1])]
    <2>1. s0 = [m |-> Fetch(c, c[k].pair), id |-> id]
        BY DEF at
    <2> QED BY <1>10, <2>1
<1>12. Settle(c, Fetch(c, c[k].pair), id) = after[N]
    BY DEF Settle, N
<1>13. after[0] = s0 /\ \A n \in Nat : after[n + 1] = Step(after[n])
    <2> HIDE DEF after, s0, Step
    <2> QED BY <1>11
<1> HIDE DEF after
<1> DEFINE V == {n \in Nat : Ends(after[n]) \/ Goes(after[n], n)}
<1>14. 0 \in V
    <2>1. Goes(s0, 0)
        BY <1>1
    <2> HIDE DEF Goes
    <2> QED BY <1>13, <2>1
<1>15. ASSUME NEW n \in Nat, n \in V PROVE n + 1 \in V
    <2>1. CASE Ends(after[n])
        <3>0. PICK j \in 1 .. N : \E x \in Nat : after[n] = pl(j, x)
                    /\ b[j] + x = b[k] + id /\ (x < n_(j) \/ j = N)
            BY <2>1
        <3>1. PICK x \in Nat : after[n] = pl(j, x)
                    /\ b[j] + x = b[k] + id /\ (x < n_(j) \/ j = N)
            BY <3>0
        <3> HIDE DEF Step, pl
        <3>3. after[n + 1] = after[n]
            BY <1>4, <1>13, <3>1
        <3> HIDE DEF Ends, Goes
        <3> QED BY <2>1, <3>3
    <2>2. CASE Goes(after[n], n)
        <3>1. PICK j \in 1 .. N, x \in Nat : after[n] = pl(j, x)
                    /\ b[j] + x = b[k] + id /\ j > n
            BY <2>2
        <3> HIDE DEF Step, pl
        <3>2. CASE x < n_(j) \/ j = N
            <4>1. after[n + 1] = pl(j, x)
                BY <1>4, <1>13, <3>1, <3>2
            <4>2. Ends(after[n + 1])
                BY <3>1, <3>2, <4>1
            <4> HIDE DEF Ends, Goes
            <4> QED BY <4>2
        <3>3. CASE ~(x < n_(j)) /\ j # N
            <4>0. /\ j + 1 \in 1 .. N /\ x - n_(j) \in Nat
                  /\ Step(pl(j, x)) = pl(j + 1, x - n_(j))
                BY <1>4, <3>1, <3>3
            <4>1. /\ j + 1 \in 1 .. N /\ x - n_(j) \in Nat
                  /\ after[n + 1] = pl(j + 1, x - n_(j))
                BY <1>13, <3>1, <4>0
            <4>2. b[j + 1] + (x - n_(j)) = b[k] + id
                BY SMTT(60), <1>1, <1>2, <3>1, k \in 1 .. N
            <4>3. j + 1 > n + 1
                BY <3>1
            <4>4. Goes(after[n + 1], n + 1)
                BY <4>1, <4>2, <4>3
            <4> HIDE DEF Ends, Goes
            <4> QED BY <4>4
        <3> QED BY <3>2, <3>3
    <2> QED BY <1>15, <2>1, <2>2
<1>16. \A n \in Nat : n \in V
    <2> HIDE DEF V
    <2> QED BY <1>14, <1>15, Induction
<1>17. ~Goes(after[N], N)
    <2>1. \A j \in 1 .. N : ~(j > N)
        BY <1>1
    <2> HIDE DEF pl, N
    <2> QED BY <2>1
<1>18. Ends(after[N])
    <2> HIDE DEF Goes, Ends
    <2> QED BY <1>1, <1>16, <1>17
<1>19. \E j \in 1 .. Len(c) : \E x \in Nat :
          /\ Settle(c, Fetch(c, c[k].pair), id) = [m |-> Fetch(c, c[j].pair), id |-> x]
          /\ b[j] + x = b[k] + id
          /\ x < Len(c[j].names) \/ j = Len(c)
    BY <1>12, <1>18 DEF at, n_, N
<1> QED BY <1>19 DEF SettlesAt

LEMMA SettleOf ==
    ASSUME NEW c, NEW b, NEW all, Spread(c, b, all), NEW k \in 1 .. Len(c), NEW id \in Nat,
           b[k] + id <= Len(all)
    PROVE  \E j \in 1 .. Len(c) : \E x \in 0 .. Len(c[j].names) :
              /\ Settle(c, Fetch(c, c[k].pair), id) = [m |-> Fetch(c, c[j].pair), id |-> x]
              /\ b[j] + x = b[k] + id
              /\ x < Len(c[j].names) \/ j = Len(c)
<1>0. SettlesAt(c, b, Settle(c, Fetch(c, c[k].pair), id), b[k] + id)
    BY SettleFar
<1>1. PICK j \in 1 .. Len(c) : \E x \in Nat :
         /\ Settle(c, Fetch(c, c[k].pair), id) = [m |-> Fetch(c, c[j].pair), id |-> x]
         /\ b[j] + x = b[k] + id
         /\ x < Len(c[j].names) \/ j = Len(c)
    BY <1>0 DEF SettlesAt
<1>2. PICK x \in Nat :
         /\ Settle(c, Fetch(c, c[k].pair), id) = [m |-> Fetch(c, c[j].pair), id |-> x]
         /\ b[j] + x = b[k] + id
         /\ x < Len(c[j].names) \/ j = Len(c)
    BY <1>1
<1> DEFINE n == Len(c[j].names)
           y == b[j]
           L == Len(all)
<1>3. Parts(c) /\ Offsets(c, b) /\ Len(all) = b[Len(c) + 1]
    BY DEF Spread
<1>4. y \in Nat /\ n \in Nat /\ (j = Len(c) => y + n = L)
    BY <1>3, PartsOf, OffsetsOf
<1>5. y + x <= L
    BY <1>2
<1>6. L \in Nat
    BY PartsOf DEF Spread
<1>7. x < n \/ j = Len(c)
    BY <1>2
<1> HIDE DEF n, y, L
<1>8. x \in 0 .. n
    BY <1>4, <1>5, <1>6, <1>7
<1> QED BY <1>2, <1>8 DEF n

\* A place that is not behind the names of the last part it may be taken for stays.
LEMMA SettleStays ==
    ASSUME NEW c, Len(c) \in Nat, NEW m, NEW id, ~(id >= m.count /\ m.tail # Null)
    PROVE  Settle(c, m, id) = [m |-> m, id |-> id]
<1> DEFINE Step(s) == IF s.id >= s.m.count /\ s.m.tail # Null
                      THEN [m |-> Fetch(c, s.m.tail), id |-> s.id - s.m.count]
                      ELSE s
           s0 == [m |-> m, id |-> id]
           f == [n \in Nat |-> s0]
           after[n \in Nat] == IF n = 0 THEN [m |-> m, id |-> id]
                               ELSE LET s == after[n - 1]
                                    IN IF s.id >= s.m.count /\ s.m.tail # Null
                                       THEN [m |-> Fetch(c, s.m.tail), id |-> s.id - s.m.count]
                                       ELSE s
<1>1. Step(s0) = s0
    OBVIOUS
<1>2. f = [n \in Nat |-> IF n = 0 THEN s0 ELSE Step(f[n - 1])]
    <2> HIDE DEF Step, s0, after
    <2>2. ASSUME NEW n \in Nat PROVE (IF n = 0 THEN s0 ELSE Step(f[n - 1])) = s0
        <3>1. n # 0 => n - 1 \in Nat
            OBVIOUS
        <3>2. \A i \in Nat : f[i] = s0
            BY Zenon
        <3> HIDE DEF f
        <3> QED BY <1>1, <3>1, <3>2
    <2> QED BY <2>2, Zenon
<1>3. after = [n \in Nat |-> IF n = 0 THEN s0 ELSE Step(after[n - 1])]
    BY <1>2
<1>4. Settle(c, m, id) = after[Len(c)]
    BY DEF Settle
<1>5. after[0] = s0 /\ \A n \in Nat : after[n + 1] = Step(after[n])
    <2> HIDE DEF after, s0, Step
    <2> QED BY <1>3
<1> HIDE DEF after, Step
<1> DEFINE V == {n \in Nat : after[n] = s0}
<1>6. 0 \in V /\ \A n \in Nat : n \in V => n + 1 \in V
    BY <1>1, <1>5
<1>7. \A n \in Nat : n \in V
    <2> HIDE DEF V
    <2> QED BY <1>6, Induction
<1> QED BY <1>4, <1>7

-----------------------------------------------------------------------------
(* Handles.                                                                   *)

FileHandles == [kind : {"file"}, m : Mdir, id : Nat, name : Name, gone : BOOLEAN]

DirHandles == [kind : {"dir"}, m : Mdir, id : Nat, pos : Int, head : Pairs,
               seen : SUBSET Name, start : SUBSET Name]

HandleSet == FileHandles \union DirHandles

\* All but its place is the same.
Like(e, d) ==
    \/ /\ d \in FileHandles /\ e \in FileHandles
       /\ e.name = d.name /\ e.gone = d.gone
    \/ /\ d \in DirHandles /\ e \in DirHandles
       /\ e.head = d.head /\ e.seen = d.seen /\ e.start = d.start

\* Handle d is in part j of chain c, which it knows (if j is not k).  A file is at a name,
\* or behind the last.
In(c, d, j, k) ==
    /\ d.m.pair = c[j].pair
    /\ j # k => d.m = Fetch(c, c[j].pair)
    /\ d.id <= Len(c[j].names)
    /\ d \in FileHandles => d.id < Len(c[j].names) \/ j = Len(c)

\* ... and P names of the directory are before it.
Sits(c, b, d, P) == \E j \in 1 .. Len(c) : In(c, d, j, 0) /\ P = b[j] + d.id

\* Where Shift takes the place id of handle i.
Shifted(id, del, cre, i, owner) ==
    IF id > del THEN id - 1 ELSE IF i # owner /\ id >= cre THEN id + 1 ELSE id

LEMMA KindOf ==
    ASSUME NEW d \in HandleSet
    PROVE  /\ d \in FileHandles <=> ~IsDir(d)
           /\ d \in DirHandles <=> IsDir(d)
           /\ d.m \in Mdir /\ d.id \in Nat
           /\ Like(d, d)
    BY DEF HandleSet, FileHandles, DirHandles, IsDir, Like

LEMMA LikeKind ==
    ASSUME NEW d \in HandleSet, NEW e, Like(e, d)
    PROVE  /\ e \in HandleSet
           /\ e \in FileHandles <=> d \in FileHandles
           /\ e \in DirHandles <=> d \in DirHandles
           /\ IsDir(e) <=> IsDir(d)
           /\ d \in FileHandles => e.name = d.name /\ e.gone = d.gone
           /\ d \in DirHandles => e.head = d.head /\ e.seen = d.seen /\ e.start = d.start
<1>1. d \in FileHandles => ~IsDir(d)
    BY KindOf
<1>2. d \in DirHandles => IsDir(d)
    BY KindOf
<1>3. e \in FileHandles => e \in HandleSet /\ ~IsDir(e)
    BY KindOf DEF HandleSet
<1>4. e \in DirHandles => e \in HandleSet /\ IsDir(e)
    BY KindOf DEF HandleSet
<1> QED BY <1>1, <1>2, <1>3, <1>4 DEF Like

LEMMA LikeLike ==
    ASSUME NEW d, NEW e, NEW f, Like(e, d), Like(f, e)
    PROVE  Like(f, d)
<1>1. d \in FileHandles => ~(d \in DirHandles)
    BY KindOf DEF HandleSet
<1>2. e \in FileHandles => ~(e \in DirHandles)
    BY KindOf DEF HandleSet
<1> QED BY <1>1, <1>2 DEF Like

Shifts(id, del, cre, own) ==
    IF id > del THEN id - 1 ELSE IF ~own /\ id >= cre THEN id + 1 ELSE id

LEMMA ShiftOf ==
    ASSUME NEW d \in HandleSet, NEW m \in Mdir, NEW del \in Nat, NEW cre \in Nat,
           NEW own
    PROVE  /\ Shift(d, m, del, cre, own) \in HandleSet
           /\ Like(Shift(d, m, del, cre, own), d)
           /\ d.id # del => /\ Shift(d, m, del, cre, own).m = m
                            /\ Shift(d, m, del, cre, own).id = Shifts(d.id, del, cre, own)
                            /\ Shifts(d.id, del, cre, own) \in Nat
           /\ d.id = del => /\ Shift(d, m, del, cre, own).m = [m EXCEPT !.pair = Null]
                            /\ Shift(d, m, del, cre, own).id = d.id
<1> DEFINE by(n) == IF IsDir(d) THEN [d EXCEPT !.m = m, !.id = n, !.pos = (@ + n) - d.id]
                             ELSE [d EXCEPT !.m = m, !.id = n]
           e == Shift(d, m, del, cre, own)
<1>1. ASSUME NEW n \in Nat PROVE Like(by(n), d) /\ by(n).m = m /\ by(n).id = n
    <2>1. CASE d \in FileHandles
        <3> DEFINE z == [d EXCEPT !.m = m, !.id = n]
        <3>1. by(n) = z
            BY <2>1, KindOf
        <3>2. Like(z, d) /\ z.m = m /\ z.id = n
            BY <2>1 DEF FileHandles, Like
        <3> HIDE DEF by, z
        <3> QED BY <3>1, <3>2
    <2>2. CASE d \in DirHandles
        <3> DEFINE p == (d.pos + n) - d.id
        <3>1. by(n) = [d EXCEPT !.m = m, !.id = n, !.pos = p]
            BY <2>2, KindOf
        <3>2. d.pos \in Int /\ d.id \in Nat
            BY <2>2 DEF DirHandles
        <3>3. p \in Int
            BY <3>2
        <3> HIDE DEF by, p
        <3> QED BY <2>2, <3>1, <3>3 DEF DirHandles, Like
    <2> QED BY <2>1, <2>2 DEF HandleSet
<1>2. d.id \in Nat
    BY KindOf
<1>3. CASE d.id = del
    <2>1. e = [d EXCEPT !.m = [m EXCEPT !.pair = Null]]
        BY <1>3 DEF Shift
    <2> DEFINE mm == [m EXCEPT !.pair = Null]
    <2>2. mm \in Mdir
        BY DEF Mdir
    <2> HIDE DEF mm
    <2>3. Like([d EXCEPT !.m = mm], d) /\ [d EXCEPT !.m = mm].m = mm /\ [d EXCEPT !.m = mm].id = d.id
        <3>1. CASE d \in FileHandles
            BY <2>2, <3>1 DEF FileHandles, Like
        <3>2. CASE d \in DirHandles
            BY <2>2, <3>2 DEF DirHandles, Like
        <3> QED BY <3>1, <3>2 DEF HandleSet
    <2>4. Like(e, d) /\ e.m = mm /\ e.id = d.id
        BY <2>1, <2>3 DEF mm
    <2> HIDE DEF e
    <2> QED BY <1>3, <2>4, LikeKind DEF mm, e
<1>4. CASE d.id # del
    <2> DEFINE n == Shifts(d.id, del, cre, own)
    <2>1. n \in Nat
        BY <1>2 DEF Shifts
    <2>2. e = by(n)
        BY <1>4 DEF Shift, Shifts
    <2> HIDE DEF e, by, n
    <2>3. Like(e, d) /\ e.m = m /\ e.id = n
        BY <1>1, <2>1, <2>2
    <2> QED BY <1>4, <2>1, <2>3, LikeKind DEF e, n
<1> QED BY <1>3, <1>4

\* What becomes of handle i of the list, d, with the mdir of part k: e.
MovedWell(c, b, all, k, e, d, del, cre, i, owner) ==
    LET x == Shifted(d.id, del, cre, i, owner)
    IN /\ d.id # del /\ b[k] + x <= Len(all) =>
             /\ Like(e, d)
             /\ \E j \in 1 .. Len(c) : /\ In(c, e, j, 0) /\ b[j] + e.id = b[k] + x
                                       /\ e.id < Len(c[j].names) \/ j = Len(c)
       /\ d.id # del /\ (x < Len(c[k].names) \/ k = Len(c)) =>
             Like(e, d) /\ e.m = Fetch(c, c[k].pair) /\ e.id = x
       /\ d.id = del /\ (d.id < Len(c[k].names) \/ k = Len(c)) =>
             Like(e, d) /\ e.m = NoMdir

LEMMA MovedOf ==
    ASSUME NEW c, NEW b, NEW all, Spread(c, b, all), NEW k \in 1 .. Len(c),
           NEW d \in HandleSet, NEW del \in Nat, NEW cre \in Nat,
           NEW own, NEW i, NEW owner, own <=> i = owner,
           NEW m, m = Fetch(c, c[k].pair), NEW e, e = Moved(c, d, m, del, cre, own)
    PROVE  MovedWell(c, b, all, k, e, d, del, cre, i, owner)
<1> DEFINE x == Shifted(d.id, del, cre, i, owner)
           y == Shift(d, m, del, cre, own)
           land == Settle(c, y.m, y.id)
           mm == IF land.m.pair = Null THEN NoMdir ELSE land.m
<1>0. Parts(c)
    BY DEF Spread
<1>1. /\ Len(c) \in Nat /\ m \in Mdir /\ m.count = Len(c[k].names)
      /\ (m.tail = Null <=> k = Len(c)) /\ m.pair # Null
    <2>1. Len(c) \in Nat /\ c[k].pair # Null
        BY <1>0, PartsOf
    <2> QED BY <1>0, <2>1, FetchOf
<1>2. /\ y \in HandleSet /\ Like(y, d)
      /\ d.id # del => y.m = m /\ y.id = x /\ x \in Nat
      /\ d.id = del => y.m = [m EXCEPT !.pair = Null] /\ y.id = d.id
    <2>1. Shifts(d.id, del, cre, own) = x
        BY DEF Shifts, Shifted, x
    <2> QED BY <1>1, <2>1, ShiftOf
<1>3. e = [y EXCEPT !.m = mm, !.id = land.id]
    BY DEF Moved
<1>4. ASSUME mm \in Mdir, land.id \in Nat PROVE Like(e, d) /\ e.m = mm /\ e.id = land.id
    <2> HIDE DEF y, mm, land
    <2>1. Like(e, y) /\ e.m = mm /\ e.id = land.id
        <3>1. CASE y \in FileHandles
            BY <1>3, <1>4, <3>1 DEF FileHandles, Like
        <3>2. CASE y \in DirHandles
            BY <1>3, <1>4, <3>2 DEF DirHandles, Like
        <3> QED BY <1>2, <3>1, <3>2 DEF HandleSet
    <2> QED BY <1>2, <2>1, LikeLike
<1> HIDE DEF x
<1>5. ASSUME d.id # del, b[k] + x <= Len(all)
      PROVE  /\ Like(e, d)
             /\ \E j \in 1 .. Len(c) : /\ In(c, e, j, 0) /\ b[j] + e.id = b[k] + x
                                       /\ e.id < Len(c[j].names) \/ j = Len(c)
    <2>1. land = Settle(c, Fetch(c, c[k].pair), x) /\ x \in Nat
        BY <1>2, <1>5
    <2> HIDE DEF land
    <2>2. PICK j \in 1 .. Len(c) : \E h \in 0 .. Len(c[j].names) :
              /\ Settle(c, Fetch(c, c[k].pair), x) = [m |-> Fetch(c, c[j].pair), id |-> h]
              /\ b[j] + h = b[k] + x
              /\ h < Len(c[j].names) \/ j = Len(c)
        BY <1>5, <2>1, SettleOf
    <2>3. PICK h \in 0 .. Len(c[j].names) :
              /\ land = [m |-> Fetch(c, c[j].pair), id |-> h]
              /\ b[j] + h = b[k] + x
              /\ h < Len(c[j].names) \/ j = Len(c)
        BY <2>1, <2>2
    <2>4. Fetch(c, c[j].pair) \in Mdir /\ Fetch(c, c[j].pair).pair = c[j].pair
          /\ c[j].pair # Null /\ Len(c[j].names) \in Nat
        BY <1>0, FetchOf, PartsOf
    <2>5. mm = Fetch(c, c[j].pair) /\ land.id = h /\ h \in Nat
        BY <2>3, <2>4
    <2>6. Like(e, d) /\ e.m = Fetch(c, c[j].pair) /\ e.id = h
        BY <1>4, <2>4, <2>5
    <2>7. In(c, e, j, 0)
        BY <2>3, <2>4, <2>6 DEF In
    <2> QED BY <2>3, <2>6, <2>7
<1>6. ASSUME d.id # del, x < Len(c[k].names) \/ k = Len(c)
      PROVE  Like(e, d) /\ e.m = m /\ e.id = x
    <2>1. y.m = m /\ y.id = x /\ x \in Nat /\ Len(c[k].names) \in Nat
        BY <1>0, <1>2, <1>6, PartsOf
    <2>2. ~(y.id >= y.m.count /\ y.m.tail # Null)
        BY <1>1, <1>6, <2>1
    <2> HIDE DEF y
    <2>3. land = [m |-> m, id |-> x]
        BY <1>1, <2>1, <2>2, SettleStays
    <2>4. mm = m /\ land.id = x /\ x \in Nat
        BY <1>1, <2>1, <2>3
    <2> QED BY <1>1, <1>4, <2>4
<1>7. ASSUME d.id = del, d.id < Len(c[k].names) \/ k = Len(c) PROVE Like(e, d) /\ e.m = NoMdir
    <2>1. y.m = [m EXCEPT !.pair = Null] /\ y.id = d.id /\ d.id \in Nat /\ Len(c[k].names) \in Nat
        BY <1>0, <1>2, <1>7, KindOf, PartsOf
    <2>2. y.m.pair = Null /\ y.m.count = m.count /\ y.m.tail = m.tail
        BY <1>1, <2>1 DEF Mdir
    <2>3. ~(y.id >= y.m.count /\ y.m.tail # Null)
        BY <1>1, <1>7, <2>1, <2>2
    <2> HIDE DEF y
    <2>4. land = [m |-> y.m, id |-> y.id]
        BY <1>1, <2>3, SettleStays
    <2>5. mm = NoMdir /\ land.id \in Nat
        <3> HIDE DEF land
        <3> QED BY <2>1, <2>2, <2>4
    <2>6. NoMdir \in Mdir
        BY DEF NoMdir, Mdir
    <2> QED BY <1>4, <2>5, <2>6
<1> QED BY <1>5, <1>6, <1>7 DEF MovedWell, x

UpdatedWell(c, b, all, k, l, L, del, cre, owner) ==
    /\ Len(L) = Len(l) /\ L = [i \in 1 .. Len(l) |-> L[i]]
    /\ \A i \in 1 .. Len(l) :
          IF l[i].m.pair = c[k].pair
          THEN MovedWell(c, b, all, k, L[i], l[i], del, cre, i, owner)
          ELSE L[i] = l[i]

\* The loop over the list, for a commit to part k: the other handles are as they were.
LEMMA UpdatedOf ==
    ASSUME NEW c, NEW b, NEW all, Spread(c, b, all), NEW k \in 1 .. Len(c),
           NEW l \in Seq(HandleSet), NEW del \in Nat, NEW cre \in Nat, NEW owner \in 0 .. Len(l),
           NEW L, L = Updated(c, l, Fetch(c, c[k].pair), del, cre, owner),
           owner # 0 => /\ l[owner].m.pair = c[k].pair
                        /\ l[owner].id # del /\ l[owner].id <= del
                        /\ \/ l[owner].id < Len(c[k].names) \/ k = Len(c)
                           \/ \A i \in 1 .. Len(l) : i > owner => l[i].m.pair # c[k].pair
    PROVE  UpdatedWell(c, b, all, k, l, L, del, cre, owner)
<1> DEFINE dir == Fetch(c, c[k].pair)
           Has(i) == l[i].m.pair = dir.pair
           now    == IF owner # 0 /\ Has(owner)
                     THEN Moved(c, l[owner], dir, del, cre, TRUE).m ELSE dir
           At_(i) == IF owner # 0 /\ i > owner THEN now ELSE dir
<1>1. Parts(c) /\ dir.pair = c[k].pair /\ dir.count = Len(c[k].names)
    BY FetchOf DEF Spread
<1>2. DOMAIN l = 1 .. Len(l) /\ Len(l) \in Nat /\ \A i \in 1 .. Len(l) : l[i] \in HandleSet
    OBVIOUS
<1>3. L = [i \in 1 .. Len(l) |->
              IF Has(i) THEN Moved(c, l[i], At_(i), del, cre, i = owner) ELSE l[i]]
    BY <1>2 DEF Updated
<1>4. ASSUME NEW i \in 1 .. Len(l), Has(i) PROVE At_(i) = dir
    <2>1. SUFFICES ASSUME owner # 0, i > owner PROVE now = dir
        OBVIOUS
    <2>2. l[owner].id < Len(c[k].names) \/ k = Len(c)
        BY <1>1, <1>4, <2>1
    <2>3. l[owner] \in HandleSet /\ l[owner].id \in Nat
        BY <1>2, <2>1, KindOf
    <2>4. Shifted(l[owner].id, del, cre, owner, owner) = l[owner].id
        BY <2>1, <2>3 DEF Shifted
    <2>5. Moved(c, l[owner], dir, del, cre, TRUE).m = dir
        <3> DEFINE d == l[owner]
                   z == Moved(c, l[owner], dir, del, cre, TRUE)
        <3>0. PICK own : own = TRUE
            OBVIOUS
        <3>1. d \in HandleSet /\ d.id # del /\ (d.id < Len(c[k].names) \/ k = Len(c))
              /\ Shifted(d.id, del, cre, owner, owner) = d.id
            BY <2>1, <2>2, <2>3, <2>4
        <3>2. dir = Fetch(c, c[k].pair) /\ (own <=> owner = owner)
            BY <3>0
        <3> HIDE DEF d, z, dir
        <3>3. z = Moved(c, d, dir, del, cre, own)
            BY <3>0 DEF z, d
        <3>4. MovedWell(c, b, all, k, z, d, del, cre, owner, owner)
            BY <3>1, <3>2, <3>3, MovedOf
        <3>5. z.m = dir
            BY <3>1, <3>2, <3>4 DEF MovedWell
        <3> QED BY <3>5 DEF d, z
    <2> QED BY <1>1, <2>1, <2>5
<1> HIDE DEF At_
<1>5. ASSUME NEW i \in 1 .. Len(l)
      PROVE  IF l[i].m.pair = c[k].pair
             THEN MovedWell(c, b, all, k, L[i], l[i], del, cre, i, owner)
             ELSE L[i] = l[i]
    <2>1. L[i] = IF Has(i) THEN Moved(c, l[i], At_(i), del, cre, i = owner) ELSE l[i]
        BY <1>3
    <2>2. Has(i) <=> l[i].m.pair = c[k].pair
        BY <1>1
    <2> HIDE DEF Has, dir
    <2>3. Has(i) => L[i] = Moved(c, l[i], dir, del, cre, i = owner)
        BY <1>4, <2>1
    <2>4. ASSUME Has(i) PROVE MovedWell(c, b, all, k, L[i], l[i], del, cre, i, owner)
        <3>1. PICK own : own = (i = owner)
            OBVIOUS
        <3>2. own <=> i = owner
            BY <3>1
        <3>3. L[i] = Moved(c, l[i], dir, del, cre, own)
            BY <2>3, <2>4, <3>1
        <3>4. l[i] \in HandleSet /\ dir = Fetch(c, c[k].pair)
            BY <1>2 DEF dir
        <3> DEFINE d == l[i]
                   e == L[i]
        <3> HIDE DEF d, e
        <3>5. d \in HandleSet /\ e = Moved(c, d, dir, del, cre, own)
            BY <3>3, <3>4 DEF d, e
        <3>6. MovedWell(c, b, all, k, e, d, del, cre, i, owner)
            BY <3>2, <3>4, <3>5, MovedOf
        <3> QED BY <3>6 DEF d, e
    <2> QED BY <2>1, <2>2, <2>4
<1>6. Len(L) = Len(l) /\ L = [i \in 1 .. Len(l) |-> L[i]]
    <2> DEFINE v(i) == IF Has(i) THEN Moved(c, l[i], At_(i), del, cre, i = owner) ELSE l[i]
    <2>1. L = [i \in 1 .. Len(l) |-> v(i)]
        BY <1>3
    <2> HIDE DEF v
    <2> QED BY <1>2, <2>1
<1> QED BY <1>5, <1>6 DEF UpdatedWell

-----------------------------------------------------------------------------
(* What is written of a part.                                                 *)

Piece == [from : Nat, to : Nat]

\* x divides the places 1 .. n.
IsCut(x, n) ==
    /\ x \in Seq(Piece) /\ Len(x) >= 1
    /\ x[1].from = 1 /\ x[Len(x)].to = n
    /\ \A j \in 1 .. Len(x) : j < Len(x) => x[j + 1].from = x[j].to + 1
    /\ \A j \in 1 .. Len(x) : x[j].from >= 1 /\ x[j].to <= n
    /\ n >= 1 => \A j \in 1 .. Len(x) : x[j].from <= x[j].to
    /\ n = 0 => Len(x) = 1

Offset_(mid, y) == [j \in DOMAIN y |-> [from |-> mid + y[j].from, to |-> mid + y[j].to]]

Joined(mid, X, Y) == {x[1] \o Offset_(mid, x[2]) : x \in X \X Y}

HalvesOf(n, f) ==
    {<<[from |-> 1, to |-> n]>>} \union
    IF n > 1 THEN Joined(n \div 2, f[n \div 2], f[n - (n \div 2)]) ELSE {}

LEMMA JoinedOf ==
    ASSUME NEW mid, NEW X, NEW Y, NEW w \in Joined(mid, X, Y)
    PROVE  \E x \in X : \E y \in Y : w = x \o Offset_(mid, y)
    BY DEF Joined

LEMMA HalvingsDef ==
    \A n \in Nat : Halvings[n] = HalvesOf(n, Halvings)
<1> DEFINE S == SUBSET Seq(Piece)
           G == [z \in Nat \X [Nat -> S] |-> HalvesOf(z[1], z[2])]
<1>1. \A j \in Nat, f \in [Nat -> S] : G[<<j, f>>] = HalvesOf(j, f)
    OBVIOUS
<1>2. ASSUME NEW n \in Nat, n > 1
      PROVE  n \div 2 \in Nat /\ n - (n \div 2) \in Nat /\ n \div 2 < n /\ n - (n \div 2) < n
    BY <1>2
<1>3. ASSUME NEW n \in Nat, NEW f \in [Nat -> S] PROVE HalvesOf(n, f) \in S
    <2>1. <<[from |-> 1, to |-> n]>> \in Seq(Piece)
        BY DEF Piece
    <2>2. ASSUME n > 1, NEW x \in f[n \div 2], NEW y \in f[n - (n \div 2)]
          PROVE  x \o Offset_(n \div 2, y) \in Seq(Piece)
        <3> DEFINE mid == n \div 2
                   z == Offset_(mid, y)
        <3>1. mid \in Nat /\ n - mid \in Nat
            BY <1>2, <2>2
        <3> HIDE DEF mid
        <3>2. x \in Seq(Piece) /\ y \in Seq(Piece)
            BY <3>1 DEF mid
        <3>3. y \in [1 .. Len(y) -> Piece] /\ Len(y) \in Nat
            BY <3>2
        <3>4. z \in [1 .. Len(y) -> Piece]
            BY <3>1, <3>3 DEF Offset_, Piece
        <3>5. z \in Seq(Piece)
            BY <3>3, <3>4
        <3> HIDE DEF z
        <3>6. x \o z \in Seq(Piece)
            BY <3>2, <3>5
        <3> QED BY <3>6 DEF z, mid
    <2>3. n > 1 => Joined(n \div 2, f[n \div 2], f[n - (n \div 2)]) \subseteq Seq(Piece)
        <3> DEFINE mid == n \div 2
                   X == f[n \div 2]
                   Y == f[n - (n \div 2)]
        <3>1. n > 1 => \A x \in X : \A y \in Y : x \o Offset_(mid, y) \in Seq(Piece)
            BY <2>2
        <3> HIDE DEF mid, X, Y
        <3>2. ASSUME n > 1, NEW w \in Joined(mid, X, Y) PROVE w \in Seq(Piece)
            <4>1. \E x \in X : \E y \in Y : w = x \o Offset_(mid, y)
                BY JoinedOf
            <4> QED BY <3>1, <3>2, <4>1
        <3> QED BY <3>2 DEF mid, X, Y
    <2> QED BY <2>1, <2>3 DEF HalvesOf
<1>4. G \in [Nat \X [Nat -> S] -> S]
    <2> HIDE DEF S
    <2> QED BY <1>3
<1>5. ASSUME NEW n \in Nat, NEW f \in [Nat -> S], NEW h \in [Nat -> S],
             \A i \in Nat : i < n => f[i] = h[i]
      PROVE  G[<<n, f>>] = G[<<n, h>>]
    <2>1. HalvesOf(n, f) = HalvesOf(n, h)
        <3>1. n > 1 => f[n \div 2] = h[n \div 2] /\ f[n - (n \div 2)] = h[n - (n \div 2)]
            <4>1. SUFFICES ASSUME n > 1
                           PROVE f[n \div 2] = h[n \div 2] /\ f[n - (n \div 2)] = h[n - (n \div 2)]
                OBVIOUS
            <4> DEFINE mid == n \div 2
            <4>2. mid \in Nat /\ n - mid \in Nat /\ mid < n /\ n - mid < n
                BY <1>2, <4>1
            <4> HIDE DEF mid
            <4>3. f[mid] = h[mid] /\ f[n - mid] = h[n - mid]
                BY <1>5, <4>2
            <4> QED BY <4>3 DEF mid
        <3> QED BY <3>1 DEF HalvesOf
    <2> HIDE DEF G
    <2> QED BY <1>1, <2>1
<1> HIDE DEF G
<1>6. PICK f \in [Nat -> S] : \A n \in Nat : f[n] = G[<<n, f>>]
    <2>1. Recurs(G, S)
        BY <1>4, <1>5 DEF Recurs
    <2>2. {} \in S
        OBVIOUS
    <2> HIDE DEF S
    <2>3. \E f : Follows(f, G, S)
        BY <2>1, <2>2, Recursion
    <2> QED BY <2>3 DEF Follows
<1>7. f = [n \in Nat |-> HalvesOf(n, f)]
    <2>1. \A n \in Nat : f[n] = HalvesOf(n, f)
        BY <1>1, <1>6
    <2> HIDE DEF S
    <2> QED BY <2>1
<1>8. Halvings = CHOOSE g : g = [n \in Nat |-> HalvesOf(n, g)]
    BY DEF Halvings, HalvesOf, Joined, Offset_
<1>9. Halvings = [n \in Nat |-> HalvesOf(n, Halvings)]
    <2> QED BY <1>7, <1>8
<1>10. \A n \in Nat : Halvings[n] = HalvesOf(n, Halvings)
    BY <1>9
<1> QED BY <1>10

LEMMA HalvingsCut ==
    \A n \in Nat : \A x \in Halvings[n] : IsCut(x, n)
<1> DEFINE T == {n \in Nat : \A x \in Halvings[n] : IsCut(x, n)}
<1>1. ASSUME NEW n \in Nat, \A m \in Nat : m < n => m \in T PROVE n \in T
    <2>1. IsCut(<<[from |-> 1, to |-> n]>>, n)
        <3> DEFINE e == [from |-> 1, to |-> n]
        <3>1. e \in Piece /\ e.from = 1 /\ e.to = n
            BY DEF Piece
        <3> HIDE DEF e
        <3>2. <<e>> \in Seq(Piece) /\ Len(<<e>>) = 1 /\ <<e>>[1] = e
            BY <3>1
        <3>3. \A j \in 1 .. 1 : j = 1
            OBVIOUS
        <3>4. IsCut(<<e>>, n)
            BY <3>1, <3>2, <3>3 DEF IsCut
        <3> QED BY <3>4 DEF e
    <2>2. ASSUME n > 1, NEW x \in Halvings[n \div 2], NEW y \in Halvings[n - (n \div 2)]
          PROVE  IsCut(x \o Offset_(n \div 2, y), n)
        <3> DEFINE mid == n \div 2
                   rest == n - (n \div 2)
                   z == Offset_(mid, y)
                   w == x \o z
        <3>1. mid \in Nat /\ rest \in Nat /\ mid >= 1 /\ rest >= 1 /\ mid + rest = n
              /\ mid < n /\ rest < n
            BY <2>2
        <3>2. IsCut(x, mid) /\ IsCut(y, rest)
            BY <1>1, <2>2, <3>1
        <3> HIDE DEF mid, rest
        <3>3. /\ x \in Seq(Piece) /\ Len(x) \in Nat /\ Len(x) >= 1
              /\ y \in Seq(Piece) /\ Len(y) \in Nat /\ Len(y) >= 1 /\ DOMAIN y = 1 .. Len(y)
              /\ \A j \in 1 .. Len(x) : x[j] \in Piece /\ x[j].from \in Nat /\ x[j].to \in Nat
              /\ \A j \in 1 .. Len(y) : y[j] \in Piece /\ y[j].from \in Nat /\ y[j].to \in Nat
            <4>1. /\ x \in Seq(Piece) /\ Len(x) >= 1
                  /\ y \in Seq(Piece) /\ Len(y) >= 1
                BY <3>2 DEF IsCut
            <4>2. /\ \A j \in 1 .. Len(x) : x[j] \in Piece
                  /\ \A j \in 1 .. Len(y) : y[j] \in Piece
                BY <4>1
            <4>3. \A e \in Piece : e.from \in Nat /\ e.to \in Nat
                BY DEF Piece
            <4> QED BY <4>1, <4>2, <4>3
        <3>4. /\ z \in [1 .. Len(y) -> Piece]
              /\ \A j \in 1 .. Len(y) : z[j].from = mid + y[j].from /\ z[j].to = mid + y[j].to
            <4> DEFINE v(j) == [from |-> mid + y[j].from, to |-> mid + y[j].to]
            <4>1. z = [j \in 1 .. Len(y) |-> v(j)]
                BY <3>3 DEF Offset_
            <4>2. \A j \in 1 .. Len(y) : mid + y[j].from \in Nat /\ mid + y[j].to \in Nat
                BY <3>1, <3>3
            <4>3. \A j \in 1 .. Len(y) : v(j) \in Piece
                BY <4>2 DEF Piece
            <4>4. \A j \in 1 .. Len(y) : v(j).from = mid + y[j].from /\ v(j).to = mid + y[j].to
                OBVIOUS
            <4> HIDE DEF z, v
            <4>5. \A j \in 1 .. Len(y) : z[j] = v(j)
                BY <4>1
            <4> QED BY <4>1, <4>3, <4>4, <4>5
        <3> HIDE DEF z
        <3>5. z \in Seq(Piece) /\ Len(z) = Len(y)
            <4> DEFINE Y == Len(y)
            <4>1. z \in [1 .. Y -> Piece] /\ Y \in Nat
                BY <3>3, <3>4
            <4> HIDE DEF Y
            <4>2. z \in Seq(Piece)
                BY <4>1
            <4>3. Len(z) = Y
                BY <4>1, <4>2
            <4> QED BY <4>2, <4>3 DEF Y
        <3>6. /\ w \in Seq(Piece) /\ Len(w) = Len(x) + Len(y)
              /\ \A j \in 1 .. Len(x) : w[j] = x[j]
              /\ \A j \in 1 .. Len(y) : w[Len(x) + j] = z[j]
            <4>1. /\ w \in Seq(Piece) /\ Len(w) = Len(x) + Len(z)
                  /\ \A i \in 1 .. Len(x) + Len(z) :
                        w[i] = IF i <= Len(x) THEN x[i] ELSE z[i - Len(x)]
                BY <3>3, <3>5, ConcatProperties
            <4> HIDE DEF w
            <4>2. \A j \in 1 .. Len(y) : Len(x) + j \in 1 .. Len(x) + Len(y)
                                          /\ ~(Len(x) + j <= Len(x)) /\ (Len(x) + j) - Len(x) = j
                BY <3>3
            <4> QED BY <3>3, <3>5, <4>1, <4>2
        <3> HIDE DEF w
        <3>7. w[1].from = 1
            BY <3>2, <3>3, <3>6 DEF IsCut
        <3>8. w[Len(w)].to = n
            <4>1. y[Len(y)].to = rest
                BY <3>2 DEF IsCut
            <4>2. Len(y) \in 1 .. Len(y)
                BY <3>3
            <4>3. w[Len(w)] = z[Len(y)] /\ z[Len(y)].to = mid + y[Len(y)].to
                BY <3>4, <3>6, <4>2
            <4> QED BY <3>1, <4>1, <4>3
        <3>9. ASSUME NEW j \in 1 .. Len(w) PROVE j \in 1 .. Len(x) \/ \E i \in 1 .. Len(y) : j = Len(x) + i
            <4> DEFINE X == Len(x)
                       Y == Len(y)
                       W == Len(w)
            <4>1. X \in Nat /\ Y \in Nat /\ W = X + Y
                BY <3>3, <3>6
            <4>2. j \in 1 .. W
                OBVIOUS
            <4> HIDE DEF X, Y, W
            <4>3. j \in 1 .. X \/ (j - X \in 1 .. Y /\ j = X + (j - X))
                BY <4>1, <4>2
            <4> QED BY <4>3 DEF X, Y
        <3>10. ASSUME NEW j \in 1 .. Len(w), j < Len(w) PROVE w[j + 1].from = w[j].to + 1
            <4>1. CASE j \in 1 .. Len(x) /\ j # Len(x)
                <5>1. j + 1 \in 1 .. Len(x) /\ j < Len(x)
                    BY <3>3, <4>1
                <5> QED BY <3>2, <3>6, <4>1, <5>1 DEF IsCut
            <4>2. CASE j = Len(x)
                <5>1. w[j + 1] = z[1] /\ z[1].from = mid + 1 /\ w[j] = x[j] /\ x[j].to = mid
                    BY <3>2, <3>3, <3>4, <3>6, <4>2 DEF IsCut
                <5> QED BY <5>1
            <4>3. ASSUME NEW i \in 1 .. Len(y), j = Len(x) + i PROVE w[j + 1].from = w[j].to + 1
                <5>1. i + 1 \in 1 .. Len(y) /\ i < Len(y) /\ j + 1 = Len(x) + (i + 1)
                    BY <1>1, <3>3, <3>6, <3>10, <4>3
                <5>2. y[i + 1].from = y[i].to + 1
                    BY <3>2, <5>1 DEF IsCut
                <5>3. w[j] = z[i] /\ w[j + 1] = z[i + 1]
                    BY <3>6, <4>3, <5>1
                <5>4. z[i].to = mid + y[i].to /\ z[i + 1].from = mid + y[i + 1].from
                    BY <3>4, <5>1
                <5>5. y[i].to \in Nat
                    BY <3>3
                <5> QED BY <3>1, <5>2, <5>3, <5>4, <5>5
            <4> QED BY <3>3, <3>9, <4>1, <4>2, <4>3
        <3>11. ASSUME NEW j \in 1 .. Len(w) PROVE w[j].from <= w[j].to
            <4>1. CASE j \in 1 .. Len(x)
                BY <3>1, <3>2, <3>6, <4>1 DEF IsCut
            <4>2. ASSUME NEW i \in 1 .. Len(y), j = Len(x) + i PROVE w[j].from <= w[j].to
                <5>1. y[i].from <= y[i].to
                    BY <3>1, <3>2 DEF IsCut
                <5>2. w[j] = z[i]
                    BY <3>6, <4>2
                <5> QED BY SMTT(60), <3>1, <3>3, <3>4, <5>1, <5>2
            <4> QED BY <3>9, <4>1, <4>2
        <3>13. ASSUME NEW j \in 1 .. Len(w) PROVE w[j].from >= 1 /\ w[j].to <= n
            <4>1. CASE j \in 1 .. Len(x)
                <5>1. x[j].from >= 1 /\ x[j].to <= mid
                    BY <3>2, <4>1 DEF IsCut
                <5>2. w[j] = x[j]
                    BY <3>6, <4>1
                <5> QED BY <3>1, <3>3, <4>1, <5>1, <5>2
            <4>2. ASSUME NEW i \in 1 .. Len(y), j = Len(x) + i PROVE w[j].from >= 1 /\ w[j].to <= n
                <5>1. y[i].from >= 1 /\ y[i].to <= rest
                    BY <3>2 DEF IsCut
                <5>2. w[j] = z[i] /\ z[i].from = mid + y[i].from /\ z[i].to = mid + y[i].to
                    BY <3>4, <3>6, <4>2
                <5> QED BY SMTT(60), <3>1, <3>3, <5>1, <5>2
            <4> QED BY <3>9, <4>1, <4>2
        <3>12. IsCut(w, n)
            BY <2>2, <3>3, <3>6, <3>7, <3>8, <3>10, <3>11, <3>13 DEF IsCut
        <3> QED BY <3>12 DEF w, z, mid
    <2>3. n > 1 => \A x \in Joined(n \div 2, Halvings[n \div 2], Halvings[n - (n \div 2)]) : IsCut(x, n)
        <3> DEFINE mid == n \div 2
                   X == Halvings[n \div 2]
                   Y == Halvings[n - (n \div 2)]
        <3>1. n > 1 => \A x \in X : \A y \in Y : IsCut(x \o Offset_(mid, y), n)
            BY <2>2
        <3> HIDE DEF mid, X, Y
        <3>2. ASSUME n > 1, NEW w \in Joined(mid, X, Y) PROVE IsCut(w, n)
            <4>1. \E x \in X : \E y \in Y : w = x \o Offset_(mid, y)
                BY JoinedOf
            <4> QED BY <3>1, <3>2, <4>1
        <3> QED BY <3>2 DEF mid, X, Y
    <2>4. \A x \in Halvings[n] : IsCut(x, n)
        BY <2>1, <2>3, HalvingsDef DEF HalvesOf
    <2> QED BY <2>4
<1>2. \A n \in Nat : n \in T
    <2> HIDE DEF T
    <2> QED BY <1>1, StrongInduction
<1> QED BY <1>2

LEMMA FreshOf ==
    ASSUME NEW c
    PROVE  /\ Len(Fresh(c)) \in Nat
           /\ \A i \in 1 .. Len(Fresh(c)) : Fresh(c)[i] \in Pairs /\ Fresh(c)[i] \notin PairsOf(c)
           /\ \A i, j \in 1 .. Len(Fresh(c)) : Fresh(c)[i] = Fresh(c)[j] => i = j
<1> DEFINE S == Pairs \ PairsOf(c)
           n == Cardinality(S)
           f == SetToSeq(S)
<1>1. IsFiniteSet(S)
    BY FS_Subset, ConstantsAssumption
<1>2. n \in Nat /\ ExistsBijection(1 .. n, S)
    BY <1>1, FS_CardinalityType
<1>3. \E g \in [1 .. n -> S] : IsInjective(g)
    BY <1>2 DEF ExistsBijection, Bijection, Injection
<1>4. f \in [1 .. n -> S] /\ IsInjective(f)
    <2>1. f = CHOOSE g \in [1 .. n -> S] : IsInjective(g)
        BY DEF SetToSeq
    <2> HIDE DEF f, n, S
    <2> QED BY <1>3, <2>1
<1>5. f = Fresh(c)
    BY DEF Fresh
<1> HIDE DEF f, n
<1>6. Len(f) = n
    BY <1>2, <1>4
<1>7. \A i, j \in 1 .. n : f[i] = f[j] => i = j
    BY <1>4 DEF IsInjective
<1> QED BY <1>2, <1>4, <1>5, <1>6, <1>7

\* all0 is all with the names of part k replaced by ns.
Spliced(c, b, all, k, ns, all0) ==
    /\ all0 \in Seq(Name)
    /\ Len(all0) = (Len(all) + Len(ns)) - Len(c[k].names)
    /\ \A i \in 1 .. b[k] : all0[i] = all[i]
    /\ \A a \in 1 .. Len(ns) : all0[b[k] + a] = ns[a]
    /\ \A i \in 1 .. Len(all) : i > b[k + 1] => all0[(i + Len(ns)) - Len(c[k].names)] = all[i]

\* Chain C is chain c with part k written as 1 + e parts, with g names more, the first of
\* them to pair p.
Rebuilt(c, b, C, B, k, p, e, g) ==
    /\ e \in Nat /\ g \in Int
    /\ Len(C) = Len(c) + e
    /\ C[k].pair = p
    /\ \A j \in 1 .. Len(c) :
          /\ j < k => C[j] = c[j]
          /\ j <= k => B[j] = b[j]
          /\ j > k => C[j + e] = c[j] /\ B[j + e] = b[j] + g

LEMMA WrittenOf ==
    ASSUME NEW c, NEW b, NEW all, Spread(c, b, all), NEW k \in 1 .. Len(c),
           NEW ns \in Seq(Name), k > 1 => Len(ns) >= 1,
           NEW all0, Spliced(c, b, all, k, ns, all0),
           NEW cut, IsCut(cut, Len(ns)), Len(cut) > 1 => Len(cut) <= Len(Fresh(c)),
           NEW p \in Pairs,
           p = c[k].pair \/ (Len(cut) <= Len(Fresh(c)) /\ p = Fresh(c)[1])
    PROVE  \E B : /\ Spread(Written(c, k, ns, cut, p), B, all0)
                  /\ Rebuilt(c, b, Written(c, k, ns, cut, p), B, k, p, Len(cut) - 1,
                             Len(ns) - Len(c[k].names))
<1> DEFINE N == Len(c)
           L == Len(cut)
           n == Len(ns)
           m == Len(c[k].names)
           g == n - m
           free == Fresh(c)
           pc(j) == [pair |-> IF j = 1 THEN p ELSE free[j],
                     names |-> SubSeq(ns, cut[j].from, cut[j].to)]
           parts == [j \in DOMAIN cut |-> pc(j)]
           C == Written(c, k, ns, cut, p)
           sz(i) == Len(c[i].names)
<1>1. Parts(c) /\ Offsets(c, b) /\ all \in Seq(Name) /\ Len(all) \in Nat /\ Len(all) = b[N + 1]
      /\ \A i \in 1 .. N : \A a \in 1 .. Len(c[i].names) : all[b[i] + a] = c[i].names[a]
    BY DEF Spread
<1>2. N \in Nat /\ n \in Nat /\ m \in Nat /\ k \in Nat /\ k >= 1 /\ k <= N /\ sz(k) = m
      /\ \A i \in 1 .. N : sz(i) \in Nat
    BY <1>1, PartsOf
<1>3. /\ \A i \in 1 .. N + 1 : b[i] \in Nat
      /\ \A i \in 1 .. N : b[i + 1] = b[i] + sz(i)
      /\ b[1] = 0
      /\ \A i \in 1 .. N : i < k => b[i] + sz(i) <= b[k]
      /\ \A i \in 1 .. N : i > k => b[k] + m <= b[i]
      /\ \A i \in 1 .. N : b[i + 1] <= Len(all)
    <2>0. N + 1 \in 1 .. N + 1 /\ \A i \in 1 .. N : i \in 1 .. N + 1
        BY <1>2
    <2>1. /\ \A i \in 1 .. N + 1 : b[i] \in Nat
          /\ \A i \in 1 .. N : b[i + 1] = b[i] + sz(i)
          /\ b[1] = 0
        BY <1>1, OffsetsOf
    <2>2. \A i, j \in 1 .. N + 1 : i < j => b[i] + sz(i) <= b[j]
        BY <1>1, OffsetsOf
    <2>3. \A i, j \in 1 .. N + 1 : i <= j => b[i] <= b[j]
        BY <1>1, OffsetsOf
    <2>4. \A i \in 1 .. N : i + 1 \in 1 .. N + 1 /\ i + 1 <= N + 1
        BY <1>2
    <2>5. \A i \in 1 .. N : b[i + 1] <= Len(all)
        BY <1>1, <2>0, <2>3, <2>4
    <2>6. \A i \in 1 .. N : i > k => b[k] + m <= b[i]
        BY <1>2, <2>0, <2>2
    <2>7. \A i \in 1 .. N : i < k => b[i] + sz(i) <= b[k]
        BY <1>2, <2>0, <2>2
    <2> QED BY <2>1, <2>5, <2>6, <2>7
<1>4. /\ L \in Nat /\ L >= 1 /\ DOMAIN cut = 1 .. L
      /\ cut[1].from = 1 /\ cut[L].to = n
      /\ \A j \in 1 .. L : /\ cut[j].from \in Nat /\ cut[j].to \in Nat
                           /\ cut[j].from >= 1 /\ cut[j].to <= n
                           /\ j < L => cut[j + 1].from = cut[j].to + 1
                           /\ n >= 1 => cut[j].from <= cut[j].to
      /\ n = 0 => L = 1
    <2>1. cut \in Seq(Piece) /\ \A e \in Piece : e.from \in Nat /\ e.to \in Nat
        BY DEF IsCut, Piece
    <2>2. \A j \in 1 .. L : cut[j] \in Piece
        BY <2>1
    <2>3. L \in Nat /\ DOMAIN cut = 1 .. L
        BY <2>1
    <2> QED BY <2>1, <2>2, <2>3 DEF IsCut
<1>5. /\ \A i \in 1 .. Len(free) : free[i] \in Pairs /\ free[i] \notin PairsOf(c)
      /\ \A i, j \in 1 .. Len(free) : free[i] = free[j] => i = j
      /\ Len(free) \in Nat
    BY FreshOf
<1>6. ASSUME NEW j \in 1 .. L
      PROVE  /\ pc(j) \in Part
             /\ Len(pc(j).names) = (cut[j].to - cut[j].from) + 1
             /\ Len(pc(j).names) \in Nat
             /\ \A a \in 1 .. Len(pc(j).names) : pc(j).names[a] = ns[(cut[j].from + a) - 1]
             /\ k > 1 \/ j > 1 => Len(pc(j).names) >= 1
    <2> DEFINE s == SubSeq(ns, cut[j].from, cut[j].to)
               f == cut[j].from
               t == cut[j].to
    <2>1. f \in Nat /\ t \in Nat /\ f >= 1 /\ t <= n /\ (n >= 1 => f <= t) /\ (n = 0 => j = 1)
        BY <1>4
    <2>2. n = 0 => f = 1 /\ t = 0
        BY <1>4, <2>1
    <2>3. f <= t + 1
        BY <1>2, <2>1, <2>2
    <2>4. \A i \in f .. t : ns[i] \in Name
        BY <1>2, <2>1
    <2>5. s \in Seq(Name) /\ Len(s) = (IF f <= t THEN (t - f) + 1 ELSE 0)
          /\ \A a \in 1 .. (t - f) + 1 : s[a] = ns[(f + a) - 1]
        <3>1. s = SubSeq(ns, f, t)
            OBVIOUS
        <3> HIDE DEF s, f, t
        <3> QED BY <2>1, <2>4, <3>1, SubSeqProperties
    <2>6. Len(s) = (t - f) + 1
        BY <2>1, <2>3, <2>5
    <2>7. n >= 1 => Len(s) >= 1
        BY <2>1, <2>6
    <2>8. k > 1 \/ j > 1 => n >= 1
        BY <1>2, <2>1
    <2>9. j # 1 => free[j] \in Pairs
        BY <1>4, <1>5
    <2>10. pc(j) \in Part
        BY <2>5, <2>9 DEF Part
    <2>11. pc(j).names = s
        OBVIOUS
    <2> HIDE DEF s, pc
    <2> QED BY <2>1, <2>3, <2>5, <2>6, <2>7, <2>8, <2>10, <2>11 DEF f, t
<1> HIDE DEF pc
<1>7. parts \in Seq(Part) /\ Len(parts) = L /\ \A j \in 1 .. L : parts[j] = pc(j)
    <2>1. parts = [j \in 1 .. L |-> pc(j)]
        BY <1>4
    <2> HIDE DEF parts
    <2>2. parts \in [1 .. L -> Part]
        BY <1>6, <2>1
    <2> QED BY <1>4, <2>1, <2>2
<1> HIDE DEF parts
<1>8. C = SubSeq(c, 1, k - 1) \o parts \o SubSeq(c, k + 1, N)
    BY DEF Written, parts, pc
<1> HIDE DEF C, L, n
<1>9. /\ C \in Seq(Part) /\ Len(C) = (N + L) - 1
      /\ \A i \in 1 .. N : i < k => C[i] = c[i]
      /\ \A j \in 1 .. L : C[(k + j) - 1] = pc(j)
      /\ \A i \in 1 .. N : i > k => C[(i + L) - 1] = c[i]
    <2> DEFINE X == SubSeq(c, 1, k - 1)
               Y == SubSeq(c, k + 1, N)
    <2>1. c \in Seq(Part)
        BY <1>1 DEF Parts
    <2>2. X \in Seq(Part) /\ Len(X) = k - 1 /\ \A i \in 1 .. k - 1 : X[i] = c[i]
        BY <1>2, <2>1
    <2>3. Y \in Seq(Part) /\ Len(Y) = N - k /\ \A i \in 1 .. N - k : Y[i] = c[k + i]
        BY <1>2, <2>1
    <2> HIDE DEF X, Y
    <2> DEFINE XP == X \o parts
    <2>4. XP \in Seq(Part) /\ Len(XP) = Len(X) + Len(parts)
          /\ \A i \in 1 .. Len(X) + Len(parts) :
                XP[i] = IF i <= Len(X) THEN X[i] ELSE parts[i - Len(X)]
        BY <1>7, <2>2, ConcatProperties
    <2> HIDE DEF XP
    <2>5. C \in Seq(Part) /\ Len(C) = Len(XP) + Len(Y)
          /\ \A i \in 1 .. Len(XP) + Len(Y) :
                C[i] = IF i <= Len(XP) THEN XP[i] ELSE Y[i - Len(XP)]
        <3>1. C = XP \o Y
            <4>1. SubSeq(c, 1, k - 1) = X /\ SubSeq(c, k + 1, N) = Y
                BY DEF X, Y
            <4>2. XP = X \o parts
                BY DEF XP
            <4> QED BY <1>8, <4>1, <4>2
        <3> DEFINE Z == XP \o Y
        <3>2. Z \in Seq(Part) /\ Len(Z) = Len(XP) + Len(Y)
              /\ \A i \in 1 .. Len(XP) + Len(Y) :
                    Z[i] = IF i <= Len(XP) THEN XP[i] ELSE Y[i - Len(XP)]
            <4>1. XP \in Seq(Part) /\ Y \in Seq(Part)
                BY <2>3, <2>4
            <4> QED BY <4>1, ConcatProperties
        <3>3. C = Z
            BY <3>1
        <3> HIDE DEF Z
        <3> QED BY <3>2, <3>3
    <2>6. Len(XP) = (k - 1) + L /\ Len(C) = (N + L) - 1
        BY <1>2, <1>4, <1>7, <2>2, <2>3, <2>4, <2>5
    <2>7. ASSUME NEW i \in 1 .. N, i < k PROVE C[i] = c[i]
        <3>1. i \in 1 .. Len(X) + Len(parts) /\ i <= Len(X) /\ i <= Len(XP)
              /\ i \in 1 .. Len(XP) + Len(Y) /\ i \in 1 .. k - 1
            <4>1. /\ Len(X) = k - 1 /\ Len(parts) = L /\ Len(XP) = (k - 1) + L /\ Len(Y) = N - k
                  /\ k \in Nat /\ N \in Nat /\ L \in Nat /\ i \in Nat
                  /\ 1 <= i /\ i < k /\ k <= N /\ L >= 1
                BY <1>2, <1>4, <1>7, <2>2, <2>3, <2>6, <2>7
            <4> HIDE DEF N
            <4> QED BY <4>1
        <3> QED BY <2>2, <2>4, <2>5, <3>1
    <2>8. ASSUME NEW j \in 1 .. L PROVE C[(k + j) - 1] = pc(j)
        <3> DEFINE i == (k + j) - 1
        <3>1. i \in 1 .. Len(X) + Len(parts) /\ ~(i <= Len(X)) /\ i - Len(X) = j
              /\ i \in 1 .. Len(XP) + Len(Y) /\ i <= Len(XP)
            BY <1>2, <1>4, <1>7, <2>2, <2>3, <2>6
        <3> HIDE DEF i
        <3>2. C[i] = pc(j)
            BY <1>7, <2>4, <2>5, <3>1
        <3> QED BY <3>2 DEF i
    <2>9. ASSUME NEW j \in 1 .. N, j > k PROVE C[(j + L) - 1] = c[j]
        <3> DEFINE i == (j + L) - 1
                   h == j - k
        <3>1. i \in 1 .. Len(XP) + Len(Y) /\ ~(i <= Len(XP)) /\ i - Len(XP) = h
              /\ h \in 1 .. N - k /\ k + h = j
            BY <1>2, <1>4, <2>3, <2>6, <2>9
        <3> HIDE DEF i, h
        <3>2. C[i] = c[j]
            BY <2>3, <2>5, <3>1
        <3> QED BY <3>2 DEF i
    <2> QED BY <2>5, <2>6, <2>7, <2>8, <2>9
<1>10. ASSUME NEW i \in 1 .. Len(C)
       PROVE  \/ i \in 1 .. N /\ i < k
              \/ \E j \in 1 .. L : i = (k + j) - 1
              \/ \E j \in 1 .. N : j > k /\ i = (j + L) - 1
    <2>1. CASE i < k
        BY <1>2, <2>1
    <2>2. CASE i >= k /\ i <= (k + L) - 1
        <3>1. (i - k) + 1 \in 1 .. L /\ i = (k + ((i - k) + 1)) - 1
            BY <1>2, <1>4, <1>9, <2>2
        <3> QED BY <3>1
    <2>3. CASE i > (k + L) - 1
        <3>1. (i - L) + 1 \in 1 .. N /\ (i - L) + 1 > k /\ i = (((i - L) + 1) + L) - 1
            BY <1>2, <1>4, <1>9, <2>3
        <3> QED BY <3>1
    <2> QED BY <1>2, <1>4, <1>9, <2>1, <2>2, <2>3
<1> DEFINE B == [i \in 1 .. Len(C) + 1 |->
                    IF i < k THEN b[i]
                    ELSE IF i <= (k + L) - 1 THEN (b[k] + cut[(i - k) + 1].from) - 1
                    ELSE b[(i - L) + 1] + g]
<1>11. /\ \A i \in 1 .. N : i < k => B[i] = b[i]
       /\ \A j \in 1 .. L : B[(k + j) - 1] = (b[k] + cut[j].from) - 1
       /\ \A i \in 1 .. N + 1 : i > k => B[(i + L) - 1] = b[i] + g
    <2>1. ASSUME NEW i \in 1 .. N, i < k PROVE B[i] = b[i]
        BY <1>2, <1>4, <1>9, <2>1
    <2>2. ASSUME NEW j \in 1 .. L PROVE B[(k + j) - 1] = (b[k] + cut[j].from) - 1
        <3> DEFINE i == (k + j) - 1
        <3>1. i \in 1 .. Len(C) + 1 /\ ~(i < k) /\ i <= (k + L) - 1 /\ (i - k) + 1 = j
            BY <1>2, <1>4, <1>9
        <3> HIDE DEF i
        <3>2. B[i] = (b[k] + cut[j].from) - 1
            BY <3>1
        <3> QED BY <3>2 DEF i
    <2>3. ASSUME NEW j \in 1 .. N + 1, j > k PROVE B[(j + L) - 1] = b[j] + g
        <3> DEFINE i == (j + L) - 1
        <3>1. i \in 1 .. Len(C) + 1 /\ ~(i < k) /\ ~(i <= (k + L) - 1) /\ (i - L) + 1 = j
            BY <1>2, <1>4, <1>9, <2>3
        <3> HIDE DEF i, g
        <3>2. B[i] = b[j] + g
            BY <3>1
        <3> QED BY <3>2 DEF i
    <2> QED BY <2>1, <2>2, <2>3
<1>12. DOMAIN B = 1 .. Len(C) + 1 /\ B = [i \in 1 .. Len(C) + 1 |-> B[i]]
    OBVIOUS
<1> HIDE DEF B
<1>13. B[k] = b[k] /\ B[k + L] = b[k] + n /\ Len(C) + 1 = N + L /\ B[Len(C) + 1] = Len(all) + g
    <2>1. (k + 1) - 1 = k /\ ((k + 1) + L) - 1 = k + L /\ ((N + 1) + L) - 1 = N + L
          /\ 1 \in 1 .. L /\ k + 1 \in 1 .. N + 1 /\ N + 1 \in 1 .. N + 1 /\ N + 1 > k /\ k + 1 > k
        BY <1>2, <1>4
    <2>2. B[k] = (b[k] + 1) - 1 /\ B[k + L] = b[k + 1] + g /\ B[N + L] = b[N + 1] + g
        <3>1. B[(k + 1) - 1] = (b[k] + cut[1].from) - 1 /\ cut[1].from = 1
            BY <1>4, <1>11, <2>1
        <3>2. B[((k + 1) + L) - 1] = b[k + 1] + g
            BY <1>11, <2>1
        <3>3. B[((N + 1) + L) - 1] = b[N + 1] + g
            BY <1>11, <2>1
        <3> QED BY <2>1, <3>1, <3>2, <3>3
    <2>3. b[k + 1] = b[k] + m /\ b[k] \in Nat
        BY <1>2, <1>3
    <2>4. b[k + 1] + g = b[k] + n
        BY <1>2, <2>3
    <2>5. Len(C) + 1 = N + L
        BY <1>2, <1>4, <1>9
    <2>6. B[Len(C) + 1] = Len(all) + g
        BY <1>1, <2>2, <2>5
    <2>7. (b[k] + 1) - 1 = b[k]
        BY <2>3
    <2>8. B[k] = b[k] /\ B[k + L] = b[k] + n
        BY <2>2, <2>4, <2>7
    <2> QED BY <2>5, <2>6, <2>8
<1>14. g \in Int /\ b[k] \in Nat /\ b[k + 1] = b[k] + m
    BY <1>2, <1>3
<1>15. ASSUME NEW i \in 1 .. Len(C)
       PROVE  /\ B[i] \in Nat
              /\ B[i + 1] = B[i] + Len(C[i].names)
              /\ \A a \in 1 .. Len(C[i].names) : all0[B[i] + a] = C[i].names[a]
              /\ i > 1 => C[i].names # <<>>
    <2>1. CASE i \in 1 .. N /\ i < k
        <3>1. B[i] = b[i] /\ C[i] = c[i]
            BY <1>9, <1>11, <2>1
        <3>2. B[i + 1] = b[i + 1]
            <4>1. CASE i + 1 = k
                BY <1>13, <4>1
            <4>2. CASE i + 1 # k
                <5>1. i + 1 \in 1 .. N /\ i + 1 < k
                    BY <1>2, <2>1, <4>2
                <5> QED BY <1>11, <5>1
            <4> QED BY <4>1, <4>2
        <3>3. b[i] \in Nat /\ b[i + 1] = b[i] + sz(i) /\ b[i] + sz(i) <= b[k] /\ sz(i) \in Nat
            <4>1. i \in 1 .. N /\ k \in 1 .. N /\ i < k
                BY <1>2, <2>1
            <4> QED BY ONLY <1>3, <4>1
        <3>4. ASSUME NEW a \in 1 .. sz(i) PROVE all0[b[i] + a] = c[i].names[a]
            <4>1. b[i] + a \in 1 .. b[k]
                <5> DEFINE x == b[i]
                           y == b[k]
                           z == sz(i)
                <5>1. x \in Nat /\ y \in Nat /\ z \in Nat /\ x + z <= y /\ a \in 1 .. z
                    BY <1>14, <3>3
                <5> HIDE DEF x, y, z
                <5>2. x + a \in 1 .. y
                    BY <5>1
                <5> QED BY <5>2 DEF x, y
            <4> QED BY <1>1, <2>1, <4>1 DEF Spliced
        <3>5. i > 1 => c[i].names # <<>>
            BY <1>1, <2>1 DEF Parts
        <3> QED BY <3>1, <3>2, <3>3, <3>4, <3>5
    <2>2. ASSUME NEW j \in 1 .. L, i = (k + j) - 1
          PROVE  /\ B[i] \in Nat
                 /\ B[i + 1] = B[i] + Len(C[i].names)
                 /\ \A a \in 1 .. Len(C[i].names) : all0[B[i] + a] = C[i].names[a]
                 /\ i > 1 => C[i].names # <<>>
        <3> DEFINE f == cut[j].from
                   t == cut[j].to
                   x == pc(j)
        <3>1. B[i] = (b[k] + f) - 1 /\ C[i] = x
            BY <1>9, <1>11, <2>2
        <3>2. f \in Nat /\ t \in Nat /\ f >= 1 /\ t <= n
            BY <1>4
        <3>3. B[i + 1] = b[k] + t
            <4>1. CASE j < L
                <5>1. j + 1 \in 1 .. L /\ i + 1 = (k + (j + 1)) - 1 /\ cut[j + 1].from = t + 1
                    BY <1>2, <1>4, <2>2, <4>1
                <5>2. B[i + 1] = (b[k] + (t + 1)) - 1
                    BY <1>11, <5>1
                <5> DEFINE y == b[k]
                <5>3. y \in Nat /\ t \in Nat
                    BY <1>14, <3>2
                <5>4. (y + (t + 1)) - 1 = y + t
                    <6> HIDE DEF y, t
                    <6> QED BY <5>3
                <5> QED BY <5>2, <5>4 DEF y
            <4>2. CASE j = L
                <5>1. i + 1 = k + L /\ t = n
                    BY <1>2, <1>4, <2>2, <4>2
                <5> QED BY <1>13, <5>1
            <4> QED BY <1>4, <4>1, <4>2
        <3>4. /\ Len(x.names) = (t - f) + 1
              /\ Len(x.names) \in Nat
              /\ \A a \in 1 .. Len(x.names) : x.names[a] = ns[(f + a) - 1]
              /\ k > 1 \/ j > 1 => Len(x.names) >= 1
            BY <1>6
        <3>5. ASSUME NEW a \in 1 .. Len(x.names) PROVE all0[B[i] + a] = x.names[a]
            <4> DEFINE h == (f + a) - 1
            <4>1. h \in 1 .. n /\ B[i] + a = b[k] + h
                <5> DEFINE y == b[k]
                           z == Len(x.names)
                <5>1. y \in Nat /\ B[i] = (y + f) - 1 /\ z \in Nat /\ z = (t - f) + 1
                      /\ a \in 1 .. z
                    BY <1>14, <3>1, <3>4
                <5> HIDE DEF y, z, f, t, x
                <5>2. h \in 1 .. n /\ ((y + f) - 1) + a = y + h
                    BY <1>2, <3>2, <5>1
                <5> QED BY <5>1, <5>2 DEF y
            <4>2. x.names[a] = ns[h]
                BY <3>4
            <4> HIDE DEF h
            <4>3. all0[b[k] + h] = ns[h]
                BY <4>1 DEF Spliced, n
            <4> QED BY <4>1, <4>2, <4>3
        <3>6. i > 1 => x.names # <<>>
            <4>1. i > 1 => k > 1 \/ j > 1
                BY <1>2, <2>2
            <4>2. Len(x.names) >= 1 => x.names # <<>>
                OBVIOUS
            <4> QED BY <3>4, <4>1, <4>2
        <3> HIDE DEF x, f, t
        <3>7. B[i] \in Nat /\ b[k] + t = B[i] + ((t - f) + 1)
            <4> DEFINE y == b[k]
            <4>1. y \in Nat /\ B[i] = (y + f) - 1
                BY <1>14, <3>1
            <4> HIDE DEF y
            <4>2. (y + f) - 1 \in Nat /\ y + t = ((y + f) - 1) + ((t - f) + 1)
                BY <3>2, <4>1
            <4> QED BY <4>1, <4>2 DEF y
        <3> QED BY <3>1, <3>3, <3>4, <3>5, <3>6, <3>7
    <2>3. ASSUME NEW j \in 1 .. N, j > k, i = (j + L) - 1
          PROVE  /\ B[i] \in Nat
                 /\ B[i + 1] = B[i] + Len(C[i].names)
                 /\ \A a \in 1 .. Len(C[i].names) : all0[B[i] + a] = C[i].names[a]
                 /\ i > 1 => C[i].names # <<>>
        <3>1. B[i] = b[j] + g /\ C[i] = c[j] /\ j \in 1 .. N + 1
            BY <1>2, <1>9, <1>11, <2>3
        <3>2. B[i + 1] = b[j + 1] + g
            <4>1. j + 1 \in 1 .. N + 1 /\ j + 1 > k /\ i + 1 = ((j + 1) + L) - 1
                BY <1>2, <1>4, <2>3
            <4> QED BY <1>11, <4>1
        <3>3. b[j] \in Nat /\ b[j + 1] = b[j] + sz(j) /\ b[k] + m <= b[j] /\ sz(j) \in Nat
              /\ b[j + 1] \in Nat
            <4>1. j + 1 \in 1 .. N + 1 /\ j \in 1 .. N + 1
                BY <1>2, <2>3
            <4> QED BY <1>2, <1>3, <2>3, <4>1
        <3>4. B[i] \in Nat /\ B[i + 1] = B[i] + sz(j)
            <4> DEFINE x == b[j]
                       y == b[k]
                       z == sz(j)
            <4>1. x \in Nat /\ y \in Nat /\ z \in Nat /\ y + m <= x /\ b[j + 1] = x + z
                BY <1>14, <3>3
            <4> HIDE DEF x, y, z, m
            <4>2. x + g \in Nat /\ (x + z) + g = (x + g) + z
                BY <1>2, <4>1
            <4> HIDE DEF g
            <4>3. B[i] = x + g /\ B[i + 1] = (x + z) + g
                BY <3>1, <3>2, <4>1 DEF x
            <4> QED BY <4>2, <4>3 DEF z
        <3>5. ASSUME NEW a \in 1 .. sz(j) PROVE all0[B[i] + a] = c[j].names[a]
            <4> DEFINE h == b[j] + a
            <4>1. b[j + 1] <= Len(all) /\ a \in Nat /\ a >= 1 /\ a <= sz(j)
                BY SMTT(60), <1>2, <1>3, <3>3
            <4>2. h \in 1 .. Len(all) /\ h > b[k + 1] /\ (h + n) - m = B[i] + a
                <5> DEFINE x == b[j]
                           y == b[k]
                           z == sz(j)
                           u == Len(all)
                <5>1. x \in Nat /\ y \in Nat /\ z \in Nat /\ y + m <= x /\ x + z <= u /\ a <= z
                      /\ u \in Nat /\ b[k + 1] = y + m
                    BY <1>1, <1>14, <3>3, <4>1
                <5>2. h = x + a /\ B[i] = x + g
                    BY <3>1
                <5> HIDE DEF x, y, z, m, u, h
                <5>3. h \in 1 .. u /\ h > y + m /\ (h + n) - m = (x + g) + a
                    <6>1. a \in Nat /\ a >= 1 /\ n \in Nat /\ m \in Nat
                        BY <1>2, <4>1
                    <6> QED BY <5>1, <5>2, <6>1
                <5> QED BY <5>1, <5>2, <5>3 DEF u
            <4>3. all[h] = c[j].names[a]
                BY <1>1
            <4> HIDE DEF h
            <4>4. all0[(h + n) - m] = all[h]
                BY <4>2 DEF Spliced, n
            <4> QED BY <4>2, <4>3, <4>4
        <3>6. i > 1 => c[j].names # <<>>
            BY <1>1, <1>2, <2>3 DEF Parts
        <3> QED BY <3>1, <3>4, <3>5, <3>6
    <2> QED BY <1>10, <2>1, <2>2, <2>3
<1>16. \A i, j \in 1 .. Len(C) : i # j => C[i].pair # C[j].pair
    <2> DEFINE Old(q) == \E i \in 1 .. N : i # k /\ q = c[i].pair
    <2>1. ASSUME NEW j \in 1 .. L
          PROVE  /\ pc(j).pair \notin {c[i].pair : i \in (1 .. N) \ {k}}
                 /\ \A h \in 1 .. L : h # j => pc(h).pair # pc(j).pair
        <3>1. \A h \in 1 .. L : pc(h).pair = IF h = 1 THEN p ELSE free[h]
            BY DEF pc
        <3>2. \A h \in 1 .. L : h # 1 => h \in 1 .. Len(free)
            BY <1>4, <1>5 DEF L
        <3>3. \A i \in 1 .. N : c[i].pair \in PairsOf(c)
            BY <1>1, PairAt
        <3>4. \A i \in 1 .. N : i # k => c[i].pair # c[k].pair
            BY <1>1 DEF Parts
        <3>5. p = c[k].pair \/ (1 \in 1 .. Len(free) /\ p = free[1])
            BY <1>4, <1>5 DEF L
        <3>6. \A h \in 1 .. L : h # 1 => pc(h).pair \notin PairsOf(c) /\ pc(h).pair # p
            BY <1>5, <3>1, <3>2, <3>3, <3>5
        <3>7. \A i \in 1 .. N : i # k => c[i].pair # p
            BY <1>5, <3>3, <3>4, <3>5
        <3>8. \A i \in 1 .. N : i # k => c[i].pair # pc(j).pair
            BY <3>1, <3>3, <3>6, <3>7
        <3>9. \A h \in 1 .. L : h # j => pc(h).pair # pc(j).pair
            BY <1>5, <3>1, <3>2, <3>6
        <3> QED BY <3>8, <3>9
    <2>2. ASSUME NEW i \in 1 .. Len(C)
          PROVE  \/ \E h \in (1 .. N) \ {k} : C[i] = c[h] /\ i = IF h < k THEN h ELSE (h + L) - 1
                 \/ \E h \in 1 .. L : C[i] = pc(h) /\ i = (k + h) - 1
        <3>1. CASE i \in 1 .. N /\ i < k
            BY <1>2, <1>9, <3>1
        <3>2. CASE \E j \in 1 .. L : i = (k + j) - 1
            BY <1>9, <3>2
        <3>3. ASSUME NEW j \in 1 .. N, j > k, i = (j + L) - 1
              PROVE  \E h \in (1 .. N) \ {k} : C[i] = c[h] /\ i = IF h < k THEN h ELSE (h + L) - 1
            <4>1. C[i] = c[j] /\ ~(j < k) /\ j # k
                BY <1>2, <1>9, <3>3
            <4> QED BY <3>3, <4>1
        <3> QED BY <1>10, <3>1, <3>2, <3>3
    <2>3. \A h, j \in (1 .. N) \ {k} : c[h].pair = c[j].pair => h = j
        BY <1>1 DEF Parts
    <2>4. SUFFICES ASSUME NEW i \in 1 .. Len(C), NEW j \in 1 .. Len(C), C[i].pair = C[j].pair
                   PROVE  i = j
        OBVIOUS
    <2>5. CASE \E h \in (1 .. N) \ {k} : C[i] = c[h] /\ i = IF h < k THEN h ELSE (h + L) - 1
        <3>1. PICK h \in (1 .. N) \ {k} : C[i] = c[h] /\ i = IF h < k THEN h ELSE (h + L) - 1
            BY <2>5
        <3>2. ~\E x \in 1 .. L : C[j] = pc(x) /\ j = (k + x) - 1
            BY <2>1, <2>4, <3>1
        <3>3. PICK x \in (1 .. N) \ {k} : C[j] = c[x] /\ j = IF x < k THEN x ELSE (x + L) - 1
            BY <2>2, <3>2
        <3>4. h = x
            BY <2>3, <2>4, <3>1, <3>3
        <3> QED BY <3>1, <3>3, <3>4
    <2>6. CASE \E h \in 1 .. L : C[i] = pc(h) /\ i = (k + h) - 1
        <3>1. PICK h \in 1 .. L : C[i] = pc(h) /\ i = (k + h) - 1
            BY <2>6
        <3>2. ~\E x \in (1 .. N) \ {k} : C[j] = c[x] /\ j = IF x < k THEN x ELSE (x + L) - 1
            BY <2>1, <2>4, <3>1
        <3>3. PICK x \in 1 .. L : C[j] = pc(x) /\ j = (k + x) - 1
            BY <2>2, <3>2
        <3>4. h = x
            BY <2>1, <2>4, <3>1, <3>3
        <3> QED BY <3>1, <3>3, <3>4
    <2> QED BY <2>2, <2>5, <2>6
<1>17. Parts(C)
    <2>1. C # <<>>
        BY <1>2, <1>4, <1>9
    <2> QED BY <1>9, <1>15, <1>16, <2>1 DEF Parts
<1>18. B[1] = 0
    <2>1. CASE k = 1
        BY <1>3, <1>13, <2>1
    <2>2. CASE k # 1
        <3>1. 1 \in 1 .. N /\ 1 < k
            BY <1>2, <2>2
        <3> QED BY <1>3, <1>11, <3>1
    <2> QED BY <2>1, <2>2
<1>19. Offsets(C, B)
    <2>1. Len(C) \in Nat /\ \A i \in 1 .. Len(C) + 1 : i \in 1 .. Len(C) \/ i = Len(C) + 1
        <3>1. Len(C) \in Nat
            BY <1>9
        <3> QED BY <3>1
    <2>2. B[Len(C) + 1] \in Nat
        <3>1. Len(C) \in 1 .. Len(C)
            BY <1>2, <1>4, <1>9
        <3>2. B[Len(C) + 1] = B[Len(C)] + Len(C[Len(C)].names) /\ B[Len(C)] \in Nat
            BY <1>15, <3>1
        <3>3. Len(C[Len(C)].names) \in Nat
            BY <1>17, <3>1, PartsOf
        <3> QED BY <3>2, <3>3
    <2>3. \A i \in 1 .. Len(C) + 1 : B[i] \in Nat
        BY <1>15, <2>1, <2>2
    <2>4. B \in [1 .. Len(C) + 1 -> Nat]
        BY <1>12, <2>3
    <2> QED BY <1>15, <1>18, <2>4 DEF Offsets
<1>20. Spread(C, B, all0)
    <2>1. all0 \in Seq(Name) /\ Len(all0) = (Len(all) + n) - m
        BY DEF Spliced, n
    <2>2. Len(all0) = B[Len(C) + 1]
        BY <1>1, <1>2, <1>13, <2>1
    <2> QED BY <1>15, <1>17, <1>19, <2>1, <2>2 DEF Spread
<1>21. Rebuilt(c, b, C, B, k, p, L - 1, g)
    <2>1. L - 1 \in Nat /\ Len(C) = N + (L - 1)
        BY <1>2, <1>4, <1>9
    <2>2. C[k].pair = p
        <3>1. 1 \in 1 .. L /\ (k + 1) - 1 = k
            BY <1>2, <1>4
        <3>2. C[k] = pc(1)
            BY <1>9, <3>1
        <3> QED BY <3>2 DEF pc
    <2>3. ASSUME NEW j \in 1 .. N
          PROVE  /\ j < k => C[j] = c[j]
                 /\ j <= k => B[j] = b[j]
                 /\ j > k => C[j + (L - 1)] = c[j] /\ B[j + (L - 1)] = b[j] + g
        <3>1. j + (L - 1) = (j + L) - 1 /\ j \in 1 .. N + 1 /\ (j <= k => j < k \/ j = k)
            BY <1>2, <1>4
        <3> HIDE DEF g
        <3> QED BY <1>9, <1>11, <1>13, <3>1
    <2> QED BY <1>14, <2>1, <2>2, <2>3 DEF Rebuilt
<1> QED BY <1>20, <1>21 DEF C, L, n

-----------------------------------------------------------------------------
(* The handles while a part is written.                                       *)

\* All but its place, and where its directory starts, is the same.
Same(e, d) ==
    \/ /\ d \in FileHandles /\ e \in FileHandles
       /\ e.name = d.name /\ e.gone = d.gone
    \/ /\ d \in DirHandles /\ e \in DirHandles
       /\ e.seen = d.seen /\ e.start = d.start

\* d is a handle of a part, of which it knows enough (if that is not k), or a detached file.
Held(c, d, k) ==
    /\ d \in HandleSet
    /\ \/ d \in FileHandles /\ d.m.pair = Null
       \/ \E j \in 1 .. Len(c) : In(c, d, j, k)
    /\ d \in DirHandles => d.head = c[1].pair

\* d has become x while part k was written as 1 + e parts: it is in the same part, and has
\* the pair of k if it was in that; only a directory that was at the end of the part before
\* may be at the start of k.
Carried(c, C, d, x, k, e) ==
    /\ Same(x, d)
    /\ x \in DirHandles => x.head = C[1].pair
    /\ d.m.pair = Null => x = d
    /\ \A j \in 1 .. Len(c) : In(c, d, j, k) =>
          \/ j < k /\ In(C, x, j, k) /\ x.id = d.id
          \/ j > k /\ In(C, x, j + e, k) /\ x.id = d.id
          \/ j = k /\ x.m.pair = C[k].pair /\ x.id = d.id
          \/ /\ j = k - 1 /\ d \in DirHandles /\ d.id = Len(c[j].names)
             /\ x.m.pair = C[k].pair /\ x.id = 0

LEMMA SameKind ==
    ASSUME NEW d \in HandleSet
    PROVE  /\ Same(d, d)
           /\ \A e : Like(e, d) => Same(e, d)
           /\ \A e : Same(e, d) => /\ e \in HandleSet
                                   /\ e \in FileHandles <=> d \in FileHandles
                                   /\ e \in DirHandles <=> d \in DirHandles
                                   /\ IsDir(e) <=> IsDir(d)
                                   /\ d \in FileHandles => e.name = d.name /\ e.gone = d.gone
                                   /\ d \in DirHandles => e.seen = d.seen /\ e.start = d.start
           /\ \A e, f : Same(e, d) /\ Same(f, e) => Same(f, d)
<1>1. \A x \in HandleSet : (x \in FileHandles <=> ~IsDir(x)) /\ (x \in DirHandles <=> IsDir(x))
    BY KindOf
<1>2. \A x : x \in FileHandles \/ x \in DirHandles => x \in HandleSet
    BY DEF HandleSet
<1>3. d \in FileHandles \/ d \in DirHandles
    BY DEF HandleSet
<1>4. Same(d, d)
    BY <1>3 DEF Same
<1>5. ASSUME NEW e, Like(e, d) PROVE Same(e, d)
    BY <1>5 DEF Like, Same
<1>6. ASSUME NEW e, Same(e, d)
      PROVE  /\ e \in HandleSet
             /\ e \in FileHandles <=> d \in FileHandles
             /\ e \in DirHandles <=> d \in DirHandles
             /\ IsDir(e) <=> IsDir(d)
             /\ d \in FileHandles => e.name = d.name /\ e.gone = d.gone
             /\ d \in DirHandles => e.seen = d.seen /\ e.start = d.start
    BY <1>1, <1>2, <1>6 DEF Same
<1>7. ASSUME NEW e, NEW f, Same(e, d), Same(f, e) PROVE Same(f, d)
    BY <1>1, <1>2, <1>7 DEF Same
<1> QED BY <1>4, <1>5, <1>6, <1>7

\* A handle is in one part.
LEMMA InOne ==
    ASSUME NEW c, Parts(c), NEW d, NEW k, NEW j \in 1 .. Len(c), NEW h \in 1 .. Len(c),
           In(c, d, j, k), d.m.pair = c[h].pair
    PROVE  h = j
    BY DEF In, Parts

LEMMA InIs ==
    ASSUME NEW c, NEW d, NEW e, NEW j, NEW k, In(c, d, j, k), e.m = d.m, e.id = d.id,
           e \in FileHandles <=> d \in FileHandles
    PROVE  In(c, e, j, k)
    BY DEF In

\* The parts but k, and the one before if k moves, are as they were.
LEMMA StaysIn ==
    ASSUME NEW c, NEW b, NEW all, Spread(c, b, all), NEW k \in 1 .. Len(c),
           NEW C, NEW B, NEW all0, Spread(C, B, all0), NEW p, NEW e, NEW g,
           Rebuilt(c, b, C, B, k, p, e, g),
           NEW d, NEW j \in 1 .. Len(c), In(c, d, j, k), j # k,
           p = c[k].pair \/ j # k - 1
    PROVE  /\ j < k => j \in 1 .. Len(C) /\ In(C, d, j, k)
           /\ j > k => j + e \in 1 .. Len(C) /\ In(C, d, j + e, k)
<1>1. Parts(c) /\ Parts(C) /\ Len(c) \in Nat /\ Len(C) \in Nat
    BY PartsOf DEF Spread
<1>2. e \in Nat /\ Len(C) = Len(c) + e /\ C[k].pair = p
    BY DEF Rebuilt
<1>3. d.m = Fetch(c, c[j].pair) /\ d.m.pair = c[j].pair
    BY DEF In
<1>4. Fetch(c, c[j].pair) = [pair |-> c[j].pair, count |-> Len(c[j].names),
                             tail |-> IF j < Len(c) THEN c[j + 1].pair ELSE Null]
    BY <1>1, FetchOf
<1>5. CASE j < k
    <2>1. C[j] = c[j] /\ j \in 1 .. Len(C) /\ j # Len(c) /\ j # Len(C) /\ j + 1 \in 1 .. Len(c)
        BY <1>1, <1>2, <1>5 DEF Rebuilt
    <2>2. C[j + 1].pair = c[j + 1].pair
        <3>1. CASE j + 1 = k
            BY <1>1, <1>2, <3>1
        <3>2. CASE j + 1 # k
            <4>1. j + 1 < k
                BY <1>1, <1>5, <3>2
            <4> QED BY <2>1, <4>1 DEF Rebuilt
        <3> QED BY <3>1, <3>2
    <2>3. Fetch(C, C[j].pair) = [pair |-> C[j].pair, count |-> Len(C[j].names),
                                 tail |-> IF j < Len(C) THEN C[j + 1].pair ELSE Null]
        BY <1>1, <2>1, FetchOf
    <2>4. (j < Len(c)) /\ (j < Len(C))
        BY <1>1, <1>2, <1>5
    <2>5. Fetch(C, C[j].pair) = Fetch(c, c[j].pair)
        BY <1>4, <2>1, <2>2, <2>3, <2>4
    <2>6. In(C, d, j, k)
        BY <1>3, <2>1, <2>5 DEF In
    <2> QED BY <1>1, <1>5, <2>1, <2>6
<1>6. CASE j > k
    <2> DEFINE h == j + e
    <2>1. C[h] = c[j] /\ h \in 1 .. Len(C) /\ (j = Len(c) <=> h = Len(C)) /\ h # k
          /\ (j < Len(c) <=> h < Len(C))
        BY SMTT(60), <1>1, <1>2, <1>6 DEF Rebuilt
    <2>2. j < Len(c) => C[h + 1].pair = c[j + 1].pair
        <3>1. SUFFICES ASSUME j < Len(c) PROVE C[h + 1].pair = c[j + 1].pair
            OBVIOUS
        <3>2. j + 1 \in 1 .. Len(c) /\ j + 1 > k /\ (j + 1) + e = h + 1
            BY <1>1, <1>2, <1>6, <3>1
        <3> HIDE DEF h
        <3>3. C[(j + 1) + e] = c[j + 1]
            BY <3>2 DEF Rebuilt
        <3> QED BY <3>2, <3>3
    <2> HIDE DEF h
    <2>3. Fetch(C, C[h].pair) = [pair |-> C[h].pair, count |-> Len(C[h].names),
                                 tail |-> IF h < Len(C) THEN C[h + 1].pair ELSE Null]
        BY <1>1, <2>1, FetchOf
    <2>5. Fetch(C, C[h].pair) = Fetch(c, c[j].pair)
        BY <1>4, <2>1, <2>2, <2>3
    <2>6. In(C, d, h, k)
        BY <1>3, <2>1, <2>5 DEF In
    <2> QED BY <1>1, <1>6, <2>1, <2>6 DEF h
<1> QED BY <1>1, <1>5, <1>6

RenamedWell(l, L, old, new) ==
    /\ L \in Seq(HandleSet) /\ Len(L) = Len(l)
    /\ \A i \in 1 .. Len(l) :
          /\ Same(L[i], l[i]) /\ L[i].id = l[i].id
          /\ l[i].m.pair = old => L[i].m.pair = new
          /\ l[i].m.pair # old => L[i].m = l[i].m
          /\ l[i].m.pair # old /\ l[i] \in FileHandles => L[i] = l[i]
          /\ l[i] \in DirHandles =>
                L[i].head = IF l[i].head = old THEN new ELSE l[i].head

LEMMA RenamedOf ==
    ASSUME NEW l \in Seq(HandleSet), NEW old \in Pairs, NEW new \in Pairs,
           NEW L, L = Renamed(l, old, new)
    PROVE  RenamedWell(l, L, old, new)
<1>1. DOMAIN l = 1 .. Len(l) /\ Len(l) \in Nat /\ \A i \in 1 .. Len(l) : l[i] \in HandleSet
    OBVIOUS
<1> DEFINE move(d) == IF d.m.pair = old THEN [d EXCEPT !.m.pair = new] ELSE d
           ren(d) == IF IsDir(move(d)) /\ move(d).head = old THEN [move(d) EXCEPT !.head = new]
                     ELSE move(d)
<1>2. L = [i \in 1 .. Len(l) |-> ren(l[i])]
    BY <1>1 DEF Renamed
<1>3. ASSUME NEW d \in HandleSet
      PROVE  /\ Same(ren(d), d) /\ ren(d).id = d.id
             /\ d.m.pair = old => ren(d).m.pair = new
             /\ d.m.pair # old => ren(d).m = d.m
             /\ d.m.pair # old /\ d \in FileHandles => ren(d) = d
             /\ d \in DirHandles => ren(d).head = IF d.head = old THEN new ELSE d.head
    <2> DEFINE y == move(d)
               z == ren(d)
    <2>1. /\ Like(y, d) /\ y.id = d.id
          /\ d.m.pair = old => y.m.pair = new
          /\ d.m.pair # old => y = d
        <3>1. CASE d.m.pair = old
            <4> DEFINE mm == [d.m EXCEPT !.pair = new]
            <4>1. y = [d EXCEPT !.m = mm]
                BY <3>1
            <4>2. mm \in Mdir /\ mm.pair = new
                BY KindOf DEF Mdir
            <4> HIDE DEF mm, y
            <4>3. CASE d \in FileHandles
                BY <3>1, <4>1, <4>2, <4>3 DEF FileHandles, Like
            <4>4. CASE d \in DirHandles
                BY <3>1, <4>1, <4>2, <4>4 DEF DirHandles, Like
            <4> QED BY <4>3, <4>4 DEF HandleSet
        <3>2. CASE d.m.pair # old
            BY <3>2, KindOf
        <3> QED BY <3>1, <3>2
    <2>2. z = IF IsDir(y) /\ y.head = old THEN [y EXCEPT !.head = new] ELSE y
        OBVIOUS
    <2> HIDE DEF y, z
    <2>3. y \in HandleSet /\ (d \in FileHandles <=> ~IsDir(y)) /\ (d \in DirHandles <=> IsDir(y))
          /\ (d \in DirHandles => y \in DirHandles /\ y.head = d.head)
        BY <2>1, LikeKind, KindOf
    <2>4. CASE IsDir(y) /\ y.head = old
        <3>1. z = [y EXCEPT !.head = new] /\ y \in DirHandles
            BY <2>2, <2>3, <2>4
        <3>2. z \in DirHandles /\ z.m = y.m /\ z.id = y.id /\ z.head = new
              /\ z.seen = y.seen /\ z.start = y.start
            BY <3>1 DEF DirHandles
        <3>3. y.seen = d.seen /\ y.start = d.start /\ d \in DirHandles /\ ~(d \in FileHandles)
            BY <2>1, <2>3, <2>4, LikeKind
        <3>4. Same(z, d)
            BY <3>2, <3>3 DEF Same
        <3> QED BY <2>1, <2>3, <2>4, <3>2, <3>3, <3>4 DEF z
    <2>5. CASE ~(IsDir(y) /\ y.head = old)
        <3>1. z = y
            BY <2>2, <2>5
        <3>2. Same(z, d)
            BY <2>1, <3>1, SameKind
        <3> QED BY <2>1, <2>3, <2>5, <3>1, <3>2 DEF z
    <2> QED BY <2>4, <2>5
<1> HIDE DEF ren
<1>4. \A i \in 1 .. Len(l) : L[i] = ren(l[i]) /\ ren(l[i]) \in HandleSet
    BY <1>1, <1>2, <1>3, SameKind
<1>5. L \in Seq(HandleSet) /\ Len(L) = Len(l)
    BY <1>1, <1>2, <1>4
<1> QED BY <1>1, <1>3, <1>4, <1>5 DEF RenamedWell


\* The handles that are in part j < k - 1 or behind k, or in k, when nothing but their pair
\* was renamed.
LEMMA CarriedAlong ==
    ASSUME NEW c, NEW b, NEW all, Spread(c, b, all), NEW k \in 1 .. Len(c),
           NEW C, NEW B, NEW all0, Spread(C, B, all0), NEW p, NEW e, NEW g,
           Rebuilt(c, b, C, B, k, p, e, g),
           NEW d, Held(c, d, k), NEW x, Same(x, d), x.id = d.id,
           d.m.pair = Null => x = d,
           d.m.pair = c[k].pair => x.m.pair = p,
           d.m.pair # c[k].pair => x.m = d.m,
           x \in DirHandles => x.head = C[1].pair,
           p = c[k].pair \/ ~\E j \in 1 .. Len(c) : j = k - 1 /\ d.m.pair = c[j].pair
    PROVE  Carried(c, C, d, x, k, e)
<1>1. Parts(c) /\ C[k].pair = p /\ d \in HandleSet
    BY DEF Spread, Rebuilt, Held
<1>2. x \in FileHandles <=> d \in FileHandles
    BY <1>1, SameKind
<1>3. ASSUME NEW j \in 1 .. Len(c), In(c, d, j, k)
      PROVE  \/ j < k /\ In(C, x, j, k) /\ x.id = d.id
             \/ j > k /\ In(C, x, j + e, k) /\ x.id = d.id
             \/ j = k /\ x.m.pair = C[k].pair /\ x.id = d.id
    <2>1. d.m.pair = c[j].pair
        BY <1>3 DEF In
    <2>2. CASE j = k
        BY <1>1, <2>1, <2>2
    <2>3. CASE j # k
        <3>1. d.m.pair # c[k].pair
            BY <1>1, <2>1, <2>3 DEF Parts
        <3>2. p = c[k].pair \/ j # k - 1
            BY <2>1
        <3>3. /\ j < k => In(C, d, j, k)
              /\ j > k => In(C, d, j + e, k)
            BY <1>3, <2>3, <3>2, StaysIn
        <3>4. x.m = d.m
            BY <3>1
        <3>5. \A h : In(C, d, h, k) => In(C, x, h, k)
            BY <1>2, <3>4, InIs
        <3>6. j < k \/ j > k
            BY <1>1, <2>3, PartsOf
        <3> QED BY <3>3, <3>5, <3>6
    <2> QED BY <2>2, <2>3
<1> QED BY <1>3 DEF Carried

\* Part k gets the names ns, in the directory of the names all0.
Rewriting(c, b, all, k, l, ns, all0, may) ==
    /\ Spread(c, b, all) /\ Up(all) /\ k \in 1 .. Len(c)
    /\ l \in Seq(HandleSet) /\ \A i \in 1 .. Len(l) : Held(c, l[i], k)
    /\ ns \in Seq(Name) /\ (k > 1 => Len(ns) >= 1)
    /\ Spliced(c, b, all, k, ns, all0)
    /\ may \subseteq BOOLEAN

\* What has become of the directory, and of its handles: the parts from k on are others.
RewrittenTo(c, b, k, l, all0, g, r) ==
    \E B, p, e :
       /\ Spread(r.chain, B, all0)
       /\ Rebuilt(c, b, r.chain, B, k, p, e, g)
       /\ r.mlist \in Seq(HandleSet) /\ Len(r.mlist) = Len(l)
       /\ \A i \in 1 .. Len(l) : Carried(c, r.chain, l[i], r.mlist[i], k, e)

LEMMA RewrittenOf ==
    ASSUME NEW c, NEW b, NEW all, NEW k, NEW l, NEW ns, NEW all0, NEW may,
           Rewriting(c, b, all, k, l, ns, all0, may),
           NEW r \in Rewritten(State(c, l), k, ns, may)
    PROVE  RewrittenTo(c, b, k, l, all0, Len(ns) - Len(c[k].names), r)
<1> /\ Spread(c, b, all) /\ Up(all) /\ k \in 1 .. Len(c)
    /\ l \in Seq(HandleSet) /\ (\A i \in 1 .. Len(l) : Held(c, l[i], k))
    /\ ns \in Seq(Name) /\ (k > 1 => Len(ns) >= 1)
    /\ Spliced(c, b, all, k, ns, all0)
    /\ may \subseteq BOOLEAN
    BY DEF Rewriting
<1> SUFFICES \E B, p, e :
              /\ Spread(r.chain, B, all0)
              /\ Rebuilt(c, b, r.chain, B, k, p, e, Len(ns) - Len(c[k].names))
              /\ r.mlist \in Seq(HandleSet) /\ Len(r.mlist) = Len(l)
              /\ \A i \in 1 .. Len(l) : Carried(c, r.chain, l[i], r.mlist[i], k, e)
    BY DEF RewrittenTo
<1> DEFINE g == Len(ns) - Len(c[k].names)
           old == c[k].pair
           Goal(C, L) ==
              \E B, p, e :
              /\ Spread(C, B, all0)
              /\ Rebuilt(c, b, C, B, k, p, e, g)
              /\ L \in Seq(HandleSet) /\ Len(L) = Len(l)
              /\ \A i \in 1 .. Len(l) : Carried(c, C, l[i], L[i], k, e)
<1>1. Parts(c) /\ Len(c) \in Nat /\ k \in Nat /\ k >= 1 /\ old \in Pairs /\ old # Null
      /\ Len(ns) \in Nat
    <2> HIDE DEF Goal
    <2>1. Parts(c)
        BY DEF Spread
    <2>2. Len(c) \in Nat /\ old \in Pairs /\ old # Null
        BY <2>1, PartsOf
    <2> QED BY <2>1, <2>2
<1>2. DOMAIN l = 1 .. Len(l) /\ Len(l) \in Nat /\ \A i \in 1 .. Len(l) : l[i] \in HandleSet
    OBVIOUS
<1>3. PICK cut \in Halvings[Len(ns)], move \in may :
         LET q == IF move THEN Fresh(c)[1] ELSE old
             C == Written(c, k, ns, cut, q)
         IN /\ Len(cut) > 1 \/ move => Len(cut) <= Len(Fresh(c))
            /\ r = State(C, IF move THEN Relinked(C, Renamed(l, old, q), k) ELSE l)
    BY DEF Rewritten, State
<1>4. IsCut(cut, Len(ns))
    BY <1>1, HalvingsCut
<1>5. Len(cut) \in Nat /\ Len(cut) >= 1
    BY <1>4 DEF IsCut
<1>6. CASE ~move
    <2> DEFINE C == Written(c, k, ns, cut, old)
    <2>1. r.chain = C /\ r.mlist = l /\ (Len(cut) > 1 => Len(cut) <= Len(Fresh(c)))
        BY <1>3, <1>6 DEF State
    <2>2. PICK B : Spread(C, B, all0) /\ Rebuilt(c, b, C, B, k, old, Len(cut) - 1, g)
        BY <1>1, <1>4, <2>1, WrittenOf
    <2> HIDE DEF C
    <2>3. C[1].pair = c[1].pair
        <3>1. CASE k = 1
            BY <2>2, <3>1 DEF Rebuilt
        <3>2. CASE k # 1
            <4>1. 1 \in 1 .. Len(c) /\ 1 < k
                BY <1>1, <3>2
            <4> QED BY <2>2, <4>1 DEF Rebuilt
        <3> QED BY <3>1, <3>2
    <2>4. ASSUME NEW i \in 1 .. Len(l) PROVE Carried(c, C, l[i], l[i], k, Len(cut) - 1)
        <3> DEFINE d == l[i]
                   e == Len(cut) - 1
        <3>1. Held(c, d, k)
            OBVIOUS
        <3> HIDE DEF d, e, g
        <3>2. Rebuilt(c, b, C, B, k, old, e, g)
            BY <2>2 DEF e
        <3>3. Same(d, d) /\ (d \in DirHandles => d.head = C[1].pair)
            BY <2>3, <3>1, SameKind DEF Held
        <3>4. Carried(c, C, d, d, k, e)
            BY <2>2, <3>1, <3>2, <3>3, CarriedAlong
        <3> QED BY <3>4 DEF d, e
    <2>5. Goal(C, l)
        <3> HIDE DEF g
        <3> QED BY <2>2, <2>4
    <2> QED BY <2>1, <2>5
<1>7. CASE move
    <2> DEFINE q == Fresh(c)[1]
               C == Written(c, k, ns, cut, q)
               l1 == Renamed(l, old, q)
               L == Relinked(C, l1, k)
               e == Len(cut) - 1
    <2>1. r.chain = C /\ r.mlist = L /\ Len(cut) <= Len(Fresh(c))
        BY <1>3, <1>7 DEF State
    <2>2. 1 \in 1 .. Len(Fresh(c))
        BY <1>5, <2>1, FreshOf
    <2>3. q \in Pairs /\ q \notin PairsOf(c)
        BY <2>2, FreshOf
    <2> HIDE DEF q
    <2>4. PICK B : Spread(C, B, all0) /\ Rebuilt(c, b, C, B, k, q, e, g)
        BY <1>1, <1>4, <2>1, <2>3, WrittenOf DEF q
    <2> HIDE DEF C, e, g
    <2>5. Parts(C) /\ Len(C) \in Nat /\ C[k].pair = q /\ e \in Nat /\ Len(C) = Len(c) + e
          /\ k \in 1 .. Len(C)
        BY <1>1, <2>4, PartsOf DEF Spread, Rebuilt
    <2>6. /\ l1 \in Seq(HandleSet) /\ Len(l1) = Len(l)
          /\ \A i \in 1 .. Len(l) :
                /\ Same(l1[i], l[i]) /\ l1[i].id = l[i].id
                /\ l[i].m.pair = old => l1[i].m.pair = q
                /\ l[i].m.pair # old => l1[i].m = l[i].m
                /\ l[i].m.pair # old /\ l[i] \in FileHandles => l1[i] = l[i]
                /\ l[i] \in DirHandles =>
                      l1[i].head = IF l[i].head = old THEN q ELSE l[i].head
        <3>1. l1 = Renamed(l, old, q)
            OBVIOUS
        <3> HIDE DEF l1, old
        <3>2. RenamedWell(l, l1, old, q)
            BY <1>1, <2>3, <3>1, RenamedOf
        <3> QED BY <3>2 DEF RenamedWell
    <2> HIDE DEF l1
    <2>7. ASSUME NEW i \in 1 .. Len(l), l1[i] \in DirHandles PROVE l1[i].head = C[1].pair
        <3>1. l[i] \in DirHandles /\ l[i].head = c[1].pair
            BY <1>2, <2>6, <2>7, SameKind DEF Held
        <3>2. CASE k = 1
            BY <2>5, <2>6, <3>1, <3>2
        <3>3. CASE k # 1
            <4>1. 1 \in 1 .. Len(c) /\ 1 < k
                BY <1>1, <3>3
            <4>2. C[1] = c[1] /\ c[1].pair # old
                BY <1>1, <2>4, <3>3, <4>1 DEF Rebuilt, Parts
            <4> QED BY <2>6, <3>1, <4>2
        <3> QED BY <3>2, <3>3
    <2>8. ASSUME NEW i \in 1 .. Len(l),
                 ~\E j \in 1 .. Len(c) : j = k - 1 /\ l[i].m.pair = c[j].pair
          PROVE  Carried(c, C, l[i], l1[i], k, e)
        <3> DEFINE d == l[i]
                   x == l1[i]
        <3>0. d \in HandleSet /\ Held(c, d, k)
            BY <1>2
        <3>1. d.m.pair = Null => x = d
            <4>1. SUFFICES ASSUME d.m.pair = Null PROVE x = d
                OBVIOUS
            <4>2. ~\E j \in 1 .. Len(c) : In(c, d, j, k)
                BY <1>1, <4>1, PartsOf DEF In
            <4>3. d \in FileHandles
                BY <3>0, <4>2 DEF Held
            <4> QED BY <1>1, <2>6, <4>1, <4>3
        <3>2. /\ Same(x, d) /\ x.id = d.id
              /\ d.m.pair = old => x.m.pair = q
              /\ d.m.pair # old => x.m = d.m
              /\ x \in DirHandles => x.head = C[1].pair
            BY <2>6, <2>7
        <3>3. ~\E j \in 1 .. Len(c) : j = k - 1 /\ d.m.pair = c[j].pair
            BY <2>8
        <3> HIDE DEF d, x
        <3>4. Carried(c, C, d, x, k, e)
            BY <2>4, <3>0, <3>1, <3>2, <3>3, CarriedAlong
        <3> QED BY <3>4 DEF d, x
    <2>9. CASE k = 1
        <3>1. L = l1
            BY <2>9 DEF Relinked
        <3>2. \A i \in 1 .. Len(l) : Carried(c, C, l[i], L[i], k, e)
            <4>1. \A j \in 1 .. Len(c) : j # k - 1
                BY <2>9
            <4> QED BY <2>8, <3>1, <4>1
        <3> QED BY <2>1, <2>4, <2>6, <3>1, <3>2 DEF g
    <2>10. CASE k # 1
        <3> DEFINE h == k - 1
        <3>1. h \in 1 .. Len(c) /\ h \in 1 .. Len(C) /\ h < k /\ h # Len(c) /\ h # Len(C) /\ h + 1 = k
              /\ h # k
            BY <1>1, <2>5, <2>10
        <3>2. L = Updated(C, l1, Fetch(C, C[h].pair), None, None, 0)
            BY <2>10 DEF Relinked
        <3> HIDE DEF h, L
        <3>3. None \in Nat /\ 0 \in 0 .. Len(l1) /\ l1 \in Seq(HandleSet) /\ Spread(C, B, all0)
            BY <1>2, <2>4, <2>6 DEF None
        <3>4. /\ Len(L) = Len(l1) /\ L = [i \in 1 .. Len(l1) |-> L[i]]
              /\ \A i \in 1 .. Len(l1) :
                    IF l1[i].m.pair = C[h].pair
                    THEN MovedWell(C, B, all0, h, L[i], l1[i], None, None, i, 0)
                    ELSE L[i] = l1[i]
            <4>1. UpdatedWell(C, B, all0, h, l1, L, None, None, 0)
                BY <3>1, <3>2, <3>3, UpdatedOf
            <4> QED BY <4>1 DEF UpdatedWell
        <3>5. C[h] = c[h] /\ B[h] = b[h] /\ B[k] = B[h] + Len(c[h].names)
            <4>1. C[h] = c[h] /\ B[h] = b[h] /\ B[k] = b[k]
                BY <2>4, <3>1 DEF Rebuilt
            <4>2. b[h + 1] = b[h] + Len(c[h].names)
                BY <1>1, <3>1, OffsetsOf DEF Spread
            <4> QED BY <3>1, <4>1, <4>2
        <3>6. c[h].pair # q /\ c[h].pair # old /\ c[h].pair # Null
            BY <1>1, <2>3, <3>1, PairAt, PartsOf DEF Parts
        <3>7. ASSUME NEW i \in 1 .. Len(l), l[i].m.pair # c[h].pair
              PROVE  L[i] = l1[i] /\ Carried(c, C, l[i], L[i], k, e)
            <4>1. l1[i].m.pair # c[h].pair
                BY <2>6, <3>6, <3>7
            <4>2. L[i] = l1[i]
                BY <2>6, <3>4, <3>5, <4>1
            <4>3. ~\E j \in 1 .. Len(c) : j = k - 1 /\ l[i].m.pair = c[j].pair
                BY <3>7 DEF h
            <4> QED BY <2>8, <4>2, <4>3
        <3>8. ASSUME NEW i \in 1 .. Len(l), l[i].m.pair = c[h].pair
              PROVE  L[i] \in HandleSet /\ Carried(c, C, l[i], L[i], k, e)
            <4> DEFINE d == l[i]
                       y == l1[i]
                       x == L[i]
            <4>1. /\ d \in HandleSet /\ Held(c, d, k) /\ d.m.pair = c[h].pair
                  /\ Same(y, d) /\ y.id = d.id /\ y.m = d.m
                  /\ y \in DirHandles => y.head = C[1].pair
                  /\ MovedWell(C, B, all0, h, x, y, None, None, i, 0)
                BY <1>2, <2>6, <2>7, <3>4, <3>5, <3>6, <3>8
            <4> HIDE DEF d, y, x
            <4>2. In(c, d, h, k)
                <5>1. PICK j \in 1 .. Len(c) : In(c, d, j, k)
                    BY <3>6, <4>1 DEF Held
                <5>2. j = h
                    BY <1>1, <3>1, <4>1, <5>1, InOne
                <5> QED BY <5>1, <5>2
            <4>3. d.id \in Nat /\ d.id <= Len(c[h].names) /\ Len(c[h].names) \in Nat
                  /\ (d \in FileHandles => d.id < Len(c[h].names))
                BY <1>1, <3>1, <4>1, <4>2, KindOf, PartsOf DEF In
            <4>4. d.id < None
                <5>0. Offsets(c, b) /\ h \in 1 .. Len(c) + 1
                    BY <1>1, <3>1 DEF Spread
                <5>1. b[h] + Len(c[h].names) < None /\ b[h] \in Nat
                    BY <1>1, <3>1, <5>0, FewNames, OffsetsOf
                <5> QED BY <4>3, <5>1 DEF None
            <4>5. Shifted(y.id, None, None, i, 0) = d.id /\ y.id # None
                BY <4>1, <4>3, <4>4 DEF Shifted, None
            <4>6. ASSUME Like(x, y), x.m.pair # Null
                  PROVE  /\ x \in HandleSet /\ Same(x, d)
                         /\ x \in FileHandles <=> d \in FileHandles
                         /\ x \in DirHandles => x.head = C[1].pair
                <5>1. y \in HandleSet
                    BY <4>1, SameKind
                <5>2. Same(x, y)
                    BY <4>6, <5>1, SameKind
                <5>3. Same(x, d)
                    BY <4>1, <5>2, SameKind
                <5>4. x \in DirHandles => y \in DirHandles /\ x.head = y.head
                    BY <4>6, <5>1, LikeKind
                <5> QED BY <4>1, <5>3, <5>4, SameKind
            <4>7. \A j \in 1 .. Len(c) : In(c, d, j, k) => j = h
                BY <1>1, <3>1, <4>1, InOne
            <4>8. CASE d.id < Len(c[h].names)
                <5>1. Like(x, y) /\ x.m = Fetch(C, C[h].pair) /\ x.id = d.id
                    BY <3>5, <4>1, <4>5, <4>8 DEF MovedWell
                <5>2. Fetch(C, C[h].pair).pair = C[h].pair
                    BY <2>5, <3>1, FetchOf
                <5>3. x.m.pair = C[h].pair /\ x.m.pair # Null
                    BY <3>5, <3>6, <5>1, <5>2
                <5>4. In(C, x, h, k)
                    BY <3>5, <4>8, <5>1, <5>2, <4>3 DEF In
                <5>5. Carried(c, C, d, x, k, e)
                    BY <3>1, <3>6, <4>1, <4>6, <4>7, <5>1, <5>3, <5>4 DEF Carried
                <5> QED BY <4>6, <5>1, <5>3, <5>5 DEF d, x
            <4>9. CASE d.id = Len(c[h].names)
                <5>1. B[h] + d.id = B[k] /\ B[k] <= Len(all0) /\ B[k] \in Nat
                    <6>1. B[h] + d.id = B[k]
                        BY <3>5, <4>9
                    <6>2. k \in 1 .. Len(C) + 1 /\ Len(C) + 1 \in 1 .. Len(C) + 1 /\ k <= Len(C) + 1
                        BY <2>5
                    <6>3. B[k] <= B[Len(C) + 1] /\ B[k] \in Nat
                        BY <2>4, <6>2, OffsetsOf DEF Spread
                    <6> QED BY <2>4, <6>1, <6>3 DEF Spread
                <5>2. Like(x, y) /\ \E j \in 1 .. Len(C) :
                         /\ In(C, x, j, 0) /\ B[j] + x.id = B[k]
                         /\ x.id < Len(C[j].names) \/ j = Len(C)
                    BY <4>1, <4>5, <5>1 DEF MovedWell
                <5>3. PICK j \in 1 .. Len(C) :
                         /\ In(C, x, j, 0) /\ B[j] + x.id = B[k]
                         /\ x.id < Len(C[j].names) \/ j = Len(C)
                    BY <5>2
                <5>4. x.id \in Nat /\ x.m.pair = C[j].pair /\ x.m.pair # Null
                    <6>1. y \in HandleSet
                        BY <4>1, SameKind
                    <6>2. x \in HandleSet
                        BY <5>2, <6>1, LikeKind
                    <6> QED BY <2>5, <5>3, <6>2, KindOf, PartsOf DEF In
                <5>5. j = k /\ x.id = 0
                    <6>0. Offsets(C, B) /\ j \in 1 .. Len(C) + 1 /\ k \in 1 .. Len(C) + 1
                        BY <2>4, <2>5 DEF Spread
                    <6>1. B[j] \in Nat /\ Len(C[j].names) \in Nat /\ Len(C[k].names) \in Nat
                          /\ Len(C[k].names) >= 1 /\ j \in Nat
                        <7>1. B[j] \in Nat
                            BY <2>5, <6>0, OffsetsOf
                        <7>2. Len(C[j].names) \in Nat /\ Len(C[k].names) \in Nat
                              /\ (k > 1 => Len(C[k].names) >= 1)
                            BY <2>5, PartsOf
                        <7> QED BY <1>1, <2>5, <2>10, <7>1, <7>2
                    <6>2. j < k => B[j] + Len(C[j].names) <= B[k]
                        BY <2>5, <6>0, OffsetsOf
                    <6>3. j > k => B[k] + Len(C[k].names) <= B[j]
                        BY <2>5, <6>0, OffsetsOf
                    <6>4. ~(j > k)
                        BY SMTT(60), <5>1, <5>3, <5>4, <6>1, <6>3
                    <6>5. ~(j < k)
                        BY <2>5, <5>1, <5>3, <5>4, <6>1, <6>2
                    <6>6. j = k
                        BY <1>1, <6>1, <6>4, <6>5
                    <6> QED BY <5>1, <5>3, <5>4, <6>6
                <5>6. d \in DirHandles
                    BY <4>1, <4>3, <4>9 DEF HandleSet
                <5>7. Carried(c, C, d, x, k, e)
                    BY <3>6, <4>1, <4>6, <4>7, <4>9, <5>2, <5>4, <5>5, <5>6 DEF Carried, h
                <5> QED BY <4>6, <5>2, <5>4, <5>7 DEF d, x
            <4> QED BY <4>3, <4>8, <4>9
        <3>9. \A i \in 1 .. Len(l) : L[i] \in HandleSet /\ Carried(c, C, l[i], L[i], k, e)
            <4>1. \A i \in 1 .. Len(l) : l1[i] \in HandleSet
                BY <2>6
            <4> QED BY <3>7, <3>8, <4>1
        <3>10. L \in Seq(HandleSet) /\ Len(L) = Len(l)
            <4>1. L = [i \in 1 .. Len(l) |-> L[i]]
                BY <2>6, <3>4
            <4> QED BY <1>2, <2>6, <3>4, <3>9, <4>1
        <3> QED BY <2>1, <2>4, <3>9, <3>10 DEF g, L
    <2> QED BY <2>9, <2>10
<1> QED BY <1>6, <1>7

-----------------------------------------------------------------------------
(* Where a commit leaves the handles.                                         *)

\* A handle at this place of the part is one that the code can keep.
Keeps(id, del, cre) ==
    /\ id # del
    /\ del # None /\ cre # None => id < del /\ id < cre

\* A commit that detaches the handles of the entry it deletes.
Drops(del, cre) == cre = None \/ cre = del \/ del = None

\* Handle i, d, has become x in chain C, where part k has g names more.
Landed(c, b, C, B, k, g, del, cre, i, owner, d, x) ==
    /\ Same(x, d)
    /\ x \in DirHandles => x.head = C[1].pair
    /\ d.m.pair = Null => x = d
    /\ \A j \in 1 .. Len(c) : In(c, d, j, k) =>
          \/ j = k /\ d.id = del /\ Drops(del, cre) /\ d \in FileHandles /\ x.m = NoMdir
          \/ \E h \in 1 .. Len(C) :
                /\ In(C, x, h, 0)
                /\ \/ j < k /\ B[h] + x.id = b[j] + d.id
                   \/ j > k /\ B[h] + x.id = (b[j] + d.id) + g
                   \/ /\ j = k /\ Keeps(d.id, del, cre)
                      /\ B[h] + x.id = b[k] + Shifted(d.id, del, cre, i, owner)
                   \/ /\ j = k - 1 /\ d \in DirHandles /\ d.id = Len(c[j].names)
                      /\ Keeps(0, del, cre)
                      /\ B[h] + x.id = b[k] + Shifted(0, del, cre, i, owner)

\* In a part that is not k a handle is in any case.
LEMMA InAny ==
    ASSUME NEW c, NEW d, NEW j, NEW k, In(c, d, j, k), j # k
    PROVE  In(c, d, j, 0)
    BY DEF In

LEMMA LandedOf ==
    ASSUME NEW c, NEW b, NEW all, Spread(c, b, all), NEW k \in 1 .. Len(c),
           NEW C, NEW B, NEW all0, Spread(C, B, all0), NEW p, NEW e, NEW g,
           Rebuilt(c, b, C, B, k, p, e, g),
           NEW d, Held(c, d, k), NEW x, Carried(c, C, d, x, k, e),
           NEW del \in Nat, NEW cre \in Nat, NEW i, NEW owner, NEW y,
           x.m.pair = C[k].pair => MovedWell(C, B, all0, k, y, x, del, cre, i, owner),
           x.m.pair # C[k].pair => y = x,
           x.m.pair = C[k].pair =>
              \/ Keeps(x.id, del, cre)
              \/ /\ x.id = del /\ Drops(del, cre) /\ x \in FileHandles
                 /\ x.id < Len(C[k].names) \/ k = Len(C),
           \A id \in 0 .. Len(c[k].names) :
              Keeps(id, del, cre) => b[k] + Shifted(id, del, cre, i, owner) <= Len(all0)
    PROVE  y \in HandleSet /\ Landed(c, b, C, B, k, g, del, cre, i, owner, d, y)
<1>1. /\ Parts(c) /\ Parts(C) /\ Offsets(c, b) /\ Offsets(C, B) /\ C[k].pair = p /\ e \in Nat
      /\ d \in HandleSet /\ Len(C) = Len(c) + e /\ g \in Int
    BY DEF Spread, Rebuilt, Held
<1>2. /\ Len(c) \in Nat /\ Len(c[k].names) \in Nat /\ k \in 1 .. Len(C) /\ k \in Nat
      /\ C[k].pair # Null /\ B[k] = b[k]
    <2>1. Len(c) \in Nat /\ Len(c[k].names) \in Nat /\ k \in 1 .. Len(C) /\ k \in Nat
        BY <1>1, PartsOf
    <2>2. C[k].pair # Null
        BY <1>1, <2>1, PartsOf
    <2> QED BY <2>1, <2>2 DEF Rebuilt
<1>3. /\ Same(x, d) /\ x \in HandleSet
      /\ x \in DirHandles => x.head = C[1].pair
      /\ d.m.pair = Null => x = d
    BY <1>1, SameKind DEF Carried
<1>4. ASSUME Like(y, x)
      PROVE  /\ y \in HandleSet /\ Same(y, d)
             /\ y \in DirHandles => y.head = C[1].pair
    <2>1. Same(y, x) /\ y \in HandleSet
        BY <1>3, <1>4, SameKind
    <2>2. Same(y, d)
        BY <1>1, <1>3, <2>1, SameKind
    <2>3. y \in DirHandles => x \in DirHandles /\ y.head = x.head
        BY <1>3, <1>4, LikeKind
    <2> QED BY <1>3, <2>1, <2>2, <2>3
<1>5. CASE x.m.pair # C[k].pair
    <2>1. y = x
        BY <1>5
    <2>2. ASSUME NEW j \in 1 .. Len(c), In(c, d, j, k)
          PROVE  \E h \in 1 .. Len(C) :
                    /\ In(C, x, h, 0)
                    /\ \/ j < k /\ B[h] + x.id = b[j] + d.id
                       \/ j > k /\ B[h] + x.id = (b[j] + d.id) + g
        <3>1. CASE j < k /\ In(C, x, j, k) /\ x.id = d.id
            <4>1. In(C, x, j, 0) /\ B[j] = b[j] /\ j \in 1 .. Len(C)
                BY <1>1, <1>2, <3>1, InAny DEF Rebuilt
            <4> QED BY <3>1, <4>1
        <3>2. CASE j > k /\ In(C, x, j + e, k) /\ x.id = d.id
            <4>1. B[j + e] = b[j] + g /\ j + e \in 1 .. Len(C) /\ j + e # k
                BY <1>1, <1>2, <3>2 DEF Rebuilt
            <4>2. In(C, x, j + e, 0)
                BY <3>2, <4>1, InAny
            <4>3. b[j] \in Nat /\ d.id \in Nat
                BY <1>1, <1>2, KindOf, OffsetsOf
            <4>4. (b[j] + g) + d.id = (b[j] + d.id) + g
                BY <1>1, <4>3
            <4> QED BY <3>2, <4>1, <4>2, <4>4
        <3> QED BY <1>5, <2>2, <3>1, <3>2 DEF Carried
    <2> QED BY <1>3, <2>1, <2>2 DEF Landed
<1>6. CASE x.m.pair = C[k].pair
    <2>1. MovedWell(C, B, all0, k, y, x, del, cre, i, owner)
        BY <1>6
    <2>2. d.m.pair # Null
        BY <1>2, <1>3, <1>6
    <2>3. \/ In(c, d, k, k) /\ x.id = d.id
          \/ /\ In(c, d, k - 1, k) /\ k - 1 \in 1 .. Len(c) /\ d \in DirHandles /\ x.id = 0
             /\ d.id = Len(c[k - 1].names)
        <3>1. PICK j \in 1 .. Len(c) : In(c, d, j, k)
            BY <2>2 DEF Held
        <3>2. j < k /\ In(C, x, j, k) => FALSE
            <4>1. SUFFICES ASSUME j < k, In(C, x, j, k) PROVE FALSE
                OBVIOUS
            <4>2. x.m.pair = C[j].pair /\ j \in 1 .. Len(C) /\ j # k
                BY <1>1, <1>2, <4>1 DEF In
            <4> QED BY <1>1, <1>2, <1>6, <4>2 DEF Parts
        <3>3. j > k /\ In(C, x, j + e, k) => FALSE
            <4>1. SUFFICES ASSUME j > k, In(C, x, j + e, k) PROVE FALSE
                OBVIOUS
            <4>2. x.m.pair = C[j + e].pair /\ j + e \in 1 .. Len(C) /\ j + e # k
                BY <1>1, <1>2, <4>1 DEF In
            <4> QED BY <1>1, <1>2, <1>6, <4>2 DEF Parts
        <3> QED BY <3>1, <3>2, <3>3 DEF Carried
    <2>4. \A j \in 1 .. Len(c) : In(c, d, j, k) =>
             \/ j = k /\ x.id = d.id
             \/ j = k - 1 /\ d \in DirHandles /\ x.id = 0 /\ d.id = Len(c[j].names)
        <3>1. SUFFICES ASSUME NEW j \in 1 .. Len(c), In(c, d, j, k)
                       PROVE  \/ j = k /\ x.id = d.id
                              \/ j = k - 1 /\ d \in DirHandles /\ x.id = 0
                                 /\ d.id = Len(c[j].names)
            OBVIOUS
        <3>2. CASE In(c, d, k, k) /\ x.id = d.id
            <4>1. j = k
                BY <1>1, <3>1, <3>2, InOne DEF In
            <4> QED BY <3>2, <4>1
        <3>3. CASE /\ In(c, d, k - 1, k) /\ k - 1 \in 1 .. Len(c) /\ d \in DirHandles /\ x.id = 0
                   /\ d.id = Len(c[k - 1].names)
            <4> DEFINE h == k - 1
            <4>1. In(c, d, h, k) /\ h \in 1 .. Len(c)
                BY <3>3
            <4> HIDE DEF h
            <4>2. j = h
                BY <1>1, <3>1, <4>1, InOne DEF In
            <4> QED BY <3>3, <4>2 DEF h
        <3> QED BY <2>3, <3>2, <3>3
    <2>5. x.id \in 0 .. Len(c[k].names)
        <3>1. x.id \in Nat
            BY <1>3, KindOf
        <3> QED BY <1>2, <2>3, <3>1 DEF In
    <2>6. CASE Keeps(x.id, del, cre)
        <3>1. x.id # del /\ B[k] + Shifted(x.id, del, cre, i, owner) <= Len(all0)
            BY <1>2, <2>5, <2>6 DEF Keeps
        <3>2. /\ Like(y, x)
              /\ \E h \in 1 .. Len(C) : /\ In(C, y, h, 0)
                                        /\ B[h] + y.id = b[k] + Shifted(x.id, del, cre, i, owner)
            BY <1>2, <2>1, <3>1 DEF MovedWell
        <3> QED BY <1>4, <2>2, <2>4, <2>6, <3>2 DEF Landed
    <2>7. CASE /\ x.id = del /\ Drops(del, cre) /\ x \in FileHandles
               /\ x.id < Len(C[k].names) \/ k = Len(C)
        <3>1. Like(y, x) /\ y.m = NoMdir
            BY <2>1, <2>7 DEF MovedWell
        <3>2. d \in FileHandles /\ ~(d \in DirHandles)
            BY <1>1, <1>3, <2>7, SameKind, KindOf
        <3> QED BY <1>4, <2>2, <2>4, <2>7, <3>1, <3>2 DEF Landed
    <2> QED BY <1>6, <2>6, <2>7
<1> QED BY <1>5, <1>6

\* A commit to part k with the names ns, when the situations the code does not handle
\* are kept out.
LEMMA CommitOf ==
    ASSUME Risks = {},
           NEW c, NEW b, NEW all, Spread(c, b, all), Up(all), NEW k \in 1 .. Len(c),
           NEW l \in Seq(HandleSet), \A i \in 1 .. Len(l) : Held(c, l[i], k),
           NEW ns \in Seq(Name), k > 1 => Len(ns) >= 1,
           NEW all0, Spliced(c, b, all, k, ns, all0),
           NEW del \in Nat, NEW cre \in Nat, NEW owner \in 0 .. Len(l),
           owner # 0 => In(c, l[owner], k, k) /\ l[owner].id # del /\ l[owner].id <= del,
           NEW may, may \subseteq BOOLEAN,
           \A i \in 1 .. Len(l) : \A id \in 0 .. Len(c[k].names) :
              Keeps(id, del, cre) => b[k] + Shifted(id, del, cre, i, owner) <= Len(all0),
           NEW R \in Committed(State(c, l), k, ns, del, cre, owner, may)
    PROVE  \E B, p, e :
                  /\ Spread(R.chain, B, all0)
                  /\ Rebuilt(c, b, R.chain, B, k, p, e, Len(ns) - Len(c[k].names))
                  /\ R.mlist \in Seq(HandleSet) /\ Len(R.mlist) = Len(l)
                  /\ \A i \in 1 .. Len(l) :
                        Landed(c, b, R.chain, B, k, Len(ns) - Len(c[k].names),
                               del, cre, i, owner, l[i], R.mlist[i])
<1>1. PICK r \in Rewritten(State(c, l), k, ns, may) :
         /\ Unless("split", SplitUnder(r, k, owner))
         /\ Unless("last", LastUnder(r, k, del))
         /\ Unless("ahead", AheadUnder(r, k, del))
         /\ Unless("rename", RenameUnder(r, k, del, cre))
         /\ R = State(r.chain, Updated(r.chain, r.mlist, Fetch(r.chain, r.chain[k].pair),
                                       del, cre, owner))
    BY DEF Committed
<1>2. /\ ~SplitUnder(r, k, owner) /\ ~LastUnder(r, k, del)
      /\ ~AheadUnder(r, k, del) /\ ~RenameUnder(r, k, del, cre)
    BY <1>1 DEF Unless
<1>0. \E B, p, e :
         /\ Spread(r.chain, B, all0)
         /\ Rebuilt(c, b, r.chain, B, k, p, e, Len(ns) - Len(c[k].names))
         /\ r.mlist \in Seq(HandleSet) /\ Len(r.mlist) = Len(l)
         /\ \A i \in 1 .. Len(l) : Carried(c, r.chain, l[i], r.mlist[i], k, e)
    <2>1. r \in Rewritten(State(c, l), k, ns, may)
        BY <1>1
    <2>2. Rewriting(c, b, all, k, l, ns, all0, may)
        BY DEF Rewriting
    <2>3. RewrittenTo(c, b, k, l, all0, Len(ns) - Len(c[k].names), r)
        BY <2>1, <2>2, RewrittenOf
    <2> QED BY <2>3 DEF RewrittenTo
<1> DEFINE g == Len(ns) - Len(c[k].names)
           C == r.chain
           L == r.mlist
           M == Updated(C, L, Fetch(C, C[k].pair), del, cre, owner)
<1>3. R.chain = C /\ R.mlist = M
    BY <1>1 DEF State
<1>4. PICK B, p, e :
         /\ Spread(C, B, all0)
         /\ Rebuilt(c, b, C, B, k, p, e, g)
         /\ L \in Seq(HandleSet) /\ Len(L) = Len(l)
         /\ \A i \in 1 .. Len(l) : Carried(c, C, l[i], L[i], k, e)
    BY <1>0
<1> HIDE DEF g
<1>5. /\ Parts(c) /\ Parts(C) /\ e \in Nat /\ Len(C) = Len(c) + e /\ Len(c) \in Nat
      /\ k \in 1 .. Len(C) /\ k \in Nat /\ C[k].pair = p
      /\ DOMAIN c = 1 .. Len(c) /\ DOMAIN C = 1 .. Len(C) /\ Len(C) \in Nat
    <2>1. Parts(c) /\ Parts(C) /\ e \in Nat /\ Len(C) = Len(c) + e /\ C[k].pair = p
        BY <1>4 DEF Spread, Rebuilt
    <2> QED BY <2>1, PartsOf
<1>6. /\ Len(l) \in Nat /\ DOMAIN l = 1 .. Len(l) /\ DOMAIN L = 1 .. Len(l)
      /\ \A i \in 1 .. Len(l) : l[i] \in HandleSet /\ L[i] \in HandleSet
    <2>1. Len(l) \in Nat /\ DOMAIN l = 1 .. Len(l) /\ \A i \in 1 .. Len(l) : l[i] \in HandleSet
        OBVIOUS
    <2> HIDE DEF L
    <2>2. DOMAIN L = 1 .. Len(L) /\ \A i \in 1 .. Len(L) : L[i] \in HandleSet
        BY <1>4
    <2> QED BY <1>4, <2>1, <2>2
<1>7. ASSUME owner # 0
      PROVE  /\ L[owner].m.pair = C[k].pair
             /\ L[owner].id # del /\ L[owner].id <= del
             /\ \/ L[owner].id < Len(C[k].names) \/ k = Len(C)
                \/ \A i \in 1 .. Len(L) : i > owner => L[i].m.pair # C[k].pair
    <2>1. owner \in 1 .. Len(l)
        BY <1>6, <1>7
    <2>2. In(c, l[owner], k, k) /\ Carried(c, C, l[owner], L[owner], k, e)
        BY <1>4, <1>7, <2>1
    <2>3. L[owner].m.pair = C[k].pair /\ L[owner].id = l[owner].id
        BY <1>5, <2>2 DEF Carried
    <2>4. \/ L[owner].id < Len(C[k].names) \/ k = Len(C)
          \/ \A i \in 1 .. Len(L) : i > owner => L[i].m.pair # C[k].pair
        <3>1. \A i \in Having(L, C[k].pair) : i \in DOMAIN L /\ L[i].m.pair = C[k].pair
            BY DEF Having
        <3>2. \/ ~(L[owner].id >= Len(C[k].names)) \/ ~(k < Len(C))
              \/ ~\E i \in Having(L, C[k].pair) : i > owner
            BY <1>2, <1>7 DEF SplitUnder
        <3>3. L[owner].id \in Nat /\ Len(C[k].names) \in Nat
            BY <1>5, <1>6, <2>1, KindOf, PartsOf
        <3>4. CASE ~\E i \in Having(L, C[k].pair) : i > owner
            <4>1. \A i \in DOMAIN L : L[i].m.pair = C[k].pair => i \in Having(L, C[k].pair)
                BY DEF Having
            <4> HIDE DEF L, C
            <4> QED BY <1>4, <1>6, <3>4, <4>1
        <3>5. CASE ~(L[owner].id >= Len(C[k].names)) \/ ~(k < Len(C))
            <4> HIDE DEF L, C
            <4> QED BY SMTT(60), <1>5, <3>3, <3>5
        <3> QED BY <3>2, <3>4, <3>5
    <2> QED BY <1>7, <2>3, <2>4
<1>8. ASSUME NEW i \in 1 .. Len(l), L[i].m.pair = C[k].pair
      PROVE  \/ Keeps(L[i].id, del, cre)
             \/ /\ L[i].id = del /\ Drops(del, cre) /\ L[i] \in FileHandles
                /\ L[i].id < Len(C[k].names) \/ k = Len(C)
    <2> DEFINE x == L[i]
    <2>1. i \in Having(L, C[k].pair)
        BY <1>6, <1>8 DEF Having
    <2>2. x \in Affected(r, k)
        BY <2>1 DEF Affected
    <2>3. x \in HandleSet /\ x.id \in Nat /\ Len(C[k].names) \in Nat
        BY <1>5, <1>6, KindOf, PartsOf
    <2> HIDE DEF x
    <2>4. CASE x.id = del
        <3>1. ~IsDir(x)
            BY <1>2, <2>2, <2>4 DEF AheadUnder
        <3>2. ~(k < Len(C) /\ del >= Len(C[k].names))
            BY <1>2, <2>2, <2>4, <3>1 DEF LastUnder
        <3>3. x \in FileHandles
            BY <2>3, <3>1, KindOf
        <3>4. x.id < Len(C[k].names) \/ k = Len(C)
            <4> HIDE DEF C
            <4> QED BY <1>5, <2>3, <2>4, <3>2
        <3>5. Drops(del, cre)
            <4>1. ASSUME del # None, cre # None, del # cre PROVE FALSE
                <5>1. ~(x.id >= del)
                    BY <1>2, <2>2, <4>1 DEF RenameUnder
                <5> QED BY <2>3, <2>4, <5>1
            <4> QED BY <4>1 DEF Drops
        <3> QED BY <2>4, <3>3, <3>4, <3>5 DEF x
    <2>5. CASE x.id # del
        <3>1. ASSUME del # None, cre # None PROVE x.id < del /\ x.id < cre
            <4>1. IF del = cre THEN ~(x.id > cre) ELSE ~(x.id >= del) /\ ~(x.id >= cre)
                BY <1>2, <2>2, <3>1 DEF RenameUnder
            <4> QED BY <2>3, <2>5, <4>1
        <3> QED BY <2>5, <3>1 DEF Keeps, x
    <2> QED BY <2>4, <2>5
<1> HIDE DEF C, L
<1>9. /\ Len(M) = Len(l) /\ M = [i \in 1 .. Len(l) |-> M[i]]
      /\ \A i \in 1 .. Len(l) :
            IF L[i].m.pair = C[k].pair
            THEN MovedWell(C, B, all0, k, M[i], L[i], del, cre, i, owner)
            ELSE M[i] = L[i]
    <2>1. owner \in 0 .. Len(L) /\ L \in Seq(HandleSet) /\ M = M /\ Spread(C, B, all0)
        BY <1>4
    <2>2. M = Updated(C, L, Fetch(C, C[k].pair), del, cre, owner)
        OBVIOUS
    <2> HIDE DEF M
    <2>3. UpdatedWell(C, B, all0, k, L, M, del, cre, owner)
        BY <1>5, <1>7, <2>1, <2>2, UpdatedOf
    <2> QED BY <1>4, <2>3 DEF UpdatedWell
<1> HIDE DEF M
<1>10. ASSUME NEW i \in 1 .. Len(l)
       PROVE  M[i] \in HandleSet /\ Landed(c, b, C, B, k, g, del, cre, i, owner, l[i], M[i])
    <2> DEFINE d == l[i]
               x == L[i]
               y == M[i]
    <2>1. /\ Held(c, d, k) /\ Carried(c, C, d, x, k, e)
          /\ x.m.pair = C[k].pair => MovedWell(C, B, all0, k, y, x, del, cre, i, owner)
          /\ x.m.pair # C[k].pair => y = x
          /\ x.m.pair = C[k].pair =>
                \/ Keeps(x.id, del, cre)
                \/ /\ x.id = del /\ Drops(del, cre) /\ x \in FileHandles
                   /\ x.id < Len(C[k].names) \/ k = Len(C)
        BY <1>4, <1>8, <1>9
    <2>2. \A id \in 0 .. Len(c[k].names) :
              Keeps(id, del, cre) => b[k] + Shifted(id, del, cre, i, owner) <= Len(all0)
        OBVIOUS
    <2> HIDE DEF d, x, y
    <2>3. y \in HandleSet /\ Landed(c, b, C, B, k, g, del, cre, i, owner, d, y)
        BY <1>4, <2>1, <2>2, LandedOf
    <2> QED BY <2>3 DEF d, y
<1>11. M \in Seq(HandleSet)
    BY <1>6, <1>9, <1>10
<1> QED BY <1>3, <1>4, <1>9, <1>10, <1>11 DEF g

-----------------------------------------------------------------------------
(* What a handle is to know of the directory, when P names are before it.     *)

First(all, P) == {all[i] : i \in 1 .. P}

\* D are the names that are to be forgotten.
Knows(all, D, d, P) ==
    /\ d \in FileHandles => /\ P < Len(all) /\ all[P + 1] = d.name
                            /\ d.gone <=> d.name \in D
    /\ d \in DirHandles => /\ d.seen \subseteq First(all, P)
                           /\ d.start \intersect First(all, P) \subseteq d.seen

Good(c, b, all, D, k, d) ==
    /\ d \in HandleSet
    /\ d \in DirHandles => /\ d.head = c[1].pair
                           /\ d.start \subseteq First(all, Len(all)) \ D
                           /\ d.seen \intersect D = {}
    /\ \/ d \in FileHandles /\ d.m = NoMdir /\ d.gone
       \/ \E j \in 1 .. Len(c) : In(c, d, j, k) /\ Knows(all, D, d, b[j] + d.id)

\* The names behind u, up to v, are others, g more; but those in X are the same names.
Replaced(all, all0, u, v, g, X) ==
    /\ u \in Nat /\ v \in Nat /\ u <= v /\ v <= Len(all) /\ g \in Int /\ u <= v + g
    /\ Len(all0) = Len(all) + g
    /\ \A i \in 1 .. u : all0[i] = all[i]
    /\ \A i \in v + 1 .. Len(all) : all0[i + g] = all[i]
    /\ \A i \in u + 1 .. v : all[i] \in X \/ \E h \in u + 1 .. v + g : all0[h] = all[i]
    /\ \A h \in u + 1 .. v + g : all0[h] \in X \/ \E i \in u + 1 .. v : all[i] = all0[h]

Lines(all, all0, u, v, g, X, P, Q) ==
    /\ Q \in Nat
    /\ First(all, P) \ X = First(all0, Q) \ X
    /\ (P < u /\ Q = P) \/ (P >= v /\ Q = P + g) =>
          (P < Len(all) => Q < Len(all0) /\ all0[Q + 1] = all[P + 1])

LEMMA FirstSame ==
    ASSUME NEW all, Len(all) \in Nat, NEW all0, NEW u, NEW v, NEW g, NEW X,
           Replaced(all, all0, u, v, g, X), NEW P \in 0 .. Len(all), NEW Q,
           (P <= u /\ Q = P) \/ (P >= v /\ Q = P + g)
    PROVE  Lines(all, all0, u, v, g, X, P, Q)
<1>1. /\ u \in Nat /\ v \in Nat /\ u <= v /\ v <= Len(all) /\ g \in Int /\ u <= v + g
      /\ Len(all0) = Len(all) + g
    BY DEF Replaced
<1>2. Q \in Nat
    BY <1>1
<1>3. First(all, P) \ X = First(all0, Q) \ X
    <2>1. CASE P <= u /\ Q = P
        <3>1. \A i \in 1 .. P : all0[i] = all[i]
            BY <1>1, <2>1 DEF Replaced
        <3> QED BY <2>1, <3>1 DEF First
    <2>2. CASE P >= v /\ Q = P + g
        <3>1. ASSUME NEW i \in 1 .. P, all[i] \notin X PROVE \E h \in 1 .. Q : all0[h] = all[i]
            <4>1. CASE i <= u
                <5>1. i \in 1 .. u /\ i \in 1 .. Q
                    BY <1>1, <2>2, <4>1
                <5> QED BY <5>1 DEF Replaced
            <4>2. CASE i > u /\ i <= v
                <5>1. i \in u + 1 .. v
                    BY <1>1, <4>2
                <5>2. PICK h \in u + 1 .. v + g : all0[h] = all[i]
                    BY <3>1, <5>1 DEF Replaced
                <5>3. h \in 1 .. Q
                    BY <1>1, <2>2, <5>2
                <5> QED BY <5>2, <5>3
            <4>3. CASE i > v
                <5>1. i \in v + 1 .. Len(all) /\ i + g \in 1 .. Q
                    BY <1>1, <2>2, <4>3
                <5> QED BY <5>1 DEF Replaced
            <4> QED BY <1>1, <4>1, <4>2, <4>3
        <3>2. ASSUME NEW h \in 1 .. Q, all0[h] \notin X PROVE \E i \in 1 .. P : all[i] = all0[h]
            <4>1. CASE h <= u
                <5>1. h \in 1 .. u /\ h \in 1 .. P
                    BY <1>1, <2>2, <4>1
                <5> QED BY <5>1 DEF Replaced
            <4>2. CASE h > u /\ h <= v + g
                <5>1. h \in u + 1 .. v + g
                    BY <1>1, <4>2
                <5>2. PICK i \in u + 1 .. v : all[i] = all0[h]
                    BY <3>2, <5>1 DEF Replaced
                <5>3. i \in 1 .. P
                    BY <1>1, <2>2, <5>2
                <5> QED BY <5>2, <5>3
            <4>3. CASE h > v + g
                <5> DEFINE i == h - g
                <5>1. i \in v + 1 .. Len(all) /\ i \in 1 .. P /\ i + g = h
                    BY <1>1, <2>2, <4>3
                <5> HIDE DEF i
                <5>2. all0[i + g] = all[i]
                    BY <5>1 DEF Replaced
                <5> QED BY <5>1, <5>2
            <4> QED BY <1>1, <4>1, <4>2, <4>3
        <3> QED BY <3>1, <3>2 DEF First
    <2> QED BY <2>1, <2>2
<1>4. ASSUME P < u /\ Q = P, P < Len(all) PROVE Q < Len(all0) /\ all0[Q + 1] = all[P + 1]
    <2>1. P + 1 \in 1 .. u /\ Q < Len(all0)
        BY <1>1, <1>4
    <2> QED BY <1>4, <2>1 DEF Replaced
<1>5. ASSUME P >= v /\ Q = P + g, P < Len(all) PROVE Q < Len(all0) /\ all0[Q + 1] = all[P + 1]
    <2>1. P + 1 \in v + 1 .. Len(all) /\ Q < Len(all0) /\ (P + 1) + g = Q + 1
        BY <1>1, <1>5
    <2>2. all0[(P + 1) + g] = all[P + 1]
        BY <2>1 DEF Replaced
    <2> QED BY <2>1, <2>2
<1> QED BY <1>2, <1>3, <1>4, <1>5 DEF Lines

\* A handle moves along with the names behind it.
LEMMA KnowsSame ==
    ASSUME NEW all, Len(all) \in Nat, NEW all0, NEW u, NEW v, NEW g, NEW X, NEW D,
           Replaced(all, all0, u, v, g, X), NEW P \in 0 .. Len(all), NEW Q,
           NEW d \in HandleSet, NEW x, Same(x, d), Knows(all, D, d, P),
           d \in DirHandles => d.start \intersect X = {} /\ d.seen \intersect X = {},
           \/ P < u /\ Q = P
           \/ P >= v /\ Q = P + g
           \/ P = u /\ Q = P /\ d \in DirHandles
    PROVE  Knows(all0, D, x, Q)
<1>0. (P <= u /\ Q = P) \/ (P >= v /\ Q = P + g)
    <2>1. u \in Nat
        BY DEF Replaced
    <2> QED BY <2>1
<1>1. /\ First(all, P) \ X = First(all0, Q) \ X
      /\ (P < u /\ Q = P) \/ (P >= v /\ Q = P + g) =>
            (P < Len(all) => Q < Len(all0) /\ all0[Q + 1] = all[P + 1])
    <2>1. Lines(all, all0, u, v, g, X, P, Q)
        BY <1>0, FirstSame
    <2> QED BY <2>1 DEF Lines
<1>2. CASE d \in FileHandles
    <2>1. x \in FileHandles /\ x \notin DirHandles /\ d \notin DirHandles
          /\ x.name = d.name /\ x.gone = d.gone
        BY <1>2, SameKind, KindOf
    <2>2. P < Len(all) /\ all[P + 1] = d.name /\ (d.gone <=> d.name \in D)
        BY <1>2 DEF Knows
    <2>3. x.gone <=> x.name \in D
        BY <2>1, <2>2
    <2>4. Q < Len(all0) /\ all0[Q + 1] = x.name
        BY <1>1, <2>1, <2>2
    <2> QED BY <2>1, <2>3, <2>4 DEF Knows
<1>3. CASE d \in DirHandles
    <2>1. x \in DirHandles /\ x \notin FileHandles /\ x.seen = d.seen /\ x.start = d.start
        BY <1>3, SameKind, KindOf
    <2>2. d.seen \subseteq First(all, P) /\ d.start \intersect First(all, P) \subseteq d.seen
        BY <1>3 DEF Knows
    <2>3. d.seen \subseteq First(all0, Q) /\ d.start \intersect First(all0, Q) \subseteq d.seen
        BY <1>1, <1>3, <2>2
    <2> QED BY <2>1, <2>3 DEF Knows
<1> QED BY <1>2, <1>3 DEF HandleSet

LEMMA GoodHeld ==
    ASSUME NEW c, NEW b, NEW all, NEW D, NEW k, NEW d, Good(c, b, all, D, k, d)
    PROVE  Held(c, d, k)
<1>1. NoMdir.pair = Null
    BY DEF NoMdir
<1> QED BY <1>1 DEF Good, Held

\* The handles of the part that are kept move along with the names of the part.
Slides(y, n, del, cre, i, owner, u, v, g) ==
    \A id \in 0 .. n : Keeps(id, del, cre) =>
        \/ y + id < u /\ y + Shifted(id, del, cre, i, owner) = y + id
        \/ y + id >= v /\ y + Shifted(id, del, cre, i, owner) = (y + id) + g

\* The names that a commit to a part replaces; of those in D the ones in D0 are left.
Renews(c, b, all, all0, k, u, v, g, X, D, D0) ==
    /\ Replaced(all, all0, u, v, g, X)
    /\ b[k] <= u /\ v <= b[k + 1]
    /\ \A y \in X : y \in D \/ y \notin First(all, Len(all))
    /\ D0 \subseteq D
    /\ \A y \in D \ D0 : y \notin First(all, Len(all)) \/ \E i \in u + 1 .. v : y = all[i]

LEMMA PlacesOf ==
    ASSUME NEW c, NEW b, NEW all, Spread(c, b, all), NEW j \in 1 .. Len(c)
    PROVE  /\ b[j] \in Nat /\ Len(c[j].names) \in Nat /\ b[j + 1] = b[j] + Len(c[j].names)
           /\ b[j + 1] <= Len(all) /\ Len(all) \in Nat
           /\ b[1] = 0 /\ b[Len(c) + 1] = Len(all)
           /\ \A h \in 1 .. Len(c) : j < h => b[j + 1] <= b[h]
           /\ \A a \in 1 .. Len(c[j].names) : all[b[j] + a] = c[j].names[a]
<1>1. Parts(c) /\ Offsets(c, b) /\ all \in Seq(Name) /\ Len(all) = b[Len(c) + 1]
      /\ \A a \in 1 .. Len(c[j].names) : all[b[j] + a] = c[j].names[a]
    BY DEF Spread
<1>2. Len(c) \in Nat /\ Len(c[j].names) \in Nat /\ j \in 1 .. Len(c) + 1
      /\ j + 1 \in 1 .. Len(c) + 1 /\ Len(c) + 1 \in 1 .. Len(c) + 1 /\ j + 1 <= Len(c) + 1
    BY <1>1, PartsOf
<1>3. b[j] \in Nat /\ b[j + 1] = b[j] + Len(c[j].names) /\ b[1] = 0
    BY <1>1, <1>2, OffsetsOf
<1>4. b[j + 1] <= b[Len(c) + 1]
    BY <1>1, <1>2, OffsetsOf
<1>5. \A h \in 1 .. Len(c) : j < h => b[j + 1] <= b[h]
    <2>1. SUFFICES ASSUME NEW h \in 1 .. Len(c), j < h PROVE b[j + 1] <= b[h]
        OBVIOUS
    <2>2. h \in 1 .. Len(c) + 1 /\ j + 1 <= h
        BY <1>2, <2>1
    <2> QED BY <1>1, <1>2, <2>2, OffsetsOf
<1>6. Len(all) \in Nat
    BY <1>1
<1> QED BY <1>1, <1>2, <1>3, <1>4, <1>5, <1>6

LEMMA PlaceOf ==
    ASSUME NEW c, NEW b, NEW all, Spread(c, b, all), NEW j \in 1 .. Len(c), NEW k,
           NEW d \in HandleSet, In(c, d, j, k)
    PROVE  /\ d.id \in Nat /\ b[j] + d.id \in 0 .. Len(all) /\ b[j] + d.id <= b[j + 1]
           /\ d \in FileHandles /\ b[j] + d.id < Len(all) => d.id < Len(c[j].names)
<1>1. /\ b[j] \in Nat /\ Len(c[j].names) \in Nat /\ b[j + 1] = b[j] + Len(c[j].names)
      /\ b[j + 1] <= Len(all) /\ Len(all) \in Nat /\ b[Len(c) + 1] = Len(all)
    BY PlacesOf
<1>2. d.id \in Nat /\ d.id <= Len(c[j].names)
      /\ (d \in FileHandles => d.id < Len(c[j].names) \/ j = Len(c))
    BY KindOf DEF In
<1>3. b[j] + d.id \in 0 .. Len(all) /\ b[j] + d.id <= b[j + 1]
    BY <1>1, <1>2
<1>4. ASSUME d \in FileHandles, b[j] + d.id < Len(all), j = Len(c) PROVE d.id < Len(c[j].names)
    <2>1. Len(all) = b[j] + Len(c[j].names)
        BY <1>1, <1>4
    <2> QED BY <1>1, <1>2, <1>4, <2>1
<1> QED BY <1>2, <1>3, <1>4

\* A handle that is good is so after a change, at a place that has moved along.
LEMMA GoodThere ==
    ASSUME NEW c, NEW b, NEW all, Spread(c, b, all), Up(all), NEW k \in 1 .. Len(c),
           NEW all0, NEW D, NEW D0,
           NEW u, NEW v, NEW g, NEW X, Renews(c, b, all, all0, k, u, v, g, X, D, D0),
           NEW d \in HandleSet, NEW x, Same(x, d), NEW C,
           x \in DirHandles => x.head = C[1].pair,
           d \in DirHandles => d.start \subseteq First(all, Len(all)) \ D /\ d.seen \intersect D = {},
           NEW P \in 0 .. Len(all), Knows(all, D, d, P),
           NEW B, NEW h \in 1 .. Len(C), NEW r, In(C, x, h, r), NEW Q, Q = B[h] + x.id,
           \/ P < u /\ Q = P
           \/ P >= v /\ Q = P + g
           \/ P = u /\ Q = P /\ d \in DirHandles
    PROVE  Good(C, B, all0, D0, r, x)
<1>1. /\ x \in HandleSet
      /\ x \in DirHandles => d \in DirHandles /\ x.head = C[1].pair
                             /\ x.seen = d.seen /\ x.start = d.start
      /\ x \in FileHandles <=> d \in FileHandles
      /\ d \in FileHandles => x.gone = d.gone /\ x.name = d.name
    BY SameKind
<1>2. Replaced(all, all0, u, v, g, X) /\ u \in Nat /\ v \in Nat /\ u <= v /\ g \in Int
      /\ v <= Len(all) /\ Len(all0) = Len(all) + g /\ Len(all) \in Nat
    <2>1. all \in Seq(Name)
        BY DEF Spread
    <2> QED BY SMTT(60), <2>1 DEF Renews, Replaced
<1>3. d \in DirHandles => d.start \intersect X = {} /\ d.seen \intersect X = {}
    <2>1. SUFFICES ASSUME d \in DirHandles
                   PROVE  d.start \intersect X = {} /\ d.seen \intersect X = {}
        OBVIOUS
    <2>2. d.start \intersect X = {}
        BY <2>1 DEF Renews
    <2>3. d.seen \subseteq First(all, P)
        BY <2>1 DEF Knows
    <2>4. First(all, P) \subseteq First(all, Len(all))
        <3>1. \A a \in 1 .. P : a \in 1 .. Len(all)
            BY <1>2
        <3> QED BY <3>1 DEF First
    <2> QED BY <2>1, <2>2, <2>3, <2>4 DEF Renews
<1>4. Knows(all0, D, x, Q)
    BY <1>2, <1>3, KnowsSame
<1>5. D0 \subseteq D
    BY DEF Renews
<1>6. ASSUME x \in FileHandles PROVE x.name \in D <=> x.name \in D0
    <2>1. d \in FileHandles /\ d \notin DirHandles
        BY <1>1, <1>6, KindOf
    <2>2. P < Len(all) /\ all[P + 1] = x.name /\ P + 1 \in 1 .. Len(all)
        BY <1>1, <1>2, <2>1 DEF Knows
    <2>3. x.name \in First(all, Len(all))
        BY <2>2 DEF First
    <2>4. \A a \in u + 1 .. v : a \in 1 .. Len(all) /\ (a < P + 1 \/ P + 1 < a)
        BY <1>2, <2>1, <2>2
    <2>5. \A a \in 1 .. Len(all) : all[a] \in Nat
        <3>1. all \in Seq(Name)
            BY DEF Spread
        <3> QED BY <3>1, ConstantsAssumption
    <2>6. \A a \in u + 1 .. v : all[a] # all[P + 1]
        BY <2>2, <2>4, <2>5 DEF Up
    <2> QED BY <1>5, <2>2, <2>3, <2>6 DEF Renews
<1>7. Knows(all0, D0, x, Q)
    <2>1. x \in FileHandles => x \notin DirHandles
        BY <1>1, KindOf
    <2>2. CASE x \in FileHandles
        <3>1. Q < Len(all0) /\ all0[Q + 1] = x.name /\ (x.gone <=> x.name \in D)
            BY <1>4, <2>2 DEF Knows
        <3>2. x.gone <=> x.name \in D0
            BY <1>6, <2>2, <3>1
        <3> QED BY <2>1, <2>2, <3>1, <3>2 DEF Knows
    <2>3. CASE x \notin FileHandles
        BY <1>4, <2>3 DEF Knows
    <2> QED BY <2>2, <2>3
<1>8. x \in DirHandles => /\ x.head = C[1].pair
                          /\ x.start \subseteq First(all0, Len(all0)) \ D0
                          /\ x.seen \intersect D0 = {}
    <2>1. SUFFICES ASSUME x \in DirHandles
                   PROVE  /\ x.head = C[1].pair
                          /\ x.start \subseteq First(all0, Len(all0)) \ D0
                          /\ x.seen \intersect D0 = {}
        OBVIOUS
    <2>2. First(all, Len(all)) \ X = First(all0, Len(all0)) \ X
        <3> DEFINE p == Len(all)
                   q == Len(all0)
        <3>1. p \in 0 .. Len(all) /\ ((p <= u /\ q = p) \/ (p >= v /\ q = p + g))
            BY <1>2
        <3> HIDE DEF p, q
        <3>2. Lines(all, all0, u, v, g, X, p, q)
            BY <1>2, <3>1, FirstSame
        <3> QED BY <3>2 DEF p, q, Lines
    <2> QED BY <1>1, <1>3, <1>5, <2>1, <2>2
<1> QED BY <1>1, <1>7, <1>8 DEF Good

LEMMA GoodAfter ==
    ASSUME NEW c, NEW b, NEW all, Spread(c, b, all), Up(all), NEW k \in 1 .. Len(c),
           NEW C, NEW B, NEW all0, NEW D, NEW D0,
           NEW u, NEW v, NEW g, NEW X, Renews(c, b, all, all0, k, u, v, g, X, D, D0),
           NEW d, Good(c, b, all, D, k, d), NEW x, NEW i, NEW owner,
           NEW del \in Nat, NEW cre \in Nat,
           Landed(c, b, C, B, k, g, del, cre, i, owner, d, x),
           Drops(del, cre) /\ del < Len(c[k].names) => c[k].names[del + 1] \in D,
           Slides(b[k], Len(c[k].names), del, cre, i, owner, u, v, g)
    PROVE  Good(C, B, all0, D0, 0, x)
<1>1. /\ d \in HandleSet /\ Same(x, d) /\ x \in HandleSet
      /\ x \in DirHandles => d \in DirHandles /\ x.head = C[1].pair
                             /\ x.seen = d.seen /\ x.start = d.start
      /\ x \in FileHandles <=> d \in FileHandles
      /\ d \in FileHandles => x.gone = d.gone /\ x.name = d.name
    BY SameKind DEF Good, Landed
<1>2. Replaced(all, all0, u, v, g, X) /\ u \in Nat /\ v \in Nat /\ u <= v /\ g \in Int
      /\ b[k] <= u /\ v <= b[k + 1] /\ v <= Len(all) /\ Len(all0) = Len(all) + g
    BY DEF Renews, Replaced
<1>3. /\ b[k] \in Nat /\ Len(c[k].names) \in Nat /\ b[k + 1] = b[k] + Len(c[k].names)
      /\ Len(all) \in Nat
    BY PlacesOf
<1>8. u \in Nat /\ v \in Nat /\ b[k] \in Nat /\ b[k + 1] \in Nat /\ b[k] <= u /\ v <= b[k + 1]
    BY <1>2, <1>3
<1>4. ASSUME d \in DirHandles
      PROVE  /\ d.start \subseteq First(all, Len(all)) \ D /\ d.seen \intersect D = {}
             /\ d.start \intersect X = {}
    <2>1. d.start \subseteq First(all, Len(all)) \ D /\ d.seen \intersect D = {}
        BY <1>4 DEF Good
    <2>2. d.start \intersect X = {}
        BY <2>1 DEF Renews
    <2> QED BY <2>1, <2>2
<1>5. x \in DirHandles => /\ x.head = C[1].pair
                          /\ x.start \subseteq First(all0, Len(all0)) \ D0
                          /\ x.seen \intersect D0 = {}
    <2>0. D0 \subseteq D
        BY DEF Renews
    <2>1. SUFFICES ASSUME x \in DirHandles
                   PROVE  /\ x.head = C[1].pair
                          /\ x.start \subseteq First(all0, Len(all0)) \ D0
                          /\ x.seen \intersect D0 = {}
        OBVIOUS
    <2>2. First(all, Len(all)) \ X = First(all0, Len(all0)) \ X
        <3> DEFINE P == Len(all)
                   Q == Len(all0)
        <3>1. P \in 0 .. Len(all) /\ ((P <= u /\ Q = P) \/ (P >= v /\ Q = P + g))
            BY <1>2, <1>3
        <3> HIDE DEF P, Q
        <3>2. Lines(all, all0, u, v, g, X, P, Q)
            BY <1>2, <1>3, <3>1, FirstSame
        <3> QED BY <3>2 DEF P, Q, Lines
    <2> QED BY <1>1, <1>4, <2>0, <2>1, <2>2
<1>6. CASE d \in FileHandles /\ d.m = NoMdir /\ d.gone
    <2>1. x = d
        BY <1>6 DEF Landed, NoMdir
    <2> QED BY <1>1, <1>5, <1>6, <2>1 DEF Good
<1>7. ASSUME NEW j \in 1 .. Len(c), In(c, d, j, k), Knows(all, D, d, b[j] + d.id)
      PROVE  Good(C, B, all0, D0, 0, x)
    <2> DEFINE P == b[j] + d.id
    <2>1. /\ d.id \in Nat /\ P \in 0 .. Len(all) /\ P <= b[j + 1]
          /\ d \in FileHandles => P < Len(all) /\ d.id < Len(c[j].names)
                                  /\ all[P + 1] = d.name /\ (d.gone <=> d.name \in D)
        BY <1>1, <1>7, PlaceOf DEF Knows
    <2>2. b[j] \in Nat /\ Len(c[j].names) \in Nat /\ b[j + 1] = b[j] + Len(c[j].names)
        BY SMTT(60), PlacesOf
    <2>11. \A a \in 1 .. Len(c[j].names) : all[b[j] + a] = c[j].names[a]
        BY PlacesOf
    <2> HIDE DEF P
    <2>4. ASSUME NEW h \in 1 .. Len(C), In(C, x, h, 0), NEW Q, Q = B[h] + x.id,
                 \/ P < u /\ Q = P
                 \/ P >= v /\ Q = P + g
                 \/ P = u /\ Q = P /\ d \in DirHandles
          PROVE  Good(C, B, all0, D0, 0, x)
        <3>1. Knows(all, D, d, P)
            BY <1>7 DEF P
        <3> DEFINE r == 0
        <3>2. In(C, x, h, r)
            BY <2>4
        <3> HIDE DEF r
        <3>3. Good(C, B, all0, D0, r, x)
            BY <1>1, <1>4, <2>1, <2>4, <3>1, <3>2, GoodThere
        <3> QED BY <3>3 DEF r
    <2>5. CASE j = k /\ d.id = del /\ Drops(del, cre) /\ d \in FileHandles /\ x.m = NoMdir
        <3>1. c[k].names[del + 1] \in D
            BY <2>1, <2>5
        <3>2. del + 1 \in 1 .. Len(c[k].names) /\ P + 1 = b[k] + (del + 1)
            BY SMTT(60), <1>3, <2>1, <2>5 DEF P
        <3>3. all[P + 1] = c[k].names[del + 1]
            BY <2>5, <2>11, <3>2
        <3>4. d.gone
            BY <2>1, <2>5, <3>1, <3>3
        <3> QED BY <1>1, <1>5, <2>5, <3>4 DEF Good
    <2>6. ASSUME NEW h \in 1 .. Len(C), In(C, x, h, 0), j < k, B[h] + x.id = b[j] + d.id
          PROVE  Good(C, B, all0, D0, 0, x)
        <3>1. b[j + 1] <= b[k]
            BY <2>6, PlacesOf
        <3>2. d \in DirHandles \/ d \in FileHandles
            BY <1>1 DEF HandleSet
        <3>3. P < u \/ (P = u /\ d \in DirHandles)
            <4>1. d \in FileHandles => P < b[j + 1]
                <5> DEFINE y == b[j]
                           n == Len(c[j].names)
                           z == b[j + 1]
                           w == d.id
                <5>1. y \in Nat /\ n \in Nat /\ z = y + n /\ w \in Nat /\ P = y + w
                      /\ (d \in FileHandles => w < n)
                    BY <2>1, <2>2 DEF P
                <5> HIDE DEF y, n, z, w
                <5>2. d \in FileHandles => P < z
                    BY <5>1
                <5> QED BY <5>2 DEF z
            <4>2. b[j + 1] \in Nat
                BY <2>2
            <4>3. b[j + 1] <= u
                BY <1>8, <3>1, <4>2
            <4> QED BY <1>8, <2>1, <3>2, <4>1, <4>2, <4>3
        <3> QED BY <2>4, <2>6, <3>3 DEF P
    <2>7. ASSUME NEW h \in 1 .. Len(C), In(C, x, h, 0), j > k, B[h] + x.id = (b[j] + d.id) + g
          PROVE  Good(C, B, all0, D0, 0, x)
        <3>1. b[k + 1] <= b[j]
            BY <2>7, PlacesOf
        <3>2. P >= v
            <4> DEFINE y == b[j]
                       z == b[k + 1]
                       w == d.id
            <4>1. y \in Nat /\ z \in Nat /\ z <= y /\ w \in Nat /\ P = y + w /\ v <= z /\ v \in Nat
                BY <1>8, <2>1, <2>2, <3>1 DEF P
            <4> HIDE DEF y, z, w
            <4> QED BY <4>1
        <3> QED BY <2>4, <2>7, <3>2 DEF P
    <2>8. ASSUME NEW h \in 1 .. Len(C), In(C, x, h, 0), NEW id \in 0 .. Len(c[k].names),
                 Keeps(id, del, cre), P = b[k] + id,
                 B[h] + x.id = b[k] + Shifted(id, del, cre, i, owner)
          PROVE  Good(C, B, all0, D0, 0, x)
        <3>1. \/ b[k] + id < u /\ b[k] + Shifted(id, del, cre, i, owner) = b[k] + id
              \/ b[k] + id >= v /\ b[k] + Shifted(id, del, cre, i, owner) = (b[k] + id) + g
            BY <2>8 DEF Slides
        <3> QED BY <2>4, <2>8, <3>1
    <2>9. j = k => d.id \in 0 .. Len(c[k].names) /\ P = b[k] + d.id
        BY <1>7, <2>1, <2>2 DEF In, P
    <2>10. j = k - 1 /\ d.id = Len(c[j].names) =>
              0 \in 0 .. Len(c[k].names) /\ P = b[k] + 0
        <3>1. SUFFICES ASSUME j = k - 1, d.id = Len(c[j].names)
                       PROVE  0 \in 0 .. Len(c[k].names) /\ P = b[k] + 0
            OBVIOUS
        <3>2. j + 1 = k
            BY <3>1
        <3>3. b[k] = b[j] + Len(c[j].names)
            BY <2>2, <3>2
        <3> QED BY <1>3, <3>1, <3>3 DEF P
    <2> QED BY <1>7, <2>5, <2>6, <2>7, <2>8, <2>9, <2>10 DEF Landed
<1> QED BY <1>6, <1>7 DEF Good

-----------------------------------------------------------------------------
(* A directory and its handles, each of which is good.                        *)

World(c, b, all, D, k, l) ==
    /\ Spread(c, b, all)
    /\ Up(all)
    /\ l \in Seq(HandleSet)
    /\ \A i \in 1 .. Len(l) : Good(c, b, all, D, k, l[i])

\* A handle knows enough of a part if it knows all.
LEMMA WorldAt ==
    ASSUME NEW c, NEW b, NEW all, NEW D, NEW l, World(c, b, all, D, 0, l), NEW k
    PROVE  World(c, b, all, D, k, l)
<1>1. ASSUME NEW d, NEW j \in 1 .. Len(c), In(c, d, j, 0) PROVE In(c, d, j, k)
    BY <1>1 DEF In
<1>2. ASSUME NEW d, Good(c, b, all, D, 0, d) PROVE Good(c, b, all, D, k, d)
    BY <1>1, <1>2 DEF Good
<1> QED BY <1>2 DEF World

LEMMA SlidesFit ==
    ASSUME NEW c, NEW b, NEW all, Spread(c, b, all), NEW k \in 1 .. Len(c),
           NEW all0, NEW D, NEW D0, NEW u, NEW v, NEW g, NEW X, Renews(c, b, all, all0, k, u, v, g, X, D, D0),
           NEW del, NEW cre, NEW i, NEW owner,
           Slides(b[k], Len(c[k].names), del, cre, i, owner, u, v, g),
           NEW id \in 0 .. Len(c[k].names), Keeps(id, del, cre)
    PROVE  b[k] + Shifted(id, del, cre, i, owner) <= Len(all0)
<1>1. /\ u \in Nat /\ v \in Nat /\ v <= Len(all) /\ g \in Int /\ u <= v + g
      /\ Len(all0) = Len(all) + g
    BY DEF Renews, Replaced
<1>2. /\ b[k] \in Nat /\ Len(c[k].names) \in Nat /\ b[k + 1] = b[k] + Len(c[k].names)
      /\ b[k + 1] <= Len(all) /\ Len(all) \in Nat
    BY PlacesOf
<1>3. \/ b[k] + id < u /\ b[k] + Shifted(id, del, cre, i, owner) = b[k] + id
      \/ b[k] + id >= v /\ b[k] + Shifted(id, del, cre, i, owner) = (b[k] + id) + g
    BY DEF Slides
<1> DEFINE P == b[k] + id
           Q == b[k] + Shifted(id, del, cre, i, owner)
<1>4. P \in Nat /\ P <= Len(all) /\ ((P < u /\ Q = P) \/ (P >= v /\ Q = P + g))
    BY <1>2, <1>3
<1> HIDE DEF P, Q
<1>5. Q <= Len(all0)
    BY <1>1, <1>2, <1>4
<1> QED BY <1>5 DEF Q

\* What a commit to part k of the names ns relies on: they fit in, and the handles but that
\* of the owner slide along with the names.
Ready(c, b, all, k, l, ns, all0, del, cre, owner, g, D, D0, u, v, X) ==
    /\ Spread(c, b, all) /\ Up(all) /\ k \in 1 .. Len(c)
    /\ l \in Seq(HandleSet) /\ \A i \in 1 .. Len(l) : Held(c, l[i], k)
    /\ ns \in Seq(Name) /\ (k > 1 => Len(ns) >= 1)
    /\ Spliced(c, b, all, k, ns, all0)
    /\ del \in Nat /\ cre \in Nat /\ owner \in 0 .. Len(l)
    /\ owner # 0 => In(c, l[owner], k, k) /\ l[owner].id # del /\ l[owner].id <= del
    /\ g = Len(ns) - Len(c[k].names)
    /\ Renews(c, b, all, all0, k, u, v, g, X, D, D0)
    /\ Drops(del, cre) /\ del < Len(c[k].names) => c[k].names[del + 1] \in D
    /\ \A i \in 1 .. Len(l) :
          \/ Slides(b[k], Len(c[k].names), del, cre, i, owner, u, v, g)
          \/ i = owner /\ g >= 0 /\ \A id \in Nat : Shifted(id, del, cre, i, owner) <= id

\* ... and what it leads to.
Done(c, b, all, k, l, all0, del, cre, owner, g, D, D0, u, v, R, B, p, e) ==
    /\ Spread(R.chain, B, all0)
    /\ Rebuilt(c, b, R.chain, B, k, p, e, g)
    /\ R.mlist \in Seq(HandleSet) /\ Len(R.mlist) = Len(l)
    /\ \A i \in 1 .. Len(l) :
          /\ Landed(c, b, R.chain, B, k, g, del, cre, i, owner, l[i], R.mlist[i])
          /\ /\ Good(c, b, all, D, k, l[i])
             /\ Slides(b[k], Len(c[k].names), del, cre, i, owner, u, v, g)
             => Good(R.chain, B, all0, D0, 0, R.mlist[i])

LEMMA CommitGood ==
    ASSUME Risks = {},
           NEW c, NEW b, NEW all, NEW k, NEW l, NEW ns, NEW all0, NEW del, NEW cre, NEW owner,
           NEW g, NEW D, NEW D0, NEW u, NEW v, NEW X,
           Ready(c, b, all, k, l, ns, all0, del, cre, owner, g, D, D0, u, v, X),
           NEW may, may \subseteq BOOLEAN,
           NEW R \in Committed(State(c, l), k, ns, del, cre, owner, may)
    PROVE  \E B, p, e : Done(c, b, all, k, l, all0, del, cre, owner, g, D, D0, u, v, R, B, p, e)
<1>0. /\ Spread(c, b, all) /\ Up(all) /\ k \in 1 .. Len(c)
      /\ l \in Seq(HandleSet) /\ \A i \in 1 .. Len(l) : Held(c, l[i], k)
      /\ ns \in Seq(Name) /\ (k > 1 => Len(ns) >= 1)
      /\ Spliced(c, b, all, k, ns, all0)
      /\ del \in Nat /\ cre \in Nat /\ owner \in 0 .. Len(l)
      /\ owner # 0 => In(c, l[owner], k, k) /\ l[owner].id # del /\ l[owner].id <= del
      /\ g = Len(ns) - Len(c[k].names)
      /\ Renews(c, b, all, all0, k, u, v, g, X, D, D0)
      /\ Drops(del, cre) /\ del < Len(c[k].names) => c[k].names[del + 1] \in D
      /\ \A i \in 1 .. Len(l) :
            \/ Slides(b[k], Len(c[k].names), del, cre, i, owner, u, v, g)
            \/ i = owner /\ g >= 0 /\ \A id \in Nat : Shifted(id, del, cre, i, owner) <= id
    BY DEF Ready
<1>1. /\ b[k] \in Nat /\ Len(c[k].names) \in Nat /\ b[k + 1] = b[k] + Len(c[k].names)
      /\ b[k + 1] <= Len(all) /\ Len(all) \in Nat
    BY SMTT(60), <1>0, PlacesOf
<1>2. g \in Int /\ Len(all0) = Len(all) + g
    BY <1>0 DEF Renews, Replaced
<1>3. ASSUME NEW i \in 1 .. Len(l), NEW id \in 0 .. Len(c[k].names), Keeps(id, del, cre)
      PROVE  b[k] + Shifted(id, del, cre, i, owner) <= Len(all0)
    <2>1. CASE Slides(b[k], Len(c[k].names), del, cre, i, owner, u, v, g)
        BY <1>0, <1>3, <2>1, SlidesFit
    <2>2. CASE i = owner /\ g >= 0 /\ \A h \in Nat : Shifted(h, del, cre, i, owner) <= h
        <3> DEFINE s == Shifted(id, del, cre, i, owner)
        <3>1. s <= id /\ s \in Int
            BY <1>0, <2>2 DEF Shifted
        <3> DEFINE y == b[k]
                   m == Len(c[k].names)
                   N == Len(all)
                   Z == Len(all0)
        <3>2. y \in Nat /\ m \in Nat /\ y + m <= N /\ N \in Nat /\ Z = N + g /\ g \in Int /\ g >= 0
              /\ id <= m /\ id \in Nat
            BY <1>1, <1>2, <2>2
        <3> HIDE DEF s, y, m, N, Z
        <3>3. y + s <= Z
            BY <3>1, <3>2
        <3> QED BY <3>3 DEF s, y, Z
    <2> QED BY <1>0, <2>1, <2>2
<1>4. PICK B, p, e :
         /\ Spread(R.chain, B, all0)
         /\ Rebuilt(c, b, R.chain, B, k, p, e, g)
         /\ R.mlist \in Seq(HandleSet) /\ Len(R.mlist) = Len(l)
         /\ \A i \in 1 .. Len(l) :
               Landed(c, b, R.chain, B, k, g, del, cre, i, owner, l[i], R.mlist[i])
    BY <1>0, <1>3, CommitOf
<1>5. ASSUME NEW i \in 1 .. Len(l), Good(c, b, all, D, k, l[i]),
             Slides(b[k], Len(c[k].names), del, cre, i, owner, u, v, g)
      PROVE  Good(R.chain, B, all0, D0, 0, R.mlist[i])
    <2> DEFINE d == l[i]
               x == R.mlist[i]
               C == R.chain
    <2>1. Good(c, b, all, D, k, d) /\ Landed(c, b, C, B, k, g, del, cre, i, owner, d, x)
        BY <1>4, <1>5
    <2> HIDE DEF d, x, C
    <2>2. Good(C, B, all0, D0, 0, x)
        BY <1>0, <1>5, <2>1, GoodAfter
    <2> QED BY <2>2 DEF x, C
<1> QED BY <1>4, <1>5 DEF Done

\* A commit that leaves the entries alone.
LEMMA TouchOf ==
    ASSUME Risks = {},
           NEW c, NEW b, NEW all, NEW D, NEW l, NEW k \in 1 .. Len(c), World(c, b, all, D, k, l),
           NEW owner \in 0 .. Len(l), owner # 0 => In(c, l[owner], k, k),
           NEW may, may \subseteq BOOLEAN, NEW R \in Touched(State(c, l), k, owner, may)
    PROVE  \E B, p, e :
              /\ World(R.chain, B, all, D, 0, R.mlist) /\ Len(R.mlist) = Len(l)
              /\ Rebuilt(c, b, R.chain, B, k, p, e, 0)
              /\ \A i \in 1 .. Len(l) : Same(R.mlist[i], l[i])
<1> DEFINE ns == c[k].names
           n == Len(ns)
           u == b[k]
<1>1. Spread(c, b, all) /\ Up(all) /\ l \in Seq(HandleSet)
      /\ \A i \in 1 .. Len(l) : Good(c, b, all, D, k, l[i])
    BY DEF World
<1>2. \A i \in 1 .. Len(l) : Held(c, l[i], k)
    BY <1>1, GoodHeld
<1>3. ns \in Seq(Name) /\ (k > 1 => n >= 1) /\ n \in Nat
    BY <1>1, PartsOf DEF Spread
<1>4. /\ u \in Nat /\ b[k + 1] = u + n /\ b[k + 1] <= Len(all) /\ Len(all) \in Nat
      /\ \A a \in 1 .. n : all[u + a] = ns[a]
    BY <1>1, PlacesOf
<1>5. u + n < None
    BY <1>1, FewNames
<1>6. Spliced(c, b, all, k, ns, all)
    <2>1. all \in Seq(Name)
        BY <1>1 DEF Spread
    <2>2. Len(all) = (Len(all) + n) - n /\ \A i \in 1 .. Len(all) : (i + n) - n = i
        BY <1>3, <1>4
    <2> HIDE DEF ns
    <2> QED BY <1>4, <2>1, <2>2 DEF Spliced, ns
<1> DEFINE g == n - n
<1>7. g = 0
    BY <1>3
<1> HIDE DEF ns, n, u, g
<1>8. Renews(c, b, all, all, k, u, u, g, {}, D, D)
    <2>1. Replaced(all, all, u, u, g, {})
        BY <1>3, <1>4, <1>7 DEF Replaced
    <2> QED BY <1>3, <1>4, <2>1 DEF Renews, u
<1>9. None \in Nat /\ ~(None < n)
    BY <1>3, <1>4, <1>5 DEF None
<1>10. ASSUME NEW i, NEW id \in 0 .. n PROVE Shifted(id, None, None, i, owner) = id /\ id < None
    BY <1>3, <1>4, <1>5 DEF Shifted, None
<1>11. \A i \in 1 .. Len(l) : Slides(u, n, None, None, i, owner, u, u, g)
    BY <1>3, <1>4, <1>7, <1>10 DEF Slides
<1>12. owner # 0 => l[owner].id # None /\ l[owner].id <= None
    <2>1. SUFFICES ASSUME owner # 0 PROVE l[owner].id < None /\ l[owner].id \in Nat
        BY DEF None
    <2>2. owner \in 1 .. Len(l)
        BY <1>1, <2>1
    <2>3. l[owner].id \in Nat /\ l[owner].id <= n
        BY <1>1, <2>1, <2>2, KindOf DEF In, n, ns
    <2>4. l[owner].id \in 0 .. n
        BY <1>3, <2>3
    <2> QED BY <1>10, <2>3, <2>4
<1>13. R \in Committed(State(c, l), k, ns, None, None, owner, may)
    BY DEF Touched, State, ns
<1>14. PICK B, p, e :
          Done(c, b, all, k, l, all, None, None, owner, g, D, D, u, u, R, B, p, e)
    <2>1. /\ g = Len(ns) - Len(c[k].names)
          /\ None < Len(c[k].names) => c[k].names[None + 1] \in D
          /\ \A i \in 1 .. Len(l) : Slides(b[k], Len(c[k].names), None, None, i, owner, u, u, g)
        BY <1>9, <1>11 DEF g, n, ns, u
    <2> DEFINE X == {}
    <2>2. Renews(c, b, all, all, k, u, u, g, X, D, D)
        BY <1>8
    <2> HIDE DEF X
    <2>3. Ready(c, b, all, k, l, ns, all, None, None, owner, g, D, D, u, u, X)
        BY <1>1, <1>2, <1>3, <1>6, <1>9, <1>12, <2>1, <2>2 DEF n, Ready
    <2> QED BY <1>13, <2>3, CommitGood
<1>15. \A i \in 1 .. Len(l) : Good(R.chain, B, all, D, 0, R.mlist[i])
    BY <1>1, <1>11, <1>14 DEF n, ns, u, Done
<1> QED BY <1>1, <1>7, <1>14, <1>15 DEF World, Landed, Done

-----------------------------------------------------------------------------
(* What becomes of the names.                                                 *)

LEMMA InsertOf ==
    ASSUME NEW S, NEW s \in Seq(S), NEW q \in 0 .. Len(s), NEW x \in S, NEW r, r = q + 1
    PROVE  /\ InsertAt(s, r, x) \in Seq(S)
           /\ Len(InsertAt(s, r, x)) = Len(s) + 1
           /\ \A i \in 1 .. q : InsertAt(s, r, x)[i] = s[i]
           /\ InsertAt(s, r, x)[r] = x
           /\ \A i \in r .. Len(s) : InsertAt(s, r, x)[i + 1] = s[i]
<1> DEFINE N == Len(s)
           X == SubSeq(s, 1, q)
           Y == SubSeq(s, q + 1, N)
           O == <<x>>
           XO == X \o O
           Z == XO \o Y
<1>1. N \in Nat /\ q \in Nat /\ q <= N /\ \A i \in 1 .. N : s[i] \in S
    OBVIOUS
<1>2. X \in Seq(S) /\ Len(X) = q /\ \A i \in 1 .. q : X[i] = s[i]
    <2>1. \A i \in 1 .. q : s[i] \in S
        BY <1>1
    <2> QED BY <1>1, <2>1, SubSeqProperties
<1>3. Y \in Seq(S) /\ Len(Y) = N - q /\ \A i \in 1 .. N - q : Y[i] = s[q + i]
    <2>1. \A i \in q + 1 .. N : s[i] \in S
        BY <1>1
    <2>2. q + 1 \in Int /\ N \in Int
        BY <1>1
    <2> HIDE DEF N
    <2>3. /\ Y \in Seq(S)
          /\ Len(Y) = IF q + 1 <= N THEN (N - (q + 1)) + 1 ELSE 0
          /\ \A i \in 1 .. (N - (q + 1)) + 1 : Y[i] = s[((q + 1) + i) - 1]
        BY <2>1, <2>2, SubSeqProperties
    <2> HIDE DEF Y
    <2>4. (N - (q + 1)) + 1 = N - q /\ \A i \in 1 .. N - q : ((q + 1) + i) - 1 = q + i
        BY <1>1
    <2> QED BY <1>1, <2>3, <2>4
<1>4. O \in Seq(S) /\ Len(O) = 1 /\ O[1] = x
    OBVIOUS
<1>5. InsertAt(s, r, x) = Z
    <2>1. (q + 1) - 1 = q
        BY <1>1
    <2> QED BY <2>1 DEF InsertAt
<1> HIDE DEF N, X, Y, O
<1>6. /\ XO \in Seq(S) /\ Len(XO) = q + 1
      /\ \A i \in 1 .. q : XO[i] = s[i]
      /\ XO[q + 1] = x
    <2>1. /\ XO \in Seq(S) /\ Len(XO) = Len(X) + Len(O)
          /\ \A i \in 1 .. Len(X) + Len(O) : XO[i] = IF i <= Len(X) THEN X[i] ELSE O[i - Len(X)]
        BY <1>2, <1>4, ConcatProperties
    <2> HIDE DEF XO
    <2>2. q + 1 \in 1 .. q + 1 /\ ~(q + 1 <= q) /\ (q + 1) - q = 1
        BY <1>1
    <2>3. \A i \in 1 .. q : i \in 1 .. q + 1 /\ i <= q
        BY <1>1
    <2> QED BY <1>2, <1>4, <2>1, <2>2, <2>3
<1> HIDE DEF XO
<1>7. /\ Z \in Seq(S) /\ Len(Z) = N + 1
      /\ \A i \in 1 .. q + 1 : Z[i] = XO[i]
      /\ \A i \in 1 .. N - q : Z[(q + 1) + i] = s[q + i]
    <2>1. /\ Z \in Seq(S) /\ Len(Z) = Len(XO) + Len(Y)
          /\ \A i \in 1 .. Len(XO) + Len(Y) : Z[i] = IF i <= Len(XO) THEN XO[i] ELSE Y[i - Len(XO)]
        BY <1>3, <1>6, ConcatProperties
    <2> HIDE DEF Z
    <2>2. (q + 1) + (N - q) = N + 1
        BY <1>1
    <2>3. \A i \in 1 .. q + 1 : i \in 1 .. N + 1 /\ i <= q + 1
        BY <1>1
    <2>4. \A i \in 1 .. N - q : /\ (q + 1) + i \in 1 .. N + 1 /\ ~((q + 1) + i <= q + 1)
                                /\ ((q + 1) + i) - (q + 1) = i
        BY <1>1
    <2> QED BY <1>3, <1>6, <2>1, <2>2, <2>3, <2>4
<1> HIDE DEF Z
<1>8. \A i \in 1 .. q : Z[i] = s[i]
    BY <1>1, <1>6, <1>7
<1>9. Z[q + 1] = x
    BY <1>1, <1>6, <1>7
<1>10. ASSUME NEW i \in q + 1 .. N PROVE Z[i + 1] = s[i]
    <2>1. i - q \in 1 .. N - q /\ (q + 1) + (i - q) = i + 1 /\ q + (i - q) = i
        BY <1>1
    <2>2. Z[(q + 1) + (i - q)] = s[q + (i - q)]
        BY <1>7, <2>1
    <2> QED BY <2>1, <2>2
<1> QED BY <1>5, <1>7, <1>8, <1>9, <1>10 DEF N

LEMMA RemoveOf ==
    ASSUME NEW S, NEW s \in Seq(S), NEW q \in 1 .. Len(s)
    PROVE  /\ RemoveAt(s, q) \in Seq(S)
           /\ Len(RemoveAt(s, q)) = Len(s) - 1
           /\ \A i \in 1 .. q - 1 : RemoveAt(s, q)[i] = s[i]
           /\ \A i \in q + 1 .. Len(s) : RemoveAt(s, q)[i - 1] = s[i]
<1> DEFINE N == Len(s)
           r == q - 1
           X == SubSeq(s, 1, r)
           Y == SubSeq(s, q + 1, N)
           Z == X \o Y
<1>1. N \in Nat /\ q \in Nat /\ q >= 1 /\ q <= N /\ r \in Nat /\ q = r + 1 /\ \A i \in 1 .. N : s[i] \in S
    OBVIOUS
<1>2. X \in Seq(S) /\ Len(X) = r /\ \A i \in 1 .. r : X[i] = s[i]
    <2>1. \A i \in 1 .. r : s[i] \in S
        BY <1>1
    <2> HIDE DEF r
    <2> QED BY <1>1, <2>1, SubSeqProperties
<1>3. Y \in Seq(S) /\ Len(Y) = N - q /\ \A i \in 1 .. N - q : Y[i] = s[q + i]
    <2>1. \A i \in q + 1 .. N : s[i] \in S
        BY <1>1
    <2>2. q + 1 \in Int /\ N \in Int
        BY <1>1
    <2> HIDE DEF N
    <2>3. /\ Y \in Seq(S)
          /\ Len(Y) = IF q + 1 <= N THEN (N - (q + 1)) + 1 ELSE 0
          /\ \A i \in 1 .. (N - (q + 1)) + 1 : Y[i] = s[((q + 1) + i) - 1]
        BY <2>1, <2>2, SubSeqProperties
    <2> HIDE DEF Y
    <2>4. (N - (q + 1)) + 1 = N - q /\ \A i \in 1 .. N - q : ((q + 1) + i) - 1 = q + i
        BY <1>1
    <2> QED BY <1>1, <2>3, <2>4
<1>5. RemoveAt(s, q) = Z
    BY DEF RemoveAt
<1> HIDE DEF N, X, Y, r
<1>7. /\ Z \in Seq(S) /\ Len(Z) = N - 1
      /\ \A i \in 1 .. r : Z[i] = s[i]
      /\ \A i \in 1 .. N - q : Z[r + i] = s[q + i]
    <2>1. /\ Z \in Seq(S) /\ Len(Z) = Len(X) + Len(Y)
          /\ \A i \in 1 .. Len(X) + Len(Y) : Z[i] = IF i <= Len(X) THEN X[i] ELSE Y[i - Len(X)]
        BY <1>2, <1>3, ConcatProperties
    <2> HIDE DEF Z
    <2>2. r + (N - q) = N - 1
        BY <1>1
    <2>3. \A i \in 1 .. r : i \in 1 .. N - 1 /\ i <= r
        BY <1>1
    <2>4. \A i \in 1 .. N - q : r + i \in 1 .. N - 1 /\ ~(r + i <= r) /\ (r + i) - r = i
        BY <1>1
    <2>5. Len(X) + Len(Y) = N - 1
        BY <1>2, <1>3, <2>2
    <2>6. \A i \in 1 .. r : Z[i] = s[i]
        BY <1>2, <2>1, <2>3, <2>5
    <2>7. \A i \in 1 .. N - q : Z[r + i] = s[q + i]
        BY <1>2, <1>3, <2>1, <2>4, <2>5
    <2> QED BY <2>1, <2>5, <2>6, <2>7
<1> HIDE DEF Z
<1>10. ASSUME NEW i \in q + 1 .. N PROVE Z[i - 1] = s[i]
    <2>1. i - q \in 1 .. N - q /\ r + (i - q) = i - 1 /\ q + (i - q) = i
        BY <1>1
    <2>2. Z[r + (i - q)] = s[q + (i - q)]
        BY <1>7, <2>1
    <2> QED BY <2>1, <2>2
<1> QED BY <1>5, <1>7, <1>10 DEF N, r

\* The name n comes behind the first y names and before those behind z.
Fits(all, y, z, n) ==
    /\ \A i \in 1 .. y : all[i] < n
    /\ \A i \in z + 1 .. Len(all) : n < all[i]

\* When the names of part k become ns the names of the directory still ascend.
LEMMA SpliceOf ==
    ASSUME NEW c, NEW b, NEW all, Spread(c, b, all), Up(all), NEW k \in 1 .. Len(c),
           NEW ns \in Seq(Name), Up(ns),
           NEW u, NEW v, NEW g, NEW X, Replaced(c[k].names, ns, u, v, g, X),
           \A a \in 1 .. Len(ns) : \/ \E h \in 1 .. Len(c[k].names) : ns[a] = c[k].names[h]
                                   \/ Fits(all, b[k], b[k + 1], ns[a])
    PROVE  \E all0 : /\ Spliced(c, b, all, k, ns, all0)
                     /\ Up(all0)
                     /\ Replaced(all, all0, b[k] + u, b[k] + v, g, X)
<1> DEFINE y == b[k]
           z == b[k + 1]
           s == c[k].names
           m == Len(s)
           n == Len(ns)
           N == Len(all)
<1>1. /\ y \in Nat /\ m \in Nat /\ z = y + m /\ z <= N /\ N \in Nat
      /\ \A a \in 1 .. m : all[y + a] = s[a]
    BY PlacesOf
<1>2. n \in Nat /\ \A a \in 1 .. n : ns[a] \in Name /\ ns[a] \in Nat
    BY ConstantsAssumption
<1>3. all \in Seq(Name) /\ \A i \in 1 .. N : all[i] \in Name /\ all[i] \in Nat
    <2>1. all \in Seq(Name)
        BY DEF Spread
    <2> HIDE DEF Spread, y, z, s, m, n
    <2>2. \A i \in 1 .. N : all[i] \in Name
        BY <2>1
    <2> QED BY <2>1, <2>2, ConstantsAssumption
<1>4. /\ u \in Nat /\ v \in Nat /\ u <= v /\ v <= m /\ g \in Int /\ u <= v + g /\ n = m + g
    BY DEF Replaced
<1>5. ASSUME NEW a \in 1 .. n PROVE Fits(all, y, z, ns[a])
    <2>1. SUFFICES ASSUME NEW h \in 1 .. m, ns[a] = s[h] PROVE Fits(all, y, z, ns[a])
        OBVIOUS
    <2> HIDE DEF y, z, s, m, n, N
    <2>2. ns[a] = all[y + h] /\ y + h \in 1 .. N
        BY <1>1, <2>1
    <2>3. \A i \in 1 .. y : i \in 1 .. N /\ i < y + h
        BY <1>1, <2>1
    <2>4. \A i \in z + 1 .. N : i \in 1 .. N /\ y + h < i
        BY <1>1, <2>1
    <2> QED BY <2>2, <2>3, <2>4 DEF Up, Fits, N
<1> DEFINE all0 == [i \in 1 .. N + g |-> IF i <= y THEN all[i]
                                         ELSE IF i <= y + n THEN ns[i - y] ELSE all[i - g]]
<1> HIDE DEF y, z, s, m, n, N
<1>6. N + g \in Nat
    BY <1>1, <1>2, <1>4
<1>7. all0 \in Seq(Name) /\ Len(all0) = N + g
    <2>1. ASSUME NEW i \in 1 .. N + g
          PROVE  (IF i <= y THEN all[i] ELSE IF i <= y + n THEN ns[i - y] ELSE all[i - g]) \in Name
        <3>1. i <= y => i \in 1 .. N
            BY <1>1
        <3>2. ~(i <= y) /\ i <= y + n => i - y \in 1 .. n
            BY <1>1, <1>2
        <3>3. ~(i <= y + n) => i - g \in 1 .. N
            BY <1>1, <1>2, <1>4
        <3> QED BY <1>2, <1>3, <3>1, <3>2, <3>3
    <2> QED BY <1>6, <2>1
<1>8. /\ \A i \in 1 .. y : all0[i] = all[i]
      /\ \A a \in 1 .. n : all0[y + a] = ns[a]
      /\ \A i \in z + 1 .. N : all0[i + g] = all[i]
    <2>1. \A i \in 1 .. y : i \in 1 .. N + g /\ i <= y
        BY <1>1, <1>2, <1>4
    <2>2. \A a \in 1 .. n : y + a \in 1 .. N + g /\ ~(y + a <= y) /\ y + a <= y + n /\ (y + a) - y = a
        BY <1>1, <1>2, <1>4
    <2>3. \A i \in z + 1 .. N : i + g \in 1 .. N + g /\ ~(i + g <= y) /\ ~(i + g <= y + n) /\ (i + g) - g = i
        BY <1>1, <1>2, <1>4
    <2>4. \A i \in 1 .. y : all0[i] = all[i]
        BY <2>1
    <2>5. \A a \in 1 .. n : all0[y + a] = ns[a]
        BY <2>2
    <2>6. \A i \in z + 1 .. N : all0[i + g] = all[i]
        BY <2>3
    <2> QED BY <2>4, <2>5, <2>6
<1> HIDE DEF all0
<1>9. ASSUME NEW i \in 1 .. N + g
      PROVE  \/ i \in 1 .. y
             \/ \E a \in 1 .. n : i = y + a
             \/ \E h \in z + 1 .. N : i = h + g
    <2>1. CASE i <= y
        BY <1>1, <2>1
    <2>2. CASE ~(i <= y) /\ i <= y + n
        <3>1. i - y \in 1 .. n /\ i = y + (i - y)
            BY <1>1, <1>2, <2>2
        <3> QED BY <3>1
    <2>3. CASE ~(i <= y + n)
        <3>1. i - g \in z + 1 .. N /\ i = (i - g) + g
            BY <1>1, <1>2, <1>4, <2>3
        <3> QED BY <3>1
    <2> QED BY <1>1, <1>2, <2>1, <2>2, <2>3
<1>10. Spliced(c, b, all, k, ns, all0)
    <2>1. Len(all0) = (N + n) - m
        BY <1>1, <1>2, <1>4, <1>7
    <2>2. ASSUME NEW i \in 1 .. N, i > z PROVE all0[(i + n) - m] = all[i]
        <3>1. i \in z + 1 .. N /\ (i + n) - m = i + g
            BY <1>1, <1>2, <1>4, <2>2
        <3> QED BY <1>8, <3>1
    <2> QED BY <1>7, <1>8, <2>1, <2>2 DEF Spliced, y, z, s, m, n, N
<1>11. Up(all0)
    <2>1. SUFFICES ASSUME NEW i \in 1 .. N + g, NEW j \in 1 .. N + g, i < j
                   PROVE  all0[i] < all0[j]
        BY <1>7 DEF Up
    <2>2. \A h, o \in 1 .. N : h < o => all[h] < all[o]
        BY DEF Up, N
    <2>3. \A h, o \in 1 .. n : h < o => ns[h] < ns[o]
        BY DEF Up, n
    <2>4. \A a \in 1 .. n : (\A h \in 1 .. y : all[h] < ns[a]) /\ (\A h \in z + 1 .. N : ns[a] < all[h])
        BY <1>5 DEF Fits, N
    <2>5. CASE i \in 1 .. y
        <3>1. i \in 1 .. N
            BY <1>1, <2>5
        <3>2. CASE j \in 1 .. y
            <4>1. j \in 1 .. N
                BY <1>1, <3>2
            <4> QED BY <1>8, <2>1, <2>2, <2>5, <3>1, <3>2, <4>1
        <3>3. CASE \E a \in 1 .. n : j = y + a
            BY <1>8, <2>4, <2>5, <3>3
        <3>4. ASSUME NEW h \in z + 1 .. N, j = h + g PROVE all0[i] < all0[j]
            <4>1. h \in 1 .. N /\ i < h
                BY <1>1, <2>5
            <4> QED BY <1>8, <2>2, <2>5, <3>1, <3>4, <4>1
        <3> QED BY <1>9, <3>2, <3>3, <3>4
    <2>6. ASSUME NEW a \in 1 .. n, i = y + a PROVE all0[i] < all0[j]
        <3>1. ~(j \in 1 .. y)
            BY <1>1, <2>1, <2>6
        <3>2. ASSUME NEW h \in 1 .. n, j = y + h PROVE all0[i] < all0[j]
            <4>1. a < h
                BY <1>1, <2>1, <2>6, <3>2
            <4> QED BY <1>8, <2>3, <2>6, <3>2, <4>1
        <3>3. ASSUME NEW h \in z + 1 .. N, j = h + g PROVE all0[i] < all0[j]
            BY <1>8, <2>4, <2>6, <3>3
        <3> QED BY <1>9, <3>1, <3>2, <3>3
    <2>7. ASSUME NEW o \in z + 1 .. N, i = o + g PROVE all0[i] < all0[j]
        <3>1. ~(j \in 1 .. y)
            BY <1>1, <1>2, <1>4, <2>1, <2>7
        <3>2. ~\E h \in 1 .. n : j = y + h
            BY <1>1, <1>2, <1>4, <2>1, <2>7
        <3>3. ASSUME NEW h \in z + 1 .. N, j = h + g PROVE all0[i] < all0[j]
            <4>1. o < h /\ o \in 1 .. N /\ h \in 1 .. N
                BY <1>1, <1>4, <2>1, <2>7, <3>3
            <4> QED BY <1>8, <2>2, <2>7, <3>3, <4>1
        <3> QED BY <1>9, <3>1, <3>2, <3>3
    <2> QED BY <1>9, <2>5, <2>6, <2>7
<1>12. Replaced(all, all0, y + u, y + v, g, X)
    <2>1. /\ y + u \in Nat /\ y + v \in Nat /\ y + u <= y + v /\ y + v <= N /\ y + u <= (y + v) + g
          /\ Len(all0) = N + g
        BY SMTT(60), <1>1, <1>2, <1>4, <1>7
    <2>2. /\ \A a \in 1 .. u : ns[a] = s[a]
          /\ \A a \in v + 1 .. m : ns[a + g] = s[a]
          /\ \A a \in u + 1 .. v : s[a] \in X \/ \E h \in u + 1 .. v + g : ns[h] = s[a]
          /\ \A h \in u + 1 .. v + g : ns[h] \in X \/ \E a \in u + 1 .. v : s[a] = ns[h]
        BY DEF Replaced, s, m
    <2>3. ASSUME NEW i \in 1 .. y + u PROVE all0[i] = all[i]
        <3>1. CASE i \in 1 .. y
            BY <1>8, <3>1
        <3>2. CASE ~(i \in 1 .. y)
            <4> DEFINE a == i - y
            <4>1. a \in 1 .. u /\ a \in 1 .. m /\ a \in 1 .. n /\ i = y + a
                BY <1>1, <1>2, <1>4, <3>2
            <4> HIDE DEF a
            <4> QED BY <1>1, <1>8, <2>2, <4>1
        <3> QED BY <3>1, <3>2
    <2>4. ASSUME NEW i \in (y + v) + 1 .. N PROVE all0[i + g] = all[i]
        <3>1. CASE i \in z + 1 .. N
            BY <1>8, <3>1
        <3>2. CASE ~(i \in z + 1 .. N)
            <4> DEFINE a == i - y
            <4>1. a \in v + 1 .. m /\ a \in 1 .. m /\ a + g \in 1 .. n /\ i = y + a /\ i + g = y + (a + g)
                BY <1>1, <1>2, <1>4, <3>2
            <4> HIDE DEF a
            <4> QED BY <1>1, <1>8, <2>2, <4>1
        <3> QED BY <3>1, <3>2
    <2>5. ASSUME NEW i \in (y + u) + 1 .. y + v
          PROVE  all[i] \in X \/ \E h \in (y + u) + 1 .. (y + v) + g : all0[h] = all[i]
        <3> DEFINE a == i - y
        <3>1. a \in u + 1 .. v /\ a \in 1 .. m /\ i = y + a
            BY <1>1, <1>2, <1>4
        <3> HIDE DEF a
        <3>2. all[i] = s[a]
            BY <1>1, <3>1
        <3>3. ASSUME NEW h \in u + 1 .. v + g, ns[h] = s[a]
              PROVE  \E o \in (y + u) + 1 .. (y + v) + g : all0[o] = all[i]
            <4>1. h \in 1 .. n /\ y + h \in (y + u) + 1 .. (y + v) + g
                BY <1>1, <1>2, <1>4
            <4>2. all0[y + h] = all[i]
                BY <1>8, <3>2, <3>3, <4>1
            <4> QED BY <4>1, <4>2
        <3> QED BY <2>2, <3>1, <3>2, <3>3
    <2>6. ASSUME NEW i \in (y + u) + 1 .. (y + v) + g
          PROVE  all0[i] \in X \/ \E h \in (y + u) + 1 .. y + v : all[h] = all0[i]
        <3> DEFINE a == i - y
        <3>1. a \in u + 1 .. v + g /\ a \in 1 .. n /\ i = y + a
            BY <1>1, <1>2, <1>4
        <3> HIDE DEF a
        <3>2. all0[i] = ns[a]
            BY <1>8, <3>1
        <3>3. ASSUME NEW h \in u + 1 .. v, s[h] = ns[a]
              PROVE  \E o \in (y + u) + 1 .. y + v : all[o] = all0[i]
            <4>1. h \in 1 .. m /\ y + h \in (y + u) + 1 .. y + v
                BY <1>1, <1>2, <1>4
            <4>2. all[y + h] = all0[i]
                BY <1>1, <3>2, <3>3, <4>1
            <4> QED BY <4>1, <4>2
        <3> QED BY <2>2, <3>1, <3>2, <3>3
    <2> QED BY <1>4, <2>1, <2>3, <2>4, <2>5, <2>6 DEF Replaced, N
<1> QED BY <1>10, <1>11, <1>12 DEF y

-----------------------------------------------------------------------------
(* Commits that create and delete.                                            *)

LEMMA NatNames ==
    ASSUME NEW s \in Seq(Name)
    PROVE  /\ Len(s) \in Nat /\ DOMAIN s = 1 .. Len(s)
           /\ \A i \in 1 .. Len(s) : s[i] \in Name /\ s[i] \in Nat
<1>1. Len(s) \in Nat /\ DOMAIN s = 1 .. Len(s) /\ \A i \in 1 .. Len(s) : s[i] \in Name
    OBVIOUS
<1> QED BY <1>1, ConstantsAssumption

LEMMA UpPart ==
    ASSUME NEW c, NEW b, NEW all, Spread(c, b, all), Up(all), NEW k \in 1 .. Len(c)
    PROVE  Up(c[k].names) /\ c[k].names \in Seq(Name)
<1>1. /\ b[k] \in Nat /\ Len(c[k].names) \in Nat /\ b[k + 1] = b[k] + Len(c[k].names)
      /\ b[k + 1] <= Len(all) /\ Len(all) \in Nat
    BY PlacesOf
<1>2. \A a \in 1 .. Len(c[k].names) : all[b[k] + a] = c[k].names[a]
    BY PlacesOf
<1>3. ASSUME NEW i \in 1 .. Len(c[k].names), NEW j \in 1 .. Len(c[k].names), i < j
      PROVE  c[k].names[i] < c[k].names[j]
    <2>1. b[k] + i \in 1 .. Len(all) /\ b[k] + j \in 1 .. Len(all) /\ b[k] + i < b[k] + j
        BY SMTT(60), <1>1, <1>3
    <2>2. all[b[k] + i] < all[b[k] + j]
        BY <2>1 DEF Up
    <2> QED BY <1>2, <2>2
<1>4. c[k].names \in Seq(Name)
    BY PartsOf DEF Spread
<1> QED BY <1>3, <1>4 DEF Up

\* A name that comes between its neighbours.
LEMMA UpInsert ==
    ASSUME NEW s \in Seq(Name), Up(s), NEW q \in 0 .. Len(s), NEW n \in Name, Fits(s, q, q, n)
    PROVE  /\ Up(InsertAt(s, q + 1, n))
           /\ Replaced(s, InsertAt(s, q + 1, n), q, q, 1, {n})
<1> DEFINE t == InsertAt(s, q + 1, n)
           N == Len(s)
           r == q + 1
<1>1. /\ t \in Seq(Name) /\ Len(t) = N + 1
      /\ \A i \in 1 .. q : t[i] = s[i]
      /\ t[q + 1] = n
      /\ \A i \in q + 1 .. N : t[i + 1] = s[i]
    <2>0. r = q + 1
        OBVIOUS
    <2> HIDE DEF N, r
    <2>1. InsertAt(s, r, n) \in Seq(Name) /\ Len(InsertAt(s, r, n)) = Len(s) + 1
        BY <2>0, InsertOf
    <2>2. \A i \in 1 .. q : InsertAt(s, r, n)[i] = s[i]
        BY <2>0, InsertOf
    <2>3. InsertAt(s, r, n)[r] = n
        BY <2>0, InsertOf
    <2>4. \A i \in r .. Len(s) : InsertAt(s, r, n)[i + 1] = s[i]
        BY <2>0, InsertOf
    <2> QED BY <2>1, <2>2, <2>3, <2>4 DEF N, r
<1>2. N \in Nat /\ q \in Nat /\ q <= N /\ n \in Nat
    BY ConstantsAssumption
<1>3. \A i, j \in 1 .. N : i < j => s[i] < s[j]
    BY DEF Up
<1>4. (\A i \in 1 .. q : s[i] < n) /\ (\A i \in q + 1 .. N : n < s[i])
    BY DEF Fits
<1> HIDE DEF t, N
<1>5. ASSUME NEW i \in 1 .. N + 1
      PROVE  i \in 1 .. q \/ i = q + 1 \/ \E h \in q + 1 .. N : i = h + 1
    <2>1. i > q + 1 => i - 1 \in q + 1 .. N /\ i = (i - 1) + 1
        BY <1>2
    <2> QED BY <1>2, <2>1
<1>6. ASSUME NEW i \in 1 .. N + 1, NEW j \in 1 .. N + 1, i < j PROVE t[i] < t[j]
    <2>1. CASE i \in 1 .. q
        <3>1. j \in 1 .. q => t[i] < t[j]
            BY <1>1, <1>2, <1>3, <1>6, <2>1
        <3>2. j = q + 1 => t[i] < t[j]
            BY <1>1, <1>4, <2>1
        <3>3. ASSUME NEW h \in q + 1 .. N, j = h + 1 PROVE t[i] < t[j]
            <4>1. i \in 1 .. N /\ h \in 1 .. N /\ i < h
                BY <1>2, <2>1
            <4>2. t[i] = s[i] /\ t[h + 1] = s[h]
                BY <1>1, <2>1
            <4>3. s[i] < s[h]
                BY <1>3, <4>1
            <4> QED BY <3>3, <4>2, <4>3
        <3> QED BY <1>5, <3>1, <3>2, <3>3
    <2>2. CASE i = q + 1
        <3>1. ~(j \in 1 .. q) /\ j # q + 1
            BY <1>2, <1>6, <2>2
        <3>2. ASSUME NEW h \in q + 1 .. N, j = h + 1 PROVE t[i] < t[j]
            BY <1>1, <1>4, <2>2, <3>2
        <3> QED BY <1>5, <3>1, <3>2
    <2>3. ASSUME NEW o \in q + 1 .. N, i = o + 1 PROVE t[i] < t[j]
        <3>1. ~(j \in 1 .. q) /\ j # q + 1
            BY <1>2, <1>6, <2>3
        <3>2. ASSUME NEW h \in q + 1 .. N, j = h + 1 PROVE t[i] < t[j]
            <4>1. o < h /\ o \in 1 .. N /\ h \in 1 .. N
                BY <1>2, <1>6, <2>3, <3>2
            <4> QED BY <1>1, <1>3, <2>3, <3>2, <4>1
        <3> QED BY <1>5, <3>1, <3>2
    <2> QED BY <1>5, <2>1, <2>2, <2>3
<1>7. Up(t)
    BY <1>1, <1>6 DEF Up
<1>8. Replaced(s, t, q, q, 1, {n})
    <2>1. \A h \in q + 1 .. q + 1 : h = q + 1
        BY <1>2
    <2>2. \A i \in q + 1 .. q : FALSE
        BY <1>2
    <2> QED BY <1>1, <1>2, <2>1, <2>2 DEF Replaced, N
<1> QED BY <1>7, <1>8 DEF t

LEMMA UpRemove ==
    ASSUME NEW s \in Seq(Name), Up(s), NEW q \in 0 .. Len(s), q < Len(s)
    PROVE  /\ RemoveAt(s, q + 1) \in Seq(Name) /\ Len(RemoveAt(s, q + 1)) = Len(s) - 1
           /\ Up(RemoveAt(s, q + 1))
           /\ Replaced(s, RemoveAt(s, q + 1), q, q + 1, 0 - 1, {s[q + 1]})
           /\ \A i \in 1 .. Len(s) - 1 : \E h \in 1 .. Len(s) : RemoveAt(s, q + 1)[i] = s[h]
<1> DEFINE t == RemoveAt(s, q + 1)
           N == Len(s)
           r == q + 1
<1>1. N \in Nat /\ q \in Nat /\ q < N /\ r \in 1 .. N /\ r - 1 = q
    OBVIOUS
<1>2. /\ t \in Seq(Name) /\ Len(t) = N - 1
      /\ \A i \in 1 .. q : t[i] = s[i]
      /\ \A i \in r + 1 .. N : t[i - 1] = s[i]
    <2> HIDE DEF r, N
    <2>1. /\ RemoveAt(s, r) \in Seq(Name) /\ Len(RemoveAt(s, r)) = N - 1
          /\ \A i \in 1 .. r - 1 : RemoveAt(s, r)[i] = s[i]
          /\ \A i \in r + 1 .. N : RemoveAt(s, r)[i - 1] = s[i]
        BY <1>1, RemoveOf DEF N
    <2> QED BY <1>1, <2>1 DEF r
<1>3. \A i, j \in 1 .. N : i < j => s[i] < s[j]
    BY DEF Up
<1> HIDE DEF t, N
<1>4. ASSUME NEW i \in 1 .. N - 1
      PROVE  \E h \in 1 .. N : t[i] = s[h] /\ ((i <= q /\ h = i) \/ (i > q /\ h = i + 1))
    <2>1. CASE i <= q
        <3>1. i \in 1 .. q /\ i \in 1 .. N
            BY <1>1, <2>1
        <3> QED BY <1>2, <2>1, <3>1
    <2>2. CASE i > q
        <3>1. i + 1 \in r + 1 .. N /\ i + 1 \in 1 .. N /\ (i + 1) - 1 = i
            BY <1>1, <2>2
        <3>2. t[(i + 1) - 1] = s[i + 1]
            BY <1>2, <3>1
        <3> QED BY <2>2, <3>1, <3>2
    <2> QED BY <1>1, <2>1, <2>2
<1>5. ASSUME NEW i \in 1 .. N - 1, NEW j \in 1 .. N - 1, i < j PROVE t[i] < t[j]
    <2>1. PICK h \in 1 .. N : t[i] = s[h] /\ ((i <= q /\ h = i) \/ (i > q /\ h = i + 1))
        BY <1>4
    <2>2. PICK o \in 1 .. N : t[j] = s[o] /\ ((j <= q /\ o = j) \/ (j > q /\ o = j + 1))
        BY <1>4
    <2>3. h < o
        BY <1>1, <1>5, <2>1, <2>2
    <2> QED BY <1>3, <2>1, <2>2, <2>3
<1>6. Up(t)
    BY <1>2, <1>5 DEF Up
<1>7. Replaced(s, t, q, q + 1, 0 - 1, {s[q + 1]})
    <2>1. \A i \in r + 1 .. N : i + (0 - 1) = i - 1
        OBVIOUS
    <2>2. \A i \in q + 1 .. q + 1 : s[i] \in {s[q + 1]}
        BY <1>1
    <2>3. \A i \in q + 1 .. (q + 1) + (0 - 1) : FALSE
        BY <1>1
    <2>4. \A i \in (q + 1) + 1 .. N : t[i + (0 - 1)] = s[i]
        BY <1>2, <2>1
    <2>5. Len(t) = N + (0 - 1) /\ q <= (q + 1) + (0 - 1) /\ (q + 1) \in Nat /\ q + 1 <= N /\ (0 - 1) \in Int
        BY <1>1, <1>2
    <2> QED BY <1>1, <1>2, <2>2, <2>3, <2>4, <2>5 DEF Replaced, N
<1> QED BY <1>2, <1>4, <1>6, <1>7 DEF t, N

\* What a commit to part k of the names ns relies on, said of the part: u of its names stay
\* as they are, and those behind v.
Apt(c, b, all, k, l, ns, del, cre, owner, g, D, D0, u, v, X) ==
    /\ Spread(c, b, all) /\ Up(all) /\ k \in 1 .. Len(c)
    /\ l \in Seq(HandleSet)
    /\ \A i \in 1 .. Len(l) : Held(c, l[i], k) /\ (i # owner => Good(c, b, all, D, k, l[i]))
    /\ ns \in Seq(Name) /\ Up(ns) /\ (k > 1 => Len(ns) >= 1)
    /\ \A a \in 1 .. Len(ns) : \/ \E h \in 1 .. Len(c[k].names) : ns[a] = c[k].names[h]
                               \/ Fits(all, b[k], b[k + 1], ns[a])
    /\ del \in Nat /\ cre \in Nat /\ owner \in 0 .. Len(l)
    /\ owner # 0 => In(c, l[owner], k, k) /\ l[owner].id # del /\ l[owner].id <= del
    /\ g = Len(ns) - Len(c[k].names)
    /\ Replaced(c[k].names, ns, u, v, g, X)
    /\ \A y \in X : y \in D \/ y \notin First(all, Len(all))
    /\ D0 \subseteq D
    /\ \A y \in D \ D0 : y \notin First(all, Len(all)) \/ \E i \in u + 1 .. v : y = c[k].names[i]
    /\ Drops(del, cre) /\ del < Len(c[k].names) => c[k].names[del + 1] \in D
    /\ \A i \in 1 .. Len(l) :
          \/ Slides(0, Len(c[k].names), del, cre, i, owner, u, v, g)
          \/ i = owner /\ g >= 0 /\ \A id \in Nat : Shifted(id, del, cre, i, owner) <= id

\* ... and what it leads to.
Changed(c, b, all, k, l, del, cre, owner, g, D0, u, v, X, R, B, p, e, all0) ==
    /\ Spread(R.chain, B, all0) /\ Up(all0)
    /\ Rebuilt(c, b, R.chain, B, k, p, e, g)
    /\ Replaced(all, all0, b[k] + u, b[k] + v, g, X)
    /\ R.mlist \in Seq(HandleSet) /\ Len(R.mlist) = Len(l)
    /\ \A i \in 1 .. Len(l) :
          /\ Landed(c, b, R.chain, B, k, g, del, cre, i, owner, l[i], R.mlist[i])
          /\ i # owner => Good(R.chain, B, all0, D0, 0, R.mlist[i])

LEMMA SlidesUp ==
    ASSUME NEW y \in Nat, NEW n \in Nat, NEW del \in Nat, NEW cre \in Nat, NEW i, NEW owner,
           NEW u \in Nat, NEW v \in Nat, NEW g \in Int,
           Slides(0, n, del, cre, i, owner, u, v, g)
    PROVE  Slides(y, n, del, cre, i, owner, y + u, y + v, g)
<1>1. SUFFICES ASSUME NEW id \in 0 .. n, Keeps(id, del, cre)
               PROVE  \/ y + id < y + u /\ y + Shifted(id, del, cre, i, owner) = y + id
                      \/ /\ y + id >= y + v
                         /\ y + Shifted(id, del, cre, i, owner) = (y + id) + g
    BY DEF Slides
<1>2. \/ 0 + id < u /\ 0 + Shifted(id, del, cre, i, owner) = 0 + id
      \/ 0 + id >= v /\ 0 + Shifted(id, del, cre, i, owner) = (0 + id) + g
    BY <1>1 DEF Slides
<1>3. Shifted(id, del, cre, i, owner) \in Int
    BY DEF Shifted
<1> QED BY <1>2, <1>3

LEMMA ChangeOf ==
    ASSUME Risks = {},
           NEW c, NEW b, NEW all, NEW k, NEW l, NEW ns, NEW del, NEW cre, NEW owner,
           NEW g, NEW D, NEW D0, NEW u, NEW v, NEW X,
           Apt(c, b, all, k, l, ns, del, cre, owner, g, D, D0, u, v, X),
           NEW may, may \subseteq BOOLEAN,
           NEW R \in Committed(State(c, l), k, ns, del, cre, owner, may)
    PROVE  \E B, p, e, all0 :
              Changed(c, b, all, k, l, del, cre, owner, g, D0, u, v, X, R, B, p, e, all0)
<1>1. /\ Spread(c, b, all) /\ Up(all) /\ k \in 1 .. Len(c)
      /\ l \in Seq(HandleSet)
      /\ \A i \in 1 .. Len(l) : Held(c, l[i], k) /\ (i # owner => Good(c, b, all, D, k, l[i]))
      /\ ns \in Seq(Name) /\ Up(ns) /\ (k > 1 => Len(ns) >= 1)
      /\ \A a \in 1 .. Len(ns) : \/ \E h \in 1 .. Len(c[k].names) : ns[a] = c[k].names[h]
                                 \/ Fits(all, b[k], b[k + 1], ns[a])
      /\ del \in Nat /\ cre \in Nat /\ owner \in 0 .. Len(l)
      /\ owner # 0 => In(c, l[owner], k, k) /\ l[owner].id # del /\ l[owner].id <= del
      /\ g = Len(ns) - Len(c[k].names)
      /\ Replaced(c[k].names, ns, u, v, g, X)
      /\ Drops(del, cre) /\ del < Len(c[k].names) => c[k].names[del + 1] \in D
    BY DEF Apt
<1>2. /\ b[k] \in Nat /\ Len(c[k].names) \in Nat /\ b[k + 1] = b[k] + Len(c[k].names)
      /\ Len(all) \in Nat
    BY SMTT(60), <1>1, PlacesOf
<1>3. \A a \in 1 .. Len(c[k].names) : all[b[k] + a] = c[k].names[a]
    BY <1>1, PlacesOf
<1>4. /\ u \in Nat /\ v \in Nat /\ u <= v /\ v <= Len(c[k].names) /\ g \in Int
    BY <1>1 DEF Replaced
<1>5. PICK all0 : /\ Spliced(c, b, all, k, ns, all0)
                  /\ Up(all0)
                  /\ Replaced(all, all0, b[k] + u, b[k] + v, g, X)
    BY <1>1, SpliceOf
<1> DEFINE y == b[k]
           n == Len(c[k].names)
           U == y + u
           V == y + v
<1>6. Renews(c, b, all, all0, k, U, V, g, X, D, D0)
    <2>1. b[k] <= U /\ V <= b[k + 1]
        BY <1>2, <1>4
    <2>2. ASSUME NEW i \in u + 1 .. v PROVE y + i \in U + 1 .. V /\ all[y + i] = c[k].names[i]
        <3>1. i \in 1 .. Len(c[k].names) /\ y + i \in U + 1 .. V
            <4> HIDE DEF y
            <4>1. y \in Nat
                BY <1>2 DEF y
            <4> QED BY <1>2, <1>4, <4>1
        <3> QED BY <1>3, <3>1
    <2>3. /\ \A z \in X : z \in D \/ z \notin First(all, Len(all))
          /\ D0 \subseteq D
          /\ \A z \in D \ D0 : z \notin First(all, Len(all)) \/ \E i \in u + 1 .. v : z = c[k].names[i]
        BY DEF Apt
    <2> HIDE DEF U, V, y
    <2>4. \A z \in D \ D0 : z \notin First(all, Len(all)) \/ \E i \in U + 1 .. V : z = all[i]
        BY <2>2, <2>3
    <2>5. Replaced(all, all0, U, V, g, X)
        BY <1>5 DEF U, V, y
    <2> QED BY <2>1, <2>3, <2>4, <2>5 DEF Renews
<1>7. ASSUME NEW i \in 1 .. Len(l)
      PROVE  \/ Slides(y, n, del, cre, i, owner, U, V, g)
             \/ i = owner /\ g >= 0 /\ \A id \in Nat : Shifted(id, del, cre, i, owner) <= id
    <2>1. \/ Slides(0, n, del, cre, i, owner, u, v, g)
          \/ i = owner /\ g >= 0 /\ \A id \in Nat : Shifted(id, del, cre, i, owner) <= id
        BY DEF Apt
    <2>2. y \in Nat /\ n \in Nat
        BY <1>2
    <2> HIDE DEF y, n
    <2> QED BY <1>1, <1>4, <2>1, <2>2, SlidesUp
<1> HIDE DEF U, V
<1>8. Ready(c, b, all, k, l, ns, all0, del, cre, owner, g, D, D0, U, V, X)
    BY <1>1, <1>5, <1>6, <1>7 DEF Ready
<1>9. PICK B, p, e : Done(c, b, all, k, l, all0, del, cre, owner, g, D, D0, U, V, R, B, p, e)
    BY <1>8, CommitGood
<1>10. ASSUME NEW i \in 1 .. Len(l), i # owner
       PROVE  Good(R.chain, B, all0, D0, 0, R.mlist[i])
    <2>1. Slides(b[k], Len(c[k].names), del, cre, i, owner, U, V, g) /\ Good(c, b, all, D, k, l[i])
        BY <1>1, <1>7, <1>10
    <2> QED BY <1>9, <2>1 DEF Done
<1> QED BY <1>5, <1>9, <1>10 DEF Done, Changed

\* The handles that are good make a world, if one is.
Made(R, B, p, e, c, b, all, k, l, all0, D, u, v, g, X) ==
    /\ World(R.chain, B, all0, D, 0, R.mlist)
    /\ Rebuilt(c, b, R.chain, B, k, p, e, g)
    /\ Replaced(all, all0, b[k] + u, b[k] + v, g, X)
    /\ Len(R.mlist) = Len(l)
    /\ \A i \in 1 .. Len(l) : Same(R.mlist[i], l[i])

\* The entry x is created at place id of part k, by handle `owner` (0: by none).
Creates(c, b, all, D, k, l, id, x, owner) ==
    /\ Spread(c, b, all) /\ Up(all) /\ k \in 1 .. Len(c)
    /\ l \in Seq(HandleSet)
    /\ \A i \in 1 .. Len(l) : Held(c, l[i], k) /\ (i # owner => Good(c, b, all, D, k, l[i]))
    /\ id \in 0 .. Len(c[k].names)
    /\ x \in Name /\ x \notin First(all, Len(all))
    /\ Fits(all, b[k] + id, b[k] + id, x)
    /\ owner \in 0 .. Len(l)
    /\ owner # 0 => /\ In(c, l[owner], k, k) /\ l[owner].id = id
                    /\ l[owner] \in FileHandles
                    /\ l[owner].name = x /\ ~l[owner].gone /\ x \notin D

LEMMA CreateOf ==
    ASSUME Risks = {},
           NEW c, NEW b, NEW all, NEW D, NEW k, NEW l, NEW id, NEW x, NEW owner,
           Creates(c, b, all, D, k, l, id, x, owner),
           NEW may, may \subseteq BOOLEAN,
           NEW R \in Committed(State(c, l), k, InsertAt(c[k].names, id + 1, x),
                               None, id, owner, may)
    PROVE  \E B, p, e, all0 : Made(R, B, p, e, c, b, all, k, l, all0, D, id, id, 1, {x})
<1>1. /\ Spread(c, b, all) /\ Up(all) /\ k \in 1 .. Len(c)
      /\ l \in Seq(HandleSet)
      /\ \A i \in 1 .. Len(l) : Held(c, l[i], k) /\ (i # owner => Good(c, b, all, D, k, l[i]))
      /\ id \in 0 .. Len(c[k].names)
      /\ x \in Name /\ x \notin First(all, Len(all))
      /\ Fits(all, b[k] + id, b[k] + id, x)
      /\ owner \in 0 .. Len(l)
      /\ owner # 0 => /\ In(c, l[owner], k, k) /\ l[owner].id = id
                      /\ l[owner] \in FileHandles
                      /\ l[owner].name = x /\ ~l[owner].gone /\ x \notin D
    BY DEF Creates
<1> DEFINE s == c[k].names
           n == Len(s)
           y == b[k]
           z == b[k + 1]
           N == Len(all)
           ns == InsertAt(s, id + 1, x)
           X == {x}
<1>2. y \in Nat /\ n \in Nat /\ z = y + n /\ z <= N /\ N \in Nat
    BY <1>1, PlacesOf
<1>3. \A a \in 1 .. n : all[y + a] = s[a]
    BY <1>1, PlacesOf
<1>4. s \in Seq(Name) /\ Up(s)
    BY <1>1, UpPart
<1>5. id \in Nat /\ id <= n /\ n < None /\ None \in Nat /\ id < None
    <2>1. y + n < None /\ id \in 0 .. n
        BY <1>1, FewNames
    <2> HIDE DEF y, n
    <2> QED BY <1>2, <2>1 DEF None
<1>6. Fits(s, id, id, x) /\ Fits(all, y, z, x)
    <2>1. Fits(all, y + id, y + id, x)
        BY <1>1
    <2> HIDE DEF y, z, s, n, N
    <2>2. /\ \A i \in 1 .. y + id : all[i] < x
          /\ \A i \in (y + id) + 1 .. N : x < all[i]
        BY <2>1 DEF Fits, N
    <2>3. ASSUME NEW i \in 1 .. id PROVE s[i] < x
        <3>1. i \in 1 .. n /\ y + i \in 1 .. y + id
            BY <1>2, <1>5
        <3> QED BY <1>3, <2>2, <3>1
    <2>4. ASSUME NEW i \in id + 1 .. n PROVE x < s[i]
        <3>1. i \in 1 .. n /\ y + i \in (y + id) + 1 .. N
            BY <1>2, <1>5
        <3> QED BY <1>3, <2>2, <3>1
    <2>5. \A i \in 1 .. y : i \in 1 .. y + id
        BY <1>2, <1>5
    <2>6. \A i \in z + 1 .. N : i \in (y + id) + 1 .. N
        BY <1>2, <1>5
    <2> QED BY <2>2, <2>3, <2>4, <2>5, <2>6 DEF Fits, n, N
<1>7. /\ ns \in Seq(Name) /\ Len(ns) = n + 1
      /\ \A i \in 1 .. Len(ns) : \/ \E h \in 1 .. n : ns[i] = s[h]
                                 \/ ns[i] = x
    <2> DEFINE r == id + 1
    <2>0. id \in 0 .. Len(s) /\ r = id + 1
        BY <1>1
    <2> HIDE DEF s, r
    <2>1. InsertAt(s, r, x) \in Seq(Name) /\ Len(InsertAt(s, r, x)) = Len(s) + 1
        BY <1>1, <1>4, <2>0, InsertOf
    <2>2. \A i \in 1 .. id : InsertAt(s, r, x)[i] = s[i]
        BY <1>1, <1>4, <2>0, InsertOf
    <2>3. InsertAt(s, r, x)[r] = x
        BY <1>1, <1>4, <2>0, InsertOf
    <2>4. \A i \in r .. Len(s) : InsertAt(s, r, x)[i + 1] = s[i]
        BY <1>1, <1>4, <2>0, InsertOf
    <2>5. ns = InsertAt(s, r, x)
        BY DEF r
    <2> HIDE DEF ns, n
    <2>6. ns \in Seq(Name) /\ Len(ns) = n + 1
        BY <2>1, <2>5 DEF n
    <2>7. ASSUME NEW i \in 1 .. n + 1
          PROVE  (\E h \in 1 .. n : ns[i] = s[h]) \/ ns[i] = x
        <3>1. CASE i <= id
            <4>1. i \in 1 .. id /\ i \in 1 .. n
                BY <1>2, <1>5, <3>1
            <4> QED BY <2>2, <2>5, <4>1
        <3>2. CASE i = r
            BY <2>3, <2>5, <3>2
        <3>3. CASE i > r
            <4>1. i - 1 \in r .. n /\ i - 1 \in 1 .. n /\ (i - 1) + 1 = i
                BY <1>2, <1>5, <2>0, <3>3
            <4>2. InsertAt(s, r, x)[(i - 1) + 1] = s[i - 1]
                BY <2>4, <4>1 DEF n
            <4> QED BY <2>5, <4>1, <4>2
        <3> QED BY <1>5, <2>0, <3>1, <3>2, <3>3
    <2> QED BY <2>6, <2>7
<1>8. Up(ns) /\ Replaced(s, ns, id, id, 1, X)
    <2> HIDE DEF s
    <2> QED BY <1>1, <1>4, <1>6, UpInsert DEF s
<1> HIDE DEF s, n, y, z, N, ns, X
<1>9. ASSUME NEW i, NEW h \in 0 .. n
      PROVE  /\ Shifted(h, None, id, i, owner) <= h + 1
             /\ i = owner => Shifted(h, None, id, i, owner) = h
             /\ i # owner => Shifted(h, None, id, i, owner) = IF h >= id THEN h + 1 ELSE h
    BY <1>2, <1>5 DEF Shifted
<1>10. \A i \in 1 .. Len(l) : \/ Slides(0, n, None, id, i, owner, id, id, 1)
                              \/ i = owner /\ \A h \in Nat : Shifted(h, None, id, i, owner) <= h
    <2>1. SUFFICES ASSUME NEW i \in 1 .. Len(l)
                   PROVE  \/ Slides(0, n, None, id, i, owner, id, id, 1)
                          \/ i = owner /\ \A h \in Nat : Shifted(h, None, id, i, owner) <= h
        OBVIOUS
    <2>2. CASE i = owner
        BY <1>5, <2>2 DEF Shifted
    <2>3. CASE i # owner
        <3>1. ASSUME NEW h \in 0 .. n
              PROVE  \/ 0 + h < id /\ 0 + Shifted(h, None, id, i, owner) = 0 + h
                     \/ 0 + h >= id /\ 0 + Shifted(h, None, id, i, owner) = (0 + h) + 1
            <4>1. Shifted(h, None, id, i, owner) = IF h >= id THEN h + 1 ELSE h
                BY <1>9, <2>3
            <4> QED BY <1>5, <4>1
        <3> QED BY <3>1 DEF Slides
    <2> QED BY <2>2, <2>3
<1>11. Apt(c, b, all, k, l, ns, None, id, owner, 1, D, D, id, id, X)
    <2>1. k > 1 => Len(ns) >= 1
        BY <1>2, <1>7
    <2>2. \A a \in 1 .. Len(ns) : \/ \E h \in 1 .. n : ns[a] = s[h]
                                  \/ Fits(all, b[k], b[k + 1], ns[a])
        BY <1>6, <1>7 DEF y, z
    <2>3. owner # 0 => In(c, l[owner], k, k) /\ l[owner].id # None /\ l[owner].id <= None
        BY <1>1, <1>5
    <2>4. 1 = Len(ns) - n /\ ~(None < n)
        BY <1>2, <1>5, <1>7
    <2>5. \A a \in X : a \in D \/ a \notin First(all, Len(all))
        BY <1>1 DEF X
    <2> QED BY <1>1, <1>5, <1>7, <1>8, <1>10, <2>1, <2>2, <2>3, <2>4, <2>5 DEF Apt, s, n
<1>12. R \in Committed(State(c, l), k, ns, None, id, owner, may)
    BY DEF ns, s
<1>13. PICK B, p, e, all0 :
          Changed(c, b, all, k, l, None, id, owner, 1, D, id, id, X, R, B, p, e, all0)
    BY <1>11, <1>12, ChangeOf
<1>14. /\ Spread(R.chain, B, all0) /\ Up(all0)
       /\ Rebuilt(c, b, R.chain, B, k, p, e, 1)
       /\ Replaced(all, all0, y + id, y + id, 1, X)
       /\ R.mlist \in Seq(HandleSet) /\ Len(R.mlist) = Len(l)
       /\ \A i \in 1 .. Len(l) :
             /\ Landed(c, b, R.chain, B, k, 1, None, id, i, owner, l[i], R.mlist[i])
             /\ i # owner => Good(R.chain, B, all0, D, 0, R.mlist[i])
    BY <1>13 DEF Changed, y
<1>15. ASSUME owner # 0 PROVE Good(R.chain, B, all0, D, 0, R.mlist[owner])
    <2> DEFINE C == R.chain
               d == l[owner]
               w == R.mlist[owner]
               P == y + id
    <2>1. owner \in 1 .. Len(l)
        BY <1>1, <1>15
    <2>2. d \in HandleSet /\ Landed(c, b, C, B, k, 1, None, id, owner, owner, d, w)
        BY <1>1, <1>14, <2>1
    <2>3. In(c, d, k, k) /\ d.id = id /\ d \in FileHandles /\ d.name = x /\ ~d.gone /\ x \notin D
        BY <1>1, <1>15
    <2> HIDE DEF C, d, w
    <2>4. w \in FileHandles /\ w \notin DirHandles /\ w \in HandleSet /\ w.name = x /\ ~w.gone
        <3>1. Same(w, d)
            BY <2>2 DEF Landed
        <3> QED BY <2>2, <2>3, <3>1, SameKind, KindOf
    <2>5. PICK h \in 1 .. Len(C) : In(C, w, h, 0) /\ B[h] + w.id = P
        <3>1. \/ k = k /\ d.id = None /\ Drops(None, id) /\ d \in FileHandles /\ w.m = NoMdir
              \/ \E h \in 1 .. Len(C) :
                    /\ In(C, w, h, 0)
                    /\ \/ k < k /\ B[h] + w.id = b[k] + d.id
                       \/ k > k /\ B[h] + w.id = (b[k] + d.id) + 1
                       \/ /\ k = k /\ Keeps(d.id, None, id)
                          /\ B[h] + w.id = b[k] + Shifted(d.id, None, id, owner, owner)
                       \/ /\ k = k - 1 /\ d \in DirHandles /\ d.id = Len(c[k].names)
                          /\ Keeps(0, None, id)
                          /\ B[h] + w.id = b[k] + Shifted(0, None, id, owner, owner)
            BY <1>1, <2>2, <2>3 DEF Landed
        <3>2. d \notin DirHandles /\ id # None /\ ~(k < k) /\ ~(k > k) /\ id \in 0 .. n
            BY <1>1, <1>5, <2>2, <2>3, KindOf
        <3>3. Shifted(id, None, id, owner, owner) = id
            BY <1>9, <3>2
        <3> QED BY <2>3, <3>1, <3>2, <3>3 DEF y
    <2>6. P \in Nat /\ P < Len(all0) /\ all0[P + 1] = x
        <3>1. P \in Nat /\ Len(all0) = N + 1 /\ P <= N
            BY <1>2, <1>5, <1>14 DEF Replaced, N
        <3> HIDE DEF P
        <3>2. P + 1 \in P + 1 .. P + 1 /\ ~\E i \in P + 1 .. P : TRUE
            BY <3>1
        <3>3. Replaced(all, all0, P, P, 1, X)
            BY <1>14 DEF P
        <3>4. all0[P + 1] \in X
            BY <3>2, <3>3 DEF Replaced
        <3> QED BY <1>2, <3>1, <3>4 DEF X
    <2>7. Knows(all0, D, w, B[h] + w.id)
        BY <2>3, <2>4, <2>5, <2>6 DEF Knows
    <2> QED BY <2>4, <2>5, <2>7 DEF Good, C, w
<1>16. World(R.chain, B, all0, D, 0, R.mlist)
    BY <1>14, <1>15 DEF World
<1>17. \A i \in 1 .. Len(l) : Same(R.mlist[i], l[i])
    BY <1>14 DEF Landed
<1> QED BY <1>14, <1>16, <1>17 DEF Made, X, y

\* No handle of its own commits: names of part k become ns.
Swaps(c, b, all, D, k, l, ns, del, cre, D0, u, v, g, X) ==
    /\ World(c, b, all, D, k, l) /\ k \in 1 .. Len(c)
    /\ ns \in Seq(Name) /\ Up(ns) /\ (k > 1 => Len(ns) >= 1)
    /\ \A a \in 1 .. Len(ns) : \/ \E h \in 1 .. Len(c[k].names) : ns[a] = c[k].names[h]
                               \/ Fits(all, b[k], b[k + 1], ns[a])
    /\ del \in Nat /\ cre \in Nat
    /\ g = Len(ns) - Len(c[k].names)
    /\ Replaced(c[k].names, ns, u, v, g, X)
    /\ X \subseteq D
    /\ D0 \subseteq D
    /\ \A y \in D \ D0 : y \notin First(all, Len(all)) \/ \E i \in u + 1 .. v : y = c[k].names[i]
    /\ Drops(del, cre) /\ del < Len(c[k].names) => c[k].names[del + 1] \in D
    /\ \A i \in 1 .. Len(l) : Slides(0, Len(c[k].names), del, cre, i, 0, u, v, g)

LEMMA SwapOf ==
    ASSUME Risks = {},
           NEW c, NEW b, NEW all, NEW D, NEW k, NEW l, NEW ns, NEW del, NEW cre, NEW D0,
           NEW u, NEW v, NEW g, NEW X,
           Swaps(c, b, all, D, k, l, ns, del, cre, D0, u, v, g, X),
           NEW may, may \subseteq BOOLEAN,
           NEW R \in Committed(State(c, l), k, ns, del, cre, 0, may)
    PROVE  \E B, p, e, all0 : Made(R, B, p, e, c, b, all, k, l, all0, D0, u, v, g, X)
<1>1. World(c, b, all, D, k, l)
    BY DEF Swaps
<1>2. /\ Spread(c, b, all) /\ Up(all) /\ l \in Seq(HandleSet)
      /\ \A i \in 1 .. Len(l) : Held(c, l[i], k) /\ Good(c, b, all, D, k, l[i])
    BY <1>1, GoodHeld DEF World
<1>3. Apt(c, b, all, k, l, ns, del, cre, 0, g, D, D0, u, v, X)
    <2>1. 0 \in 0 .. Len(l) /\ \A y \in X : y \in D
        BY <1>2 DEF Swaps
    <2> QED BY <1>2, <2>1 DEF Apt, Swaps
<1>4. PICK B, p, e, all0 :
          Changed(c, b, all, k, l, del, cre, 0, g, D0, u, v, X, R, B, p, e, all0)
    BY <1>3, ChangeOf
<1>5. \A i \in 1 .. Len(l) : Same(R.mlist[i], l[i]) /\ Good(R.chain, B, all0, D0, 0, R.mlist[i])
    <2>1. \A i \in 1 .. Len(l) : i # 0
        OBVIOUS
    <2> QED BY <1>4, <2>1 DEF Changed, Landed
<1>6. World(R.chain, B, all0, D0, 0, R.mlist)
    BY <1>4, <1>5 DEF Changed, World
<1> QED BY <1>4, <1>5, <1>6 DEF Changed, Made

\* The entry at place id of part k is replaced by another of its name.
LEMMA ReplaceOf ==
    ASSUME Risks = {},
           NEW c, NEW b, NEW all, NEW D, NEW k \in 1 .. Len(c), NEW l,
           World(c, b, all, D, k, l), NEW id \in Nat, id < Len(c[k].names),
           NEW x, x = c[k].names[id + 1], x \in D,
           NEW may, may \subseteq BOOLEAN,
           NEW R \in Committed(State(c, l), k, c[k].names, id, id, 0, may)
    PROVE  \E B, p, e, all0 :
              Made(R, B, p, e, c, b, all, k, l, all0, D \ {x}, id, id + 1, 0, {x})
<1> DEFINE s == c[k].names
           n == Len(s)
           D0 == D \ {x}
           v == id + 1
           X == {x}
<1>1. Spread(c, b, all) /\ Up(all)
    BY DEF World
<1>2. s \in Seq(Name) /\ Up(s) /\ n \in Nat /\ (k > 1 => n >= 1) /\ n < None
    <2>1. s \in Seq(Name) /\ Up(s)
        BY <1>1, UpPart
    <2>2. n \in Nat /\ (k > 1 => n >= 1)
        BY <1>1, PartsOf DEF Spread
    <2>3. b[k] \in Nat
        BY <1>1, PlacesOf
    <2>4. b[k] + n < None
        BY <1>1, FewNames
    <2> HIDE DEF s, n
    <2> QED BY <2>1, <2>2, <2>3, <2>4 DEF None
<1>3. id < n /\ v \in Nat /\ v <= n /\ id <= v /\ n - n = 0
    BY <1>2
<1>4. Replaced(s, s, id, v, 0, X)
    <2> HIDE DEF s, n, v
    <2>1. \A i \in v + 1 .. n : i + 0 = i
        BY <1>3
    <2>2. \A i \in id + 1 .. v : s[i] \in X
        BY DEF v, X, s
    <2>3. \A i \in id + 1 .. v + 0 : s[i] \in X
        BY <1>3, <2>2
    <2> QED BY <1>2, <1>3, <2>1, <2>2, <2>3 DEF Replaced, n
<1>5. \A y \in D \ D0 : y \notin First(all, Len(all)) \/ \E i \in id + 1 .. v : y = s[i]
    <2>1. id + 1 \in id + 1 .. v
        OBVIOUS
    <2> QED BY <2>1 DEF D0
<1> HIDE DEF s, n, v, X, D0
<1>6. ASSUME NEW i \in Nat, i # 0 PROVE Slides(0, n, id, id, i, 0, id, v, 0)
    <2>1. ASSUME NEW h \in 0 .. n, Keeps(h, id, id) PROVE h < id /\ Shifted(h, id, id, i, 0) = h
        BY <1>2, <1>3, <2>1 DEF Keeps, Shifted, None
    <2> QED BY <2>1 DEF Slides
<1>7. Swaps(c, b, all, D, k, l, s, id, id, D0, id, v, 0, X)
    <2>1. \A i \in 1 .. Len(l) : i \in Nat /\ i # 0
        BY DEF World
    <2>2. X \subseteq D /\ D0 \subseteq D /\ s[id + 1] \in D
        BY DEF X, D0, s
    <2>3. \A a \in 1 .. n : \E h \in 1 .. n : s[a] = s[h]
        OBVIOUS
    <2> QED BY <1>2, <1>3, <1>4, <1>5, <1>6, <2>1, <2>2, <2>3 DEF Swaps, s, n
<1>8. R \in Committed(State(c, l), k, s, id, id, 0, may)
    BY DEF s
<1>9. \E B, p, e, all0 : Made(R, B, p, e, c, b, all, k, l, all0, D0, id, v, 0, X)
    BY <1>7, <1>8, SwapOf
<1> QED BY <1>9 DEF D0, v, X

\* The entry at place id of part k is deleted.
LEMMA DeleteOf ==
    ASSUME Risks = {},
           NEW c, NEW b, NEW all, NEW D, NEW k \in 1 .. Len(c), NEW l,
           World(c, b, all, D, k, l), NEW id \in Nat, id < Len(c[k].names),
           NEW x, x = c[k].names[id + 1], x \in D,
           ~(RemoveAt(c[k].names, id + 1) = <<>> /\ k > 1),
           NEW may, may \subseteq BOOLEAN,
           NEW R \in Committed(State(c, l), k, RemoveAt(c[k].names, id + 1), id, None, 0, may)
    PROVE  \E B, p, e, all0 :
              Made(R, B, p, e, c, b, all, k, l, all0, D \ {x}, id, id + 1, 0 - 1, {x})
<1> DEFINE s == c[k].names
           n == Len(s)
           D0 == D \ {x}
           v == id + 1
           X == {x}
           ns == RemoveAt(s, id + 1)
           g == 0 - 1
<1>1. Spread(c, b, all) /\ Up(all)
    BY DEF World
<1>2. s \in Seq(Name) /\ Up(s) /\ n \in Nat /\ n < None /\ None \in Nat
    <2>1. s \in Seq(Name) /\ Up(s)
        BY <1>1, UpPart
    <2>2. n \in Nat
        BY <1>1, PartsOf DEF Spread
    <2>3. b[k] \in Nat
        BY <1>1, PlacesOf
    <2>4. b[k] + n < None
        BY <1>1, FewNames
    <2> HIDE DEF s, n
    <2> QED BY <2>1, <2>2, <2>3, <2>4 DEF None
<1>3. id < n /\ v \in Nat /\ v <= n /\ id <= v /\ id < None
    BY <1>2
<1>4. /\ ns \in Seq(Name) /\ Len(ns) = n - 1 /\ Up(ns)
      /\ Replaced(s, ns, id, v, g, X)
      /\ \A i \in 1 .. n - 1 : \E h \in 1 .. n : ns[i] = s[h]
    <2> HIDE DEF s
    <2>1. id \in 0 .. Len(s)
        BY <1>2, <1>3
    <2>2. X = {s[id + 1]}
        BY DEF s
    <2> QED BY <1>2, <1>3, <2>1, <2>2, UpRemove
<1>5. k > 1 => Len(ns) >= 1
    <2>1. k > 1 => ns # <<>>
        BY DEF ns, s
    <2> HIDE DEF ns
    <2>2. ns # <<>> => Len(ns) >= 1
        BY <1>4
    <2> QED BY <2>1, <2>2
<1>6. \A y \in D \ D0 : y \notin First(all, Len(all)) \/ \E i \in id + 1 .. v : y = s[i]
    <2>1. id + 1 \in id + 1 .. v
        OBVIOUS
    <2> QED BY <2>1 DEF D0
<1>7. g \in Int /\ g = Len(ns) - n
    BY <1>2, <1>4
<1>8. \A h \in Int : h + g = h - 1
    OBVIOUS
<1> HIDE DEF s, n, v, X, D0, ns, g
<1>9. ASSUME NEW i \in Nat, i # 0 PROVE Slides(0, n, id, None, i, 0, id, v, g)
    <2>1. ASSUME NEW h \in 0 .. n, Keeps(h, id, None)
          PROVE  \/ h < id /\ Shifted(h, id, None, i, 0) = h
                 \/ h >= v /\ Shifted(h, id, None, i, 0) = h + g
        <3>1. h # id
            BY <2>1 DEF Keeps
        <3>2. CASE h < id
            BY <1>2, <1>3, <3>2 DEF Shifted
        <3>3. CASE h > id
            BY <1>2, <1>3, <1>8, <3>3 DEF Shifted, v
        <3> QED BY <3>1, <3>2, <3>3
    <2>2. \A h \in 0 .. n : 0 + h = h
        OBVIOUS
    <2>3. ASSUME NEW h \in 0 .. n, Keeps(h, id, None)
          PROVE  \/ 0 + h < id /\ 0 + Shifted(h, id, None, i, 0) = 0 + h
                 \/ 0 + h >= v /\ 0 + Shifted(h, id, None, i, 0) = (0 + h) + g
        BY <1>7, <2>1, <2>2, <2>3
    <2> QED BY <2>3 DEF Slides
<1>10. Swaps(c, b, all, D, k, l, ns, id, None, D0, id, v, g, X)
    <2>1. \A i \in 1 .. Len(l) : i \in Nat /\ i # 0
        BY DEF World
    <2>2. X \subseteq D /\ D0 \subseteq D /\ s[id + 1] \in D
        BY DEF X, D0, s
    <2>3. \A a \in 1 .. Len(ns) : \E h \in 1 .. n : ns[a] = s[h]
        BY <1>4
    <2> QED BY <1>2, <1>4, <1>5, <1>6, <1>7, <1>9, <2>1, <2>2, <2>3 DEF Swaps, s, n
<1>11. R \in Committed(State(c, l), k, ns, id, None, 0, may)
    BY DEF ns, s
<1>12. \E B, p, e, all0 : Made(R, B, p, e, c, b, all, k, l, all0, D0, id, v, g, X)
    BY <1>10, <1>11, SwapOf
<1> QED BY <1>12 DEF D0, v, X, g

-----------------------------------------------------------------------------
(* Renaming within a part.                                                    *)

LEMMA ReplacedWider ==
    ASSUME NEW s, Len(s) \in Nat, NEW t, NEW u, NEW v, NEW g, NEW X, Replaced(s, t, u, v, g, X),
           NEW q \in Nat, q <= u, NEW w \in Nat, v <= w, w <= Len(s), NEW Y, X \subseteq Y
    PROVE  Replaced(s, t, q, w, g, Y)
<1> DEFINE N == Len(s)
<1>1. /\ u \in Nat /\ v \in Nat /\ u <= v /\ v <= N /\ g \in Int /\ u <= v + g
      /\ Len(t) = N + g
    BY DEF Replaced
<1>2. /\ \A i \in 1 .. u : t[i] = s[i]
      /\ \A i \in v + 1 .. N : t[i + g] = s[i]
      /\ \A i \in u + 1 .. v : s[i] \in X \/ \E h \in u + 1 .. v + g : t[h] = s[i]
      /\ \A h \in u + 1 .. v + g : t[h] \in X \/ \E i \in u + 1 .. v : s[i] = t[h]
    BY DEF Replaced
<1> HIDE DEF N
<1>0. N \in Nat /\ w <= N
    BY DEF N
<1>3. \A i \in 1 .. q : t[i] = s[i]
    BY <1>1, <1>2
<1>4. \A i \in w + 1 .. N : t[i + g] = s[i]
    BY <1>1, <1>2
<1>5. ASSUME NEW i \in q + 1 .. w PROVE s[i] \in Y \/ \E h \in q + 1 .. w + g : t[h] = s[i]
    <2>1. CASE i <= u
        <3>1. i \in 1 .. u /\ i \in q + 1 .. w + g
            BY <1>1, <2>1
        <3> QED BY <1>2, <3>1
    <2>2. CASE i > u /\ i <= v
        <3>1. i \in u + 1 .. v
            BY <1>1, <2>2
        <3>2. \A h \in u + 1 .. v + g : h \in q + 1 .. w + g
            BY <1>1
        <3> QED BY <1>2, <3>1, <3>2
    <2>3. CASE i > v
        <3>1. i \in v + 1 .. N /\ i + g \in q + 1 .. w + g
            BY <1>0, <1>1, <2>3
        <3> QED BY <1>2, <3>1
    <2> QED BY <1>1, <2>1, <2>2, <2>3
<1>6. ASSUME NEW h \in q + 1 .. w + g PROVE t[h] \in Y \/ \E i \in q + 1 .. w : s[i] = t[h]
    <2>1. CASE h <= u
        <3>1. h \in 1 .. u /\ h \in q + 1 .. w
            BY <1>1, <2>1
        <3> QED BY <1>2, <3>1
    <2>2. CASE h > u /\ h <= v + g
        <3>1. h \in u + 1 .. v + g
            BY <1>1, <2>2
        <3>2. \A i \in u + 1 .. v : i \in q + 1 .. w
            BY <1>1
        <3> QED BY <1>2, <3>1, <3>2
    <2>3. CASE h > v + g
        <3> DEFINE i == h - g
        <3>1. i \in v + 1 .. N /\ i \in q + 1 .. w /\ i + g = h
            BY <1>0, <1>1, <2>3
        <3> HIDE DEF i
        <3> QED BY <1>2, <3>1
    <2> QED BY <1>1, <2>1, <2>2, <2>3
<1>7. q \in Nat /\ w \in Nat /\ q <= w /\ w <= N /\ g \in Int /\ q <= w + g
    BY <1>0, <1>1
<1> QED BY <1>1, <1>3, <1>4, <1>5, <1>6, <1>7 DEF Replaced, N

LEMMA ReplacedTwice ==
    ASSUME NEW s, Len(s) \in Nat, NEW t, NEW r, NEW u, NEW v, NEW g, NEW f, NEW X,
           Replaced(s, t, u, v, g, X), NEW w, w = v + g, Replaced(t, r, u, w, f, X)
    PROVE  Replaced(s, r, u, v, g + f, X)
<1> DEFINE N == Len(s)
           M == Len(t)
<1>1. /\ u \in Nat /\ v \in Nat /\ u <= v /\ v <= N /\ g \in Int /\ u <= v + g
      /\ M = N + g
    BY DEF Replaced
<1>2. /\ w \in Nat /\ u <= w /\ w <= M /\ f \in Int /\ u <= w + f /\ Len(r) = M + f
    BY DEF Replaced
<1>3. /\ \A i \in 1 .. u : t[i] = s[i]
      /\ \A i \in v + 1 .. N : t[i + g] = s[i]
      /\ \A i \in u + 1 .. v : s[i] \in X \/ \E h \in u + 1 .. w : t[h] = s[i]
      /\ \A h \in u + 1 .. w : t[h] \in X \/ \E i \in u + 1 .. v : s[i] = t[h]
    BY DEF Replaced
<1>4. /\ \A i \in 1 .. u : r[i] = t[i]
      /\ \A i \in w + 1 .. M : r[i + f] = t[i]
      /\ \A i \in u + 1 .. w : t[i] \in X \/ \E h \in u + 1 .. w + f : r[h] = t[i]
      /\ \A h \in u + 1 .. w + f : r[h] \in X \/ \E i \in u + 1 .. w : t[i] = r[h]
    BY DEF Replaced
<1> HIDE DEF N, M
<1>0. N \in Nat
    BY DEF N
<1>5. ASSUME NEW i \in v + 1 .. N PROVE r[i + (g + f)] = s[i]
    <2>1. i + g \in w + 1 .. M /\ (i + g) + f = i + (g + f)
        BY <1>0, <1>1, <1>2
    <2>2. r[(i + g) + f] = t[i + g]
        BY <1>4, <2>1
    <2> QED BY <1>3, <2>1, <2>2
<1>6. w + f = v + (g + f) /\ Len(r) = N + (g + f) /\ g + f \in Int
    BY <1>0, <1>1, <1>2
<1>7. ASSUME NEW i \in u + 1 .. v PROVE s[i] \in X \/ \E h \in u + 1 .. w + f : r[h] = s[i]
    BY <1>3, <1>4
<1>8. ASSUME NEW h \in u + 1 .. w + f PROVE r[h] \in X \/ \E i \in u + 1 .. v : s[i] = r[h]
    BY <1>3, <1>4
<1>9. \A i \in 1 .. u : r[i] = s[i]
    BY <1>3, <1>4
<1> HIDE DEF Replaced
<1> QED BY <1>1, <1>2, <1>5, <1>6, <1>7, <1>8, <1>9 DEF Replaced, N

\* Within s the name at fid is left out, and n comes in at gid.
LEMMA FitsLeft ==
    ASSUME NEW s \in Seq(Name), NEW fid \in Nat, fid < Len(s), NEW gid \in 0 .. Len(s), NEW n \in Name,
           Fits(s, gid, gid, n), NEW q, q = IF gid <= fid THEN gid ELSE gid - 1
    PROVE  Fits(RemoveAt(s, fid + 1), q, q, n)
<1> DEFINE N == Len(s)
           r == fid + 1
           t == RemoveAt(s, r)
<1>1. N \in Nat /\ gid \in Nat /\ gid <= N /\ fid < N /\ r = fid + 1 /\ r \in 1 .. N /\ r - 1 = fid /\ q \in Nat
    OBVIOUS
<1> HIDE DEF N, r
<1>2. t \in Seq(Name) /\ Len(t) = N - 1
    BY <1>1, RemoveOf DEF N
<1>3. \A i \in 1 .. r - 1 : t[i] = s[i]
    BY <1>1, RemoveOf DEF N
<1>4. \A i \in r + 1 .. N : t[i - 1] = s[i]
    BY <1>1, RemoveOf DEF N
<1> HIDE DEF t
<1>5. (\A i \in 1 .. gid : s[i] < n) /\ (\A i \in gid + 1 .. N : n < s[i])
    BY DEF Fits, N
<1>6. ASSUME NEW i \in 1 .. N - 1
      PROVE  (i <= fid /\ t[i] = s[i]) \/ (i > fid /\ t[i] = s[i + 1])
    <2>1. CASE i <= fid
        BY <1>1, <1>3, <2>1
    <2>2. CASE i > fid
        <3>1. i + 1 \in r + 1 .. N /\ (i + 1) - 1 = i
            BY <1>1, <2>2
        <3>2. t[(i + 1) - 1] = s[i + 1]
            BY <1>4, <3>1
        <3> QED BY <2>2, <3>1, <3>2
    <2> QED BY <1>1, <2>1, <2>2
<1>7. ASSUME NEW i \in 1 .. q PROVE t[i] < n
    <2>1. i \in 1 .. N - 1 /\ i \in 1 .. gid /\ (i > fid => i + 1 \in 1 .. gid)
        BY <1>1
    <2> QED BY <1>5, <1>6, <2>1
<1>8. ASSUME NEW i \in q + 1 .. N - 1 PROVE n < t[i]
    <2>1. i \in 1 .. N - 1 /\ i + 1 \in gid + 1 .. N /\ (i <= fid => i \in gid + 1 .. N)
        BY <1>1
    <2> QED BY <1>5, <1>6, <2>1
<1> QED BY <1>2, <1>7, <1>8 DEF Fits, t, r

\* Entry a, at place fid of part k, is renamed to b, whose place is gid.
Renames(c, b, all, k, fid, gid, over, x, y) ==
    /\ k \in 1 .. Len(c)
    /\ fid \in Nat /\ fid < Len(c[k].names) /\ c[k].names[fid + 1] = x
    /\ gid \in 0 .. Len(c[k].names)
    /\ x \in Name /\ y \in Name /\ x # y
    /\ over \in BOOLEAN
    /\ over => gid < Len(c[k].names) /\ c[k].names[gid + 1] = y
    /\ ~over => y \notin First(all, Len(all)) /\ Fits(all, b[k] + gid, b[k] + gid, y)

Becomes(s, fid, gid, over, x, y, ns, g, u) ==
    /\ s \in Seq(Name) /\ Up(s) /\ fid \in Nat /\ fid < Len(s) /\ gid \in 0 .. Len(s)
    /\ s[fid + 1] = x /\ y \in Name /\ x # y
    /\ over => gid < Len(s) /\ s[gid + 1] = y
    /\ ~over => Fits(s, gid, gid, y)
    /\ ns = IF over THEN RemoveAt(s, fid + 1)
             ELSE InsertAt(RemoveAt(s, fid + 1), IF gid <= fid THEN gid + 1 ELSE gid, y)
    /\ g = IF over THEN 0 - 1 ELSE 0
    /\ u = IF gid <= fid THEN gid ELSE fid

BecomesWell(s, x, y, ns, g, u) ==
    /\ ns \in Seq(Name) /\ Len(ns) = Len(s) + g /\ Len(ns) >= 1 /\ Up(ns)
    /\ Replaced(s, ns, u, Len(s), g, {x, y})
    /\ \A i \in 1 .. Len(ns) : ns[i] = y \/ \E h \in 1 .. Len(s) : ns[i] = s[h]

LEMMA RenamedNames ==
    ASSUME NEW s, NEW fid, NEW gid, NEW over, NEW x, NEW y, NEW ns, NEW g, NEW u,
           Becomes(s, fid, gid, over, x, y, ns, g, u)
    PROVE  BecomesWell(s, x, y, ns, g, u)
<1>0. /\ s \in Seq(Name) /\ Up(s) /\ fid \in Nat /\ fid < Len(s) /\ gid \in 0 .. Len(s)
      /\ s[fid + 1] = x /\ y \in Name /\ x # y
      /\ over => gid < Len(s) /\ s[gid + 1] = y
      /\ ~over => Fits(s, gid, gid, y)
      /\ ns = IF over THEN RemoveAt(s, fid + 1)
               ELSE InsertAt(RemoveAt(s, fid + 1), IF gid <= fid THEN gid + 1 ELSE gid, y)
      /\ g = IF over THEN 0 - 1 ELSE 0
      /\ u = IF gid <= fid THEN gid ELSE fid
    BY DEF Becomes
<1> DEFINE n == Len(s)
           left == RemoveAt(s, fid + 1)
           q == IF gid <= fid THEN gid ELSE gid - 1
           X == {x, y}
           m == 0 - 1
<1>1. n \in Nat /\ gid \in Nat /\ gid <= n /\ fid < n /\ fid \in 0 .. n
    BY <1>0
<1>2. /\ left \in Seq(Name) /\ Len(left) = n - 1 /\ Up(left)
      /\ Replaced(s, left, fid, fid + 1, m, {s[fid + 1]})
      /\ \A i \in 1 .. n - 1 : \E h \in 1 .. n : left[i] = s[h]
    BY <1>0, <1>1, UpRemove
<1>3. u \in Nat /\ u <= fid /\ fid + 1 <= n /\ u <= n - 1
    BY <1>0, <1>1
<1>4. m \in Int /\ n + m = n - 1
    BY <1>1
<1> HIDE DEF left, m
<1>5. Replaced(s, left, u, n, m, X)
    <2> DEFINE Z == {s[fid + 1]}
               w == fid + 1
    <2>1. Z \subseteq X /\ w <= n /\ Len(s) \in Nat /\ n \in Nat /\ n <= Len(s) /\ u \in Nat /\ u <= fid
        BY <1>0, <1>1, <1>3
    <2>2. Replaced(s, left, fid, w, m, Z)
        BY <1>2
    <2> HIDE DEF Z, w, n, X
    <2> QED BY <2>1, <2>2, ReplacedWider
<1>6. CASE over
    <2>1. ns = left /\ g = m
        BY <1>0, <1>6 DEF left, m
    <2>2. gid < n /\ gid # fid
        BY <1>0, <1>6
    <2>3. Len(ns) >= 1
        BY <1>1, <1>2, <2>1, <2>2
    <2> HIDE DEF X, n
    <2>4. Len(ns) = n + g
        BY <1>2, <1>4, <2>1
    <2> QED BY <1>2, <1>5, <2>1, <2>3, <2>4 DEF n, X, BecomesWell
<1>7. CASE ~over
    <2>1. q \in 0 .. Len(left) /\ q \in Nat /\ u <= q /\ q <= n - 1
          /\ q + 1 = IF gid <= fid THEN gid + 1 ELSE gid
        BY <1>0, <1>1, <1>2
    <2>2. Fits(left, q, q, y)
        BY <1>0, <1>7, FitsLeft DEF left
    <2> HIDE DEF q
    <2>3. ns = InsertAt(left, q + 1, y) /\ g = 0
        BY <1>0, <1>7, <2>1 DEF left
    <2>4. /\ Up(InsertAt(left, q + 1, y))
          /\ Replaced(left, InsertAt(left, q + 1, y), q, q, 1, {y})
        BY <1>0, <1>2, <2>1, <2>2, UpInsert
    <2>5. Up(ns) /\ Replaced(left, ns, q, q, 1, {y})
        BY <2>3, <2>4
    <2>6. ns \in Seq(Name) /\ Len(ns) = n
        <3> DEFINE r == q + 1
        <3>1. r = q + 1
            OBVIOUS
        <3> HIDE DEF r
        <3>0. left \in Seq(Name) /\ y \in Name /\ q \in 0 .. Len(left)
            BY <1>0, <1>2, <2>1
        <3>2. InsertAt(left, r, y) \in Seq(Name)
            BY <3>0, <3>1, InsertOf
        <3>3. Len(InsertAt(left, r, y)) = Len(left) + 1
            BY <3>0, <3>1, InsertOf
        <3> QED BY <1>1, <1>2, <2>3, <3>2, <3>3 DEF r
    <2> DEFINE w == n - 1
    <2>7. Replaced(left, ns, u, w, 1, X)
        <3> DEFINE Z == {y}
        <3>1. Z \subseteq X /\ w \in Nat /\ q <= w /\ w <= Len(left) /\ Len(left) \in Nat /\ u \in Nat /\ u <= q
            BY <1>1, <1>2, <1>3, <2>1
        <3>2. Replaced(left, ns, q, q, 1, Z)
            BY <2>5
        <3> HIDE DEF Z, w, X
        <3> QED BY <3>1, <3>2, ReplacedWider
    <2>8. Replaced(s, ns, u, n, 0, X)
        <3>1. w = n + m /\ m + 1 = 0 /\ n \in Nat
            BY <1>1, <1>4 DEF m
        <3> HIDE DEF w, X
        <3>2. Replaced(s, ns, u, n, m + 1, X)
            BY <1>5, <2>7, <3>1, ReplacedTwice
        <3> QED BY <3>1, <3>2
    <2>9. ASSUME NEW i \in 1 .. Len(ns) PROVE ns[i] = y \/ \E h \in 1 .. n : ns[i] = s[h]
        <3>1. q <= w /\ w \in Nat /\ Len(left) = w /\ Len(ns) = w + 1
            BY <1>1, <1>2, <2>1, <2>6
        <3> HIDE DEF w
        <3>2. /\ \A j \in 1 .. q : ns[j] = left[j]
              /\ \A j \in q + 1 .. w : ns[j + 1] = left[j]
              /\ \A j \in q + 1 .. q + 1 : ns[j] \in {y} \/ \E h \in q + 1 .. q : left[h] = ns[j]
            BY <2>5, <3>1 DEF Replaced
        <3>3. \A j \in 1 .. w : \E h \in 1 .. n : left[j] = s[h]
            BY <1>2 DEF w
        <3>4. CASE i <= q
            <4>1. i \in 1 .. q /\ i \in 1 .. w
                BY <2>1, <3>1, <3>4
            <4> QED BY <3>2, <3>3, <4>1
        <3>5. CASE i = q + 1
            <4>1. i \in q + 1 .. q + 1 /\ ~\E h \in q + 1 .. q : TRUE
                BY <2>1, <3>5
            <4> QED BY <3>2, <4>1
        <3>6. CASE i > q + 1
            <4>1. i - 1 \in q + 1 .. w /\ i - 1 \in 1 .. w /\ (i - 1) + 1 = i
                BY <2>1, <3>1, <3>6
            <4>2. ns[(i - 1) + 1] = left[i - 1]
                BY <3>2, <4>1
            <4> QED BY <3>3, <4>1, <4>2
        <3> QED BY <2>1, <3>1, <3>4, <3>5, <3>6
    <2>10. Len(ns) >= 1 /\ Len(ns) = n + g
        BY <1>1, <2>3, <2>6
    <2> QED BY <2>3, <2>5, <2>6, <2>8, <2>9, <2>10 DEF BecomesWell, n, X
<1> QED BY <1>6, <1>7

\* A commit that renames, as lfs_rename makes it: over is whether y exists.
RenameArgs(c, b, all, k, l, x, y, D, fid, gid, over, ns, del) ==
    /\ D = {x, y} /\ World(c, b, all, D, k, l) /\ Renames(c, b, all, k, fid, gid, over, x, y)
    /\ ns = IF over THEN RemoveAt(c[k].names, fid + 1)
            ELSE InsertAt(RemoveAt(c[k].names, fid + 1), IF gid <= fid THEN gid + 1 ELSE gid, y)
    /\ del = IF ~over /\ gid <= fid THEN fid + 1 ELSE fid

LEMMA RenameOf ==
    ASSUME Risks = {},
           NEW c, NEW b, NEW all, NEW k, NEW l, NEW x, NEW y, NEW D,
           NEW fid, NEW gid, NEW over, NEW ns, NEW del,
           RenameArgs(c, b, all, k, l, x, y, D, fid, gid, over, ns, del),
           NEW may, may \subseteq BOOLEAN,
           NEW R \in Committed(State(c, l), k, ns, del, gid, 0, may)
    PROVE  \E B, p, e, all0, u, v, g : Made(R, B, p, e, c, b, all, k, l, all0, {}, u, v, g, D)
<1> D = {x, y} /\ World(c, b, all, D, k, l) /\ Renames(c, b, all, k, fid, gid, over, x, y)
    BY DEF RenameArgs
<1> ns = IF over THEN RemoveAt(c[k].names, fid + 1)
         ELSE InsertAt(RemoveAt(c[k].names, fid + 1), IF gid <= fid THEN gid + 1 ELSE gid, y)
    BY DEF RenameArgs
<1> del = IF ~over /\ gid <= fid THEN fid + 1 ELSE fid
    BY DEF RenameArgs
<1> DEFINE s == c[k].names
           n == Len(s)
           g == IF over THEN 0 - 1 ELSE 0
           u == IF gid <= fid THEN gid ELSE fid
<1>1. Spread(c, b, all) /\ Up(all) /\ k \in 1 .. Len(c)
    BY DEF World, Renames
<1>2. /\ fid \in Nat /\ fid < n /\ s[fid + 1] = x
      /\ gid \in 0 .. n /\ x \in Name /\ y \in Name /\ x # y /\ over \in BOOLEAN
      /\ over => gid < n /\ s[gid + 1] = y
      /\ ~over => y \notin First(all, Len(all)) /\ Fits(all, b[k] + gid, b[k] + gid, y)
    BY DEF Renames
<1>3. s \in Seq(Name) /\ Up(s) /\ n \in Nat
    <2>1. s \in Seq(Name) /\ Up(s)
        BY <1>1, UpPart
    <2> QED BY <2>1
<1>4. /\ b[k] \in Nat /\ b[k + 1] = b[k] + n /\ b[k + 1] <= Len(all) /\ Len(all) \in Nat
      /\ n < None /\ None \in Nat
    <2>1. /\ b[k] \in Nat /\ b[k + 1] = b[k] + n /\ b[k + 1] <= Len(all) /\ Len(all) \in Nat
        BY <1>1, PlacesOf
    <2>2. b[k] + n < None
        BY <1>1, FewNames
    <2> HIDE DEF n
    <2> QED BY <1>3, <2>1, <2>2 DEF None
<1>5. \A a \in 1 .. n : all[b[k] + a] = s[a]
    BY <1>1, PlacesOf
<1> HIDE DEF s, n
<1>6. ~over => Fits(s, gid, gid, y) /\ Fits(all, b[k], b[k + 1], y)
    <2>1. SUFFICES ASSUME ~over PROVE Fits(s, gid, gid, y) /\ Fits(all, b[k], b[k + 1], y)
        OBVIOUS
    <2> DEFINE z == b[k]
               w == b[k + 1]
               N == Len(all)
               P == z + gid
    <2>2. Fits(all, P, P, y)
        BY <1>2, <2>1
    <2>3. z \in Nat /\ w = z + n /\ w <= N /\ N \in Nat /\ gid \in Nat /\ gid <= n
        BY <1>2, <1>4
    <2>4. \A a \in 1 .. n : all[z + a] = s[a]
        BY <1>5
    <2> HIDE DEF z, w, N
    <2>5. (\A i \in 1 .. P : all[i] < y) /\ (\A i \in P + 1 .. N : y < all[i])
        BY <2>2 DEF Fits, N
    <2>6. ASSUME NEW i \in 1 .. gid PROVE s[i] < y
        <3>1. i \in 1 .. n /\ z + i \in 1 .. P
            BY <1>3, <2>3
        <3> QED BY <2>4, <2>5, <3>1
    <2>7. ASSUME NEW i \in gid + 1 .. n PROVE y < s[i]
        <3>1. i \in 1 .. n /\ z + i \in P + 1 .. N
            BY <1>3, <2>3
        <3> QED BY <2>4, <2>5, <3>1
    <2>8. \A i \in 1 .. z : i \in 1 .. P
        BY <2>3
    <2>9. \A i \in w + 1 .. N : i \in P + 1 .. N
        BY <1>3, <2>3
    <2> QED BY <2>5, <2>6, <2>7, <2>8, <2>9 DEF Fits, n, N, z, w
<1>7. g = (IF over THEN 0 - 1 ELSE 0) /\ u = (IF gid <= fid THEN gid ELSE fid)
    OBVIOUS
<1> HIDE DEF g, u
<1>8. /\ ns \in Seq(Name) /\ Len(ns) = n + g /\ Len(ns) >= 1 /\ Up(ns)
      /\ Replaced(s, ns, u, n, g, D)
      /\ \A i \in 1 .. Len(ns) : ns[i] = y \/ \E h \in 1 .. n : ns[i] = s[h]
    <2>1. ns = IF over THEN RemoveAt(s, fid + 1)
               ELSE InsertAt(RemoveAt(s, fid + 1), IF gid <= fid THEN gid + 1 ELSE gid, y)
        BY DEF s
    <2>2. /\ s \in Seq(Name) /\ Up(s) /\ fid \in Nat /\ fid < Len(s) /\ gid \in 0 .. Len(s)
          /\ s[fid + 1] = x /\ y \in Name /\ x # y /\ over \in BOOLEAN
          /\ over => gid < Len(s) /\ s[gid + 1] = y
          /\ ~over => Fits(s, gid, gid, y)
        BY <1>2, <1>3, <1>6 DEF n
    <2>3. Becomes(s, fid, gid, over, x, y, ns, g, u)
        BY <1>7, <2>1, <2>2 DEF Becomes
    <2>4. BecomesWell(s, x, y, ns, g, u)
        BY <2>3, RenamedNames
    <2> QED BY <2>4 DEF n, BecomesWell
<1>9. g \in Int /\ u \in Nat /\ u <= n /\ u <= fid /\ u <= gid
      /\ del \in Nat /\ gid \in Nat /\ del < None /\ gid < None /\ del # gid
    <2>1. over => gid # fid
        BY <1>2
    <2> QED BY <1>2, <1>3, <1>4, <1>7, <2>1
<1>10. ASSUME NEW i \in Nat, i # 0 PROVE Slides(0, n, del, gid, i, 0, u, n, g)
    <2>1. ASSUME NEW h \in 0 .. n, Keeps(h, del, gid)
          PROVE  0 + h < u /\ 0 + Shifted(h, del, gid, i, 0) = 0 + h
        <3>1. h < del /\ h < gid
            BY <1>9, <2>1 DEF Keeps
        <3>2. h < u
            BY <1>2, <1>3, <1>7, <1>9, <3>1
        <3>3. Shifted(h, del, gid, i, 0) = h
            BY <1>9, <3>1 DEF Shifted
        <3> QED BY <1>3, <1>9, <3>2, <3>3
    <2> QED BY <2>1 DEF Slides
<1>11. ~Drops(del, gid)
    BY <1>9 DEF Drops
<1>12. ASSUME NEW z \in D \ {}
       PROVE  z \notin First(all, Len(all)) \/ \E i \in u + 1 .. n : z = s[i]
    <2>1. fid + 1 \in u + 1 .. n
        BY <1>2, <1>3, <1>9
    <2>2. over => gid + 1 \in u + 1 .. n
        BY <1>2, <1>3, <1>9
    <2> QED BY <1>2, <2>1, <2>2
<1>13. Swaps(c, b, all, D, k, l, ns, del, gid, {}, u, n, g, D)
    <2>1. \A i \in 1 .. Len(l) : Slides(0, n, del, gid, i, 0, u, n, g)
        <3>1. \A i \in 1 .. Len(l) : i \in Nat /\ i # 0
            BY DEF World
        <3> QED BY <1>10, <3>1
    <2>2. g = Len(ns) - n
        BY <1>3, <1>8, <1>9
    <2>3. \A a \in 1 .. Len(ns) : (\E h \in 1 .. n : ns[a] = s[h]) \/ Fits(all, b[k], b[k + 1], ns[a])
        <3>1. CASE over
            <4>1. gid + 1 \in 1 .. n /\ s[gid + 1] = y
                BY <1>2, <1>3, <3>1
            <4> QED BY <1>8, <4>1
        <3>2. CASE ~over
            BY <1>6, <1>8, <3>2
        <3> QED BY <1>2, <3>1, <3>2
    <2>4. D \subseteq D /\ {} \subseteq D
        OBVIOUS
    <2> QED BY <1>1, <1>8, <1>9, <1>11, <1>12, <2>1, <2>2, <2>3, <2>4 DEF Swaps, s, n
<1> DEFINE E == {}
<1>14. Swaps(c, b, all, D, k, l, ns, del, gid, E, u, n, g, D)
    BY <1>13
<1> HIDE DEF E
<1>15. \E B, p, e, all0 : Made(R, B, p, e, c, b, all, k, l, all0, E, u, n, g, D)
    BY <1>14, SwapOf
<1> QED BY <1>15 DEF E

-----------------------------------------------------------------------------
(* A part with one entry drops out with it.                                   *)

\* Chain C is chain c without part k.
Dropped(c, b, all, k, C, B, all0) ==
    /\ Spread(C, B, all0) /\ Up(all0)
    /\ Replaced(all, all0, b[k], b[k] + 1, 0 - 1, {c[k].names[1]})
    /\ Len(C) = Len(c) - 1
    /\ \A j \in 1 .. Len(c) : /\ j < k => C[j] = c[j] /\ B[j] = b[j]
                              /\ j > k => C[j - 1] = c[j] /\ B[j - 1] = b[j] - 1

LEMMA DropPlaces ==
    ASSUME NEW c, NEW b, NEW all, Spread(c, b, all), Up(all), NEW k \in 1 .. Len(c), k > 1,
           Len(c[k].names) = 1, NEW C, C = RemoveAt(c, k)
    PROVE  \E B, all0 : Dropped(c, b, all, k, C, B, all0)
<1> DEFINE N == Len(c)
           M == N - 1
           L == Len(all)
           y == b[k]
           B == [j \in 1 .. M + 1 |-> IF j <= k THEN b[j] ELSE b[j + 1] - 1]
           all0 == RemoveAt(all, y + 1)
<1>1. Parts(c) /\ Offsets(c, b) /\ all \in Seq(Name) /\ L = b[N + 1] /\ c \in Seq(Part)
    BY DEF Spread, Parts
<1>2. N \in Nat /\ k \in Nat /\ k >= 1 /\ k <= N /\ M \in Nat /\ M >= 1
    BY <1>1, PartsOf
<1>3. /\ \A j \in 1 .. N + 1 : b[j] \in Nat
      /\ b[1] = 0
      /\ \A j \in 1 .. N : b[j + 1] = b[j] + Len(c[j].names)
    BY <1>1, OffsetsOf
<1>4. y \in Nat /\ b[k + 1] = y + 1 /\ y + 1 <= L /\ L \in Nat
    <2>1. /\ b[k] \in Nat /\ b[k + 1] = b[k] + Len(c[k].names)
          /\ b[k + 1] <= Len(all) /\ Len(all) \in Nat
        BY ZenonT(60), PlacesOf
    <2>2. b[k + 1] = b[k] + 1
        BY <2>1
    <2> QED BY <2>1, <2>2
<1>5. C \in Seq(Part) /\ Len(C) = M
    BY <1>1, RemoveOf
<1>6. \A j \in 1 .. k - 1 : C[j] = c[j]
    BY <1>1, RemoveOf
<1>7. \A j \in k + 1 .. N : C[j - 1] = c[j]
    BY <1>1, RemoveOf
<1>8. \A j \in k + 1 .. N + 1 : b[j] >= 1
    <2>1. \A j \in k + 1 .. N + 1 : j \in 1 .. N + 1 /\ k + 1 \in 1 .. N + 1 /\ k + 1 <= j
        BY <1>2
    <2>2. \A i, j \in 1 .. N + 1 : i <= j => b[i] <= b[j]
        BY <1>1, OffsetsOf
    <2>3. ASSUME NEW j \in k + 1 .. N + 1 PROVE b[j] >= 1
        <3>1. b[k + 1] <= b[j] /\ b[j] \in Nat
            BY <1>3, <2>1, <2>2
        <3> HIDE DEF y
        <3> QED BY <1>4, <3>1
    <2> QED BY <2>3
<1> HIDE DEF N, M, L, y, all0
<1>9. /\ \A j \in 1 .. N : /\ j < k => C[j] = c[j]
                           /\ j > k => C[j - 1] = c[j]
      /\ \A i \in 1 .. M : (i < k /\ C[i] = c[i]) \/ (i >= k /\ i + 1 \in 1 .. N /\ C[i] = c[i + 1])
    <2>1. ASSUME NEW i \in 1 .. M
          PROVE  (i < k /\ C[i] = c[i]) \/ (i >= k /\ i + 1 \in 1 .. N /\ C[i] = c[i + 1])
        <3>1. CASE i < k
            BY <1>2, <1>6, <3>1
        <3>2. CASE i >= k
            <4>1. i + 1 \in k + 1 .. N /\ (i + 1) - 1 = i /\ i + 1 \in 1 .. N
                BY <1>2, <3>2 DEF M
            <4>2. C[(i + 1) - 1] = c[i + 1]
                BY <1>7, <4>1
            <4> QED BY <3>2, <4>1, <4>2
        <3> QED BY <1>2, <3>1, <3>2
    <2> QED BY <1>2, <1>6, <1>7, <2>1
<1>10. /\ \A j \in 1 .. N : /\ j < k => B[j] = b[j]
                            /\ j > k => B[j - 1] = b[j] - 1
       /\ B \in [1 .. M + 1 -> Nat] /\ B[1] = 0 /\ B[M + 1] = L - 1
       /\ \A i \in 1 .. M : B[i + 1] = B[i] + Len(C[i].names)
    <2>1. ASSUME NEW j \in 1 .. N
          PROVE  /\ j < k => B[j] = b[j]
                 /\ j > k => B[j - 1] = b[j] - 1
        <3>1. j < k => j \in 1 .. M + 1 /\ j <= k
            BY <1>2 DEF M
        <3>2. j > k => /\ j - 1 \in 1 .. M + 1 /\ (j - 1) + 1 = j
                       /\ ~(j - 1 <= k) \/ (j = k + 1 /\ j - 1 = k)
            BY <1>2 DEF M
        <3>3. ASSUME j > k, j = k + 1, j - 1 = k PROVE B[j - 1] = b[j] - 1
            <4>1. B[k] = b[k] /\ b[k + 1] - 1 = b[k]
                BY <1>4, <3>2, <3>3 DEF y
            <4> QED BY <3>3, <4>1
        <3> QED BY <3>1, <3>2, <3>3
    <2>2. ASSUME NEW j \in 1 .. M + 1
          PROVE  (IF j <= k THEN b[j] ELSE b[j + 1] - 1) \in Nat
        <3>1. j \in 1 .. N + 1 /\ (~(j <= k) => j + 1 \in k + 1 .. N + 1 /\ j + 1 \in 1 .. N + 1)
            BY <1>2 DEF M
        <3>2. ~(j <= k) => b[j + 1] \in Nat /\ b[j + 1] >= 1
            BY <1>3, <1>8, <3>1
        <3> QED BY <1>3, <3>1, <3>2
    <2>3. B \in [1 .. M + 1 -> Nat]
        BY <2>2
    <2>4. B[1] = 0
        <3>1. 1 \in 1 .. M + 1 /\ 1 <= k
            BY <1>2
        <3> QED BY <1>3, <3>1
    <2>5. B[M + 1] = L - 1
        <3>1. M + 1 \in 1 .. M + 1 /\ M + 1 = N
            BY <1>2 DEF M
        <3>2. CASE k = N
            <4>1. B[M + 1] = y /\ L = y + 1
                BY <1>1, <1>4, <3>1, <3>2 DEF y
            <4> QED BY <1>4, <4>1
        <3>3. CASE k # N
            <4>1. ~(M + 1 <= k) /\ (M + 1) + 1 = N + 1
                BY <1>2, <3>1, <3>3
            <4> QED BY <1>1, <3>1, <4>1
        <3> QED BY <3>2, <3>3
    <2>6. ASSUME NEW i \in 1 .. M PROVE B[i + 1] = B[i] + Len(C[i].names)
        <3>1. i \in 1 .. M + 1 /\ i + 1 \in 1 .. M + 1 /\ i \in 1 .. N /\ i + 1 \in 1 .. N
            BY <1>2 DEF M
        <3>2. CASE i < k
            <4>1. i <= k /\ i + 1 <= k /\ C[i] = c[i]
                BY <1>2, <1>9, <3>2
            <4>2. B[i] = b[i] /\ B[i + 1] = b[i + 1]
                BY <3>1, <4>1
            <4> QED BY <1>3, <3>1, <4>1, <4>2
        <3>3. CASE i >= k
            <4>1. C[i] = c[i + 1]
                BY <1>2, <1>9, <3>3
            <4>2. B[i + 1] = b[(i + 1) + 1] - 1
                <5>1. ~(i + 1 <= k)
                    BY <1>2, <3>3
                <5> QED BY <3>1, <5>1
            <4>3. B[i] = b[i + 1] - 1
                <5>1. CASE i = k
                    <6>1. B[i] = y /\ b[i + 1] = y + 1
                        BY <1>2, <1>4, <3>1, <5>1 DEF y
                    <6> QED BY <1>4, <6>1
                <5>2. CASE i # k
                    <6>1. ~(i <= k)
                        BY <1>2, <3>3, <5>2
                    <6> QED BY <3>1, <6>1
                <5> QED BY <5>1, <5>2
            <4> DEFINE z == b[i + 1]
                       w == b[(i + 1) + 1]
                       o == Len(c[i + 1].names)
            <4>4. w = z + o /\ z \in Nat /\ o \in Nat
                <5>1. i + 1 \in 1 .. N + 1
                    BY <1>2, <3>1
                <5> QED BY <1>1, <1>3, <3>1, <5>1, PartsOf DEF N
            <4> HIDE DEF z, w, o
            <4>5. w - 1 = (z - 1) + o
                BY <4>4
            <4>6. B[i + 1] = w - 1 /\ B[i] = z - 1 /\ Len(C[i].names) = o
                BY <4>1, <4>2, <4>3 DEF w, z, o
            <4> QED BY <4>5, <4>6
        <3> QED BY <1>2, <3>2, <3>3
    <2> QED BY <2>1, <2>3, <2>4, <2>5, <2>6
<1> HIDE DEF B
<1>11. /\ all0 \in Seq(Name) /\ Len(all0) = L - 1 /\ Up(all0)
       /\ Replaced(all, all0, y, y + 1, 0 - 1, {all[y + 1]})
    <2>1. y \in 0 .. Len(all) /\ y < Len(all)
        BY <1>4 DEF L
    <2> HIDE DEF y
    <2> QED BY <1>1, <2>1, UpRemove DEF all0, L
<1>12. all[y + 1] = c[k].names[1]
    <2>1. \A a \in 1 .. Len(c[k].names) : all[b[k] + a] = c[k].names[a]
        BY PlacesOf
    <2> QED BY <2>1 DEF y
<1>13. ASSUME NEW i \in 1 .. M, NEW a \in 1 .. Len(C[i].names)
       PROVE  all0[B[i] + a] = C[i].names[a]
    <2>1. /\ \A j \in 1 .. y : all0[j] = all[j]
          /\ \A j \in (y + 1) + 1 .. L : all0[j + (0 - 1)] = all[j]
        BY <1>11 DEF Replaced, L
    <2>2. CASE i < k
        <3>1. C[i] = c[i] /\ B[i] = b[i] /\ i \in 1 .. N
            BY <1>2, <1>9, <1>10, <2>2 DEF M
        <3>2. all[b[i] + a] = c[i].names[a]
            <4>1. i \in 1 .. Len(c) /\ a \in 1 .. Len(c[i].names)
                BY <3>1 DEF N
            <4>2. \A o \in 1 .. Len(c[i].names) : all[b[i] + o] = c[i].names[o]
                BY <4>1 DEF Spread
            <4> QED BY <4>1, <4>2
        <3>3. /\ b[i] \in Nat /\ Len(c[i].names) \in Nat /\ b[i + 1] = b[i] + Len(c[i].names)
              /\ b[i + 1] <= y
            <4>1. i \in 1 .. Len(c)
                BY <3>1 DEF N
            <4>2. /\ b[i] \in Nat /\ Len(c[i].names) \in Nat
                  /\ b[i + 1] = b[i] + Len(c[i].names)
                BY <4>1, PlacesOf
            <4>3. \A h \in 1 .. Len(c) : i < h => b[i + 1] <= b[h]
                BY <4>1, PlacesOf
            <4>4. b[i + 1] <= b[k]
                BY <2>2, <4>3
            <4> QED BY <4>2, <4>4 DEF y
        <3> DEFINE z == b[i]
                   o == Len(c[i].names)
        <3>4. z \in Nat /\ o \in Nat /\ z + o <= y /\ a \in 1 .. o
            BY <3>1, <3>3
        <3> HIDE DEF z, o
        <3>5. z + a \in 1 .. y
            BY <1>4, <3>4
        <3> QED BY <2>1, <3>1, <3>2, <3>5 DEF z
    <2>3. CASE i >= k
        <3>1. C[i] = c[i + 1] /\ i + 1 \in 1 .. N /\ i + 1 > k /\ (i + 1) - 1 = i
            BY <1>2, <1>9, <2>3
        <3>2. B[i] = b[i + 1] - 1
            BY <1>10, <3>1
        <3>3. all[b[i + 1] + a] = c[i + 1].names[a]
            <4>1. i + 1 \in 1 .. Len(c) /\ a \in 1 .. Len(c[i + 1].names)
                BY <3>1 DEF N
            <4>2. \A o \in 1 .. Len(c[i + 1].names) : all[b[i + 1] + o] = c[i + 1].names[o]
                BY <4>1 DEF Spread
            <4> QED BY <4>1, <4>2
        <3>4. /\ b[i + 1] \in Nat /\ Len(c[i + 1].names) \in Nat
              /\ b[(i + 1) + 1] = b[i + 1] + Len(c[i + 1].names) /\ b[(i + 1) + 1] <= L
            BY <3>1, PlacesOf DEF N, L
        <3>5. b[k + 1] <= b[i + 1]
            BY <1>2, <3>1, PlacesOf DEF N
        <3> DEFINE z == b[i + 1]
                   o == Len(c[i + 1].names)
        <3>6. z \in Nat /\ o \in Nat /\ z + o <= L /\ a \in 1 .. o /\ y + 1 <= z
            BY <1>4, <3>1, <3>4, <3>5
        <3>7. B[i] = z - 1 /\ all[z + a] = C[i].names[a]
            BY <3>1, <3>2, <3>3
        <3> HIDE DEF z, o
        <3>8. z + a \in (y + 1) + 1 .. L /\ (z + a) + (0 - 1) = (z - 1) + a
            BY <1>4, <3>6
        <3>9. all0[(z + a) + (0 - 1)] = all[z + a]
            BY <2>1, <3>8
        <3> QED BY <3>7, <3>8, <3>9
    <2> QED BY <1>2, <2>2, <2>3
<1>14. Parts(C)
    <2>1. C # <<>>
        BY <1>2, <1>5
    <2>2. ASSUME NEW j \in 1 .. M PROVE \E h \in 1 .. N : C[j] = c[h] /\ (j > 1 => h > 1)
                                                       /\ ((j < k /\ h = j) \/ (j >= k /\ h = j + 1))
        <3>1. j < k => j \in 1 .. N
            BY <1>2 DEF M
        <3>2. j + 1 > 1
            OBVIOUS
        <3> QED BY <1>9, <3>1, <3>2
    <2>3. \A j \in 1 .. M : j > 1 => C[j].names # <<>>
        BY <1>1, <2>2 DEF Parts, N
    <2>4. ASSUME NEW i \in 1 .. M, NEW j \in 1 .. M, i # j PROVE C[i].pair # C[j].pair
        <3>1. PICK h \in 1 .. N : C[i] = c[h] /\ ((i < k /\ h = i) \/ (i >= k /\ h = i + 1))
            BY <2>2
        <3>2. PICK o \in 1 .. N : C[j] = c[o] /\ ((j < k /\ o = j) \/ (j >= k /\ o = j + 1))
            BY <2>2
        <3>3. h # o
            BY <1>2, <2>4, <3>1, <3>2
        <3> QED BY <1>1, <3>1, <3>2, <3>3 DEF Parts, N
    <2> QED BY <1>5, <2>1, <2>3, <2>4 DEF Parts
<1>15. Offsets(C, B)
    BY <1>5, <1>10 DEF Offsets
<1>16. Spread(C, B, all0)
    BY <1>5, <1>10, <1>11, <1>13, <1>14, <1>15 DEF Spread
<1>17. Replaced(all, all0, b[k], b[k] + 1, 0 - 1, {c[k].names[1]})
    BY <1>11, <1>12 DEF y
<1>18. \A j \in 1 .. N : /\ j < k => C[j] = c[j] /\ B[j] = b[j]
                         /\ j > k => C[j - 1] = c[j] /\ B[j - 1] = b[j] - 1
    BY <1>9, <1>10
<1> QED BY <1>5, <1>11, <1>16, <1>17, <1>18 DEF N, M, Dropped

\* Part k has but the entry x, and no handle is in it: it may drop out.
Lone(c, b, all, D, k, l, x, C, r, D0) ==
    /\ k \in 1 .. Len(c) /\ k > 1
    /\ World(c, b, all, D, 0, l)
    /\ Len(c[k].names) = 1 /\ x = c[k].names[1] /\ x \in D
    /\ \A i \in 1 .. Len(l) : l[i].m.pair # c[k].pair
    /\ C = RemoveAt(c, k) /\ r = k - 1 /\ D0 = D \ {x}

LEMMA DropOf ==
    ASSUME NEW c, NEW b, NEW all, NEW D, NEW k, NEW l, NEW x, NEW C, NEW r, NEW D0,
           Lone(c, b, all, D, k, l, x, C, r, D0)
    PROVE  \E B, all0 : World(C, B, all0, D0, r, l) /\ r \in 1 .. Len(C)
<1> DEFINE u == b[k]
           v == b[k] + 1
           g == 0 - 1
           X == {x}
<1>0. /\ k \in 1 .. Len(c) /\ k > 1
      /\ World(c, b, all, D, 0, l)
      /\ Len(c[k].names) = 1 /\ x = c[k].names[1] /\ x \in D
      /\ \A i \in 1 .. Len(l) : l[i].m.pair # c[k].pair
      /\ C = RemoveAt(c, k) /\ r = k - 1 /\ D0 = D \ {x}
    BY DEF Lone
<1>1. Spread(c, b, all) /\ Up(all) /\ l \in Seq(HandleSet)
      /\ \A i \in 1 .. Len(l) : Good(c, b, all, D, 0, l[i])
    BY <1>0 DEF World
<1>2. PICK B, all0 :
         /\ Spread(C, B, all0) /\ Up(all0)
         /\ Replaced(all, all0, u, v, g, X)
         /\ Len(C) = Len(c) - 1
         /\ \A j \in 1 .. Len(c) : /\ j < k => C[j] = c[j] /\ B[j] = b[j]
                                   /\ j > k => C[j - 1] = c[j] /\ B[j - 1] = b[j] - 1
    <2>1. PICK B, all0 : Dropped(c, b, all, k, C, B, all0)
        BY <1>0, <1>1, DropPlaces
    <2> QED BY <1>0, <2>1 DEF Dropped
<1>3. /\ Parts(c) /\ Parts(C) /\ Len(c) \in Nat /\ k \in Nat /\ k <= Len(c) /\ r \in 1 .. Len(C)
      /\ r + 1 = k /\ Len(C) \in Nat
    <2>1. Parts(c) /\ Parts(C) /\ Len(c) \in Nat
        BY <1>0, <1>1, <1>2, PartsOf DEF Spread
    <2> QED BY <1>0, <1>2, <2>1
<1>4. /\ u \in Nat /\ b[k + 1] = v /\ v <= Len(all) /\ Len(all) \in Nat
      /\ \A j \in 1 .. Len(c) : j > k => b[k + 1] <= b[j]
    <2>1. /\ b[k] \in Nat /\ b[k + 1] = b[k] + Len(c[k].names)
          /\ b[k + 1] <= Len(all) /\ Len(all) \in Nat
        <3>1. k \in 1 .. Len(c) /\ Spread(c, b, all)
            BY <1>0, <1>1
        <3> QED BY ZenonT(60), <3>1, PlacesOf
    <2>2. b[k + 1] = v
        BY <1>0, <2>1
    <2>3. \A j \in 1 .. Len(c) : k < j => b[k + 1] <= b[j]
        BY <1>0, <1>1, PlacesOf
    <2>4. \A j \in 1 .. Len(c) : j > k => k < j
        BY <1>0, <1>3
    <2> QED BY <1>0, <2>1, <2>2, <2>3, <2>4
<1>5. Renews(c, b, all, all0, k, u, v, g, X, D, D0)
    <2>1. all[u + 1] = x /\ u + 1 \in u + 1 .. v
        <3>1. \A a \in 1 .. Len(c[k].names) : all[b[k] + a] = c[k].names[a]
            BY <1>0, <1>1 DEF Spread
        <3>2. all[b[k] + 1] = x
            BY <1>0, <3>1
        <3> QED BY <1>0, <1>4, <3>2
    <2>2. u <= v /\ b[k] <= u /\ v <= b[k + 1]
        BY <1>0, <1>4
    <2> HIDE DEF u, v
    <2> QED BY <1>0, <1>2, <2>1, <2>2 DEF Renews
<1> HIDE DEF u, v, g, X
<1>6. \A w, z \in Nat : w + z >= v => (w - 1) + z = (w + z) + g
    BY DEF g
<1>7. ASSUME NEW d, Good(c, b, all, D, 0, d), d.m.pair # c[k].pair PROVE Good(C, B, all0, D0, r, d)
    <2>1. /\ d \in HandleSet
          /\ d \in DirHandles => /\ d.head = c[1].pair
                                 /\ d.start \subseteq First(all, Len(all)) \ D
                                 /\ d.seen \intersect D = {}
        BY <1>0, <1>7 DEF Good
    <2>2. d \in DirHandles => d.head = C[1].pair
        <3>1. 1 \in 1 .. Len(c) /\ 1 < k
            BY <1>0, <1>3
        <3> QED BY <1>0, <1>2, <2>1, <3>1
    <2>3. Same(d, d)
        BY <1>0, <2>1, SameKind
    <2>4. CASE d \in FileHandles /\ d.m = NoMdir /\ d.gone
        <3>1. d \notin DirHandles
            BY <1>0, <2>1, <2>4, KindOf
        <3> QED BY <1>0, <2>1, <2>4, <3>1 DEF Good
    <2>5. ASSUME NEW j \in 1 .. Len(c), In(c, d, j, 0), Knows(all, D, d, b[j] + d.id)
          PROVE  Good(C, B, all0, D0, r, d)
        <3> DEFINE P == b[j] + d.id
        <3>1. j # k
            BY <1>0, <1>7, <2>5 DEF In
        <3>2. /\ d.id \in Nat /\ P \in 0 .. Len(all) /\ P <= b[j + 1]
              /\ d \in FileHandles => P < Len(all) /\ d.id < Len(c[j].names)
            BY <1>0, <1>1, <2>1, <2>5, PlaceOf DEF Knows
        <3>3. /\ b[j] \in Nat /\ Len(c[j].names) \in Nat /\ b[j + 1] = b[j] + Len(c[j].names)
              /\ j < k => b[j + 1] <= b[k]
            BY ZenonT(60), <1>0, <1>1, PlacesOf
        <3> DEFINE h == IF j < k THEN j ELSE j - 1
                   Q == IF j < k THEN P ELSE P + g
        <3>4. h \in 1 .. Len(C) /\ C[h] = c[j]
            BY <1>0, <1>2, <1>3, <3>1
        <3>5. Q = B[h] + d.id
            <4>1. CASE j < k
                BY <1>0, <1>2, <4>1
            <4>2. CASE ~(j < k)
                <5>1. j > k
                    BY <1>0, <1>3, <3>1, <4>2
                <5>2. B[h] = b[j] - 1 /\ b[k + 1] <= b[j]
                    BY <1>0, <1>2, <1>4, <4>2, <5>1
                <5> DEFINE y == b[j]
                           w == d.id
                <5>3. y \in Nat /\ w \in Nat /\ y >= v /\ v \in Nat
                    BY SMTT(60), <1>4, <3>2, <3>3, <5>2 DEF v, u
                <5> HIDE DEF y, w
                <5>4. (y - 1) + w = (y + w) + g
                    <6>1. y + w >= v
                        BY <5>3
                    <6> QED BY <1>6, <5>3, <6>1
                <5>5. Q = (y + w) + g /\ B[h] = y - 1
                    BY <1>0, <4>2, <5>2 DEF y, w
                <5> QED BY <1>0, <5>4, <5>5 DEF w
            <4> QED BY <1>0, <4>1, <4>2
        <3>6. \/ P < u /\ Q = P
              \/ P >= v /\ Q = P + g
              \/ P = u /\ Q = P /\ d \in DirHandles
            <4>1. CASE j < k
                <5> DEFINE y == b[j]
                           n == Len(c[j].names)
                           w == d.id
                <5>1. y \in Nat /\ n \in Nat /\ w \in Nat /\ P = y + w /\ y + n <= u /\ w <= n
                      /\ (d \in FileHandles => w < n)
                    BY <1>0, <2>5, <3>2, <3>3, <4>1 DEF In, u
                <5>2. d \in FileHandles \/ d \in DirHandles
                    BY <1>0, <2>1 DEF HandleSet
                <5> HIDE DEF y, n, w, P
                <5> QED BY <1>4, <4>1, <5>1, <5>2
            <4>2. CASE ~(j < k)
                <5>1. j > k
                    BY <1>0, <1>3, <3>1, <4>2
                <5>2. v <= b[j]
                    BY <1>0, <1>4, <5>1
                <5> DEFINE y == b[j]
                           w == d.id
                <5>3. y \in Nat /\ w \in Nat /\ P = y + w /\ v <= y /\ v \in Nat
                    BY <1>4, <3>2, <3>3, <5>2 DEF v, u
                <5> HIDE DEF y, w, P
                <5>4. P >= v
                    BY <1>0, <5>3
                <5> QED BY <1>0, <4>2, <5>4
            <4> QED BY <1>0, <4>1, <4>2
        <3>7. In(C, d, h, r)
            <4>1. /\ d.m.pair = c[j].pair /\ d.m = Fetch(c, c[j].pair)
                  /\ d.id <= Len(c[j].names)
                  /\ d \in FileHandles => d.id < Len(c[j].names) \/ j = Len(c)
                <5>1. j # 0
                    OBVIOUS
                <5> QED BY <1>0, <2>5, <5>1 DEF In
            <4>2. d \in FileHandles => d.id < Len(c[j].names)
                BY <1>0, <3>2
            <4>3. ASSUME h # r PROVE d.m = Fetch(C, C[h].pair)
                <5>1. Fetch(c, c[j].pair) =
                        [pair |-> c[j].pair, count |-> Len(c[j].names),
                         tail |-> IF j < Len(c) THEN c[j + 1].pair ELSE Null]
                    BY <1>0, <1>3, FetchOf
                <5>2. Fetch(C, C[h].pair) =
                        [pair |-> C[h].pair, count |-> Len(C[h].names),
                         tail |-> IF h < Len(C) THEN C[h + 1].pair ELSE Null]
                    BY <1>0, <1>3, <3>4, FetchOf
                <5>3. h < Len(C) <=> j < Len(c)
                    BY <1>0, <1>2, <1>3, <3>1, <4>3
                <5>4. ASSUME j < Len(c) PROVE C[h + 1] = c[j + 1]
                    <6>1. CASE j < k
                        <7>1. h + 1 = j + 1 /\ j + 1 < k /\ j + 1 \in 1 .. Len(c)
                            BY <1>0, <1>3, <4>3, <6>1
                        <7> QED BY <1>0, <1>2, <7>1
                    <6>2. CASE ~(j < k)
                        <7>1. h + 1 = (j + 1) - 1 /\ j + 1 > k /\ j + 1 \in 1 .. Len(c)
                            BY <1>0, <1>3, <3>1, <5>4, <6>2
                        <7> QED BY <1>0, <1>2, <7>1
                    <6> QED BY <1>0, <6>1, <6>2
                <5> QED BY <1>0, <3>4, <4>1, <5>1, <5>2, <5>3, <5>4
            <4> HIDE DEF h
            <4> QED BY <1>0, <3>4, <4>1, <4>2, <4>3 DEF In
        <3>8. Knows(all, D, d, P)
            BY <1>0, <2>5
        <3>9. k \in 1 .. Len(c)
            BY <1>0
        <3> HIDE DEF P, Q, h
        <3> QED BY <3>9, <1>1, <1>5, <2>1, <2>2, <2>3, <3>2, <3>4, <3>5, <3>6, <3>7, <3>8, GoodThere
    <2> QED BY <1>0, <1>7, <2>4, <2>5 DEF Good
<1>8. World(C, B, all0, D0, r, l)
    BY <1>0, <1>1, <1>2, <1>7 DEF World
<1> QED BY <1>0, <1>3, <1>8

-----------------------------------------------------------------------------
(* What is removed is deleted, and forgotten by the handles.                  *)

LEMMA DeletedOf ==
    ASSUME Risks = {},
           NEW c, NEW b, NEW all, NEW D, NEW k \in 1 .. Len(c), NEW l,
           World(c, b, all, D, 0, l), NEW id \in Nat, id < Len(c[k].names),
           NEW x, x = c[k].names[id + 1], x \in D,
           NEW R \in Deleted(State(c, l), k, id)
    PROVE  \E B, all0 : World(R.chain, B, all0, D \ {x}, 0, R.mlist)
<1> DEFINE s == c[k].names
           ns == RemoveAt(s, id + 1)
           E == D \ {x}
<1>1. Spread(c, b, all) /\ Up(all) /\ l \in Seq(HandleSet)
    BY DEF World
<1>2. State(c, l).chain = c /\ State(c, l).mlist = l
    BY DEF State
<1>3. CASE ns = <<>> /\ k > 1
    <2>1. s \in Seq(Name) /\ Up(s)
        BY <1>1, UpPart
    <2>2. Len(s) = 1 /\ id = 0
        <3> HIDE DEF s
        <3>1. id \in 0 .. Len(s) /\ id < Len(s) /\ Len(s) \in Nat
            BY <2>1 DEF s
        <3>2. Len(RemoveAt(s, id + 1)) = Len(s) - 1
            BY <2>1, <3>1, UpRemove
        <3>3. Len(s) - 1 = 0
            BY <1>3, <3>2
        <3> DEFINE n == Len(s)
        <3>4. n \in Nat /\ id < n /\ n - 1 = 0
            BY <3>1, <3>3
        <3> HIDE DEF n
        <3>5. n = 1 /\ id = 0
            BY <3>4
        <3> QED BY <3>5 DEF n
    <2>3. ~DropUnder(State(c, l), k) /\ R \in Touched(State(RemoveAt(c, k), l), k - 1, 0, BOOLEAN)
        <3>1. R \in IF DropUnder(State(c, l), k) /\ "drop" \notin Risks THEN {}
                    ELSE Touched(State(RemoveAt(c, k), l), k - 1, 0, BOOLEAN)
            BY <1>2, <1>3 DEF Deleted
        <3> QED BY <3>1
    <2>4. \A i \in 1 .. Len(l) : l[i].m.pair # c[k].pair
        <3>1. DOMAIN l = 1 .. Len(l)
            BY <1>1
        <3>2. Affected(State(c, l), k) = {}
            BY <2>3 DEF DropUnder
        <3>3. \A i \in 1 .. Len(l) : l[i].m.pair = c[k].pair => l[i] \in Affected(State(c, l), k)
            BY <1>2, <3>1 DEF Affected, Having
        <3> QED BY <3>2, <3>3
    <2> DEFINE C == RemoveAt(c, k)
               r == k - 1
    <2>5. x = c[k].names[1] /\ Len(c[k].names) = 1
        BY <2>2
    <2> HIDE DEF C, s, ns
    <2>6. PICK B, all0 : World(C, B, all0, E, r, l) /\ r \in 1 .. Len(C)
        <3>1. Lone(c, b, all, D, k, l, x, C, r, E)
            BY <1>3, <2>4, <2>5 DEF Lone, C
        <3> HIDE DEF r, E
        <3> QED BY <3>1, DropOf
    <2>7. R \in Touched(State(C, l), r, 0, BOOLEAN)
        BY <2>3 DEF C
    <2> HIDE DEF r, E
    <2>8. PICK may : may = BOOLEAN
        OBVIOUS
    <2>9. 0 \in 0 .. Len(l) /\ may \subseteq BOOLEAN /\ R \in Touched(State(C, l), r, 0, may)
        BY <1>1, <2>7, <2>8
    <2>10. \E B2, p, e :
              /\ World(R.chain, B2, all0, E, 0, R.mlist) /\ Len(R.mlist) = Len(l)
              /\ Rebuilt(C, B, R.chain, B2, r, p, e, 0)
              /\ \A i \in 1 .. Len(l) : Same(R.mlist[i], l[i])
        BY <2>6, <2>9, TouchOf
    <2> QED BY <2>10 DEF E
<1>4. CASE ~(ns = <<>> /\ k > 1)
    <2>1. World(c, b, all, D, k, l)
        BY WorldAt
    <2>2. PICK may : may = BOOLEAN
        OBVIOUS
    <2>3. may \subseteq BOOLEAN /\ R \in Committed(State(c, l), k, ns, id, None, 0, may)
        BY <1>2, <1>4, <2>2 DEF Deleted
    <2>4. PICK B, p, e, all0 :
             Made(R, B, p, e, c, b, all, k, l, all0, D \ {x}, id, id + 1, 0 - 1, {x})
        BY <1>4, <2>1, <2>3, DeleteOf
    <2> QED BY <2>4 DEF Made
<1> QED BY <1>3, <1>4

LEMMA UnlistedOf ==
    ASSUME Risks = {},
           NEW c, NEW b, NEW all, NEW D, NEW l, World(c, b, all, D, 0, l),
           NEW n, NEW R \in Unlisted(State(c, l), n)
    PROVE  \E B : World(R.chain, B, all, D, 0, R.mlist)
<1>1. State(c, l).chain = c /\ State(c, l).mlist = l
    BY DEF State
<1>2. CASE R = State(c, l)
    BY <1>1, <1>2
<1>3. CASE R \in Touched(State(c, l), Len(c), 0, BOOLEAN)
    <2> DEFINE k == Len(c)
    <2>1. k \in 1 .. Len(c) /\ l \in Seq(HandleSet)
        <3>1. Parts(c) /\ l \in Seq(HandleSet)
            BY DEF World, Spread
        <3> QED BY <3>1, PartsOf
    <2> HIDE DEF k
    <2>2. World(c, b, all, D, k, l)
        BY WorldAt
    <2>3. PICK may : may = BOOLEAN
        OBVIOUS
    <2>4. 0 \in 0 .. Len(l) /\ may \subseteq BOOLEAN /\ R \in Touched(State(c, l), k, 0, may)
        BY <1>3, <2>1, <2>3 DEF k
    <2>5. \E B, p, e :
             /\ World(R.chain, B, all, D, 0, R.mlist) /\ Len(R.mlist) = Len(l)
             /\ Rebuilt(c, b, R.chain, B, k, p, e, 0)
             /\ \A i \in 1 .. Len(l) : Same(R.mlist[i], l[i])
        BY <2>1, <2>2, <2>4, TouchOf
    <2> QED BY <2>5
<1> QED BY <1>1, <1>2, <1>3 DEF Unlisted

LEMMA ForgetOf ==
    ASSUME NEW d \in HandleSet, NEW x
    PROVE  /\ d \in FileHandles => /\ Forget(d, x) \in FileHandles /\ Forget(d, x).name = d.name
                                   /\ Forget(d, x).gone <=> d.gone \/ d.name = x
           /\ d \in DirHandles => /\ Forget(d, x) \in DirHandles /\ Forget(d, x).head = d.head
                                  /\ Forget(d, x).seen = d.seen \ {x}
                                  /\ Forget(d, x).start = d.start \ {x}
           /\ Forget(d, x).m = d.m /\ Forget(d, x).id = d.id
<1>1. ASSUME d \in FileHandles
      PROVE  /\ Forget(d, x) \in FileHandles /\ Forget(d, x).name = d.name
             /\ Forget(d, x).gone <=> d.gone \/ d.name = x
             /\ Forget(d, x).m = d.m /\ Forget(d, x).id = d.id
    <2>1. ~IsDir(d)
        BY <1>1, KindOf
    <2>2. PICK w \in BOOLEAN : w = (d.gone \/ d.name = x)
        OBVIOUS
    <2>3. Forget(d, x) = [d EXCEPT !.gone = w]
        BY <2>1, <2>2 DEF Forget
    <2> QED BY <1>1, <2>2, <2>3 DEF FileHandles
<1>2. ASSUME d \in DirHandles
      PROVE  /\ Forget(d, x) \in DirHandles /\ Forget(d, x).head = d.head
             /\ Forget(d, x).seen = d.seen \ {x}
             /\ Forget(d, x).start = d.start \ {x}
             /\ Forget(d, x).m = d.m /\ Forget(d, x).id = d.id
    <2>1. IsDir(d)
        BY <1>2, KindOf
    <2>2. Forget(d, x) = [d EXCEPT !.seen = d.seen \ {x}, !.start = d.start \ {x}]
        BY <2>1 DEF Forget
    <2>3. d.seen \ {x} \in SUBSET Name /\ d.start \ {x} \in SUBSET Name
        BY <1>2 DEF DirHandles
    <2> QED BY <1>2, <2>2, <2>3 DEF DirHandles
<1> QED BY <1>1, <1>2 DEF HandleSet

LEMMA ForgottenOf ==
    ASSUME NEW c, NEW b, NEW all, NEW D, NEW l, World(c, b, all, D, 0, l), NEW x
    PROVE  World(c, b, all, D \union {x}, 0, Forgotten(l, x)) /\ Len(Forgotten(l, x)) = Len(l)
<1>1. Spread(c, b, all) /\ Up(all) /\ l \in Seq(HandleSet)
      /\ \A i \in 1 .. Len(l) : Good(c, b, all, D, 0, l[i])
    BY DEF World
<1> DEFINE E == D \union {x}
<1>2. ASSUME NEW d, Good(c, b, all, D, 0, d) PROVE Good(c, b, all, E, 0, Forget(d, x))
    <2> DEFINE y == Forget(d, x)
    <2>1. /\ d \in HandleSet
          /\ d \in DirHandles => /\ d.head = c[1].pair
                                 /\ d.start \subseteq First(all, Len(all)) \ D
                                 /\ d.seen \intersect D = {}
        BY <1>2 DEF Good
    <2>2. /\ d \in FileHandles => y \in FileHandles /\ y.name = d.name /\ (y.gone <=> d.gone \/ d.name = x)
          /\ d \in DirHandles => y \in DirHandles /\ y.head = d.head /\ y.seen = d.seen \ {x}
                                 /\ y.start = d.start \ {x}
          /\ y.m = d.m /\ y.id = d.id
        BY <2>1, ForgetOf
    <2> HIDE DEF y
    <2>3. y \in HandleSet /\ (y \in FileHandles <=> d \in FileHandles)
          /\ (y \in DirHandles <=> d \in DirHandles)
        <3>1. d \in FileHandles \/ d \in DirHandles
            BY <2>1 DEF HandleSet
        <3>2. ~(d \in FileHandles /\ d \in DirHandles)
            BY <2>1, KindOf
        <3>3. y \in HandleSet
            BY <2>2, <3>1 DEF HandleSet
        <3>4. ~(y \in FileHandles /\ y \in DirHandles)
            BY <3>3, KindOf
        <3> QED BY <2>2, <3>1, <3>2, <3>3, <3>4
    <2>4. y \in DirHandles => /\ y.head = c[1].pair
                              /\ y.start \subseteq First(all, Len(all)) \ E
                              /\ y.seen \intersect E = {}
        BY <2>1, <2>2, <2>3
    <2>5. ASSUME d \in FileHandles, d.m = NoMdir, d.gone PROVE Good(c, b, all, E, 0, y)
        <3>1. y \in FileHandles /\ y.m = NoMdir /\ y.gone
            BY <2>2, <2>5
        <3> QED BY <2>3, <2>4, <3>1 DEF Good
    <2>6. ASSUME NEW j \in 1 .. Len(c), In(c, d, j, 0), Knows(all, D, d, b[j] + d.id)
          PROVE  Good(c, b, all, E, 0, y)
        <3>1. In(c, y, j, 0)
            BY <2>2, <2>3, <2>6, InIs
        <3>2. Knows(all, E, y, b[j] + y.id)
            <4> DEFINE P == b[j] + d.id
            <4>1. Knows(all, D, d, P) /\ P = b[j] + y.id
                BY <2>2, <2>6
            <4> HIDE DEF P
            <4>2. y \in FileHandles => P < Len(all) /\ all[P + 1] = y.name /\ (y.gone <=> y.name \in E)
                BY <2>2, <2>3, <4>1 DEF Knows
            <4>3. y \in DirHandles => y.seen \subseteq First(all, P) /\ y.start \intersect First(all, P) \subseteq y.seen
                BY <2>2, <2>3, <4>1 DEF Knows
            <4> QED BY <4>1, <4>2, <4>3 DEF Knows
        <3> QED BY <2>3, <2>4, <3>1, <3>2 DEF Good
    <2>7. Good(c, b, all, E, 0, y)
        BY <1>2, <2>5, <2>6 DEF Good
    <2> QED BY <2>7 DEF y
<1> DEFINE L == Forgotten(l, x)
<1>3. L \in Seq(HandleSet) /\ Len(L) = Len(l) /\ \A i \in 1 .. Len(l) : L[i] = Forget(l[i], x)
    <2>1. DOMAIN l = 1 .. Len(l) /\ Len(l) \in Nat
        BY <1>1
    <2>2. L = [i \in 1 .. Len(l) |-> Forget(l[i], x)]
        BY <2>1 DEF Forgotten
    <2>3. \A i \in 1 .. Len(l) : Forget(l[i], x) \in HandleSet
        BY <1>1, <1>2 DEF Good
    <2> QED BY <2>1, <2>2, <2>3
<1> HIDE DEF L, E
<1>4. \A i \in 1 .. Len(L) : Good(c, b, all, E, 0, L[i])
    BY <1>1, <1>2, <1>3
<1>5. World(c, b, all, E, 0, L)
    BY <1>1, <1>3, <1>4 DEF World
<1> QED BY <1>3, <1>5 DEF L, E

-----------------------------------------------------------------------------
(* Where a name is found.                                                     *)

\* The names of s before n are the first of them.
LEMMA FirstBefore ==
    ASSUME NEW s \in Seq(Name), Up(s), NEW n \in Nat
    PROVE  LET q == Cardinality({j \in DOMAIN s : s[j] < n})
           IN /\ q \in 0 .. Len(s)
              /\ \A i \in 1 .. q : s[i] < n
              /\ \A i \in q + 1 .. Len(s) : s[i] >= n
<1> DEFINE N == Len(s)
           T == {j \in 1 .. N : s[j] >= n}
<1>1. N \in Nat /\ DOMAIN s = 1 .. N /\ \A j \in 1 .. N : s[j] \in Nat
    BY NatNames
<1>2. \E q \in 0 .. N : (\A i \in 1 .. q : s[i] < n) /\ (\A i \in q + 1 .. N : s[i] >= n)
    <2>1. CASE T = {}
        <3>1. \A i \in 1 .. N : s[i] < n
            BY <1>1, <2>1
        <3>2. N \in 0 .. N /\ \A i \in N + 1 .. N : FALSE
            BY <1>1
        <3> QED BY <3>1, <3>2
    <2>2. CASE T # {}
        <3>1. PICK z : z \in T
            BY <2>2
        <3>2. T \subseteq Nat
            BY <1>1
        <3>3. PICK m \in T : \A h \in T : m <= h
            <4> HIDE DEF T
            <4> QED BY <3>1, <3>2, LeastNatural
        <3> DEFINE q == m - 1
        <3>4. m \in 1 .. N /\ s[m] >= n /\ m \in Nat
            BY <1>1
        <3>5. q \in 0 .. N /\ q + 1 = m
            BY <1>1, <3>4
        <3>6. ASSUME NEW i \in 1 .. q PROVE s[i] < n
            <4>1. i \in 1 .. N /\ ~(m <= i)
                BY <1>1, <3>4
            <4>2. i \notin T
                BY <3>3, <4>1
            <4> QED BY <1>1, <4>1, <4>2
        <3>7. ASSUME NEW i \in q + 1 .. N PROVE s[i] >= n
            <4>1. i \in 1 .. N /\ (i = m \/ m < i)
                BY <1>1, <3>4
            <4>2. m < i => s[m] < s[i]
                BY <3>4, <4>1 DEF Up, N
            <4> QED BY <1>1, <3>4, <4>1, <4>2
        <3> QED BY <3>5, <3>6, <3>7
    <2> QED BY <2>1, <2>2
<1>3. PICK q \in 0 .. N : (\A i \in 1 .. q : s[i] < n) /\ (\A i \in q + 1 .. N : s[i] >= n)
    BY <1>2
<1>4. {j \in DOMAIN s : s[j] < n} = 1 .. q
    <2>1. ASSUME NEW j \in 1 .. N PROVE s[j] < n <=> j \in 1 .. q
        <3>1. j \in 1 .. q \/ j \in q + 1 .. N
            BY <1>1
        <3>2. s[j] \in Nat
            BY <1>1
        <3> QED BY <1>1, <1>3, <3>1, <3>2
    <2>2. \A j \in 1 .. q : j \in 1 .. N
        BY <1>1
    <2> QED BY <1>1, <2>1, <2>2
<1>5. Cardinality(1 .. q) = q
    <2>1. q \in Nat
        BY <1>1
    <2> QED BY <2>1, FS_Interval
<1> QED BY <1>3, <1>4, <1>5

Found(c, b, all, n, f) ==
    /\ f.part \in 1 .. Len(c) /\ f.id \in 0 .. Len(c[f.part].names)
    /\ f.id < Len(c[f.part].names) \/ f.part = Len(c)
    /\ \A i \in 1 .. b[f.part] + f.id : all[i] < n
    /\ \A i \in (b[f.part] + f.id) + 1 .. Len(all) : all[i] >= n

LEMMA FindOf ==
    ASSUME NEW c, NEW b, NEW all, Spread(c, b, all), Up(all), NEW n \in Nat
    PROVE  Found(c, b, all, n, Find(c, n))
<1> DEFINE N == Len(c)
           Reaches(k) == \E j \in DOMAIN c[k].names : c[k].names[j] >= n
           k == IF \E i \in DOMAIN c : Reaches(i)
                THEN CHOOSE i \in DOMAIN c : Reaches(i) /\ \A h \in 1 .. i - 1 : ~Reaches(h)
                ELSE Len(c)
           s == c[k].names
           q == Cardinality({j \in DOMAIN s : s[j] < n})
           y == b[k]
           z == b[k + 1]
           L == Len(all)
<1>1. Parts(c) /\ N \in Nat /\ N >= 1 /\ DOMAIN c = 1 .. N
    BY PartsOf DEF Spread
<1>2. k \in 1 .. N /\ (Reaches(k) \/ k = N) /\ \A h \in 1 .. k - 1 : ~Reaches(h)
    <2>1. CASE \E i \in DOMAIN c : Reaches(i)
        <3> DEFINE T == {i \in 1 .. N : Reaches(i)}
        <3>1. PICK t : t \in T
            BY <1>1, <2>1
        <3>2. T \subseteq Nat
            BY <1>1
        <3>3. PICK m \in T : \A h \in T : m <= h
            <4> HIDE DEF T
            <4> QED BY <3>1, <3>2, LeastNatural
        <3> HIDE DEF Reaches
        <3>4. m \in DOMAIN c /\ Reaches(m) /\ \A h \in 1 .. m - 1 : ~Reaches(h)
            <4>1. \A h \in 1 .. m - 1 : h \in 1 .. N /\ ~(m <= h)
                BY <1>1
            <4> QED BY <1>1, <3>3, <4>1
        <3>5. k = CHOOSE i \in DOMAIN c : Reaches(i) /\ \A h \in 1 .. i - 1 : ~Reaches(h)
            BY <2>1
        <3> HIDE DEF k
        <3> QED BY <1>1, <3>4, <3>5
    <2>2. CASE ~\E i \in DOMAIN c : Reaches(i)
        <3> HIDE DEF Reaches
        <3>1. k = N
            BY <2>2
        <3> HIDE DEF k
        <3>2. \A h \in 1 .. N - 1 : h \in 1 .. N
            BY <1>1
        <3> QED BY <1>1, <2>2, <3>1, <3>2
    <2> QED BY <2>1, <2>2
<1>3. Find(c, n) = [part |-> k, id |-> q]
    BY DEF Find
<1> HIDE DEF k
<1>4. s \in Seq(Name) /\ Up(s)
    BY <1>2, UpPart
<1>5. /\ y \in Nat /\ Len(s) \in Nat /\ z = y + Len(s) /\ z <= L /\ L \in Nat
    BY <1>2, PlacesOf
<1>6. \A a \in 1 .. Len(s) : all[y + a] = s[a]
    BY <1>2 DEF Spread
<1>7. DOMAIN s = 1 .. Len(s)
    BY <1>4
<1>8. k = N => z = L
    BY <1>2, PlacesOf
<1>9. \A i \in 1 .. L : all[i] \in Nat
    <2>1. all \in Seq(Name)
        BY DEF Spread
    <2> QED BY <2>1, NatNames DEF L
<1> HIDE DEF s
<1>10. /\ q \in 0 .. Len(s)
       /\ \A i \in 1 .. q : s[i] < n
       /\ \A i \in q + 1 .. Len(s) : s[i] >= n
    BY <1>4, FirstBefore
<1> HIDE DEF q, y, z, L
<1> DEFINE m == Len(s)
<1> HIDE DEF m
<1>11. ASSUME NEW i \in 1 .. y + q PROVE all[i] < n
    <2>1. CASE i <= y
        <3>1. PICK h \in 1 .. N : \E a \in 1 .. Len(c[h].names) : i = b[h] + a
            <4>1. i \in Nat /\ i >= 1 /\ i <= b[Len(c) + 1]
                <5>1. L = b[Len(c) + 1]
                    BY DEF Spread, L
                <5>2. i \in Nat /\ i >= 1 /\ i <= L
                    BY <1>5, <2>1
                <5> QED BY <5>1, <5>2
            <4>2. Parts(c) /\ Offsets(c, b)
                BY DEF Spread
            <4> QED BY <4>1, <4>2, PartOf
        <3>2. PICK a \in 1 .. Len(c[h].names) : i = b[h] + a
            BY <3>1
        <3>3. h < k
            <4>1. SUFFICES ASSUME ~(h < k) PROVE FALSE
                OBVIOUS
            <4>2. k <= h /\ k \in 1 .. Len(c) + 1 /\ h \in 1 .. Len(c) + 1
                <5>1. N \in Nat /\ k \in 1 .. N /\ h \in 1 .. N
                    BY <1>1, <1>2
                <5> QED BY <4>1, <5>1
            <4>3. Parts(c) /\ Offsets(c, b)
                BY DEF Spread
            <4>4. b[k] <= b[h] /\ b[h] \in Nat
                BY <4>2, <4>3, OffsetsOf
            <4> DEFINE w == b[h]
            <4>5. y <= w /\ w \in Nat /\ i = w + a
                BY <3>2, <4>4 DEF y
            <4>6. a \in Nat /\ a >= 1
                BY <1>1, PartsOf
            <4> HIDE DEF w
            <4>7. y \in Nat /\ i <= y
                BY <1>5, <2>1
            <4> QED BY <4>5, <4>6, <4>7
        <3>4. ~Reaches(h)
            <4>1. \A j \in 1 .. k - 1 : ~Reaches(j)
                BY <1>2
            <4>2. h \in 1 .. k - 1
                <5>1. k \in 1 .. N /\ N \in Nat
                    BY <1>1, <1>2
                <5> QED BY <3>3, <5>1
            <4> HIDE DEF Reaches
            <4> QED BY <4>1, <4>2
        <3>5. all[i] = c[h].names[a]
            BY <3>2 DEF Spread
        <3>6. DOMAIN c[h].names = 1 .. Len(c[h].names)
            BY <1>1, PartsOf
        <3>7. ~(all[i] >= n)
            BY <3>4, <3>5, <3>6
        <3>8. all[i] \in Nat
            BY <1>5, <1>9, <2>1
        <3> QED BY <3>7, <3>8
    <2>2. CASE ~(i <= y)
        <3> DEFINE a == i - y
        <3>1. a \in 1 .. q /\ a \in 1 .. Len(s) /\ i = y + a
            BY <1>5, <1>10, <2>2
        <3> HIDE DEF a
        <3> QED BY <1>6, <1>10, <3>1
    <2> QED BY <2>1, <2>2
<1>12. ASSUME NEW i \in (y + q) + 1 .. L PROVE all[i] >= n
    <2>0. i \in 1 .. L
        BY <1>5, <1>10
    <2>1. CASE i <= z
        <3> DEFINE a == i - y
        <3>1. a \in q + 1 .. Len(s) /\ a \in 1 .. Len(s) /\ i = y + a
            BY <1>5, <1>10, <2>1
        <3> HIDE DEF a
        <3> QED BY <1>6, <1>10, <3>1
    <2>2. CASE ~(i <= z)
        <3>1. k # N
            BY <1>5, <1>8, <2>0, <2>2
        <3>2. PICK j \in 1 .. Len(s) : s[j] >= n
            BY <1>2, <1>7, <3>1 DEF s
        <3>3. y + j \in 1 .. L /\ y + j < i
            BY <1>5, <2>0, <2>2
        <3>4. all[y + j] < all[i]
            BY <2>0, <3>3 DEF Up, L
        <3> QED BY <1>6, <1>9, <2>0, <3>2, <3>3, <3>4
    <2> QED BY <2>1, <2>2
<1>13. q < Len(s) \/ k = N
    <2>1. CASE k # N
        <3>1. PICK j \in 1 .. Len(s) : s[j] >= n
            BY <1>2, <1>7, <2>1 DEF s
        <3>2. s[j] \in Nat
            BY <1>4, NatNames
        <3> QED BY <1>5, <1>10, <3>1, <3>2
    <2> QED BY <2>1
<1> DEFINE f == Find(c, n)
<1>14. f.part = k /\ f.id = q
    BY <1>3
<1> HIDE DEF f
<1>15. k \in 1 .. N
    BY <1>2
<1>16. Found(c, b, all, n, f)
    <2>1. /\ c[f.part].names = s /\ b[f.part] = y /\ Len(all) = L /\ Len(c) = N
        BY <1>14 DEF s, y, L
    <2> HIDE DEF N
    <2> QED BY <1>10, <1>11, <1>12, <1>13, <1>14, <1>15, <2>1 DEF Found
<1> QED BY <1>16 DEF f

LEMMA AllNames ==
    ASSUME NEW c, NEW b, NEW all, Spread(c, b, all)
    PROVE  First(all, Len(all)) = Names(c)
<1>1. Parts(c) /\ Offsets(c, b) /\ Len(all) = b[Len(c) + 1]
    BY DEF Spread
<1>2. ASSUME NEW x \in First(all, Len(all)) PROVE x \in Names(c)
    <2>1. PICK i \in 1 .. Len(all) : x = all[i]
        BY DEF First
    <2>2. i \in Nat /\ i >= 1 /\ i <= b[Len(c) + 1]
        <3>1. all \in Seq(Name)
            BY DEF Spread
        <3> DEFINE z == b[Len(c) + 1]
        <3>2. i \in 1 .. z
            BY <1>1
        <3>3. z \in Nat
            BY <1>1, <3>1
        <3> HIDE DEF z
        <3>4. i \in Nat /\ i >= 1 /\ i <= z
            BY <3>2, <3>3
        <3> QED BY <3>4 DEF z
    <2>3. PICK k \in 1 .. Len(c) : \E a \in 1 .. Len(c[k].names) : i = b[k] + a
        BY <1>1, <2>2, PartOf
    <2>4. PICK a \in 1 .. Len(c[k].names) : i = b[k] + a
        BY <2>3
    <2>5. x = c[k].names[a]
        BY <2>1, <2>4 DEF Spread
    <2> QED BY <1>1, <2>5, NameAt
<1>3. ASSUME NEW x \in Names(c) PROVE x \in First(all, Len(all))
    <2>1. PICK k \in 1 .. Len(c) : \E a \in 1 .. Len(c[k].names) : x = c[k].names[a]
        BY <1>1, NameAt
    <2>2. PICK a \in 1 .. Len(c[k].names) : x = c[k].names[a]
        BY <2>1
    <2>3. x = all[b[k] + a]
        BY <2>2 DEF Spread
    <2>4. /\ b[k] \in Nat /\ Len(c[k].names) \in Nat /\ b[k + 1] = b[k] + Len(c[k].names)
          /\ b[k + 1] <= Len(all) /\ Len(all) \in Nat
        BY PlacesOf
    <2> DEFINE y == b[k]
               m == Len(c[k].names)
               N == Len(all)
    <2>5. y \in Nat /\ m \in Nat /\ y + m <= N /\ N \in Nat /\ a \in 1 .. m
        BY <2>4
    <2> HIDE DEF y, m, N
    <2>6. y + a \in 1 .. N
        BY <2>5
    <2> QED BY <2>3, <2>6 DEF y, N, First
<1> QED BY <1>2, <1>3

\* Where name n is in the directory, or comes in.
Here(c, b, all, n, f) ==
    /\ f.part \in 1 .. Len(c) /\ f.id \in 0 .. Len(c[f.part].names)
    /\ f.id < Len(c[f.part].names) \/ f.part = Len(c)
    /\ n \in Names(c) => /\ f.id < Len(c[f.part].names)
                         /\ c[f.part].names[f.id + 1] = n
    /\ n \notin Names(c) => Fits(all, b[f.part] + f.id, b[f.part] + f.id, n)

LEMMA HereOf ==
    ASSUME NEW c, NEW b, NEW all, Spread(c, b, all), Up(all), NEW n \in Name,
           NEW f, f = Find(c, n)
    PROVE  Here(c, b, all, n, f)
<1>1. n \in Nat
    BY ConstantsAssumption
<1>2. Found(c, b, all, n, f)
    BY <1>1, FindOf
<1> DEFINE k == f.part
           q == f.id
           y == b[k]
           m == Len(c[k].names)
           N == Len(all)
           p == y + q
<1>3. k \in 1 .. Len(c) /\ q \in 0 .. m /\ (q < m \/ k = Len(c))
    BY <1>2 DEF Found
<1>4. (\A i \in 1 .. p : all[i] < n) /\ (\A i \in p + 1 .. N : all[i] >= n)
    BY <1>2 DEF Found
<1> HIDE DEF k, q
<1>5. y \in Nat /\ m \in Nat /\ b[k + 1] = y + m /\ y + m <= N /\ N \in Nat
    BY <1>3, PlacesOf
<1>6. k = Len(c) => y + m = N
    BY <1>3, PlacesOf
<1>7. \A a \in 1 .. m : all[y + a] = c[k].names[a]
    BY <1>3, PlacesOf
<1>8. \A i \in 1 .. N : all[i] \in Nat
    <2>1. all \in Seq(Name)
        BY DEF Spread
    <2> QED BY <2>1, NatNames DEF N
<1>9. First(all, N) = Names(c)
    BY AllNames
<1> HIDE DEF y, m, N
<1>10. p \in 0 .. N /\ p \in Nat
    BY <1>3, <1>5
<1>11. ASSUME n \in Names(c) PROVE q < m /\ c[k].names[q + 1] = n
    <2>1. PICK i \in 1 .. N : n = all[i]
        BY <1>9, <1>11 DEF First
    <2>2. ~(i <= p)
        <3>1. SUFFICES ASSUME i <= p PROVE FALSE
            OBVIOUS
        <3>2. i \in 1 .. p
            BY <1>10, <3>1
        <3>3. all[i] < n
            BY <1>4, <3>2
        <3> QED BY <1>1, <2>1, <3>3
    <2>3. i = p + 1
        <3>1. SUFFICES ASSUME p + 1 < i PROVE FALSE
            BY <1>5, <1>10, <2>2
        <3>2. p + 1 \in 1 .. N /\ p + 1 \in p + 1 .. N
            BY <1>5, <1>10, <3>1
        <3>3. all[p + 1] < all[i]
            BY <3>1, <3>2 DEF Up, N
        <3>4. all[p + 1] >= n
            BY <1>4, <3>2
        <3> DEFINE h == all[p + 1]
        <3>5. h \in Nat
            BY <1>8, <3>2
        <3> HIDE DEF h, p
        <3> QED BY <1>1, <2>1, <3>3, <3>4, <3>5 DEF h
    <2>4. q < m
        BY <1>3, <1>5, <1>6, <2>3
    <2>5. q + 1 \in 1 .. m /\ y + (q + 1) = i
        BY <1>3, <1>5, <2>3, <2>4
    <2> QED BY <1>7, <2>1, <2>4, <2>5
<1>12. ASSUME n \notin Names(c) PROVE Fits(all, p, p, n)
    <2>1. ASSUME NEW i \in p + 1 .. N PROVE n < all[i]
        <3>1. i \in 1 .. N
            BY <1>5, <1>10
        <3>2. all[i] \in Names(c)
            BY <1>9, <3>1 DEF First
        <3>3. all[i] # n /\ all[i] >= n /\ all[i] \in Nat
            BY <1>4, <1>8, <1>12, <2>1, <3>1, <3>2
        <3> DEFINE h == all[i]
        <3> HIDE DEF h
        <3>4. n < h
            BY <1>1, <3>3 DEF h
        <3> QED BY <3>4 DEF h
    <2> QED BY <1>4, <2>1 DEF Fits, N
<1> QED BY <1>3, <1>11, <1>12 DEF Here, k, q, y, m

-----------------------------------------------------------------------------
(* The list of handles.                                                       *)

\* The entries behind a cursor are those before its place.
LEMMA BehindOf ==
    ASSUME NEW c, NEW b, NEW all, Spread(c, b, all), NEW j \in 1 .. Len(c),
           NEW d, d.m.pair = c[j].pair, d.id \in 0 .. Len(c[j].names)
    PROVE  Behind(c, d) = First(all, b[j] + d.id)
<1>1. /\ b[j] \in Nat /\ Len(c[j].names) \in Nat /\ b[j + 1] = b[j] + Len(c[j].names)
      /\ b[j + 1] <= Len(all) /\ Len(all) \in Nat /\ b[Len(c) + 1] = Len(all)
    BY PlacesOf
<1>2. Parts(c) /\ Offsets(c, b)
    BY DEF Spread
<1>3. Len(c) \in Nat /\ DOMAIN c[j].names = 1 .. Len(c[j].names)
    BY <1>2, PartsOf
<1> DEFINE k == At(c, d.m.pair)
           n == Len(c[j].names)
           y == b[j]
           id == d.id
<1>4. k = j
    BY <1>2, AtOf
<1> DEFINE V == {a \in 1 .. n : a <= id}
           W == UNION {Range(c[h].names) : h \in 1 .. j - 1}
           U == {c[j].names[i] : i \in V}
<1>5. Behind(c, d) = W \union U
    BY <1>3, <1>4 DEF Behind
<1>10. ASSUME NEW x
       PROVE  x \in Behind(c, d) <=> \/ \E h \in 1 .. j - 1 : x \in Range(c[h].names)
                                    \/ \E a \in 1 .. n : a <= id /\ x = c[j].names[a]
    <2>1. x \in W <=> \E h \in 1 .. j - 1 : x \in Range(c[h].names)
        OBVIOUS
    <2>2. x \in U <=> \E a \in V : x = c[j].names[a]
        OBVIOUS
    <2>3. \A a : a \in V <=> a \in 1 .. n /\ a <= id
        OBVIOUS
    <2> HIDE DEF W, U, V, n, id
    <2> QED BY <1>5, <2>1, <2>2, <2>3
<1>6. \A a \in 1 .. n : all[y + a] = c[j].names[a]
    BY PlacesOf
<1>7. id \in 0 .. n /\ y \in Nat /\ n \in Nat /\ y + n <= Len(all)
    BY <1>1
<1>8. ASSUME NEW x \in Behind(c, d) PROVE x \in First(all, y + id)
    <2>1. CASE \E h \in 1 .. j - 1 : x \in Range(c[h].names)
        <3>1. PICK h \in 1 .. j - 1 : x \in Range(c[h].names)
            BY <2>1
        <3>2. h \in 1 .. Len(c) /\ h < j
            BY <1>3, <3>1
        <3>3. PICK a \in 1 .. Len(c[h].names) : x = c[h].names[a]
            BY <1>2, <3>1, <3>2, PartsOf DEF Range
        <3>4. x = all[b[h] + a]
            BY <3>2, <3>3 DEF Spread
        <3>5. /\ b[h] \in Nat /\ Len(c[h].names) \in Nat /\ b[h + 1] = b[h] + Len(c[h].names)
              /\ b[h + 1] <= b[j]
            BY <3>2, PlacesOf
        <3> DEFINE w == b[h]
                   m == Len(c[h].names)
        <3>6. w \in Nat /\ m \in Nat /\ w + m <= y /\ a \in 1 .. m
            BY <3>5
        <3> HIDE DEF w, m, y, id
        <3>7. w + a \in 1 .. y + id
            BY <1>7, <3>6
        <3> QED BY <3>4, <3>7 DEF First, w
    <2>2. CASE \E a \in 1 .. n : a <= id /\ x = c[j].names[a]
        <3>1. PICK a \in 1 .. n : a <= id /\ x = c[j].names[a]
            BY <2>2
        <3>2. x = all[y + a]
            BY <1>6, <3>1
        <3> HIDE DEF y, id, n
        <3>3. y + a \in 1 .. y + id
            BY <1>7, <3>1
        <3> QED BY <3>2, <3>3 DEF First
    <2> HIDE DEF y, id, n
    <2> QED BY <1>10, <2>1, <2>2
<1>9. ASSUME NEW x \in First(all, y + id) PROVE x \in Behind(c, d)
    <2>1. PICK i \in 1 .. y + id : x = all[i]
        BY DEF First
    <2>2. CASE i <= y
        <3>1. i \in Nat /\ i >= 1 /\ i <= b[Len(c) + 1]
            <4> HIDE DEF y, id, n
            <4>1. i \in Nat /\ i >= 1 /\ i <= Len(all)
                BY <1>1, <1>7, <2>2
            <4> QED BY <1>1, <4>1
        <3>2. PICK h \in 1 .. Len(c) : \E a \in 1 .. Len(c[h].names) : i = b[h] + a
            BY <1>2, <3>1, PartOf
        <3>3. PICK a \in 1 .. Len(c[h].names) : i = b[h] + a
            BY <3>2
        <3>4. h < j
            <4>1. SUFFICES ASSUME ~(h < j) PROVE FALSE
                OBVIOUS
            <4>2. j <= h /\ j \in 1 .. Len(c) + 1 /\ h \in 1 .. Len(c) + 1
                BY <1>3, <4>1
            <4>3. b[j] <= b[h] /\ b[h] \in Nat
                BY <1>2, <4>2, OffsetsOf
            <4> DEFINE w == b[h]
            <4>4. y <= w /\ w \in Nat /\ i = w + a /\ y \in Nat
                BY <1>7, <3>3, <4>3
            <4>5. a \in Nat /\ a >= 1
                BY <1>2, PartsOf
            <4> HIDE DEF w, y
            <4> QED BY <2>2, <4>4, <4>5
        <3>5. h \in 1 .. j - 1
            BY <1>3, <3>4
        <3>6. x = c[h].names[a]
            BY <2>1, <3>3 DEF Spread
        <3>7. x \in Range(c[h].names)
            BY <1>2, <3>6, PartsOf DEF Range
        <3> QED BY <1>10, <3>5, <3>7
    <2>3. CASE ~(i <= y)
        <3> DEFINE a == i - y
        <3>1. a \in 1 .. n /\ a <= id /\ i = y + a
            <4> HIDE DEF y, id, n
            <4> QED BY <1>7, <2>3
        <3> HIDE DEF a, y, id, n
        <3>2. x = c[j].names[a]
            BY <1>6, <2>1, <3>1
        <3> QED BY <1>10, <3>1, <3>2
    <2> QED BY <2>2, <2>3
<1> QED BY <1>8, <1>9

\* The handle that is opened is the first of the list.
LEMMA PushedOf ==
    ASSUME NEW S, NEW d \in S, NEW l \in Seq(S), NEW s, s = <<d>> \o l
    PROVE  /\ s \in Seq(S) /\ Len(s) = Len(l) + 1 /\ s[1] = d
           /\ \A i \in 1 .. Len(s) : i # 1 => i - 1 \in 1 .. Len(l) /\ s[i] = l[i - 1]
<1>1. Len(l) \in Nat
    OBVIOUS
<1>2. <<d>> \in Seq(S) /\ Len(<<d>>) = 1
    OBVIOUS
<1>3. s \in Seq(S) /\ Len(s) = 1 + Len(l)
    BY <1>2
<1>4. s[1] = d
    BY <1>2
<1>5. ASSUME NEW i \in 1 .. Len(s), i # 1 PROVE i - 1 \in 1 .. Len(l) /\ s[i] = l[i - 1]
    BY <1>1, <1>3, <1>5
<1> QED BY <1>1, <1>3, <1>4, <1>5

LEMMA WorldPushed ==
    ASSUME NEW c, NEW b, NEW all, NEW D, NEW k, NEW l, World(c, b, all, D, k, l),
           NEW d, Good(c, b, all, D, k, d), NEW s, s = <<d>> \o l
    PROVE  World(c, b, all, D, k, s)
<1>1. d \in HandleSet /\ l \in Seq(HandleSet)
    BY DEF Good, World
<1>2. /\ s \in Seq(HandleSet) /\ Len(s) = Len(l) + 1 /\ s[1] = d
      /\ \A i \in 1 .. Len(s) : i # 1 => i - 1 \in 1 .. Len(l) /\ s[i] = l[i - 1]
    BY <1>1, PushedOf
<1>3. ASSUME NEW i \in 1 .. Len(s) PROVE Good(c, b, all, D, k, s[i])
    <2>1. CASE i = 1
        BY <1>2, <2>1
    <2>2. CASE i # 1
        <3>1. i - 1 \in 1 .. Len(l) /\ s[i] = l[i - 1]
            BY <1>2, <2>2
        <3> DEFINE h == i - 1
        <3> HIDE DEF h
        <3>2. h \in 1 .. Len(l) /\ s[i] = l[h]
            BY <3>1 DEF h
        <3>3. Good(c, b, all, D, k, l[h])
            BY <3>2 DEF World
        <3> QED BY <3>2, <3>3
    <2> QED BY <2>1, <2>2
<1> QED BY <1>2, <1>3 DEF World

LEMMA WorldClosed ==
    ASSUME NEW c, NEW b, NEW all, NEW D, NEW k, NEW l, World(c, b, all, D, k, l),
           NEW q \in 1 .. Len(l)
    PROVE  World(c, b, all, D, k, RemoveAt(l, q))
<1> DEFINE s == RemoveAt(l, q)
<1>1. l \in Seq(HandleSet)
    BY DEF World
<1>2. /\ s \in Seq(HandleSet) /\ Len(s) = Len(l) - 1
      /\ \A i \in 1 .. q - 1 : s[i] = l[i]
      /\ \A i \in q + 1 .. Len(l) : s[i - 1] = l[i]
    BY <1>1, RemoveOf
<1> HIDE DEF s
<1>3. ASSUME NEW i \in 1 .. Len(s) PROVE Good(c, b, all, D, k, s[i])
    <2>1. \E h \in 1 .. Len(l) : s[i] = l[h]
        <3>1. Len(l) \in Nat
            BY <1>1
        <3>2. CASE i < q
            <4>1. i \in 1 .. q - 1 /\ i \in 1 .. Len(l)
                BY <1>2, <3>1, <3>2
            <4> QED BY <1>2, <4>1
        <3>3. CASE ~(i < q)
            <4> DEFINE h == i + 1
            <4>1. h \in q + 1 .. Len(l) /\ h \in 1 .. Len(l) /\ h - 1 = i
                BY <1>2, <3>1, <3>3
            <4> HIDE DEF h
            <4> QED BY <1>2, <4>1
        <3> QED BY <3>2, <3>3
    <2> QED BY <2>1 DEF World
<1> QED BY <1>2, <1>3 DEF s, World

\* A handle of the list is replaced.
LEMMA WorldPut ==
    ASSUME NEW c, NEW b, NEW all, NEW D, NEW k, NEW l, World(c, b, all, D, k, l),
           NEW q \in 1 .. Len(l), NEW d, Good(c, b, all, D, k, d)
    PROVE  World(c, b, all, D, k, [l EXCEPT ![q] = d])
<1> DEFINE s == [l EXCEPT ![q] = d]
<1>1. d \in HandleSet /\ l \in Seq(HandleSet)
    BY DEF Good, World
<1>2. /\ s \in Seq(HandleSet) /\ Len(s) = Len(l)
      /\ \A i \in 1 .. Len(l) : s[i] = IF i = q THEN d ELSE l[i]
    BY <1>1
<1> HIDE DEF s
<1>3. ASSUME NEW i \in 1 .. Len(s) PROVE Good(c, b, all, D, k, s[i])
    BY <1>2 DEF World
<1> QED BY <1>2, <1>3 DEF s, World

-----------------------------------------------------------------------------
(* Calls that leave the directory alone.                                      *)

Works(c, l) == \E b, all : World(c, b, all, {}, 0, l)

LEMMA NewFile ==
    ASSUME NEW c, Parts(c), NEW k \in 1 .. Len(c), NEW n \in Name, NEW id \in Nat,
           id <= Len(c[k].names), id < Len(c[k].names) \/ k = Len(c),
           NEW d, d = FileHandle(n, Fetch(c, c[k].pair), id)
    PROVE  /\ d \in HandleSet /\ d \in FileHandles /\ d \notin DirHandles
           /\ d.id = id /\ d.name = n /\ ~d.gone
           /\ In(c, d, k, 0) /\ In(c, d, k, k)
<1> DEFINE m == Fetch(c, c[k].pair)
<1>1. m \in Mdir /\ m.pair = c[k].pair
    BY FetchOf
<1>2. d = [kind |-> "file", m |-> m, id |-> id, name |-> n, gone |-> FALSE]
    BY DEF FileHandle
<1> HIDE DEF m
<1>3. d \in FileHandles
    BY <1>1, <1>2 DEF FileHandles
<1>4. d.kind = "file" /\ d.m = m /\ d.id = id /\ d.name = n /\ ~d.gone
    BY <1>2
<1>5. d \notin DirHandles
    BY <1>4 DEF DirHandles
<1>6. d \in HandleSet
    BY <1>3 DEF HandleSet
<1>7. d.m = Fetch(c, c[k].pair)
    BY <1>4 DEF m
<1>8. d.m.pair = c[k].pair
    BY <1>1, <1>4
<1>9. In(c, d, k, 0) /\ In(c, d, k, k)
    BY <1>4, <1>7, <1>8 DEF In
<1> QED BY <1>3, <1>4, <1>5, <1>6, <1>9

\* A handle of a file that exists.
LEMMA OpenedFile ==
    ASSUME NEW c, NEW b, NEW all, Spread(c, b, all), Up(all), NEW n \in Name, n \in Names(c),
           NEW f, Here(c, b, all, n, f),
           NEW d, d = FileHandle(n, Fetch(c, c[f.part].pair), f.id)
    PROVE  Good(c, b, all, {}, 0, d)
<1> DEFINE k == f.part
           id == f.id
           m == Len(c[k].names)
           y == b[k]
           N == Len(all)
           E == {}
<1>1. k \in 1 .. Len(c) /\ id < m /\ id \in 0 .. m /\ c[k].names[id + 1] = n
    BY DEF Here
<1>2. y \in Nat /\ m \in Nat /\ b[k + 1] = y + m /\ y + m <= N /\ N \in Nat
    BY <1>1, PlacesOf
<1>3. \A a \in 1 .. m : all[y + a] = c[k].names[a]
    BY SMTT(60), <1>1, PlacesOf
<1>4. Parts(c)
    BY DEF Spread
<1>5. d = FileHandle(n, Fetch(c, c[k].pair), id)
    OBVIOUS
<1>6. id \in Nat /\ id <= Len(c[k].names) /\ (id < Len(c[k].names) \/ k = Len(c))
    BY <1>1, <1>2
<1> HIDE DEF k, id
<1>7. /\ d \in HandleSet /\ d \in FileHandles /\ d \notin DirHandles
      /\ d.id = id /\ d.name = n /\ ~d.gone
      /\ In(c, d, k, 0)
    BY <1>1, <1>4, <1>5, <1>6, NewFile
<1> HIDE DEF y, m, N
<1>8. y + id < N /\ all[(y + id) + 1] = n
    <2>1. id + 1 \in 1 .. m /\ y + (id + 1) = (y + id) + 1
        BY <1>1, <1>2, <1>6
    <2>2. y + id < N
        BY <1>1, <1>2, <1>6
    <2> QED BY <1>1, <1>3, <2>1, <2>2
<1>9. Knows(all, E, d, y + d.id)
    BY <1>7, <1>8 DEF Knows, N
<1> HIDE DEF E
<1>10. Good(c, b, all, E, 0, d)
    BY <1>1, <1>7, <1>9 DEF Good, y
<1> QED BY <1>10 DEF E

\* A cursor at some place, with what it has seen.
LEMMA CursorAt ==
    ASSUME NEW c, NEW b, NEW all, Spread(c, b, all), NEW j \in 1 .. Len(c),
           NEW d \in DirHandles, d.m = Fetch(c, c[j].pair), d.id <= Len(c[j].names),
           d.head = c[1].pair, NEW P, P = b[j] + d.id,
           d.start \subseteq First(all, Len(all)),
           d.seen \subseteq First(all, P), d.start \intersect First(all, P) \subseteq d.seen
    PROVE  Good(c, b, all, {}, 0, d)
<1> DEFINE E == {}
<1>1. d \in HandleSet /\ d \notin FileHandles
    <2>1. d \in HandleSet
        BY DEF HandleSet
    <2>2. d.kind = "dir"
        BY DEF DirHandles
    <2>3. d \notin FileHandles
        BY <2>2 DEF FileHandles
    <2> QED BY <2>1, <2>3
<1>2. d.m.pair = c[j].pair
    <2>1. Parts(c)
        BY DEF Spread
    <2> QED BY ZenonT(60), <2>1, FetchOf
<1>3. In(c, d, j, 0)
    BY <1>1, <1>2 DEF In
<1>4. Knows(all, E, d, b[j] + d.id)
    BY <1>1 DEF Knows
<1>5. d.start \subseteq First(all, Len(all)) \ E /\ d.seen \intersect E = {}
    OBVIOUS
<1> HIDE DEF E
<1>6. Good(c, b, all, E, 0, d)
    BY <1>1, <1>3, <1>4, <1>5 DEF Good
<1> QED BY <1>6 DEF E

LEMMA OpenedDir ==
    ASSUME NEW c, NEW b, NEW all, Spread(c, b, all), NEW d, d = DirHandle(c)
    PROVE  Good(c, b, all, {}, 0, d)
<1> DEFINE m == Fetch(c, c[1].pair)
           S == Names(c)
<1>1. Parts(c) /\ b[1] = 0
    BY DEF Spread, Offsets
<1>2. Len(c) \in Nat /\ Len(c) >= 1 /\ 1 \in 1 .. Len(c)
    BY <1>1, PartsOf
<1>3. m \in Mdir /\ c[1].pair \in Pairs
    BY <1>1, <1>2, FetchOf, PartsOf
<1>4. First(all, Len(all)) = S
    BY AllNames
<1>5. S \subseteq Name
    <2>1. all \in Seq(Name)
        BY DEF Spread
    <2>2. \A i \in 1 .. Len(all) : all[i] \in Name
        BY <2>1
    <2> QED BY <1>4, <2>2 DEF First
<1>6. d = [kind |-> "dir", m |-> m, id |-> 0, pos |-> 0, head |-> c[1].pair, seen |-> {},
           start |-> S]
    BY DEF DirHandle, HeadOf
<1> HIDE DEF m, S
<1>7. d \in DirHandles
    BY <1>3, <1>5, <1>6 DEF DirHandles
<1>8. d.m = m /\ d.id = 0 /\ d.head = c[1].pair /\ d.seen = {} /\ d.start = S
    BY <1>6
<1>9. Len(c[1].names) \in Nat
    BY <1>1, <1>2, PartsOf
<1> DEFINE P == b[1] + d.id
<1>10. P = 0
    BY <1>1, <1>8
<1>11. First(all, P) = {}
    BY <1>10 DEF First
<1>12. d.id <= Len(c[1].names) /\ d.m = Fetch(c, c[1].pair)
    BY <1>8, <1>9 DEF m
<1> HIDE DEF P
<1>13. /\ d.start \subseteq First(all, Len(all))
       /\ d.seen \subseteq First(all, P) /\ d.start \intersect First(all, P) \subseteq d.seen
    BY <1>4, <1>8, <1>11
<1> QED BY <1>2, <1>7, <1>8, <1>12, <1>13, CursorAt DEF P

\* What is good of a cursor.
LEMMA CursorOf ==
    ASSUME NEW c, NEW b, NEW all, Spread(c, b, all), NEW d, Good(c, b, all, {}, 0, d), IsDir(d)
    PROVE  /\ d \in DirHandles /\ d.head = c[1].pair
           /\ d.start \subseteq First(all, Len(all))
           /\ \E j \in 1 .. Len(c) :
                 /\ d.m = Fetch(c, c[j].pair) /\ d.m.pair = c[j].pair /\ d.id <= Len(c[j].names)
                 /\ d.seen \subseteq First(all, b[j] + d.id)
                 /\ d.start \intersect First(all, b[j] + d.id) \subseteq d.seen
<1>1. d \in HandleSet
    BY DEF Good
<1>2. d \in DirHandles /\ d \notin FileHandles
    BY <1>1, KindOf
<1>3. d.head = c[1].pair /\ d.start \subseteq First(all, Len(all))
    BY <1>2 DEF Good
<1>4. PICK j \in 1 .. Len(c) : In(c, d, j, 0) /\ Knows(all, {}, d, b[j] + d.id)
    BY <1>2 DEF Good
<1>5. d.m = Fetch(c, c[j].pair) /\ d.m.pair = c[j].pair /\ d.id <= Len(c[j].names)
    BY <1>4 DEF In
<1>6. /\ d.seen \subseteq First(all, b[j] + d.id)
      /\ d.start \intersect First(all, b[j] + d.id) \subseteq d.seen
    BY <1>2, <1>4 DEF Knows
<1> QED BY <1>2, <1>3, <1>5, <1>6

\* The next entry, y of its part, is returned.
LEMMA ReadOf ==
    ASSUME NEW c, NEW b, NEW all, Spread(c, b, all), NEW d \in DirHandles,
           d.head = c[1].pair, d.start \subseteq First(all, Len(all)),
           NEW P \in Nat, P < Len(all),
           d.seen \subseteq First(all, P), d.start \intersect First(all, P) \subseteq d.seen,
           NEW h \in 1 .. Len(c), NEW y \in Nat, y < Len(c[h].names), b[h] + y = P,
           NEW x \in DirHandles, x.m = Fetch(c, c[h].pair), x.id = y + 1,
           x.head = d.head, x.start = d.start, x.seen = d.seen \union {c[h].names[y + 1]}
    PROVE  Good(c, b, all, {}, 0, x)
<1> DEFINE n == Len(c[h].names)
           w == b[h]
           Q == w + x.id
<1>1. w \in Nat /\ n \in Nat
    BY PlacesOf
<1>2. \A a \in 1 .. n : all[w + a] = c[h].names[a]
    BY PlacesOf
<1>3. w + y = P /\ x.id = y + 1 /\ y < n
    OBVIOUS
<1> HIDE DEF n, w
<1>4. x.id <= n /\ Q = P + 1 /\ y + 1 \in 1 .. n /\ w + (y + 1) = P + 1
    BY <1>1, <1>3
<1>5. all[P + 1] = c[h].names[y + 1]
    BY <1>2, <1>4
<1>6. First(all, Q) = First(all, P) \union {all[P + 1]}
    <2>1. \A i : i \in 1 .. P + 1 <=> i \in 1 .. P \/ i = P + 1
        OBVIOUS
    <2> QED BY <1>4, <2>1 DEF First
<1>7. /\ x.seen \subseteq First(all, Q) /\ x.start \intersect First(all, Q) \subseteq x.seen
    BY <1>5, <1>6
<1>8. x.id <= Len(c[h].names) /\ Q = b[h] + x.id
    BY <1>4 DEF n, w
<1> HIDE DEF Q
<1>9. x.start \subseteq First(all, Len(all)) /\ x.head = c[1].pair
    OBVIOUS
<1> QED BY <1>7, <1>8, <1>9, CursorAt

Inv == Works(chain, mlist)

LEMMA InitWorks == Init => Inv
<1>1. SUFFICES ASSUME Mount PROVE Works(chain, mlist)
    BY DEF Init, Inv
<1>2. PICK p \in Pairs : chain = <<[pair |-> p, names |-> <<>>]>>
    BY <1>1 DEF Mount
<1> DEFINE s == <<>>
           x == [pair |-> p, names |-> s]
           b == [k \in 1 .. 2 |-> 0]
           E == {}
<1>3. s \in Seq(Name) /\ Len(s) = 0
    OBVIOUS
<1> HIDE DEF s
<1>4. x \in Part /\ x.names = s /\ x.pair = p
    BY <1>3 DEF Part
<1>5. chain = <<x>>
    BY <1>2 DEF s
<1> HIDE DEF x
<1>6. chain \in Seq(Part) /\ Len(chain) = 1 /\ chain[1] = x
    BY <1>4, <1>5
<1>7. \A k \in 1 .. Len(chain) : k = 1
    BY <1>6
<1>8. chain # <<>>
    BY <1>6
<1>9. Parts(chain)
    BY <1>6, <1>7, <1>8 DEF Parts
<1>10. b \in [1 .. Len(chain) + 1 -> Nat] /\ b[1] = 0 /\ b[2] = 0
    BY <1>6
<1> HIDE DEF b
<1>11. Offsets(chain, b)
    BY <1>3, <1>4, <1>6, <1>7, <1>10 DEF Offsets
<1>12. Spread(chain, b, s)
    <2>1. Len(s) = b[Len(chain) + 1]
        BY <1>3, <1>6, <1>10
    <2>2. \A k \in 1 .. Len(chain) : \A a \in 1 .. Len(chain[k].names) : FALSE
        BY <1>3, <1>4, <1>6, <1>7
    <2> QED BY <1>3, <1>9, <1>11, <2>1, <2>2 DEF Spread
<1>13. Up(s)
    BY <1>3 DEF Up
<1>14. mlist \in Seq(HandleSet) /\ Len(mlist) = 0
    BY <1>1 DEF Mount
<1>15. \A i \in 1 .. Len(mlist) : Good(chain, b, s, E, 0, mlist[i])
    BY <1>14
<1> HIDE DEF E
<1>16. World(chain, b, s, E, 0, mlist)
    BY <1>12, <1>13, <1>14, <1>15 DEF World
<1> QED BY <1>16 DEF Works, E

LEMMA OpenDirWorks ==
    ASSUME Inv, OpenDir
    PROVE  Inv'
<1> DEFINE d == DirHandle(chain)
<1>1. PICK b, all : World(chain, b, all, {}, 0, mlist)
    BY DEF Inv, Works
<1>2. Spread(chain, b, all)
    BY <1>1 DEF World
<1>3. chain' = chain /\ mlist' = <<d>> \o mlist
    BY DEF OpenDir, Push
<1> HIDE DEF d
<1>4. d = DirHandle(chain)
    BY DEF d
<1>5. Good(chain, b, all, {}, 0, d)
    BY <1>2, <1>4, OpenedDir
<1>6. World(chain, b, all, {}, 0, <<d>> \o mlist)
    <2> DEFINE E == {}
    <2>1. World(chain, b, all, E, 0, mlist) /\ Good(chain, b, all, E, 0, d)
        BY <1>1, <1>5
    <2> HIDE DEF E
    <2>2. World(chain, b, all, E, 0, <<d>> \o mlist)
        BY <2>1, WorldPushed
    <2> QED BY <2>2 DEF E
<1> QED BY <1>3, <1>6 DEF Inv, Works

\* A handle is replaced by another that is good.
LEMMA PutWorks ==
    ASSUME NEW c, NEW l, NEW b, NEW all, World(c, b, all, {}, 0, l), NEW i \in 1 .. Len(l), NEW d,
           Good(c, b, all, {}, 0, d)
    PROVE  Works(c, [l EXCEPT ![i] = d])
<1> DEFINE E == {}
<1>1. World(c, b, all, E, 0, l) /\ Good(c, b, all, E, 0, d)
    OBVIOUS
<1> HIDE DEF E
<1>2. World(c, b, all, E, 0, [l EXCEPT ![i] = d])
    BY <1>1, WorldPut
<1> QED BY <1>2 DEF E, Works

LEMMA ReadDotsWorks ==
    ASSUME Inv, NEW i \in DOMAIN mlist, ReadDots(i)
    PROVE  Inv'
<1> DEFINE d == mlist[i]
           x == [d EXCEPT !.pos = @ + 1]
<1>1. PICK b, all : World(chain, b, all, {}, 0, mlist)
    BY DEF Inv, Works
<1>2. Spread(chain, b, all) /\ mlist \in Seq(HandleSet) /\ i \in 1 .. Len(mlist)
      /\ Good(chain, b, all, {}, 0, d)
    BY <1>1 DEF World
<1>3. IsDir(d) /\ chain' = chain /\ mlist' = [mlist EXCEPT ![i] = x]
    BY <1>2 DEF ReadDots
<1> HIDE DEF d
<1>4. /\ d \in DirHandles /\ d.head = chain[1].pair
      /\ d.start \subseteq First(all, Len(all))
    BY <1>2, <1>3, CursorOf
<1>5. PICK j \in 1 .. Len(chain) :
         /\ d.m = Fetch(chain, chain[j].pair) /\ d.m.pair = chain[j].pair
         /\ d.id <= Len(chain[j].names)
         /\ d.seen \subseteq First(all, b[j] + d.id)
         /\ d.start \intersect First(all, b[j] + d.id) \subseteq d.seen
    BY <1>2, <1>3, CursorOf
<1>6. /\ x \in DirHandles /\ x.m = d.m /\ x.id = d.id /\ x.head = d.head
      /\ x.start = d.start /\ x.seen = d.seen
    BY <1>4 DEF DirHandles
<1> HIDE DEF x
<1> DEFINE P == b[j] + x.id
<1>7. x.m = Fetch(chain, chain[j].pair) /\ x.id <= Len(chain[j].names) /\ x.head = chain[1].pair
    BY <1>4, <1>5, <1>6
<1>8. x.start \subseteq First(all, Len(all)) /\ x.seen \subseteq First(all, P)
      /\ x.start \intersect First(all, P) \subseteq x.seen
    BY <1>4, <1>5, <1>6
<1>9. P = b[j] + x.id
    OBVIOUS
<1> HIDE DEF P
<1>10. Good(chain, b, all, {}, 0, x)
    BY <1>2, <1>6, <1>7, <1>8, <1>9, CursorAt
<1>11. Works(chain, [mlist EXCEPT ![i] = x])
    BY <1>1, <1>2, <1>10, PutWorks
<1> QED BY <1>3, <1>11 DEF Inv

CursorWith(d, m, y, p, S) == [d EXCEPT !.m = m, !.id = y, !.pos = p, !.seen = S]

LEMMA CursorSet ==
    ASSUME NEW d \in DirHandles, NEW m \in Mdir, NEW y \in Nat, NEW p \in Int, NEW S, S \subseteq Name,
           NEW x, x = CursorWith(d, m, y, p, S)
    PROVE  /\ x \in DirHandles /\ x.m = m /\ x.id = y /\ x.head = d.head
           /\ x.start = d.start /\ x.seen = S
    BY DEF DirHandles, CursorWith

LEMMA ReadDirWorks ==
    ASSUME Inv, NEW i \in DOMAIN mlist, ReadDir(i)
    PROVE  Inv'
<1> DEFINE d == mlist[i]
           ends == d.id = d.m.count
           m == IF ends THEN Fetch(chain, d.m.tail) ELSE d.m
           id == IF ends THEN 0 ELSE d.id
           e == chain[At(chain, m.pair)].names[id + 1]
           x == [d EXCEPT !.m = m, !.id = id + 1, !.pos = @ + 1, !.seen = @ \union {e}]
<1>1. PICK b, all : World(chain, b, all, {}, 0, mlist)
    BY DEF Inv, Works
<1>2. Spread(chain, b, all) /\ mlist \in Seq(HandleSet) /\ i \in 1 .. Len(mlist)
      /\ Good(chain, b, all, {}, 0, d)
    BY <1>1 DEF World
<1>3. IsDir(d) /\ chain' = chain /\ mlist' = [mlist EXCEPT ![i] = x] /\ (ends => d.m.tail # Null)
    BY <1>2 DEF ReadDir
<1> HIDE DEF d
<1>4. /\ d \in DirHandles /\ d.head = chain[1].pair
      /\ d.start \subseteq First(all, Len(all))
    BY <1>2, <1>3, CursorOf
<1>5. PICK j \in 1 .. Len(chain) :
         /\ d.m = Fetch(chain, chain[j].pair) /\ d.m.pair = chain[j].pair
         /\ d.id <= Len(chain[j].names)
         /\ d.seen \subseteq First(all, b[j] + d.id)
         /\ d.start \intersect First(all, b[j] + d.id) \subseteq d.seen
    BY <1>2, <1>3, CursorOf
<1>6. Parts(chain) /\ Len(chain) \in Nat
    BY <1>2, PartsOf DEF Spread
<1>7. /\ d.m.count = Len(chain[j].names)
      /\ d.m.tail = Null <=> j = Len(chain)
      /\ j < Len(chain) => d.m.tail = chain[j + 1].pair
    <2> DEFINE F == Fetch(chain, chain[j].pair)
    <2>1. /\ F.count = Len(chain[j].names)
          /\ F.tail = Null <=> j = Len(chain)
          /\ j < Len(chain) => F.tail = chain[j + 1].pair
        BY <1>6, FetchOf
    <2>2. d.m = F
        BY <1>5
    <2> HIDE DEF F
    <2> QED BY <2>1, <2>2
<1> DEFINE P == b[j] + d.id
           w == b[j]
           n == Len(chain[j].names)
           N == Len(all)
<1>8. d.id \in Nat /\ w \in Nat /\ n \in Nat /\ b[j + 1] = w + n /\ w + n <= N /\ N \in Nat
    BY <1>2, <1>4, PlacesOf DEF DirHandles
<1>9. \E h \in 1 .. Len(chain) : /\ m = Fetch(chain, chain[h].pair)
                                 /\ id \in Nat /\ id < Len(chain[h].names) /\ b[h] + id = P
    <2>1. CASE ends
        <3>1. j < Len(chain) /\ j + 1 \in 1 .. Len(chain)
            BY <1>3, <1>6, <1>7, <2>1
        <3>2. m = Fetch(chain, chain[j + 1].pair) /\ id = 0
            BY <1>7, <2>1, <3>1
        <3>3. d.id = n
            BY <1>7, <2>1
        <3>4. Len(chain[j + 1].names) \in Nat /\ Len(chain[j + 1].names) >= 1
            <4> DEFINE h == j + 1
            <4>1. h \in 1 .. Len(chain) /\ h > 1
                BY <3>1
            <4> HIDE DEF h
            <4>2. Len(chain[h].names) \in Nat /\ Len(chain[h].names) >= 1
                BY <1>6, <4>1, PartsOf
            <4> QED BY <4>2 DEF h
        <3> DEFINE r == j + 1
                   o == Len(chain[r].names)
                   z == b[r]
        <3>5. r \in 1 .. Len(chain) /\ m = Fetch(chain, chain[r].pair) /\ o \in Nat /\ o >= 1
              /\ z = w + n
            BY <1>8, <3>1, <3>2, <3>4
        <3> HIDE DEF r, m, id, w, n
        <3>6. id \in Nat /\ id < o
            BY <3>2, <3>5
        <3>7. z + id = P
            BY <1>8, <3>2, <3>3, <3>5 DEF w
        <3> QED BY <3>5, <3>6, <3>7
    <2>2. CASE ~ends
        <3>1. m = Fetch(chain, chain[j].pair) /\ id = d.id /\ d.id # n
            BY <1>5, <1>7, <2>2
        <3>2. d.id < n
            <4>1. d.id <= n
                BY <1>5
            <4> HIDE DEF n
            <4> QED BY <1>8, <3>1, <4>1
        <3>3. b[j] + id = P
            BY <3>1
        <3> HIDE DEF m, id, P
        <3> QED BY <1>8, <3>1, <3>2, <3>3 DEF n
    <2> QED BY <2>1, <2>2
<1> HIDE DEF m, id
<1>10. PICK h \in 1 .. Len(chain) : /\ m = Fetch(chain, chain[h].pair)
                                    /\ id \in Nat /\ id < Len(chain[h].names) /\ b[h] + id = P
    BY <1>9
<1>11. m \in Mdir /\ m.pair = chain[h].pair /\ At(chain, m.pair) = h
    <2>1. m.pair = chain[h].pair /\ m \in Mdir
        BY <1>6, <1>10, FetchOf
    <2>2. At(chain, chain[h].pair) = h
        BY <1>6, AtOf
    <2> QED BY <2>1, <2>2
<1>12. e = chain[h].names[id + 1]
    BY <1>11
<1>13. e \in Name
    <2>1. Len(chain[h].names) \in Nat
        BY <1>6, PartsOf
    <2> DEFINE q == id + 1
               o == Len(chain[h].names)
    <2>2. q \in 1 .. o
        <3>1. id \in Nat /\ id < o /\ o \in Nat
            BY <1>10, <2>1
        <3> HIDE DEF o
        <3> QED BY <3>1
    <2> HIDE DEF q
    <2>3. chain[h].names[q] \in Name
        BY <1>6, <2>2, PartsOf
    <2> QED BY <1>12, <2>3 DEF q
<1> HIDE DEF e
<1> DEFINE y == id + 1
           S == d.seen \union {e}
<1>14. y \in Nat /\ S \subseteq Name
    BY <1>4, <1>10, <1>13 DEF DirHandles
<1> DEFINE p == d.pos + 1
<1>15. x = CursorWith(d, m, y, p, S) /\ p \in Int
    BY <1>4 DEF DirHandles, CursorWith
<1> HIDE DEF x
<1>16. /\ x \in DirHandles /\ x.m = m /\ x.id = y /\ x.head = d.head
       /\ x.start = d.start /\ x.seen = S
    <2> HIDE DEF y, S, p
    <2> QED BY <1>4, <1>11, <1>14, <1>15, CursorSet
<1>17. P \in Nat /\ P < N
    <2> DEFINE v == b[h]
               o == Len(chain[h].names)
    <2>1. v \in Nat /\ o \in Nat /\ b[h + 1] = v + o /\ v + o <= N
        BY <1>2, PlacesOf
    <2>2. id \in Nat /\ id < o /\ P = v + id
        BY <1>10
    <2> HIDE DEF v, o, P, N
    <2> QED BY <1>8, <2>1, <2>2
<1>18. P = b[j] + d.id
    OBVIOUS
<1> HIDE DEF P
<1>19. d.seen \subseteq First(all, P) /\ d.start \intersect First(all, P) \subseteq d.seen
    BY <1>5, <1>18
<1>20. x.m = Fetch(chain, chain[h].pair) /\ x.id = id + 1
       /\ x.seen = d.seen \union {chain[h].names[id + 1]}
    BY <1>10, <1>12, <1>16
<1>21. P < Len(all)
    BY <1>17
<1>22. Good(chain, b, all, {}, 0, x)
    BY <1>2, <1>4, <1>10, <1>16, <1>17, <1>19, <1>20, <1>21, ReadOf
<1>23. Works(chain, [mlist EXCEPT ![i] = x])
    BY <1>1, <1>2, <1>22, PutWorks
<1> QED BY <1>3, <1>23 DEF Inv, x, e, m, id, d

Rewinds(e, m, y, p) == [e EXCEPT !.m = m, !.id = y, !.pos = p]

RewoundWell(x, e, m, y) == x \in DirHandles /\ x.m = m /\ x.id = y /\ x.head = e.head

LEMMA RewindsOf ==
    ASSUME NEW e \in DirHandles, NEW m \in Mdir, NEW y \in Nat, NEW p \in Int,
           NEW x, x = Rewinds(e, m, y, p)
    PROVE  RewoundWell(x, e, m, y)
    BY DEF DirHandles, Rewinds, RewoundWell

Restarts(e, S, T) == [e EXCEPT !.seen = S, !.start = T]

LEMMA RestartsOf ==
    ASSUME NEW e \in DirHandles, NEW S, S \subseteq Name, NEW T, T \subseteq Name
    PROVE  /\ Restarts(e, S, T) \in DirHandles
           /\ Restarts(e, S, T).m = e.m /\ Restarts(e, S, T).id = e.id
           /\ Restarts(e, S, T).head = e.head
           /\ Restarts(e, S, T).seen = S /\ Restarts(e, S, T).start = T
    BY DEF DirHandles, Restarts

Somewhere(c, s) == \E j \in 1 .. Len(c) : s.m = Fetch(c, c[j].pair) /\ s.id \in Nat

LEMMA SettleSome ==
    ASSUME NEW c, NEW b, NEW all, Spread(c, b, all), NEW k \in 1 .. Len(c), NEW id \in Nat
    PROVE  Somewhere(c, Settle(c, Fetch(c, c[k].pair), id))
<1>0. SettlesAt(c, b, Settle(c, Fetch(c, c[k].pair), id), b[k] + id)
    BY SettleFar
<1>1. PICK j \in 1 .. Len(c) : \E x \in Nat :
         /\ Settle(c, Fetch(c, c[k].pair), id) = [m |-> Fetch(c, c[j].pair), id |-> x]
         /\ b[j] + x = b[k] + id
         /\ x < Len(c[j].names) \/ j = Len(c)
    BY <1>0 DEF SettlesAt
<1>2. PICK x \in Nat : Settle(c, Fetch(c, c[k].pair), id) = [m |-> Fetch(c, c[j].pair), id |-> x]
    BY <1>1
<1> QED BY <1>2 DEF Somewhere

LEMMA SeekDirWorks ==
    ASSUME Inv, NEW i \in DOMAIN mlist, NEW off \in Nat, SeekDir(i, off)
    PROVE  Inv'
<1> DEFINE e == mlist[i]
           d == Rewound(e)
           n == IF off > 2 THEN off - 2 ELSE 0
           land == IF n = 0 THEN [m |-> d.m, id |-> 0] ELSE Settle(chain, d.m, n)
           over == IF land.id > land.m.count THEN land.id - land.m.count ELSE 0
           to == [d EXCEPT !.m = land.m, !.id = land.id - over, !.pos = off - over]
           S == Behind(chain, to)
           T == Names(chain)
           x == [to EXCEPT !.seen = S, !.start = T]
<1>1. PICK b, all : World(chain, b, all, {}, 0, mlist)
    BY DEF Inv, Works
<1>2. Spread(chain, b, all) /\ mlist \in Seq(HandleSet) /\ i \in 1 .. Len(mlist)
      /\ Good(chain, b, all, {}, 0, e)
    BY <1>1 DEF World
<1>3. IsDir(e) /\ chain' = chain /\ mlist' = [mlist EXCEPT ![i] = x]
    BY <1>2 DEF SeekDir
<1> HIDE DEF e
<1>4. e \in DirHandles /\ e.head = chain[1].pair
    BY <1>2, <1>3, CursorOf
<1>5. Parts(chain) /\ Len(chain) \in Nat /\ 1 \in 1 .. Len(chain) /\ b[1] = 0
    BY <1>2, PartsOf DEF Spread, Offsets
<1> DEFINE F == Fetch(chain, chain[1].pair)
<1>6. F \in Mdir
    BY <1>5, FetchOf
<1>7. d.m = F /\ d \in DirHandles /\ d.head = e.head
    <2>1. d = Rewinds(e, F, 0, 0)
        BY <1>4 DEF Rewound, Rewinds
    <2> HIDE DEF d, F
    <2>2. 0 \in Nat /\ 0 \in Int
        OBVIOUS
    <2>3. RewoundWell(d, e, F, 0)
        BY <1>4, <1>6, <2>1, <2>2, RewindsOf
    <2> QED BY <2>3 DEF RewoundWell
<1> HIDE DEF d
<1>8. n \in Nat
    OBVIOUS
<1>9. \E j \in 1 .. Len(chain) : \E y \in Nat :
         land.m = Fetch(chain, chain[j].pair) /\ land.id = y
    <2>1. CASE n = 0
        <3>1. land = [m |-> F, id |-> 0]
            BY <1>7, <2>1
        <3> HIDE DEF land
        <3>2. land.m = Fetch(chain, chain[1].pair) /\ land.id = 0
            BY <3>1
        <3> HIDE DEF F
        <3> QED BY <1>5, <3>2
    <2>2. CASE n # 0
        <3>1. land = Settle(chain, F, n)
            BY <1>7, <2>2
        <3> HIDE DEF land, n
        <3>4. PICK k : k = 1
            OBVIOUS
        <3>5. k \in 1 .. Len(chain)
            BY <1>5, <3>4
        <3>6. Somewhere(chain, Settle(chain, Fetch(chain, chain[k].pair), n))
            BY <1>2, <1>8, <3>5, SettleSome
        <3>7. Somewhere(chain, land)
            BY <3>1, <3>4, <3>6
        <3> QED BY <3>7 DEF Somewhere
    <2> QED BY <2>1, <2>2
<1> HIDE DEF land
<1>10. PICK j \in 1 .. Len(chain) : \E y \in Nat :
         land.m = Fetch(chain, chain[j].pair) /\ land.id = y
    BY <1>9
<1>11. land.m = Fetch(chain, chain[j].pair) /\ land.id \in Nat
    BY <1>10
<1>12. land.m \in Mdir /\ land.m.count = Len(chain[j].names) /\ land.m.pair = chain[j].pair
    <2> DEFINE G == Fetch(chain, chain[j].pair)
    <2>1. G \in Mdir /\ G.count = Len(chain[j].names) /\ G.pair = chain[j].pair
        BY <1>5, FetchOf
    <2>2. land.m = G
        BY <1>11
    <2> HIDE DEF G
    <2> QED BY <2>1, <2>2
<1> DEFINE q == land.id - over
           p == off - over
           w == Len(chain[j].names)
<1>13. w \in Nat /\ land.m.count = w
    BY <1>5, <1>12, PartsOf
<1>14. q \in 0 .. w /\ p \in Int
    <2> DEFINE h == land.id
    <2>1. h \in Nat /\ q = h - over /\ over = IF h > w THEN h - w ELSE 0
        BY <1>11, <1>13
    <2> HIDE DEF h, w, q
    <2>2. over \in Nat
        BY <1>13, <2>1
    <2> HIDE DEF over
    <2> QED BY <1>13, <2>1, <2>2
<1>15. to = Rewinds(d, land.m, q, p)
    BY DEF Rewinds
<1> HIDE DEF to, q, p, w, over
<1>16. to \in DirHandles /\ to.m = land.m /\ to.id = q /\ to.head = d.head
    <2> DEFINE m == land.m
    <2>1. q \in Nat /\ p \in Int /\ m \in Mdir /\ d \in DirHandles
        BY <1>7, <1>12, <1>13, <1>14
    <2> HIDE DEF m
    <2>2. to = Rewinds(d, m, q, p)
        BY <1>15 DEF m
    <2>3. RewoundWell(to, d, m, q)
        BY <2>1, <2>2, RewindsOf
    <2> QED BY <2>3 DEF m, RewoundWell
<1> DEFINE P == b[j] + q
<1>17. S = First(all, P)
    <2>1. to.m.pair = chain[j].pair /\ to.id \in 0 .. Len(chain[j].names)
        BY <1>12, <1>14, <1>16 DEF w
    <2>2. Behind(chain, to) = First(all, b[j] + to.id)
        BY <1>2, <2>1, BehindOf
    <2> QED BY <1>16, <2>2
<1>18. T = First(all, Len(all))
    BY <1>2, AllNames
<1>19. P \in 0 .. Len(all)
    <2> DEFINE v == b[j]
               L == Len(all)
    <2>1. v \in Nat /\ w \in Nat /\ b[j + 1] = v + w /\ v + w <= L /\ L \in Nat
        BY <1>2, PlacesOf DEF w
    <2> HIDE DEF v, L
    <2>2. v + q \in 0 .. L
        BY <1>14, <2>1
    <2> QED BY <2>2 DEF v, L
<1>20. S \subseteq T /\ T \subseteq Name
    <2>1. all \in Seq(Name)
        BY <1>2 DEF Spread
    <2>2. \A h \in 1 .. Len(all) : all[h] \in Name
        BY <2>1
    <2>3. T \subseteq Name
        BY <1>18, <2>2 DEF First
    <2>4. \A h \in 1 .. P : h \in 1 .. Len(all)
        <3> DEFINE L == Len(all)
        <3>1. L \in Nat
            BY <2>1
        <3>2. P \in 0 .. L
            BY <1>19
        <3> HIDE DEF L, P
        <3>3. \A h \in 1 .. P : h \in 1 .. L
            BY <3>1, <3>2
        <3> QED BY <3>3 DEF L
    <2>5. S \subseteq T
        BY <1>17, <1>18, <2>4 DEF First
    <2> QED BY <2>3, <2>5
<1> HIDE DEF S, T
<1>21. x = Restarts(to, S, T)
    BY DEF Restarts
<1>22. S \subseteq Name
    BY <1>20
<1> HIDE DEF x
<1>23. /\ x \in DirHandles /\ x.m = to.m /\ x.id = to.id /\ x.head = to.head
       /\ x.seen = S /\ x.start = T
    BY <1>16, <1>20, <1>21, <1>22, RestartsOf
<1>24. x.m = Fetch(chain, chain[j].pair) /\ x.id = q /\ x.head = chain[1].pair
    BY <1>4, <1>7, <1>11, <1>16, <1>23
<1>25. x.id <= Len(chain[j].names)
    BY <1>13, <1>14, <1>24 DEF w
<1>26. P = b[j] + x.id
    BY <1>24
<1> HIDE DEF P
<1>27. x.start \subseteq First(all, Len(all)) /\ x.seen \subseteq First(all, P)
       /\ x.start \intersect First(all, P) \subseteq x.seen
    BY <1>17, <1>18, <1>23
<1>28. Good(chain, b, all, {}, 0, x)
    BY <1>2, <1>23, <1>24, <1>25, <1>26, <1>27, CursorAt
<1>29. Works(chain, [mlist EXCEPT ![i] = x])
    BY <1>1, <1>2, <1>28, PutWorks
<1> QED BY <1>3, <1>29 DEF Inv

SyncedWell(R, l, all, E) ==
    \E B : World(R.chain, B, all, E, 0, R.mlist) /\ Len(R.mlist) = Len(l)

\* A sync, of a file whose handle is attached.
LEMMA SyncedWorks ==
    ASSUME Risks = {}, NEW c, NEW b, NEW all, NEW E, NEW l, World(c, b, all, E, 0, l),
           NEW i \in 1 .. Len(l), ~IsDir(l[i]), l[i].m.pair # Null,
           NEW may, may \subseteq BOOLEAN,
           NEW R \in Touched(State(c, l), At(c, l[i].m.pair), i, may)
    PROVE  SyncedWell(R, l, all, E)
<1> DEFINE d == l[i]
<1>1. Spread(c, b, all) /\ Parts(c) /\ l \in Seq(HandleSet) /\ Good(c, b, all, E, 0, d)
    BY DEF World, Spread
<1>2. d \in FileHandles /\ d \notin DirHandles
    BY <1>1, KindOf
<1>3. PICK j \in 1 .. Len(c) : In(c, d, j, 0)
    <2>1. d.m # NoMdir
        BY DEF NoMdir
    <2> QED BY <1>1, <1>2, <2>1 DEF Good
<1>4. In(c, d, j, j) /\ d.m.pair = c[j].pair
    BY <1>3 DEF In
<1>5. At(c, d.m.pair) = j
    BY <1>1, <1>4, AtOf
<1>6. World(c, b, all, E, j, l)
    BY WorldAt
<1>7. i \in 0 .. Len(l)
    BY <1>1
<1>8. R \in Touched(State(c, l), j, i, may)
    BY <1>5
<1>9. i # 0 => In(c, l[i], j, j)
    BY <1>4
<1>10. \E B, p, e :
          /\ World(R.chain, B, all, E, 0, R.mlist) /\ Len(R.mlist) = Len(l)
          /\ Rebuilt(c, b, R.chain, B, j, p, e, 0)
          /\ \A h \in 1 .. Len(l) : Same(R.mlist[h], l[h])
    BY <1>6, <1>7, <1>8, <1>9, TouchOf
<1> QED BY <1>10 DEF SyncedWell

LEMMA SyncFileWorks ==
    ASSUME Risks = {}, Inv, NEW i \in DOMAIN mlist, SyncFile(i)
    PROVE  Inv'
<1>1. PICK b, all : World(chain, b, all, {}, 0, mlist)
    BY DEF Inv, Works
<1>2. i \in 1 .. Len(mlist)
    BY <1>1 DEF World
<1>3. PICK may : may = BOOLEAN
    OBVIOUS
<1>4. PICK R \in Touched(State(chain, mlist), At(chain, mlist[i].m.pair), i, may) : Become(R)
    BY <1>3 DEF SyncFile, Now
<1>5. may \subseteq BOOLEAN /\ ~IsDir(mlist[i]) /\ mlist[i].m.pair # Null
    BY <1>3 DEF SyncFile
<1>6. PICK B : World(R.chain, B, all, {}, 0, R.mlist)
    <2> DEFINE E == {}
    <2>1. World(chain, b, all, E, 0, mlist)
        BY <1>1
    <2> HIDE DEF E
    <2>2. R \in Touched(State(chain, mlist), At(chain, mlist[i].m.pair), i, may)
        BY <1>4
    <2>3. SyncedWell(R, mlist, all, E)
        BY <1>2, <1>5, <2>1, <2>2, SyncedWorks
    <2> QED BY <2>3 DEF E, SyncedWell
<1>7. chain' = R.chain /\ mlist' = R.mlist
    BY <1>4 DEF Become
<1> QED BY <1>6, <1>7 DEF Inv, Works

LEMMA CloseWorks ==
    ASSUME Risks = {}, Inv, NEW i \in DOMAIN mlist, Close(i)
    PROVE  Inv'
<1> DEFINE dirty == IF IsDir(mlist[i]) \/ mlist[i].m.pair = Null THEN {}
                    ELSE Touched(Now, At(chain, mlist[i].m.pair), i, BOOLEAN)
<1>1. PICK b, all : World(chain, b, all, {}, 0, mlist)
    BY DEF Inv, Works
<1>2. i \in 1 .. Len(mlist)
    BY <1>1 DEF World
<1>3. PICK R \in {Now} \union dirty : Become(State(R.chain, RemoveAt(R.mlist, i)))
    BY DEF Close
<1>4. chain' = R.chain /\ mlist' = RemoveAt(R.mlist, i)
    BY <1>3 DEF Become, State
<1>5. \E B : World(R.chain, B, all, {}, 0, R.mlist) /\ Len(R.mlist) = Len(mlist)
    <2>1. CASE R = Now
        <3>1. R.chain = chain /\ R.mlist = mlist
            BY <2>1 DEF Now, State
        <3> QED BY <1>1, <3>1
    <2>2. CASE R \in dirty
        <3>1. ~IsDir(mlist[i]) /\ mlist[i].m.pair # Null
            BY <2>2
        <3>2. R \in Touched(State(chain, mlist), At(chain, mlist[i].m.pair), i, BOOLEAN)
            BY <2>2 DEF Now
        <3>3. PICK may : may = BOOLEAN
            OBVIOUS
        <3>4. may \subseteq BOOLEAN
              /\ R \in Touched(State(chain, mlist), At(chain, mlist[i].m.pair), i, may)
            BY <3>2, <3>3
        <3> DEFINE E == {}
        <3>5. World(chain, b, all, E, 0, mlist)
            BY <1>1
        <3> HIDE DEF E
        <3>6. SyncedWell(R, mlist, all, E)
            BY <1>2, <3>1, <3>4, <3>5, SyncedWorks
        <3> QED BY <3>6 DEF E, SyncedWell
    <2> QED BY <1>3, <2>1, <2>2
<1>6. PICK B : World(R.chain, B, all, {}, 0, R.mlist) /\ Len(R.mlist) = Len(mlist)
    BY <1>5
<1>7. i \in 1 .. Len(R.mlist)
    BY <1>2, <1>6
<1> DEFINE E == {}
<1>8. World(R.chain, B, all, E, 0, R.mlist)
    BY <1>6
<1> HIDE DEF E
<1>9. World(R.chain, B, all, E, 0, RemoveAt(R.mlist, i))
    BY <1>7, <1>8, WorldClosed
<1> QED BY <1>4, <1>9 DEF Inv, Works, E

-----------------------------------------------------------------------------
(* Calls that create and remove.                                              *)

LEMMA BecomeWorks ==
    ASSUME NEW R, Works(R.chain, R.mlist), Become(R)
    PROVE  Inv'
    BY DEF Become, Inv

LEMMA MadeWorks ==
    ASSUME NEW R, NEW B, NEW p, NEW e, NEW c, NEW b, NEW all, NEW k, NEW l, NEW all0, NEW E,
           NEW u, NEW v, NEW g, NEW X, Made(R, B, p, e, c, b, all, k, l, all0, E, u, v, g, X), E = {}
    PROVE  Works(R.chain, R.mlist)
    BY DEF Made, Works

\* What is said of a commit that creates, when the handle that is pushed is its owner (z is 1),
\* and of lfs_mkdir (z is 0).
LEMMA CreatesHere ==
    ASSUME NEW c, NEW b, NEW all, NEW D, NEW l, World(c, b, all, D, 0, l), NEW n \in Name,
           n \notin Names(c), NEW f, Here(c, b, all, n, f), NEW k, k = f.part, NEW id, id = f.id
    PROVE  Creates(c, b, all, D, k, l, id, n, 0)
<1>1. Spread(c, b, all) /\ Up(all) /\ l \in Seq(HandleSet) /\ 0 \in 0 .. Len(l)
    BY DEF World
<1>2. k \in 1 .. Len(c) /\ id \in 0 .. Len(c[k].names) /\ Fits(all, b[k] + id, b[k] + id, n)
    BY DEF Here
<1>3. World(c, b, all, D, k, l)
    BY WorldAt
<1>4. n \notin First(all, Len(all))
    BY <1>1, AllNames
<1>5. \A i \in 1 .. Len(l) : Held(c, l[i], k) /\ Good(c, b, all, D, k, l[i])
    BY <1>3, GoodHeld DEF World
<1> QED BY <1>1, <1>2, <1>4, <1>5 DEF Creates

LEMMA CreatesOpen ==
    ASSUME NEW c, NEW b, NEW all, NEW D, NEW l, World(c, b, all, D, 0, l), NEW n \in Name,
           n \notin Names(c), NEW f, Here(c, b, all, n, f), NEW k, k = f.part, NEW id, id = f.id,
           n \notin D,
           NEW d, d = FileHandle(n, Fetch(c, c[k].pair), id), NEW s, s = <<d>> \o l
    PROVE  Creates(c, b, all, D, k, s, id, n, 1)
<1>1. Spread(c, b, all) /\ Up(all) /\ l \in Seq(HandleSet) /\ Parts(c)
    BY DEF World, Spread
<1>2. k \in 1 .. Len(c) /\ id \in 0 .. Len(c[k].names) /\ Fits(all, b[k] + id, b[k] + id, n)
      /\ (id < Len(c[k].names) \/ k = Len(c))
    BY DEF Here
<1>3. World(c, b, all, D, k, l)
    BY WorldAt
<1>4. n \notin First(all, Len(all))
    BY <1>1, AllNames
<1>5. id \in Nat /\ id <= Len(c[k].names)
    <2>1. Len(c[k].names) \in Nat
        BY <1>1, <1>2, PartsOf
    <2> QED BY <1>2, <2>1
<1>6. /\ d \in HandleSet /\ d \in FileHandles
      /\ d.id = id /\ d.name = n /\ ~d.gone
      /\ In(c, d, k, k)
    BY <1>1, <1>2, <1>5, NewFile
<1>7. /\ s \in Seq(HandleSet) /\ Len(s) = Len(l) + 1 /\ s[1] = d
      /\ \A i \in 1 .. Len(s) : i # 1 => i - 1 \in 1 .. Len(l) /\ s[i] = l[i - 1]
    BY <1>1, <1>6, PushedOf
<1>8. d \notin DirHandles
    BY <1>6, KindOf
<1>9. Held(c, d, k)
    BY <1>2, <1>6, <1>8 DEF Held
<1>10. ASSUME NEW i \in 1 .. Len(s), i # 1 PROVE Held(c, s[i], k) /\ Good(c, b, all, D, k, s[i])
    <2> DEFINE h == i - 1
    <2>1. h \in 1 .. Len(l) /\ s[i] = l[h]
        BY <1>7, <1>10
    <2> HIDE DEF h
    <2>2. Good(c, b, all, D, k, l[h])
        BY <1>3, <2>1 DEF World
    <2>3. Held(c, l[h], k)
        BY <2>2, GoodHeld
    <2> QED BY <2>1, <2>2, <2>3
<1>11. 1 \in 0 .. Len(s)
    BY <1>1, <1>7
<1>12. \A i \in 1 .. Len(s) : Held(c, s[i], k) /\ (i # 1 => Good(c, b, all, D, k, s[i]))
    BY <1>7, <1>9, <1>10
<1> QED BY <1>1, <1>2, <1>4, <1>6, <1>7, <1>11, <1>12 DEF Creates

LEMMA OpenFileWorks ==
    ASSUME Risks = {}, Inv, NEW n \in Name, OpenFile(n)
    PROVE  Inv'
<1> DEFINE f == Find(chain, n)
           m == Fetch(chain, chain[f.part].pair)
           d == FileHandle(n, m, f.id)
           l == <<d>> \o mlist
           E == {}
<1>1. PICK b, all : World(chain, b, all, E, 0, mlist)
    BY DEF Inv, Works
<1>2. Spread(chain, b, all) /\ Up(all) /\ mlist \in Seq(HandleSet)
    BY <1>1 DEF World
<1>3. Here(chain, b, all, n, f)
    <2> HIDE DEF f
    <2>1. f = Find(chain, n)
        BY DEF f
    <2> QED BY <1>2, <2>1, HereOf
<1>4. CASE n \in Names(chain)
    <2>1. Become(State(chain, l))
        BY <1>4 DEF OpenFile, Push
    <2>2. d = FileHandle(n, Fetch(chain, chain[f.part].pair), f.id)
        OBVIOUS
    <2> HIDE DEF f, d
    <2>3. Good(chain, b, all, {}, 0, d)
        BY <1>2, <1>3, <1>4, <2>2, OpenedFile
    <2>4. Good(chain, b, all, E, 0, d)
        BY <2>3
    <2> HIDE DEF E
    <2>5. l = <<d>> \o mlist
        OBVIOUS
    <2> HIDE DEF l
    <2>6. World(chain, b, all, E, 0, l)
        BY <1>1, <2>4, <2>5, WorldPushed
    <2>7. chain' = chain /\ mlist' = l
        BY <2>1 DEF Become, State
    <2> QED BY <2>6, <2>7 DEF Inv, Works, E
<1>5. CASE n \notin Names(chain)
    <2> DEFINE k == f.part
               id == f.id
    <2>1. PICK R \in Committed(State(chain, l), k, InsertAt(chain[k].names, id + 1, n),
                               None, id, 1, BOOLEAN) : Become(R)
        BY <1>5 DEF OpenFile, Push
    <2>2. k = f.part /\ id = f.id /\ n \notin E
        OBVIOUS
    <2>3. d = FileHandle(n, Fetch(chain, chain[k].pair), id) /\ l = <<d>> \o mlist
        OBVIOUS
    <2> HIDE DEF f, m, d, l, E, k, id
    <2>4. Creates(chain, b, all, E, k, l, id, n, 1)
        BY <1>1, <1>3, <1>5, <2>2, <2>3, CreatesOpen
    <2>5. PICK may : may = BOOLEAN
        OBVIOUS
    <2>6. R \in Committed(State(chain, l), k, InsertAt(chain[k].names, id + 1, n),
                          None, id, 1, may)
        BY <2>1, <2>5
    <2>7. may \subseteq BOOLEAN
        BY <2>5
    <2>8. PICK B, p, e, all0 :
             Made(R, B, p, e, chain, b, all, k, l, all0, E, id, id, 1, {n})
        BY <2>4, <2>6, <2>7, CreateOf
    <2>9. Works(R.chain, R.mlist)
        BY <2>8 DEF Made, Works, E
    <2>10. Become(R)
        BY <2>1
    <2> QED BY <2>9, <2>10, BecomeWorks
<1> QED BY <1>4, <1>5

LEMMA MkdirWorks ==
    ASSUME Risks = {}, Inv, NEW n \in Name, Mkdir(n)
    PROVE  Inv'
<1> DEFINE f == Find(chain, n)
           E == {}
           k == f.part
           id == f.id
           last == Len(chain)
           linked == IF k = last THEN {Now}
                     ELSE Touched(Now, last, 0, IF k = last - 1 THEN {FALSE} ELSE BOOLEAN)
<1>1. PICK b, all : World(chain, b, all, E, 0, mlist)
    BY DEF Inv, Works
<1>2. Spread(chain, b, all) /\ Up(all) /\ mlist \in Seq(HandleSet) /\ Parts(chain)
    BY <1>1 DEF World, Spread
<1>3. Here(chain, b, all, n, f)
    <2> HIDE DEF f
    <2>1. f = Find(chain, n)
        BY DEF f
    <2> QED BY <1>2, <2>1, HereOf
<1>4. n \notin Names(chain)
    BY DEF Mkdir
<1>5. PICK s \in linked : \E r \in Committed(s, k, InsertAt(s.chain[k].names, id + 1, n),
                                             None, id, 0, BOOLEAN) : Become(r)
    BY DEF Mkdir
<1>6. PICK R \in Committed(s, k, InsertAt(s.chain[k].names, id + 1, n), None, id, 0, BOOLEAN) :
         Become(R)
    BY <1>5
<1>7. k = f.part /\ id = f.id /\ last = Len(chain)
    OBVIOUS
<1>8. k \in 1 .. last /\ last \in 1 .. last /\ last \in Nat
    <2>1. k \in 1 .. last
        BY <1>3 DEF Here
    <2> QED BY <1>2, <2>1, PartsOf
<1> HIDE DEF f, k, id, last
<1>9. Creates(chain, b, all, E, k, mlist, id, n, 0)
    <2> HIDE DEF E
    <2> QED BY <1>1, <1>3, <1>4, <1>7, CreatesHere
<1>10. \E B : Creates(s.chain, B, all, E, k, s.mlist, id, n, 0)
    <2>1. CASE s = Now
        <3>1. s.chain = chain /\ s.mlist = mlist
            BY <2>1 DEF Now, State
        <3> QED BY <1>9, <3>1
    <2>2. CASE k # last /\ s \in Touched(Now, last, 0, IF k = last - 1 THEN {FALSE} ELSE BOOLEAN)
        <3>1. PICK may : may = IF k = last - 1 THEN {FALSE} ELSE BOOLEAN
            OBVIOUS
        <3>2. may \subseteq BOOLEAN /\ s \in Touched(State(chain, mlist), last, 0, may)
            BY <2>2, <3>1 DEF Now
        <3> HIDE DEF E
        <3>3. World(chain, b, all, E, last, mlist)
            BY <1>1, WorldAt
        <3>4. 0 \in 0 .. Len(mlist)
            BY <1>2
        <3>5. last \in 1 .. Len(chain)
            BY <1>7, <1>8
        <3>6. \E B, p, e :
                 /\ World(s.chain, B, all, E, 0, s.mlist) /\ Len(s.mlist) = Len(mlist)
                 /\ Rebuilt(chain, b, s.chain, B, last, p, e, 0)
                 /\ \A i \in 1 .. Len(mlist) : Same(s.mlist[i], mlist[i])
            BY <3>2, <3>3, <3>4, <3>5, TouchOf
        <3>7. PICK B, p, e :
                 /\ World(s.chain, B, all, E, 0, s.mlist)
                 /\ Rebuilt(chain, b, s.chain, B, last, p, e, 0)
            BY <3>6
        <3>8. s.chain[k] = chain[k] /\ B[k] = b[k] /\ e \in Nat /\ Len(s.chain) = last + e
            <4>1. k < last
                BY <1>8, <2>2
            <4>2. k \in 1 .. Len(chain)
                BY <1>7, <1>8
            <4> QED BY <1>7, <3>7, <4>1, <4>2 DEF Rebuilt
        <3>9. k \in 1 .. Len(s.chain)
            BY <1>8, <3>8
        <3>10. /\ id \in 0 .. Len(s.chain[k].names) /\ n \notin First(all, Len(all))
               /\ Fits(all, B[k] + id, B[k] + id, n)
            BY <1>9, <3>8 DEF Creates
        <3> DEFINE c == s.chain
                   l == s.mlist
        <3>11. World(c, B, all, E, 0, l)
            BY <3>7
        <3> HIDE DEF c, l
        <3>12. World(c, B, all, E, k, l)
            BY <3>11, WorldAt
        <3>13. /\ Spread(c, B, all) /\ Up(all) /\ l \in Seq(HandleSet) /\ 0 \in 0 .. Len(l)
               /\ \A i \in 1 .. Len(l) : Good(c, B, all, E, k, l[i])
            BY <3>12 DEF World
        <3>14. \A i \in 1 .. Len(l) : Held(c, l[i], k) /\ Good(c, B, all, E, k, l[i])
            BY <3>13, GoodHeld
        <3>15. Creates(c, B, all, E, k, l, id, n, 0)
            BY <3>9, <3>10, <3>13, <3>14 DEF Creates, c
        <3> QED BY <3>15 DEF c, l
    <2> QED BY <1>5, <1>7, <2>1, <2>2
<1>11. PICK B : Creates(s.chain, B, all, E, k, s.mlist, id, n, 0)
    BY <1>10
<1> DEFINE c == s.chain
           l == s.mlist
<1>12. s = State(c, l)
    <2>1. CASE s = Now
        BY <2>1 DEF Now, State
    <2>2. CASE s \in Touched(Now, last, 0, IF k = last - 1 THEN {FALSE} ELSE BOOLEAN)
        <3>1. \E x, y : s = State(x, y)
            BY <2>2 DEF Touched, Committed
        <3>2. PICK x, y : s = State(x, y)
            BY <3>1
        <3> QED BY <3>2 DEF State
    <2> QED BY <1>5, <1>7, <2>1, <2>2
<1>13. PICK may : may = BOOLEAN
    OBVIOUS
<1>14. R \in Committed(State(c, l), k, InsertAt(c[k].names, id + 1, n), None, id, 0, may)
    BY <1>6, <1>12, <1>13
<1>15. Creates(c, B, all, E, k, l, id, n, 0) /\ may \subseteq BOOLEAN
    BY <1>11, <1>13
<1>16. Become(R)
    BY <1>6
<1> HIDE DEF c, l, E
<1>17. PICK B2, p, e, all0 : Made(R, B2, p, e, c, B, all, k, l, all0, E, id, id, 1, {n})
    BY <1>14, <1>15, CreateOf
<1>18. Works(R.chain, R.mlist)
    BY <1>17 DEF Made, Works, E
<1> QED BY <1>16, <1>18, BecomeWorks

IsState(R) == R = State(R.chain, R.mlist)

LEMMA CommittedState ==
    ASSUME NEW s, NEW k, NEW ns, NEW del, NEW cre, NEW owner, NEW may,
           NEW R \in Committed(s, k, ns, del, cre, owner, may)
    PROVE  IsState(R)
<1>1. \E x, y : R = State(x, y)
    BY DEF Committed
<1>2. PICK x, y : R = State(x, y)
    BY <1>1
<1> QED BY <1>2 DEF State, IsState

LEMMA DeletedState ==
    ASSUME NEW s, NEW k, NEW id, NEW R \in Deleted(s, k, id)
    PROVE  IsState(R)
<1>1. R \in Committed(s, k, RemoveAt(s.chain[k].names, id + 1), id, None, 0, BOOLEAN)
      \/ R \in Touched(State(RemoveAt(s.chain, k), s.mlist), k - 1, 0, BOOLEAN)
    BY DEF Deleted
<1>2. CASE R \in Committed(s, k, RemoveAt(s.chain[k].names, id + 1), id, None, 0, BOOLEAN)
    BY <1>2, CommittedState
<1>3. CASE R \in Touched(State(RemoveAt(s.chain, k), s.mlist), k - 1, 0, BOOLEAN)
    <2> DEFINE x == State(RemoveAt(s.chain, k), s.mlist)
               ns == x.chain[k - 1].names
    <2>1. R \in Committed(x, k - 1, ns, None, None, 0, BOOLEAN)
        BY <1>3 DEF Touched
    <2> HIDE DEF x, ns
    <2> QED BY <2>1, CommittedState
<1> QED BY <1>1, <1>2, <1>3

\* What may follow: the directory that is gone drops out of the threaded list.
LEMMA UnlistedWorks ==
    ASSUME Risks = {}, NEW x, IsState(x), Works(x.chain, x.mlist), NEW n, NEW R \in Unlisted(x, n)
    PROVE  Works(R.chain, R.mlist)
<1> DEFINE c == x.chain
           l == x.mlist
           E == {}
<1>1. PICK b, all : World(c, b, all, E, 0, l)
    BY DEF Works
<1>2. R \in Unlisted(State(c, l), n)
    BY DEF IsState
<1> HIDE DEF c, l, E
<1>3. PICK B : World(R.chain, B, all, E, 0, R.mlist)
    BY <1>1, <1>2, UnlistedOf
<1> QED BY <1>3 DEF Works, E

LEMMA RemoveEntryWorks ==
    ASSUME Risks = {}, Inv, NEW n \in Name, RemoveEntry(n)
    PROVE  Inv'
<1> DEFINE f == Find(chain, n)
           l == Forgotten(mlist, n)
           E == {}
           D == E \union {n}
           k == f.part
           id == f.id
<1>1. PICK b, all : World(chain, b, all, E, 0, mlist)
    BY DEF Inv, Works
<1>2. Spread(chain, b, all) /\ Up(all)
    BY <1>1 DEF World
<1>3. Here(chain, b, all, n, f)
    <2> HIDE DEF f
    <2>1. f = Find(chain, n)
        BY DEF f
    <2> QED BY <1>2, <2>1, HereOf
<1>4. n \in Names(chain)
    BY DEF RemoveEntry
<1>5. PICK x \in Deleted(State(chain, l), k, id) : \E r \in Unlisted(x, n) : Become(r)
    BY DEF RemoveEntry
<1>6. PICK R \in Unlisted(x, n) : Become(R)
    BY <1>5
<1> HIDE DEF f
<1>7. k \in 1 .. Len(chain) /\ id \in Nat /\ id < Len(chain[k].names) /\ n = chain[k].names[id + 1]
    <2>1. k \in 1 .. Len(chain) /\ id \in 0 .. Len(chain[k].names) /\ id < Len(chain[k].names)
          /\ n = chain[k].names[id + 1]
        BY <1>3, <1>4 DEF Here
    <2>2. Len(chain[k].names) \in Nat
        BY <1>2, <2>1, PlacesOf
    <2> QED BY <2>1, <2>2
<1> HIDE DEF k, id, l
<1>8. World(chain, b, all, D, 0, l)
    <2> HIDE DEF E
    <2> QED BY <1>1, ForgottenOf DEF l
<1>9. n \in D /\ D \ {n} = E
    OBVIOUS
<1> HIDE DEF D
<1>10. PICK B, all0 : World(x.chain, B, all0, D \ {n}, 0, x.mlist)
    BY <1>5, <1>7, <1>8, <1>9, DeletedOf
<1>11. Works(x.chain, x.mlist)
    BY <1>9, <1>10 DEF Works
<1>12. IsState(x)
    <2> DEFINE s == State(chain, l)
    <2>1. x \in Deleted(s, k, id)
        OBVIOUS
    <2> HIDE DEF s
    <2> QED BY <2>1, DeletedState
<1>13. Works(R.chain, R.mlist)
    BY <1>11, <1>12, UnlistedWorks
<1> QED BY <1>6, <1>13, BecomeWorks

\* The handles forget a, and b.
LEMMA ForgottenBoth ==
    ASSUME NEW c, NEW b, NEW all, NEW l, World(c, b, all, {}, 0, l), NEW x, NEW y,
           NEW D, D = {x, y}
    PROVE  World(c, b, all, D, 0, Forgotten(Forgotten(l, x), y))
<1> DEFINE E == {}
           X == E \union {x}
           Y == X \union {y}
           m == Forgotten(l, x)
<1>1. World(c, b, all, E, 0, l)
    OBVIOUS
<1>2. Y = D
    OBVIOUS
<1> HIDE DEF E
<1>3. World(c, b, all, X, 0, m)
    BY <1>1, ForgottenOf
<1> HIDE DEF X, m
<1>4. World(c, b, all, Y, 0, Forgotten(m, y))
    BY <1>3, ForgottenOf
<1> QED BY <1>2, <1>4 DEF m

LEMMA RenameInPartWorks ==
    ASSUME Risks = {}, Inv, NEW a \in Name, NEW y \in Name, a \in Names(chain), a # y,
           RenameInPart(a, y)
    PROVE  Inv'
<1> DEFINE f == Find(chain, a)
           h == Find(chain, y)
           k == f.part
           fid == f.id
           gid == h.id
           over == y \in Names(chain)
           del == IF ~over /\ gid <= fid THEN fid + 1 ELSE fid
           left == RemoveAt(chain[k].names, fid + 1)
           ns == IF over THEN left
                 ELSE InsertAt(left, IF gid <= fid THEN gid + 1 ELSE gid, y)
           l == Forgotten(Forgotten(mlist, a), y)
           D == {a, y}
           E == {}
<1>1. PICK b, all : World(chain, b, all, {}, 0, mlist)
    BY DEF Inv, Works
<1>2. Spread(chain, b, all) /\ Up(all)
    BY <1>1 DEF World
<1>3. Here(chain, b, all, a, f) /\ Here(chain, b, all, y, h)
    <2> HIDE DEF f, h
    <2>1. f = Find(chain, a) /\ h = Find(chain, y)
        BY DEF f, h
    <2> QED BY <1>2, <2>1, HereOf
<1>4. /\ h.part = k
      /\ \E x \in Committed(State(chain, l), k, ns, del, gid, 0, BOOLEAN) :
            \E r \in (IF over THEN Unlisted(x, y) ELSE {x}) : Become(r)
    BY DEF RenameInPart
<1>5. PICK x \in Committed(State(chain, l), k, ns, del, gid, 0, BOOLEAN) :
         \E r \in (IF over THEN Unlisted(x, y) ELSE {x}) : Become(r)
    BY <1>4
<1>6. PICK R \in (IF over THEN Unlisted(x, y) ELSE {x}) : Become(R)
    BY <1>5
<1>7. IsState(x)
    <2> DEFINE s == State(chain, l)
    <2>1. x \in Committed(s, k, ns, del, gid, 0, BOOLEAN)
        OBVIOUS
    <2> HIDE DEF s, k, ns, del, gid
    <2> QED BY <2>1, CommittedState
<1>8. PICK v \in BOOLEAN : v <=> over
    <2> HIDE DEF over
    <2>1. TRUE \in BOOLEAN /\ FALSE \in BOOLEAN
        OBVIOUS
    <2>2. CASE over
        BY <2>1, <2>2
    <2>3. CASE ~over
        BY <2>1, <2>3
    <2> QED BY <2>2, <2>3
<1>9. First(all, Len(all)) = Names(chain)
    BY <1>2, AllNames
<1> HIDE DEF f, h
<1>10. Renames(chain, b, all, k, fid, gid, v, a, y)
    <2>1. /\ k \in 1 .. Len(chain) /\ fid \in 0 .. Len(chain[k].names)
          /\ fid < Len(chain[k].names) /\ chain[k].names[fid + 1] = a
        BY <1>3 DEF Here
    <2>2. /\ gid \in 0 .. Len(chain[k].names)
          /\ y \in Names(chain) => gid < Len(chain[k].names) /\ chain[k].names[gid + 1] = y
          /\ y \notin Names(chain) => Fits(all, b[k] + gid, b[k] + gid, y)
        BY <1>3, <1>4 DEF Here
    <2>3. fid \in Nat
        <3>1. Len(chain[k].names) \in Nat
            BY <1>2, <2>1, PlacesOf
        <3> QED BY <2>1, <3>1
    <2>4. v \in BOOLEAN /\ (v <=> y \in Names(chain))
        BY <1>8
    <2> HIDE DEF k, fid, gid
    <2> QED BY <1>9, <2>1, <2>2, <2>3, <2>4 DEF Renames
<1>11. World(chain, b, all, D, 0, l)
    <2>1. D = {a, y}
        OBVIOUS
    <2> HIDE DEF D
    <2> QED BY <1>1, <2>1, ForgottenBoth
<1>12. World(chain, b, all, D, k, l)
    <2> HIDE DEF D, l, k
    <2> QED BY <1>11, WorldAt
<1>13. /\ ns = IF v THEN RemoveAt(chain[k].names, fid + 1)
               ELSE InsertAt(RemoveAt(chain[k].names, fid + 1),
                             IF gid <= fid THEN gid + 1 ELSE gid, y)
       /\ del = IF ~v /\ gid <= fid THEN fid + 1 ELSE fid
       /\ D = {a, y}
    BY <1>8
<1>14. PICK may : may = BOOLEAN
    OBVIOUS
<1>15. x \in Committed(State(chain, l), k, ns, del, gid, 0, may) /\ may \subseteq BOOLEAN
    BY <1>14
<1>16. RenameArgs(chain, b, all, k, l, a, y, D, fid, gid, v, ns, del)
    <2> HIDE DEF D, ns, del, k, fid, gid, l
    <2> QED BY <1>10, <1>12, <1>13 DEF RenameArgs
<1> HIDE DEF D, ns, del, k, fid, gid, l
<1>17. Works(x.chain, x.mlist)
    <2>1. PICK B, p, e, all0, u, w, g : Made(x, B, p, e, chain, b, all, k, l, all0, {}, u, w, g, D)
        BY <1>15, <1>16, RenameOf
    <2> QED BY <2>1 DEF Made, Works
<1>18. Works(R.chain, R.mlist)
    <2>1. CASE R = x
        BY <1>17, <2>1
    <2>2. CASE R \in Unlisted(x, y)
        BY <1>7, <1>17, <2>2, UnlistedWorks
    <2> QED BY <2>1, <2>2
<1> QED BY <1>6, <1>18, BecomeWorks

\* No handle knows a name that is not there.
LEMMA NotThere ==
    ASSUME NEW c, NEW b, NEW all, NEW D, NEW l, World(c, b, all, D, 0, l),
           NEW y, y \notin First(all, Len(all)), NEW E, E = D \ {y}
    PROVE  World(c, b, all, E, 0, l)
<1>1. ASSUME NEW i \in 1 .. Len(l) PROVE Good(c, b, all, E, 0, l[i])
    <2> DEFINE d == l[i]
    <2>1. Good(c, b, all, D, 0, d) /\ Spread(c, b, all)
        BY DEF World
    <2> HIDE DEF d
    <2>2. d \in DirHandles => d.start \subseteq First(all, Len(all)) \ E /\ d.seen \intersect E = {}
        BY <2>1 DEF Good
    <2>3. ASSUME NEW j \in 1 .. Len(c), In(c, d, j, 0), Knows(all, D, d, b[j] + d.id)
          PROVE  Knows(all, E, d, b[j] + d.id)
        <3> DEFINE P == b[j] + d.id
        <3>1. d \in HandleSet
            BY <2>1 DEF Good
        <3>2. P \in 0 .. Len(all) /\ Len(all) \in Nat
            BY <2>1, <2>3, <3>1, PlaceOf, PlacesOf
        <3> HIDE DEF P
        <3>3. Knows(all, D, d, P)
            BY <2>3 DEF P
        <3>4. d \in FileHandles => d.name \in First(all, Len(all))
            <4>1. SUFFICES ASSUME d \in FileHandles PROVE d.name \in First(all, Len(all))
                OBVIOUS
            <4>2. P < Len(all) /\ all[P + 1] = d.name
                BY <3>3, <4>1 DEF Knows
            <4>3. P + 1 \in 1 .. Len(all)
                BY <3>2, <4>2
            <4> QED BY <4>2, <4>3 DEF First
        <3>5. d \in FileHandles => (d.name \in D <=> d.name \in E)
            BY <3>4
        <3>6. Knows(all, E, d, P)
            BY <3>3, <3>5 DEF Knows
        <3> QED BY <3>6 DEF P
    <2>4. Good(c, b, all, E, 0, d)
        BY <2>1, <2>2, <2>3 DEF Good
    <2> QED BY <2>4 DEF d
<1> QED BY <1>1 DEF World

\* After the commit to part k, the only name to be forgotten is a.
Halfway(c, b, C, L, k, a) ==
    \E B, p, e, all0, g : World(C, B, all0, {a}, 0, L) /\ Rebuilt(c, b, C, B, k, p, e, g)

LEMMA HalfwayOver ==
    ASSUME Risks = {}, NEW c, NEW b, NEW all, NEW l, NEW a, NEW y, a # y,
           World(c, b, all, {a, y}, 0, l),
           NEW k \in 1 .. Len(c), NEW id \in Nat, id < Len(c[k].names), y = c[k].names[id + 1],
           NEW may, may \subseteq BOOLEAN,
           NEW R \in Committed(State(c, l), k, c[k].names, id, id, 0, may)
    PROVE  Halfway(c, b, R.chain, R.mlist, k, a)
<1> DEFINE D == {a, y}
           E == D \ {y}
<1>1. World(c, b, all, D, 0, l) /\ y \in D
    OBVIOUS
<1>2. E = {a}
    OBVIOUS
<1> HIDE DEF D
<1>3. World(c, b, all, D, k, l)
    BY <1>1, WorldAt
<1>4. PICK B, p, e, all0 :
         Made(R, B, p, e, c, b, all, k, l, all0, D \ {y}, id, id + 1, 0, {y})
    BY <1>1, <1>3, ReplaceOf
<1>5. World(R.chain, B, all0, E, 0, R.mlist) /\ Rebuilt(c, b, R.chain, B, k, p, e, 0)
    BY <1>4 DEF Made
<1> QED BY <1>2, <1>5 DEF Halfway

LEMMA HalfwayNew ==
    ASSUME Risks = {}, NEW c, NEW b, NEW all, NEW l, NEW a, NEW y \in Name, a # y,
           World(c, b, all, {a, y}, 0, l), y \notin Names(c),
           NEW f, Here(c, b, all, y, f), NEW k, k = f.part, NEW id, id = f.id,
           NEW may, may \subseteq BOOLEAN,
           NEW R \in Committed(State(c, l), k, InsertAt(c[k].names, id + 1, y), None, id, 0, may)
    PROVE  Halfway(c, b, R.chain, R.mlist, k, a)
<1> DEFINE D == {a, y}
           E == {a}
<1>1. World(c, b, all, D, 0, l) /\ E = D \ {y}
    OBVIOUS
<1> HIDE DEF D, E
<1>2. y \notin First(all, Len(all))
    <2>1. Spread(c, b, all)
        BY <1>1 DEF World
    <2> QED BY <2>1, AllNames
<1>3. World(c, b, all, E, 0, l)
    BY <1>1, <1>2, NotThere
<1>4. Creates(c, b, all, E, k, l, id, y, 0)
    BY <1>3, CreatesHere
<1>5. PICK B, p, e, all0 : Made(R, B, p, e, c, b, all, k, l, all0, E, id, id, 1, {y})
    BY <1>4, CreateOf
<1>6. World(R.chain, B, all0, E, 0, R.mlist) /\ Rebuilt(c, b, R.chain, B, k, p, e, 1)
    BY <1>5 DEF Made
<1> QED BY <1>6 DEF Halfway, E

\* The entry a, in another part than k, is deleted.
LEMMA HalfwayDone ==
    ASSUME Risks = {}, NEW c, NEW b, NEW all, Spread(c, b, all), NEW k \in 1 .. Len(c), NEW a,
           NEW C, NEW L, Halfway(c, b, C, L, k, a),
           NEW j \in 1 .. Len(c), j # k, NEW id \in Nat, id < Len(c[j].names),
           a = c[j].names[id + 1],
           NEW R \in Deleted(State(C, L), At(C, c[j].pair), id)
    PROVE  Works(R.chain, R.mlist)
<1>1. PICK B, p, e, all0, g : World(C, B, all0, {a}, 0, L) /\ Rebuilt(c, b, C, B, k, p, e, g)
    BY DEF Halfway
<1>2. Len(c) \in Nat /\ Parts(C)
    BY <1>1, PartsOf DEF Spread, World
<1>3. \E r \in 1 .. Len(C) : C[r] = c[j]
    <2>1. e \in Nat /\ Len(C) = Len(c) + e
        BY <1>1 DEF Rebuilt
    <2>2. CASE j < k
        <3>1. j \in 1 .. Len(C) /\ C[j] = c[j]
            BY <1>1, <1>2, <2>1, <2>2 DEF Rebuilt
        <3> QED BY <3>1
    <2>3. CASE j > k
        <3>1. j + e \in 1 .. Len(C) /\ C[j + e] = c[j]
            BY <1>1, <1>2, <2>1, <2>3 DEF Rebuilt
        <3> QED BY <3>1
    <2> QED BY <1>2, <2>2, <2>3
<1>4. PICK r \in 1 .. Len(C) : C[r] = c[j]
    BY <1>3
<1>5. At(C, c[j].pair) = r
    <2>1. At(C, C[r].pair) = r
        BY <1>2, AtOf
    <2> QED BY <1>4, <2>1
<1> DEFINE D == {a}
<1>6. World(C, B, all0, D, 0, L) /\ a \in D /\ D \ {a} = {}
    BY <1>1
<1> HIDE DEF D
<1>7. id < Len(C[r].names) /\ a = C[r].names[id + 1] /\ R \in Deleted(State(C, L), r, id)
    BY <1>4, <1>5
<1>8. PICK B2, all2 : World(R.chain, B2, all2, D \ {a}, 0, R.mlist)
    BY <1>6, <1>7, DeletedOf
<1> QED BY <1>6, <1>8 DEF Works

LEMMA RenameAcrossWorks ==
    ASSUME Risks = {}, Inv, NEW a \in Name, NEW y \in Name, a \in Names(chain), a # y,
           RenameAcross(a, y)
    PROVE  Inv'
<1> DEFINE f == Find(chain, a)
           h == Find(chain, y)
           j == f.part
           k == h.part
           fid == f.id
           gid == h.id
           over == y \in Names(chain)
           l == Forgotten(Forgotten(mlist, a), y)
           ns == IF over THEN chain[k].names ELSE InsertAt(chain[k].names, gid + 1, y)
           del == IF over THEN gid ELSE None
           may == IF j = k - 1 THEN {FALSE} ELSE BOOLEAN
<1>1. PICK b, all : World(chain, b, all, {}, 0, mlist)
    BY DEF Inv, Works
<1>2. Spread(chain, b, all) /\ Up(all)
    BY <1>1 DEF World
<1>3. Here(chain, b, all, a, f) /\ Here(chain, b, all, y, h)
    <2> HIDE DEF f, h
    <2>1. f = Find(chain, a) /\ h = Find(chain, y)
        BY DEF f, h
    <2> QED BY <1>2, <2>1, HereOf
<1>4. /\ j # k
      /\ \E x \in Committed(State(chain, l), k, ns, del, gid, 0, may) :
            \E z \in Deleted(x, At(x.chain, chain[j].pair), fid) :
               \E r \in (IF over THEN Unlisted(z, y) ELSE {z}) : Become(r)
    BY DEF RenameAcross
<1>5. PICK x \in Committed(State(chain, l), k, ns, del, gid, 0, may) :
         \E z \in Deleted(x, At(x.chain, chain[j].pair), fid) :
            \E r \in (IF over THEN Unlisted(z, y) ELSE {z}) : Become(r)
    BY <1>4
<1>6. PICK z \in Deleted(x, At(x.chain, chain[j].pair), fid) :
         \E r \in (IF over THEN Unlisted(z, y) ELSE {z}) : Become(r)
    BY <1>5
<1>7. PICK R \in (IF over THEN Unlisted(z, y) ELSE {z}) : Become(R)
    BY <1>6
<1>8. k = h.part /\ gid = h.id /\ may \subseteq BOOLEAN
    OBVIOUS
<1>9. IsState(x)
    <2> DEFINE s == State(chain, l)
    <2>1. x \in Committed(s, k, ns, del, gid, 0, may)
        OBVIOUS
    <2> HIDE DEF s, k, ns, del, gid, may
    <2> QED BY <2>1, CommittedState
<1> HIDE DEF f, h, l, may
<1>10. /\ j \in 1 .. Len(chain) /\ fid \in Nat
       /\ fid < Len(chain[j].names) /\ a = chain[j].names[fid + 1]
    <2>1. j \in 1 .. Len(chain) /\ fid \in 0 .. Len(chain[j].names)
          /\ fid < Len(chain[j].names) /\ a = chain[j].names[fid + 1]
        BY <1>3 DEF Here
    <2>2. Len(chain[j].names) \in Nat
        BY <1>2, <2>1, PlacesOf
    <2> QED BY <2>1, <2>2
<1>11. World(chain, b, all, {a, y}, 0, l)
    <2> DEFINE D == {a, y}
    <2>1. D = {a, y}
        OBVIOUS
    <2> HIDE DEF D
    <2>2. World(chain, b, all, D, 0, l)
        BY <1>1, <2>1, ForgottenBoth DEF l
    <2> QED BY <2>2 DEF D
<1>12. k \in 1 .. Len(chain)
    BY <1>3 DEF Here
<1>13. Halfway(chain, b, x.chain, x.mlist, k, a)
    <2>1. CASE over
        <3>1. /\ gid \in 0 .. Len(chain[k].names)
              /\ gid < Len(chain[k].names) /\ y = chain[k].names[gid + 1]
            BY <1>3, <2>1 DEF Here
        <3>2. gid \in Nat
            <4>1. Len(chain[k].names) \in Nat
                BY <1>2, <1>12, PlacesOf
            <4> QED BY <3>1, <4>1
        <3>3. x \in Committed(State(chain, l), k, chain[k].names, gid, gid, 0, may)
            BY <2>1
        <3> HIDE DEF k, gid
        <3> QED BY <1>8, <1>11, <1>12, <3>1, <3>2, <3>3, HalfwayOver
    <2>2. CASE ~over
        <3>1. x \in Committed(State(chain, l), k, InsertAt(chain[k].names, gid + 1, y),
                              None, gid, 0, may)
            BY <2>2
        <3> HIDE DEF k, gid
        <3> QED BY <1>3, <1>8, <1>11, <2>2, <3>1, HalfwayNew
    <2> QED BY <2>1, <2>2
<1> DEFINE C == x.chain
           L == x.mlist
<1>14. z \in Deleted(State(C, L), At(C, chain[j].pair), fid)
    BY <1>9 DEF IsState
<1>15. IsState(z)
    <2> DEFINE r == At(x.chain, chain[j].pair)
    <2>1. z \in Deleted(x, r, fid)
        OBVIOUS
    <2> HIDE DEF r, fid
    <2> QED BY <2>1, DeletedState
<1> HIDE DEF C, L, j, k, fid
<1>16. Works(z.chain, z.mlist)
    <2>1. Halfway(chain, b, C, L, k, a) /\ j # k
        BY <1>4, <1>13 DEF C, L
    <2> QED BY <1>2, <1>10, <1>12, <1>14, <2>1, HalfwayDone
<1>17. Works(R.chain, R.mlist)
    <2>1. CASE R = z
        BY <1>16, <2>1
    <2>2. CASE R \in Unlisted(z, y)
        BY <1>15, <1>16, <2>2, UnlistedWorks
    <2> QED BY <2>1, <2>2
<1> QED BY <1>7, <1>17, BecomeWorks

-----------------------------------------------------------------------------
(* What is proved.                                                            *)

LEMMA StepWorks ==
    ASSUME Risks = {}, Inv, [Next]_vars
    PROVE  Inv'
<1>1. CASE OpenDir
    BY <1>1, OpenDirWorks
<1>2. ASSUME NEW n \in Name, OpenFile(n) PROVE Inv'
    BY <1>2, OpenFileWorks
<1>3. ASSUME NEW n \in Name, Mkdir(n) PROVE Inv'
    BY <1>3, MkdirWorks
<1>4. ASSUME NEW n \in Name, RemoveEntry(n) PROVE Inv'
    BY <1>4, RemoveEntryWorks
<1>5. ASSUME NEW a \in Name, NEW y \in Name, Rename(a, y) PROVE Inv'
    <2>1. a \in Names(chain) /\ a # y
        BY <1>5 DEF Rename
    <2>2. CASE RenameInPart(a, y)
        BY <2>1, <2>2, RenameInPartWorks
    <2>3. CASE RenameAcross(a, y)
        BY <2>1, <2>3, RenameAcrossWorks
    <2> QED BY <1>5, <2>2, <2>3 DEF Rename
<1>6. ASSUME NEW i \in DOMAIN mlist, SyncFile(i) PROVE Inv'
    BY <1>6, SyncFileWorks
<1>7. ASSUME NEW i \in DOMAIN mlist, Close(i) PROVE Inv'
    BY <1>7, CloseWorks
<1>8. ASSUME NEW i \in DOMAIN mlist, ReadDots(i) PROVE Inv'
    BY <1>8, ReadDotsWorks
<1>9. ASSUME NEW i \in DOMAIN mlist, ReadDir(i) PROVE Inv'
    BY <1>9, ReadDirWorks
<1>10. ASSUME NEW i \in DOMAIN mlist, NEW off \in 0 .. MaxPos, SeekDir(i, off) PROVE Inv'
    <2>1. off \in Nat
        BY ConstantsAssumption
    <2> QED BY <1>10, <2>1, SeekDirWorks
<1>11. CASE UNCHANGED vars
    BY <1>11 DEF vars, Inv
<1> QED BY <1>1, <1>2, <1>3, <1>4, <1>5, <1>6, <1>7, <1>8, <1>9, <1>10, <1>11 DEF Next

\* The handles are good, of a directory whose names are in one order: there is such an
\* order (all), and there are places in it where the parts begin (b).
THEOREM HandlesAreGood == ASSUME Risks = {} PROVE Spec => []Inv
<1>1. Init => Inv
    BY InitWorks
<1>2. Inv /\ [Next]_vars => Inv'
    BY StepWorks
<1> QED BY <1>1, <1>2, PTL DEF Spec

\* A place in an earlier part is before one in a later.
LEMMA Ascends ==
    ASSUME NEW c, NEW b, NEW all, Spread(c, b, all), Up(all),
           NEW j \in 1 .. Len(c), NEW k \in 1 .. Len(c),
           NEW x \in 1 .. Len(c[j].names), NEW y \in 1 .. Len(c[k].names),
           j < k \/ (j = k /\ x < y)
    PROVE  c[j].names[x] < c[k].names[y]
<1>1. /\ b[j] \in Nat /\ Len(c[j].names) \in Nat /\ b[j + 1] = b[j] + Len(c[j].names)
      /\ b[j + 1] <= Len(all) /\ Len(all) \in Nat
    BY SMTT(60), PlacesOf
<1>2. /\ b[k] \in Nat /\ Len(c[k].names) \in Nat /\ b[k + 1] = b[k] + Len(c[k].names)
      /\ b[k + 1] <= Len(all)
    BY PlacesOf
<1>3. j < k => b[j + 1] <= b[k]
    BY PlacesOf
<1>4. all[b[j] + x] = c[j].names[x] /\ all[b[k] + y] = c[k].names[y]
    BY DEF Spread
<1> DEFINE u == b[j]
           v == b[k]
           m == Len(c[j].names)
           n == Len(c[k].names)
           N == Len(all)
<1>5. /\ u \in Nat /\ v \in Nat /\ m \in Nat /\ n \in Nat /\ N \in Nat
      /\ u + m <= N /\ v + n <= N /\ (j < k => u + m <= v) /\ (j = k => u = v)
    BY <1>1, <1>2, <1>3
<1>6. x \in 1 .. m /\ y \in 1 .. n
    OBVIOUS
<1> HIDE DEF u, v, m, n, N
<1>7. u + x \in 1 .. N /\ v + y \in 1 .. N /\ u + x < v + y
    BY <1>5, <1>6
<1>8. all[u + x] < all[v + y]
    BY <1>7 DEF Up, N
<1> QED BY <1>4, <1>8 DEF u, v

LEMMA GoodTypes == Inv => TypeOK
<1>1. SUFFICES ASSUME NEW b, NEW all, World(chain, b, all, {}, 0, mlist) PROVE TypeOK
    BY DEF Inv, Works
<1>2. Spread(chain, b, all) /\ Up(all) /\ Parts(chain) /\ mlist \in Seq(HandleSet)
    BY <1>1 DEF World, Spread
<1>3. \A k \in DOMAIN chain : chain[k].pair \in Pairs /\ (k > 1 => chain[k].names # <<>>)
    BY <1>2, PartsOf DEF Parts
<1>4. \A j, k \in DOMAIN chain : j # k => chain[j].pair # chain[k].pair
    BY <1>2, PartsOf DEF Parts
<1>5. ASSUME NEW j \in DOMAIN chain, NEW k \in DOMAIN chain,
             NEW x \in DOMAIN chain[j].names, NEW y \in DOMAIN chain[k].names,
             j < k \/ (j = k /\ x < y)
      PROVE  chain[j].names[x] < chain[k].names[y]
    <2>1. j \in 1 .. Len(chain) /\ k \in 1 .. Len(chain)
        BY <1>2, PartsOf
    <2>2. x \in 1 .. Len(chain[j].names) /\ y \in 1 .. Len(chain[k].names)
        BY <1>2, <2>1, PartsOf
    <2> QED BY <1>2, <1>5, <2>1, <2>2, Ascends
<1>6. ASSUME NEW d \in Handles PROVE d.m \in Mdir /\ d.id \in Nat
    <2>1. d \in HandleSet
        BY <1>1, <1>2 DEF Handles, World
    <2> QED BY <2>1, KindOf
<1> QED BY <1>3, <1>4, <1>5, <1>6 DEF TypeOK

\* Under the conditions in which the code does not lose track of a handle (Risks is empty):
\* the directory and its handles have their types, its names ascend through the chain of its
\* parts, and no part but the first is empty.
THEOREM TypesAreKept == ASSUME Risks = {} PROVE Spec => []TypeOK
    BY HandlesAreGood, GoodTypes, PTL

\* What is good of a handle of a file.
LEMMA FileOf ==
    ASSUME NEW c, NEW b, NEW all, Spread(c, b, all), NEW d, Good(c, b, all, {}, 0, d), ~IsDir(d)
    PROVE  \/ d.m = NoMdir /\ d.gone
           \/ \E j \in 1 .. Len(c) :
                 /\ d.m = Fetch(c, c[j].pair) /\ d.m.pair = c[j].pair /\ d.m.pair # Null
                 /\ d.id \in Nat /\ d.id < Len(c[j].names) /\ c[j].names[d.id + 1] = d.name
                 /\ ~d.gone
<1>1. d \in HandleSet
    BY DEF Good
<1>2. d \in FileHandles /\ d.id \in Nat
    BY <1>1, KindOf
<1>3. CASE d.m = NoMdir /\ d.gone
    BY <1>3
<1>4. CASE \E j \in 1 .. Len(c) : In(c, d, j, 0) /\ Knows(all, {}, d, b[j] + d.id)
    <2>1. PICK j \in 1 .. Len(c) : In(c, d, j, 0) /\ Knows(all, {}, d, b[j] + d.id)
        BY <1>4
    <2>2. d.m = Fetch(c, c[j].pair) /\ d.m.pair = c[j].pair
        BY <2>1 DEF In
    <2>3. b[j] + d.id < Len(all) /\ all[(b[j] + d.id) + 1] = d.name /\ ~d.gone
        BY <1>2, <2>1 DEF Knows
    <2>4. d.id < Len(c[j].names)
        BY <1>1, <1>2, <2>1, <2>3, PlaceOf
    <2>5. b[j] \in Nat /\ Len(c[j].names) \in Nat
          /\ \A a \in 1 .. Len(c[j].names) : all[b[j] + a] = c[j].names[a]
        BY PlacesOf
    <2>6. c[j].names[d.id + 1] = d.name
        <3> DEFINE id == d.id
                   n == Len(c[j].names)
                   y == b[j]
        <3>1. id \in Nat /\ n \in Nat /\ id < n /\ y \in Nat
            BY <1>2, <2>4, <2>5
        <3>2. (\A a \in 1 .. n : all[y + a] = c[j].names[a]) /\ all[(y + id) + 1] = d.name
            BY <2>3, <2>5
        <3> HIDE DEF id, n, y
        <3>3. id + 1 \in 1 .. n /\ y + (id + 1) = (y + id) + 1
            BY <3>1
        <3>4. c[j].names[id + 1] = d.name
            BY <3>2, <3>3
        <3> QED BY <3>4 DEF id
    <2>7. c[j].pair # Null
        BY PartsOf DEF Spread
    <2> QED BY <1>2, <2>2, <2>3, <2>4, <2>6, <2>7
<1> QED BY <1>2, <1>3, <1>4 DEF Good

LEMMA GoodFollows == Inv => FollowsFile
<1>1. SUFFICES ASSUME NEW b, NEW all, World(chain, b, all, {}, 0, mlist), NEW d \in Files, ~d.gone
               PROVE  /\ d.m.pair \in PairsOf(chain)
                      /\ LET ns == chain[At(chain, d.m.pair)].names
                         IN d.id + 1 \in DOMAIN ns /\ ns[d.id + 1] = d.name
    BY DEF Inv, Works, FollowsFile
<1>2. Spread(chain, b, all) /\ Parts(chain)
    BY <1>1 DEF World, Spread
<1>3. Good(chain, b, all, {}, 0, d) /\ ~IsDir(d)
    BY <1>1 DEF World, Files, Handles
<1>4. PICK j \in 1 .. Len(chain) :
         /\ d.m.pair = chain[j].pair
         /\ d.id \in Nat /\ d.id < Len(chain[j].names) /\ chain[j].names[d.id + 1] = d.name
    BY <1>1, <1>2, <1>3, FileOf
<1>5. At(chain, d.m.pair) = j /\ d.m.pair \in PairsOf(chain)
    <2>1. At(chain, chain[j].pair) = j
        BY <1>2, AtOf
    <2>2. d.m.pair \in PairsOf(chain)
        BY <1>2, <1>4, PairAt
    <2> QED BY <1>4, <2>1, <2>2
<1>6. d.id + 1 \in DOMAIN chain[j].names
    <2>1. Len(chain[j].names) \in Nat /\ DOMAIN chain[j].names = 1 .. Len(chain[j].names)
        BY <1>2, PartsOf
    <2> DEFINE n == Len(chain[j].names)
               id == d.id
    <2>2. id \in Nat /\ id < n /\ n \in Nat
        BY <1>4, <2>1
    <2> HIDE DEF id, n
    <2>3. id + 1 \in 1 .. n
        BY <2>2
    <2> QED BY <2>1, <2>3 DEF id, n
<1> QED BY <1>4, <1>5, <1>6

\* A handle of a file that was neither removed nor renamed names the entry of its file.
THEOREM HandlesFollowFiles == ASSUME Risks = {} PROVE Spec => []FollowsFile
    BY HandlesAreGood, GoodFollows, PTL

LEMMA GoodDetached == Inv => DetachedOnlyIfGone
<1>1. SUFFICES ASSUME NEW b, NEW all, World(chain, b, all, {}, 0, mlist) PROVE DetachedOnlyIfGone
    BY DEF Inv, Works
<1>2. Spread(chain, b, all) /\ Parts(chain)
    BY <1>1 DEF World, Spread
<1>3. ASSUME NEW d \in Files PROVE d.gone <=> d.m.pair = Null
    <2>1. Good(chain, b, all, {}, 0, d) /\ ~IsDir(d)
        BY <1>1 DEF World, Files, Handles
    <2>2. \/ d.m = NoMdir /\ d.gone
          \/ d.m.pair # Null /\ ~d.gone
        BY <1>2, <2>1, FileOf
    <2> QED BY <2>2 DEF NoMdir
<1>4. ASSUME NEW d \in Dirs PROVE d.m.pair # Null
    <2>1. Good(chain, b, all, {}, 0, d) /\ IsDir(d)
        BY <1>1 DEF World, Dirs, Handles
    <2>2. PICK j \in 1 .. Len(chain) : d.m.pair = chain[j].pair
        BY <1>2, <2>1, CursorOf
    <2>3. chain[j].pair # Null
        BY <1>2, PartsOf
    <2> QED BY <2>2, <2>3
<1> QED BY <1>3, <1>4 DEF DetachedOnlyIfGone

\* A handle of a file is detached when, and only when, its file is gone; one of a directory
\* that is read never is.
THEOREM OnlyGoneAreDetached == ASSUME Risks = {} PROVE Spec => []DetachedOnlyIfGone
    BY HandlesAreGood, GoodDetached, PTL

LEMMA GoodFresh == Inv => MdirFresh
<1>1. SUFFICES ASSUME NEW b, NEW all, World(chain, b, all, {}, 0, mlist), NEW d \in Handles,
                      d.m.pair # Null
               PROVE  /\ d.m.pair \in PairsOf(chain)
                      /\ d.m = Fetch(chain, d.m.pair)
                      /\ IsDir(d) => d.head = HeadOf(chain)
    BY DEF Inv, Works, MdirFresh
<1>2. Spread(chain, b, all) /\ Parts(chain)
    BY <1>1 DEF World, Spread
<1>3. Good(chain, b, all, {}, 0, d)
    BY <1>1 DEF World, Handles
<1>4. \E j \in 1 .. Len(chain) : d.m = Fetch(chain, chain[j].pair) /\ d.m.pair = chain[j].pair
    <2>1. CASE IsDir(d)
        BY <1>2, <1>3, <2>1, CursorOf
    <2>2. CASE ~IsDir(d)
        <3>1. d.m # NoMdir
            BY <1>1 DEF NoMdir
        <3> QED BY <1>2, <1>3, <2>2, <3>1, FileOf
    <2> QED BY <2>1, <2>2
<1>5. d.m.pair \in PairsOf(chain)
    BY <1>2, <1>4, PairAt
<1>6. IsDir(d) => d.head = HeadOf(chain)
    BY <1>2, <1>3, CursorOf DEF HeadOf
<1> QED BY <1>4, <1>5, <1>6

\* What a handle knows of its pair, and of its directory, is what the device holds.
THEOREM MdirsAreFresh == ASSUME Risks = {} PROVE Spec => []MdirFresh
    BY HandlesAreGood, GoodFresh, PTL

LEMMA GoodReads == Inv => ReadsEachOnce
<1>1. SUFFICES ASSUME NEW b, NEW all, World(chain, b, all, {}, 0, mlist), NEW d \in Dirs
               PROVE  /\ d.seen \subseteq Behind(chain, d)
                      /\ d.start \intersect Behind(chain, d) \subseteq d.seen
    BY DEF Inv, Works, ReadsEachOnce
<1>2. Spread(chain, b, all) /\ Parts(chain)
    BY <1>1 DEF World, Spread
<1>3. Good(chain, b, all, {}, 0, d) /\ IsDir(d)
    BY <1>1 DEF World, Dirs, Handles
<1>4. PICK j \in 1 .. Len(chain) :
         /\ d.m.pair = chain[j].pair /\ d.id <= Len(chain[j].names)
         /\ d.seen \subseteq First(all, b[j] + d.id)
         /\ d.start \intersect First(all, b[j] + d.id) \subseteq d.seen
    BY <1>2, <1>3, CursorOf
<1>5. d.id \in 0 .. Len(chain[j].names)
    <2>1. d \in HandleSet
        BY <1>3 DEF Good
    <2>2. d.id \in Nat
        BY <2>1, KindOf
    <2>3. Len(chain[j].names) \in Nat
        BY <1>2, PartsOf
    <2> QED BY <1>4, <2>2, <2>3
<1>6. Behind(chain, d) = First(all, b[j] + d.id)
    BY <1>2, <1>4, <1>5, BehindOf
<1> QED BY <1>4, <1>6

\* A directory that is read to its end, with changes to it in between, returns each entry that
\* was there all the time once.
THEOREM EachIsReadOnce == ASSUME Risks = {} PROVE Spec => []ReadsEachOnce
    BY HandlesAreGood, GoodReads, PTL
=============================================================================
