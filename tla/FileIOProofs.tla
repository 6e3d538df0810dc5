----------------------------- MODULE FileIOProofs -----------------------------
(***************************************************************************)
(* What is proved of an open file and of the CTZ skip list it is made of.  *)
(*                                                                         *)
(* Of the list: that lfs_ctz_index computes the block and the place of     *)
(* every byte, that lfs_ctz_find reaches that block, that lfs_ctz_traverse *)
(* visits every block of a file and no other, and that lfs_ctz_extend      *)
(* writes the pointers a new block has to have. The lemmas behind are      *)
(* about the operators that a file is made of: where its bytes lie, which  *)
(* blocks are a list and how a list grows, what a cache and the device     *)
(* show between them when a block is written, flushed or erased, and the   *)
(* stack of the steps that are left of a call.                             *)
(*                                                                         *)
(* Of the file: whatever is written, read, truncated, synced and closed,   *)
(* and wherever a block turns out bad, no block is free or the power       *)
(* fails, the committed file is a whole list, no block of it or of the     *)
(* handle may be handed out, and no assertion fails.                       *)
(***************************************************************************)
EXTENDS FileIO, Recursion, SequenceTheorems

-----------------------------------------------------------------------------
(* Bits.                                                                     *)

LEMMA Halves ==
    ASSUME NEW n \in Nat, n # 0
    PROVE  /\ n \div 2 \in Nat
           /\ n \div 2 < n
           /\ n % 2 \in {0, 1}
           /\ n = 2 * (n \div 2) + (n % 2)
           /\ n % 2 = 0 => n \div 2 # 0
    OBVIOUS

LEMMA PopcDef ==
    /\ Popc \in [Nat -> Nat]
    /\ \A n \in Nat : Popc[n] = IF n = 0 THEN 0 ELSE (n % 2) + Popc[n \div 2]
<1> DEFINE Def(n, f) == IF n = 0 THEN 0 ELSE (n % 2) + f[n \div 2]
           G == [x \in Nat \X [Nat -> Nat] |-> Def(x[1], x[2])]
<1>1. \A n \in Nat, f \in [Nat -> Nat] : G[<<n, f>>] = Def(n, f)
    OBVIOUS
<1>2. \A n \in Nat, f \in [Nat -> Nat] : Def(n, f) \in Nat
    BY Halves
<1>3. G \in [Nat \X [Nat -> Nat] -> Nat]
    BY <1>2
<1>4. ASSUME NEW n \in Nat, NEW f \in [Nat -> Nat], NEW h \in [Nat -> Nat],
             \A i \in Nat : i < n => f[i] = h[i]
      PROVE  G[<<n, f>>] = G[<<n, h>>]
    <2>1. Def(n, f) = Def(n, h)
        BY <1>4, Halves
    <2> HIDE DEF G, Def
    <2> QED BY <1>1, <2>1
<1> HIDE DEF G
<1>5. PICK f \in [Nat -> Nat] : \A n \in Nat : f[n] = G[<<n, f>>]
    <2>1. Recurs(G, Nat)
        BY <1>3, <1>4 DEF Recurs
    <2>2. \E f : Follows(f, G, Nat)
        BY <2>1, Recursion
    <2> QED BY <2>2 DEF Follows
<1>6. f = [n \in Nat |-> Def(n, f)]
    <2>1. \A n \in Nat : f[n] = Def(n, f)
        BY <1>1, <1>5
    <2> HIDE DEF Def
    <2> QED BY <2>1
<1>7. Popc = [n \in Nat |-> Def(n, Popc)]
    BY <1>6 DEF Popc
<1> DEFINE V == {n \in Nat : Popc[n] \in Nat}
<1>8. \A n \in Nat : n \in V
    <2>1. ASSUME NEW n \in Nat, \A m \in Nat : m < n => m \in V PROVE n \in V
        <3>1. Popc[n] = Def(n, Popc)
            BY <1>7
        <3>2. CASE n = 0
            BY <3>1, <3>2
        <3>3. CASE n # 0
            <4>1. Popc[n \div 2] \in Nat
                BY <2>1, <3>3, Halves
            <4> QED BY <3>1, <3>3, <4>1, Halves
        <3> QED BY <3>2, <3>3
    <2> HIDE DEF V
    <2> QED BY <2>1, StrongInduction
<1> QED BY <1>7, <1>8

LEMMA CtzDef ==
    \A n \in Nat \ {0} :
        /\ Ctz[n] \in Nat
        /\ Ctz[n] = IF n % 2 = 1 THEN 0 ELSE 1 + Ctz[n \div 2]
<1> DEFINE Def(n, f) == IF n % 2 = 1 THEN 0 ELSE 1 + f[n \div 2]
           G == [x \in Nat \X [Nat -> Nat] |->
                    IF x[1] = 0 THEN 0 ELSE Def(x[1], x[2])]
<1>1. \A n \in Nat \ {0}, f \in [Nat -> Nat] : G[<<n, f>>] = Def(n, f)
    OBVIOUS
<1>2. \A n \in Nat \ {0}, f \in [Nat -> Nat] : Def(n, f) \in Nat
    BY Halves
<1>3. G \in [Nat \X [Nat -> Nat] -> Nat]
    BY <1>2
<1>4. ASSUME NEW n \in Nat, NEW f \in [Nat -> Nat], NEW h \in [Nat -> Nat],
             \A i \in Nat : i < n => f[i] = h[i]
      PROVE  G[<<n, f>>] = G[<<n, h>>]
    <2>1. n # 0 => Def(n, f) = Def(n, h)
        BY <1>4, Halves
    <2>2. n = 0 => G[<<n, f>>] = 0 /\ G[<<n, h>>] = 0
        OBVIOUS
    <2> HIDE DEF G, Def
    <2> QED BY <1>1, <2>1, <2>2
<1> HIDE DEF G
<1>5. PICK f \in [Nat -> Nat] : \A n \in Nat : f[n] = G[<<n, f>>]
    <2>1. Recurs(G, Nat)
        BY <1>3, <1>4 DEF Recurs
    <2>2. \E f : Follows(f, G, Nat)
        BY <2>1, Recursion
    <2> QED BY <2>2 DEF Follows
<1> DEFINE h == [n \in Nat \ {0} |-> f[n]]
<1>6. h = [n \in Nat \ {0} |-> Def(n, h)]
    <2>1. \A n \in Nat \ {0} : f[n] = Def(n, f)
        BY <1>1, <1>5
    <2>2. \A n \in Nat \ {0} : Def(n, f) = Def(n, h)
        BY Halves
    <2>3. \A n \in Nat \ {0} : h[n] = Def(n, h)
        BY <2>1, <2>2
    <2>4. h = [n \in Nat \ {0} |-> h[n]]
        OBVIOUS
    <2> HIDE DEF Def, h
    <2> QED BY <2>3, <2>4
<1> HIDE DEF h
<1>7. Ctz = [n \in Nat \ {0} |-> Def(n, Ctz)]
    BY <1>6 DEF Ctz
<1> DEFINE V == {n \in Nat : n # 0 => Ctz[n] \in Nat}
<1>8. \A n \in Nat : n \in V
    <2>1. ASSUME NEW n \in Nat, \A m \in Nat : m < n => m \in V PROVE n \in V
        <3>1. SUFFICES ASSUME n # 0 PROVE Ctz[n] \in Nat
            OBVIOUS
        <3>2. Ctz[n] = Def(n, Ctz)
            BY <1>7, <3>1
        <3>3. CASE n % 2 = 1
            BY <3>2, <3>3
        <3>4. CASE n % 2 # 1
            <4>1. Ctz[n \div 2] \in Nat
                BY <2>1, <3>1, <3>4, Halves
            <4> QED BY <3>2, <3>4, <4>1
        <3> QED BY <3>3, <3>4
    <2> HIDE DEF V
    <2> QED BY <2>1, StrongInduction
<1> QED BY <1>7, <1>8

\* One more: the low ones become zeros and the zero above them a one.
LEMMA PopcNext ==
    ASSUME NEW n \in Nat, n # 0
    PROVE  Popc[n] + Ctz[n] = Popc[n - 1] + 1
<1> DEFINE V == {m \in Nat : m # 0 => Popc[m] + Ctz[m] = Popc[m - 1] + 1}
<1>1. ASSUME NEW m \in Nat, \A k \in Nat : k < m => k \in V PROVE m \in V
    <2>1. SUFFICES ASSUME m # 0 PROVE Popc[m] + Ctz[m] = Popc[m - 1] + 1
        OBVIOUS
    <2> DEFINE k == m \div 2
    <2>2. k \in Nat /\ k < m /\ m - 1 \in Nat
        BY <2>1
    <2>3. Popc[m] = (m % 2) + Popc[k] /\ Popc[k] \in Nat
        BY <2>1, <2>2, PopcDef
    <2>4. CASE m % 2 = 1
        <3>1. Ctz[m] = 0
            BY <2>1, <2>4, CtzDef
        <3>2. m - 1 = 0 => k = 0
            OBVIOUS
        <3>3. (m - 1) % 2 = 0 /\ (m - 1) \div 2 = k
            BY <2>1, <2>4
        <3>4. Popc[m - 1] = Popc[k]
            <4>1. CASE m - 1 = 0
                BY <3>2, <4>1
            <4>2. CASE m - 1 # 0
                <5>1. Popc[m - 1] = ((m - 1) % 2) + Popc[(m - 1) \div 2]
                    BY <2>2, <4>2, PopcDef
                <5> HIDE DEF k
                <5> QED BY <2>3, <3>3, <5>1
            <4> QED BY <4>1, <4>2
        <3> HIDE DEF k
        <3> QED BY <2>3, <2>4, <3>1, <3>4
    <2>5. CASE m % 2 # 1
        <3>1. m % 2 = 0 /\ k # 0
            BY <2>1, <2>5
        <3>2. Ctz[m] = 1 + Ctz[k] /\ Ctz[k] \in Nat
            BY <2>1, <2>2, <2>5, <3>1, CtzDef
        <3>3. Popc[k] + Ctz[k] = Popc[k - 1] + 1 /\ k - 1 \in Nat
            BY <1>1, <2>2, <3>1
        <3>4. (m - 1) % 2 = 1 /\ (m - 1) \div 2 = k - 1 /\ m - 1 # 0
            BY <2>1, <3>1
        <3>5. Popc[m - 1] = 1 + Popc[k - 1]
            <4>1. Popc[m - 1] = ((m - 1) % 2) + Popc[(m - 1) \div 2]
                BY <2>2, <3>4, PopcDef
            <4> HIDE DEF k
            <4> QED BY <3>4, <4>1
        <3>6. Popc[k - 1] \in Nat
            BY <3>3, PopcDef
        <3> HIDE DEF k
        <3> QED BY <2>3, <3>1, <3>2, <3>3, <3>5, <3>6
    <2> QED BY <2>4, <2>5
<1>2. \A m \in Nat : m \in V
    <2> HIDE DEF V
    <2> QED BY <1>1, StrongInduction
<1> QED BY <1>2
-----------------------------------------------------------------------------
(* lfs_ctz_index.                                                            *)

\* What a block holds if it had two pointers.
Room == BlockSize - 2 * PointerSize

LEMMA Sizes ==
    /\ Room \in Nat /\ Room > 0 /\ BlockSize = Room + 2 * PointerSize
    /\ BlockSize \in Nat /\ PointerSize \in Nat /\ PointerSize > 0
    BY SizeAssumption DEF Room

LEMMA DivUnique ==
    ASSUME NEW x \in Int, NEW n \in Nat, n > 0, NEW q \in Int, NEW r \in Nat, r < n,
           x = (n * q) + r
    PROVE  x \div n = q
    OBVIOUS

LEMMA ModUnique ==
    ASSUME NEW x \in Int, NEW n \in Nat, n > 0, NEW q \in Int, NEW r \in Nat, r < n,
           x = (n * q) + r
    PROVE  x % n = r
    OBVIOUS

LEMMA SkipsNat ==
    ASSUME NEW i \in Nat, i # 0
    PROVE  Skips(i) \in Nat /\ Skips(i) > 0
    BY CtzDef DEF Skips

Spot == [index : Nat, off : Nat]

Following(q) ==
    IF q.off + 1 < BlockSize THEN [q EXCEPT !.off = @ + 1]
    ELSE [index |-> q.index + 1, off |-> PointerSize * Skips(q.index + 1)]

LEMMA FollowingSpot ==
    ASSUME NEW q \in Spot
    PROVE  Following(q) \in Spot
<1>1. Skips(q.index + 1) \in Nat
    BY SkipsNat DEF Spot
<1>2. PointerSize * Skips(q.index + 1) \in Nat
    BY <1>1, Sizes
<1> QED BY <1>2 DEF Following, Spot

LEMMA LaidDef ==
    /\ Laid \in [Nat -> Spot]
    /\ Laid[0] = [index |-> 0, off |-> 0]
    /\ \A p \in Nat : Laid[p + 1] = Following(Laid[p])
<1> DEFINE start == [index |-> 0, off |-> 0]
           Def(p, f) == IF p = 0 THEN start ELSE Following(f[p - 1])
           G == [x \in Nat \X [Nat -> Spot] |-> Def(x[1], x[2])]
<1>0. start \in Spot
    BY DEF Spot
<1> HIDE DEF start
<1>1. \A p \in Nat, f \in [Nat -> Spot] : G[<<p, f>>] = Def(p, f)
    OBVIOUS
<1>2. \A p \in Nat, f \in [Nat -> Spot] : Def(p, f) \in Spot
    BY <1>0, FollowingSpot
<1>3. G \in [Nat \X [Nat -> Spot] -> Spot]
    BY <1>2
<1>4. ASSUME NEW p \in Nat, NEW f \in [Nat -> Spot], NEW h \in [Nat -> Spot],
             \A i \in Nat : i < p => f[i] = h[i]
      PROVE  G[<<p, f>>] = G[<<p, h>>]
    <2>1. Def(p, f) = Def(p, h)
        BY <1>4
    <2> HIDE DEF G, Def
    <2> QED BY <1>1, <2>1
<1> HIDE DEF G
<1>5. PICK f \in [Nat -> Spot] : \A p \in Nat : f[p] = G[<<p, f>>]
    <2>1. Recurs(G, Spot)
        BY <1>3, <1>4 DEF Recurs
    <2>2. \E f : Follows(f, G, Spot)
        BY <1>0, <2>1, Recursion
    <2> QED BY <2>2 DEF Follows
<1>6. f = [p \in Nat |-> Def(p, f)]
    <2>1. \A p \in Nat : f[p] = Def(p, f)
        BY <1>1, <1>5
    <2> HIDE DEF Def
    <2> QED BY <2>1
<1>7. Laid = [p \in Nat |-> Def(p, Laid)]
    BY <1>6 DEF Laid, Following, start
<1>8. \A p \in Nat : Laid[p] = Def(p, Laid)
    <2> HIDE DEF Def
    <2> QED BY <1>7
<1>9. Laid[0] = start /\ \A p \in Nat : Laid[p + 1] = Following(Laid[p])
    BY <1>8
<1> DEFINE V == {p \in Nat : Laid[p] \in Spot}
<1>10. \A p \in Nat : p \in V
    <2>1. 0 \in V
        BY <1>0, <1>9
    <2>2. ASSUME NEW p \in Nat, p \in V PROVE p + 1 \in V
        BY <1>9, <2>2, FollowingSpot
    <2> HIDE DEF V
    <2> QED BY <2>1, <2>2, Induction
<1> QED BY <1>7, <1>9, <1>10 DEF start

\* Of the bytes in front of a block, 2 pointers less than its size would be data in each,
\* but for as many pointers as its number has ones.
At(q, p) ==
    /\ q.off < BlockSize
    /\ p = (Room * q.index) + (PointerSize * Popc[q.index]) + q.off
    /\ q.index # 0 => PointerSize * Skips(q.index) <= q.off

LEMMA IndexSmall ==
    ASSUME NEW i \in Nat, Room * i <= Reach
    PROVE  PointerSize * (Popc[i] + 4) <= BlockSize
<1>1. i <= Room * i
    BY Sizes
<1>2. i \in 0 .. Reach
    BY <1>1, Sizes, SizeAssumption
<1> QED BY <1>2, FormulaAssumption DEF Room

LEMMA PopcPositive ==
    ASSUME NEW i \in Nat, i # 0
    PROVE  Popc[i] >= 1
<1> DEFINE V == {m \in Nat : m # 0 => Popc[m] >= 1}
<1>1. ASSUME NEW m \in Nat, \A k \in Nat : k < m => k \in V PROVE m \in V
    <2>1. SUFFICES ASSUME m # 0 PROVE Popc[m] >= 1
        OBVIOUS
    <2>2. Popc[m] = (m % 2) + Popc[m \div 2] /\ Popc[m \div 2] \in Nat
        BY <2>1, Halves, PopcDef
    <2>3. CASE m % 2 = 1
        BY <2>2, <2>3
    <2>4. CASE m % 2 # 1
        BY <1>1, <2>1, <2>2, <2>4, Halves
    <2> QED BY <2>3, <2>4
<1>2. \A m \in Nat : m \in V
    <2> HIDE DEF V
    <2> QED BY <1>1, StrongInduction
<1> QED BY <1>2

LEMMA LaidAt ==
    ASSUME NEW p \in Nat, p <= Reach
    PROVE  At(Laid[p], p)
<1> DEFINE V == {m \in Nat : m <= Reach => At(Laid[m], m)}
<1>1. 0 \in V
    BY LaidDef, PopcDef, Sizes DEF At
<1>2. ASSUME NEW m \in Nat, m \in V PROVE m + 1 \in V
    <2>1. SUFFICES ASSUME m + 1 <= Reach PROVE At(Laid[m + 1], m + 1)
        OBVIOUS
    <2> DEFINE q == Laid[m]
               i == q.index
    <2>2. q \in Spot /\ At(q, m) /\ Laid[m + 1] = Following(q)
        BY <1>2, <2>1, LaidDef, SizeAssumption
    <2>3. i \in Nat /\ q.off \in Nat /\ Popc[i] \in Nat
        BY <2>2, PopcDef DEF Spot
    <2> HIDE DEF q
    <2>4. CASE q.off + 1 < BlockSize
        <3>1. Following(q).index = i /\ Following(q).off = q.off + 1
            BY <2>2, <2>4 DEF Following, Spot
        <3>2. i # 0 => Skips(i) \in Nat
            BY <2>3, SkipsNat
        <3>3. PointerSize * Popc[i] \in Nat /\ Room * i \in Nat
            BY <2>3, Sizes
        <3>4. m + 1 = (Room * i) + (PointerSize * Popc[i]) + (q.off + 1)
            BY <2>2, <2>3, <3>3 DEF At
        <3>5. i # 0 => PointerSize * Skips(i) <= q.off + 1
            <4>1. i # 0 => PointerSize * Skips(i) \in Nat
                BY <3>2, Sizes
            <4> QED BY <2>2, <2>3, <4>1 DEF At
        <3> QED BY <2>2, <2>4, <3>1, <3>4, <3>5 DEF At
    <2>5. CASE ~(q.off + 1 < BlockSize)
        <3> DEFINE j == i + 1
                   s == Skips(j)
        <3>1. Following(q).index = j /\ Following(q).off = PointerSize * s
            <4>1. Following(q) = [index |-> i + 1, off |-> PointerSize * Skips(i + 1)]
                BY <2>5 DEF Following
            <4> QED BY <4>1
        <3>2. q.off = BlockSize - 1
            <4>1. q.off < BlockSize
                BY <2>2 DEF At
            <4> QED BY <2>3, <2>5, <4>1, Sizes
        <3>3. s \in Nat /\ Popc[j] \in Nat /\ Popc[j] >= 1 /\ Popc[j] + s = Popc[i] + 2
            <4>1. j \in Nat /\ j # 0 /\ j - 1 = i
                BY <2>3
            <4>2. Popc[j] + Ctz[j] = Popc[i] + 1 /\ Ctz[j] \in Nat
                <5> HIDE DEF j
                <5> QED BY <4>1, PopcNext, CtzDef
            <4> HIDE DEF j
            <4> QED BY <2>3, <4>1, <4>2, PopcDef, PopcPositive DEF Skips
        <3>4. Room * i <= Reach
            <4>1. PointerSize * Popc[i] \in Nat /\ Room * i \in Nat
                BY <2>3, Sizes
            <4>2. Room * i <= m
                BY <2>2, <2>3, <4>1 DEF At
            <4> QED BY <2>1, <4>1, <4>2, SizeAssumption
        <3>5. PointerSize * s < BlockSize
            <4>1. PointerSize * (Popc[i] + 4) <= BlockSize
                BY <2>3, <3>4, IndexSmall
            <4> HIDE DEF s, j
            <4>2. s + 3 <= Popc[i] + 4
                BY <2>3, <3>3
            <4>3. PointerSize * (s + 3) <= PointerSize * (Popc[i] + 4)
                BY <2>3, <3>3, <4>2, Sizes
            <4>4. PointerSize * (s + 3) = (PointerSize * s) + (3 * PointerSize)
                BY <3>3, Sizes
            <4>5. PointerSize * s \in Nat /\ PointerSize * (s + 3) \in Nat
                  /\ PointerSize * (Popc[i] + 4) \in Nat
                BY <2>3, <3>3, Sizes
            <4> QED BY <4>1, <4>3, <4>4, <4>5, Sizes
        <3>6. m + 1 = (Room * j) + (PointerSize * Popc[j]) + (PointerSize * s)
            <4>1. m = (Room * i) + (PointerSize * Popc[i]) + (BlockSize - 1)
                BY <2>2, <3>2 DEF At
            <4>2. Room * j = (Room * i) + Room
                BY <2>3, Sizes
            <4> HIDE DEF s, j
            <4>3. (PointerSize * Popc[j]) + (PointerSize * s)
                    = (PointerSize * Popc[i]) + (2 * PointerSize)
                <5>1. PointerSize * (Popc[j] + s) = PointerSize * (Popc[i] + 2)
                    BY <3>3
                <5>2. PointerSize * (Popc[j] + s) = (PointerSize * Popc[j]) + (PointerSize * s)
                    BY <3>3, Sizes
                <5>3. PointerSize * (Popc[i] + 2) = (PointerSize * Popc[i]) + (2 * PointerSize)
                    BY <2>3, Sizes
                <5> QED BY <5>1, <5>2, <5>3
            <4>4. /\ Room * i \in Nat /\ PointerSize * Popc[i] \in Nat
                  /\ PointerSize * Popc[j] \in Nat /\ PointerSize * s \in Nat
                BY <2>3, <3>3, Sizes
            <4> QED BY <4>1, <4>2, <4>3, <4>4, Sizes
        <3>7. PointerSize * s <= PointerSize * s
            <4>1. PointerSize * s \in Nat
                <5> HIDE DEF s
                <5> QED BY <3>3, Sizes
            <4> QED BY <4>1
        <3> QED BY <2>2, <3>1, <3>5, <3>6, <3>7 DEF At
    <2> QED BY <2>4, <2>5
<1>3. \A m \in Nat : m \in V
    <2> HIDE DEF V
    <2> QED BY <1>1, <1>2, Induction
<1> QED BY <1>3

\* The formula, for a byte that is known to lie at q: the number of blocks is guessed from
\* `Room` bytes in each, which gives the block of the byte or the one behind it.
LEMMA IndexAt ==
    ASSUME NEW q \in Spot, NEW p \in Nat, p <= Reach, At(q, p)
    PROVE  CtzIndex(p) = q
<1> DEFINE i == q.index
           o == q.off
           P == PointerSize
           n == P * Popc[i]
           t == p \div Room
           r == n + o
<1>1. i \in Nat /\ o \in Nat /\ Popc[i] \in Nat /\ q = [index |-> i, off |-> o]
    BY PopcDef DEF Spot
<1>2. P \in Nat /\ P > 0 /\ Room \in Nat /\ Room > 0 /\ BlockSize = Room + (2 * P)
    BY Sizes
<1>3. n \in Nat /\ Room * i \in Nat /\ r \in Nat
    BY <1>1, <1>2
<1>4. o < BlockSize /\ p = (Room * i) + r
    <2> HIDE DEF P
    <2> QED BY <1>1, <1>3 DEF At, P
<1>5. n + (2 * P) <= Room
    <2>1. Room * i <= Reach
        <3> HIDE DEF n, P, r
        <3> QED BY <1>3, <1>4, SizeAssumption
    <2>2. P * (Popc[i] + 4) <= BlockSize
        BY <1>1, <2>1, IndexSmall
    <2>3. P * (Popc[i] + 4) = n + (4 * P)
        BY <1>1, <1>2
    <2> HIDE DEF n, P, i
    <2> QED BY <1>2, <1>3, <2>2, <2>3
<1> HIDE DEF n
<1>6. CASE i = 0
    <2>1. n = 0 /\ p = o
        <3>1. Popc[i] = 0
            BY <1>6, PopcDef
        <3>2. P * 0 = 0 /\ Room * 0 = 0
            BY <1>2
        <3>3. n = 0
            BY <3>1, <3>2 DEF n
        <3> QED BY <1>1, <1>4, <1>6, <3>2, <3>3
    <2>2. CASE p < Room
        BY <1>1, <1>6, <2>1, <2>2 DEF CtzIndex, Room
    <2>3. CASE ~(p < Room)
        <3>1. t = 1
            <4>1. p - Room \in Nat /\ p - Room < Room /\ p = (Room * 1) + (p - Room)
                BY <1>1, <1>2, <1>4, <1>5, <2>1, <2>3
            <4> HIDE DEF P, i, o
            <4> QED BY <1>2, <4>1, DivUnique
        <3>2. P * (Popc[t - 1] + 2) = 2 * P
            BY <1>2, <3>1, PopcDef
        <3>3. (p - (2 * P)) \div Room = 0
            <4>1. p - (2 * P) \in Nat /\ p - (2 * P) < Room /\ p - (2 * P) = (Room * 0) + (p - (2 * P))
                BY <1>1, <1>2, <1>4, <1>5, <2>1, <2>3
            <4> HIDE DEF P
            <4> QED BY <1>2, <4>1, DivUnique
        <3>4. (p - (P * (Popc[t - 1] + 2))) \div Room = 0
            BY <3>2, <3>3
        <3>5. p - (Room * 0) - (P * Popc[0]) = p
            <4>1. Popc[0] = 0
                BY PopcDef
            <4>2. P * 0 = 0 /\ Room * 0 = 0
                BY <1>2
            <4> QED BY <4>1, <4>2
        <3> QED BY <1>1, <1>6, <2>1, <2>3, <3>4, <3>5 DEF CtzIndex, Room
    <2> QED BY <2>2, <2>3
<1>7. CASE i # 0
    <2> DEFINE s == P * Skips(i)
               m(k) == P * (Popc[k - 1] + 2)
    <2>1. s \in Nat /\ s <= o /\ s >= P
        <3>1. Skips(i) \in Nat /\ Skips(i) >= 1
            BY <1>1, <1>7, SkipsNat
        <3>2. P * Skips(i) >= P * 1
            BY <1>2, <3>1
        <3> QED BY <1>2, <1>7, <3>1, <3>2 DEF At
    <2>2. m(i) = n + s
        <3>1. Popc[i - 1] + 2 = Popc[i] + Skips(i) /\ Skips(i) \in Nat
            <4>1. Popc[i] + Ctz[i] = Popc[i - 1] + 1 /\ Ctz[i] \in Nat
                BY <1>1, <1>7, PopcNext, CtzDef
            <4>2. Popc[i - 1] \in Nat
                BY <1>1, <1>7, PopcDef
            <4> QED BY <1>1, <4>1, <4>2 DEF Skips
        <3>2. P * (Popc[i] + Skips(i)) = (P * Popc[i]) + (P * Skips(i))
            BY <1>1, <1>2, <3>1
        <3> QED BY <3>1, <3>2 DEF n
    <2>3. m(i + 1) = n + (2 * P)
        <3>1. (i + 1) - 1 = i
            BY <1>1
        <3>2. P * (Popc[i] + 2) = (P * Popc[i]) + (2 * P)
            BY <1>1, <1>2
        <3> QED BY <3>1, <3>2 DEF n
    <2> HIDE DEF s
    <2>4. t \in {i, i + 1} /\ m(t) <= p /\ (p - m(t)) \div Room = i
        <3>1. CASE r < Room
            <4>1. t = i
                <5> HIDE DEF i, r
                <5> QED BY <1>1, <1>2, <1>3, <1>4, <3>1, DivUnique
            <4>2. r - (n + s) \in Nat /\ r - (n + s) < Room
                BY <1>1, <1>2, <1>3, <2>1, <3>1
            <4>3. p - (n + s) = (Room * i) + (r - (n + s))
                BY <1>3, <1>4, <2>1
            <4>4. (p - (n + s)) \div Room = i
                <5>1. p - (n + s) \in Int
                    BY <1>3, <2>1
                <5> HIDE DEF i, r
                <5> QED BY <1>1, <1>2, <4>2, <4>3, <5>1, DivUnique
            <4>5. n + s <= p
                BY <1>1, <1>3, <1>4, <2>1
            <4> HIDE DEF t, m, i, r
            <4> QED BY <2>2, <4>1, <4>4, <4>5
        <3>2. CASE ~(r < Room)
            <4>1. t = i + 1
                <5>1. r - Room \in Nat /\ r - Room < Room
                    BY <1>1, <1>2, <1>3, <1>4, <1>5, <3>2
                <5>2. Room * (i + 1) = (Room * i) + Room
                    BY <1>1, <1>2
                <5>3. p = (Room * (i + 1)) + (r - Room)
                    BY <1>2, <1>3, <1>4, <5>2
                <5> DEFINE j == i + 1
                           rest == r - Room
                <5>4. j \in Int /\ rest \in Nat /\ rest < Room /\ p = (Room * j) + rest
                    BY <1>1, <5>1, <5>3
                <5>5. t = j
                    <6> HIDE DEF j, rest
                    <6> QED BY <1>2, <5>4, DivUnique
                <5> QED BY <5>5
            <4>2. r - (n + (2 * P)) \in Nat /\ r - (n + (2 * P)) < Room
                BY <1>1, <1>2, <1>3, <1>4, <1>5, <3>2
            <4>3. p - (n + (2 * P)) = (Room * i) + (r - (n + (2 * P)))
                BY <1>2, <1>3, <1>4
            <4>4. (p - (n + (2 * P))) \div Room = i
                <5>1. p - (n + (2 * P)) \in Int
                    BY <1>2, <1>3
                <5> HIDE DEF i, r, P
                <5> QED BY <1>1, <1>2, <1>3, <4>2, <4>3, <5>1, DivUnique
            <4>5. n + (2 * P) <= p
                BY <1>1, <1>2, <1>3, <1>4, <1>5, <3>2
            <4> HIDE DEF t, m, i, r, P
            <4> QED BY <2>3, <4>1, <4>4, <4>5
        <3> QED BY <3>1, <3>2
    <2>5. ~(p < Room)
        <3>1. Room * i >= Room
            BY <1>1, <1>2, <1>7
        <3> HIDE DEF i, r
        <3> QED BY <1>2, <1>3, <1>4, <3>1
    <2>6. p - (Room * i) - n = o
        BY <1>1, <1>3, <1>4
    <2>7. CtzIndex(p) = [index |-> (p - m(t)) \div Room,
                         off |-> p - (Room * ((p - m(t)) \div Room))
                                   - (P * Popc[(p - m(t)) \div Room])]
        BY <2>5 DEF CtzIndex, Room
    <2>8. CtzIndex(p) = [index |-> i, off |-> p - (Room * i) - (P * Popc[i])]
        <3> HIDE DEF m, t, P
        <3> QED BY <2>4, <2>7
    <2> QED BY <1>1, <2>6, <2>8 DEF n
<1> QED BY <1>6, <1>7

\* lfs_ctz_index finds the block of every byte of a file and its place in the block, though
\* the blocks have different numbers of pointers (lfs_ctz_index, lfs_ctz_extend).
THEOREM IndexIsRight == IndexIsPlace
<1>1. ASSUME NEW p \in 0 .. Reach PROVE CtzIndex(p) = Place[p]
    <2>1. p \in Nat /\ p <= Reach
        BY SizeAssumption
    <2>2. Laid[p] \in Spot /\ At(Laid[p], p)
        BY <2>1, LaidDef, LaidAt
    <2>3. CtzIndex(p) = Laid[p]
        BY <2>1, <2>2, IndexAt
    <2> QED BY <2>3 DEF Place
<1> QED BY <1>1 DEF IndexIsPlace

-----------------------------------------------------------------------------
(* Powers of two.                                                            *)

LEMMA PowDef ==
    /\ Pow2 \in [Nat -> Nat]
    /\ Pow2[0] = 1
    /\ \A k \in Nat : Pow2[k + 1] = 2 * Pow2[k]
<1> DEFINE Def(k, f) == IF k = 0 THEN 1 ELSE 2 * f[k - 1]
           G == [x \in Nat \X [Nat -> Nat] |-> Def(x[1], x[2])]
<1>1. \A k \in Nat, f \in [Nat -> Nat] : G[<<k, f>>] = Def(k, f)
    OBVIOUS
<1>2. \A k \in Nat, f \in [Nat -> Nat] : Def(k, f) \in Nat
    OBVIOUS
<1>3. G \in [Nat \X [Nat -> Nat] -> Nat]
    BY <1>2
<1>4. ASSUME NEW k \in Nat, NEW f \in [Nat -> Nat], NEW h \in [Nat -> Nat],
             \A i \in Nat : i < k => f[i] = h[i]
      PROVE  G[<<k, f>>] = G[<<k, h>>]
    <2>1. Def(k, f) = Def(k, h)
        BY <1>4
    <2> HIDE DEF G, Def
    <2> QED BY <1>1, <2>1
<1> HIDE DEF G
<1>5. PICK f \in [Nat -> Nat] : \A k \in Nat : f[k] = G[<<k, f>>]
    <2>1. Recurs(G, Nat)
        BY <1>3, <1>4 DEF Recurs
    <2>2. \E f : Follows(f, G, Nat)
        BY <2>1, Recursion
    <2> QED BY <2>2 DEF Follows
<1>6. f = [k \in Nat |-> Def(k, f)]
    <2>1. \A k \in Nat : f[k] = Def(k, f)
        BY <1>1, <1>5
    <2> HIDE DEF Def
    <2> QED BY <2>1
<1>7. Pow2 = [k \in Nat |-> Def(k, Pow2)]
    BY <1>6 DEF Pow2
<1> DEFINE V == {k \in Nat : Pow2[k] \in Nat}
<1>8. \A k \in Nat : k \in V
    <2>1. 0 \in V
        BY <1>7
    <2>2. ASSUME NEW k \in Nat, k \in V PROVE k + 1 \in V
        BY <1>7, <2>2
    <2> HIDE DEF V
    <2> QED BY <2>1, <2>2, Induction
<1> QED BY <1>7, <1>8

LEMMA PowPositive ==
    ASSUME NEW k \in Nat
    PROVE  Pow2[k] \in Nat /\ Pow2[k] >= 1
<1> DEFINE V == {m \in Nat : Pow2[m] >= 1}
<1>1. 0 \in V
    BY PowDef
<1>2. \A m \in Nat : m \in V => m + 1 \in V
    BY PowDef
<1>3. \A m \in Nat : m \in V
    <2> HIDE DEF V
    <2> QED BY <1>1, <1>2, Induction
<1> QED BY <1>3, PowDef

LEMMA PowGrows ==
    ASSUME NEW j \in Nat, NEW k \in Nat, j <= k
    PROVE  Pow2[j] <= Pow2[k]
<1> DEFINE V == {m \in Nat : Pow2[j] <= Pow2[j + m]}
<1>1. 0 \in V
    BY PowDef
<1>2. ASSUME NEW m \in Nat, m \in V PROVE m + 1 \in V
    <2>1. Pow2[j + (m + 1)] = 2 * Pow2[j + m] /\ Pow2[j + m] \in Nat /\ Pow2[j] \in Nat
        <3>1. j + m \in Nat /\ j + (m + 1) = (j + m) + 1
            OBVIOUS
        <3> QED BY <3>1, PowDef
    <2> QED BY <1>2, <2>1
<1>3. \A m \in Nat : m \in V
    <2> HIDE DEF V
    <2> QED BY <1>1, <1>2, Induction
<1>4. k - j \in V /\ j + (k - j) = k
    <2> HIDE DEF V
    <2> QED BY <1>3
<1> QED BY <1>4

LEMMA Npw2Def ==
    \A n \in Nat \ {0} :
        /\ Npw2[n] \in Nat
        /\ Npw2[n] = IF n = 1 THEN 0 ELSE 1 + Npw2[(n + 1) \div 2]
<1> DEFINE Def(n, f) == IF n = 1 THEN 0 ELSE 1 + f[(n + 1) \div 2]
           G == [x \in Nat \X [Nat -> Nat] |->
                    IF x[1] = 0 THEN 0 ELSE Def(x[1], x[2])]
<1>0. \A n \in Nat \ {0, 1} : /\ (n + 1) \div 2 \in Nat \ {0}
                              /\ (n + 1) \div 2 < n
    OBVIOUS
<1>1. \A n \in Nat \ {0}, f \in [Nat -> Nat] : G[<<n, f>>] = Def(n, f)
    OBVIOUS
<1>2. \A n \in Nat \ {0}, f \in [Nat -> Nat] : Def(n, f) \in Nat
    BY <1>0
<1>3. G \in [Nat \X [Nat -> Nat] -> Nat]
    BY <1>2
<1>4. ASSUME NEW n \in Nat, NEW f \in [Nat -> Nat], NEW h \in [Nat -> Nat],
             \A i \in Nat : i < n => f[i] = h[i]
      PROVE  G[<<n, f>>] = G[<<n, h>>]
    <2>1. n # 0 => Def(n, f) = Def(n, h)
        BY <1>0, <1>4
    <2>2. n = 0 => G[<<n, f>>] = 0 /\ G[<<n, h>>] = 0
        OBVIOUS
    <2> HIDE DEF G, Def
    <2> QED BY <1>1, <2>1, <2>2
<1> HIDE DEF G
<1>5. PICK f \in [Nat -> Nat] : \A n \in Nat : f[n] = G[<<n, f>>]
    <2>1. Recurs(G, Nat)
        BY <1>3, <1>4 DEF Recurs
    <2>2. \E f : Follows(f, G, Nat)
        BY <2>1, Recursion
    <2> QED BY <2>2 DEF Follows
<1> DEFINE h == [n \in Nat \ {0} |-> f[n]]
<1>6. h = [n \in Nat \ {0} |-> Def(n, h)]
    <2>1. \A n \in Nat \ {0} : f[n] = Def(n, f)
        BY <1>1, <1>5
    <2>2. \A n \in Nat \ {0} : Def(n, f) = Def(n, h)
        BY <1>0
    <2>3. \A n \in Nat \ {0} : h[n] = Def(n, h)
        BY <2>1, <2>2
    <2>4. h = [n \in Nat \ {0} |-> h[n]]
        OBVIOUS
    <2> HIDE DEF Def, h
    <2> QED BY <2>3, <2>4
<1> HIDE DEF h
<1>7. Npw2 = [n \in Nat \ {0} |-> Def(n, Npw2)]
    BY <1>6 DEF Npw2
<1> DEFINE V == {n \in Nat : n # 0 => Npw2[n] \in Nat}
<1>8. \A n \in Nat : n \in V
    <2>1. ASSUME NEW n \in Nat, \A m \in Nat : m < n => m \in V PROVE n \in V
        <3>1. SUFFICES ASSUME n # 0 PROVE Npw2[n] \in Nat
            OBVIOUS
        <3>2. Npw2[n] = Def(n, Npw2)
            BY <1>7, <3>1
        <3>3. CASE n = 1
            BY <3>2, <3>3
        <3>4. CASE n # 1
            <4>1. Npw2[(n + 1) \div 2] \in Nat
                BY <1>0, <2>1, <3>1, <3>4
            <4> QED BY <3>2, <3>4, <4>1
        <3> QED BY <3>3, <3>4
    <2> HIDE DEF V
    <2> QED BY <2>1, StrongInduction
<1> QED BY <1>7, <1>8

LEMMA Npw2Below ==
    ASSUME NEW n \in Nat, n >= 2
    PROVE  Npw2[n] >= 1 /\ Pow2[Npw2[n] - 1] < n
<1> DEFINE V == {m \in Nat : m >= 2 => Npw2[m] >= 1 /\ Pow2[Npw2[m] - 1] < m}
<1>1. ASSUME NEW m \in Nat, \A k \in Nat : k < m => k \in V PROVE m \in V
    <2>1. SUFFICES ASSUME m >= 2 PROVE Npw2[m] >= 1 /\ Pow2[Npw2[m] - 1] < m
        OBVIOUS
    <2> DEFINE h == (m + 1) \div 2
    <2>2. h \in Nat /\ h < m /\ h >= 1 /\ 2 * h <= m + 1
        BY <2>1
    <2> HIDE DEF h
    <2>3. Npw2[m] = 1 + Npw2[h] /\ Npw2[h] \in Nat
        BY <2>1, <2>2, Npw2Def DEF h
    <2>4. Npw2[m] - 1 = Npw2[h] /\ Npw2[m] >= 1
        BY <2>3
    <2>5. CASE h = 1
        BY <2>1, <2>4, <2>5, Npw2Def, PowDef
    <2>6. CASE h # 1
        <3> DEFINE k == Npw2[h] - 1
        <3>1. Npw2[h] >= 1 /\ Pow2[k] < h
            BY <1>1, <2>2, <2>6
        <3>2. k \in Nat /\ k + 1 = Npw2[h]
            BY <2>3, <3>1
        <3> HIDE DEF k
        <3>3. Pow2[Npw2[h]] = 2 * Pow2[k] /\ Pow2[k] \in Nat
            BY <3>2, PowDef
        <3> QED BY <2>2, <2>4, <3>1, <3>3
    <2> QED BY <2>5, <2>6
<1>2. \A m \in Nat : m \in V
    <2> HIDE DEF V
    <2> QED BY <1>1, StrongInduction
<1> QED BY <1>2

\* The k-th pointer leads to a block there is.
LEMMA CtzPow ==
    ASSUME NEW i \in Nat, i # 0, NEW k \in 0 .. Ctz[i]
    PROVE  Pow2[k] <= i
<1> DEFINE V == {m \in Nat : \A n \in Nat : n # 0 /\ m <= Ctz[n] => Pow2[m] <= n}
<1>1. 0 \in V
    BY PowDef
<1>2. ASSUME NEW m \in Nat, m \in V PROVE m + 1 \in V
    <2>1. SUFFICES ASSUME NEW n \in Nat, n # 0, m + 1 <= Ctz[n]
                   PROVE  Pow2[m + 1] <= n
        OBVIOUS
    <2>2. n % 2 = 0 /\ n \div 2 # 0 /\ n \div 2 \in Nat /\ n = 2 * (n \div 2)
        <3>1. n % 2 # 1
            BY <2>1, CtzDef
        <3> QED BY <2>1, <3>1, Halves
    <2>3. Ctz[n] = 1 + Ctz[n \div 2] /\ Ctz[n \div 2] \in Nat
        BY <2>1, <2>2, CtzDef
    <2>4. Pow2[m] <= n \div 2 /\ Pow2[m] \in Nat
        BY <1>2, <2>1, <2>2, <2>3, PowDef
    <2>5. Pow2[m + 1] = 2 * Pow2[m]
        BY PowDef
    <2> QED BY <2>2, <2>4, <2>5
<1>3. \A m \in Nat : m \in V
    <2> HIDE DEF V
    <2> QED BY <1>1, <1>2, Induction
<1> QED BY <1>3, CtzDef

\* The block that the k-th pointer leads to has k + 1 pointers, unless it is the last.
LEMMA CtzMinus ==
    ASSUME NEW i \in Nat, i # 0, NEW k \in Nat, k < Ctz[i]
    PROVE  /\ i - Pow2[k] \in Nat
           /\ i - Pow2[k] # 0
           /\ Ctz[i - Pow2[k]] = k
<1> DEFINE Is(m, n) == n - Pow2[m] \in Nat /\ n - Pow2[m] # 0 /\ Ctz[n - Pow2[m]] = m
           V == {m \in Nat : \A n \in Nat : n # 0 /\ m < Ctz[n] => Is(m, n)}
<1>0. ASSUME NEW n \in Nat, n # 0, Ctz[n] > 0
      PROVE  /\ n % 2 = 0 /\ n \div 2 # 0 /\ n \div 2 \in Nat /\ n = 2 * (n \div 2)
             /\ Ctz[n] = 1 + Ctz[n \div 2] /\ Ctz[n \div 2] \in Nat
    <2>1. n % 2 # 1
        BY <1>0, CtzDef
    <2>2. n % 2 = 0 /\ n \div 2 # 0 /\ n \div 2 \in Nat /\ n = 2 * (n \div 2)
        BY <1>0, <2>1, Halves
    <2> QED BY <1>0, <2>1, <2>2, CtzDef
<1>1. 0 \in V
    <2> SUFFICES ASSUME NEW n \in Nat, n # 0, 0 < Ctz[n] PROVE Is(0, n)
        OBVIOUS
    <2>1. n % 2 = 0 /\ n \div 2 # 0 /\ n = 2 * (n \div 2) /\ Pow2[0] = 1
        BY <1>0, PowDef
    <2>2. (n - 1) % 2 = 1 /\ n - 1 \in Nat \ {0}
        BY <2>1
    <2>3. Ctz[n - 1] = 0
        BY <2>2, CtzDef
    <2> QED BY <2>1, <2>2, <2>3
<1>2. ASSUME NEW m \in Nat, m \in V PROVE m + 1 \in V
    <2>1. SUFFICES ASSUME NEW n \in Nat, n # 0, m + 1 < Ctz[n] PROVE Is(m + 1, n)
        OBVIOUS
    <2> DEFINE h == n \div 2
    <2>2. /\ h # 0 /\ h \in Nat /\ n = 2 * h /\ Ctz[n] = 1 + Ctz[h] /\ Ctz[h] \in Nat
        <3>1. Ctz[n] > 0
            BY <2>1, CtzDef
        <3> QED BY <1>0, <2>1, <3>1
    <2> HIDE DEF h
    <2>3. Is(m, h)
        BY <1>2, <2>1, <2>2
    <2> DEFINE g == h - Pow2[m]
    <2>4. n - Pow2[m + 1] = 2 * g /\ g \in Nat /\ g # 0 /\ Ctz[g] = m
        <3>1. Pow2[m + 1] = 2 * Pow2[m] /\ Pow2[m] \in Nat
            BY PowDef
        <3> QED BY <2>2, <2>3, <3>1
    <2> HIDE DEF g
    <2>5. 2 * g \in Nat \ {0} /\ (2 * g) % 2 = 0 /\ (2 * g) \div 2 = g
        BY <2>4
    <2>6. Ctz[2 * g] = 1 + Ctz[(2 * g) \div 2]
        BY <2>5, CtzDef
    <2> QED BY <2>4, <2>5, <2>6
<1>3. \A m \in Nat : m \in V
    <2> HIDE DEF V, Is
    <2> QED BY <1>1, <1>2, Induction
<1> QED BY <1>3

-----------------------------------------------------------------------------
(* Lists.                                                                    *)

LEMMA LaidGrows ==
    ASSUME NEW p \in Nat, NEW q \in Nat, p <= q
    PROVE  Laid[p].index \in Nat /\ Laid[p].index <= Laid[q].index
<1> DEFINE V == {m \in Nat : Laid[p].index <= Laid[p + m].index}
<1>0. \A m \in Nat : Laid[m].index \in Nat /\ Laid[m].index <= Laid[m + 1].index
    <2> TAKE m \in Nat
    <2>1. Laid[m] \in Spot /\ Laid[m + 1] = Following(Laid[m])
        BY LaidDef
    <2>2. Following(Laid[m]).index \in {Laid[m].index, Laid[m].index + 1}
        BY <2>1 DEF Following, Spot
    <2> QED BY <2>1, <2>2 DEF Spot
<1>1. 0 \in V
    BY <1>0
<1>2. ASSUME NEW m \in Nat, m \in V PROVE m + 1 \in V
    <2>1. Laid[p + m].index <= Laid[(p + m) + 1].index /\ (p + m) + 1 = p + (m + 1)
        BY <1>0
    <2>2. Laid[p].index \in Nat /\ Laid[p + m].index \in Nat /\ Laid[p + (m + 1)].index \in Nat
        BY <1>0
    <2> QED BY <1>2, <2>1, <2>2
<1>3. \A m \in Nat : m \in V
    <2> HIDE DEF V
    <2> QED BY <1>1, <1>2, Induction
<1>4. q - p \in V /\ p + (q - p) = q
    <2> HIDE DEF V
    <2> QED BY <1>3
<1> QED BY <1>0, <1>4

\* The last block of a file.
LastNo(size) == Place[size - 1].index

IsSize(size) == size \in Nat \ {0} /\ size - 1 <= Reach

LEMMA LastIndex ==
    ASSUME NEW size, IsSize(size)
    PROVE  /\ LastNo(size) \in Nat
           /\ LastNo(size) = CtzIndex(size - 1).index
           /\ \A p \in 0 .. size - 1 : /\ CtzIndex(p) = Place[p]
                                       /\ Place[p].index \in 0 .. LastNo(size)
<1>1. \A p \in 0 .. size - 1 : CtzIndex(p) = Place[p] /\ Place[p] = Laid[p]
    <2> TAKE p \in 0 .. size - 1
    <2>1. p \in 0 .. Reach
        BY SizeAssumption DEF IsSize
    <2> QED BY <2>1, IndexIsRight DEF IndexIsPlace, Place
<1>2. size - 1 \in 0 .. size - 1
    BY DEF IsSize
<1>3. \A p \in 0 .. size - 1 : Laid[p].index \in Nat /\ Laid[p].index <= Laid[size - 1].index
    BY LaidGrows DEF IsSize
<1> QED BY <1>1, <1>2, <1>3 DEF LastNo

LEMMA BlockHead ==
    ASSUME NEW device, NEW c, NEW head, NEW size, IsSize(size)
    PROVE  Block(device, c, head, size, LastNo(size)) = head
<1> DEFINE next(x) == IF x \in Blocks THEN Pointer(device, c, x, 0) ELSE NoBlock
           S == {head, NoBlock} \union {Pointer(device, c, x, 0) : x \in Blocks}
           Def(j, f) == IF j = 0 THEN head ELSE next(f[j - 1])
           G == [x \in Nat \X [Nat -> S] |-> Def(x[1], x[2])]
<1>0. head \in S /\ \A x : next(x) \in S
    OBVIOUS
<1> HIDE DEF next, S
<1>1. \A j \in Nat, f \in [Nat -> S] : G[<<j, f>>] = Def(j, f)
    OBVIOUS
<1>2. \A j \in Nat, f \in [Nat -> S] : Def(j, f) \in S
    BY <1>0
<1>3. G \in [Nat \X [Nat -> S] -> S]
    BY <1>2
<1>4. ASSUME NEW j \in Nat, NEW f \in [Nat -> S], NEW h \in [Nat -> S],
             \A i \in Nat : i < j => f[i] = h[i]
      PROVE  G[<<j, f>>] = G[<<j, h>>]
    <2>1. Def(j, f) = Def(j, h)
        BY <1>4
    <2> HIDE DEF G, Def
    <2> QED BY <1>1, <2>1
<1> HIDE DEF G
<1>5. PICK f \in [Nat -> S] : \A j \in Nat : f[j] = G[<<j, f>>]
    <2>1. Recurs(G, S)
        BY <1>3, <1>4 DEF Recurs
    <2>2. \E f : Follows(f, G, S)
        BY <1>0, <2>1, Recursion
    <2> QED BY <2>2 DEF Follows
<1>6. f = [j \in Nat |-> Def(j, f)]
    <2>1. \A j \in Nat : f[j] = Def(j, f)
        BY <1>1, <1>5
    <2> HIDE DEF Def
    <2> QED BY <2>1
<1> DEFINE at[j \in Nat] == IF j = 0 THEN head ELSE next(at[j - 1])
<1>7. at = [j \in Nat |-> Def(j, at)]
    BY <1>6
<1>8. Block(device, c, head, size, LastNo(size)) = at[LastNo(size) - LastNo(size)]
    BY DEF Block, LastNo, next
<1>9. at[0] = head
    <2> HIDE DEF at
    <2> QED BY <1>7
<1>10. LastNo(size) - LastNo(size) = 0
    BY LastIndex
<1> HIDE DEF at
<1> QED BY <1>8, <1>9, <1>10

\* A list, by the blocks it has.
IsListOf(device, c, B, n) ==
    \A i \in 0 .. n :
        /\ B[i] \in Blocks
        /\ i > 0 => \A k \in 0 .. Ctz[i] : Pointer(device, c, B[i], k) = B[i - Pow2[k]]

BlocksOf(device, c, head, size) == [i \in 0 .. LastNo(size) |-> Block(device, c, head, size, i)]

LEMMA ListIsList ==
    ASSUME NEW device, NEW c, NEW head, NEW size, IsSize(size), IsList(device, c, head, size)
    PROVE  /\ IsListOf(device, c, BlocksOf(device, c, head, size), LastNo(size))
           /\ BlocksOf(device, c, head, size)[LastNo(size)] = head
<1> DEFINE B == BlocksOf(device, c, head, size)
           n == LastNo(size)
<1>1. n \in Nat /\ size > 0
    BY LastIndex DEF IsSize
<1>2. \A i \in 0 .. n : B[i] = Block(device, c, head, size, i)
    BY DEF BlocksOf
<1>3. \A i \in 0 .. n :
         /\ Block(device, c, head, size, i) \in Blocks
         /\ i > 0 => \A k \in 0 .. Ctz[i] :
                        Pointer(device, c, Block(device, c, head, size, i), k)
                            = Block(device, c, head, size, i - Pow2[k])
    BY <1>1 DEF IsList, LastNo
<1>4. \A i \in 0 .. n : i > 0 => \A k \in 0 .. Ctz[i] : i - Pow2[k] \in 0 .. n
    <2> TAKE i \in 0 .. n
    <2> HAVE i > 0
    <2> TAKE k \in 0 .. Ctz[i]
    <2>1. i \in Nat /\ i # 0 /\ k \in Nat
        BY <1>1, CtzDef
    <2>2. Pow2[k] <= i /\ Pow2[k] \in Nat
        BY <2>1, CtzPow, PowDef
    <2> QED BY <1>1, <2>1, <2>2
<1> HIDE DEF B, n
<1>5. IsListOf(device, c, B, n)
    BY <1>2, <1>3, <1>4 DEF IsListOf
<1>6. B[n] = head
    BY <1>1, <1>2, BlockHead DEF n
<1> QED BY <1>5, <1>6 DEF B, n

-----------------------------------------------------------------------------
(* lfs_ctz_find.                                                             *)

LEMMA SkipFits ==
    ASSUME NEW i \in Nat, NEW t \in Nat, t < i
    PROVE  Skip(i, t) \in 0 .. Ctz[i] /\ Pow2[Skip(i, t)] \in 1 .. i - t
<1> DEFINE x == Npw2[i - t + 1] - 1
           y == Ctz[i]
<1>1. x \in Nat /\ Pow2[x] <= i - t
    <2>1. i - t + 1 \in Nat \ {0} /\ i - t + 1 >= 2
        OBVIOUS
    <2>2. Npw2[i - t + 1] \in Nat /\ Npw2[i - t + 1] >= 1 /\ Pow2[x] < i - t + 1
        BY <2>1, Npw2Def, Npw2Below
    <2>3. x \in Nat
        BY <2>2
    <2>4. Pow2[x] \in Nat
        BY <2>3, PowDef
    <2> HIDE DEF x
    <2> QED BY <2>2, <2>3, <2>4
<1>2. y \in Nat
    BY CtzDef
<1> HIDE DEF x, y
<1>3. Min({x, y}) \in {x, y} /\ Min({x, y}) <= x /\ Min({x, y}) <= y
    <2>1. \E m \in {x, y} : \A j \in {x, y} : m <= j
        BY <1>1, <1>2
    <2> QED BY <2>1 DEF Min
<1>4. Skip(i, t) = Min({x, y})
    BY DEF Skip, x, y
<1>5. Skip(i, t) \in Nat /\ Skip(i, t) <= x /\ Skip(i, t) <= y
    BY <1>1, <1>2, <1>3, <1>4
<1>6. Pow2[Skip(i, t)] <= Pow2[x] /\ Pow2[Skip(i, t)] \in Nat /\ Pow2[Skip(i, t)] >= 1
      /\ Pow2[x] \in Nat
    BY <1>1, <1>5, PowGrows, PowPositive
<1> QED BY <1>1, <1>2, <1>5, <1>6 DEF y

LEMMA WalkReaches ==
    ASSUME NEW device, NEW B, NEW n \in Nat, IsListOf(device, NoCache, B, n), NEW t \in 0 .. n
    PROVE  Walk(device, B[n], n, t) = B[t]
<1> DEFINE start == [block |-> B[n], index |-> n]
           Next_(w) == IF w.index <= t THEN w
                       ELSE [block |-> IF Pointer(device, NoCache, w.block, Skip(w.index, t))
                                            \in Blocks
                                       THEN Pointer(device, NoCache, w.block, Skip(w.index, t))
                                       ELSE NoBlock,
                             index |-> w.index - Pow2[Skip(w.index, t)]]
           Is(f, m) == f = [k \in 0 .. m |-> IF k = 0 THEN start ELSE Next_(f[k - 1])]
           T == {m \in Nat : \E f : Is(f, m)}
           Good(w, k) == /\ w.index \in t .. n
                         /\ w.block = B[w.index]
                         /\ w.index = t \/ w.index + k <= n
<1>1. ASSUME NEW w, NEW k \in Nat, Good(w, k) PROVE Good(Next_(w), k + 1)
    <2>1. CASE w.index <= t
        BY <1>1, <2>1
    <2>2. CASE ~(w.index <= t)
        <3> DEFINE i == w.index
                   s == Skip(i, t)
        <3>1. i \in Nat /\ t < i /\ i \in 0 .. n /\ i > 0
            BY <1>1, <2>2
        <3>2. s \in 0 .. Ctz[i] /\ Pow2[s] \in 1 .. i - t
            BY <3>1, SkipFits
        <3>3. Pointer(device, NoCache, w.block, s) = B[i - Pow2[s]]
            <4> HIDE DEF s
            <4> QED BY <1>1, <3>1, <3>2 DEF IsListOf
        <3>4. i - Pow2[s] \in t .. n /\ i - Pow2[s] \in 0 .. n
            <4> HIDE DEF s, i
            <4> QED BY <3>1, <3>2
        <3>5. B[i - Pow2[s]] \in Blocks
            BY <3>4 DEF IsListOf
        <3>6. Next_(w).block = B[i - Pow2[s]] /\ Next_(w).index = i - Pow2[s]
            BY <2>2, <3>3, <3>5
        <3>7. i - Pow2[s] + (k + 1) <= n
            <4>1. i + k <= n
                BY <1>1, <3>1
            <4> HIDE DEF i, s
            <4> QED BY <3>1, <3>2, <4>1
        <3> HIDE DEF Next_, s, i
        <3> QED BY <3>4, <3>6, <3>7
    <2> QED BY <2>1, <2>2
<1>2. Good(start, 0)
    OBVIOUS
<1> HIDE DEF start, Good
<1>3. \A m \in Nat : m \in T
    <2>1. 0 \in T
        <3>1. Is([k \in 0 .. 0 |-> start], 0)
            OBVIOUS
        <3> HIDE DEF Is
        <3> QED BY <3>1
    <2>2. ASSUME NEW m \in Nat, m \in T PROVE m + 1 \in T
        <3>1. PICK f : Is(f, m)
            BY <2>2
        <3> DEFINE h == [k \in 0 .. m + 1 |-> IF k = m + 1 THEN Next_(f[k - 1]) ELSE f[k]]
        <3>2. Is(h, m + 1)
            <4> HIDE DEF Next_
            <4> QED BY <3>1
        <3> HIDE DEF Is, h
        <3> QED BY <3>2
    <2> HIDE DEF T
    <2> QED BY <2>1, <2>2, Induction
<1> DEFINE at[k \in 0 .. n] == IF k = 0 THEN start ELSE Next_(at[k - 1])
<1>4. Is(at, n)
    <2>1. PICK f : Is(f, n)
        BY <1>3
    <2> HIDE DEF Next_
    <2> QED BY <2>1
<1>5. Walk(device, B[n], n, t) = at[n].block
    BY DEF Walk, start
<1> HIDE DEF at
<1> DEFINE V == {m \in Nat : m <= n => Good(at[m], m)}
<1>6. \A m \in Nat : m \in V
    <2>1. 0 \in V
        <3>1. at[0] = start
            <4> HIDE DEF Next_
            <4> QED BY <1>4
        <3> QED BY <1>2, <3>1
    <2>2. ASSUME NEW m \in Nat, m \in V PROVE m + 1 \in V
        <3>1. SUFFICES ASSUME m + 1 <= n PROVE Good(at[m + 1], m + 1)
            OBVIOUS
        <3>2. at[m + 1] = Next_(at[m])
            <4> HIDE DEF Next_
            <4> QED BY <1>4, <3>1
        <3>3. Good(at[m], m)
            BY <2>2, <3>1
        <3> HIDE DEF Next_
        <3> QED BY <1>1, <3>2, <3>3
    <2> HIDE DEF V
    <2> QED BY <2>1, <2>2, Induction
<1>7. Good(at[n], n)
    <2>1. n \in V
        <3> HIDE DEF V
        <3> QED BY <1>6
    <2> QED BY <2>1
<1>8. at[n].index = t /\ at[n].block = B[t]
    BY <1>7 DEF Good
<1> QED BY <1>5, <1>8

\* lfs_ctz_find finds the block of every byte of a file from its last block, whichever
\* pointers it takes on its way.
THEOREM FindReaches ==
    ASSUME NEW device, NEW head, NEW size, IsSize(size), IsList(device, NoCache, head, size),
           NEW pos \in 0 .. size - 1
    PROVE  CtzFind(device, head, size, pos)
               = [block |-> Block(device, NoCache, head, size, Place[pos].index),
                  off   |-> Place[pos].off]
<1> DEFINE B == BlocksOf(device, NoCache, head, size)
           n == LastNo(size)
           t == Place[pos].index
<1>1. n \in Nat /\ n = CtzIndex(size - 1).index /\ t \in 0 .. n /\ CtzIndex(pos) = Place[pos]
    BY LastIndex
<1>2. IsListOf(device, NoCache, B, n) /\ B[n] = head
    BY ListIsList
<1>3. B[t] = Block(device, NoCache, head, size, t)
    BY <1>1 DEF BlocksOf
<1>4. size # 0
    BY DEF IsSize
<1> HIDE DEF B, n, t
<1>5. Walk(device, head, n, t) = B[t]
    BY <1>1, <1>2, WalkReaches
<1>6. CtzFind(device, head, size, pos)
        = [block |-> Walk(device, head, n, t), off |-> Place[pos].off]
    BY <1>1, <1>4 DEF CtzFind, t
<1> QED BY <1>3, <1>5, <1>6 DEF t

-----------------------------------------------------------------------------
(* lfs_ctz_traverse.                                                         *)

LEMMA TraverseReaches ==
    ASSUME NEW device, NEW c, NEW B, NEW size, IsSize(size), NEW n, n = LastNo(size),
           IsListOf(device, c, B, n), B[n] \in Blocks
    PROVE  CtzTraverse(device, c, B[n], size) = {B[i] : i \in 0 .. n}
<1> DEFINE start == [block |-> B[n], index |-> n, seen |-> {B[n]}]
           count(w) == 2 - (w.index % 2)
           ptr(w, j) == Pointer(device, c, w.block, j)
           Next_(w) == IF w.index = 0 THEN w
                       ELSE [block |-> ptr(w, count(w) - 1),
                             index |-> w.index - count(w),
                             seen  |-> w.seen \union
                                       ({ptr(w, j) : j \in 0 .. count(w) - 1} \intersect Blocks)]
           Is(f, m) == f = [k \in 0 .. m |-> IF k = 0 THEN start ELSE Next_(f[k - 1])]
           T == {m \in Nat : \E f : Is(f, m)}
           Good(w, k) == /\ w.index \in 0 .. n
                         /\ w.block = B[w.index]
                         /\ w.seen = {B[i] : i \in w.index .. n}
                         /\ w.index = 0 \/ w.index + k <= n
<1>0. n \in Nat /\ n = CtzIndex(size - 1).index
    BY LastIndex
<1>1. ASSUME NEW w, NEW k \in Nat, Good(w, k) PROVE Good(Next_(w), k + 1)
    <2>1. CASE w.index = 0
        BY <1>1, <2>1
    <2>2. CASE w.index # 0
        <3> DEFINE i == w.index
                   j == count(w)
        <3>1. i \in Nat /\ i > 0 /\ i \in 0 .. n /\ i # 0 /\ w.block = B[i]
              /\ w.seen = {B[l] : l \in i .. n} /\ i + k <= n
            BY <1>0, <1>1, <2>2
        <3>2. \A l \in 0 .. Ctz[i] : ptr(w, l) = B[i - Pow2[l]]
            <4> HIDE DEF i
            <4> QED BY <3>1 DEF IsListOf
        <3>3. ptr(w, 0) = B[i - 1]
            <4>1. 0 \in 0 .. Ctz[i] /\ Pow2[0] = 1
                BY <3>1, CtzDef, PowDef
            <4> HIDE DEF ptr, i
            <4> QED BY <3>2, <4>1
        <3>4. CASE i % 2 = 1
            <4>1. j = 1 /\ i - 1 \in 0 .. n
                <5>1. j = 2 - (i % 2)
                    OBVIOUS
                <5> HIDE DEF i, j
                <5> QED BY <1>0, <3>1, <3>4, <5>1
            <4>2. {ptr(w, l) : l \in 0 .. j - 1} = {B[i - 1]}
                <5> HIDE DEF ptr, i, j
                <5> QED BY <3>3, <4>1
            <4>3. B[i - 1] \in Blocks
                BY <4>1 DEF IsListOf
            <4>4. i - 1 .. n = {i - 1} \union i .. n
                BY <1>0, <3>1
            <4>5. w.seen \union ({B[i - 1]} \intersect Blocks) = {B[l] : l \in i - 1 .. n}
                <5> HIDE DEF i
                <5> QED BY <3>1, <4>3, <4>4
            <4>6. Next_(w) = [block |-> B[i - 1], index |-> i - 1,
                              seen |-> {B[l] : l \in i - 1 .. n}]
                <5>1. Next_(w) = [block |-> ptr(w, j - 1), index |-> i - j,
                                  seen |-> w.seen \union
                                           ({ptr(w, l) : l \in 0 .. j - 1} \intersect Blocks)]
                    BY <2>2
                <5>2. ptr(w, j - 1) = B[i - 1]
                    <6> HIDE DEF ptr, i, j
                    <6> QED BY <3>3, <4>1
                <5> HIDE DEF Next_, ptr, i, j
                <5> QED BY <4>1, <4>2, <4>5, <5>1, <5>2
            <4>7. (i - 1) + (k + 1) <= n
                BY <3>1
            <4> HIDE DEF Next_, i
            <4> QED BY <4>1, <4>6, <4>7
        <3>5. CASE i % 2 # 1
            <4>1. j = 2 /\ i - 2 \in 0 .. n /\ i - 1 \in 0 .. n
                BY <1>0, <3>1, <3>5
            <4>2. ptr(w, 1) = B[i - 2]
                <5>1. 1 \in 0 .. Ctz[i]
                    <6>1. Ctz[i] = 1 + Ctz[i \div 2] /\ i \div 2 \in Nat \ {0}
                        BY <3>1, <3>5, CtzDef, Halves
                    <6> QED BY <6>1, CtzDef
                <5>2. Pow2[1] = 2
                    BY PowDef
                <5> HIDE DEF ptr, i
                <5> QED BY <3>2, <5>1, <5>2
            <4>3. {ptr(w, l) : l \in 0 .. j - 1} = {B[i - 1], B[i - 2]}
                <5>1. 0 .. 1 = {0, 1}
                    OBVIOUS
                <5> HIDE DEF ptr, i, j
                <5> QED BY <3>3, <4>1, <4>2, <5>1
            <4>4. B[i - 1] \in Blocks /\ B[i - 2] \in Blocks
                BY <4>1 DEF IsListOf
            <4>5. i - 2 .. n = {i - 2, i - 1} \union i .. n
                <5> HIDE DEF i, j
                <5>1. \A l \in Int : (i - 2 <= l /\ l <= n)
                                    <=> (l = i - 2 \/ l = i - 1 \/ (i <= l /\ l <= n))
                    BY <1>0, <3>1, <4>1
                <5>2. \A l : l \in i - 2 .. n <=> l \in {i - 2, i - 1} \union i .. n
                    BY <1>0, <3>1, <4>1, <5>1
                <5> QED BY <5>2
            <4>6. w.seen \union ({B[i - 1], B[i - 2]} \intersect Blocks)
                      = {B[l] : l \in i - 2 .. n}
                <5> HIDE DEF i
                <5> QED BY <3>1, <4>4, <4>5
            <4>7. Next_(w) = [block |-> B[i - 2], index |-> i - 2,
                              seen |-> {B[l] : l \in i - 2 .. n}]
                <5>1. Next_(w) = [block |-> ptr(w, j - 1), index |-> i - j,
                                  seen |-> w.seen \union
                                           ({ptr(w, l) : l \in 0 .. j - 1} \intersect Blocks)]
                    BY <2>2
                <5>2. ptr(w, j - 1) = B[i - 2]
                    <6> HIDE DEF ptr, i, j
                    <6> QED BY <4>2, <4>1
                <5> HIDE DEF Next_, ptr, i, j
                <5> QED BY <4>1, <4>3, <4>6, <5>1, <5>2
            <4>8. i - 2 = 0 \/ (i - 2) + (k + 1) <= n
                <5> HIDE DEF i
                <5> QED BY <1>0, <1>1, <3>1
            <4> HIDE DEF Next_, i
            <4> QED BY <4>1, <4>7, <4>8
        <3> QED BY <3>4, <3>5
    <2> QED BY <2>1, <2>2
<1>2. Good(start, 0)
    <2>1. {B[i] : i \in n .. n} = {B[n]}
        <3>1. n .. n = {n}
            BY <1>0
        <3> QED BY <3>1
    <2> QED BY <1>0, <2>1
<1> HIDE DEF start, Good
<1>3. \A m \in Nat : m \in T
    <2>1. 0 \in T
        <3>1. Is([k \in 0 .. 0 |-> start], 0)
            OBVIOUS
        <3> HIDE DEF Is
        <3> QED BY <3>1
    <2>2. ASSUME NEW m \in Nat, m \in T PROVE m + 1 \in T
        <3>1. PICK f : Is(f, m)
            BY <2>2
        <3> DEFINE h == [k \in 0 .. m + 1 |-> IF k = m + 1 THEN Next_(f[k - 1]) ELSE f[k]]
        <3>2. Is(h, m + 1)
            <4> HIDE DEF Next_
            <4> QED BY <3>1
        <3> HIDE DEF Is, h
        <3> QED BY <3>2
    <2> HIDE DEF T
    <2> QED BY <2>1, <2>2, Induction
<1> DEFINE last == CtzIndex(size - 1).index
           at[k \in 0 .. last] == IF k = 0 THEN start ELSE Next_(at[k - 1])
<1>4. Is(at, n)
    <2>1. PICK f : Is(f, n)
        BY <1>0, <1>3
    <2> HIDE DEF Next_
    <2> QED BY <1>0, <2>1
<1>5. CtzTraverse(device, c, B[n], size) = at[n].seen
    <2>1. size # 0 /\ B[n] \in Blocks
        BY DEF IsSize
    <2>2. start = [block |-> B[n], index |-> last, seen |-> {B[n]}]
        BY <1>0 DEF start
    <2> QED BY SMTT(120), <1>0, <2>1, <2>2 DEF CtzTraverse
<1> HIDE DEF at
<1> DEFINE V == {m \in Nat : m <= n => Good(at[m], m)}
<1>6. \A m \in Nat : m \in V
    <2>1. 0 \in V
        <3>1. at[0] = start
            <4> HIDE DEF Next_
            <4> QED BY <1>0, <1>4
        <3> QED BY <1>2, <3>1
    <2>2. ASSUME NEW m \in Nat, m \in V PROVE m + 1 \in V
        <3>1. SUFFICES ASSUME m + 1 <= n PROVE Good(at[m + 1], m + 1)
            OBVIOUS
        <3>2. at[m + 1] = Next_(at[m])
            <4> HIDE DEF Next_
            <4> QED BY <1>0, <1>4, <3>1
        <3>3. Good(at[m], m)
            BY <1>0, <2>2, <3>1
        <3> HIDE DEF Next_
        <3> QED BY <1>1, <3>2, <3>3
    <2> HIDE DEF V
    <2> QED BY <2>1, <2>2, Induction
<1>7. Good(at[n], n)
    <2>1. n \in V
        <3> HIDE DEF V
        <3> QED BY <1>0, <1>6
    <2> QED BY <1>0, <2>1
<1>8. at[n].seen = {B[i] : i \in 0 .. n}
    <2>1. at[n].index = 0
        BY <1>0, <1>7 DEF Good
    <2> QED BY <1>7, <2>1 DEF Good
<1> QED BY <1>5, <1>8

\* lfs_ctz_traverse, which takes two pointers at a time where there are two, visits each
\* block of a file and no other.
THEOREM TraverseVisitsAll ==
    ASSUME NEW device, NEW c, NEW head, NEW size, IsSize(size), IsList(device, c, head, size)
    PROVE  CtzTraverse(device, c, head, size) = ListBlocks(device, c, head, size)
<1> DEFINE B == BlocksOf(device, c, head, size)
           n == LastNo(size)
<1>1. n \in Nat /\ size # 0
    BY LastIndex DEF IsSize
<1>2. IsListOf(device, c, B, n) /\ B[n] = head
    BY ListIsList
<1>3. \A i \in 0 .. n : B[i] = Block(device, c, head, size, i)
    BY DEF BlocksOf
<1>4. ListBlocks(device, c, head, size) = {B[i] : i \in 0 .. n}
    <2>1. ListBlocks(device, c, head, size) = {Block(device, c, head, size, i) : i \in 0 .. n}
        BY <1>1 DEF ListBlocks, LastNo
    <2> HIDE DEF B, n
    <2> QED BY <1>3, <2>1
<1> HIDE DEF B
<1>5. B[n] \in Blocks
    BY <1>1, <1>2 DEF IsListOf
<1>6. CtzTraverse(device, c, B[n], size) = {B[i] : i \in 0 .. n}
    BY SMTT(60), <1>1, <1>2, <1>5, TraverseReaches
<1> QED BY <1>2, <1>4, <1>6

-----------------------------------------------------------------------------
(* lfs_ctz_extend.                                                           *)

\* The pointers that lfs_ctz_extend writes to a new block, each of which it reads from the
\* block that the one before leads to, are the ones the block has to have.
THEOREM PointersAreRight ==
    ASSUME NEW device, NEW B, NEW n \in Nat, IsListOf(device, NoCache, B, n),
           NEW k \in 0 .. Ctz[n + 1]
    PROVE  /\ (PointerSize * k) + 1 \in DOMAIN NewPointers(device, B[n], n + 1)
           /\ NewPointers(device, B[n], n + 1)[(PointerSize * k) + 1] = B[(n + 1) - Pow2[k]]
<1> DEFINE i == n + 1
           next(x, j) == IF x \in Blocks THEN Pointer(device, NoCache, x, j - 1) ELSE NoBlock
           S == {B[n], NoBlock}
                \union {Pointer(device, NoCache, x, j - 1) : x \in Blocks, j \in Nat}
           Def(j, f) == IF j = 0 THEN B[n] ELSE next(f[j - 1], j)
           G == [x \in Nat \X [Nat -> S] |-> Def(x[1], x[2])]
<1>0. B[n] \in S /\ \A x : \A j \in Nat : next(x, j) \in S
    OBVIOUS
<1>00. i \in Nat /\ i # 0 /\ Ctz[i] \in Nat
    BY CtzDef
<1> HIDE DEF next, S
<1>1. \A j \in Nat, f \in [Nat -> S] : G[<<j, f>>] = Def(j, f)
    OBVIOUS
<1>2. \A j \in Nat, f \in [Nat -> S] : Def(j, f) \in S
    BY <1>0
<1>3. G \in [Nat \X [Nat -> S] -> S]
    BY <1>2
<1>4. ASSUME NEW j \in Nat, NEW f \in [Nat -> S], NEW h \in [Nat -> S],
             \A l \in Nat : l < j => f[l] = h[l]
      PROVE  G[<<j, f>>] = G[<<j, h>>]
    <2>1. Def(j, f) = Def(j, h)
        BY <1>4
    <2> HIDE DEF G, Def
    <2> QED BY <1>1, <2>1
<1> HIDE DEF G
<1>5. PICK f \in [Nat -> S] : \A j \in Nat : f[j] = G[<<j, f>>]
    <2>1. Recurs(G, S)
        BY <1>3, <1>4 DEF Recurs
    <2>2. \E f : Follows(f, G, S)
        BY <1>0, <2>1, Recursion
    <2> QED BY <2>2 DEF Follows
<1>6. f = [j \in Nat |-> Def(j, f)]
    <2>1. \A j \in Nat : f[j] = Def(j, f)
        BY <1>1, <1>5
    <2> HIDE DEF Def
    <2> QED BY <2>1
<1> DEFINE p[j \in Nat] == IF j = 0 THEN B[n] ELSE next(p[j - 1], j)
<1>7. p = [j \in Nat |-> Def(j, p)]
    BY <1>6
<1>8. NewPointers(device, B[n], i)
        = [j \in 1 .. PointerSize * Skips(i) |->
              IF (j - 1) % PointerSize = 0 THEN p[(j - 1) \div PointerSize] ELSE Filler]
    BY DEF NewPointers, next
<1> HIDE DEF p
<1>9. p[0] = B[n] /\ \A j \in Nat : p[j + 1] = next(p[j], j + 1)
    BY <1>7
<1> DEFINE V == {m \in Nat : m <= Ctz[i] => p[m] = B[i - Pow2[m]]}
<1>10. \A m \in Nat : m \in V
    <2>1. 0 \in V
        BY <1>9, PowDef
    <2>2. ASSUME NEW m \in Nat, m \in V PROVE m + 1 \in V
        <3>1. SUFFICES ASSUME m + 1 <= Ctz[i] PROVE p[m + 1] = B[i - Pow2[m + 1]]
            OBVIOUS
        <3> DEFINE j == i - Pow2[m]
        <3>2. m < Ctz[i] /\ m <= Ctz[i]
            BY <1>00, <3>1
        <3>3. j \in Nat /\ j # 0 /\ Ctz[j] = m
            <4> HIDE DEF i
            <4> QED BY <1>00, <3>2, CtzMinus
        <3>4. Pow2[m] \in Nat /\ Pow2[m] >= 1 /\ Pow2[m + 1] = 2 * Pow2[m]
            BY PowPositive, PowDef
        <3>5. j \in 0 .. n /\ j > 0 /\ i - Pow2[m + 1] = j - Pow2[m]
            BY <3>3, <3>4
        <3>6. p[m] = B[j]
            BY <2>2, <3>2
        <3> HIDE DEF j
        <3>7. m \in 0 .. Ctz[j]
            BY <3>3
        <3>8. B[j] \in Blocks /\ Pointer(device, NoCache, B[j], m) = B[j - Pow2[m]]
            BY <3>5, <3>7 DEF IsListOf
        <3>9. (m + 1) - 1 = m
            OBVIOUS
        <3>10. p[m + 1] = Pointer(device, NoCache, B[j], m)
            BY <1>9, <3>6, <3>8, <3>9 DEF next
        <3> QED BY <3>5, <3>8, <3>10
    <2> HIDE DEF V
    <2> QED BY <2>1, <2>2, Induction
<1>11. p[k] = B[i - Pow2[k]]
    <2>1. k \in Nat /\ k <= Ctz[i]
        BY <1>00
    <2>2. k \in V
        <3> HIDE DEF V
        <3> QED BY <1>10, <2>1
    <2> QED BY <2>1, <2>2
<1>12. (PointerSize * k) + 1 \in 1 .. PointerSize * Skips(i)
    <2>1. k \in Nat /\ Skips(i) \in Nat /\ k + 1 <= Skips(i)
        BY <1>00 DEF Skips
    <2>2. PointerSize * (k + 1) <= PointerSize * Skips(i)
        BY <2>1, Sizes
    <2>3. PointerSize * (k + 1) = (PointerSize * k) + PointerSize
        BY <2>1, Sizes
    <2>4. PointerSize * k \in Nat /\ PointerSize * Skips(i) \in Nat
        BY <2>1, Sizes
    <2> QED BY <2>2, <2>3, <2>4, Sizes
<1>13. /\ (PointerSize * k) % PointerSize = 0
       /\ (PointerSize * k) \div PointerSize = k
       /\ ((PointerSize * k) + 1) - 1 = PointerSize * k
    <2>1. k \in Nat /\ PointerSize * k \in Nat
        BY <1>00, Sizes
    <2>2. PointerSize * k = (PointerSize * k) + 0
        BY <2>1
    <2>3. (PointerSize * k) \div PointerSize = k
        BY <2>1, <2>2, Sizes, DivUnique
    <2>4. (PointerSize * k) % PointerSize = 0
        BY <2>1, <2>2, Sizes, ModUnique
    <2> QED BY <2>1, <2>3, <2>4
<1> DEFINE a == (PointerSize * k) + 1
           N == PointerSize * Skips(i)
<1>14. a \in 1 .. N /\ (a - 1) % PointerSize = 0 /\ p[(a - 1) \div PointerSize] = B[i - Pow2[k]]
    BY <1>11, <1>12, <1>13
<1>15. i = n + 1
    OBVIOUS
<1> HIDE DEF a, N, i
<1>16. a \in DOMAIN NewPointers(device, B[n], i)
       /\ NewPointers(device, B[n], i)[a] = B[i - Pow2[k]]
    <2>1. NewPointers(device, B[n], i)
            = [j \in 1 .. N |->
                  IF (j - 1) % PointerSize = 0 THEN p[(j - 1) \div PointerSize] ELSE Filler]
        BY <1>8 DEF N
    <2> DEFINE np == NewPointers(device, B[n], i)
               cell(j) == IF (j - 1) % PointerSize = 0 THEN p[(j - 1) \div PointerSize] ELSE Filler
    <2>2. np = [j \in 1 .. N |-> cell(j)]
        BY <2>1
    <2>3. cell(a) = B[i - Pow2[k]]
        BY <1>14
    <2>4. a \in 1 .. N
        BY <1>14
    <2> HIDE DEF np, cell
    <2>5. a \in DOMAIN np /\ np[a] = cell(a)
        BY <2>2, <2>4
    <2> QED BY <2>3, <2>5 DEF np
<1> QED BY <1>16 DEF a, i

-----------------------------------------------------------------------------
(* Places.                                                                   *)

LEMMA PlaceType ==
    ASSUME NEW p \in Nat, p <= Reach
    PROVE  /\ Place[p] = Laid[p]
           /\ CtzIndex(p) = Place[p]
           /\ Place[p] \in Spot
           /\ Place[p].index \in Nat
           /\ Place[p].off \in Nat
           /\ Place[p].off < BlockSize
<1>1. p \in 0 .. Reach
    BY SizeAssumption
<1>2. Place[p] = Laid[p]
    BY <1>1 DEF Place
<1>3. Laid[p] \in Spot
    BY LaidDef
<1>4. Laid[p].off < BlockSize
    BY LaidAt DEF At
<1> QED BY <1>1, <1>2, <1>3, <1>4, IndexIsRight DEF IndexIsPlace, Spot

\* A block starts with its pointers.
LEMMA PlaceHeader ==
    ASSUME NEW p \in Nat, p <= Reach, Place[p].index # 0
    PROVE  PointerSize * Skips(Place[p].index) <= Place[p].off
    BY PlaceType, LaidAt DEF At

\* In the first block they lie one after the other.
LEMMA PlaceFirst ==
    ASSUME NEW p \in Nat, p <= Reach
    PROVE  /\ Place[p].index = 0 => Place[p].off = p
           /\ p < BlockSize => Place[p] = [index |-> 0, off |-> p]
<1>1. At(Place[p], p) /\ Place[p] \in Spot
    BY PlaceType, LaidAt
<1>2. CASE Place[p].index = 0
    <2>1. Room * 0 = 0 /\ PointerSize * Popc[0] = 0
        BY Sizes, PopcDef
    <2>2. Place[p].off = p
        BY <1>1, <1>2, <2>1 DEF At, Spot
    <2> QED BY <1>1, <1>2, <2>2 DEF Spot
<1>3. CASE Place[p].index # 0
    <2> DEFINE i == Place[p].index
               o == Place[p].off
    <2>1. i \in Nat /\ i # 0 /\ o \in Nat
        BY <1>1, <1>3 DEF Spot
    <2>2. p = (Room * i) + (PointerSize * Popc[i]) + o /\ PointerSize * Skips(i) <= o
        BY <1>1, <1>3 DEF At
    <2> HIDE DEF i, o
    <2>3. Room * i >= Room /\ Room * i \in Nat
        BY <2>1, Sizes
    <2>4. PointerSize * Popc[i] >= PointerSize /\ PointerSize * Popc[i] \in Nat
        <3>1. Popc[i] \in Nat /\ Popc[i] >= 1
            BY <2>1, PopcPositive, PopcDef
        <3> DEFINE x == Popc[i]
        <3> HIDE DEF x
        <3>2. PointerSize * x \in Nat /\ PointerSize * x >= PointerSize
            BY <3>1, Sizes DEF x
        <3> QED BY <3>2 DEF x
    <2>5. PointerSize * Skips(i) >= PointerSize /\ PointerSize * Skips(i) \in Nat
        BY <2>1, SkipsNat, Sizes
    <2>6. p >= BlockSize
        BY <2>1, <2>2, <2>3, <2>4, <2>5, Sizes
    <2> QED BY <1>3, <2>6, Sizes
<1> QED BY <1>2, <1>3

LEMMA PlaceNext ==
    ASSUME NEW p \in Nat, p + 1 <= Reach
    PROVE  IF Place[p].off + 1 < BlockSize
           THEN /\ Place[p + 1].index = Place[p].index
                /\ Place[p + 1].off = Place[p].off + 1
           ELSE /\ Place[p].off = BlockSize - 1
                /\ Place[p + 1].index = Place[p].index + 1
                /\ Place[p + 1].off = PointerSize * Skips(Place[p].index + 1)
<1>1. Place[p] = Laid[p] /\ Place[p + 1] = Laid[p + 1] /\ Laid[p] \in Spot
      /\ Place[p].off \in Nat /\ Place[p].off < BlockSize
    BY PlaceType, SizeAssumption
<1>2. Laid[p + 1] = Following(Laid[p])
    BY LaidDef
<1>3. CASE Place[p].off + 1 < BlockSize
    BY <1>1, <1>2, <1>3 DEF Following, Spot
<1>4. CASE ~(Place[p].off + 1 < BlockSize)
    BY <1>1, <1>2, <1>4, Sizes DEF Following, Spot
<1> QED BY <1>3, <1>4

LEMMA PlaceRun ==
    ASSUME NEW p \in Nat, NEW m \in Nat, p + m <= Reach, Place[p].off + m < BlockSize
    PROVE  Place[p + m].index = Place[p].index /\ Place[p + m].off = Place[p].off + m
<1> DEFINE V == {l \in Nat : l <= m => /\ Place[p + l].index = Place[p].index
                                       /\ Place[p + l].off = Place[p].off + l}
<1>0. Place[p].off \in Nat /\ Place[p].index \in Nat
    BY PlaceType, SizeAssumption
<1>1. 0 \in V
    BY <1>0
<1>2. ASSUME NEW l \in Nat, l \in V PROVE l + 1 \in V
    <2>1. SUFFICES ASSUME l + 1 <= m
                   PROVE  /\ Place[p + (l + 1)].index = Place[p].index
                          /\ Place[p + (l + 1)].off = Place[p].off + (l + 1)
        OBVIOUS
    <2>2. Place[p + l].index = Place[p].index /\ Place[p + l].off = Place[p].off + l
        BY <1>2, <2>1
    <2>3. p + l \in Nat /\ (p + l) + 1 <= Reach /\ (p + l) + 1 = p + (l + 1)
        BY <2>1, SizeAssumption
    <2>4. Place[p + l].off + 1 < BlockSize
        BY <1>0, <2>1, <2>2, Sizes
    <2>5. /\ Place[(p + l) + 1].index = Place[p + l].index
          /\ Place[(p + l) + 1].off = Place[p + l].off + 1
        BY <2>3, <2>4, PlaceNext
    <2> QED BY <1>0, <2>2, <2>3, <2>5
<1>3. \A l \in Nat : l \in V
    <2> HIDE DEF V
    <2> QED BY <1>1, <1>2, Induction
<1> QED BY <1>3

LEMMA PlaceGrows ==
    ASSUME NEW p \in Nat, NEW q \in Nat, p <= q, q <= Reach
    PROVE  Place[p].index <= Place[q].index
<1>1. p <= Reach
    BY SizeAssumption
<1> QED BY <1>1, PlaceType, LaidGrows

-----------------------------------------------------------------------------
(* Lists, by the blocks they have.                                           *)

Lists(device, c, B, n) ==
    IsListOf(device, c, B, n) /\ \A i, j \in 0 .. n : B[i] = B[j] => i = j

LEMMA BlocksFollow ==
    ASSUME NEW device, NEW c, NEW B, NEW size, IsSize(size),
           IsListOf(device, c, B, LastNo(size))
    PROVE  \A i \in 0 .. LastNo(size) :
              Block(device, c, B[LastNo(size)], size, i) = B[i]
<1> DEFINE n == LastNo(size)
           head == B[n]
           next(x) == IF x \in Blocks THEN Pointer(device, c, x, 0) ELSE NoBlock
           S == {head, NoBlock} \union {Pointer(device, c, x, 0) : x \in Blocks}
           Def(j, f) == IF j = 0 THEN head ELSE next(f[j - 1])
           G == [x \in Nat \X [Nat -> S] |-> Def(x[1], x[2])]
<1>0. head \in S /\ \A x : next(x) \in S
    OBVIOUS
<1>00. n \in Nat
    BY LastIndex
<1> HIDE DEF next, S, head, n
<1>1. \A j \in Nat, f \in [Nat -> S] : G[<<j, f>>] = Def(j, f)
    OBVIOUS
<1>2. \A j \in Nat, f \in [Nat -> S] : Def(j, f) \in S
    BY <1>0
<1>3. G \in [Nat \X [Nat -> S] -> S]
    BY <1>2
<1>4. ASSUME NEW j \in Nat, NEW f \in [Nat -> S], NEW h \in [Nat -> S],
             \A i \in Nat : i < j => f[i] = h[i]
      PROVE  G[<<j, f>>] = G[<<j, h>>]
    <2>1. Def(j, f) = Def(j, h)
        BY <1>4
    <2> HIDE DEF G, Def
    <2> QED BY <1>1, <2>1
<1> HIDE DEF G
<1>5. PICK f \in [Nat -> S] : \A j \in Nat : f[j] = G[<<j, f>>]
    <2>1. Recurs(G, S)
        BY <1>3, <1>4 DEF Recurs
    <2>2. \E f : Follows(f, G, S)
        BY <1>0, <2>1, Recursion
    <2> QED BY <2>2 DEF Follows
<1>6. f = [j \in Nat |-> Def(j, f)]
    <2>1. \A j \in Nat : f[j] = Def(j, f)
        BY <1>1, <1>5
    <2> HIDE DEF Def
    <2> QED BY <2>1
<1> DEFINE at[j \in Nat] == IF j = 0 THEN head ELSE next(at[j - 1])
<1>7. at = [j \in Nat |-> Def(j, at)]
    BY <1>6
<1>8. ASSUME NEW i \in 0 .. n
      PROVE  Block(device, c, B[LastNo(size)], size, i) = at[n - i]
    BY DEF Block, LastNo, next, head, n
<1>9. at[0] = head /\ \A j \in Nat : at[j + 1] = next(at[j])
    <2> HIDE DEF at
    <2> QED BY <1>7
<1> HIDE DEF at
<1> DEFINE V == {j \in Nat : j <= n => at[j] = B[n - j]}
<1>10. 0 \in V
    BY <1>00, <1>9 DEF head
<1>11. ASSUME NEW j \in Nat, j \in V PROVE j + 1 \in V
    <2>1. SUFFICES ASSUME j + 1 <= n PROVE at[j + 1] = B[n - (j + 1)]
        OBVIOUS
    <2>2. at[j] = B[n - j] /\ n - j \in 0 .. n /\ n - j > 0 /\ n - (j + 1) = (n - j) - 1
        BY <1>00, <1>11, <2>1
    <2>3. 0 \in 0 .. Ctz[n - j] /\ Pow2[0] = 1
        BY <1>00, <2>2, CtzDef, PowDef
    <2>4. B[n - j] \in Blocks /\ Pointer(device, c, B[n - j], 0) = B[(n - j) - 1]
        BY <2>2, <2>3 DEF IsListOf, n
    <2> QED BY <1>9, <2>2, <2>4 DEF next
<1>12. \A j \in Nat : j \in V
    <2> HIDE DEF V
    <2> QED BY <1>10, <1>11, Induction
<1>13. ASSUME NEW i \in 0 .. n PROVE at[n - i] = B[i]
    <2>1. n - i \in Nat /\ n - i <= n /\ n - (n - i) = i
        BY <1>00
    <2> QED BY <1>12, <2>1
<1> QED BY <1>8, <1>13 DEF n

LEMMA ListMade ==
    ASSUME NEW device, NEW c, NEW B, NEW size, IsSize(size),
           Lists(device, c, B, LastNo(size))
    PROVE  /\ IsList(device, c, B[LastNo(size)], size)
           /\ ListBlocks(device, c, B[LastNo(size)], size) = {B[i] : i \in 0 .. LastNo(size)}
           /\ \A i \in 0 .. LastNo(size) : Block(device, c, B[LastNo(size)], size, i) = B[i]
<1> DEFINE n == LastNo(size)
           h == B[LastNo(size)]
           at(i) == Block(device, c, h, size, i)
<1>0. n \in Nat /\ size # 0 /\ n = Place[size - 1].index
    BY LastIndex DEF IsSize, LastNo
<1>1. \A i \in 0 .. n : at(i) = B[i]
    BY BlocksFollow DEF Lists
<1>2. /\ \A i \in 0 .. n : B[i] \in Blocks
      /\ \A i \in 0 .. n : i > 0 => \A k \in 0 .. Ctz[i] :
              Pointer(device, c, B[i], k) = B[i - Pow2[k]]
      /\ \A i, j \in 0 .. n : B[i] = B[j] => i = j
    BY DEF Lists, IsListOf
<1>3. \A i \in 0 .. n : i > 0 => \A k \in 0 .. Ctz[i] : i - Pow2[k] \in 0 .. n
    <2> TAKE i \in 0 .. n
    <2> HAVE i > 0
    <2> TAKE k \in 0 .. Ctz[i]
    <2> HIDE DEF n
    <2>1. i \in Nat /\ i # 0 /\ k \in Nat
        BY <1>0, CtzDef
    <2>2. Pow2[k] <= i /\ Pow2[k] \in Nat
        BY <2>1, CtzPow, PowDef
    <2> QED BY <1>0, <2>1, <2>2
<1>4. ListBlocks(device, c, h, size) = {at(i) : i \in 0 .. n}
    BY <1>0 DEF ListBlocks
<1>5. IsList(device, c, h, size)
      <=> /\ IsInjective([i \in 0 .. n |-> at(i)])
          /\ \A i \in 0 .. n : /\ at(i) \in Blocks
                               /\ i > 0 => \A k \in 0 .. Ctz[i] :
                                    Pointer(device, c, at(i), k) = at(i - Pow2[k])
    <2>1. size > 0
        BY <1>0 DEF IsSize
    <2> QED BY <1>0, <2>1 DEF IsList
<1> HIDE DEF n, h, at
<1>6. ListBlocks(device, c, h, size) = {B[i] : i \in 0 .. n}
    BY <1>1, <1>4
<1>7. IsInjective([i \in 0 .. n |-> at(i)])
    BY <1>1, <1>2 DEF IsInjective
<1>8. \A i \in 0 .. n : /\ at(i) \in Blocks
                        /\ i > 0 => \A k \in 0 .. Ctz[i] :
                              Pointer(device, c, at(i), k) = at(i - Pow2[k])
    BY <1>1, <1>2, <1>3
<1>9. IsList(device, c, h, size)
    BY <1>5, <1>7, <1>8
<1> QED BY <1>1, <1>6, <1>9 DEF n, h, at

LEMMA ListPick ==
    ASSUME NEW device, NEW c, NEW head, NEW size, IsSize(size), IsList(device, c, head, size)
    PROVE  \E B : /\ Lists(device, c, B, LastNo(size))
                  /\ B[LastNo(size)] = head
                  /\ ListBlocks(device, c, head, size) = {B[i] : i \in 0 .. LastNo(size)}
                  /\ \A i \in 0 .. LastNo(size) : Block(device, c, head, size, i) = B[i]
<1> DEFINE n == LastNo(size)
           B == BlocksOf(device, c, head, size)
           at(i) == Block(device, c, head, size, i)
<1>0. n \in Nat /\ size > 0 /\ n = Place[size - 1].index
    BY LastIndex DEF IsSize, LastNo
<1>1. IsListOf(device, c, B, n) /\ B[n] = head
    BY ListIsList
<1>2. \A i \in 0 .. n : at(i) = B[i]
    BY DEF BlocksOf
<1>3. IsInjective([i \in 0 .. n |-> at(i)])
    BY <1>0 DEF IsList
<1>4. \A i, j \in 0 .. n : at(i) = at(j) => i = j
    <2> HIDE DEF at, n
    <2> QED BY <1>3 DEF IsInjective
<1>5. Lists(device, c, B, n)
    <2> HIDE DEF at, n, B
    <2> QED BY <1>1, <1>2, <1>4 DEF Lists
<1>6. Lists(device, c, B, n) /\ B[n] = head /\ \A i \in 0 .. n : at(i) = B[i]
    BY <1>1, <1>2, <1>5
<1>7. ListBlocks(device, c, B[n], size) = {B[i] : i \in 0 .. n}
    BY <1>5, ListMade
<1> HIDE DEF B
<1> QED BY <1>6, <1>7

\* What is seen of the list's blocks is all that matters.
LEMMA ListSeen ==
    ASSUME NEW device, NEW c, NEW head, NEW size, IsSize(size), IsList(device, c, head, size),
           NEW device2, NEW c2,
           \A b \in ListBlocks(device, c, head, size) : \A k \in Nat :
              Pointer(device2, c2, b, k) = Pointer(device, c, b, k)
    PROVE  /\ IsList(device2, c2, head, size)
           /\ ListBlocks(device2, c2, head, size) = ListBlocks(device, c, head, size)
           /\ \A i \in 0 .. LastNo(size) :
                 Block(device2, c2, head, size, i) = Block(device, c, head, size, i)
<1>1. PICK B : /\ Lists(device, c, B, LastNo(size))
               /\ B[LastNo(size)] = head
               /\ ListBlocks(device, c, head, size) = {B[i] : i \in 0 .. LastNo(size)}
               /\ \A i \in 0 .. LastNo(size) : Block(device, c, head, size, i) = B[i]
    BY ListPick
<1> DEFINE n == LastNo(size)
<1>2. n \in Nat
    BY LastIndex
<1> HIDE DEF n
<1>3. \A i \in 0 .. n : \A k \in Nat :
         Pointer(device2, c2, B[i], k) = Pointer(device, c, B[i], k)
    BY <1>1 DEF n
<1>4. \A i \in 0 .. n : i > 0 => \A k \in 0 .. Ctz[i] : k \in Nat
    BY <1>2, CtzDef
<1>5. Lists(device2, c2, B, n)
    BY <1>1, <1>3, <1>4 DEF Lists, IsListOf, n
<1> QED BY <1>1, <1>5, ListMade DEF n

\* A block in front of a list.
LEMMA NewTip ==
    ASSUME NEW device, NEW c, NEW B, NEW n \in Nat, Lists(device, c, B, n - 1),
           NEW device2, NEW c2, NEW b \in Blocks,
           \A i \in 0 .. n - 1 :
              /\ B[i] # b
              /\ \A k \in Nat : Pointer(device2, c2, B[i], k) = Pointer(device, c, B[i], k),
           n > 0 => \A k \in 0 .. Ctz[n] : Pointer(device2, c2, b, k) = B[n - Pow2[k]]
    PROVE  Lists(device2, c2, [i \in 0 .. n |-> IF i = n THEN b ELSE B[i]], n)
<1> DEFINE D == [i \in 0 .. n |-> IF i = n THEN b ELSE B[i]]
<1>1. D[n] = b /\ \A i \in 0 .. n - 1 : D[i] = B[i]
    OBVIOUS
<1>2. \A i \in 0 .. n : i = n \/ i \in 0 .. n - 1
    OBVIOUS
<1>3. \A i \in 0 .. n : i > 0 => \A k \in 0 .. Ctz[i] : k \in Nat /\ i - Pow2[k] \in 0 .. i - 1
    <2> TAKE i \in 0 .. n
    <2> HAVE i > 0
    <2> TAKE k \in 0 .. Ctz[i]
    <2>1. i \in Nat /\ i # 0 /\ k \in Nat
        BY CtzDef
    <2>2. Pow2[k] <= i /\ Pow2[k] \in Nat /\ Pow2[k] >= 1
        BY <2>1, CtzPow, PowPositive
    <2> QED BY <2>1, <2>2
<1> HIDE DEF D
<1>4. /\ \A i \in 0 .. n - 1 : B[i] \in Blocks
      /\ \A i \in 0 .. n - 1 : i > 0 => \A k \in 0 .. Ctz[i] :
             Pointer(device, c, B[i], k) = B[i - Pow2[k]]
      /\ \A i, j \in 0 .. n - 1 : B[i] = B[j] => i = j
    BY DEF Lists, IsListOf
<1>5. ASSUME NEW i \in 0 .. n
      PROVE  /\ D[i] \in Blocks
             /\ i > 0 => \A k \in 0 .. Ctz[i] : Pointer(device2, c2, D[i], k) = D[i - Pow2[k]]
    <2>1. CASE i = n
        <3>1. D[i] = b
            BY <1>1, <2>1
        <3>2. ASSUME i > 0, NEW k \in 0 .. Ctz[i]
              PROVE  Pointer(device2, c2, b, k) = D[i - Pow2[k]]
            BY <1>1, <1>3, <2>1, <3>2
        <3> QED BY <3>1, <3>2
    <2>2. CASE i \in 0 .. n - 1
        <3>1. D[i] = B[i]
            BY <1>1, <2>2
        <3>2. ASSUME i > 0, NEW k \in 0 .. Ctz[i]
              PROVE  Pointer(device2, c2, B[i], k) = D[i - Pow2[k]]
            <4>1. k \in Nat /\ i - Pow2[k] \in 0 .. n - 1
                BY <1>3, <2>2, <3>2
            <4>2. Pointer(device2, c2, B[i], k) = B[i - Pow2[k]]
                BY <1>4, <2>2, <3>2, <4>1
            <4> QED BY <1>1, <4>1, <4>2
        <3> QED BY <1>4, <2>2, <3>1, <3>2
    <2> QED BY <1>2, <2>1, <2>2
<1>6. \A i, j \in 0 .. n : D[i] = D[j] => i = j
    BY <1>1, <1>2, <1>4
<1> QED BY <1>5, <1>6 DEF Lists, IsListOf, D

LEMMA ListPrefix ==
    ASSUME NEW device, NEW c, NEW B, NEW n, Lists(device, c, B, n), NEW m \in Int, m <= n,
           n \in Int
    PROVE  Lists(device, c, B, m)
<1>1. \A i \in 0 .. m : i \in 0 .. n
    OBVIOUS
<1> QED BY <1>1 DEF Lists, IsListOf

\* The number of pointers of a block is what its place leaves room for.
LEMMA PointerPlace ==
    ASSUME NEW p \in Nat, p <= Reach, Place[p].index # 0, NEW k \in 0 .. Ctz[Place[p].index]
    PROVE  /\ k \in Nat
           /\ PointerSize * k \in Nat
           /\ PointerSize * k < PointerSize * Skips(Place[p].index)
           /\ PointerSize * k < Place[p].off
<1> DEFINE i == Place[p].index
<1>1. i \in Nat /\ i # 0 /\ Place[p].off \in Nat
    BY PlaceType
<1>2. PointerSize * Skips(i) <= Place[p].off
    BY PlaceHeader
<1> HIDE DEF i
<1>3. k \in Nat /\ Skips(i) \in Nat /\ k + 1 <= Skips(i)
    <2>1. Ctz[i] \in Nat
        BY <1>1, CtzDef
    <2>2. k \in Nat /\ k <= Ctz[i]
        BY <2>1 DEF i
    <2> QED BY <2>1, <2>2 DEF Skips
<1>4. PointerSize * (k + 1) <= PointerSize * Skips(i)
    BY <1>3, Sizes
<1>5. PointerSize * (k + 1) = (PointerSize * k) + PointerSize
    BY <1>3, Sizes
<1>6. PointerSize * k \in Nat /\ PointerSize * Skips(i) \in Nat
    BY <1>3, Sizes
<1>7. PointerSize * k < PointerSize * Skips(i)
    BY <1>4, <1>5, <1>6, Sizes
<1> QED BY <1>1, <1>2, <1>3, <1>6, <1>7 DEF i

-----------------------------------------------------------------------------
(* The cache and the device.                                                 *)

LEMMA MaxOf ==
    ASSUME NEW a \in Int, NEW b \in Int
    PROVE  Max({a, b}) = IF a >= b THEN a ELSE b
<1>1. \E m \in {a, b} : \A j \in {a, b} : m >= j
    OBVIOUS
<1>2. Max({a, b}) \in {a, b} /\ Max({a, b}) >= a /\ Max({a, b}) >= b
    BY <1>1 DEF Max
<1> QED BY <1>2

LEMMA PeekBare ==
    ASSUME NEW d, NEW c, NEW b, NEW k, c.data = <<>>, c.off \in Nat
    PROVE  Peek(d, c, b, k) = IF b \in Blocks THEN d[b][k] ELSE Filler
<1>1. Len(c.data) = 0
    OBVIOUS
<1>2. ~(k \in c.off .. c.off + Len(c.data) - 1)
    BY <1>1
<1> QED BY <1>2 DEF Peek

LEMMA PeekElsewhere ==
    ASSUME NEW d, NEW c, NEW b, NEW k, c.block # b
    PROVE  Peek(d, c, b, k) = IF b \in Blocks THEN d[b][k] ELSE Filler
    BY DEF Peek

LEMMA NoCacheIs ==
    NoCache.data = <<>> /\ NoCache.off = 0 /\ NoCache.block = NoBlock /\ 0 \in Nat
    BY DEF NoCache

LEMMA OverlayOf ==
    ASSUME NEW S, NEW old \in Seq(S), NEW s \in Seq(S), NEW k \in Nat, k <= Len(old)
    PROVE  LET o == Overlay(old, k, s)
               m == IF k + Len(s) >= Len(old) THEN k + Len(s) ELSE Len(old)
           IN  /\ o \in Seq(S)
               /\ Len(o) = m
               /\ \A j \in 1 .. m :
                     o[j] = IF j \in k + 1 .. k + Len(s) THEN s[j - k] ELSE old[j]
<1> DEFINE o == Overlay(old, k, s)
           m == IF k + Len(s) >= Len(old) THEN k + Len(s) ELSE Len(old)
<1>1. Len(old) \in Nat /\ Len(s) \in Nat
    OBVIOUS
<1>2. m \in Nat /\ Max({Len(old), k + Len(s)}) = m
    BY <1>1, MaxOf
<1> HIDE DEF m
<1>3. o = [j \in 1 .. m |-> IF j \in k + 1 .. k + Len(s) THEN s[j - k]
                            ELSE IF j <= Len(old) THEN old[j] ELSE Filler]
    BY <1>2 DEF Overlay
<1> HIDE DEF o
<1>4. \A j \in 1 .. m : j \in k + 1 .. k + Len(s) \/ j <= Len(old)
    BY <1>1 DEF m
<1>5. \A j \in 1 .. m : o[j] = IF j \in k + 1 .. k + Len(s) THEN s[j - k] ELSE old[j]
    BY <1>3, <1>4
<1>6. \A j \in 1 .. m : o[j] \in S
    <2> TAKE j \in 1 .. m
    <2>1. CASE j \in k + 1 .. k + Len(s)
        <3>1. j - k \in 1 .. Len(s)
            BY <1>1, <2>1
        <3> QED BY <1>5, <2>1, <3>1
    <2>2. CASE j \notin k + 1 .. k + Len(s)
        <3>1. j \in 1 .. Len(old)
            BY <1>1, <1>4, <2>2
        <3> QED BY <1>5, <2>2, <3>1
    <2> QED BY <2>1, <2>2
<1>7. o \in Seq(S) /\ Len(o) = m
    BY <1>2, <1>3, <1>6
<1> QED BY <1>5, <1>7 DEF o, m

Follows_(c, b, k) ==
    \/ c = NoCache
    \/ c.block = b /\ c.off \in Nat /\ k = c.off + Len(c.data)

LEMMA FilledOf ==
    ASSUME NEW S, NEW c, c.data \in Seq(S), NEW b \in Blocks, NEW k \in Nat, NEW s \in Seq(S),
           Follows_(c, b, k)
    PROVE  LET F == Filled(c, b, k, s)
           IN  /\ F.block = b
               /\ F.off = IF c = NoCache THEN k ELSE c.off
               /\ F.off \in Nat
               /\ F.data \in Seq(S)
               /\ F.off + Len(F.data) = k + Len(s)
               /\ Len(F.data) >= Len(s)
               /\ \A d : \A j \in Nat :
                     Peek(d, F, b, j) = IF j \in k .. k + Len(s) - 1 THEN s[j - k + 1]
                                        ELSE Peek(d, c, b, j)
<1> DEFINE F == Filled(c, b, k, s)
           start == IF c.block = NoBlock THEN k ELSE c.off
           l == k - start
<1>0. Len(c.data) \in Nat /\ Len(s) \in Nat /\ b # NoBlock /\ NoBlock \notin Blocks
    BY CellAssumption
<1>1. /\ start = IF c = NoCache THEN k ELSE c.off
      /\ start \in Nat
      /\ l = Len(c.data)
    <2>1. CASE c = NoCache
        <3>1. c.block = NoBlock /\ c.data = <<>>
            BY <2>1, NoCacheIs
        <3>2. Len(c.data) = 0
            BY <3>1
        <3> QED BY <2>1, <3>1, <3>2
    <2>2. CASE c # NoCache
        <3>1. c.block = b /\ c.off \in Nat /\ k = c.off + Len(c.data)
            BY <2>2 DEF Follows_
        <3> QED BY <1>0, <2>2, <3>1
    <2> QED BY <2>1, <2>2
<1>2. F = [block |-> b, off |-> start, data |-> Overlay(c.data, l, s)]
    BY DEF Filled
<1> HIDE DEF start
<1>3. k = start + Len(c.data)
    BY <1>0, <1>1
<1> HIDE DEF l, F
<1>4. /\ F.data \in Seq(S)
      /\ Len(F.data) = Len(c.data) + Len(s)
      /\ \A j \in 1 .. Len(c.data) + Len(s) :
            F.data[j] = IF j \in Len(c.data) + 1 .. Len(c.data) + Len(s)
                        THEN s[j - Len(c.data)] ELSE c.data[j]
    <2> DEFINE o == Overlay(c.data, l, s)
               m == IF l + Len(s) >= Len(c.data) THEN l + Len(s) ELSE Len(c.data)
    <2>1. F.data = o
        BY <1>2
    <2>2. l \in Nat /\ l <= Len(c.data)
        BY <1>0, <1>1
    <2>3. /\ o \in Seq(S)
          /\ Len(o) = m
          /\ \A j \in 1 .. m : o[j] = IF j \in l + 1 .. l + Len(s) THEN s[j - l] ELSE c.data[j]
        BY <2>2, OverlayOf
    <2>4. m = Len(c.data) + Len(s)
        BY <1>0, <1>1
    <2> HIDE DEF o, m
    <2> QED BY <1>1, <2>1, <2>3, <2>4
<1>5. F.block = b /\ F.off = start
    BY <1>2
<1> DEFINE m == Len(c.data)
           n == Len(s)
           e == Len(F.data)
<1>55. m \in Nat /\ n \in Nat /\ e = m + n /\ k = start + m /\ start \in Nat
    BY <1>0, <1>1, <1>3, <1>4
<1>6. ASSUME NEW d, NEW j \in Nat
      PROVE  Peek(d, F, b, j) = IF j \in k .. k + Len(s) - 1 THEN s[j - k + 1]
                                ELSE Peek(d, c, b, j)
    <2>1. Peek(d, F, b, j) = IF j \in start .. start + Len(F.data) - 1 THEN F.data[j - start + 1]
                             ELSE d[b][j]
        BY <1>5 DEF Peek
    <2>2. Peek(d, c, b, j) = IF j \in start .. start + Len(c.data) - 1 THEN c.data[j - start + 1]
                             ELSE d[b][j]
        <3>1. CASE c = NoCache
            <4>1. c.data = <<>> /\ c.off \in Nat
                BY <3>1, NoCacheIs
            <4>2. Len(c.data) = 0
                BY <4>1
            <4>3. Peek(d, c, b, j) = d[b][j]
                BY <4>1, PeekBare
            <4>4. j \notin start .. start + Len(c.data) - 1
                BY <1>1, <4>2
            <4> QED BY <4>3, <4>4
        <3>2. CASE c # NoCache
            <4>1. c.block = b /\ c.off = start
                BY <1>1, <3>2 DEF Follows_
            <4> QED BY <4>1 DEF Peek
        <3> QED BY <3>1, <3>2
    <2>3. CASE j \in k .. k + n - 1
        <3> DEFINE x == (j - start) + 1
        <3>1. x \in 1 .. m + n /\ x \in m + 1 .. m + n
              /\ x - m = j - k + 1 /\ j \in start .. start + e - 1
              /\ x = j - start + 1
            <4> HIDE DEF m, n, e
            <4> QED BY <1>55, <2>3
        <3> HIDE DEF x
        <3>2. F.data[x] = s[j - k + 1]
            BY <1>4, <3>1
        <3> QED BY <2>1, <2>3, <3>1, <3>2
    <2>4. CASE j \notin k .. k + n - 1
        <3>1. CASE j \in start .. start + m - 1
            <4> DEFINE x == (j - start) + 1
            <4>1. x \in 1 .. m + n /\ x \notin m + 1 .. m + n
                  /\ j \in start .. start + e - 1 /\ x = j - start + 1
                <5> HIDE DEF m, n, e
                <5> QED BY <1>55, <2>4, <3>1
            <4> HIDE DEF x
            <4>2. F.data[x] = c.data[x]
                BY <1>4, <4>1
            <4> QED BY <2>1, <2>2, <2>4, <3>1, <4>1, <4>2
        <3>2. CASE j \notin start .. start + m - 1
            <4>1. j \notin start .. start + e - 1
                <5> HIDE DEF m, n, e
                <5> QED BY <1>55, <2>4, <3>2
            <4> QED BY <2>1, <2>2, <2>4, <3>2, <4>1
        <3> QED BY <3>1, <3>2
    <2> QED BY <2>3, <2>4
<1>7. F.off + Len(F.data) = k + Len(s) /\ Len(F.data) >= Len(s)
    <2>1. start + e = k + n /\ e >= n
        <3> HIDE DEF m, n, e
        <3> QED BY <1>55
    <2> QED BY <1>5, <2>1
<1> QED BY <1>1, <1>4, <1>5, <1>6, <1>7 DEF F

Device(S) == [Blocks -> [0 .. BlockSize - 1 -> S]]

LEMMA AlignedIs ==
    /\ CacheSize \in Nat /\ CacheSize > 0
    /\ \A x \in Nat : x % CacheSize = 0 <=> \E q \in Nat : x = CacheSize * q
    /\ \A x \in Nat, q \in Nat : x % CacheSize = 0 => (x + q * CacheSize) % CacheSize = 0
<1>1. CacheSize \in Nat /\ CacheSize > 0
    BY SizeAssumption
<1>2. ASSUME NEW x \in Nat
      PROVE  x % CacheSize = 0 <=> \E q \in Nat : x = CacheSize * q
    <2>1. ASSUME x % CacheSize = 0 PROVE \E q \in Nat : x = CacheSize * q
        <3> DEFINE q == x \div CacheSize
        <3>1. q \in Nat /\ x = CacheSize * q + (x % CacheSize)
            BY <1>1
        <3> HIDE DEF q
        <3>2. CacheSize * q \in Nat
            BY <1>1, <3>1
        <3>3. x = CacheSize * q
            BY <2>1, <3>1, <3>2
        <3> QED BY <3>1, <3>3
    <2>2. ASSUME NEW q \in Nat, x = CacheSize * q PROVE x % CacheSize = 0
        <3>1. CacheSize * q \in Nat
            BY <1>1
        <3>2. x = (CacheSize * q) + 0
            BY <2>2, <3>1
        <3> QED BY <1>1, <3>2, ModUnique
    <2> QED BY <2>1, <2>2
<1>3. ASSUME NEW x \in Nat, NEW q \in Nat, x % CacheSize = 0
      PROVE  (x + q * CacheSize) % CacheSize = 0
    <2>1. PICK p \in Nat : x = CacheSize * p
        BY <1>2, <1>3
    <2>2. q * CacheSize = CacheSize * q /\ CacheSize * q \in Nat /\ CacheSize * p \in Nat
        BY <1>1
    <2>3. CacheSize * (p + q) = (CacheSize * p) + (CacheSize * q)
        BY <1>1
    <2>4. x + q * CacheSize = CacheSize * (p + q) /\ x + q * CacheSize \in Nat /\ p + q \in Nat
        BY <2>1, <2>2, <2>3
    <2> QED BY <1>2, <2>4
<1> QED BY <1>1, <1>2, <1>3

LEMMA FlushesIs ==
    ASSUME NEW c, Len(c.data) \in Nat
    PROVE  /\ Flushes(c) \in Nat
           /\ Flushes(c) * CacheSize \in Nat
           /\ Flushes(c) * CacheSize <= Len(c.data)
           /\ Len(c.data) - Flushes(c) * CacheSize < CacheSize
<1> DEFINE n == Flushes(c)
           m == Len(c.data)
<1>0. CacheSize \in Nat /\ CacheSize > 0 /\ m \in Nat
    BY AlignedIs
<1>1. n = m \div CacheSize
    BY DEF Flushes
<1> DEFINE r == m % CacheSize
<1> HIDE DEF n, m
<1>2. n \in Nat /\ m = CacheSize * n + r /\ r \in Nat /\ r < CacheSize
    BY <1>0, <1>1
<1> HIDE DEF r
<1>3. n * CacheSize = CacheSize * n /\ CacheSize * n \in Nat
    BY <1>0, <1>2
<1>4. /\ n \in Nat
      /\ n * CacheSize \in Nat
      /\ n * CacheSize <= m
      /\ m - n * CacheSize < CacheSize
    BY <1>0, <1>2, <1>3
<1> QED BY <1>4 DEF n, m

\* The cells of the cache from cell x of it on.
LEMMA RestOf ==
    ASSUME NEW S, NEW b, NEW c \in [block : {b}, off : Nat, data : Seq(S)],
           NEW n \in Nat, n * CacheSize \in Nat, n * CacheSize < Len(c.data)
    PROVE  LET K == Kept(c, n)
           IN  /\ K \in [block : {b}, off : Nat, data : Seq(S)]
               /\ K.block = b
               /\ K.off = c.off + n * CacheSize
               /\ Len(K.data) = Len(c.data) - n * CacheSize
               /\ K.data # <<>>
               /\ K.off + Len(K.data) = c.off + Len(c.data)
               /\ \A j \in 1 .. Len(c.data) - n * CacheSize :
                     K.data[j] = c.data[n * CacheSize + j]
<1> DEFINE x == n * CacheSize
           K == Kept(c, n)
<1>1. c.data \in Seq(S) /\ c.off \in Nat /\ Len(c.data) \in Nat /\ c.block = b
    OBVIOUS
<1>2. K = [c EXCEPT !.off = c.off + x, !.data = SubSeq(c.data, x + 1, Len(c.data))]
    BY <1>1 DEF Kept
<1> HIDE DEF K, x
<1>3. x \in Nat /\ x < Len(c.data)
    BY DEF x
<1> DEFINE t == SubSeq(c.data, x + 1, Len(c.data))
<1>4. K.block = b /\ K.off = c.off + x /\ K.data = t
    BY <1>1, <1>2
<1>5. /\ t \in Seq(S)
      /\ Len(t) = Len(c.data) - x
      /\ \A j \in 1 .. Len(c.data) - x : t[j] = c.data[x + j]
    <2> DEFINE n0 == Len(c.data)
    <2>1. \A i \in x + 1 .. n0 : c.data[i] \in S
        <3>1. \A i \in x + 1 .. n0 : i \in 1 .. n0
            BY <1>1, <1>3
        <3> QED BY <1>1, <3>1
    <2> HIDE DEF n0
    <2>2. x + 1 \in Int /\ n0 \in Int /\ x + 1 <= n0 /\ n0 - (x + 1) + 1 = n0 - x
        BY <1>1, <1>3 DEF n0
    <2>3. /\ SubSeq(c.data, x + 1, n0) \in Seq(S)
          /\ Len(SubSeq(c.data, x + 1, n0)) = n0 - x
          /\ \A i \in 1 .. n0 - x : SubSeq(c.data, x + 1, n0)[i] = c.data[(x + 1) + i - 1]
        BY <2>1, <2>2, SubSeqProperties
    <2>4. \A i \in 1 .. n0 - x : (x + 1) + i - 1 = x + i
        BY <1>3
    <2> QED BY <2>3, <2>4 DEF n0
<1> HIDE DEF t
<1>6. Len(t) > 0 /\ Len(t) \in Nat
    BY <1>1, <1>3, <1>5
<1>7. t # <<>>
    BY <1>6
<1>8. K \in [block : {b}, off : Nat, data : Seq(S)]
    <2>1. c.off + x \in Nat
        BY <1>1, <1>3
    <2> QED BY <1>2, <1>5, <2>1 DEF t
<1>9. K.off + Len(K.data) = c.off + Len(c.data)
    BY <1>1, <1>3, <1>4, <1>5
<1> QED BY <1>4, <1>5, <1>7, <1>8, <1>9 DEF K, x

LEMMA WrittenOf ==
    ASSUME NEW S, NEW d \in Device(S), NEW b \in Blocks,
           NEW c \in [block : {b}, off : Nat, data : Seq(S)], NEW m \in Nat, m <= Len(c.data)
    PROVE  LET w == Written(d, c, m)
           IN  /\ w \in Device(S)
               /\ \A x \in Blocks : x # b => w[x] = d[x]
               /\ \A k \in 0 .. BlockSize - 1 :
                     w[b][k] = IF k \in c.off .. c.off + m - 1 THEN c.data[k - c.off + 1]
                               ELSE d[b][k]
<1> DEFINE w == Written(d, c, m)
           row == [k \in 0 .. BlockSize - 1 |->
                      IF k \in c.off .. c.off + m - 1 THEN c.data[k - c.off + 1] ELSE d[b][k]]
<1>1. /\ c.data \in Seq(S) /\ c.off \in Nat /\ c.block = b /\ Len(c.data) \in Nat
      /\ d[b] \in [0 .. BlockSize - 1 -> S] /\ DOMAIN d[b] = 0 .. BlockSize - 1
    BY DEF Device
<1>2. w = [d EXCEPT ![b] = row]
    BY <1>1 DEF Written
<1>3. row \in [0 .. BlockSize - 1 -> S]
    <2>1. ASSUME NEW k \in 0 .. BlockSize - 1, k \in c.off .. c.off + m - 1
          PROVE  c.data[k - c.off + 1] \in S
        <3>1. k - c.off + 1 \in 1 .. Len(c.data)
            BY <1>1, <2>1
        <3> QED BY <1>1, <3>1
    <2> QED BY <1>1, <2>1
<1>4. \A k \in 0 .. BlockSize - 1 :
         row[k] = IF k \in c.off .. c.off + m - 1 THEN c.data[k - c.off + 1] ELSE d[b][k]
    OBVIOUS
<1> HIDE DEF w, row
<1>5. w \in Device(S) /\ w[b] = row /\ \A x \in Blocks : x # b => w[x] = d[x]
    BY <1>2, <1>3 DEF Device
<1> QED BY <1>4, <1>5 DEF w

\* A full cache is written out: nothing that is seen changes.
LEMMA FlushedOf ==
    ASSUME NEW S, NEW d \in Device(S), NEW b \in Blocks,
           NEW c \in [block : {b}, off : Nat, data : Seq(S)]
    PROVE  LET n  == Flushes(c)
               d2 == Written(d, c, n * CacheSize)
               c2 == Kept(c, n)
           IN  /\ d2 \in Device(S)
               /\ \A x \in Blocks : x # b => d2[x] = d[x]
               /\ \A j \in 0 .. BlockSize - 1 : Peek(d2, c2, b, j) = Peek(d, c, b, j)
               /\ c.off % CacheSize = 0 =>
                     \/ c2 = NoCache /\ (c.off + Len(c.data)) % CacheSize = 0
                     \/ /\ c2 \in [block : {b}, off : Nat, data : Seq(S)]
                        /\ c2.off % CacheSize = 0
                        /\ c2.data # <<>>
                        /\ Len(c2.data) < CacheSize
                        /\ c2.off + Len(c2.data) = c.off + Len(c.data)
<1> DEFINE n  == Flushes(c)
           m  == n * CacheSize
           d2 == Written(d, c, m)
           c2 == Kept(c, n)
<1>1. /\ c.data \in Seq(S) /\ c.off \in Nat /\ c.block = b /\ Len(c.data) \in Nat
      /\ b # NoBlock
    BY CellAssumption
<1>2. n \in Nat /\ m \in Nat /\ m <= Len(c.data) /\ Len(c.data) - m < CacheSize
    BY <1>1, FlushesIs
<1> HIDE DEF n
<1>3. /\ d2 \in Device(S)
      /\ \A x \in Blocks : x # b => d2[x] = d[x]
      /\ \A k \in 0 .. BlockSize - 1 :
            d2[b][k] = IF k \in c.off .. c.off + m - 1 THEN c.data[k - c.off + 1] ELSE d[b][k]
    <2> HIDE DEF m
    <2> QED BY <1>2, WrittenOf
<1>4. c.off % CacheSize = 0 => (c.off + m) % CacheSize = 0
    BY <1>1, <1>2, AlignedIs
<1>5. \A j : Peek(d, c, b, j) = IF j \in c.off .. c.off + Len(c.data) - 1
                                THEN c.data[j - c.off + 1] ELSE d[b][j]
    BY <1>1 DEF Peek
<1>6. CASE m = Len(c.data)
    <2>1. c2 = NoCache
        BY <1>6 DEF Kept
    <2>2. \A j : Peek(d2, c2, b, j) = d2[b][j]
        <3> HIDE DEF d2, c2
        <3> QED BY <2>1, NoCacheIs, PeekBare
    <2> HIDE DEF d2, c2, m
    <2> QED BY <1>3, <1>4, <1>5, <1>6, <2>1, <2>2 DEF d2, c2, m, n
<1>7. CASE m # Len(c.data)
    <2>1. /\ c2 \in [block : {b}, off : Nat, data : Seq(S)]
          /\ c2.off = c.off + m
          /\ Len(c2.data) = Len(c.data) - m
          /\ c2.data # <<>>
          /\ c2.off + Len(c2.data) = c.off + Len(c.data)
          /\ \A j \in 1 .. Len(c.data) - m : c2.data[j] = c.data[m + j]
        BY <1>2, <1>7, RestOf
    <2> HIDE DEF d2, c2, m
    <2>2. c2.block = b
        BY <2>1
    <2>3. ASSUME NEW j \in 0 .. BlockSize - 1 PROVE Peek(d2, c2, b, j) = Peek(d, c, b, j)
        <3> DEFINE l == Len(c.data)
                   o == c.off
        <3>0. m \in Nat /\ l \in Nat /\ m < l /\ o \in Nat
            BY <1>1, <1>2, <1>7
        <3>1. Peek(d2, c2, b, j) = IF j \in o + m .. o + m + (l - m) - 1
                                   THEN c2.data[j - (o + m) + 1] ELSE d2[b][j]
            BY <2>1, <2>2 DEF Peek
        <3>2. CASE j \in o + m .. o + m + (l - m) - 1
            <4> DEFINE i == j - (o + m) + 1
            <4>1. i \in 1 .. l - m /\ m + i = j - o + 1 /\ j \in o .. o + l - 1
                <5> HIDE DEF l, o
                <5> QED BY <3>0, <3>2
            <4> HIDE DEF i
            <4>2. c2.data[i] = c.data[j - c.off + 1]
                BY <2>1, <4>1
            <4> QED BY <1>5, <3>1, <3>2, <4>1, <4>2 DEF i
        <3>3. CASE j \notin o + m .. o + m + (l - m) - 1
            <4>1. j \in o .. o + m - 1 <=> j \in o .. o + l - 1
                <5> HIDE DEF l, o
                <5> QED BY <3>0, <3>3
            <4> QED BY <1>3, <1>5, <3>1, <3>3, <4>1
        <3> QED BY <3>2, <3>3
    <2> QED BY <1>2, <1>3, <1>4, <2>1, <2>3 DEF d2, c2, m, n
<1> QED BY <1>6, <1>7

\* The same blocks are a list of any size that ends in the last one.
LEMMA TipMade ==
    ASSUME NEW device, NEW c, NEW b0, NEW size, IsSize(size), IsList(device, c, b0, size),
           NEW device2, NEW c2, NEW b \in Blocks, NEW size2, IsSize(size2),
           LastNo(size2) = LastNo(size),
           b = b0 \/ b \notin ListBlocks(device, c, b0, size),
           \A x \in Blocks : x \notin {b, b0} =>
              \A k \in Nat : Pointer(device2, c2, x, k) = Pointer(device, c, x, k),
           LastNo(size) > 0 => \A k \in 0 .. Ctz[LastNo(size)] :
              Pointer(device2, c2, b, k) = Pointer(device, c, b0, k)
    PROVE  /\ IsList(device2, c2, b, size2)
           /\ ListBlocks(device2, c2, b, size2) \subseteq ListBlocks(device, c, b0, size) \union {b}
<1> DEFINE n == LastNo(size)
<1>0. n \in Nat
    BY LastIndex
<1>1. PICK B : /\ Lists(device, c, B, n)
               /\ B[n] = b0
               /\ ListBlocks(device, c, b0, size) = {B[i] : i \in 0 .. n}
    BY ListPick
<1> HIDE DEF n
<1>2. /\ \A i \in 0 .. n : B[i] \in Blocks
      /\ \A i, j \in 0 .. n : B[i] = B[j] => i = j
      /\ n > 0 => \A k \in 0 .. Ctz[n] : Pointer(device, c, b0, k) = B[n - Pow2[k]]
    BY <1>0, <1>1 DEF Lists, IsListOf
<1>3. \A i \in 0 .. n - 1 : B[i] # b0 /\ B[i] # b /\ B[i] \in Blocks
    <2> TAKE i \in 0 .. n - 1
    <2>1. i \in 0 .. n /\ n \in 0 .. n /\ i # n
        BY <1>0
    <2>2. B[i] # b0
        BY <1>1, <1>2, <2>1
    <2>3. B[i] \in ListBlocks(device, c, b0, size)
        BY <1>1, <2>1
    <2> QED BY <1>2, <2>1, <2>2, <2>3
<1>4. Lists(device, c, B, n - 1)
    BY <1>0, <1>1, ListPrefix
<1>5. \A i \in 0 .. n - 1 :
         /\ B[i] # b
         /\ \A k \in Nat : Pointer(device2, c2, B[i], k) = Pointer(device, c, B[i], k)
    BY <1>3
<1>6. n > 0 => \A k \in 0 .. Ctz[n] : Pointer(device2, c2, b, k) = B[n - Pow2[k]]
    BY <1>2 DEF n
<1> DEFINE D == [i \in 0 .. n |-> IF i = n THEN b ELSE B[i]]
<1>7. Lists(device2, c2, D, n)
    BY <1>0, <1>4, <1>5, <1>6, NewTip
<1>8. D[n] = b /\ \A i \in 0 .. n : D[i] \in {B[j] : j \in 0 .. n} \union {b}
    BY <1>0
<1> HIDE DEF D
<1>9. /\ IsList(device2, c2, D[n], size2)
      /\ ListBlocks(device2, c2, D[n], size2) = {D[i] : i \in 0 .. n}
    BY <1>7, ListMade DEF n
<1> QED BY <1>1, <1>8, <1>9

\* The first part of a list is a list.
LEMMA ListTo ==
    ASSUME NEW device, NEW c, NEW head, NEW size, IsSize(size), IsList(device, c, head, size),
           NEW size2 \in 1 .. size
    PROVE  /\ IsSize(size2)
           /\ Block(device, c, head, size, LastNo(size2)) \in Blocks
           /\ IsList(device, c, Block(device, c, head, size, LastNo(size2)), size2)
           /\ ListBlocks(device, c, Block(device, c, head, size, LastNo(size2)), size2)
                 \subseteq ListBlocks(device, c, head, size)
<1> DEFINE n == LastNo(size)
           m == LastNo(size2)
<1>0. IsSize(size2)
    BY SizeAssumption DEF IsSize
<1>1. n \in Nat /\ m \in 0 .. n
    <2>1. n \in Nat
        BY LastIndex
    <2>2. size2 - 1 \in 0 .. size - 1
        BY <1>0 DEF IsSize
    <2>3. Place[size2 - 1].index \in 0 .. n
        BY <2>2, LastIndex
    <2> QED BY <2>1, <2>3 DEF LastNo
<1>2. PICK B : /\ Lists(device, c, B, n)
               /\ ListBlocks(device, c, head, size) = {B[i] : i \in 0 .. n}
               /\ \A i \in 0 .. n : Block(device, c, head, size, i) = B[i]
    BY ListPick
<1> HIDE DEF n, m
<1>3. Lists(device, c, B, m)
    BY <1>1, <1>2, ListPrefix
<1>4. Block(device, c, head, size, m) = B[m] /\ B[m] \in Blocks
    BY <1>1, <1>2 DEF Lists, IsListOf
<1>5. /\ IsList(device, c, B[m], size2)
      /\ ListBlocks(device, c, B[m], size2) = {B[i] : i \in 0 .. m}
    BY <1>0, <1>3, ListMade DEF m
<1>6. {B[i] : i \in 0 .. m} \subseteq {B[i] : i \in 0 .. n}
    BY <1>1
<1> QED BY <1>0, <1>2, <1>4, <1>5, <1>6 DEF m

Same(d, d2, b) == \A x \in Blocks : x # b => d2[x] = d[x]

\* A list on the device is not changed by what is written to other blocks.
LEMMA ListFrame ==
    ASSUME NEW d, NEW d2, NEW b, Same(d, d2, b), NEW head, NEW size, IsSize(size),
           IsList(d, NoCache, head, size), b \notin ListBlocks(d, NoCache, head, size)
    PROVE  /\ IsList(d2, NoCache, head, size)
           /\ ListBlocks(d2, NoCache, head, size) = ListBlocks(d, NoCache, head, size)
           /\ \A i \in 0 .. LastNo(size) :
                 Block(d2, NoCache, head, size, i) = Block(d, NoCache, head, size, i)
<1>1. ASSUME NEW x \in ListBlocks(d, NoCache, head, size), NEW k \in Nat
      PROVE  Pointer(d2, NoCache, x, k) = Pointer(d, NoCache, x, k)
    <2>1. x # b
        BY <1>1
    <2>2. x \in Blocks => d2[x] = d[x]
        BY <2>1 DEF Same
    <2> QED BY <2>2, NoCacheIs, PeekBare DEF Pointer
<1> QED BY <1>1, ListSeen

\* A list on the device looks the same through a cache of another block.
LEMMA ListBehind ==
    ASSUME NEW d, NEW c, NEW head, NEW size, IsSize(size), IsList(d, NoCache, head, size),
           c.block \notin ListBlocks(d, NoCache, head, size) \/ (c.data = <<>> /\ c.off \in Nat)
    PROVE  /\ IsList(d, c, head, size)
           /\ ListBlocks(d, c, head, size) = ListBlocks(d, NoCache, head, size)
<1>1. ASSUME NEW x \in ListBlocks(d, NoCache, head, size), NEW k \in Nat
      PROVE  Pointer(d, c, x, k) = Pointer(d, NoCache, x, k)
    <2>1. c.block # x \/ (c.data = <<>> /\ c.off \in Nat)
        BY <1>1
    <2> QED BY <2>1, NoCacheIs, PeekBare, PeekElsewhere DEF Pointer
<1> QED BY <1>1, ListSeen

LEMMA ErasedOf ==
    ASSUME NEW S, Filler \in S, NEW d \in Device(S), NEW b \in Blocks
    PROVE  Erased(d, b) \in Device(S) /\ Same(d, Erased(d, b), b)
<1> DEFINE row == [k \in 0 .. BlockSize - 1 |-> Filler]
           w == Erased(d, b)
<1>1. d[b] \in [0 .. BlockSize - 1 -> S] /\ DOMAIN d[b] = 0 .. BlockSize - 1
    BY DEF Device
<1>2. w = [d EXCEPT ![b] = row]
    BY <1>1 DEF Erased
<1>3. row \in [0 .. BlockSize - 1 -> S]
    OBVIOUS
<1> HIDE DEF w, row
<1>4. w \in Device(S) /\ \A x \in Blocks : x # b => w[x] = d[x]
    BY <1>2, <1>3 DEF Device
<1> QED BY <1>4 DEF Same, w

\* A program fails: what is in the cache is still seen.
LEMMA SpoiltOf ==
    ASSUME NEW S, Filler \in S, NEW d \in Device(S), NEW b \in Blocks,
           NEW c \in [block : {b}, off : Nat, data : Seq(S)],
           NEW j \in Nat \ {0}, (j - 1) * CacheSize < Len(c.data)
    PROVE  LET d2 == Spoilt(d, c, j)
               c2 == IF j = 1 THEN c ELSE Kept(c, j - 1)
           IN  /\ d2 \in Device(S)
               /\ Same(d, d2, b)
               /\ \A k \in 0 .. BlockSize - 1 :
                     k < c.off + Len(c.data) => Peek(d2, c2, b, k) = Peek(d, c, b, k)
               /\ c2 \in [block : {b}, off : Nat, data : Seq(S)]
               /\ c.off % CacheSize = 0 => c2.off % CacheSize = 0
               /\ c2.data # <<>>
               /\ c2.off + Len(c2.data) = c.off + Len(c.data)
<1> DEFINE m  == (j - 1) * CacheSize
           e  == j * CacheSize
           w  == Written(d, c, m)
           d2 == Spoilt(d, c, j)
           c2 == IF j = 1 THEN c ELSE Kept(c, j - 1)
           l  == Len(c.data)
           o  == c.off
<1>1. /\ c.data \in Seq(S) /\ o \in Nat /\ c.block = b /\ l \in Nat /\ b # NoBlock
    BY CellAssumption
<1>2. m \in Nat /\ e \in Nat /\ m <= e /\ m < l
    <2>1. CacheSize \in Nat /\ j - 1 \in Nat
        BY SizeAssumption
    <2>2. e = m + CacheSize
        BY <2>1
    <2>3. m \in Nat
        BY <2>1
    <2>4. m < l
        OBVIOUS
    <2> HIDE DEF m, e, l
    <2> QED BY <2>1, <2>2, <2>3, <2>4
<1>22. c.off % CacheSize = 0 => (c.off + m) % CacheSize = 0
    <2>1. j - 1 \in Nat /\ c.off \in Nat
        BY <1>1
    <2> QED BY <2>1, AlignedIs
<1>222. j = 1 => m = 0
    BY SizeAssumption
<1>3. /\ w \in Device(S)
      /\ \A x \in Blocks : x # b => w[x] = d[x]
      /\ \A k \in 0 .. BlockSize - 1 :
            w[b][k] = IF k \in c.off .. c.off + m - 1 THEN c.data[k - c.off + 1] ELSE d[b][k]
    <2> HIDE DEF m
    <2> QED BY <1>1, <1>2, WrittenOf
<1>4. d2 = [w EXCEPT ![b] = [k \in DOMAIN @ |-> IF k \in o + m .. o + e - 1
                                                THEN Filler ELSE @[k]]]
    BY <1>1 DEF Spoilt
<1> HIDE DEF d2, w
<1> DEFINE row == [k \in 0 .. BlockSize - 1 |-> IF k \in o + m .. o + e - 1
                                                THEN Filler ELSE w[b][k]]
<1>5. w[b] \in [0 .. BlockSize - 1 -> S] /\ DOMAIN w[b] = 0 .. BlockSize - 1
    BY <1>3 DEF Device
<1>6. d2 = [w EXCEPT ![b] = row]
    <2> HIDE DEF o, m, e
    <2> QED BY <1>4, <1>5
<1>7. row \in [0 .. BlockSize - 1 -> S]
    <2> HIDE DEF o, m, e
    <2> QED BY <1>5
<1>8. \A k \in 0 .. BlockSize - 1 :
         row[k] = IF k \in o + m .. o + e - 1 THEN Filler ELSE w[b][k]
    OBVIOUS
<1> HIDE DEF row
<1>9. d2 \in Device(S) /\ d2[b] = row /\ \A x \in Blocks : x # b => d2[x] = d[x]
    BY <1>3, <1>6, <1>7 DEF Device
<1>10. /\ c2 \in [block : {b}, off : Nat, data : Seq(S)]
       /\ c2.block = b
       /\ c2.off = o + m
       /\ Len(c2.data) = l - m
       /\ c2.data # <<>>
       /\ \A i \in 1 .. l - m : c2.data[i] = c.data[m + i]
    <2>1. CASE j = 1
        <3>1. c.data # <<>>
            BY <1>2
        <3> HIDE DEF m
        <3> QED BY <1>1, <1>222, <2>1, <3>1
    <2>2. CASE j # 1
        <3>1. j - 1 \in Nat
            OBVIOUS
        <3>2. LET K == Kept(c, j - 1)
              IN  /\ K \in [block : {b}, off : Nat, data : Seq(S)]
                  /\ K.block = b
                  /\ K.off = c.off + (j - 1) * CacheSize
                  /\ Len(K.data) = Len(c.data) - (j - 1) * CacheSize
                  /\ K.data # <<>>
                  /\ \A i \in 1 .. Len(c.data) - (j - 1) * CacheSize :
                        K.data[i] = c.data[(j - 1) * CacheSize + i]
            BY <1>2, <3>1, RestOf
        <3> QED BY <2>2, <3>2
    <2> QED BY <2>1, <2>2
<1> HIDE DEF c2
<1>11. ASSUME NEW k \in 0 .. BlockSize - 1, k < o + l
       PROVE  Peek(d2, c2, b, k) = Peek(d, c, b, k)
    <2>0. Peek(d, c, b, k) = IF k \in o .. o + l - 1 THEN c.data[k - o + 1] ELSE d[b][k]
        BY <1>1 DEF Peek
    <2>1. Peek(d2, c2, b, k) = IF k \in o + m .. o + m + (l - m) - 1
                               THEN c2.data[k - (o + m) + 1] ELSE d2[b][k]
        BY <1>10 DEF Peek
    <2>2. CASE k \in o + m .. o + m + (l - m) - 1
        <3> DEFINE i == k - (o + m) + 1
        <3>1. i \in 1 .. l - m /\ m + i = k - o + 1 /\ k \in o .. o + l - 1
            <4> HIDE DEF l, o, m, e
            <4> QED BY <1>1, <1>2, <2>2
        <3> HIDE DEF i
        <3>2. c2.data[i] = c.data[k - o + 1]
            BY <1>10, <3>1
        <3> QED BY <2>0, <2>1, <2>2, <3>1, <3>2 DEF i
    <2>3. CASE k \notin o + m .. o + m + (l - m) - 1
        <3>1. k \notin o + m .. o + e - 1 /\ (k \in o .. o + m - 1 <=> k \in o .. o + l - 1)
            <4> HIDE DEF l, o, m, e
            <4> QED BY <1>1, <1>2, <1>11, <2>3
        <3>2. d2[b][k] = w[b][k]
            <4> HIDE DEF o, m, e
            <4> QED BY <1>8, <1>9, <3>1
        <3> QED BY <1>3, <2>0, <2>1, <2>3, <3>1, <3>2
    <2> QED BY <2>2, <2>3
<1>12. c2.off + Len(c2.data) = o + l
    <2> HIDE DEF l, o, m
    <2> QED BY <1>1, <1>2, <1>10
<1> QED BY <1>9, <1>10, <1>11, <1>12, <1>22 DEF Same, d2, c2

\* All of the cache is written out.
LEMMA DrainedOf ==
    ASSUME NEW S, NEW d \in Device(S), NEW b \in Blocks,
           NEW c \in [block : {b}, off : Nat, data : Seq(S)]
    PROVE  LET d2 == Written(d, c, Len(c.data))
           IN  /\ d2 \in Device(S)
               /\ Same(d, d2, b)
               /\ \A k \in 0 .. BlockSize - 1 : Peek(d2, NoCache, b, k) = Peek(d, c, b, k)
<1> DEFINE l == Len(c.data)
           d2 == Written(d, c, l)
<1>1. c.data \in Seq(S) /\ l \in Nat /\ l <= Len(c.data) /\ c.block = b
    OBVIOUS
<1>2. /\ d2 \in Device(S)
      /\ \A x \in Blocks : x # b => d2[x] = d[x]
      /\ \A k \in 0 .. BlockSize - 1 :
            d2[b][k] = IF k \in c.off .. c.off + l - 1 THEN c.data[k - c.off + 1] ELSE d[b][k]
    BY <1>1, WrittenOf
<1>3. \A k : Peek(d, c, b, k) = IF k \in c.off .. c.off + l - 1 THEN c.data[k - c.off + 1]
                                ELSE d[b][k]
    BY <1>1 DEF Peek
<1>4. \A k : Peek(d2, NoCache, b, k) = d2[b][k]
    <2> HIDE DEF d2
    <2> QED BY NoCacheIs, PeekBare
<1> QED BY <1>2, <1>3, <1>4 DEF Same

\* A new block is erased, and starts with the cells h.
Begun(d, b, h) ==
    IF h = <<>> THEN Erased(d, b)
    ELSE LET c == Filled(NoCache, b, 0, h) IN Written(Erased(d, b), c, Flushes(c) * CacheSize)

BegunCache(b, h) ==
    IF h = <<>> THEN NoCache ELSE LET c == Filled(NoCache, b, 0, h) IN Kept(c, Flushes(c))

LEMMA BegunOf ==
    ASSUME NEW S, Filler \in S, NEW d \in Device(S), NEW b \in Blocks, NEW h \in Seq(S),
           Len(h) <= BlockSize
    PROVE  LET d2 == Begun(d, b, h)
               c2 == BegunCache(b, h)
           IN  /\ d2 \in Device(S)
               /\ Same(d, d2, b)
               /\ \A k \in 0 .. Len(h) - 1 : Peek(d2, c2, b, k) = h[k + 1]
               /\ \/ c2 = NoCache /\ Len(h) % CacheSize = 0
                  \/ /\ c2 \in [block : {b}, off : Nat, data : Seq(S)]
                     /\ c2.off % CacheSize = 0
                     /\ c2.data # <<>>
                     /\ Len(c2.data) < CacheSize
                     /\ c2.off + Len(c2.data) = Len(h)
<1> DEFINE e  == Erased(d, b)
           d2 == Begun(d, b, h)
           c2 == BegunCache(b, h)
           c  == Filled(NoCache, b, 0, h)
<1>1. e \in Device(S) /\ Same(d, e, b)
    BY ErasedOf
<1>2. Len(h) \in Nat /\ BlockSize \in Nat /\ 0 % CacheSize = 0
    BY SizeAssumption
<1>3. CASE h = <<>>
    <2>1. d2 = e /\ c2 = NoCache
        BY <1>3 DEF Begun, BegunCache
    <2>2. Len(h) = 0
        BY <1>3
    <2> HIDE DEF d2, c2, e
    <2> QED BY <1>1, <1>2, <2>1, <2>2 DEF d2, c2
<1>4. CASE h # <<>>
    <2> DEFINE n == Flushes(c)
    <2>1. d2 = Written(e, c, n * CacheSize) /\ c2 = Kept(c, n)
        BY <1>4 DEF Begun, BegunCache
    <2>2. NoCache.data \in Seq(S) /\ Follows_(NoCache, b, 0)
        BY NoCacheIs DEF Follows_
    <2>3. /\ c.block = b
          /\ c.off = 0
          /\ c.data \in Seq(S)
          /\ c.off + Len(c.data) = 0 + Len(h)
          /\ \A x : \A j \in Nat :
                     Peek(x, c, b, j) = IF j \in 0 .. 0 + Len(h) - 1 THEN h[j - 0 + 1]
                                        ELSE Peek(x, NoCache, b, j)
        BY <1>2, <2>2, FilledOf
    <2>4. c \in [block : {b}, off : Nat, data : Seq(S)]
        <3>1. c = [block |-> c.block, off |-> c.off, data |-> c.data]
            BY DEF Filled
        <3> HIDE DEF c
        <3> QED BY <2>3, <3>1
    <2> HIDE DEF c, e
    <2>5. LET w == Written(e, c, n * CacheSize)
              K == Kept(c, n)
          IN  /\ w \in Device(S)
              /\ \A x \in Blocks : x # b => w[x] = e[x]
              /\ \A j \in 0 .. BlockSize - 1 : Peek(w, K, b, j) = Peek(e, c, b, j)
              /\ c.off % CacheSize = 0 =>
                     \/ K = NoCache /\ (c.off + Len(c.data)) % CacheSize = 0
                     \/ /\ K \in [block : {b}, off : Nat, data : Seq(S)]
                        /\ K.off % CacheSize = 0
                        /\ K.data # <<>>
                        /\ Len(K.data) < CacheSize
                        /\ K.off + Len(K.data) = c.off + Len(c.data)
        BY <1>1, <2>4, FlushedOf
    <2> HIDE DEF d2, c2, n
    <2>6. \A x \in Blocks : x # b => d2[x] = e[x]
        BY <2>1, <2>5
    <2>7. Same(d, d2, b)
        BY <1>1, <2>6 DEF Same
    <2>8. c.off + Len(c.data) = Len(h) /\ c.off % CacheSize = 0
        BY <1>2, <2>3
    <2>9. \A j \in 0 .. BlockSize - 1 : Peek(d2, c2, b, j) = Peek(e, c, b, j)
        BY <2>1, <2>5
    <2>10. ASSUME NEW k \in 0 .. Len(h) - 1 PROVE Peek(d2, c2, b, k) = h[k + 1]
        <3>1. k \in 0 .. BlockSize - 1 /\ k \in Nat /\ 0 + Len(h) - 1 = Len(h) - 1 /\ k - 0 + 1 = k + 1
            BY <1>2
        <3>2. Peek(e, c, b, k) = h[k + 1]
            BY <2>3, <3>1
        <3> QED BY <2>9, <3>1, <3>2
    <2> QED BY <2>1, <2>5, <2>7, <2>8, <2>10 DEF d2, c2
<1> QED BY <1>3, <1>4

LEMMA MinOf ==
    ASSUME NEW a \in Int, NEW b \in Int
    PROVE  Min({a, b}) = IF a <= b THEN a ELSE b
<1>1. \E m \in {a, b} : \A j \in {a, b} : m <= j
    OBVIOUS
<1>2. Min({a, b}) \in {a, b} /\ Min({a, b}) <= a /\ Min({a, b}) <= b
    BY <1>1 DEF Min
<1> QED BY <1>2

LEMMA MinOfThree ==
    ASSUME NEW a \in Int, NEW b \in Int, NEW c \in Int
    PROVE  /\ Min({a, b, c}) \in {a, b, c}
           /\ Min({a, b, c}) <= a /\ Min({a, b, c}) <= b /\ Min({a, b, c}) <= c
<1>1. \E m \in {a, b, c} : \A j \in {a, b, c} : m <= j
    <2>1. CASE a <= b /\ a <= c
        BY <2>1
    <2>2. CASE b <= a /\ b <= c
        BY <2>2
    <2>3. CASE c <= a /\ c <= b
        BY <2>3
    <2> QED BY <2>1, <2>2, <2>3
<1> QED BY <1>1 DEF Min

-----------------------------------------------------------------------------
(* Stacks of steps.                                                          *)

LEMMA PushOf ==
    ASSUME NEW T, NEW x \in T, NEW t \in Seq(T)
    PROVE  /\ <<x>> \o t \in Seq(T)
           /\ <<x>> \o t # <<>>
           /\ (<<x>> \o t)[1] = x
           /\ Tail(<<x>> \o t) = t
<1> DEFINE p == <<x>> \o t
<1>1. p \in Seq(T) /\ Len(p) = 1 + Len(t) /\ Len(t) \in Nat
    OBVIOUS
<1>2. p[1] = x
    BY <1>1
<1>3. p # <<>>
    BY <1>1
<1>4. Tail(p) \in Seq(T) /\ Len(Tail(p)) = Len(t)
    BY <1>1, <1>3
<1>5. \A i \in 1 .. Len(t) : Tail(p)[i] = t[i]
    <2> TAKE i \in 1 .. Len(t)
    <2>1. Tail(p)[i] = p[i + 1]
        BY <1>1, <1>3, <1>4
    <2>2. p[i + 1] = t[i]
        BY <1>1
    <2> QED BY <2>1, <2>2
<1>6. Tail(p) = t
    <2> HIDE DEF p
    <2> QED BY <1>4, <1>5, SeqEqual
<1> QED BY <1>1, <1>2, <1>3, <1>6

LEMMA PushTwo ==
    ASSUME NEW T, NEW x \in T, NEW y \in T, NEW t \in Seq(T)
    PROVE  /\ <<x, y>> \o t = <<x>> \o (<<y>> \o t)
           /\ (<<x>> \o <<y>>) \o t = <<x>> \o (<<y>> \o t)
           /\ <<x>> \o <<y>> = <<x, y>>
<1>1. <<x>> \o <<y>> = <<x, y>>
    <2> DEFINE p == <<x>> \o <<y>>
               q == <<x, y>>
    <2>1. p \in Seq(T) /\ Len(p) = 2 /\ p[1] = x /\ p[2] = y
        <3>1. <<x>> \in Seq(T) /\ <<y>> \in Seq(T) /\ Len(<<x>>) = 1 /\ Len(<<y>>) = 1
              /\ <<x>>[1] = x /\ <<y>>[1] = y
            OBVIOUS
        <3> DEFINE u == <<x>>
                   v == <<y>>
        <3> HIDE DEF u, v
        <3>2. u \in Seq(T) /\ v \in Seq(T) /\ Len(u) = 1 /\ Len(v) = 1 /\ u[1] = x /\ v[1] = y
            BY <3>1 DEF u, v
        <3>3. u \o v \in Seq(T) /\ Len(u \o v) = 2 /\ (u \o v)[1] = x /\ (u \o v)[2] = y
            <4>1. /\ u \o v \in Seq(T)
                  /\ Len(u \o v) = Len(u) + Len(v)
                  /\ \A i \in 1 .. Len(u) + Len(v) :
                        (u \o v)[i] = IF i <= Len(u) THEN u[i] ELSE v[i - Len(u)]
                BY <3>2, ConcatProperties
            <4>2. 1 \in 1 .. Len(u) + Len(v) /\ 2 \in 1 .. Len(u) + Len(v) /\ 2 - Len(u) = 1
                BY <3>2
            <4>3. (u \o v)[1] = u[1] /\ (u \o v)[2] = v[1]
                BY <3>2, <4>1, <4>2
            <4> QED BY <3>2, <4>1, <4>3
        <3> QED BY <3>3 DEF u, v
    <2>2. q \in Seq(T) /\ Len(q) = 2 /\ q[1] = x /\ q[2] = y
        OBVIOUS
    <2> HIDE DEF p, q
    <2>3. \A i \in 1 .. Len(p) : p[i] = q[i]
        BY <2>1, <2>2
    <2>4. p = q
        BY <2>1, <2>2, <2>3, SeqEqual
    <2> QED BY <2>4 DEF p, q
<1>2. (<<x>> \o <<y>>) \o t = <<x>> \o (<<y>> \o t)
    <2>1. <<x>> \in Seq(T) /\ <<y>> \in Seq(T)
        OBVIOUS
    <2> QED BY <2>1, ConcatAssociative
<1> QED BY <1>1, <1>2

LEMMA PopOf ==
    ASSUME NEW T, NEW s \in Seq(T), s # <<>>
    PROVE  s[1] \in T /\ Tail(s) \in Seq(T) /\ <<>> \o Tail(s) = Tail(s)
    OBVIOUS

\* A step in front of a stack, and of what is left of it.
LEMMA PushOver ==
    ASSUME NEW T, NEW x \in T, NEW s \in Seq(T), s # <<>>
    PROVE  /\ <<s[1]>> \o Tail(s) = s
           /\ (<<x>> \o <<s[1]>>) \o Tail(s) = <<x>> \o s
           /\ <<x, s[1]>> \o Tail(s) = <<x>> \o s
<1> DEFINE y == s[1]
           t == Tail(s)
<1>1. <<y>> \o t = s
    <2>1. y = Head(s)
        OBVIOUS
    <2> QED BY <2>1, HeadTailProperties
<1>2. y \in T /\ t \in Seq(T)
    BY PopOf
<1> HIDE DEF y, t
<1>3. /\ (<<x>> \o <<y>>) \o t = <<x>> \o (<<y>> \o t)
      /\ <<x, y>> \o t = <<x>> \o (<<y>> \o t)
    <2>1. <<x>> \o <<y>> = <<x, y>>
        BY <1>2, PushTwo
    <2>2. <<x>> \in Seq(T) /\ <<y>> \in Seq(T)
        BY <1>2
    <2>3. (<<x>> \o <<y>>) \o t = <<x>> \o (<<y>> \o t)
        BY <1>2, <2>2, ConcatAssociative
    <2> QED BY <2>1, <2>3
<1>4. /\ <<y>> \o t = s
      /\ (<<x>> \o <<y>>) \o t = <<x>> \o s
      /\ <<x, y>> \o t = <<x>> \o s
    BY <1>1, <1>3
<1> QED BY <1>4 DEF y, t

LEMMA PushThree ==
    ASSUME NEW T, NEW x \in T, NEW y \in T, NEW z \in T, NEW t \in Seq(T)
    PROVE  ((<<x>> \o <<y>>) \o <<z>>) \o t = <<x>> \o (<<y>> \o (<<z>> \o t))
<1> DEFINE u == <<x>>
           v == <<y>>
           w == <<z>>
<1>1. u \in Seq(T) /\ v \in Seq(T) /\ w \in Seq(T)
    OBVIOUS
<1> HIDE DEF u, v, w
<1> DEFINE p == u \o v
           q == w \o t
<1>2. p \in Seq(T) /\ q \in Seq(T)
    BY <1>1, ConcatProperties
<1>4. p \o q = u \o (v \o q)
    <2> HIDE DEF q
    <2> QED BY SMTT(60), <1>1, <1>2, ConcatAssociative
<1>3. (p \o w) \o t = p \o q
    <2> HIDE DEF p
    <2> QED BY SMTT(60), <1>1, <1>2, ConcatAssociative
<1> QED BY <1>3, <1>4 DEF u, v, w

\* A cell is no further in its block than in the file.
LEMMA PlaceOff ==
    ASSUME NEW p \in Nat, p <= Reach
    PROVE  Place[p].off <= p
<1> DEFINE q == Laid[p]
           a == Room * q.index
           b == PointerSize * Popc[q.index]
<1>1. /\ Place[p] = q /\ q \in Spot /\ p = (a + b) + q.off
    <2>1. Place[p] = q /\ q \in Spot
        BY PlaceType
    <2>2. At(q, p)
        BY LaidAt
    <2> QED BY <2>1, <2>2 DEF At
<1>2. a \in Nat /\ b \in Nat /\ q.off \in Nat
    <2>1. q.index \in Nat /\ q.off \in Nat
        BY <1>1 DEF Spot
    <2>2. Popc[q.index] \in Nat
        BY <2>1, PopcDef
    <2> QED BY <2>1, <2>2, Sizes
<1> HIDE DEF a, b, q
<1> QED BY <1>1, <1>2

\* What a new block starts with.
LEMMA PointersType ==
    ASSUME NEW device, NEW B, NEW n \in Nat, IsListOf(device, NoCache, B, n)
    PROVE  LET h == NewPointers(device, B[n], n + 1)
           IN  /\ h \in Seq(Blocks \union {Filler})
               /\ Len(h) = PointerSize * Skips(n + 1)
               /\ Len(h) > 0
               /\ h[1] = B[n]
<1> DEFINE h == NewPointers(device, B[n], n + 1)
           m == PointerSize * Skips(n + 1)
           next(x, j) == IF x \in Blocks THEN Pointer(device, NoCache, x, j - 1) ELSE NoBlock
           p[k \in Nat] == IF k = 0 THEN B[n] ELSE next(p[k - 1], k)
           cell(j) == IF (j - 1) % PointerSize = 0 THEN p[(j - 1) \div PointerSize] ELSE Filler
<1>1. /\ PointerSize \in Nat /\ PointerSize > 0 /\ n + 1 \in Nat \ {0} /\ Ctz[n + 1] \in Nat
      /\ Skips(n + 1) = Ctz[n + 1] + 1
    BY SizeAssumption, CtzDef DEF Skips
<1>2. m \in Nat /\ m > 0
    <2>1. m = (PointerSize * Ctz[n + 1]) + PointerSize /\ PointerSize * Ctz[n + 1] \in Nat
        BY <1>1
    <2> QED BY <1>1, <2>1
<1>3. ASSUME NEW k \in 0 .. Ctz[n + 1]
      PROVE  h[(PointerSize * k) + 1] = B[(n + 1) - Pow2[k]] /\ h[(PointerSize * k) + 1] \in Blocks
    <2>1. h[(PointerSize * k) + 1] = B[(n + 1) - Pow2[k]]
        BY PointersAreRight
    <2>2. Pow2[k] <= n + 1 /\ Pow2[k] \in Nat /\ Pow2[k] >= 1
        BY <1>1, CtzPow, PowPositive
    <2>3. (n + 1) - Pow2[k] \in 0 .. n
        BY <2>2
    <2> QED BY <2>1, <2>3 DEF IsListOf
<1>4. h = [j \in 1 .. m |-> cell(j)]
    BY DEF NewPointers
<1> HIDE DEF p, m, h
<1>5. ASSUME NEW j \in 1 .. m PROVE h[j] \in Blocks \union {Filler}
    <2>1. CASE (j - 1) % PointerSize = 0
        <3> DEFINE i == j - 1
                   k == i \div PointerSize
                   N == Ctz[n + 1]
        <3>1. i \in Nat /\ i % PointerSize = 0 /\ i + 1 = j /\ i < m
            BY <1>2, <2>1
        <3> HIDE DEF i
        <3>2. k \in Nat /\ i = PointerSize * k + (i % PointerSize)
            BY <1>1, <3>1
        <3> HIDE DEF k
        <3>3. i = PointerSize * k
            <4>1. PointerSize * k \in Nat
                BY <1>1, <3>2
            <4> QED BY <3>1, <3>2, <4>1
        <3>4. k <= N
            <4>1. N \in Nat /\ m = PointerSize * (N + 1)
                BY <1>1 DEF m
            <4> HIDE DEF N
            <4>2. SUFFICES ASSUME k >= N + 1 PROVE FALSE
                BY <3>2, <4>1
            <4>3. PICK r \in Nat : k = (N + 1) + r
                <5>1. k = (N + 1) + (k - (N + 1)) /\ k - (N + 1) \in Nat
                    BY <3>2, <4>1, <4>2
                <5> QED BY <5>1
            <4>4. PointerSize * k = (PointerSize * (N + 1)) + (PointerSize * r)
                BY <1>1, <4>1, <4>3
            <4>5. PointerSize * r \in Nat /\ PointerSize * (N + 1) \in Nat
                BY <1>1, <4>1
            <4> QED BY <3>1, <3>3, <4>1, <4>4, <4>5
        <3>5. k \in 0 .. Ctz[n + 1]
            BY <1>1, <3>2, <3>4
        <3>6. h[(PointerSize * k) + 1] \in Blocks
            BY <1>3, <3>5
        <3> QED BY <3>1, <3>3, <3>6
    <2>2. CASE (j - 1) % PointerSize # 0
        <3>1. cell(j) = Filler
            BY <2>2
        <3> HIDE DEF cell
        <3> QED BY <1>4, <3>1
    <2> QED BY <2>1, <2>2
<1> HIDE DEF cell
<1>6. h \in Seq(Blocks \union {Filler}) /\ Len(h) = m
    <2> DEFINE T == Blocks \union {Filler}
    <2>1. h \in [1 .. m -> T]
        BY <1>4, <1>5
    <2> HIDE DEF T
    <2>2. h \in Seq(T) /\ Len(h) = m
        BY <1>2, <2>1
    <2> QED BY <2>2 DEF T
<1>7. h[1] = B[n]
    <2>1. 0 \in 0 .. Ctz[n + 1] /\ Pow2[0] = 1 /\ (n + 1) - 1 = n
        BY <1>1, PowDef
    <2>2. (PointerSize * 0) + 1 = 1
        BY <1>1
    <2>3. h[(PointerSize * 0) + 1] = B[(n + 1) - Pow2[0]]
        BY <1>3, <2>1
    <2> QED BY <2>1, <2>2, <2>3
<1> QED BY <1>2, <1>6, <1>7 DEF h, m

\* What an attempt of a flush has programmed.
LEMMA FlushNo ==
    ASSUME NEW c, Len(c.data) \in Nat, NEW j \in 1 .. Flushes(c)
    PROVE  /\ j \in Nat \ {0} /\ j * CacheSize \in Nat /\ j * CacheSize > 0
           /\ j * CacheSize <= Len(c.data)
           /\ (j - 1) * CacheSize < Len(c.data)
<1> DEFINE n == Flushes(c)
           l == Len(c.data)
<1>1. l \in Nat /\ n \in Nat /\ n * CacheSize \in Nat /\ n * CacheSize <= l
    BY FlushesIs
<1>2. j \in Nat /\ j <= n /\ j >= 1
    BY <1>1
<1> HIDE DEF n, l
<1>3. CacheSize \in Nat /\ CacheSize > 0
    BY AlignedIs
<1>4. j * CacheSize \in Nat /\ (j - 1) * CacheSize \in Nat
      /\ j * CacheSize = ((j - 1) * CacheSize) + CacheSize
    <2>1. j - 1 \in Nat /\ j = (j - 1) + 1
        BY <1>2
    <2>2. ((j - 1) + 1) * CacheSize = ((j - 1) * CacheSize) + CacheSize
        BY <1>3, <2>1
    <2> QED BY <1>2, <1>3, <2>1, <2>2
<1>5. n * CacheSize = (j * CacheSize) + ((n - j) * CacheSize) /\ (n - j) * CacheSize \in Nat
    <2>1. n - j \in Nat /\ n = j + (n - j)
        BY <1>1, <1>2
    <2>2. (j + (n - j)) * CacheSize = (j * CacheSize) + ((n - j) * CacheSize)
        BY <1>2, <1>3, <2>1
    <2> QED BY <1>3, <2>1, <2>2
<1>6. j * CacheSize <= l
    BY <1>1, <1>4, <1>5
<1> QED BY <1>2, <1>3, <1>4, <1>6 DEF l

-----------------------------------------------------------------------------
(* The blocks of two lists.                                                  *)

LEMMA ListFacts ==
    ASSUME NEW device, NEW c, NEW head, NEW size, IsSize(size), IsList(device, c, head, size)
    PROVE  /\ LastNo(size) \in Nat
           /\ Block(device, c, head, size, LastNo(size)) = head
           /\ \A i \in 0 .. LastNo(size) :
                 /\ Block(device, c, head, size, i) \in Blocks
                 /\ Block(device, c, head, size, i) \in ListBlocks(device, c, head, size)
                 /\ i > 0 => Block(device, c, head, size, i - 1)
                             = Pointer(device, c, Block(device, c, head, size, i), 0)
           /\ \A i, j \in 0 .. LastNo(size) :
                 Block(device, c, head, size, i) = Block(device, c, head, size, j) => i = j
<1> DEFINE n == LastNo(size)
           at(i) == Block(device, c, head, size, i)
<1>0. n \in Nat
    BY LastIndex
<1>1. PICK B : /\ Lists(device, c, B, n)
               /\ B[n] = head
               /\ ListBlocks(device, c, head, size) = {B[i] : i \in 0 .. n}
               /\ \A i \in 0 .. n : at(i) = B[i]
    BY ListPick
<1> HIDE DEF n, at
<1>2. ASSUME NEW i \in 0 .. n
      PROVE  /\ at(i) \in Blocks /\ at(i) \in ListBlocks(device, c, head, size)
             /\ i > 0 => at(i - 1) = Pointer(device, c, at(i), 0)
    <2>1. at(i) = B[i] /\ B[i] \in Blocks
        BY <1>1 DEF Lists, IsListOf
    <2>2. ASSUME i > 0 PROVE at(i - 1) = Pointer(device, c, at(i), 0)
        <3>1. i - 1 \in 0 .. n /\ i \in Nat
            BY <1>0, <2>2
        <3>2. 0 \in 0 .. Ctz[i] /\ Pow2[0] = 1
            BY <2>2, <3>1, CtzDef, PowDef
        <3>3. Pointer(device, c, B[i], 0) = B[i - Pow2[0]]
            BY <1>1, <2>2, <3>2 DEF Lists, IsListOf
        <3> QED BY <1>1, <2>1, <3>1, <3>2, <3>3
    <2> QED BY <1>1, <2>1, <2>2
<1>3. \A i, j \in 0 .. n : at(i) = at(j) => i = j
    BY <1>1 DEF Lists
<1>4. at(n) = head
    BY <1>0, <1>1
<1> QED BY <1>0, <1>2, <1>3, <1>4 DEF n, at

\* Two lists that have a block in common, and the same first pointers below, have all
\* blocks below in common.
LEMMA BelowSame ==
    ASSUME NEW d, NEW c, NEW h, NEW s, IsSize(s), IsList(d, c, h, s),
           NEW d2, NEW c2, NEW h2, NEW s2, IsSize(s2), IsList(d2, c2, h2, s2),
           NEW m \in Nat, m <= LastNo(s), m <= LastNo(s2),
           Block(d2, c2, h2, s2, m) = Block(d, c, h, s, m),
           \A i \in 0 .. LastNo(s) : i > 0 /\ i <= m =>
              Pointer(d2, c2, Block(d, c, h, s, i), 0) = Pointer(d, c, Block(d, c, h, s, i), 0)
    PROVE  \A i \in Nat : i <= m => Block(d2, c2, h2, s2, i) = Block(d, c, h, s, i)
<1> DEFINE at(i) == Block(d, c, h, s, i)
           to(i) == Block(d2, c2, h2, s2, i)
<1>1. /\ LastNo(s) \in Nat
      /\ \A i \in 0 .. LastNo(s) : i > 0 => at(i - 1) = Pointer(d, c, at(i), 0)
    BY ListFacts
<1>2. /\ LastNo(s2) \in Nat
      /\ \A i \in 0 .. LastNo(s2) : i > 0 => to(i - 1) = Pointer(d2, c2, to(i), 0)
    BY ListFacts
<1>3. \A i \in 0 .. LastNo(s) : i > 0 /\ i <= m => Pointer(d2, c2, at(i), 0) = Pointer(d, c, at(i), 0)
    OBVIOUS
<1>4. to(m) = at(m)
    OBVIOUS
<1> HIDE DEF at, to
<1> DEFINE T == {j \in Nat : j <= m => to(m - j) = at(m - j)}
<1>5. 0 \in T
    BY <1>4
<1>6. ASSUME NEW j \in Nat, j \in T PROVE j + 1 \in T
    <2>1. SUFFICES ASSUME j + 1 <= m PROVE to(m - (j + 1)) = at(m - (j + 1))
        OBVIOUS
    <2> DEFINE i == m - j
    <2>2. i \in Nat /\ i > 0 /\ i <= m /\ m - (j + 1) = i - 1 /\ j <= m
        BY <2>1
    <2>3. to(i) = at(i)
        BY <1>6, <2>2
    <2> HIDE DEF i
    <2>4. i \in 0 .. LastNo(s) /\ i \in 0 .. LastNo(s2)
        BY <1>1, <1>2, <2>2
    <2> QED BY <1>1, <1>2, <1>3, <2>2, <2>3, <2>4
<1>7. \A j \in Nat : j \in T
    <2> HIDE DEF T
    <2> QED BY <1>5, <1>6, Induction
<1>8. ASSUME NEW i \in Nat, i <= m PROVE to(i) = at(i)
    <2>1. m - i \in Nat /\ m - i <= m /\ m - (m - i) = i
        BY <1>8
    <2> QED BY <1>7, <2>1
<1> QED BY <1>8 DEF at, to

-----------------------------------------------------------------------------
(* The cells of two lists.                                                   *)

CellOf(d, c, h, s, p) == Peek(d, c, Block(d, c, h, s, Place[p - 1].index), Place[p - 1].off)

LEMMA PlaceLess ==
    ASSUME NEW p \in Nat, NEW q \in Nat, p < q, q <= Reach, Place[p].index = Place[q].index
    PROVE  Place[p].off < Place[q].off
<1> DEFINE m == q - p
           o == Place[p].off
<1>1. /\ m \in Nat /\ m > 0 /\ p + m = q /\ p <= Reach
      /\ o \in Nat /\ o < BlockSize /\ BlockSize \in Nat /\ Reach \in Nat
      /\ Place[p].index \in Nat
    BY PlaceType, SizeAssumption
<1>2. CASE o + m < BlockSize
    <2>1. Place[p + m].off = o + m
        BY <1>1, <1>2, PlaceRun
    <2> HIDE DEF m, o
    <2>2. Place[q].off = o + m
        BY <1>1, <2>1
    <2>3. o < o + m
        BY <1>1
    <2> QED BY <2>2, <2>3 DEF o
<1>3. CASE ~(o + m < BlockSize)
    <2> DEFINE k == BlockSize - 1 - o
               r == p + k
    <2>1. k \in Nat /\ k < m /\ o + k = BlockSize - 1 /\ o + k < BlockSize
        BY <1>1, <1>3
    <2>2. r \in Nat /\ r + 1 <= q /\ r <= Reach /\ r + 1 <= Reach /\ r + 1 \in Nat
        BY <1>1, <2>1
    <2>3. Place[r].index = Place[p].index /\ Place[r].off = o + k
        BY <1>1, <2>1, <2>2, PlaceRun
    <2> HIDE DEF r, k, o, m
    <2>4. Place[r + 1].index = Place[r].index + 1
        BY <1>1, <2>1, <2>2, <2>3, PlaceNext
    <2>5. Place[r + 1].index <= Place[q].index
        BY <2>2, PlaceGrows
    <2> QED BY <1>1, <2>3, <2>4, <2>5
<1> QED BY <1>2, <1>3

\* A cell lies in a block of the list.
LEMMA CellNo ==
    ASSUME NEW s, IsSize(s), NEW p \in 1 .. s
    PROVE  /\ p - 1 \in Nat /\ p - 1 <= Reach
           /\ Place[p - 1].index \in 0 .. LastNo(s)
           /\ Place[p - 1].off \in 0 .. BlockSize - 1
           /\ LastNo(s) \in Nat
<1>1. p - 1 \in Nat /\ s - 1 \in Nat /\ p - 1 <= s - 1 /\ s - 1 <= Reach /\ Reach \in Nat
      /\ BlockSize \in Nat
    BY SizeAssumption DEF IsSize
<1>2. Place[p - 1].index <= Place[s - 1].index
    BY <1>1, PlaceGrows
<1>3. Place[p - 1].index \in Nat /\ Place[s - 1].index \in Nat
      /\ Place[p - 1].off \in Nat /\ Place[p - 1].off < BlockSize
    BY <1>1, PlaceType
<1> QED BY <1>1, <1>2, <1>3 DEF LastNo

\* The last block is another, or holds more, and below it nothing has changed.
LEMMA CellsKept ==
    ASSUME NEW d, NEW c, NEW h, NEW s, IsSize(s), IsList(d, c, h, s),
           NEW d2, NEW c2, NEW h2, NEW s2, IsSize(s2), IsList(d2, c2, h2, s2),
           LastNo(s2) = LastNo(s),
           h2 = h \/ h2 \notin ListBlocks(d, c, h, s),
           \A x \in ListBlocks(d, c, h, s) : x # h =>
              \A k \in Nat : Peek(d2, c2, x, k) = Peek(d, c, x, k),
           NEW o, LastNo(s) > 0 => o > 0,
           \A k \in Nat : k < o => Peek(d2, c2, h2, k) = Peek(d, c, h, k),
           NEW p, p \in 1 .. s, Place[p - 1].index = LastNo(s) => Place[p - 1].off < o
    PROVE  CellOf(d2, c2, h2, s2, p) = CellOf(d, c, h, s, p)
<1> DEFINE n == LastNo(s)
           at(i) == Block(d, c, h, s, i)
           to(i) == Block(d2, c2, h2, s2, i)
           i_ == Place[p - 1].index
           k_ == Place[p - 1].off
<1>1. /\ n \in Nat /\ at(n) = h
      /\ \A i \in 0 .. n : /\ at(i) \in Blocks
                           /\ at(i) \in ListBlocks(d, c, h, s)
                           /\ i > 0 => at(i - 1) = Pointer(d, c, at(i), 0)
      /\ \A i, j \in 0 .. n : at(i) = at(j) => i = j
    BY ListFacts
<1>2. /\ to(n) = h2
      /\ \A i \in 0 .. n : i > 0 => to(i - 1) = Pointer(d2, c2, to(i), 0)
    BY ListFacts
<1>3. i_ \in 0 .. n /\ k_ \in Nat
    BY CellNo
<1>4. \A i \in 0 .. n : i < n => at(i) # h /\ at(i) \in ListBlocks(d, c, h, s)
    BY <1>1
<1>5. PointerSize * 0 = 0
    BY SizeAssumption
<1>6. CASE i_ = n
    <2>1. to(i_) = h2 /\ at(i_) = h
        BY <1>1, <1>2, <1>6
    <2>2. Peek(d2, c2, h2, k_) = Peek(d, c, h, k_)
        BY <1>3, <1>6
    <2> QED BY <2>1, <2>2 DEF CellOf
<1>7. CASE i_ < n
    <2>1. n > 0 /\ n - 1 \in Nat /\ n \in 0 .. n /\ n - 1 <= n
        BY <1>1, <1>3, <1>7
    <2>2. Pointer(d2, c2, h2, 0) = Pointer(d, c, h, 0)
        BY <1>5, <2>1 DEF Pointer
    <2>3. to(n - 1) = at(n - 1)
        BY <1>1, <1>2, <2>1, <2>2
    <2>4. ASSUME NEW i \in 0 .. n, i > 0, i <= n - 1
          PROVE  Pointer(d2, c2, at(i), 0) = Pointer(d, c, at(i), 0)
        <3>1. at(i) \in ListBlocks(d, c, h, s) /\ at(i) # h
            BY <1>1, <1>4, <2>1, <2>4
        <3>2. PointerSize * 0 \in Nat
            BY <1>5
        <3> HIDE DEF at
        <3> QED BY <3>1, <3>2 DEF Pointer
    <2>5. \A i \in Nat : i <= n - 1 => to(i) = at(i)
        BY <2>1, <2>3, <2>4, BelowSame
    <2>6. to(i_) = at(i_) /\ at(i_) \in ListBlocks(d, c, h, s) /\ at(i_) # h
        BY <1>1, <1>3, <1>4, <1>7, <2>5
    <2> HIDE DEF at, to
    <2>7. Peek(d2, c2, at(i_), k_) = Peek(d, c, at(i_), k_)
        BY <1>3, <2>6
    <2> QED BY <2>6, <2>7 DEF CellOf, at, to
<1> QED BY <1>1, <1>3, <1>6, <1>7

\* A block has been put in front of the list.
LEMMA CellsBehind ==
    ASSUME NEW d, NEW c, NEW h, NEW s, IsSize(s), IsList(d, c, h, s),
           NEW d2, NEW c2, NEW h2, NEW s2, IsSize(s2), IsList(d2, c2, h2, s2),
           LastNo(s2) = LastNo(s) + 1,
           h2 \notin ListBlocks(d, c, h, s), Peek(d2, c2, h2, 0) = h,
           \A x \in ListBlocks(d, c, h, s) : \A k \in Nat : Peek(d2, c2, x, k) = Peek(d, c, x, k),
           NEW p, p \in 1 .. s
    PROVE  CellOf(d2, c2, h2, s2, p) = CellOf(d, c, h, s, p)
<1> DEFINE n == LastNo(s)
           at(i) == Block(d, c, h, s, i)
           to(i) == Block(d2, c2, h2, s2, i)
           i_ == Place[p - 1].index
           k_ == Place[p - 1].off
<1>1. /\ n \in Nat /\ at(n) = h
      /\ \A i \in 0 .. n : /\ at(i) \in Blocks
                           /\ at(i) \in ListBlocks(d, c, h, s)
                           /\ i > 0 => at(i - 1) = Pointer(d, c, at(i), 0)
    BY ListFacts
<1>2. /\ to(n + 1) = h2
      /\ \A i \in 0 .. n + 1 : i > 0 => to(i - 1) = Pointer(d2, c2, to(i), 0)
    BY ListFacts
<1>3. i_ \in 0 .. n /\ k_ \in Nat
    BY CellNo
<1>5. PointerSize * 0 = 0
    BY SizeAssumption
<1>6. to(n) = at(n)
    <2>1. n + 1 \in 0 .. n + 1 /\ n + 1 > 0 /\ (n + 1) - 1 = n
        BY <1>1
    <2>2. to((n + 1) - 1) = Pointer(d2, c2, to(n + 1), 0)
        BY <1>2, <2>1
    <2> QED BY <1>1, <1>2, <1>5, <2>1, <2>2 DEF Pointer
<1>7. ASSUME NEW i \in 0 .. n, NEW k \in Nat
      PROVE  Peek(d2, c2, at(i), k) = Peek(d, c, at(i), k)
    <2>1. at(i) \in ListBlocks(d, c, h, s)
        BY <1>1
    <2> HIDE DEF at
    <2> QED BY <2>1
<1>8. \A i \in 0 .. n : i > 0 /\ i <= n => Pointer(d2, c2, at(i), 0) = Pointer(d, c, at(i), 0)
    BY <1>5, <1>7 DEF Pointer
<1>9. n <= LastNo(s) /\ n <= LastNo(s2)
    BY <1>1
<1>10. \A i \in Nat : i <= n => to(i) = at(i)
    BY <1>1, <1>6, <1>8, <1>9, BelowSame
<1>11. to(i_) = at(i_)
    BY <1>3, <1>10
<1>12. Peek(d2, c2, at(i_), k_) = Peek(d, c, at(i_), k_)
    BY <1>3, <1>7
<1> QED BY <1>11, <1>12 DEF CellOf

\* The first part of the list.
LEMMA CellsTo ==
    ASSUME NEW d, NEW c, NEW h, NEW s, IsSize(s), IsList(d, c, h, s),
           NEW r \in 1 .. s, NEW h2, h2 = Block(d, c, h, s, LastNo(r)),
           NEW p, p \in 1 .. r
    PROVE  CellOf(d, c, h2, r, p) = CellOf(d, c, h, s, p)
<1> DEFINE m == LastNo(r)
           i_ == Place[p - 1].index
<1>1. IsSize(r) /\ IsList(d, c, h2, r)
    BY ListTo
<1>2. m \in Nat /\ i_ \in 0 .. m /\ m <= LastNo(s)
    <2>1. m \in Nat /\ i_ \in 0 .. m
        BY <1>1, CellNo
    <2>2. Place[r - 1].index \in 0 .. LastNo(s)
        BY CellNo
    <2> QED BY <2>1, <2>2 DEF LastNo
<1>3. Block(d, c, h2, r, m) = h2
    BY <1>1, ListFacts
<1>4. \A i \in Nat : i <= m => Block(d, c, h2, r, i) = Block(d, c, h, s, i)
    BY <1>1, <1>2, <1>3, BelowSame
<1>5. Block(d, c, h2, r, i_) = Block(d, c, h, s, i_)
    BY <1>2, <1>4
<1> QED BY <1>5 DEF CellOf

\* The blocks of a list are blocks.
LEMMA ListInBlocks ==
    ASSUME NEW d, NEW c, NEW head, NEW size, IsSize(size), IsList(d, c, head, size)
    PROVE  ListBlocks(d, c, head, size) \subseteq Blocks
<1>1. PICK B : /\ Lists(d, c, B, LastNo(size))
               /\ ListBlocks(d, c, head, size) = {B[i] : i \in 0 .. LastNo(size)}
    BY ListPick
<1> QED BY <1>1 DEF Lists, IsListOf


-----------------------------------------------------------------------------
(* The steps that may be left of a call, by the one that comes first.        *)

Is(s, op) == s # <<>> /\ s[1].op = op
Ends(s, op) == Is(s, op) /\ Tail(s) = <<>>

SizeOf(f) == IF f.writing /\ f.pos >= f.size THEN f.pos ELSE f.size

\* The seek back to where the handle was.
Returning(s) == Is(s, "flush") /\ Ends(Tail(s), "setpos")

\* A hole is filled, or a file made longer.
FillsUp(s) ==
    /\ Is(s, "fill")
    /\ \/ Returning(Tail(s))
       \/ /\ Ends(Tail(s), "put")
          /\ Tail(s)[1].cells # <<>>
          /\ s[1].to + Len(Tail(s)[1].cells) <= MaxSize

Saving(s) == Is(s, "commit") /\ (Tail(s) = <<>> \/ Ends(Tail(s), "close"))

Cutting(s, f) ==
    /\ Is(s, "cut")
    /\ Returning(Tail(s))
    /\ s[1].size < SizeOf(f)
    /\ f.inline \/ s[1].size = 0 \/ Place[s[1].size].index = Place[s[1].size - 1].index

GoingTo(s, f) ==
    /\ Is(s, "setpos")
    /\ FillsUp(Tail(s))
    /\ s[1].pos = SizeOf(f)
    /\ s[1].pos <= Tail(s)[1].to

\* What may follow a flush.
Flushed(s, f) ==
    Ends(s, "get") \/ Ends(s, "setpos") \/ Saving(s) \/ Cutting(s, f) \/ GoingTo(s, f)

Flushing(s, f) == Is(s, "flush") /\ Flushed(Tail(s), f)
Settling(s, f) == Is(s, "settle") /\ Flushed(Tail(s), f)
Draining(s, f) == Is(s, "drain") /\ Settling(Tail(s), f)
Copying(s, f)  == Is(s, "copy") /\ Draining(Tail(s), f)

\* A file is written from its end on, or from a place in it.
Starting(f) == ~f.writing => f.pos <= f.size /\ (f.append => f.pos = f.size)

Filling(s, f) ==
    /\ FillsUp(s)
    /\ f.pos <= s[1].to
    /\ f.reading => Returning(Tail(s))

Putting(s, f) ==
    /\ Is(s, "put")
    /\ s[1].cells # <<>>
    /\ \/ Tail(s) = <<>> /\ f.pos + Len(s[1].cells) <= MaxSize
       \/ FillsUp(Tail(s)) /\ f.pos + Len(s[1].cells) <= Tail(s)[1].to
       \/ /\ Copying(Tail(s), f)
          /\ f.pos + Len(s[1].cells) <= f.size
          /\ f.writing /\ ~f.inline

Extending(s, f) == Is(s, "extend") /\ Putting(Tail(s), f)

\* What a block is relocated for: a write, the end of a flush, or a commit.
Moving(s, f) ==
    /\ Is(s, "relocate")
    /\ \/ /\ Putting(Tail(s), f)
          /\ ~f.reading
          /\ IF f.inline THEN /\ f.off = f.pos
                              /\ Starting(f)
                              /\ f.pos + Len(Tail(s)[1].cells) > InlineMax
             ELSE f.writing
       \/ Draining(Tail(s), f) /\ f.writing /\ ~f.inline /\ f.pos >= f.size
       \/ /\ Is(Tail(s), "flush") /\ Saving(Tail(Tail(s)))
          /\ f.inline /\ ~f.reading /\ ~f.writing /\ f.off = f.pos /\ f.pos = f.size

Legal(s, f) ==
    \/ s = <<>>
    \/ Ends(s, "toobig") /\ ~f.reading
    \/ Ends(s, "close") /\ ~f.writing /\ ~f.reading
    \/ Flushed(s, f) /\ ~f.writing /\ (f.reading => Is(s, "get"))
    \/ Flushing(s, f)
    \/ Settling(s, f) /\ f.writing /\ f.pos >= f.size
    \/ Draining(s, f) /\ f.writing /\ ~f.inline /\ f.pos >= f.size
    \/ Copying(s, f) /\ f.writing /\ ~f.inline
    \/ Filling(s, f) /\ Starting(f)
    \/ Putting(s, f) /\ ~f.reading /\ Starting(f)
    \/ Extending(s, f) /\ ~f.inline /\ ~f.reading /\ Starting(f)
    \/ Moving(s, f)

-----------------------------------------------------------------------------
(* The handle.                                                               *)

Listed(e) == e # Absent /\ e.head # Inline

BlocksOfEntry(d, e) == ListBlocks(d, NoCache, e.head, e.size)
OldBlocks(d, f) == ListBlocks(d, NoCache, f.head, f.size)

EntryOK(d, e) ==
    /\ e # Absent /\ e.head = Inline => e.size <= InlineMax /\ Len(e.data) = e.size
    /\ Listed(e) => IsList(d, NoCache, e.head, e.size)

InlineOK(f) ==
    /\ f.head = Inline
    /\ f.size <= InlineMax
    /\ f.cache.block = Inline /\ f.cache.off = 0 /\ Len(f.cache.data) = CacheSize
    /\ f.writing => f.block = Inline /\ f.pos <= InlineMax

\* The handle reads, or has nothing to do with a block.
RestingOK(f, s) ==
    /\ f.head \in Blocks
    /\ f.cache = NoCache \/ (f.reading /\ f.cache = [NoCache EXCEPT !.block = f.block])
    /\ f.reading /\ (s = <<>> \/ Is(s, "get")) =>
          f.block \in Blocks /\ f.off \in {Place[f.pos].off, BlockSize}

\* The old list is needed until all of it has been copied.
OldOK(d, f) ==
    f.head # Inline /\ (f.writing => f.pos < f.size) => IsList(d, NoCache, f.head, f.size)

\* A file that was inline: it is behind its old end at once.
OutlinedOK(f, s) ==
    f.head = Inline =>
        /\ f.writing
        /\ f.size <= InlineMax
        /\ f.pos < f.size =>
              \/ Is(s, "put") /\ f.off = f.pos /\ f.pos + Len(s[1].cells) >= f.size
              \/ /\ Is(s, "relocate") /\ Is(Tail(s), "put")
                 /\ f.off = f.pos /\ f.pos + Len(Tail(s)[1].cells) >= f.size

\* The new list ends with file.block, which nobody else has.  Its size with the cell that
\* is written next, if that goes to the block.
TipSize(f) == IF f.off < BlockSize THEN f.pos + 1 ELSE f.pos

\* The block is new and holds nothing yet but its header.
Unused(f) ==
    f.off < BlockSize /\ (f.pos = 0 \/ Place[f.pos - 1].index # Place[f.pos].index)

TipOK(d, e, f) ==
    /\ f.block \in Blocks
    /\ TipSize(f) > 0
    /\ IsList(d, f.cache, f.block, TipSize(f))
    /\ IF f.off < BlockSize THEN Place[f.pos].off = f.off
       ELSE Place[f.pos - 1].off = BlockSize - 1
    /\ Listed(e) => f.block \notin BlocksOfEntry(d, e)
    /\ f.head # Inline /\ f.pos < f.size => f.block \notin OldBlocks(d, f)

UnusedOK(f, s) == f.pos > 0 /\ Unused(f) => Is(s, "put")

\* What the cache holds of the block: its last cells, fewer than fill the cache; when a
\* program has failed, some more.
CacheOK(f, s) ==
    \/ f.cache = NoCache /\ (f.off % CacheSize = 0 \/ Is(s, "settle"))
    \/ /\ f.cache.block = f.block
       /\ f.cache.off % CacheSize = 0
       /\ f.cache.data # <<>>
       /\ f.cache.off + Len(f.cache.data) <= BlockSize
       /\ IF Is(s, "relocate") /\ Is(Tail(s), "put")
          THEN f.cache.off + Len(f.cache.data) >= f.off
          ELSE Len(f.cache.data) < CacheSize /\ f.cache.off + Len(f.cache.data) = f.off
               /\ ~Is(s, "settle")

\* What lfs_ctz_extend is called with: the list up to the position, and a size at which
\* that list ends at the same place of a block.
ExtendOK(d, f, x) ==
    /\ f.pos = 0 <=> x.size = 0
    /\ f.writing => f.off = BlockSize /\ x.head = f.block
    /\ f.pos > 0 =>
          /\ x.head \in Blocks
          /\ Place[x.size - 1].off = Place[f.pos - 1].off
          /\ Place[f.pos - 1].off = BlockSize - 1 => x.size = f.pos
          /\ ~f.writing =>
                x.head = Block(d, NoCache, f.head, f.size, Place[f.pos - 1].index)

HandleOK(d, e, f, s) ==
    /\ f.reading => ~f.writing
    /\ f.append /\ f.writing => f.pos >= f.size
    /\ ~f.dirty => e # Absent /\ f.head = e.head /\ f.size = e.size
    /\ f.inline => InlineOK(f)
    /\ ~f.inline => OldOK(d, f) /\ OutlinedOK(f, s)
    /\ ~f.inline /\ ~f.writing => RestingOK(f, s)
    /\ ~f.inline /\ f.writing => TipOK(d, e, f) /\ UnusedOK(f, s) /\ CacheOK(f, s)
    /\ Is(s, "extend") => ExtendOK(d, f, s[1])

IInv ==
    /\ TypeOK
    /\ EntryOK(disk, entry)
    /\ file = Closed => todo = <<>>
    /\ file # Closed => Legal(todo, file) /\ HandleOK(disk, entry, file, todo)

-----------------------------------------------------------------------------
(* The invariant while the file is open.                                     *)

Sound(d, e, f, s) ==
    /\ d \in Device(Cell)
    /\ e \in Entries \union {Absent}
    /\ f \in Handles
    /\ s \in Seq(CallSteps)
    /\ EntryOK(d, e)
    /\ Legal(s, f)
    /\ HandleOK(d, e, f, s)

-----------------------------------------------------------------------------
(* Types and steps.                                                          *)

LEMMA Bounds ==
    /\ BlockSize \in Nat /\ BlockSize > 0
    /\ InlineMax \in Nat /\ InlineMax <= CacheSize /\ InlineMax < BlockSize
    /\ CacheSize \in Nat /\ CacheSize > 0
    /\ MaxSize \in Nat /\ MaxSize <= Reach /\ Reach \in Nat
    /\ MaxOps \in Nat
    /\ Inline \notin Blocks /\ Inline # NoBlock /\ NoBlock \notin Blocks
    /\ Filler \in Cell /\ Zero \in Cell
    /\ NoCache \in Caches
<1>1. NoCache.block = NoBlock /\ NoCache.off = 0 /\ NoCache.data = <<>>
    BY NoCacheIs
<1>2. <<>> \in Seq(Cell)
    OBVIOUS
<1>3. NoCache \in Caches
    BY <1>2 DEF NoCache, Caches
<1> QED BY <1>3, SizeAssumption, BoundAssumption, CellAssumption DEF Cell

LEMMA HandleType ==
    ASSUME NEW f \in Handles
    PROVE  /\ f.append \in BOOLEAN /\ f.inline \in BOOLEAN /\ f.reading \in BOOLEAN
           /\ f.writing \in BOOLEAN /\ f.dirty \in BOOLEAN /\ f.erred \in BOOLEAN
           /\ f.pos \in Nat /\ f.pos <= MaxSize /\ f.size \in Nat /\ f.size <= MaxSize
           /\ f.off \in Nat /\ f.off <= BlockSize
           /\ f.block \in Blocks \union {NoBlock, Inline}
           /\ f.head \in Blocks \union {Inline}
           /\ f.cache \in Caches
           /\ f.cache.block \in Blocks \union {NoBlock, Inline}
           /\ f.cache.off \in Nat /\ f.cache.data \in Seq(Cell)
    BY Bounds DEF Handles, Caches

LEMMA EntryType ==
    ASSUME NEW e \in Entries
    PROVE  /\ e.head \in Blocks \union {Inline} /\ e.size \in Nat /\ e.size <= MaxSize
           /\ e.data \in Seq(Cell)
    BY Bounds DEF Entries

LEMMA StepType ==
    ASSUME NEW x \in CallSteps
    PROVE  /\ x.op = "put" => x.cells \in Seq(Cell) /\ x = [op |-> "put", cells |-> x.cells]
           /\ x.op = "fill" => x.to \in Nat /\ x.to <= MaxSize
           /\ x.op \in {"settle", "setpos"} => x.pos \in Nat /\ x.pos <= MaxSize
           /\ x.op = "cut" => x.size \in Nat /\ x.size <= MaxSize
           /\ x.op = "get" => /\ x.n \in Nat /\ x.cells \in Seq(Cell)
                              /\ x = [op |-> "get", n |-> x.n, cells |-> x.cells]
           /\ x.op = "extend" => /\ x.head \in Blocks \union {NoBlock, Inline}
                                 /\ x.size \in Nat /\ x.size <= MaxSize
    BY Bounds DEF CallSteps

LEMMA StepMade ==
    /\ \A op \in {"toobig", "flush", "relocate", "copy", "drain", "commit", "close"} :
          [op |-> op] \in CallSteps
    /\ \A c \in Seq(Cell) : [op |-> "put", cells |-> c] \in CallSteps
    /\ \A p \in 0 .. MaxSize :
          /\ [op |-> "fill", to |-> p] \in CallSteps
          /\ [op |-> "settle", pos |-> p] \in CallSteps
          /\ [op |-> "setpos", pos |-> p] \in CallSteps
          /\ [op |-> "cut", size |-> p] \in CallSteps
    /\ \A n \in Nat, c \in Seq(Cell) : [op |-> "get", n |-> n, cells |-> c] \in CallSteps
    /\ \A h \in Blocks \union {NoBlock, Inline}, p \in 0 .. MaxSize :
          [op |-> "extend", head |-> h, size |-> p] \in CallSteps
    BY DEF CallSteps

\* A step in front of others.
LEMMA Pushed ==
    ASSUME NEW x \in CallSteps, NEW t \in Seq(CallSteps)
    PROVE  /\ <<x>> \o t \in Seq(CallSteps) /\ <<x>> \o t # <<>>
           /\ (<<x>> \o t)[1] = x /\ Tail(<<x>> \o t) = t
           /\ \A op : Is(<<x>> \o t, op) <=> op = x.op
    BY Zenon, PushOf DEF Is

LEMMA Popped ==
    ASSUME NEW s \in Seq(CallSteps), NEW op, Is(s, op)
    PROVE  /\ s # <<>> /\ s[1] \in CallSteps /\ s[1].op = op /\ Tail(s) \in Seq(CallSteps)
           /\ <<>> \o Tail(s) = Tail(s)
           /\ <<s[1]>> \o Tail(s) = s
<1>1. s # <<>> /\ s[1].op = op
    BY DEF Is
<1>2. s[1] \in CallSteps /\ Tail(s) \in Seq(CallSteps) /\ <<>> \o Tail(s) = Tail(s)
    BY <1>1, PopOf
<1>3. <<s[1]>> \o Tail(s) = s
    <2>1. s[1] = Head(s)
        BY <1>1
    <2> QED BY <1>1, <2>1, HeadTailProperties
<1> QED BY <1>1, <1>2, <1>3

\* What is left of a call, by its first step.
LEMMA LegalOf ==
    ASSUME NEW s, NEW f, Legal(s, f)
    PROVE  /\ Is(s, "toobig") => Tail(s) = <<>> /\ ~f.reading
           /\ Is(s, "close") => Tail(s) = <<>> /\ ~f.writing /\ ~f.reading
           /\ Is(s, "get") => Tail(s) = <<>> /\ ~f.writing
           /\ Is(s, "setpos") => /\ Tail(s) = <<>> \/ GoingTo(s, f)
                                 /\ ~f.writing /\ ~f.reading
           /\ Is(s, "commit") => Saving(s) /\ ~f.writing /\ ~f.reading
           /\ Is(s, "cut") => Cutting(s, f) /\ ~f.writing /\ ~f.reading
           /\ Is(s, "flush") => Flushing(s, f)
           /\ Is(s, "settle") => Settling(s, f) /\ f.writing /\ f.pos >= f.size
           /\ Is(s, "drain") => Draining(s, f) /\ f.writing /\ ~f.inline /\ f.pos >= f.size
           /\ Is(s, "copy") => Copying(s, f) /\ f.writing /\ ~f.inline
           /\ Is(s, "fill") => Filling(s, f) /\ Starting(f)
           /\ Is(s, "put") => Putting(s, f) /\ ~f.reading /\ Starting(f)
           /\ Is(s, "extend") => Extending(s, f) /\ ~f.inline /\ ~f.reading /\ Starting(f)
           /\ Is(s, "relocate") => Moving(s, f)
    BY Zenon DEF Legal, Is, Ends, Flushed, Saving, Cutting, GoingTo, Flushing, Settling, Draining,
           Copying, Filling, FillsUp, Putting, Extending, Moving

\* Whether steps are legal depends on little of the handle.
LEMMA FlushedFrame ==
    ASSUME NEW f, NEW f2, SizeOf(f2) = SizeOf(f), f2.inline = f.inline
    PROVE  \A s : /\ Flushed(s, f2) <=> Flushed(s, f)
                  /\ Flushing(s, f2) <=> Flushing(s, f)
                  /\ Settling(s, f2) <=> Settling(s, f)
                  /\ Draining(s, f2) <=> Draining(s, f)
                  /\ Copying(s, f2) <=> Copying(s, f)
<1>1. \A s : Flushed(s, f2) <=> Flushed(s, f)
    BY DEF Flushed, Cutting, GoingTo
<1> QED BY <1>1 DEF Flushing, Settling, Draining, Copying

-----------------------------------------------------------------------------
(* What is written to one block leaves the lists of the others alone.        *)

LEMMA SizeIs ==
    ASSUME NEW p \in Nat, p <= MaxSize + 1
    PROVE  p = 0 \/ IsSize(p)
    BY Bounds DEF IsSize

LEMMA Frame ==
    ASSUME NEW d, NEW d2, NEW b, Same(d, d2, b), NEW head, NEW size \in Nat, size <= MaxSize,
           IsList(d, NoCache, head, size), b \notin ListBlocks(d, NoCache, head, size)
    PROVE  /\ IsList(d2, NoCache, head, size)
           /\ ListBlocks(d2, NoCache, head, size) = ListBlocks(d, NoCache, head, size)
           /\ \A p \in 1 .. size : Block(d2, NoCache, head, size, Place[p - 1].index)
                                   = Block(d, NoCache, head, size, Place[p - 1].index)
<1>1. CASE size = 0
    BY <1>1 DEF IsList, ListBlocks
<1>2. CASE size # 0
    <2>1. IsSize(size)
        BY <1>2, SizeIs, Bounds
    <2>2. /\ IsList(d2, NoCache, head, size)
          /\ ListBlocks(d2, NoCache, head, size) = ListBlocks(d, NoCache, head, size)
          /\ \A i \in 0 .. LastNo(size) :
                Block(d2, NoCache, head, size, i) = Block(d, NoCache, head, size, i)
        BY <2>1, ListFrame
    <2>3. \A p \in 1 .. size : Place[p - 1].index \in 0 .. LastNo(size)
        <3> TAKE p \in 1 .. size
        <3>1. p - 1 \in 0 .. size - 1
            OBVIOUS
        <3> QED BY <2>1, <3>1, LastIndex
    <2> QED BY <2>2, <2>3
<1> QED BY <1>1, <1>2

LEMMA EntryFrame ==
    ASSUME NEW d, NEW d2, NEW b, Same(d, d2, b), NEW e \in Entries \union {Absent},
           EntryOK(d, e), Listed(e) => b \notin BlocksOfEntry(d, e)
    PROVE  /\ EntryOK(d2, e)
           /\ Listed(e) => BlocksOfEntry(d2, e) = BlocksOfEntry(d, e)
<1>1. CASE Listed(e)
    <2>1. e \in Entries
        BY <1>1 DEF Listed
    <2>2. e.size \in Nat /\ e.size <= MaxSize
        BY <2>1, EntryType
    <2>3. IsList(d, NoCache, e.head, e.size) /\ b \notin ListBlocks(d, NoCache, e.head, e.size)
        BY <1>1 DEF EntryOK, BlocksOfEntry
    <2>4. /\ IsList(d2, NoCache, e.head, e.size)
          /\ ListBlocks(d2, NoCache, e.head, e.size) = ListBlocks(d, NoCache, e.head, e.size)
        BY <2>2, <2>3, Frame
    <2> QED BY <2>4 DEF EntryOK, BlocksOfEntry
<1>2. CASE ~Listed(e)
    BY <1>2 DEF EntryOK
<1> QED BY <1>1, <1>2

\* The handle still needs the list it had.
NeedsOld(f) == f.head # Inline /\ (f.writing => f.pos < f.size)

LEMMA OldFrame ==
    ASSUME NEW d, NEW d2, NEW b, Same(d, d2, b), NEW f \in Handles, OldOK(d, f),
           NeedsOld(f) => b \notin OldBlocks(d, f)
    PROVE  /\ OldOK(d2, f)
           /\ NeedsOld(f) =>
                 /\ OldBlocks(d2, f) = OldBlocks(d, f)
                 /\ \A p \in 1 .. f.size : Block(d2, NoCache, f.head, f.size, Place[p - 1].index)
                                           = Block(d, NoCache, f.head, f.size, Place[p - 1].index)
<1>1. CASE NeedsOld(f)
    <2>1. f.size \in Nat /\ f.size <= MaxSize
        BY HandleType
    <2>2. IsList(d, NoCache, f.head, f.size) /\ b \notin ListBlocks(d, NoCache, f.head, f.size)
        BY <1>1 DEF OldOK, OldBlocks, NeedsOld
    <2>3. /\ IsList(d2, NoCache, f.head, f.size)
          /\ ListBlocks(d2, NoCache, f.head, f.size) = ListBlocks(d, NoCache, f.head, f.size)
          /\ \A p \in 1 .. f.size : Block(d2, NoCache, f.head, f.size, Place[p - 1].index)
                                    = Block(d, NoCache, f.head, f.size, Place[p - 1].index)
        BY <2>1, <2>2, Frame
    <2> QED BY <2>3 DEF OldOK, OldBlocks
<1>2. CASE ~NeedsOld(f)
    BY <1>2 DEF OldOK, NeedsOld
<1> QED BY <1>1, <1>2

\* A list of one block.
LEMMA ListOne ==
    ASSUME NEW d, NEW c, NEW b \in Blocks, NEW size, IsSize(size), LastNo(size) = 0
    PROVE  IsList(d, c, b, size) /\ ListBlocks(d, c, b, size) = {b}
<1> DEFINE B == [i \in 0 .. 0 |-> b]
<1>1. B[0] = b /\ \A i \in 0 .. 0 : i = 0 /\ B[i] = b
    OBVIOUS
<1> HIDE DEF B
<1>2. Lists(d, c, B, 0)
    BY <1>1 DEF Lists, IsListOf
<1>3. /\ IsList(d, c, B[0], size)
      /\ ListBlocks(d, c, B[0], size) = {B[i] : i \in 0 .. 0}
    BY <1>2, ListMade
<1>4. {B[i] : i \in 0 .. 0} = {b}
    BY <1>1
<1> QED BY <1>1, <1>3, <1>4

-----------------------------------------------------------------------------
(* The new list.                                                             *)

\* Its size, and the cell before which its header ends.
LEMMA TipFacts ==
    ASSUME NEW d, NEW e, NEW f \in Handles, TipOK(d, e, f)
    PROVE  /\ IsSize(TipSize(f))
           /\ TipSize(f) \in {f.pos, f.pos + 1}
           /\ LastNo(TipSize(f)) \in Nat
           /\ f.pos = 0 => LastNo(TipSize(f)) = 0 /\ f.off = 0
           /\ f.pos > 0 /\ ~Unused(f) => LastNo(f.pos) = LastNo(TipSize(f))
           /\ LastNo(TipSize(f)) > 0 => \A k \in 0 .. Ctz[LastNo(TipSize(f))] :
                 k \in Nat /\ PointerSize * k \in Nat /\ PointerSize * k < f.off
<1> DEFINE t == TipSize(f)
<1>1. t \in {f.pos, f.pos + 1} /\ t \in Nat /\ t > 0 /\ t <= MaxSize + 1
    BY HandleType, Bounds DEF TipSize, TipOK
<1>2. IsSize(t)
    BY <1>1, SizeIs
<1>3. LastNo(t) \in Nat
    BY <1>2, LastIndex
<1>4. ASSUME f.pos = 0 PROVE LastNo(t) = 0 /\ f.off = 0
    <2>1. t = 1 /\ f.off < BlockSize
        BY <1>1, <1>4 DEF TipSize
    <2>2. Place[0] = [index |-> 0, off |-> 0]
        BY Bounds, PlaceFirst
    <2> QED BY <1>4, <2>1, <2>2 DEF LastNo, TipOK
<1>5. ASSUME f.pos > 0, ~Unused(f) PROVE LastNo(f.pos) = LastNo(t)
    <2>1. CASE f.off < BlockSize
        BY <1>5, <2>1, HandleType DEF TipSize, Unused, LastNo
    <2>2. CASE ~(f.off < BlockSize)
        BY <2>2 DEF TipSize
    <2> QED BY <2>1, <2>2
<1>6. ASSUME LastNo(t) > 0, NEW k \in 0 .. Ctz[LastNo(t)]
      PROVE  k \in Nat /\ PointerSize * k \in Nat /\ PointerSize * k < f.off
    <2> DEFINE p == t - 1
    <2>1. p \in Nat /\ p <= Reach /\ LastNo(t) = Place[p].index
        BY <1>1, <1>2 DEF IsSize, LastNo
    <2>2. Place[p].off <= f.off /\ Place[p].off \in Nat
        <3>1. CASE f.off < BlockSize
            BY <2>1, <3>1, HandleType, PlaceType DEF TipOK, TipSize
        <3>2. CASE ~(f.off < BlockSize)
            BY <2>1, <3>2, HandleType, PlaceType, Bounds DEF TipOK, TipSize
        <3> QED BY <3>1, <3>2
    <2> HIDE DEF p
    <2>3. k \in Nat /\ PointerSize * k \in Nat /\ PointerSize * k < Place[p].off
        BY <1>3, <1>6, <2>1, PointerPlace
    <2> QED BY <2>2, <2>3, HandleType
<1> QED BY <1>1, <1>2, <1>3, <1>4, <1>5, <1>6

\* Whose cells the cache holds.
LEMMA CacheFacts ==
    ASSUME NEW d, NEW e, NEW f \in Handles, NEW s, TipOK(d, e, f), CacheOK(f, s)
    PROVE  \/ f.cache = NoCache
           \/ /\ f.cache.block = f.block
              /\ f.cache \in [block : {f.block}, off : Nat, data : Seq(Cell)]
<1>1. f.cache = NoCache \/ f.cache.block = f.block
    BY DEF CacheOK
<1>2. f.cache \in Caches
    BY HandleType
<1>3. f.cache.block = f.block => f.cache \in [block : {f.block}, off : Nat, data : Seq(Cell)]
    BY <1>2 DEF Caches
<1> QED BY <1>1, <1>3

-----------------------------------------------------------------------------
(* Which blocks lfs_alloc may return.                                        *)

LEMMA HandleOpen ==
    ASSUME NEW f \in Handles
    PROVE  f # Closed
    BY SentinelAssumption

LEMMA SoundHandle ==
    ASSUME NEW d, NEW e, NEW f, NEW s, Sound(d, e, f, s)
    PROVE  /\ f.inline => InlineOK(f)
           /\ ~f.inline => OldOK(d, f) /\ OutlinedOK(f, s)
           /\ ~f.inline /\ ~f.writing => RestingOK(f, s)
           /\ ~f.inline /\ f.writing => TipOK(d, e, f) /\ UnusedOK(f, s) /\ CacheOK(f, s)
           /\ Is(s, "extend") => ExtendOK(d, f, s[1])
           /\ f.reading => ~f.writing
           /\ ~f.dirty => e # Absent /\ f.head = e.head /\ f.size = e.size
           /\ f.append /\ f.writing => f.pos >= f.size
    BY DEF Sound, HandleOK

\* The old list is not in the cache.
LEMMA OldBehind ==
    ASSUME NEW d, NEW e, NEW f, NEW s, Sound(d, e, f, s), ~f.inline, NeedsOld(f), f.size > 0
    PROVE  /\ IsSize(f.size)
           /\ IsList(d, f.cache, f.head, f.size)
           /\ ListBlocks(d, f.cache, f.head, f.size) = OldBlocks(d, f)
<1>1. f \in Handles /\ f.size \in Nat /\ f.size <= MaxSize
    BY HandleType DEF Sound
<1>2. IsSize(f.size)
    BY <1>1, SizeIs, Bounds
<1>3. IsList(d, NoCache, f.head, f.size)
    BY SoundHandle DEF OldOK, NeedsOld
<1>4. CASE f.writing
    <2>1. TipOK(d, e, f) /\ CacheOK(f, s)
        BY <1>4, SoundHandle
    <2>2. f.block \notin ListBlocks(d, NoCache, f.head, f.size)
        BY <1>4, <2>1 DEF TipOK, OldBlocks, NeedsOld
    <2>3. f.cache = NoCache \/ f.cache.block = f.block
        BY <2>1 DEF CacheOK
    <2>4. CASE f.cache = NoCache
        BY <1>2, <1>3, <2>4 DEF OldBlocks
    <2>5. CASE f.cache.block = f.block
        BY <1>2, <1>3, <2>2, <2>5, ListBehind DEF OldBlocks
    <2> QED BY <1>2, <2>3, <2>4, <2>5
<1>5. CASE ~f.writing
    <2>1. f.cache = NoCache \/ f.cache = [NoCache EXCEPT !.block = f.block]
        BY Zenon, <1>5, SoundHandle DEF RestingOK
    <2>2. f.cache.data = <<>> /\ f.cache.off = 0
        BY <2>1, NoCacheIs DEF NoCache
    <2> HIDE DEF NoCache
    <2> QED BY <1>2, <1>3, <2>2, ListBehind, NoCacheIs DEF OldBlocks
<1> QED BY <1>4, <1>5

\* A traversal reaches the blocks of the committed file.
LEMMA EntryVisited ==
    ASSUME entry \in Entries \union {Absent}, EntryOK(disk, entry), Listed(entry)
    PROVE  BlocksOfEntry(disk, entry) \subseteq OfEntry
<1>1. entry \in Entries /\ entry # Absent
    BY DEF Listed
<1>2. entry.size \in Nat /\ entry.size <= MaxSize
    BY <1>1, EntryType
<1>3. CASE entry.size = 0
    BY <1>3 DEF BlocksOfEntry, ListBlocks
<1>4. CASE entry.size # 0
    <2>1. IsSize(entry.size)
        BY <1>2, <1>4, SizeIs, Bounds
    <2>2. IsList(disk, NoCache, entry.head, entry.size)
        BY DEF EntryOK
    <2> QED BY <1>1, <2>1, <2>2, TraverseVisitsAll DEF OfEntry, BlocksOfEntry
<1> QED BY <1>3, <1>4

LEMMA VisitedOf ==
    ASSUME Sound(disk, entry, file, todo)
    PROVE  /\ Listed(entry) => BlocksOfEntry(disk, entry) \subseteq Visited
           /\ ~file.inline /\ NeedsOld(file) => OldBlocks(disk, file) \subseteq Visited
           /\ ~file.inline /\ file.writing /\ file.pos > 0 =>
                 ListBlocks(disk, file.cache, file.block, file.pos) \subseteq Visited
                 \/ Unused(file)
<1>0. file \in Handles /\ file # Closed /\ entry \in Entries \union {Absent}
    BY HandleOpen DEF Sound
<1>1. Listed(entry) => BlocksOfEntry(disk, entry) \subseteq OfEntry
    BY <1>0, EntryVisited DEF Sound
<1>2. ASSUME ~file.inline, NeedsOld(file) PROVE OldBlocks(disk, file) \subseteq Visited
    <2>1. CASE file.size = 0
        BY <2>1 DEF OldBlocks, ListBlocks
    <2>2. CASE file.size # 0
        <3>0. file.size > 0
            BY <1>0, <2>2, HandleType
        <3>1. /\ IsSize(file.size)
              /\ IsList(disk, file.cache, file.head, file.size)
              /\ ListBlocks(disk, file.cache, file.head, file.size) = OldBlocks(disk, file)
            BY <1>2, <3>0, OldBehind
        <3>2. CASE file.dirty
            <4>1. CtzTraverse(disk, file.cache, file.head, file.size) = OldBlocks(disk, file)
                BY <3>1, TraverseVisitsAll
            <4>2. CtzTraverse(disk, file.cache, file.head, file.size) \subseteq OfHandle
                BY <1>0, <1>2, <3>2 DEF OfHandle
            <4> QED BY <4>1, <4>2 DEF Visited
        <3>3. CASE ~file.dirty
            <4>1. entry # Absent /\ file.head = entry.head /\ file.size = entry.size
                BY <3>3, SoundHandle
            <4>2. Listed(entry) /\ OldBlocks(disk, file) = BlocksOfEntry(disk, entry)
                BY <1>2, <4>1 DEF Listed, NeedsOld, OldBlocks, BlocksOfEntry
            <4> QED BY <1>1, <4>2 DEF Visited
        <3> QED BY <3>2, <3>3
    <2> QED BY <2>1, <2>2
<1>3. ASSUME ~file.inline, file.writing, file.pos > 0, ~Unused(file)
      PROVE  ListBlocks(disk, file.cache, file.block, file.pos) \subseteq Visited
    <2>1. TipOK(disk, entry, file)
        BY <1>3, SoundHandle
    <2>2. IsSize(TipSize(file)) /\ LastNo(file.pos) = LastNo(TipSize(file))
        BY <1>0, <1>3, <2>1, TipFacts
    <2>3. IsSize(file.pos)
        BY <1>0, <1>3, SizeIs, HandleType, Bounds
    <2>4. file.block \in Blocks /\ IsList(disk, file.cache, file.block, TipSize(file))
        BY <2>1 DEF TipOK
    <2>5. IsList(disk, file.cache, file.block, file.pos)
        BY <2>2, <2>3, <2>4, TipMade
    <2>6. CtzTraverse(disk, file.cache, file.block, file.pos)
          = ListBlocks(disk, file.cache, file.block, file.pos)
        BY <2>3, <2>5, TraverseVisitsAll
    <2>7. CtzTraverse(disk, file.cache, file.block, file.pos) \subseteq OfHandle
        BY <1>0, <1>3 DEF OfHandle
    <2> QED BY <2>6, <2>7 DEF Visited
<1> QED BY <1>1, <1>2, <1>3 DEF Visited

\* A block that is free is in no list.
LEMMA FreshOf ==
    ASSUME Sound(disk, entry, file, todo), NEW b \in Free
    PROVE  /\ b \in Blocks
           /\ Listed(entry) => b \notin BlocksOfEntry(disk, entry)
           /\ ~file.inline /\ NeedsOld(file) => b \notin OldBlocks(disk, file)
           /\ ~file.inline /\ file.writing /\ file.pos > 0 /\ ~Unused(file) =>
                 b \notin ListBlocks(disk, file.cache, file.block, TipSize(file))
<1>1. b \in Blocks /\ b \notin Visited
    BY DEF Free
<1>2. ASSUME ~file.inline, file.writing, file.pos > 0, ~Unused(file)
      PROVE  ListBlocks(disk, file.cache, file.block, TipSize(file))
             \subseteq ListBlocks(disk, file.cache, file.block, file.pos)
    <2>0. file \in Handles
        BY DEF Sound
    <2>1. TipOK(disk, entry, file)
        BY <1>2, SoundHandle
    <2>2. IsSize(TipSize(file)) /\ LastNo(file.pos) = LastNo(TipSize(file))
        BY <2>0, <1>2, <2>1, TipFacts
    <2>3. IsSize(file.pos)
        BY <2>0, <1>2, SizeIs, HandleType, Bounds
    <2> QED BY <2>2, <2>3, <1>2 DEF ListBlocks, LastNo, Block, IsSize
<1> QED BY <1>1, <1>2, VisitedOf

-----------------------------------------------------------------------------
(* The steps that only move on.                                              *)

LEMMA DoingIs ==
    ASSUME NEW op, Doing(op)
    PROVE  Is(todo, op)
    BY DEF Doing, Top, Is

\* The call goes on, or ends, with the same handle.
LEMMA Passed ==
    ASSUME NEW d, NEW e, NEW f, NEW s, Sound(d, e, f, s),
           ~Is(s, "put"), ~Is(s, "settle"),
           Is(s, "relocate") => f.inline \/ ~Is(Tail(s), "put"),
           NEW s2 \in Seq(CallSteps), Legal(s2, f),
           ~Is(s2, "extend"), ~Is(s2, "relocate"), ~Is(s2, "settle"),
           f.reading /\ (s2 = <<>> \/ Is(s2, "get")) => s = <<>> \/ Is(s, "get")
    PROVE  Sound(d, e, f, s2)
<1>1. ~f.inline => OutlinedOK(f, s2)
    BY SoundHandle DEF OutlinedOK
<1>2. ~f.inline /\ ~f.writing => RestingOK(f, s2)
    BY Zenon, SoundHandle DEF RestingOK
<1>3. ~f.inline /\ f.writing => UnusedOK(f, s2) /\ CacheOK(f, s2)
    BY SoundHandle DEF UnusedOK, CacheOK
<1> QED BY <1>1, <1>2, <1>3 DEF Sound, HandleOK

\* The handle neither reads nor writes.
IdleOK(d, e, f) ==
    /\ ~f.dirty => e # Absent /\ f.head = e.head /\ f.size = e.size
    /\ f.inline => InlineOK(f)
    /\ ~f.inline => f.head \in Blocks /\ f.cache = NoCache /\ IsList(d, NoCache, f.head, f.size)

LEMMA IdleHandle ==
    ASSUME NEW d, NEW e, NEW f, NEW s, ~f.writing, ~f.reading, ~Is(s, "extend")
    PROVE  HandleOK(d, e, f, s) <=> IdleOK(d, e, f)
<1>1. Inline \notin Blocks
    BY Bounds
<1> QED BY <1>1 DEF HandleOK, IdleOK, OldOK, OutlinedOK, RestingOK

\* What was read is dropped.
LEMMA DropOf ==
    ASSUME NEW d, NEW e, NEW f, NEW s, Sound(d, e, f, s)
    PROVE  LET g == DropRead(f)
           IN  /\ g \in Handles
               /\ g.append = f.append /\ g.inline = f.inline /\ g.writing = f.writing
               /\ g.dirty = f.dirty /\ g.pos = f.pos /\ g.off = f.off /\ g.size = f.size
               /\ g.head = f.head /\ g.block = f.block
               /\ SizeOf(g) = SizeOf(f)
               /\ ~g.reading
               /\ f.writing => g = f
               /\ ~f.writing => IdleOK(d, e, g)
<1> DEFINE c == IF f.reading /\ ~f.inline THEN NoCache ELSE f.cache
           g == [f EXCEPT !.reading = FALSE, !.cache = c]
<1>1. DropRead(f) = g
    BY DEF DropRead
<1>2. f \in Handles /\ c \in Caches
    BY HandleType, Bounds DEF Sound
<1>3. /\ g \in Handles
      /\ g.append = f.append /\ g.inline = f.inline /\ g.writing = f.writing
      /\ g.dirty = f.dirty /\ g.pos = f.pos /\ g.off = f.off /\ g.size = f.size
      /\ g.head = f.head /\ g.block = f.block
      /\ ~g.reading
      /\ g.cache = c
    <2> HIDE DEF c
    <2> QED BY Zenon, <1>2 DEF Handles
<1>4. f.writing => g = f
    <2>1. f.writing => ~f.reading /\ c = f.cache
        BY SoundHandle
    <2> HIDE DEF c
    <2>2. ASSUME f.writing PROVE f.reading = FALSE
        BY <1>2, <2>1, <2>2, HandleType
    <2> QED BY Zenon, <1>2, <2>1, <2>2 DEF Handles
<1> HIDE DEF g
<1>5. SizeOf(g) = SizeOf(f)
    BY <1>3 DEF SizeOf
<1>6. ASSUME ~f.writing PROVE IdleOK(d, e, g)
    <2>1. ~f.dirty => e # Absent /\ f.head = e.head /\ f.size = e.size
        BY SoundHandle
    <2>2. ASSUME f.inline PROVE InlineOK(g)
        <3>1. InlineOK(f) /\ c = f.cache
            BY <2>2, SoundHandle
        <3> HIDE DEF c
        <3> QED BY <1>3, <3>1, <1>6 DEF InlineOK
    <2>3. ASSUME ~f.inline PROVE f.head \in Blocks /\ c = NoCache /\ IsList(d, NoCache, f.head, f.size)
        <3>1. RestingOK(f, s) /\ OldOK(d, f)
            BY <1>6, <2>3, SoundHandle
        <3> QED BY <1>6, <2>3, <3>1, Bounds DEF RestingOK, OldOK
    <2> HIDE DEF c
    <2> QED BY <1>3, <2>1, <2>2, <2>3 DEF IdleOK
<1> QED BY <1>1, <1>3, <1>4, <1>5, <1>6

\* A handle that neither reads nor writes stays right while no list of it is touched.
LEMMA IdleSound ==
    ASSUME NEW d \in Device(Cell), NEW e \in Entries \union {Absent}, EntryOK(d, e),
           NEW f \in Handles, ~f.writing, ~f.reading, IdleOK(d, e, f),
           NEW s \in Seq(CallSteps), Legal(s, f), ~Is(s, "extend")
    PROVE  Sound(d, e, f, s)
    BY IdleHandle DEF Sound

LEMMA SoundIdle ==
    ASSUME NEW d, NEW e, NEW f, NEW s, Sound(d, e, f, s), ~f.writing, ~f.reading, ~Is(s, "extend")
    PROVE  IdleOK(d, e, f)
    BY IdleHandle DEF Sound

LEMMA TooBigKeeps ==
    ASSUME Sound(disk, entry, file, todo), TooBig
    PROVE  Sound(disk', entry', file', todo')
<1>1. Is(todo, "toobig")
    BY DoingIs DEF TooBig
<1>2. disk' = disk /\ entry' = entry /\ file' = file /\ todo' = <<>>
    BY DEF TooBig, Fails, storage
<1>3. ~file.reading
    BY <1>1, LegalOf DEF Sound
<1>4. <<>> \in Seq(CallSteps) /\ Legal(<<>>, file) /\ \A op : ~Is(<<>>, op)
    BY DEF Legal, Is
<1>5. /\ ~Is(todo, "put") /\ ~Is(todo, "settle") /\ ~Is(todo, "relocate")
    BY <1>1 DEF Is
<1> QED BY Zenon, <1>2, <1>3, <1>4, <1>5, Passed

LEMMA GoneOn ==
    ASSUME NEW op, Is(todo, op), todo \in Seq(CallSteps)
    PROVE  /\ Go(<<>>) => todo' = Tail(todo)
           /\ \A x \in CallSteps : Go(<<x>>) => todo' = <<x>> \o Tail(todo)
           /\ \A x \in CallSteps : Go(<<x>> \o <<Top>>) \/ Go(<<x, Top>>) => todo' = <<x>> \o todo
           /\ Top \in CallSteps /\ Top = todo[1] /\ Top.op = op
           /\ Go(<<Top>>) => todo' = todo
           /\ Tail(todo) \in Seq(CallSteps)
<1>1. /\ Top \in CallSteps /\ Top = todo[1] /\ Top.op = op
      /\ <<Top>> \o Tail(todo) = todo /\ <<>> \o Tail(todo) = Tail(todo)
      /\ Tail(todo) \in Seq(CallSteps)
    BY Popped DEF Top
<1>2. ASSUME NEW x \in CallSteps
      PROVE  /\ (<<x>> \o <<Top>>) \o Tail(todo) = <<x>> \o todo
             /\ <<x, Top>> \o Tail(todo) = <<x>> \o todo
    <2>1. todo # <<>>
        BY DEF Is
    <2> QED BY Zenon, <2>1, PushOver DEF Top
<1> QED BY Zenon, <1>1, <1>2 DEF Go

LEMMA SetPosKeeps ==
    ASSUME Sound(disk, entry, file, todo), SetPos
    PROVE  Sound(disk', entry', file', todo')
<1> DEFINE p == Top.pos
           f2 == [file EXCEPT !.pos = p]
<1>1. Is(todo, "setpos")
    BY DoingIs DEF SetPos
<1>2. /\ disk \in Device(Cell) /\ entry \in Entries \union {Absent} /\ EntryOK(disk, entry)
      /\ file \in Handles /\ todo \in Seq(CallSteps) /\ Legal(todo, file)
    BY DEF Sound
<1>3. disk' = disk /\ entry' = entry /\ file' = f2 /\ todo' = Tail(todo)
    BY <1>1, <1>2, GoneOn DEF SetPos, storage
<1>4. /\ Tail(todo) = <<>> \/ GoingTo(todo, file)
      /\ ~file.writing /\ ~file.reading
    BY <1>1, <1>2, LegalOf
<1>5. Tail(todo) \in Seq(CallSteps) /\ Top \in CallSteps /\ Top = todo[1] /\ Top.op = "setpos"
    BY <1>1, <1>2, GoneOn
<1>6. p \in 0 .. MaxSize
    BY <1>5, StepType
<1>7. /\ f2 \in Handles /\ f2.pos = p /\ f2.size = file.size /\ f2.writing = file.writing
      /\ f2.reading = file.reading /\ f2.inline = file.inline /\ f2.head = file.head
      /\ f2.dirty = file.dirty /\ f2.cache = file.cache
    BY <1>2, <1>6 DEF Handles
<1> HIDE DEF f2, p
<1>8. IdleOK(disk, entry, file)
    BY <1>1, <1>4, SoundIdle DEF Is
<1>9. IdleOK(disk, entry, f2)
    BY <1>4, <1>7, <1>8 DEF IdleOK, InlineOK
<1>10. Legal(Tail(todo), f2) /\ ~Is(Tail(todo), "extend")
    <2>1. CASE Tail(todo) = <<>>
        BY <2>1 DEF Legal, Is
    <2>2. CASE GoingTo(todo, file)
        <3>1. FillsUp(Tail(todo)) /\ p = file.size /\ p <= Tail(todo)[1].to
            BY Zenon, <1>4, <1>5, <2>2 DEF GoingTo, SizeOf, p
        <3>2. Filling(Tail(todo), f2)
            BY Zenon, <1>4, <1>7, <3>1 DEF Filling
        <3>3. Starting(f2)
            <4>1. file.size \in Nat
                BY <1>2, HandleType
            <4> QED BY <1>7, <3>1, <4>1 DEF Starting
        <3> QED BY <3>1, <3>2, <3>3 DEF Legal, FillsUp, Is
    <2> QED BY <1>4, <2>1, <2>2
<1> QED BY Zenon, <1>2, <1>3, <1>4, <1>5, <1>7, <1>9, <1>10, IdleSound

LEMMA CommitKeeps ==
    ASSUME Sound(disk, entry, file, todo), Commit
    PROVE  Sound(disk', entry', file', todo')
<1>1. Is(todo, "commit")
    BY DoingIs DEF Commit
<1>2. /\ disk \in Device(Cell) /\ entry \in Entries \union {Absent} /\ EntryOK(disk, entry)
      /\ file \in Handles /\ todo \in Seq(CallSteps) /\ Legal(todo, file)
    BY DEF Sound
<1>3. disk' = disk /\ todo' = Tail(todo) /\ Tail(todo) \in Seq(CallSteps)
    BY <1>1, <1>2, GoneOn DEF Commit
<1>4. Saving(todo) /\ ~file.writing /\ ~file.reading
    BY <1>1, <1>2, LegalOf
<1>5. IdleOK(disk, entry, file)
    BY <1>1, <1>4, SoundIdle DEF Is
<1>6. \A f : ~f.writing /\ ~f.reading => Legal(Tail(todo), f)
    BY <1>4 DEF Saving, Legal
<1>7. ~Is(Tail(todo), "extend")
    BY <1>4 DEF Saving, Ends, Is
<1>8. CASE ~Commits
    <2>1. entry' = entry /\ file' = file
        BY <1>8 DEF Commit
    <2> QED BY Zenon, <1>2, <1>3, <1>4, <1>5, <1>6, <1>7, <2>1, IdleSound
<1>9. CASE Commits
    <2> DEFINE f2 == [file EXCEPT !.dirty = FALSE]
               e2 == IF file.inline THEN InlineEntry(SubSeq(file.cache.data, 1, file.size))
                     ELSE [head |-> file.head, size |-> file.size, data |-> <<>>]
    <2>1. entry' = e2 /\ file' = f2
        BY <1>9 DEF Commit
    <2>2. /\ f2 \in Handles /\ f2.pos = file.pos /\ f2.size = file.size
          /\ f2.writing = file.writing /\ f2.reading = file.reading /\ f2.inline = file.inline
          /\ f2.head = file.head /\ f2.cache = file.cache
        BY Zenon, <1>2 DEF Handles
    <2>3. /\ e2 \in Entries
          /\ e2.head = file.head /\ e2.size = file.size
          /\ file.inline => e2.size <= InlineMax /\ Len(e2.data) = e2.size
        <3>1. CASE file.inline
            <4> DEFINE t == SubSeq(file.cache.data, 1, file.size)
            <4>1. InlineOK(file)
                BY <1>5, <3>1 DEF IdleOK
            <4>2. /\ file.cache.data \in Seq(Cell) /\ file.size \in Nat
                  /\ file.size <= Len(file.cache.data) /\ Len(file.cache.data) \in Nat
                  /\ file.size <= MaxSize
                BY <1>2, <4>1, HandleType, Bounds DEF InlineOK
            <4>3. t \in Seq(Cell) /\ Len(t) = file.size
                <5>1. CASE file.size = 0
                    BY <4>2, <5>1, SubSeqEmpty
                <5>2. CASE file.size # 0
                    <6>1. \A i \in 1 .. file.size : file.cache.data[i] \in Cell
                        BY <4>2
                    <6>2. 1 \in Int /\ file.size \in Int /\ 1 <= file.size
                          /\ file.size - 1 + 1 = file.size
                        BY <4>2, <5>2
                    <6> QED BY <6>1, <6>2, SubSeqProperties
                <5> QED BY <5>1, <5>2
            <4> HIDE DEF t
            <4>4. e2 = [head |-> Inline, size |-> file.size, data |-> t]
                BY Zenon, <3>1, <4>3 DEF InlineEntry, t
            <4> HIDE DEF e2
            <4>5. file.head = Inline /\ file.size <= InlineMax
                BY <4>1 DEF InlineOK
            <4>6. e2.head = Inline /\ e2.size = file.size /\ e2.data = t
                BY <4>4
            <4>7. e2 \in Entries
                BY <4>2, <4>3, <4>4 DEF Entries
            <4> QED BY <4>3, <4>5, <4>6, <4>7
        <3>2. CASE ~file.inline
            <4>1. file.head \in Blocks \union {Inline} /\ file.size \in 0 .. MaxSize
                  /\ <<>> \in Seq(Cell)
                BY <1>2, HandleType
            <4> QED BY <3>2, <4>1 DEF Entries
        <3> QED BY <3>1, <3>2
    <2> HIDE DEF f2, e2
    <2>4. e2 # Absent
        BY <2>3, SentinelAssumption
    <2>5. EntryOK(disk, e2)
        BY <1>5, <2>3, Bounds DEF EntryOK, Listed, IdleOK, InlineOK
    <2>6. IdleOK(disk, e2, f2)
        BY <1>4, <1>5, <2>2, <2>3, <2>4 DEF IdleOK, InlineOK
    <2>7. Legal(Tail(todo), f2)
        BY <1>4, <1>6, <2>2
    <2> QED BY Zenon, <1>2, <1>3, <1>4, <1>7, <2>1, <2>2, <2>3, <2>5, <2>6, <2>7, IdleSound
<1> QED BY <1>8, <1>9

\* The whole invariant, but for what is taken and counted.
Whole(d, e, f, s) ==
    IF f = Closed
    THEN d \in Device(Cell) /\ e \in Entries \union {Absent} /\ EntryOK(d, e) /\ s = <<>>
    ELSE Sound(d, e, f, s)

LEMMA SoundWhole ==
    ASSUME NEW d, NEW e, NEW f, NEW s, Sound(d, e, f, s)
    PROVE  Whole(d, e, f, s)
    BY HandleOpen DEF Whole, Sound

LEMMA ErredKeeps ==
    ASSUME NEW d, NEW e, NEW f, NEW s, Sound(d, e, f, s), NEW x \in BOOLEAN
    PROVE  Sound(d, e, [f EXCEPT !.erred = x], s)
<1> DEFINE g == [f EXCEPT !.erred = x]
<1>1. f \in Handles
    BY DEF Sound
<1>2. /\ g \in Handles
      /\ g.append = f.append /\ g.inline = f.inline /\ g.reading = f.reading
      /\ g.writing = f.writing /\ g.dirty = f.dirty /\ g.pos = f.pos /\ g.off = f.off
      /\ g.block = f.block /\ g.head = f.head /\ g.size = f.size /\ g.cache = f.cache
    BY <1>1 DEF Handles
<1> HIDE DEF g
<1>3. SizeOf(g) = SizeOf(f) /\ (Starting(g) <=> Starting(f))
    BY <1>2 DEF SizeOf, Starting
<1>4. \A t : /\ Flushed(t, g) <=> Flushed(t, f)
             /\ Flushing(t, g) <=> Flushing(t, f)
             /\ Settling(t, g) <=> Settling(t, f)
             /\ Draining(t, g) <=> Draining(t, f)
             /\ Copying(t, g) <=> Copying(t, f)
    BY <1>2, <1>3, FlushedFrame
<1>5. \A t : /\ Filling(t, g) <=> Filling(t, f)
             /\ Putting(t, g) <=> Putting(t, f)
    BY Zenon, <1>2, <1>4 DEF Filling, Putting
<1>6. \A t : /\ Extending(t, g) <=> Extending(t, f)
             /\ Moving(t, g) <=> Moving(t, f)
    BY Zenon, <1>2, <1>3, <1>4, <1>5 DEF Extending, Moving
<1>7. Legal(s, g)
    BY <1>2, <1>3, <1>4, <1>5, <1>6 DEF Legal, Sound
<1>8. TipSize(g) = TipSize(f) /\ (Unused(g) <=> Unused(f)) /\ OldBlocks(d, g) = OldBlocks(d, f)
    BY <1>2 DEF TipSize, Unused, OldBlocks
<1>9. /\ InlineOK(g) <=> InlineOK(f)
      /\ OldOK(d, g) <=> OldOK(d, f)
      /\ OutlinedOK(g, s) <=> OutlinedOK(f, s)
      /\ RestingOK(g, s) <=> RestingOK(f, s)
      /\ TipOK(d, e, g) <=> TipOK(d, e, f)
      /\ UnusedOK(g, s) <=> UnusedOK(f, s)
      /\ CacheOK(g, s) <=> CacheOK(f, s)
      /\ ExtendOK(d, g, s[1]) <=> ExtendOK(d, f, s[1])
    <2>1. /\ InlineOK(g) <=> InlineOK(f)
          /\ OldOK(d, g) <=> OldOK(d, f)
        BY <1>2 DEF InlineOK, OldOK
    <2>2. OutlinedOK(g, s) <=> OutlinedOK(f, s)
        BY <1>2 DEF OutlinedOK
    <2>3. RestingOK(g, s) <=> RestingOK(f, s)
        BY <1>2 DEF RestingOK
    <2>4. TipOK(d, e, g) <=> TipOK(d, e, f)
        BY <1>2, <1>8 DEF TipOK
    <2>5. UnusedOK(g, s) <=> UnusedOK(f, s)
        BY <1>2, <1>8 DEF UnusedOK
    <2>6. CacheOK(g, s) <=> CacheOK(f, s)
        BY <1>2 DEF CacheOK
    <2>7. ExtendOK(d, g, s[1]) <=> ExtendOK(d, f, s[1])
        BY <1>2 DEF ExtendOK
    <2> QED BY <2>1, <2>2, <2>3, <2>4, <2>5, <2>6, <2>7
<1>10. HandleOK(d, e, g, s)
    BY <1>2, <1>9 DEF HandleOK, Sound
<1> QED BY <1>2, <1>7, <1>10 DEF Sound, g

\* A call that returns an error.
LEMMA FailsKeeps ==
    ASSUME Sound(disk, entry, file, todo),
           disk' = disk, entry' = entry, file' = Erring(file), Fails,
           ~Is(todo, "put"), ~Is(todo, "settle"),
           Is(todo, "relocate") => file.inline \/ ~Is(Tail(todo), "put"),
           file.reading => Is(todo, "get")
    PROVE  Whole(disk', entry', file', todo')
<1>1. todo' = <<>>
    BY DEF Fails
<1>2. <<>> \in Seq(CallSteps) /\ Legal(<<>>, file) /\ \A op : ~Is(<<>>, op)
    BY DEF Legal, Is
<1>3. Sound(disk, entry, file, <<>>)
    BY Zenon, <1>2, Passed
<1>4. CASE file' = Closed
    BY <1>1, <1>3, <1>4 DEF Whole, Sound
<1>5. CASE file' # Closed
    <2> DEFINE x == file.erred \/ Within("put") \/ Within("commit")
    <2>1. file' = [file EXCEPT !.erred = x]
        BY <1>5 DEF Erring
    <2>2. x \in BOOLEAN
        OBVIOUS
    <2> HIDE DEF x
    <2>3. Sound(disk, entry, file', <<>>)
        BY <1>3, <2>1, <2>2, ErredKeeps
    <2> QED BY <1>1, <2>3, SoundWhole
<1> QED BY <1>4, <1>5

LEMMA ClosesKeeps ==
    ASSUME Sound(disk, entry, file, todo), Closes
    PROVE  Whole(disk', entry', file', todo')
<1>1. Is(todo, "close")
    BY DoingIs DEF Closes
<1>2. todo' = Tail(todo)
    BY <1>1, GoneOn DEF Closes, Sound
<1>3. Tail(todo) = <<>>
    BY <1>1, LegalOf DEF Sound
<1> QED BY <1>2, <1>3 DEF Closes, storage, Whole, Sound

LEMMA CommitFullKeeps ==
    ASSUME Risks = {}, Sound(disk, entry, file, todo), CommitFull
    PROVE  Whole(disk', entry', file', todo')
<1>1. Is(todo, "commit")
    BY DoingIs DEF CommitFull
<1>2. /\ disk \in Device(Cell) /\ entry \in Entries \union {Absent} /\ EntryOK(disk, entry)
      /\ file \in Handles /\ todo \in Seq(CallSteps) /\ Legal(todo, file)
    BY DEF Sound
<1>3. disk' = disk /\ entry' = entry
    BY DEF CommitFull, storage
<1>4. Saving(todo) /\ ~file.writing /\ ~file.reading
    BY <1>1, <1>2, LegalOf
<1>5. IdleOK(disk, entry, file)
    BY <1>1, <1>4, SoundIdle DEF Is
<1>6. CASE file.inline
    <2> DEFINE f2 == [file EXCEPT !.off = file.pos]
               m == [op |-> "relocate"]
               l == [op |-> "flush"]
               u == <<l>> \o todo
    <2>1. file' = f2 /\ file.pos = file.size
        BY <1>6 DEF CommitFull
    <2>2. m \in CallSteps /\ l \in CallSteps /\ m.op = "relocate" /\ l.op = "flush"
        BY StepMade
    <2>3. todo' = <<m>> \o u
        <3>1. todo' = ((<<m>> \o <<l>>) \o <<Top>>) \o Tail(todo)
            BY <1>6 DEF CommitFull, Go, Step
        <3>2. Top \in CallSteps /\ Tail(todo) \in Seq(CallSteps) /\ <<Top>> \o Tail(todo) = todo
            BY <1>1, <1>2, Popped DEF Top
        <3> HIDE DEF m, l
        <3>3. ((<<m>> \o <<l>>) \o <<Top>>) \o Tail(todo) = <<m>> \o (<<l>> \o (<<Top>> \o Tail(todo)))
            BY <2>2, <3>2, PushThree
        <3> QED BY <3>1, <3>2, <3>3
    <2> HIDE DEF m, l
    <2>4. u \in Seq(CallSteps) /\ Tail(u) = todo /\ Is(u, "flush")
        BY <1>2, <2>2, Pushed
    <2> HIDE DEF u
    <2>5. /\ todo' \in Seq(CallSteps) /\ Tail(todo') = u /\ Is(todo', "relocate")
          /\ ~Is(todo', "extend")
        BY <2>2, <2>3, <2>4, Pushed
    <2>6. file.pos \in 0 .. BlockSize
        BY <1>2, <1>5, <1>6, <2>1, HandleType, Bounds DEF IdleOK, InlineOK
    <2>7. /\ f2 \in Handles /\ f2.pos = file.pos /\ f2.size = file.size /\ f2.off = file.pos
          /\ f2.writing = file.writing /\ f2.reading = file.reading /\ f2.inline = file.inline
          /\ f2.head = file.head /\ f2.cache = file.cache /\ f2.dirty = file.dirty
        BY <1>2, <2>6 DEF Handles
    <2> HIDE DEF f2
    <2>8. IdleOK(disk, entry, f2)
        BY <1>4, <1>5, <2>7 DEF IdleOK, InlineOK
    <2>9. Moving(todo', f2)
        BY Zenon, <1>4, <1>6, <2>1, <2>4, <2>5, <2>7 DEF Moving
    <2>10. Legal(todo', f2)
        BY <2>9 DEF Legal
    <2>11. Sound(disk, entry, f2, todo')
        BY <1>2, <1>4, <2>5, <2>7, <2>8, <2>10, IdleSound
    <2> QED BY <1>3, <2>1, <2>11, SoundWhole
<1>7. CASE ~file.inline
    <2>1. file' = Erring(file) /\ Fails
        BY <1>7 DEF CommitFull
    <2>2. ~Is(todo, "put") /\ ~Is(todo, "settle") /\ ~Is(todo, "relocate")
        BY <1>1 DEF Is
    <2> QED BY <1>3, <1>4, <2>1, <2>2, FailsKeeps
<1> QED BY <1>6, <1>7

LEMMA NoSpaceKeeps ==
    ASSUME Risks = {}, Sound(disk, entry, file, todo), NoSpace
    PROVE  Whole(disk', entry', file', todo')
<1>1. Is(todo, "extend") \/ Is(todo, "relocate")
    BY DoingIs DEF NoSpace
<1>2. todo \in Seq(CallSteps) /\ Legal(todo, file) /\ file \in Handles
    BY DEF Sound
<1>3. ~Is(todo, "put") /\ ~Is(todo, "settle")
    BY <1>1 DEF Is
<1>4. ~file.reading
    BY <1>1, <1>2, LegalOf, SoundHandle DEF Moving
<1>5. ASSUME Is(todo, "relocate"), Is(Tail(todo), "put") PROVE file.inline
    <2>1. Within("put")
        <3>1. todo # <<>> /\ Tail(todo) # <<>> /\ Tail(todo)[1].op = "put"
            BY <1>5 DEF Is
        <3>2. Len(todo) \in Nat /\ Len(Tail(todo)) = Len(todo) - 1 /\ Tail(todo) \in Seq(CallSteps)
            BY <1>2, <3>1
        <3>3. Len(Tail(todo)) > 0
            BY <3>1, <3>2
        <3>4. Tail(todo)[1] = todo[2] /\ 2 \in DOMAIN todo
            BY <1>2, <3>1, <3>2, <3>3
        <3> QED BY <3>1, <3>4 DEF Within
    <2>2. Doing("relocate")
        BY <1>5 DEF Doing, Top, Is
    <2> QED BY <2>1, <2>2 DEF NoSpace, PartlyPut
<1> QED BY <1>3, <1>4, <1>5, FailsKeeps DEF NoSpace, storage

LEMMA SettleKeeps ==
    ASSUME Sound(disk, entry, file, todo), Settle
    PROVE  Sound(disk', entry', file', todo')
<1> DEFINE p == Top.pos
           f2 == [file EXCEPT !.head = file.block, !.size = file.pos, !.pos = p,
                              !.writing = FALSE, !.dirty = TRUE]
<1>1. Is(todo, "settle")
    BY DoingIs DEF Settle
<1>2. /\ disk \in Device(Cell) /\ entry \in Entries \union {Absent} /\ EntryOK(disk, entry)
      /\ file \in Handles /\ todo \in Seq(CallSteps) /\ Legal(todo, file)
    BY DEF Sound
<1>3. disk' = disk /\ entry' = entry /\ file' = f2 /\ todo' = Tail(todo)
    BY <1>1, <1>2, GoneOn DEF Settle, storage
<1>4. Settling(todo, file) /\ file.writing /\ file.pos >= file.size /\ ~file.reading
    BY <1>1, <1>2, LegalOf, SoundHandle
<1>5. Tail(todo) \in Seq(CallSteps) /\ Top \in CallSteps /\ Top.op = "settle"
    BY <1>1, <1>2, GoneOn
<1>6. p \in 0 .. MaxSize /\ file.pos \in 0 .. MaxSize
    BY <1>2, <1>5, StepType, HandleType
<1>7. file.block \in Blocks \union {Inline}
    BY <1>4, SoundHandle DEF InlineOK, TipOK
<1>8. /\ f2 \in Handles /\ f2.pos = p /\ f2.size = file.pos /\ ~f2.writing
      /\ f2.reading = file.reading /\ f2.inline = file.inline /\ f2.head = file.block
      /\ f2.dirty /\ f2.cache = file.cache
    BY Zenon, <1>2, <1>6, <1>7 DEF Handles
<1> HIDE DEF f2, p
<1>9. SizeOf(f2) = SizeOf(file)
    BY <1>4, <1>8 DEF SizeOf
<1>10. Flushed(Tail(todo), f2)
    BY <1>4, <1>8, <1>9, FlushedFrame DEF Settling
<1>11. Legal(Tail(todo), f2) /\ ~Is(Tail(todo), "extend")
    BY Zenon, <1>4, <1>8, <1>10 DEF Legal, Flushed, Ends, Saving, Cutting, GoingTo, Is
<1>12. ASSUME file.inline PROVE InlineOK(f2)
    <2>1. InlineOK(file)
        BY <1>12, SoundHandle
    <2> QED BY <1>4, <1>8, <2>1 DEF InlineOK
<1>13. ASSUME ~file.inline
       PROVE  /\ file.block \in Blocks /\ file.cache = NoCache
              /\ IsList(disk, NoCache, file.block, file.pos)
    <2>1. TipOK(disk, entry, file) /\ UnusedOK(file, todo) /\ CacheOK(file, todo)
        BY <1>4, <1>13, SoundHandle
    <2>2. file.cache = NoCache
        BY <1>1, <2>1 DEF CacheOK, Is
    <2>3. file.block \in Blocks /\ IsList(disk, NoCache, file.block, TipSize(file))
        BY <2>1, <2>2 DEF TipOK
    <2>4. CASE file.pos = 0
        BY <2>2, <2>3, <2>4 DEF IsList
    <2>5. CASE file.pos # 0
        <3>1. file.pos > 0 /\ file.pos \in Nat
            BY <1>2, <2>5, HandleType
        <3>2. ~Unused(file)
            BY <1>1, <2>1, <3>1 DEF UnusedOK, Is
        <3>3. IsSize(TipSize(file)) /\ LastNo(file.pos) = LastNo(TipSize(file))
            BY <1>2, <2>1, <3>1, <3>2, TipFacts
        <3>4. IsSize(file.pos)
            BY <1>2, <3>1, SizeIs, HandleType, Bounds
        <3>5. IsList(disk, NoCache, file.block, file.pos)
            BY <2>3, <3>3, <3>4, TipMade
        <3> QED BY <2>2, <2>3, <3>5
    <2> QED BY <2>4, <2>5
<1>14. IdleOK(disk, entry, f2)
    BY <1>8, <1>12, <1>13 DEF IdleOK
<1> QED BY Zenon, <1>2, <1>3, <1>4, <1>5, <1>8, <1>11, <1>14, IdleSound

LEMMA FlushKeeps ==
    ASSUME Sound(disk, entry, file, todo), Flush
    PROVE  Sound(disk', entry', file', todo')
<1> DEFINE g == DropRead(file)
<1>1. Is(todo, "flush")
    BY DoingIs DEF Flush
<1>2. /\ disk \in Device(Cell) /\ entry \in Entries \union {Absent} /\ EntryOK(disk, entry)
      /\ file \in Handles /\ todo \in Seq(CallSteps) /\ Legal(todo, file)
    BY DEF Sound
<1>3. disk' = disk /\ entry' = entry
    BY DEF Flush, storage
<1>4. Flushed(Tail(todo), file) /\ Tail(todo) \in Seq(CallSteps)
    BY <1>1, <1>2, LegalOf, GoneOn DEF Flushing
<1>5. /\ g \in Handles
      /\ g.inline = file.inline /\ g.writing = file.writing /\ g.pos = file.pos
      /\ g.size = file.size
      /\ SizeOf(g) = SizeOf(file)
      /\ ~g.reading
      /\ file.writing => g = file
      /\ ~file.writing => IdleOK(disk, entry, g)
    BY DropOf
<1>9. g.pos \in 0 .. MaxSize
    BY <1>2, <1>5, HandleType
<1> DEFINE settle == [op |-> "settle", pos |-> g.pos]
<1>6. CASE ~file.writing
    <2>1. file' = g /\ Go(<<>>)
        BY <1>5, <1>6 DEF Flush
    <2>2. todo' = Tail(todo)
        BY <1>1, <1>2, <2>1, GoneOn
    <2> HIDE DEF g
    <2>3. Flushed(Tail(todo), g)
        BY <1>4, <1>5, FlushedFrame
    <2>4. Legal(Tail(todo), g) /\ ~Is(Tail(todo), "extend")
        BY Zenon, <1>5, <1>6, <2>3 DEF Legal, Flushed, Ends, Saving, Cutting, GoingTo, Is
    <2> QED BY Zenon, <1>2, <1>3, <1>4, <1>5, <1>6, <2>1, <2>2, <2>4, IdleSound
<1>7. CASE file.writing /\ file.inline
    <2> DEFINE m == Max({file.pos, file.size})
               f2 == [file EXCEPT !.pos = m]
    <2>1. file' = f2 /\ Go(<<settle>>)
        BY <1>5, <1>7 DEF Flush
    <2>2. m = IF file.pos >= file.size THEN file.pos ELSE file.size
        BY <1>2, HandleType, MaxOf
    <2> HIDE DEF m, g
    <2>3. settle \in CallSteps /\ settle.op = "settle"
        BY Zenon, <1>9, StepMade
    <2>4. todo' = <<settle>> \o Tail(todo)
        BY <1>1, <1>2, <2>1, <2>3, GoneOn
    <2> HIDE DEF settle
    <2>5. /\ todo' \in Seq(CallSteps) /\ Is(todo', "settle") /\ Tail(todo') = Tail(todo)
          /\ ~Is(todo', "extend")
        BY Zenon, <1>4, <2>3, <2>4, Pushed
    <2>6. m \in 0 .. MaxSize /\ m >= file.size
        BY <1>2, <2>2, HandleType
    <2>7. /\ f2 \in Handles /\ f2.pos = m /\ f2.size = file.size /\ f2.off = file.off
          /\ f2.writing = file.writing /\ f2.reading = file.reading /\ f2.inline = file.inline
          /\ f2.head = file.head /\ f2.cache = file.cache /\ f2.dirty = file.dirty
          /\ f2.block = file.block
        BY <1>2, <2>6 DEF Handles
    <2> HIDE DEF f2
    <2>8. SizeOf(f2) = SizeOf(file)
        BY <1>7, <2>2, <2>6, <2>7, <1>2, HandleType DEF SizeOf
    <2>9. Settling(todo', f2)
        BY Zenon, <1>4, <2>5, <2>7, <2>8, FlushedFrame DEF Settling
    <2>10. Legal(todo', f2)
        BY <1>7, <2>6, <2>7, <2>9 DEF Legal
    <2>11. InlineOK(f2)
        <3>1. InlineOK(file)
            BY <1>7, SoundHandle
        <3> QED BY <1>7, <2>2, <2>7, <3>1 DEF InlineOK
    <2>12. HandleOK(disk, entry, f2, todo')
        BY <1>7, <2>5, <2>6, <2>7, <2>11, SoundHandle DEF HandleOK
    <2> QED BY <1>2, <1>3, <2>1, <2>5, <2>7, <2>10, <2>12 DEF Sound
<1>8. CASE file.writing /\ ~file.inline
    <2> DEFINE c == [op |-> "copy"]
               r == [op |-> "drain"]
               u == <<settle>> \o Tail(todo)
               v == <<r>> \o u
    <2>1. file' = file /\ Go((<<c>> \o <<r>>) \o <<settle>>)
        BY <1>5, <1>8 DEF Flush, Step
    <2> HIDE DEF g
    <2>2. /\ settle \in CallSteps /\ settle.op = "settle" /\ c \in CallSteps /\ c.op = "copy"
          /\ r \in CallSteps /\ r.op = "drain"
        BY Zenon, <1>9, StepMade
    <2>3. todo' = ((<<c>> \o <<r>>) \o <<settle>>) \o Tail(todo)
        BY <2>1 DEF Go
    <2> HIDE DEF settle, c, r
    <2>4. todo' = <<c>> \o v
        BY <1>4, <2>2, <2>3, PushThree
    <2>5. u \in Seq(CallSteps) /\ Is(u, "settle") /\ Tail(u) = Tail(todo)
        BY Zenon, <1>4, <2>2, Pushed
    <2> HIDE DEF u
    <2>6. v \in Seq(CallSteps) /\ Is(v, "drain") /\ Tail(v) = u
        BY <2>2, <2>5, Pushed
    <2> HIDE DEF v
    <2>7. /\ todo' \in Seq(CallSteps) /\ Is(todo', "copy") /\ Tail(todo') = v
          /\ ~Is(todo', "extend") /\ ~Is(todo', "relocate") /\ ~Is(todo', "settle")
          /\ ~Is(todo', "get") /\ todo' # <<>>
        BY <2>2, <2>4, <2>6, Pushed
    <2>8. Copying(todo', file)
        BY Zenon, <1>4, <2>5, <2>6, <2>7 DEF Copying, Draining, Settling
    <2>9. Legal(todo', file)
        BY <1>8, <2>8 DEF Legal
    <2>10. ~Is(todo, "put") /\ ~Is(todo, "settle") /\ ~Is(todo, "relocate")
        BY <1>1 DEF Is
    <2>11. Sound(disk, entry, file, todo')
        BY <2>7, <2>9, <2>10, Passed
    <2> QED BY <1>3, <2>1, <2>11
<1> QED BY <1>6, <1>7, <1>8

LEMMA FillKeeps ==
    ASSUME Sound(disk, entry, file, todo), Fill
    PROVE  Sound(disk', entry', file', todo')
<1>1. Is(todo, "fill")
    BY DoingIs DEF Fill
<1>2. /\ disk \in Device(Cell) /\ entry \in Entries \union {Absent} /\ EntryOK(disk, entry)
      /\ file \in Handles /\ todo \in Seq(CallSteps) /\ Legal(todo, file)
    BY DEF Sound
<1>3. disk' = disk /\ entry' = entry
    BY DEF Fill, storage
<1>4. Filling(todo, file) /\ Starting(file)
    BY <1>1, <1>2, LegalOf
<1>5. ~Is(todo, "put") /\ ~Is(todo, "settle") /\ ~Is(todo, "relocate")
    BY <1>1 DEF Is
<1>6. CASE file.pos < Top.to
    <2> DEFINE g == DropRead(file)
               x == [op |-> "put", cells |-> <<Zero>>]
    <2>1. file' = g /\ Go(<<x>> \o <<Top>>)
        BY <1>6 DEF Fill, PutStep
    <2>2. x \in CallSteps /\ x.op = "put" /\ x.cells = <<Zero>> /\ Len(x.cells) = 1
          /\ x.cells # <<>>
        <3>1. <<Zero>> \in Seq(Cell)
            BY Bounds
        <3> QED BY Zenon, <3>1, StepMade
    <2> HIDE DEF x
    <2>3. todo' = <<x>> \o todo
        BY Zenon, <1>1, <1>2, <2>1, <2>2, GoneOn
    <2>4. /\ todo' \in Seq(CallSteps) /\ Tail(todo') = todo /\ todo'[1] = x
          /\ Is(todo', "put") /\ ~Is(todo', "extend") /\ ~Is(todo', "relocate")
          /\ ~Is(todo', "settle") /\ ~Is(todo', "get") /\ todo' # <<>>
        BY <1>2, <2>2, <2>3, Pushed
    <2>5. /\ g \in Handles /\ g.append = file.append /\ g.writing = file.writing
          /\ g.pos = file.pos /\ g.size = file.size /\ ~g.reading
          /\ file.writing => g = file
          /\ ~file.writing => IdleOK(disk, entry, g)
        BY DropOf
    <2> HIDE DEF g
    <2>6. Top = todo[1] /\ file.pos \in Nat /\ Top.to \in Nat
        BY <1>1, <1>2, GoneOn, HandleType, StepType
    <2>7. Putting(todo', g)
        <3>1. FillsUp(todo) /\ g.pos + Len(todo'[1].cells) <= todo[1].to /\ todo'[1].cells # <<>>
            <4>1. g.pos + 1 <= todo[1].to
                BY <1>6, <2>5, <2>6
            <4> QED BY Zenon, <1>4, <2>2, <2>4, <4>1 DEF Filling
        <3> QED BY Zenon, <2>4, <3>1 DEF Putting
    <2>8. Legal(todo', g)
        BY <1>4, <2>5, <2>7 DEF Legal, Starting
    <2>9. CASE file.writing
        <3>1. Sound(disk, entry, file, todo')
            BY <1>5, <2>4, <2>5, <2>8, <2>9, Passed
        <3> QED BY <1>3, <2>1, <2>5, <2>9, <3>1
    <2>10. CASE ~file.writing
        BY <1>2, <1>3, <2>1, <2>4, <2>5, <2>8, <2>10, IdleSound
    <2> QED BY <2>9, <2>10
<1>7. CASE ~(file.pos < Top.to)
    <2>1. file' = file /\ Go(<<>>)
        BY <1>7 DEF Fill
    <2>2. todo' = Tail(todo) /\ Tail(todo) \in Seq(CallSteps)
        BY <1>1, <1>2, <2>1, GoneOn
    <2>3. Top = todo[1] /\ file.pos \in Nat /\ Top.to \in Nat
        BY <1>1, <1>2, GoneOn, HandleType, StepType
    <2>4. file.pos = todo[1].to
        BY <1>4, <1>7, <2>3 DEF Filling
    <2>5. CASE Returning(Tail(todo))
        <3>1. Flushing(Tail(todo), file)
            BY <2>5 DEF Returning, Flushing, Flushed
        <3>2. Legal(Tail(todo), file)
            BY <3>1 DEF Legal
        <3>3. /\ ~Is(Tail(todo), "extend") /\ ~Is(Tail(todo), "relocate")
              /\ ~Is(Tail(todo), "settle") /\ ~Is(Tail(todo), "get") /\ Tail(todo) # <<>>
            BY <2>5 DEF Returning, Is
        <3> QED BY Zenon, <1>3, <1>5, <2>1, <2>2, <3>2, <3>3, Passed
    <2>6. CASE ~Returning(Tail(todo))
        <3>1. /\ Ends(Tail(todo), "put")
              /\ Tail(todo)[1].cells # <<>>
              /\ todo[1].to + Len(Tail(todo)[1].cells) <= MaxSize
              /\ ~file.reading
            BY Zenon, <1>4, <2>6 DEF Filling, FillsUp
        <3>2. Putting(Tail(todo), file)
            BY Zenon, <2>4, <3>1 DEF Putting, Ends
        <3>3. Legal(Tail(todo), file)
            BY <1>4, <3>1, <3>2 DEF Legal
        <3>4. /\ ~Is(Tail(todo), "extend") /\ ~Is(Tail(todo), "relocate")
              /\ ~Is(Tail(todo), "settle") /\ ~Is(Tail(todo), "get") /\ Tail(todo) # <<>>
            BY <3>1 DEF Ends, Is
        <3> QED BY Zenon, <1>3, <1>5, <2>1, <2>2, <3>3, <3>4, Passed
    <2> QED BY <2>5, <2>6
<1> QED BY <1>6, <1>7

LEMMA CopyKeeps ==
    ASSUME Sound(disk, entry, file, todo), Copy
    PROVE  Sound(disk', entry', file', todo')
<1>1. Is(todo, "copy")
    BY DoingIs DEF Copy
<1>2. /\ disk \in Device(Cell) /\ file \in Handles /\ todo \in Seq(CallSteps)
      /\ Legal(todo, file)
    BY DEF Sound
<1>3. disk' = disk /\ entry' = entry /\ file' = file
    BY DEF Copy, storage
<1>4. Copying(todo, file) /\ file.writing /\ ~file.inline /\ ~file.reading
    BY <1>1, <1>2, LegalOf, SoundHandle
<1>5. ~Is(todo, "put") /\ ~Is(todo, "settle") /\ ~Is(todo, "relocate")
    BY <1>1 DEF Is
<1>6. file.pos \in Nat /\ file.size \in Nat /\ file.pos <= Reach
    BY <1>2, HandleType, Bounds
<1>7. CASE file.pos < file.size
    <2> DEFINE at == CtzFind(disk, file.head, file.size, file.pos)
               y == Peek(disk, NoCache, at.block, at.off)
               x == [op |-> "put", cells |-> <<y>>]
    <2>1. at.block \in Blocks /\ Go(<<x>> \o <<Top>>)
        BY <1>7 DEF Copy, PutStep
    <2>2. y \in Cell
        <3>1. at.off \in 0 .. BlockSize - 1
            <4>1. at.off = CtzIndex(file.pos).off
                BY <1>6, <1>7 DEF CtzFind
            <4> HIDE DEF at
            <4> QED BY <1>6, <4>1, PlaceType, Bounds
        <3> HIDE DEF at
        <3>2. y = disk[at.block][at.off]
            BY <2>1, NoCacheIs, PeekBare
        <3>3. disk[at.block] \in [0 .. BlockSize - 1 -> Cell]
            BY <1>2, <2>1 DEF Device
        <3> DEFINE row == disk[at.block]
                   o == at.off
        <3>4. row[o] \in Cell
            <4> HIDE DEF row, o
            <4>1. o \in 0 .. BlockSize - 1 /\ row \in [0 .. BlockSize - 1 -> Cell]
                BY <3>1, <3>3 DEF row, o
            <4> QED BY <4>1
        <3> QED BY <3>2, <3>4
    <2> HIDE DEF y, at
    <2>3. x \in CallSteps /\ x.op = "put" /\ Len(x.cells) = 1 /\ x.cells # <<>>
        <3>1. <<y>> \in Seq(Cell)
            BY <2>2
        <3> QED BY Zenon, <3>1, StepMade
    <2> HIDE DEF x
    <2>4. todo' = <<x>> \o todo
        BY Zenon, <1>1, <1>2, <2>1, <2>3, GoneOn
    <2>5. /\ todo' \in Seq(CallSteps) /\ Tail(todo') = todo /\ todo'[1] = x
          /\ Is(todo', "put") /\ ~Is(todo', "extend") /\ ~Is(todo', "relocate")
          /\ ~Is(todo', "settle")
        BY <1>2, <2>3, <2>4, Pushed
    <2>6. Putting(todo', file)
        <3>1. file.pos + Len(todo'[1].cells) <= file.size /\ todo'[1].cells # <<>>
            <4>1. file.pos + 1 <= file.size
                BY <1>6, <1>7
            <4> QED BY Zenon, <2>3, <2>5, <4>1
        <3> QED BY Zenon, <1>4, <2>5, <3>1 DEF Putting
    <2>7. Legal(todo', file)
        BY <1>4, <2>6 DEF Legal, Starting
    <2> QED BY <1>3, <1>4, <1>5, <2>5, <2>7, Passed
<1>8. CASE ~(file.pos < file.size)
    <2>1. Go(<<>>)
        BY <1>8 DEF Copy
    <2>2. todo' = Tail(todo) /\ Tail(todo) \in Seq(CallSteps)
        BY <1>1, <1>2, <2>1, GoneOn
    <2>3. Draining(Tail(todo), file) /\ file.pos >= file.size
        BY <1>4, <1>6, <1>8 DEF Copying
    <2>4. Legal(Tail(todo), file)
        BY <1>4, <2>3 DEF Legal
    <2>5. /\ ~Is(Tail(todo), "extend") /\ ~Is(Tail(todo), "relocate")
          /\ ~Is(Tail(todo), "settle")
        BY <2>3 DEF Draining, Is
    <2> QED BY Zenon, <1>3, <1>4, <1>5, <2>2, <2>4, <2>5, Passed
<1> QED BY <1>7, <1>8

\* Every cell of a list that is wanted is found.
LEMMA FoundOf ==
    ASSUME NEW d, NEW head \in Blocks, NEW size \in Nat, size <= MaxSize,
           IsList(d, NoCache, head, size),
           NEW pos \in Nat, pos < size
    PROVE  /\ CtzFind(d, head, size, pos)
              = [block |-> Block(d, NoCache, head, size, Place[pos].index),
                 off |-> Place[pos].off]
           /\ Block(d, NoCache, head, size, Place[pos].index) \in Blocks
           /\ IsList(d, NoCache, Block(d, NoCache, head, size, Place[pos].index), pos + 1)
           /\ ListBlocks(d, NoCache, Block(d, NoCache, head, size, Place[pos].index), pos + 1)
                 \subseteq ListBlocks(d, NoCache, head, size)
<1>1. IsSize(size)
    BY SizeIs, Bounds
<1>2. pos \in 0 .. size - 1 /\ pos + 1 \in 1 .. size
    OBVIOUS
<1>3. LastNo(pos + 1) = Place[pos].index
    <2>1. (pos + 1) - 1 = pos
        OBVIOUS
    <2> QED BY <2>1 DEF LastNo
<1>4. CtzFind(d, head, size, pos)
      = [block |-> Block(d, NoCache, head, size, Place[pos].index), off |-> Place[pos].off]
    BY <1>1, <1>2, FindReaches
<1> QED BY <1>1, <1>2, <1>3, <1>4, ListTo

LEMMA CutKeeps ==
    ASSUME Sound(disk, entry, file, todo), Cut
    PROVE  Sound(disk', entry', file', todo')
<1> DEFINE z == Top.size
           at == IF file.inline THEN [block |-> Inline, off |-> z]
                 ELSE CtzFind(disk, file.head, file.size, z)
           f2 == [file EXCEPT !.block = at.block, !.off = at.off,
                              !.head = at.block, !.size = z,
                              !.dirty = TRUE, !.reading = TRUE]
<1>1. Is(todo, "cut")
    BY DoingIs DEF Cut
<1>2. /\ disk \in Device(Cell) /\ entry \in Entries \union {Absent} /\ EntryOK(disk, entry)
      /\ file \in Handles /\ todo \in Seq(CallSteps) /\ Legal(todo, file)
    BY DEF Sound
<1>3. disk' = disk /\ entry' = entry /\ file' = f2 /\ Go(<<>>)
    BY DEF Cut, storage
<1>4. Cutting(todo, file) /\ ~file.writing /\ ~file.reading
    BY <1>1, <1>2, LegalOf
<1>5. /\ Tail(todo) \in Seq(CallSteps) /\ Top \in CallSteps /\ Top = todo[1] /\ Top.op = "cut"
      /\ todo' = Tail(todo)
    BY <1>1, <1>2, <1>3, GoneOn
<1>6. /\ z \in Nat /\ z <= MaxSize /\ z < file.size
      /\ Returning(Tail(todo))
      /\ file.inline \/ z = 0 \/ Place[z].index = Place[z - 1].index
      /\ file.size \in Nat /\ file.size <= MaxSize
    BY <1>2, <1>4, <1>5, StepType, HandleType DEF Cutting, SizeOf
<1>7. IdleOK(disk, entry, file)
    BY <1>1, <1>4, SoundIdle DEF Is
<1>8. CASE file.inline
    <2>1. InlineOK(file) /\ at.block = Inline /\ at.off = z
        BY <1>7, <1>8 DEF IdleOK
    <2> HIDE DEF at, z
    <2>2. z \in 0 .. BlockSize /\ z <= InlineMax
        BY <1>6, <2>1, Bounds DEF InlineOK
    <2>3. /\ f2 \in Handles /\ f2.inline /\ f2.head = Inline /\ f2.size = z
          /\ f2.cache = file.cache /\ f2.dirty /\ ~f2.writing /\ f2.reading
          /\ f2.append = file.append
        <3>1. z \in 0 .. MaxSize
            BY <1>6
        <3>2. f2 \in Handles
            BY Zenon, <1>2, <2>1, <2>2, <3>1 DEF Handles
        <3>3. /\ f2.head = Inline /\ f2.size = z /\ f2.cache = file.cache /\ f2.dirty
              /\ f2.writing = file.writing /\ f2.reading /\ f2.inline = file.inline
              /\ f2.append = file.append
            BY <1>2, <2>1 DEF Handles
        <3> QED BY <1>4, <1>8, <3>2, <3>3
    <2> HIDE DEF f2
    <2>4. InlineOK(f2)
        BY <2>1, <2>2, <2>3 DEF InlineOK
    <2>5. Flushing(Tail(todo), f2) /\ Legal(Tail(todo), f2) /\ ~Is(Tail(todo), "extend")
        BY <1>6 DEF Returning, Flushing, Flushed, Legal, Is
    <2>6. HandleOK(disk, entry, f2, Tail(todo))
        BY <2>3, <2>4, <2>5 DEF HandleOK
    <2> QED BY <1>2, <1>3, <1>5, <2>3, <2>5, <2>6 DEF Sound
<1>9. CASE ~file.inline
    <2>1. file.head \in Blocks /\ file.cache = NoCache
          /\ IsList(disk, NoCache, file.head, file.size)
        BY <1>7, <1>9 DEF IdleOK
    <2> HIDE DEF z
    <2> DEFINE b == Block(disk, NoCache, file.head, file.size, Place[z].index)
    <2>2. CtzFind(disk, file.head, file.size, z) = [block |-> b, off |-> Place[z].off]
          /\ b \in Blocks /\ IsList(disk, NoCache, b, z + 1)
        BY Zenon, <1>6, <2>1, FoundOf
    <2> HIDE DEF b
    <2>3. at.block = b /\ at.off = Place[z].off
        BY <1>9, <2>2
    <2>4. Place[z].off \in 0 .. BlockSize
        BY <1>6, PlaceType, Bounds
    <2> HIDE DEF at
    <2>5. /\ f2 \in Handles /\ ~f2.inline /\ f2.head = b /\ f2.size = z /\ f2.block = b
          /\ f2.off = Place[z].off
          /\ f2.cache = file.cache /\ f2.dirty /\ ~f2.writing /\ f2.reading
        <3>1. z \in 0 .. MaxSize
            BY <1>6 DEF z
        <3>2. f2 \in Handles
            BY Zenon, <1>2, <2>2, <2>3, <2>4, <3>1 DEF Handles
        <3>3. /\ f2.head = b /\ f2.size = z /\ f2.cache = file.cache /\ f2.dirty /\ f2.block = b
              /\ f2.off = Place[z].off
              /\ f2.writing = file.writing /\ f2.reading /\ f2.inline = file.inline
            BY <1>2, <2>3 DEF Handles
        <3> QED BY <1>4, <1>9, <3>2, <3>3
    <2> HIDE DEF f2
    <2>6. IsList(disk, NoCache, b, z)
        <3>1. CASE z = 0
            BY <3>1 DEF IsList
        <3>2. CASE z # 0
            <4>1. IsSize(z) /\ IsSize(z + 1)
                BY <1>6, <3>2, SizeIs, Bounds
            <4>2. (z + 1) - 1 = z
                BY <1>6
            <4>3. LastNo(z) = LastNo(z + 1)
                BY <1>6, <1>9, <3>2, <4>2 DEF LastNo
            <4> QED BY <2>2, <4>1, <4>3, TipMade
        <3> QED BY <3>1, <3>2
    <2>7. Flushing(Tail(todo), f2) /\ Legal(Tail(todo), f2) /\ ~Is(Tail(todo), "extend")
          /\ ~Is(Tail(todo), "get") /\ Tail(todo) # <<>>
        BY <1>6 DEF Returning, Flushing, Flushed, Legal, Is
    <2>8. OldOK(disk, f2) /\ OutlinedOK(f2, Tail(todo)) /\ RestingOK(f2, Tail(todo))
        BY <2>1, <2>2, <2>5, <2>6, <2>7, Bounds DEF OldOK, OutlinedOK, RestingOK
    <2>9. HandleOK(disk, entry, f2, Tail(todo))
        BY <2>5, <2>7, <2>8 DEF HandleOK
    <2> QED BY <1>2, <1>3, <1>5, <2>5, <2>7, <2>9 DEF Sound
<1> QED BY <1>8, <1>9

\* What is read from a device and a cache are cells.
LEMMA PeekType ==
    ASSUME NEW d \in Device(Cell), NEW c \in Caches, NEW b, NEW k \in 0 .. BlockSize - 1
    PROVE  Peek(d, c, b, k) \in Cell
<1>1. c.data \in Seq(Cell) /\ c.off \in Nat
    BY DEF Caches
<1>2. ASSUME k \in c.off .. c.off + Len(c.data) - 1 PROVE c.data[k - c.off + 1] \in Cell
    <2> DEFINE i == k - c.off + 1
    <2>1. i \in 1 .. Len(c.data)
        BY <1>1, <1>2
    <2> HIDE DEF i
    <2>2. c.data[i] \in Cell
        BY <1>1, <2>1
    <2> QED BY <2>2 DEF i
<1>3. ASSUME b \in Blocks PROVE d[b][k] \in Cell
    <2>1. d[b] \in [0 .. BlockSize - 1 -> Cell]
        BY <1>3 DEF Device
    <2> QED BY Zenon, <2>1
<1>4. Filler \in Cell
    BY Bounds
<1> QED BY <1>2, <1>3, <1>4 DEF Peek

\* What is left to read.
LEMMA GetMade ==
    ASSUME NEW y \in CallSteps, y.op = "get", NEW m \in Nat, NEW w \in Seq(Cell)
    PROVE  LET z == [y EXCEPT !.n = m, !.cells = w]
           IN  z \in CallSteps /\ z.op = "get"
<1> DEFINE G == [op : {"get"}, n : Nat, cells : Seq(Cell)]
           z == [y EXCEPT !.n = m, !.cells = w]
<1>1. y \in G
    BY DEF CallSteps
<1>2. z \in G
    BY Zenon, <1>1
<1>3. z.op = "get"
    BY <1>2
<1> QED BY <1>2, <1>3 DEF CallSteps

LEMMA GetKeeps ==
    ASSUME Sound(disk, entry, file, todo), Get
    PROVE  Sound(disk', entry', file', todo')
<1>1. Is(todo, "get")
    BY DoingIs DEF Get
<1>2. /\ disk \in Device(Cell) /\ entry \in Entries \union {Absent} /\ EntryOK(disk, entry)
      /\ file \in Handles /\ todo \in Seq(CallSteps) /\ Legal(todo, file)
    BY DEF Sound
<1>3. disk' = disk /\ entry' = entry
    BY DEF Get, storage
<1>4. Tail(todo) = <<>> /\ ~file.writing
    BY <1>1, <1>2, LegalOf
<1>5. /\ Tail(todo) \in Seq(CallSteps) /\ Top \in CallSteps /\ Top = todo[1] /\ Top.op = "get"
      /\ Top.n \in Nat /\ Top.cells \in Seq(Cell)
      /\ Top = [op |-> "get", n |-> Top.n, cells |-> Top.cells]
    BY <1>1, <1>2, GoneOn, StepType
<1>6. CASE Top.n = 0 \/ file.pos >= file.size
    <2>1. file' = file /\ Go(<<>>)
        BY <1>6 DEF Get
    <2>2. todo' = <<>>
        BY <1>1, <1>2, <1>4, <2>1, GoneOn
    <2>3. Legal(<<>>, file) /\ <<>> \in Seq(CallSteps) /\ \A op : ~Is(<<>>, op)
        BY DEF Legal, Is
    <2>4. ~Is(todo, "put") /\ ~Is(todo, "settle") /\ ~Is(todo, "relocate")
        BY <1>1 DEF Is
    <2> QED BY Zenon, <1>1, <1>3, <2>1, <2>2, <2>3, <2>4, Passed
<1>7. CASE ~(Top.n = 0 \/ file.pos >= file.size)
    <2> DEFINE at == IF file.reading /\ file.off # BlockSize
                     THEN [block |-> file.block, off |-> file.off]
                     ELSE IF file.inline THEN [block |-> Inline, off |-> file.pos]
                     ELSE CtzFind(disk, file.head, file.size, file.pos)
               n  == Min({Top.n, file.size - file.pos, BlockSize - at.off})
               s  == [k \in 1 .. n |-> Peek(disk, file.cache, at.block, at.off + k - 1)]
               c2 == IF file.inline THEN file.cache ELSE [NoCache EXCEPT !.block = at.block]
               f2 == [file EXCEPT !.reading = TRUE, !.block = at.block,
                                  !.pos = file.pos + n, !.off = at.off + n, !.cache = c2]
               x  == [Top EXCEPT !.n = Top.n - n, !.cells = Top.cells \o s]
    <2>1. /\ at.block \in Blocks \union {Inline}
          /\ file' = f2
          /\ Go(<<x>>)
        BY <1>7 DEF Get
    <2>2. /\ file.pos \in Nat /\ file.size \in Nat /\ file.pos < file.size /\ Top.n > 0
          /\ file.size <= MaxSize /\ MaxSize <= Reach /\ MaxSize \in Nat /\ Reach \in Nat
          /\ BlockSize \in Nat
        BY <1>2, <1>5, <1>7, HandleType, Bounds
    <2>3. ASSUME ~file.inline
          PROVE  /\ at.block \in Blocks /\ at.off = Place[file.pos].off
                 /\ file.head \in Blocks
        <3>1. RestingOK(file, todo) /\ OldOK(disk, file)
            BY <1>4, <2>3, SoundHandle
        <3>2. CASE file.reading /\ file.off # BlockSize
            BY <1>1, <3>1, <3>2 DEF RestingOK
        <3>3. CASE ~(file.reading /\ file.off # BlockSize)
            <4>1. at = CtzFind(disk, file.head, file.size, file.pos)
                BY <2>3, <3>3
            <4> HIDE DEF at
            <4>2. file.head \in Blocks /\ IsList(disk, NoCache, file.head, file.size)
                BY <1>4, <3>1, Bounds DEF RestingOK, OldOK
            <4> DEFINE b == Block(disk, NoCache, file.head, file.size, Place[file.pos].index)
            <4>3. /\ at = [block |-> b, off |-> Place[file.pos].off]
                  /\ b \in Blocks
                BY Zenon, <2>2, <4>1, <4>2, FoundOf
            <4> HIDE DEF b
            <4> QED BY <4>2, <4>3
        <3> QED BY <3>2, <3>3
    <2>4. at.off \in Nat /\ at.off < BlockSize
        <3>1. CASE file.inline
            <4>1. file.pos < BlockSize
                BY <1>2, <2>2, <3>1, SoundHandle, HandleType, Bounds DEF InlineOK
            <4>2. file.off \in Nat /\ file.off <= BlockSize
                BY <1>2, HandleType
            <4> QED BY <2>2, <3>1, <4>1, <4>2
        <3>2. CASE ~file.inline
            <4> HIDE DEF at
            <4> QED BY <2>2, <2>3, <3>2, PlaceType
        <3> QED BY <3>1, <3>2
    <2> HIDE DEF at
    <2>5. n \in Nat /\ n > 0 /\ n <= Top.n /\ n <= file.size - file.pos /\ n <= BlockSize - at.off
        <3> DEFINE u == file.size - file.pos
                   v == BlockSize - at.off
        <3>1. u \in Int /\ v \in Int /\ u > 0 /\ v > 0 /\ Top.n \in Int /\ Top.n > 0
            BY <1>5, <2>2, <2>4
        <3>2. n = Min({Top.n, u, v})
            OBVIOUS
        <3> HIDE DEF u, v, n
        <3>3. n \in {Top.n, u, v} /\ n <= Top.n /\ n <= u /\ n <= v
            BY Zenon, <3>1, <3>2, MinOfThree
        <3> QED BY <3>1, <3>3 DEF u, v
    <2> HIDE DEF n
    <2>6. s \in Seq(Cell)
        <3>1. ASSUME NEW k \in 1 .. n PROVE Peek(disk, file.cache, at.block, at.off + k - 1) \in Cell
            <4> DEFINE j == at.off + k - 1
            <4>1. j \in 0 .. BlockSize - 1
                BY <2>2, <2>4, <2>5
            <4> HIDE DEF j
            <4>2. Peek(disk, file.cache, at.block, j) \in Cell
                BY <1>2, <4>1, HandleType, PeekType
            <4> QED BY <4>2 DEF j
        <3> DEFINE g(k) == Peek(disk, file.cache, at.block, at.off + k - 1)
        <3>2. s = [k \in 1 .. n |-> g(k)] /\ \A k \in 1 .. n : g(k) \in Cell
            BY <3>1
        <3> HIDE DEF g, s
        <3> QED BY <2>5, <3>2
    <2> HIDE DEF s
    <2>8. x \in CallSteps /\ x.op = "get"
        <3> DEFINE t == Top
                   m == Top.n - n
                   w == Top.cells \o s
        <3>1. m \in Nat /\ w \in Seq(Cell) /\ t \in CallSteps /\ t.op = "get"
            BY <1>5, <2>5, <2>6
        <3>2. x = [t EXCEPT !.n = m, !.cells = w]
            OBVIOUS
        <3> HIDE DEF t, m, w, x
        <3> QED BY Zenon, <3>1, <3>2, GetMade
    <2> HIDE DEF x
    <2>9. todo' = <<x>> \o Tail(todo)
        BY <1>1, <1>2, <2>1, <2>8, GoneOn
    <2>10. /\ todo' \in Seq(CallSteps) /\ Tail(todo') = <<>> /\ Is(todo', "get")
           /\ ~Is(todo', "extend") /\ ~Is(todo', "put") /\ ~Is(todo', "relocate")
        BY Zenon, <1>4, <1>5, <2>8, <2>9, Pushed
    <2>11. c2 \in Caches
        <3>1. ~file.inline => c2 = [block |-> at.block, off |-> 0, data |-> <<>>]
            BY DEF NoCache
        <3>2. <<>> \in Seq(Cell)
            OBVIOUS
        <3> DEFINE b == at.block
        <3>3. ASSUME ~file.inline PROVE c2 \in Caches
            <4>1. c2 = [block |-> b, off |-> 0, data |-> <<>>] /\ b \in Blocks \union {Inline}
                BY <2>1, <3>1, <3>3
            <4> HIDE DEF b, c2
            <4> QED BY <3>2, <4>1 DEF Caches
        <3> QED BY <1>2, <3>3, HandleType
    <2>12. file.inline => c2 = file.cache
        OBVIOUS
    <2>13. ~file.inline => c2 = [NoCache EXCEPT !.block = at.block]
        OBVIOUS
    <2> HIDE DEF c2
    <2>14. file.pos + n \in 0 .. MaxSize /\ at.off + n \in 0 .. BlockSize
           /\ at.block \in Blocks \union {NoBlock, Inline}
        BY <2>1, <2>2, <2>4, <2>5
    <2>15. f2 \in Handles
        BY Zenon, <1>2, <2>11, <2>14 DEF Handles
    <2>16. /\ f2.reading /\ f2.writing = file.writing /\ f2.block = at.block /\ f2.pos = file.pos + n
           /\ f2.off = at.off + n /\ f2.cache = c2 /\ f2.inline = file.inline
           /\ f2.dirty = file.dirty /\ f2.head = file.head /\ f2.size = file.size
           /\ f2.append = file.append
        BY <1>2 DEF Handles
    <2> HIDE DEF f2
    <2>17. ASSUME file.inline PROVE InlineOK(f2)
        <3>1. InlineOK(file)
            BY <2>17, SoundHandle
        <3> QED BY <1>4, <2>12, <2>16, <2>17, <3>1 DEF InlineOK
    <2>18. ASSUME ~file.inline PROVE OldOK(disk, f2) /\ OutlinedOK(f2, todo') /\ RestingOK(f2, todo')
        <3>1. OldOK(disk, f2)
            <4>1. OldOK(disk, file)
                BY <2>18, SoundHandle
            <4> QED BY <1>4, <2>16, <4>1 DEF OldOK
        <3>2. OutlinedOK(f2, todo')
            BY <2>3, <2>16, <2>18, Bounds DEF OutlinedOK
        <3>3. f2.off \in {Place[f2.pos].off, BlockSize}
            <4>1. CASE at.off + n < BlockSize
                <5>1. file.pos + n <= Reach
                    BY <2>2, <2>5
                <5>2. Place[file.pos + n].off = Place[file.pos].off + n
                    BY <2>2, <2>3, <2>5, <2>18, <4>1, <5>1, PlaceRun
                <5> QED BY <2>3, <2>16, <2>18, <5>2
            <4>2. CASE ~(at.off + n < BlockSize)
                BY <2>2, <2>4, <2>5, <2>16, <4>2
            <4> QED BY <4>1, <4>2
        <3> QED BY <2>3, <2>13, <2>16, <2>18, <3>1, <3>2, <3>3 DEF RestingOK
    <2>19. HandleOK(disk, entry, f2, todo')
        BY <1>4, <2>10, <2>16, <2>17, <2>18, SoundHandle DEF HandleOK
    <2>20. Legal(todo', f2)
        BY <1>4, <2>10, <2>16 DEF Legal, Flushed, Ends
    <2> QED BY <1>2, <1>3, <2>1, <2>10, <2>15, <2>19, <2>20 DEF Sound
<1> QED BY <1>6, <1>7

-----------------------------------------------------------------------------
(* The steps of a write.                                                     *)

LEMMA PuttingFrame ==
    ASSUME NEW f, NEW f2, f2.pos = f.pos, f2.size = f.size, f2.inline = f.inline,
           f2.writing = f.writing
    PROVE  /\ SizeOf(f2) = SizeOf(f)
           /\ \A s : /\ Flushed(s, f2) <=> Flushed(s, f)
                     /\ Settling(s, f2) <=> Settling(s, f)
                     /\ Draining(s, f2) <=> Draining(s, f)
                     /\ Putting(s, f2) <=> Putting(s, f)
<1>1. SizeOf(f2) = SizeOf(f)
    BY DEF SizeOf
<1>2. \A s : /\ Flushed(s, f2) <=> Flushed(s, f)
             /\ Settling(s, f2) <=> Settling(s, f)
             /\ Draining(s, f2) <=> Draining(s, f)
             /\ Copying(s, f2) <=> Copying(s, f)
    BY <1>1, FlushedFrame
<1> QED BY Zenon, <1>1, <1>2 DEF Putting

\* How far a write goes.
LEMMA PutBounds ==
    ASSUME NEW f \in Handles, NEW s \in Seq(CallSteps), Putting(s, f)
    PROVE  /\ s[1].cells \in Seq(Cell) /\ s[1].cells # <<>>
           /\ Len(s[1].cells) \in Nat /\ Len(s[1].cells) > 0
           /\ f.pos + Len(s[1].cells) <= MaxSize
           /\ Tail(s) \in Seq(CallSteps)
<1>1. Is(s, "put") /\ s[1].cells # <<>>
    BY DEF Putting
<1>2. s[1] \in CallSteps /\ s[1].op = "put" /\ Tail(s) \in Seq(CallSteps)
    BY Zenon, <1>1, Popped
<1>3. s[1].cells \in Seq(Cell)
    BY <1>2, StepType
<1>4. Len(s[1].cells) \in Nat /\ Len(s[1].cells) > 0
    <2> DEFINE c == s[1].cells
    <2>1. c \in Seq(Cell) /\ c # <<>>
        BY <1>1, <1>3
    <2> HIDE DEF c
    <2>2. Len(c) \in Nat /\ Len(c) > 0
        BY <2>1
    <2> QED BY <2>2 DEF c
<1>5. f.pos + Len(s[1].cells) <= MaxSize
    <2> DEFINE l == Len(s[1].cells)
    <2>1. CASE FillsUp(Tail(s)) /\ f.pos + l <= Tail(s)[1].to
        <3>1. Is(Tail(s), "fill")
            BY <2>1 DEF FillsUp
        <3>2. Tail(s)[1] \in CallSteps /\ Tail(s)[1].op = "fill"
            BY Zenon, <1>2, <3>1, Popped
        <3>3. Tail(s)[1].to \in Nat /\ Tail(s)[1].to <= MaxSize
            BY Zenon, <3>2, StepType
        <3> DEFINE to == Tail(s)[1].to
        <3>4. f.pos + l <= to /\ to \in Nat /\ to <= MaxSize /\ l \in Nat
            BY Zenon, <1>4, <2>1, <3>3
        <3> HIDE DEF l, to
        <3>5. f.pos + l <= MaxSize
            BY <3>4, HandleType, Bounds
        <3> QED BY <3>5 DEF l
    <2>2. CASE f.pos + l <= f.size
        <3>1. l \in Nat
            BY <1>4
        <3> HIDE DEF l
        <3>2. f.pos + l <= MaxSize
            BY <2>2, <3>1, HandleType, Bounds
        <3> QED BY <3>2 DEF l
    <2> QED BY Zenon, <2>1, <2>2 DEF Putting
<1> QED BY <1>1, <1>2, <1>3, <1>4, <1>5

\* All of it has been written.
LEMMA PutDone ==
    ASSUME NEW f \in Handles, NEW s \in Seq(CallSteps), Putting(s, f),
           NEW f2, f2.pos = f.pos + Len(s[1].cells), f2.size = f.size, f2.writing, ~f2.reading,
           f.writing => f2.inline = f.inline
    PROVE  /\ Legal(Tail(s), f2)
           /\ \A op \in {"extend", "relocate", "settle", "put", "get"} : ~Is(Tail(s), op)
<1> DEFINE l == Len(s[1].cells)
<1>1. l \in Nat /\ l > 0
    BY PutBounds
<1>2. Starting(f2)
    BY DEF Starting
<1>3. CASE Tail(s) = <<>>
    BY <1>3 DEF Legal, Is
<1>4. CASE FillsUp(Tail(s)) /\ f.pos + l <= Tail(s)[1].to
    <2>1. Filling(Tail(s), f2)
        BY Zenon, <1>4 DEF Filling
    <2>2. Is(Tail(s), "fill")
        BY <1>4 DEF FillsUp
    <2> QED BY <1>2, <2>1, <2>2 DEF Legal, Is
<1>5. CASE Copying(Tail(s), f) /\ f.pos + l <= f.size /\ f.writing /\ ~f.inline
    <2> HIDE DEF l
    <2>1. SizeOf(f2) = SizeOf(f)
        <3>1. f.pos \in Nat /\ f.size \in Nat
            BY HandleType
        <3>2. f2.pos = f.pos + l
            BY DEF l
        <3> QED BY <1>1, <1>5, <3>1, <3>2 DEF SizeOf
    <2>2. f2.inline = f.inline
        BY <1>5
    <2>3. Copying(Tail(s), f2)
        BY <1>5, <2>1, <2>2, FlushedFrame
    <2>4. Is(Tail(s), "copy")
        BY <1>5 DEF Copying
    <2> QED BY <1>5, <2>2, <2>3, <2>4 DEF Legal, Is
<1> QED BY <1>3, <1>4, <1>5 DEF Putting

LEMMA OutlineKeeps ==
    ASSUME Sound(disk, entry, file, todo), Outline
    PROVE  Sound(disk', entry', file', todo')
<1> DEFINE f2 == [file EXCEPT !.off = file.pos]
           m == [op |-> "relocate"]
<1>1. Is(todo, "put")
    BY DoingIs DEF Outline
<1>2. /\ disk \in Device(Cell) /\ entry \in Entries \union {Absent} /\ EntryOK(disk, entry)
      /\ file \in Handles /\ todo \in Seq(CallSteps) /\ Legal(todo, file)
    BY DEF Sound
<1>3. disk' = disk /\ entry' = entry /\ file' = f2 /\ Go(<<m>> \o <<Top>>) /\ file.inline /\ TooLarge
    BY DEF Outline, storage, Step
<1>4. m \in CallSteps /\ m.op = "relocate"
    BY StepMade
<1> HIDE DEF m
<1>5. todo' = <<m>> \o todo /\ Top = todo[1]
    BY Zenon, <1>1, <1>2, <1>3, <1>4, GoneOn
<1>6. /\ todo' \in Seq(CallSteps) /\ Tail(todo') = todo /\ Is(todo', "relocate")
      /\ ~Is(todo', "extend")
    BY <1>2, <1>4, <1>5, Pushed
<1>7. Putting(todo, file) /\ ~file.reading /\ Starting(file)
    BY <1>1, <1>2, LegalOf
<1>8. InlineOK(file)
    BY <1>3, SoundHandle
<1>9. file.pos \in 0 .. BlockSize
    <2>1. file.pos \in Nat /\ file.size \in Nat
        BY <1>2, HandleType
    <2> QED BY <1>7, <1>8, <2>1, Bounds DEF InlineOK, Starting
<1>10. file.pos + Len(todo[1].cells) > InlineMax
    <2> DEFINE l == Len(todo[1].cells)
               a == file.pos + l
    <2>1. l \in Nat
        BY <1>2, <1>7, PutBounds
    <2> HIDE DEF l
    <2>2. a \in Int /\ file.size \in Int
        BY <1>2, <2>1, HandleType
    <2>3. Max({a, file.size}) > InlineMax
        BY <1>3, <1>5 DEF TooLarge, l
    <2> HIDE DEF a
    <2>4. Max({a, file.size}) = IF a >= file.size THEN a ELSE file.size
        BY <2>2, MaxOf
    <2>5. file.size <= InlineMax
        BY <1>8 DEF InlineOK
    <2>6. a > InlineMax
        BY <2>2, <2>3, <2>4, <2>5, Bounds
    <2> QED BY <2>6 DEF a, l
<1>11. /\ f2 \in Handles /\ f2.pos = file.pos /\ f2.size = file.size /\ f2.off = file.pos
       /\ f2.writing = file.writing /\ f2.reading = file.reading /\ f2.inline = file.inline
       /\ f2.head = file.head /\ f2.cache = file.cache /\ f2.dirty = file.dirty
       /\ f2.block = file.block /\ f2.append = file.append
    BY <1>2, <1>9 DEF Handles
<1> HIDE DEF f2
<1>12. Putting(todo, f2)
    BY <1>7, <1>11, PuttingFrame
<1>13. Moving(todo', f2)
    BY Zenon, <1>3, <1>6, <1>7, <1>10, <1>11, <1>12 DEF Moving, Starting
<1>14. Legal(todo', f2)
    BY <1>13 DEF Legal
<1>15. InlineOK(f2)
    BY <1>8, <1>11 DEF InlineOK
<1>16. HandleOK(disk, entry, f2, todo')
    BY <1>3, <1>6, <1>11, <1>15, SoundHandle DEF HandleOK
<1> QED BY <1>2, <1>3, <1>6, <1>11, <1>14, <1>16 DEF Sound

LEMMA PutInlineKeeps ==
    ASSUME Sound(disk, entry, file, todo), PutInline
    PROVE  Sound(disk', entry', file', todo')
<1> DEFINE cells == Top.cells
           o == Overlay(file.cache.data, file.pos, cells)
           p == file.pos + Len(cells)
           c2 == [file.cache EXCEPT !.data = o]
           f2 == [file EXCEPT !.block = Inline, !.writing = TRUE, !.cache = c2,
                              !.off = p, !.pos = p, !.erred = FALSE]
<1>1. Is(todo, "put")
    BY DoingIs DEF PutInline
<1>2. /\ disk \in Device(Cell) /\ entry \in Entries \union {Absent} /\ EntryOK(disk, entry)
      /\ file \in Handles /\ todo \in Seq(CallSteps) /\ Legal(todo, file)
    BY DEF Sound
<1>3. disk' = disk /\ entry' = entry /\ file.inline /\ ~TooLarge
    BY DEF PutInline, storage
<1>4. file' = f2
    BY DEF PutInline
<1>5. todo' = Tail(todo) /\ Top = todo[1] /\ Tail(todo) \in Seq(CallSteps)
    BY <1>1, <1>2, GoneOn DEF PutInline
<1>6. Putting(todo, file) /\ ~file.reading /\ Starting(file)
    BY <1>1, <1>2, LegalOf
<1>7. /\ cells \in Seq(Cell) /\ Len(cells) \in Nat /\ Len(cells) > 0 /\ p <= MaxSize
    BY <1>2, <1>5, <1>6, PutBounds
<1>8. InlineOK(file)
    BY <1>3, SoundHandle
<1>9. /\ file.pos \in Nat /\ file.size \in Nat /\ file.size <= MaxSize
      /\ file.cache \in Caches /\ file.cache.data \in Seq(Cell) /\ file.cache.off \in Nat
    BY <1>2, HandleType
<1> HIDE DEF cells
<1>10. p <= InlineMax /\ p \in Nat
    <2>1. p \in Int /\ file.size \in Int
        BY <1>7, <1>9
    <2>2. ~(Max({p, file.size}) > InlineMax)
        BY <1>3 DEF TooLarge, cells
    <2> HIDE DEF p
    <2>3. Max({p, file.size}) = IF p >= file.size THEN p ELSE file.size
        BY <2>1, MaxOf
    <2>4. p <= InlineMax
        BY <2>1, <2>2, <2>3, Bounds
    <2> QED BY <1>7, <1>9, <2>4 DEF p
<1>11. o \in Seq(Cell) /\ Len(o) = CacheSize
    <2>1. Len(file.cache.data) = CacheSize
        BY <1>8 DEF InlineOK
    <2>2. ~(p >= CacheSize) \/ p = CacheSize
        BY <1>7, <1>9, <1>10, <2>1, Bounds
    <2>3. file.pos <= Len(file.cache.data)
        BY <1>7, <1>9, <1>10, <2>1, Bounds
    <2>4. Len(o) = IF p >= CacheSize THEN p ELSE CacheSize
        BY <1>7, <1>9, <2>1, <2>3, OverlayOf
    <2>5. o \in Seq(Cell)
        BY <1>7, <1>9, <2>3, OverlayOf
    <2> HIDE DEF o, p
    <2> QED BY <2>2, <2>4, <2>5
<1> HIDE DEF o, p
<1>12. c2 \in Caches /\ c2.block = file.cache.block /\ c2.off = file.cache.off /\ c2.data = o
    BY <1>9, <1>11 DEF Caches
<1> HIDE DEF c2
<1>13. p \in 0 .. BlockSize /\ p \in 0 .. MaxSize
    BY <1>7, <1>10, Bounds
<1>14. f2 \in Handles
    BY Zenon, <1>2, <1>12, <1>13 DEF Handles
<1>15. /\ f2.pos = p /\ f2.size = file.size /\ f2.off = p
       /\ f2.writing /\ f2.reading = file.reading /\ f2.inline = file.inline
       /\ f2.head = file.head /\ f2.cache = c2 /\ f2.dirty = file.dirty
       /\ f2.block = Inline /\ f2.append = file.append
    BY <1>2 DEF Handles
<1> HIDE DEF f2
<1>16. Legal(Tail(todo), f2) /\ ~Is(Tail(todo), "extend")
    <2>1. f2.pos = file.pos + Len(todo[1].cells)
        BY <1>5, <1>15 DEF p, cells
    <2> QED BY <1>2, <1>6, <1>15, <2>1, PutDone
<1>17. InlineOK(f2)
    BY <1>8, <1>10, <1>11, <1>12, <1>15 DEF InlineOK
<1>18. file.append => p >= file.size
    <2>1. file.append => file.pos >= file.size
        BY <1>6, <1>9, SoundHandle DEF Starting
    <2> QED BY <1>7, <1>9, <2>1 DEF p
<1>19. HandleOK(disk, entry, f2, Tail(todo))
    BY <1>3, <1>6, <1>15, <1>16, <1>17, <1>18, SoundHandle DEF HandleOK
<1> QED BY <1>2, <1>3, <1>4, <1>5, <1>14, <1>16, <1>19 DEF Sound

LEMMA StartExtendKeeps ==
    ASSUME Sound(disk, entry, file, todo), StartExtend
    PROVE  Sound(disk', entry', file', todo')
<1> DEFINE found == ~file.writing /\ file.pos > 0
           from == IF found THEN CtzFind(disk, file.head, file.size, file.pos - 1).block
                   ELSE file.block
           f2 == IF found THEN [file EXCEPT !.block = from, !.cache = NoCache] ELSE file
           x == [op |-> "extend", head |-> from, size |-> file.pos]
<1>1. Is(todo, "put")
    BY DoingIs DEF StartExtend
<1>2. /\ disk \in Device(Cell) /\ entry \in Entries \union {Absent} /\ EntryOK(disk, entry)
      /\ file \in Handles /\ todo \in Seq(CallSteps) /\ Legal(todo, file)
    BY DEF Sound
<1>3. disk' = disk /\ entry' = entry /\ ~file.inline /\ NeedsBlock
    BY DEF StartExtend, storage
<1>4. file' = f2 /\ Go(<<x, Top>>)
    BY DEF StartExtend
<1>5. Putting(todo, file) /\ ~file.reading /\ Starting(file)
    BY <1>1, <1>2, LegalOf
<1>6. /\ file.pos \in Nat /\ file.size \in Nat /\ file.size <= MaxSize /\ file.pos <= MaxSize
      /\ file.off \in Nat /\ file.block \in Blocks \union {NoBlock, Inline}
      /\ file.pos \in 0 .. MaxSize
    BY <1>2, HandleType
<1>7. ASSUME ~file.writing PROVE file.head \in Blocks /\ file.cache = NoCache
                                 /\ IsList(disk, NoCache, file.head, file.size)
    BY Zenon, <1>3, <1>5, <1>7, SoundHandle, Bounds DEF RestingOK, OldOK
<1> DEFINE b == Block(disk, NoCache, file.head, file.size, Place[file.pos - 1].index)
<1>8. ASSUME found PROVE from = b /\ b \in Blocks
    <2> DEFINE q == file.pos - 1
    <2>1. q \in Nat /\ q < file.size
        BY <1>5, <1>6, <1>8 DEF Starting
    <2> HIDE DEF q
    <2>2. /\ CtzFind(disk, file.head, file.size, q)
             = [block |-> Block(disk, NoCache, file.head, file.size, Place[q].index),
                off |-> Place[q].off]
          /\ Block(disk, NoCache, file.head, file.size, Place[q].index) \in Blocks
        BY Zenon, <1>6, <1>7, <1>8, <2>1, FoundOf
    <2>3. CtzFind(disk, file.head, file.size, q).block
          = Block(disk, NoCache, file.head, file.size, Place[q].index)
        BY <2>2
    <2> QED BY <1>8, <2>2, <2>3 DEF q
<1>9. ~found => from = file.block
    OBVIOUS
<1> HIDE DEF from, b
<1>10. x \in CallSteps /\ x.op = "extend" /\ x.head = from /\ x.size = file.pos
    <2>1. from \in Blocks \union {NoBlock, Inline}
        BY <1>6, <1>8, <1>9
    <2> QED BY <1>6, <2>1, StepMade
<1> HIDE DEF x
<1>11. todo' = <<x>> \o todo
    BY <1>1, <1>2, <1>4, <1>10, GoneOn
<1>12. /\ todo' \in Seq(CallSteps) /\ Tail(todo') = todo /\ todo'[1] = x /\ Is(todo', "extend")
       /\ ~Is(todo', "put") /\ ~Is(todo', "relocate") /\ ~Is(todo', "settle") /\ ~Is(todo', "get")
       /\ todo' # <<>>
    BY <1>2, <1>10, <1>11, Pushed
<1>13. /\ f2 \in Handles
       /\ f2.pos = file.pos /\ f2.size = file.size /\ f2.off = file.off
       /\ f2.writing = file.writing /\ f2.reading = file.reading /\ f2.inline = file.inline
       /\ f2.head = file.head /\ f2.cache = file.cache /\ f2.dirty = file.dirty
       /\ f2.append = file.append
       /\ file.writing => f2 = file
    <2>1. CASE found
        <3> DEFINE g == [file EXCEPT !.block = from, !.cache = NoCache]
        <3>1. from \in Blocks
            BY <1>8, <2>1
        <3>2. g \in Handles
            BY Zenon, <1>2, <3>1, Bounds DEF Handles
        <3>3. /\ g.pos = file.pos /\ g.size = file.size /\ g.off = file.off
              /\ g.writing = file.writing /\ g.reading = file.reading /\ g.inline = file.inline
              /\ g.head = file.head /\ g.cache = NoCache /\ g.dirty = file.dirty
              /\ g.append = file.append
            BY <1>2 DEF Handles
        <3> HIDE DEF g
        <3>4. f2 = g
            BY <2>1 DEF g
        <3> QED BY <1>7, <2>1, <3>2, <3>3, <3>4
    <2>2. CASE ~found
        BY <1>2, <2>2
    <2> QED BY <2>1, <2>2
<1> HIDE DEF f2
<1>14. Legal(todo', f2)
    <2>1. Putting(todo, f2)
        BY <1>5, <1>13, PuttingFrame
    <2> QED BY Zenon, <1>3, <1>5, <1>12, <1>13, <2>1 DEF Legal, Extending, Starting
<1>15. ASSUME file.writing PROVE file.off = BlockSize
    BY <1>3, <1>15 DEF NeedsBlock
<1>16. OldOK(disk, f2)
    <2>1. OldOK(disk, file)
        BY <1>3, SoundHandle
    <2> QED BY <1>13, <2>1 DEF OldOK
<1>17. OutlinedOK(f2, todo')
    <2>1. OutlinedOK(file, todo)
        BY <1>3, SoundHandle
    <2>2. ASSUME file.head = Inline PROVE file.writing /\ file.size <= InlineMax /\ ~(file.pos < file.size)
        <3>1. file.writing /\ file.size <= InlineMax
            BY <2>1, <2>2 DEF OutlinedOK
        <3>2. file.pos < file.size => file.off = file.pos
            BY <2>1, <2>2 DEF OutlinedOK
        <3> QED BY <1>6, <1>15, <3>1, <3>2, Bounds
    <2> QED BY <1>13, <2>2 DEF OutlinedOK
<1>18. ~file.writing => RestingOK(f2, todo')
    BY <1>5, <1>7, <1>13 DEF RestingOK
<1>19. ASSUME file.writing PROVE TipOK(disk, entry, f2) /\ UnusedOK(f2, todo') /\ CacheOK(f2, todo')
    <2>1. f2 = file /\ TipOK(disk, entry, file) /\ CacheOK(file, todo)
        BY <1>3, <1>13, <1>19, SoundHandle
    <2>2. UnusedOK(f2, todo')
        BY <1>6, <1>15, <1>19, <2>1 DEF UnusedOK, Unused
    <2>3. CacheOK(f2, todo')
        BY <1>1, <1>12, <2>1 DEF CacheOK, Is
    <2> QED BY <2>1, <2>2, <2>3
<1>20. ExtendOK(disk, f2, x)
    <2>1. file.writing => file.block \in Blocks
        BY <1>3, SoundHandle DEF TipOK
    <2>2. file.writing => f2.block = file.block
        BY <1>13
    <2>3. file.pos > 0 => found \/ file.writing
        OBVIOUS
    <2>4. ~file.writing /\ file.pos > 0 => found
        OBVIOUS
    <2>5. file.writing => ~found
        OBVIOUS
    <2>6. found => from = Block(disk, NoCache, f2.head, f2.size, Place[f2.pos - 1].index)
                   /\ from \in Blocks
        BY <1>8, <1>13 DEF b
    <2>7. file.writing => from = file.block
        BY <1>9, <2>5
    <2> HIDE DEF found
    <2>8. f2.pos = 0 <=> x.size = 0
        BY <1>10, <1>13
    <2>9. f2.writing => f2.off = BlockSize /\ x.head = f2.block
        BY <1>10, <1>13, <1>15, <2>2, <2>7
    <2>10. ASSUME f2.pos > 0
           PROVE  /\ x.head \in Blocks
                  /\ Place[x.size - 1].off = Place[f2.pos - 1].off
                  /\ Place[f2.pos - 1].off = BlockSize - 1 => x.size = f2.pos
                  /\ ~f2.writing =>
                        x.head = Block(disk, NoCache, f2.head, f2.size, Place[f2.pos - 1].index)
        <3>1. x.head = from /\ x.size = f2.pos /\ f2.writing = file.writing /\ file.pos > 0
            BY <1>10, <1>13, <2>10
        <3> QED BY <2>1, <2>4, <2>6, <2>7, <3>1
    <2> QED BY <2>8, <2>9, <2>10 DEF ExtendOK
<1>21. HandleOK(disk, entry, f2, todo')
    <2>1. /\ f2.reading => ~f2.writing
          /\ f2.append /\ f2.writing => f2.pos >= f2.size
          /\ ~f2.dirty => entry # Absent /\ f2.head = entry.head /\ f2.size = entry.size
        BY <1>13, SoundHandle
    <2> QED BY <1>3, <1>12, <1>13, <1>16, <1>17, <1>18, <1>19, <1>20, <2>1 DEF HandleOK
<1> QED BY <1>2, <1>3, <1>4, <1>12, <1>13, <1>14, <1>21 DEF Sound

\* A cache that has been filled so far that nothing is left in it is written out.
LEMMA FullIsEmpty ==
    ASSUME NEW f \in Handles, NEW s, CacheOK(f, s), f.off = BlockSize,
           ~Is(s, "relocate")
    PROVE  f.cache = NoCache
<1>1. SUFFICES ASSUME f.cache # NoCache PROVE FALSE
    OBVIOUS
<1> DEFINE a == f.cache.off
           l == Len(f.cache.data)
<1>2. a % CacheSize = 0 /\ f.cache.data # <<>> /\ l < CacheSize /\ a + l = BlockSize
    BY <1>1 DEF CacheOK
<1>3. a \in Nat /\ l \in Nat /\ l > 0
    BY <1>2, HandleType
<1> HIDE DEF a, l
<1>4. BlockSize % CacheSize = 0
    BY SizeAssumption
<1>5. PICK q \in Nat : a = CacheSize * q
    BY <1>2, <1>3, AlignedIs
<1>6. (a + l) % CacheSize = l
    <2>1. a + l = (CacheSize * q) + l
        BY <1>5
    <2> QED BY <1>2, <1>3, <1>5, <2>1, AlignedIs, ModUnique
<1> QED BY <1>2, <1>3, <1>4, <1>6

\* What is written to a block that is free is not seen.
LEMMA FreshKeeps ==
    ASSUME Sound(disk, entry, file, todo), NEW b \in Free, NEW d2 \in Device(Cell),
           Same(disk, d2, b),
           ~file.inline /\ file.writing => file.pos = 0 \/ ~Unused(file)
    PROVE  /\ EntryOK(d2, entry)
           /\ Listed(entry) => BlocksOfEntry(d2, entry) = BlocksOfEntry(disk, entry)
           /\ ~file.inline =>
                 /\ OldOK(d2, file)
                 /\ NeedsOld(file) =>
                       /\ OldBlocks(d2, file) = OldBlocks(disk, file)
                       /\ \A p \in 1 .. file.size :
                             Block(d2, NoCache, file.head, file.size, Place[p - 1].index)
                             = Block(disk, NoCache, file.head, file.size, Place[p - 1].index)
           /\ ~file.inline /\ file.writing => TipOK(d2, entry, file)
<1>1. /\ disk \in Device(Cell) /\ entry \in Entries \union {Absent} /\ EntryOK(disk, entry)
      /\ file \in Handles
    BY DEF Sound
<1>2. /\ b \in Blocks
      /\ Listed(entry) => b \notin BlocksOfEntry(disk, entry)
      /\ ~file.inline /\ NeedsOld(file) => b \notin OldBlocks(disk, file)
      /\ ~file.inline /\ file.writing /\ file.pos > 0 /\ ~Unused(file) =>
            b \notin ListBlocks(disk, file.cache, file.block, TipSize(file))
    BY FreshOf
<1>3. /\ EntryOK(d2, entry)
      /\ Listed(entry) => BlocksOfEntry(d2, entry) = BlocksOfEntry(disk, entry)
    BY <1>1, <1>2, EntryFrame
<1>4. ASSUME ~file.inline
      PROVE  /\ OldOK(d2, file)
             /\ NeedsOld(file) =>
                   /\ OldBlocks(d2, file) = OldBlocks(disk, file)
                   /\ \A p \in 1 .. file.size :
                         Block(d2, NoCache, file.head, file.size, Place[p - 1].index)
                         = Block(disk, NoCache, file.head, file.size, Place[p - 1].index)
    <2>1. OldOK(disk, file)
        BY <1>4, SoundHandle
    <2> QED BY <1>1, <1>2, <1>4, <2>1, OldFrame
<1>5. ASSUME ~file.inline, file.writing PROVE TipOK(d2, entry, file)
    <2>1. TipOK(disk, entry, file)
        BY <1>5, SoundHandle
    <2>2. /\ IsSize(TipSize(file)) /\ (file.pos = 0 => LastNo(TipSize(file)) = 0)
          /\ file.block \in Blocks /\ file.pos \in Nat
          /\ IsList(disk, file.cache, file.block, TipSize(file))
        BY Zenon, <1>1, <2>1, TipFacts, HandleType DEF TipOK
    <2>3. IsList(d2, file.cache, file.block, TipSize(file))
        <3>1. CASE file.pos = 0
            BY <2>2, <3>1, ListOne
        <3>2. CASE file.pos # 0
            <4>1. b \notin ListBlocks(disk, file.cache, file.block, TipSize(file))
                BY <1>2, <1>5, <2>2, <3>2
            <4>2. ASSUME NEW x \in ListBlocks(disk, file.cache, file.block, TipSize(file)), NEW k \in Nat
                  PROVE  Pointer(d2, file.cache, x, k) = Pointer(disk, file.cache, x, k)
                BY <4>1 DEF Pointer, Peek, Same
            <4> QED BY <2>2, <4>2, ListSeen
        <3> QED BY <3>1, <3>2
    <2>4. file.head # Inline /\ file.pos < file.size => file.block \notin OldBlocks(d2, file)
        BY <1>4, <1>5, <2>1 DEF TipOK, NeedsOld
    <2> QED BY <1>3, <2>1, <2>3, <2>4 DEF TipOK
<1> QED BY <1>3, <1>4, <1>5

LEMMA FreshSound ==
    ASSUME Sound(disk, entry, file, todo), NEW b \in Free, NEW d2 \in Device(Cell),
           Same(disk, d2, b),
           ~file.inline /\ file.writing => file.pos = 0 \/ ~Unused(file)
    PROVE  Sound(d2, entry, file, todo)
<1>1. /\ entry \in Entries \union {Absent} /\ file \in Handles /\ todo \in Seq(CallSteps)
      /\ Legal(todo, file) /\ HandleOK(disk, entry, file, todo)
    BY DEF Sound
<1>2. /\ EntryOK(d2, entry)
      /\ ~file.inline => OldOK(d2, file)
      /\ ~file.inline /\ file.writing => TipOK(d2, entry, file)
    BY FreshKeeps
<1>3. ASSUME Is(todo, "extend") PROVE ExtendOK(d2, file, todo[1])
    <2>1. ~file.inline /\ Starting(file) /\ ~file.reading
        BY <1>1, <1>3, LegalOf
    <2>2. ExtendOK(disk, file, todo[1])
        BY <1>3, SoundHandle
    <2>3. file.pos \in Nat /\ file.size \in Nat
        BY <1>1, HandleType
    <2>4. ASSUME file.pos > 0, ~file.writing
          PROVE  Block(d2, NoCache, file.head, file.size, Place[file.pos - 1].index)
                 = Block(disk, NoCache, file.head, file.size, Place[file.pos - 1].index)
        <3>1. file.pos \in 1 .. file.size
            BY <2>1, <2>3, <2>4 DEF Starting
        <3>2. NeedsOld(file)
            BY Zenon, <2>1, <2>4, SoundHandle, Bounds DEF NeedsOld, RestingOK
        <3> QED BY <2>1, <3>1, <3>2, FreshKeeps
    <2> QED BY <2>2, <2>4 DEF ExtendOK
<1> QED BY <1>1, <1>2, <1>3 DEF Sound, HandleOK

\* The new list goes on in another block.
LEMMA TipMoved ==
    ASSUME Sound(disk, entry, file, todo), NEW b \in Free, NEW d2 \in Device(Cell),
           Same(disk, d2, b),
           NEW f2 \in Handles, f2.block = b, f2.head = file.head, f2.size = file.size,
           f2.pos = file.pos, f2.writing, file.inline => file.head = Inline,
           TipSize(f2) > 0, IsList(d2, f2.cache, b, TipSize(f2)),
           IF f2.off < BlockSize THEN Place[f2.pos].off = f2.off
           ELSE Place[f2.pos - 1].off = BlockSize - 1
    PROVE  EntryOK(d2, entry) /\ OldOK(d2, f2) /\ TipOK(d2, entry, f2)
<1>1. /\ entry \in Entries \union {Absent} /\ EntryOK(disk, entry)
      /\ file \in Handles
    BY DEF Sound
<1>2. /\ b \in Blocks
      /\ Listed(entry) => b \notin BlocksOfEntry(disk, entry)
      /\ ~file.inline /\ NeedsOld(file) => b \notin OldBlocks(disk, file)
    BY FreshOf
<1>3. /\ EntryOK(d2, entry)
      /\ Listed(entry) => BlocksOfEntry(d2, entry) = BlocksOfEntry(disk, entry)
    BY <1>1, <1>2, EntryFrame
<1>4. ASSUME f2.head # Inline, f2.pos < f2.size
      PROVE  IsList(d2, NoCache, f2.head, f2.size) /\ b \notin OldBlocks(d2, f2)
    <2>1. ~file.inline /\ NeedsOld(file)
        BY <1>4 DEF NeedsOld
    <2>2. OldOK(disk, file)
        BY <2>1, SoundHandle
    <2>3. OldOK(d2, file) /\ OldBlocks(d2, file) = OldBlocks(disk, file)
        BY <1>1, <1>2, <2>1, <2>2, OldFrame
    <2> QED BY <1>2, <1>4, <2>1, <2>3 DEF OldOK, OldBlocks
<1> QED BY <1>2, <1>3, <1>4 DEF OldOK, TipOK

\* More is written to the last block of the new list.
LEMMA TipKept ==
    ASSUME NEW d \in Device(Cell), NEW e, NEW f, NEW s, Sound(d, e, f, s), ~f.inline, f.writing,
           NEW d2 \in Device(Cell), Same(d, d2, f.block),
           NEW f2 \in Handles, f2.block = f.block, f2.head = f.head, f2.size = f.size,
           f2.pos >= f.pos, f2.writing,
           f2.cache = NoCache \/ f2.cache.block = f.block,
           \A k \in Nat : k < f.off => Peek(d2, f2.cache, f.block, k) = Peek(d, f.cache, f.block, k),
           IsSize(TipSize(f2)), LastNo(TipSize(f2)) = LastNo(TipSize(f)),
           IF f2.off < BlockSize THEN Place[f2.pos].off = f2.off
           ELSE Place[f2.pos - 1].off = BlockSize - 1
    PROVE  EntryOK(d2, e) /\ OldOK(d2, f2) /\ TipOK(d2, e, f2)
<1>1. /\ e \in Entries \union {Absent} /\ EntryOK(d, e) /\ f \in Handles
      /\ TipOK(d, e, f) /\ CacheOK(f, s) /\ OldOK(d, f)
    BY SoundHandle DEF Sound
<1>2. /\ f.block \in Blocks
      /\ Listed(e) => f.block \notin BlocksOfEntry(d, e)
      /\ f.head # Inline /\ f.pos < f.size => f.block \notin OldBlocks(d, f)
      /\ IsList(d, f.cache, f.block, TipSize(f))
    BY <1>1 DEF TipOK
<1>3. /\ EntryOK(d2, e)
      /\ Listed(e) => BlocksOfEntry(d2, e) = BlocksOfEntry(d, e)
    BY <1>1, <1>2, EntryFrame
<1>4. ASSUME f2.head # Inline, f2.pos < f2.size
      PROVE  IsList(d2, NoCache, f2.head, f2.size) /\ f2.block \notin OldBlocks(d2, f2)
    <2>1. f.pos < f.size
        BY <1>1, <1>4, HandleType
    <2>2. NeedsOld(f) /\ f.block \notin OldBlocks(d, f)
        BY <1>2, <1>4, <2>1 DEF NeedsOld
    <2>3. OldOK(d2, f) /\ OldBlocks(d2, f) = OldBlocks(d, f)
        BY <1>1, <2>2, OldFrame
    <2> QED BY <1>4, <2>1, <2>2, <2>3 DEF OldOK, OldBlocks
<1>5. IsList(d2, f2.cache, f.block, TipSize(f2))
    <2>1. /\ IsSize(TipSize(f))
          /\ LastNo(TipSize(f)) > 0 => \A k \in 0 .. Ctz[LastNo(TipSize(f))] :
                k \in Nat /\ PointerSize * k \in Nat /\ PointerSize * k < f.off
        BY <1>1, TipFacts
    <2>2. LastNo(TipSize(f)) > 0 => \A k \in 0 .. Ctz[LastNo(TipSize(f))] :
             Pointer(d2, f2.cache, f.block, k) = Pointer(d, f.cache, f.block, k)
        BY <2>1 DEF Pointer
    <2>3. f.cache = NoCache \/ f.cache.block = f.block
        BY <1>1 DEF CacheOK
    <2>4. ASSUME NEW x \in Blocks, x # f.block, NEW k \in Nat
          PROVE  Pointer(d2, f2.cache, x, k) = Pointer(d, f.cache, x, k)
        <3>1. f.cache.block # x /\ f2.cache.block # x
            BY <2>3, <2>4, NoCacheIs, Bounds
        <3>2. d2[x] = d[x]
            BY <2>4 DEF Same
        <3> QED BY <3>1, <3>2, PeekElsewhere DEF Pointer
    <2>5. \A x \in Blocks : x \notin {f.block, f.block} =>
             \A k \in Nat : Pointer(d2, f2.cache, x, k) = Pointer(d, f.cache, x, k)
        BY <2>4
    <2> DEFINE t == TipSize(f)
               t2 == TipSize(f2)
               c == f.cache
               c2 == f2.cache
               b == f.block
    <2>6. /\ IsSize(t) /\ IsSize(t2) /\ LastNo(t2) = LastNo(t) /\ b \in Blocks
          /\ IsList(d, c, b, t)
          /\ LastNo(t) > 0 => \A k \in 0 .. Ctz[LastNo(t)] :
                Pointer(d2, c2, b, k) = Pointer(d, c, b, k)
          /\ \A x \in Blocks : x \notin {b, b} =>
                \A k \in Nat : Pointer(d2, c2, x, k) = Pointer(d, c, x, k)
        BY <1>2, <2>1, <2>2, <2>5
    <2> HIDE DEF t, t2, c, c2, b
    <2>7. IsList(d2, c2, b, t2)
        BY <2>6, TipMade
    <2> QED BY <2>7 DEF t2, c2, b
<1>6. TipSize(f2) > 0
    BY DEF IsSize
<1> QED BY <1>2, <1>3, <1>4, <1>5, <1>6 DEF OldOK, TipOK

-----------------------------------------------------------------------------
(* A block is added to the new list.                                         *)

LEMMA ExtendFacts ==
    ASSUME Sound(disk, entry, file, todo), Is(todo, "extend")
    PROVE  /\ Top = todo[1] /\ Top \in CallSteps /\ Top.op = "extend"
           /\ Top.size \in Nat /\ Top.size <= MaxSize
           /\ Top.head \in Blocks \union {NoBlock, Inline}
           /\ Tail(todo) \in Seq(CallSteps) /\ Putting(Tail(todo), file)
           /\ ExtendOK(disk, file, Top)
           /\ ~file.inline /\ ~file.reading /\ Starting(file)
           /\ file.cache = NoCache
           /\ file.writing => file.off = BlockSize /\ file.pos > 0 /\ ~Unused(file)
           /\ file.pos > 0 =>
                 /\ Top.head \in Blocks
                 /\ IsList(disk, NoCache, Top.head, file.pos)
                 /\ \A b \in Free : b \notin ListBlocks(disk, NoCache, Top.head, file.pos)
<1>1. /\ file \in Handles /\ todo \in Seq(CallSteps) /\ Legal(todo, file)
    BY DEF Sound
<1>2. /\ Top = todo[1] /\ Top \in CallSteps /\ Top.op = "extend" /\ Tail(todo) \in Seq(CallSteps)
    BY <1>1, GoneOn
<1>3. /\ Top.size \in Nat /\ Top.size <= MaxSize
      /\ Top.head \in Blocks \union {NoBlock, Inline}
    BY <1>2, StepType
<1>4. /\ Putting(Tail(todo), file)
      /\ ~file.inline /\ ~file.reading /\ Starting(file)
    BY <1>1, LegalOf DEF Extending
<1>5. ExtendOK(disk, file, Top)
    BY <1>2, SoundHandle
<1>6. file.pos \in Nat /\ file.size \in Nat /\ file.off \in Nat /\ file.size <= MaxSize
    BY <1>1, HandleType
<1>7. ASSUME file.writing
      PROVE  /\ file.off = BlockSize /\ file.pos > 0 /\ ~Unused(file) /\ TipSize(file) = file.pos
             /\ TipOK(disk, entry, file) /\ CacheOK(file, todo)
             /\ file.cache = NoCache
    <2>1. TipOK(disk, entry, file) /\ CacheOK(file, todo) /\ file.off = BlockSize
        BY <1>4, <1>5, <1>7, SoundHandle DEF ExtendOK
    <2>2. ~(file.off < BlockSize)
        BY <2>1, Bounds
    <2>3. ~Unused(file) /\ TipSize(file) = file.pos
        BY <2>2 DEF Unused, TipSize
    <2>4. file.pos > 0
        BY <2>1, <2>3 DEF TipOK
    <2>5. file.cache = NoCache
        BY <1>1, <2>1, FullIsEmpty DEF Is
    <2> QED BY <2>1, <2>3, <2>4, <2>5
<1>8. ASSUME ~file.writing
      PROVE  /\ file.cache = NoCache /\ file.head \in Blocks
             /\ IsList(disk, NoCache, file.head, file.size)
    BY Zenon, <1>4, <1>8, SoundHandle, Bounds DEF RestingOK, OldOK
<1>9. ASSUME file.pos > 0
      PROVE  /\ Top.head \in Blocks
             /\ IsList(disk, NoCache, Top.head, file.pos)
             /\ \A b \in Free : b \notin ListBlocks(disk, NoCache, Top.head, file.pos)
    <2>1. CASE file.writing
        <3>1. Top.head = file.block
            BY <1>5, <2>1 DEF ExtendOK
        <3>2. file.block \in Blocks /\ IsList(disk, NoCache, file.block, file.pos)
            BY <1>7, <2>1 DEF TipOK
        <3>3. \A b \in Free : b \notin ListBlocks(disk, NoCache, file.block, file.pos)
            BY <1>4, <1>7, <1>9, <2>1, FreshOf
        <3> QED BY <3>1, <3>2, <3>3
    <2>2. CASE ~file.writing
        <3> DEFINE q == file.pos - 1
        <3>1. q \in Nat /\ q < file.size /\ q + 1 = file.pos
            BY <1>4, <1>6, <1>9, <2>2 DEF Starting
        <3>2. Top.head = Block(disk, NoCache, file.head, file.size, Place[q].index)
            BY <1>5, <1>9, <2>2 DEF ExtendOK
        <3> HIDE DEF q
        <3>3. /\ Top.head \in Blocks
              /\ IsList(disk, NoCache, Top.head, q + 1)
              /\ ListBlocks(disk, NoCache, Top.head, q + 1) \subseteq OldBlocks(disk, file)
            BY Zenon, <1>6, <1>8, <2>2, <3>1, <3>2, FoundOf DEF OldBlocks
        <3>4. NeedsOld(file)
            BY <1>8, <2>2, Bounds DEF NeedsOld
        <3>5. \A b \in Free : b \notin OldBlocks(disk, file)
            BY <1>4, <3>4, FreshOf
        <3> QED BY <3>1, <3>3, <3>5
    <2> QED BY <2>1, <2>2
<1> QED BY <1>2, <1>3, <1>4, <1>5, <1>7, <1>8, <1>9

\* What the new block starts with, and the list that it makes.
LEMMA HeaderOf ==
    ASSUME Sound(disk, entry, file, todo), Is(todo, "extend")
    PROVE  LET h == Header(Top.head, Top.size)
           IN  /\ h \in Seq(Cell) /\ Len(h) = Place[file.pos].off /\ Len(h) < BlockSize
               /\ file.pos = 0 => h = <<>>
               /\ CtzIndex(Top.size - 1).off + 1 = BlockSize /\ file.pos > 0 =>
                     Len(h) = PointerSize * Skips(CtzIndex(Top.size - 1).index + 1)
                     /\ h[1] = Top.head
               /\ \A b \in Free, d2 \in Device(Cell) : \A c2 :
                     /\ Same(disk, d2, b)
                     /\ c2 = NoCache \/ c2.block = b
                     /\ \A k \in 0 .. Len(h) - 1 : Peek(d2, c2, b, k) = h[k + 1]
                     => IsList(d2, c2, b, file.pos + 1)
<1> DEFINE h == Header(Top.head, Top.size)
           last == CtzIndex(Top.size - 1)
           p == file.pos
           Makes(b, d2, c2) == /\ Same(disk, d2, b)
                               /\ c2 = NoCache \/ c2.block = b
                               /\ \A k \in 0 .. Len(h) - 1 : Peek(d2, c2, b, k) = h[k + 1]
<1>1. /\ file \in Handles /\ disk \in Device(Cell)
    BY DEF Sound
<1>2. p \in Nat /\ p <= MaxSize /\ MaxSize <= Reach /\ p <= Reach /\ BlockSize \in Nat
      /\ Reach \in Nat /\ MaxSize \in Nat
    BY <1>1, HandleType, Bounds
<1>3. ExtendOK(disk, file, Top) /\ Top.size \in Nat /\ Top.size <= MaxSize
    BY ExtendFacts
<1>4. Place[p].off < BlockSize /\ Place[p].off \in Nat /\ IsSize(p + 1) /\ LastNo(p + 1) = Place[p].index
    <2>1. (p + 1) - 1 = p
        BY <1>2
    <2> HIDE DEF p
    <2>2. p + 1 \in Nat \ {0}
        BY <1>2
    <2> QED BY <1>2, <2>1, <2>2, PlaceType DEF IsSize, LastNo
<1>5. CASE p = 0
    <2>1. Top.size = 0
        BY <1>3, <1>5 DEF ExtendOK
    <2>2. h = <<>>
        BY <2>1 DEF Header
    <2> HIDE DEF h
    <2>3. Place[p] = [index |-> 0, off |-> 0]
        BY <1>2, <1>5, PlaceFirst, Bounds
    <2>4. \A b \in Free : \A d2, c2 : IsList(d2, c2, b, p + 1)
        BY <1>4, <2>3, ListOne DEF Free
    <2> QED BY <1>2, <1>5, <2>2, <2>3, <2>4, Bounds DEF h
<1>6. CASE p # 0
    <2> DEFINE q == p - 1
               H == Top.head
    <2>1. /\ H \in Blocks /\ IsList(disk, NoCache, H, p)
          /\ \A b \in Free : b \notin ListBlocks(disk, NoCache, H, p)
        BY <1>2, <1>6, ExtendFacts
    <2>2. /\ q \in Nat /\ q <= Reach /\ q + 1 = p
          /\ IsSize(p) /\ LastNo(p) = Place[q].index /\ q + 1 <= Reach
        BY <1>2, <1>6 DEF IsSize, LastNo
    <2>3. /\ Top.size > 0
          /\ last = Place[Top.size - 1]
          /\ last.off = Place[q].off
          /\ Place[q].off = BlockSize - 1 => last = Place[q]
        <3>1. Top.size # 0
            BY <1>2, <1>3, <1>6 DEF ExtendOK
        <3>2. Top.size > 0 /\ Top.size - 1 \in Nat /\ Top.size - 1 <= Reach
            BY <1>2, <1>3, <3>1
        <3>3. last = Place[Top.size - 1]
            BY <3>2, PlaceType
        <3>4. Place[Top.size - 1].off = Place[q].off
              /\ (Place[q].off = BlockSize - 1 => Top.size = p)
            BY <1>2, <1>3, <1>6 DEF ExtendOK
        <3> HIDE DEF last
        <3> QED BY <3>2, <3>3, <3>4
    <2>4. Place[q].off \in Nat /\ Place[q].off < BlockSize /\ Place[q].index \in Nat
        BY <2>2, PlaceType
    <2>5. CASE last.off + 1 # BlockSize
        <3> DEFINE m == last.off + 1
        <3>1. h = [k \in 1 .. m |-> Peek(disk, NoCache, H, k - 1)]
            BY <2>3, <2>5 DEF Header
        <3> HIDE DEF last, q
        <3>2. m \in Nat /\ m < BlockSize /\ m = Place[p].off /\ Place[p].index = Place[q].index
            <4>1. m = Place[q].off + 1 /\ Place[q].off + 1 < BlockSize
                BY <1>2, <2>3, <2>4, <2>5
            <4> QED BY <2>2, <2>4, <4>1, PlaceNext
        <3>3. m \in Nat
            BY <3>2
        <3> HIDE DEF m, p, H
        <3>4. ASSUME NEW k \in 1 .. m PROVE Peek(disk, NoCache, H, k - 1) \in Cell
            <4>1. k - 1 \in 0 .. BlockSize - 1
                BY <1>2, <3>2
            <4> QED BY <1>1, <4>1, Bounds, PeekType
        <3> DEFINE g(k) == Peek(disk, NoCache, H, k - 1)
        <3>5. h = [k \in 1 .. m |-> g(k)] /\ \A k \in 1 .. m : g(k) \in Cell
            BY <3>1, <3>4
        <3> HIDE DEF g, h
        <3>6. h \in Seq(Cell) /\ Len(h) = m
            BY <3>3, <3>5
        <3>7. \A k \in Nat : k < m => h[k + 1] = Peek(disk, NoCache, H, k)
            <4> TAKE k \in Nat
            <4> HAVE k < m
            <4>1. k + 1 \in 1 .. m /\ (k + 1) - 1 = k
                BY <3>3
            <4> QED BY <3>5, <4>1 DEF g
        <3>8. ASSUME NEW b \in Free, NEW d2 \in Device(Cell), NEW c2, Makes(b, d2, c2)
              PROVE  IsList(d2, c2, b, p + 1)
            <4>0. b \in Blocks /\ b \notin ListBlocks(disk, NoCache, H, p)
                BY <2>1 DEF Free
            <4>1. LastNo(p + 1) = LastNo(p)
                BY <1>4, <2>2, <3>2
            <4>2. ASSUME NEW x \in Blocks, x \notin {b, H}, NEW k \in Nat
                  PROVE  Pointer(d2, c2, x, k) = Pointer(disk, NoCache, x, k)
                <5>1. NoCache.block # x /\ c2.block # x
                    BY <3>8, <4>2, NoCacheIs, Bounds
                <5>2. d2[x] = disk[x]
                    BY <3>8, <4>2 DEF Same
                <5> QED BY <5>1, <5>2, PeekElsewhere DEF Pointer
            <4>3. ASSUME LastNo(p) > 0, NEW k \in 0 .. Ctz[LastNo(p)]
                  PROVE  Pointer(d2, c2, b, k) = Pointer(disk, NoCache, H, k)
                <5>1. k \in Nat /\ PointerSize * k \in Nat /\ PointerSize * k < Place[q].off
                    BY <2>2, <2>4, <4>3, PointerPlace
                <5> DEFINE j == PointerSize * k
                <5>2. j \in Nat /\ j < m /\ j \in 0 .. Len(h) - 1
                    <6>1. j \in Nat /\ j < m
                        <7> HIDE DEF j
                        <7>1. j \in Nat /\ j < Place[q].off
                            BY <5>1 DEF j
                        <7>2. m = last.off + 1
                            BY DEF m
                        <7> QED BY <2>3, <2>4, <7>1, <7>2
                    <6> HIDE DEF j
                    <6> QED BY <3>3, <3>6, <6>1
                <5> HIDE DEF j
                <5>3. Peek(d2, c2, b, j) = Peek(disk, NoCache, H, j)
                    BY <3>7, <3>8, <5>2
                <5> QED BY <5>3 DEF j, Pointer
            <4> QED BY <1>4, <2>1, <2>2, <4>0, <4>1, <4>2, <4>3, TipMade
        <3>9. last.off + 1 # BlockSize /\ Len(h) < BlockSize /\ Len(h) = Place[p].off /\ p # 0
            BY <1>6, <2>5, <3>2, <3>6
        <3> QED BY <3>6, <3>8, <3>9 DEF h, last, p
    <2>6. CASE last.off + 1 = BlockSize
        <3> DEFINE i == Place[q].index
        <3>1. last = Place[q] /\ Place[q].off + 1 = BlockSize
            BY <1>2, <2>3, <2>4, <2>6
        <3>2. h = NewPointers(disk, H, i + 1)
            BY <2>3, <2>6, <3>1 DEF Header
        <3> HIDE DEF last, q
        <3>3. Place[p].index = i + 1 /\ Place[p].off = PointerSize * Skips(i + 1)
            BY <2>2, <2>4, <3>1, PlaceNext
        <3>4. PICK B : /\ Lists(disk, NoCache, B, i) /\ B[i] = H
                       /\ ListBlocks(disk, NoCache, H, p) = {B[j] : j \in 0 .. i}
            BY <2>1, <2>2, ListPick
        <3>5. i \in Nat
            BY <2>4
        <3> HIDE DEF i, p, H, h
        <3>6. /\ h \in Seq(Blocks \union {Filler})
              /\ Len(h) = PointerSize * Skips(i + 1)
              /\ h[1] = H
            BY <3>2, <3>4, <3>5, PointersType DEF Lists
        <3>7. h \in Seq(Cell)
            <4>1. Blocks \union {Filler} \subseteq Cell
                BY DEF Cell
            <4> QED BY <3>6, <4>1
        <3>8. ASSUME NEW b \in Free, NEW d2 \in Device(Cell), NEW c2, Makes(b, d2, c2)
              PROVE  IsList(d2, c2, b, p + 1)
            <4>0. b \in Blocks /\ \A j \in 0 .. i : B[j] # b /\ B[j] \in Blocks
                <5>1. b \in Blocks /\ b \notin ListBlocks(disk, NoCache, H, p)
                    BY <2>1 DEF Free
                <5> QED BY <3>4, <5>1 DEF Lists, IsListOf
            <4> DEFINE n == i + 1
                       C == [j \in 0 .. n |-> IF j = n THEN b ELSE B[j]]
            <4>1. n \in Nat /\ n - 1 = i /\ n > 0
                BY <3>5
            <4>2. ASSUME NEW j \in 0 .. n - 1
                  PROVE  /\ B[j] # b
                         /\ \A k \in Nat : Pointer(d2, c2, B[j], k) = Pointer(disk, NoCache, B[j], k)
                <5>1. B[j] # b /\ B[j] \in Blocks
                    BY <4>0, <4>1
                <5>2. NoCache.block # B[j] /\ c2.block # B[j]
                    BY <3>8, <5>1, NoCacheIs, Bounds
                <5>3. d2[B[j]] = disk[B[j]]
                    BY <3>8, <5>1 DEF Same
                <5> QED BY <5>1, <5>2, <5>3, PeekElsewhere DEF Pointer
            <4>3. ASSUME NEW k \in 0 .. Ctz[n] PROVE Pointer(d2, c2, b, k) = B[n - Pow2[k]]
                <5> DEFINE j == PointerSize * k
                <5>1. j + 1 \in DOMAIN h /\ h[j + 1] = B[n - Pow2[k]]
                    BY <3>2, <3>4, <3>5, PointersAreRight DEF Lists
                <5>2. j \in Nat
                    BY <4>1, CtzDef, SizeAssumption
                <5> HIDE DEF j, n
                <5>3. j \in 0 .. Len(h) - 1
                    BY <3>7, <5>1, <5>2
                <5>4. Peek(d2, c2, b, j) = B[n - Pow2[k]]
                    BY <3>8, <5>1, <5>3
                <5> QED BY <5>4 DEF j, Pointer
            <4>4. Lists(disk, NoCache, B, n - 1)
                BY <3>4, <4>1
            <4> HIDE DEF n
            <4>5. Lists(d2, c2, C, n)
                BY <4>0, <4>1, <4>2, <4>3, <4>4, NewTip
            <4>6. C[n] = b
                BY <4>1
            <4> HIDE DEF C
            <4>7. LastNo(p + 1) = n
                BY <1>4, <3>3 DEF n
            <4>8. IsList(d2, c2, C[n], p + 1)
                BY <1>4, <4>5, <4>7, ListMade
            <4> QED BY <4>6, <4>8
        <3>9. Len(h) = Place[p].off /\ Len(h) < BlockSize /\ p # 0
              /\ Len(h) = PointerSize * Skips(last.index + 1)
            BY <1>4, <1>6, <3>1, <3>3, <3>6 DEF i
        <3>10. h[1] = H
            BY <3>6
        <3> QED BY <3>7, <3>8, <3>9, <3>10 DEF h, last, p, H
    <2> QED BY <2>5, <2>6
<1> QED BY <1>5, <1>6

LEMMA ExtendKeeps ==
    ASSUME Sound(disk, entry, file, todo), NEW b \in Blocks, Extend(b)
    PROVE  Sound(disk', entry', file', todo')
<1> DEFINE h == Header(Top.head, Top.size)
           d2 == Begun(disk, b, h)
           c2 == BegunCache(b, h)
           p == file.pos
           f2 == [file EXCEPT !.block = b, !.off = Len(h), !.writing = TRUE, !.cache = c2]
<1>1. Is(todo, "extend")
    BY DoingIs DEF Extend
<1>2. /\ disk \in Device(Cell) /\ entry \in Entries \union {Absent} /\ EntryOK(disk, entry)
      /\ file \in Handles /\ todo \in Seq(CallSteps) /\ Legal(todo, file)
    BY DEF Sound
<1>3. /\ Tail(todo) \in Seq(CallSteps) /\ Putting(Tail(todo), file)
      /\ ~file.inline /\ ~file.reading /\ Starting(file)
      /\ file.cache = NoCache
      /\ Top = todo[1]
    BY <1>1, ExtendFacts
<1>4. entry' = entry /\ disk' = d2 /\ file' = f2
    BY <1>3 DEF Extend, Begun, BegunCache
<1>5. todo' = Tail(todo)
    BY <1>1, <1>2, GoneOn DEF Extend
<1>6. b \in Free
    BY DEF Extend
<1>7. /\ h \in Seq(Cell) /\ Len(h) = Place[p].off /\ Len(h) < BlockSize
      /\ \A e2 \in Device(Cell) : \A c :
            /\ Same(disk, e2, b)
            /\ c = NoCache \/ c.block = b
            /\ \A k \in 0 .. Len(h) - 1 : Peek(e2, c, b, k) = h[k + 1]
            => IsList(e2, c, b, p + 1)
    BY <1>1, <1>6, HeaderOf
<1> HIDE DEF h
<1>8. Len(h) \in Nat /\ Len(h) <= BlockSize /\ p \in Nat
    BY <1>2, <1>7, HandleType, Bounds
<1>9. /\ d2 \in Device(Cell)
      /\ Same(disk, d2, b)
      /\ \A k \in 0 .. Len(h) - 1 : Peek(d2, c2, b, k) = h[k + 1]
      /\ \/ c2 = NoCache /\ Len(h) % CacheSize = 0
         \/ /\ c2 \in [block : {b}, off : Nat, data : Seq(Cell)]
            /\ c2.off % CacheSize = 0
            /\ c2.data # <<>>
            /\ Len(c2.data) < CacheSize
            /\ c2.off + Len(c2.data) = Len(h)
    BY <1>2, <1>7, <1>8, BegunOf, Bounds
<1> HIDE DEF d2, c2
<1>10. c2 = NoCache \/ c2.block = b
    BY <1>9
<1>11. c2 \in Caches
    BY <1>9, Bounds DEF Caches
<1>12. f2 \in Handles
    <2>1. Len(h) \in 0 .. BlockSize
        BY <1>8, Bounds
    <2> QED BY Zenon, <1>2, <1>11, <2>1 DEF Handles
<1>13. /\ f2.pos = p /\ f2.size = file.size /\ f2.off = Len(h)
       /\ f2.writing /\ f2.reading = file.reading /\ f2.inline = file.inline
       /\ f2.head = file.head /\ f2.cache = c2 /\ f2.dirty = file.dirty
       /\ f2.block = b /\ f2.append = file.append
    BY <1>2 DEF Handles
<1> HIDE DEF f2
<1>14. IsList(d2, f2.cache, b, TipSize(f2)) /\ TipSize(f2) > 0 /\ f2.off < BlockSize
    <2>1. TipSize(f2) = p + 1
        BY <1>7, <1>13 DEF TipSize
    <2> QED BY <1>7, <1>8, <1>9, <1>10, <1>13, <2>1
<1>15. EntryOK(d2, entry) /\ OldOK(d2, f2) /\ TipOK(d2, entry, f2)
    BY <1>3, <1>6, <1>7, <1>9, <1>12, <1>13, <1>14, TipMoved
<1>16. Is(Tail(todo), "put") /\ ~Is(Tail(todo), "relocate") /\ ~Is(Tail(todo), "settle")
       /\ ~Is(Tail(todo), "extend")
    BY <1>3 DEF Putting, Is
<1>17. CacheOK(f2, Tail(todo)) /\ UnusedOK(f2, Tail(todo))
    BY <1>7, <1>8, <1>9, <1>13, <1>16 DEF CacheOK, UnusedOK
<1>18. OutlinedOK(f2, Tail(todo))
    <2>1. OutlinedOK(file, todo)
        BY <1>3, SoundHandle
    <2>2. ~Is(todo, "put") /\ ~Is(todo, "relocate")
        BY <1>1 DEF Is
    <2> QED BY <1>13, <2>1, <2>2 DEF OutlinedOK
<1>19. Legal(Tail(todo), f2)
    <2>1. Putting(Tail(todo), f2)
        <3>1. CASE file.writing
            BY <1>3, <1>13, <3>1, PuttingFrame, <1>12, <1>2, HandleType
        <3>2. CASE ~file.writing
            BY Zenon, <1>3, <1>13, <3>2 DEF Putting
        <3> QED BY <3>1, <3>2
    <2> QED BY <1>3, <1>13, <2>1 DEF Legal, Starting
<1>20. /\ f2.append /\ f2.writing => f2.pos >= f2.size
       /\ ~f2.dirty => entry # Absent /\ f2.head = entry.head /\ f2.size = entry.size
    <2>1. file.append => file.pos >= file.size
        BY <1>2, <1>3, SoundHandle, HandleType DEF Starting
    <2>2. ~file.dirty => entry # Absent /\ file.head = entry.head /\ file.size = entry.size
        BY SoundHandle
    <2> QED BY <1>13, <2>1, <2>2
<1>21. HandleOK(d2, entry, f2, Tail(todo))
    BY <1>3, <1>13, <1>15, <1>16, <1>17, <1>18, <1>20 DEF HandleOK
<1> QED BY <1>2, <1>3, <1>4, <1>5, <1>9, <1>12, <1>15, <1>19, <1>21 DEF Sound

\* lfs_ctz_extend starts over with other arguments.
LEMMA ExtendAgain ==
    ASSUME NEW d, NEW e, NEW f, NEW s, Sound(d, e, f, s), Is(s, "extend"),
           NEW y \in CallSteps, y.op = "extend", ExtendOK(d, f, y)
    PROVE  Sound(d, e, f, <<y>> \o Tail(s))
<1> DEFINE s2 == <<y>> \o Tail(s)
<1>1. s \in Seq(CallSteps) /\ Legal(s, f) /\ Tail(s) \in Seq(CallSteps)
    BY Zenon, Popped DEF Sound
<1>2. /\ s2 \in Seq(CallSteps) /\ Is(s2, "extend") /\ s2[1] = y /\ Tail(s2) = Tail(s)
      /\ ~Is(s2, "put") /\ ~Is(s2, "relocate") /\ ~Is(s2, "settle") /\ ~Is(s2, "get")
      /\ s2 # <<>>
    BY Zenon, <1>1, Pushed
<1> HIDE DEF s2
<1>3. Legal(s2, f)
    <2>1. Extending(s, f) /\ ~f.inline /\ ~f.reading /\ Starting(f)
        BY <1>1, LegalOf
    <2> QED BY Zenon, <1>2, <2>1 DEF Legal, Extending
<1>4. ~Is(s, "put") /\ ~Is(s, "relocate") /\ ~Is(s, "settle") /\ ~Is(s, "get") /\ s # <<>>
    BY DEF Is
<1>5. /\ ~f.inline => OutlinedOK(f, s2)
      /\ ~f.inline /\ ~f.writing => RestingOK(f, s2)
      /\ ~f.inline /\ f.writing => UnusedOK(f, s2) /\ CacheOK(f, s2)
    <2>1. /\ ~f.inline => OutlinedOK(f, s)
          /\ ~f.inline /\ ~f.writing => RestingOK(f, s)
          /\ ~f.inline /\ f.writing => UnusedOK(f, s) /\ CacheOK(f, s)
        BY SoundHandle
    <2> QED BY <1>2, <1>4, <2>1 DEF OutlinedOK, RestingOK, UnusedOK, CacheOK
<1>6. HandleOK(d, e, f, s2)
    BY <1>2, <1>5 DEF HandleOK, Sound
<1> QED BY <1>2, <1>3, <1>6 DEF Sound, s2

LEMMA ExtendBadKeeps ==
    ASSUME Risks = {}, Sound(disk, entry, file, todo), NEW b \in Blocks, ExtendBad(b)
    PROVE  Sound(disk', entry', file', todo')
<1> DEFINE h == Header(Top.head, Top.size)
           c == Filled(file.cache, b, 0, h)
           last == CtzIndex(Top.size - 1)
<1>1. Is(todo, "extend")
    BY DoingIs DEF ExtendBad
<1>2. /\ disk \in Device(Cell) /\ entry \in Entries \union {Absent} /\ EntryOK(disk, entry)
      /\ file \in Handles /\ todo \in Seq(CallSteps) /\ Legal(todo, file)
    BY DEF Sound
<1>3. /\ Tail(todo) \in Seq(CallSteps)
      /\ ~file.inline /\ ~file.reading /\ Starting(file)
      /\ file.cache = NoCache
      /\ Top = todo[1] /\ Top.size \in Nat /\ Top.size <= MaxSize
      /\ Top.head \in Blocks \union {NoBlock, Inline}
      /\ ExtendOK(disk, file, Top)
      /\ file.writing => ~Unused(file)
    BY <1>1, ExtendFacts
<1>4. entry' = entry /\ b \in Free
    BY DEF ExtendBad
<1>5. file' = file
    <2>1. file' = [file EXCEPT !.cache = NoCache]
        BY DEF ExtendBad
    <2>2. [file EXCEPT !.cache = file.cache] = file
        BY <1>2 DEF Handles
    <2> QED BY <1>3, <2>1, <2>2
<1>6. Erased(disk, b) \in Device(Cell) /\ Same(disk, Erased(disk, b), b)
    BY <1>2, ErasedOf, Bounds
<1>7. CASE disk' = Erased(disk, b) /\ Go(<<Top>>)
    <2>1. todo' = todo
        BY <1>1, <1>2, <1>7, GoneOn
    <2> QED BY <1>3, <1>4, <1>5, <1>6, <1>7, <2>1, FreshSound
<1>8. ASSUME NEW j \in 1 .. Flushes(c),
             h # <<>>,
             LosesPlace(Top.size) => "pointers" \in Risks,
             disk' = Spoilt(Erased(disk, b), c, j),
             Go(<<[op |-> "extend", size |-> last.off + 1,
                   head |-> IF last.off + 1 # BlockSize THEN Top.head
                            ELSE h[PointerSize * ((j * CacheSize - 1) \div PointerSize) + 1]]>>)
      PROVE  Sound(disk', entry', file', todo')
    <2> DEFINE hd == IF last.off + 1 # BlockSize THEN Top.head
                     ELSE h[PointerSize * ((j * CacheSize - 1) \div PointerSize) + 1]
               y == [op |-> "extend", size |-> last.off + 1, head |-> hd]
               y2 == [op |-> "extend", head |-> Top.head, size |-> last.off + 1]
               q == file.pos - 1
    <2>1. /\ h \in Seq(Cell) /\ Len(h) < BlockSize
          /\ file.pos = 0 => h = <<>>
          /\ last.off + 1 = BlockSize /\ file.pos > 0 =>
                Len(h) = PointerSize * Skips(last.index + 1) /\ h[1] = Top.head
        BY <1>1, HeaderOf
    <2>2. /\ file.pos \in Nat /\ file.pos > 0 /\ file.pos <= MaxSize /\ MaxSize <= Reach
          /\ MaxSize \in Nat /\ Reach \in Nat /\ BlockSize \in Nat
        BY <1>2, <1>8, <2>1, HandleType, Bounds
    <2>3. /\ q \in Nat /\ q <= Reach /\ q + 1 = file.pos
          /\ Top.size > 0 /\ Top.size - 1 \in Nat /\ Top.size - 1 <= Reach
        <3>1. Top.size # 0
            BY <1>3, <2>2 DEF ExtendOK
        <3> QED BY <1>3, <2>2, <3>1
    <2>4. last = Place[Top.size - 1] /\ Place[Top.size - 1].off = Place[q].off
          /\ (Place[q].off = BlockSize - 1 => Top.size = file.pos)
        <3>1. last = Place[Top.size - 1]
            BY <2>3, PlaceType
        <3> HIDE DEF last
        <3> QED BY <1>3, <2>2, <3>1 DEF ExtendOK
    <2>5. Place[q].off \in Nat /\ Place[q].off < BlockSize /\ Place[q].off <= q
        BY <2>3, PlaceType, PlaceOff
    <2>6. c \in [block : {b}, off : Nat, data : Seq(Cell)] /\ Len(c.data) = Len(h)
        <3>1. Follows_(NoCache, b, 0) /\ 0 \in Nat /\ h \in Seq(Cell)
            BY <2>1 DEF Follows_
        <3>2. NoCache.data \in Seq(Cell)
            BY NoCacheIs
        <3> DEFINE F == Filled(NoCache, b, 0, h)
        <3>3. /\ F.block = b /\ F.off = 0 /\ F.data \in Seq(Cell)
              /\ F.off + Len(F.data) = 0 + Len(h)
            <4> HIDE DEF h
            <4> QED BY <3>1, <3>2, FilledOf
        <3>4. F = [block |-> F.block, off |-> F.off, data |-> F.data]
            BY DEF Filled
        <3>5. c = F
            BY <1>3
        <3> HIDE DEF F, c, h
        <3>6. c \in [block : {b}, off : Nat, data : Seq(Cell)]
            BY <3>3, <3>4, <3>5
        <3>7. Len(c.data) = Len(h)
            BY <2>1, <3>3, <3>5
        <3> QED BY <3>6, <3>7
    <2> HIDE DEF h, c, last, q
    <2>7. /\ j \in Nat \ {0} /\ j * CacheSize \in Nat /\ j * CacheSize > 0
          /\ j * CacheSize <= Len(h) /\ (j - 1) * CacheSize < Len(h) /\ Len(h) \in Nat
        <3>1. Len(h) \in Nat /\ Len(c.data) = Len(h)
            BY <2>1, <2>6
        <3> QED BY <3>1, FlushNo
    <2>8. last.off + 1 = BlockSize => last.index = 0 /\ hd = Top.head
        <3>1. SUFFICES ASSUME last.off + 1 = BlockSize PROVE last.index = 0 /\ hd = Top.head
            OBVIOUS
        <3>2. last.index = 0
            <4>1. ~LosesPlace(Top.size)
                BY <1>8
            <4>2. last.index \in Nat
                BY <2>3, <2>4, PlaceType
            <4> QED BY <3>1, <4>1, <4>2 DEF LosesPlace, last
        <3>3. Skips(last.index + 1) = 1
            <4>1. last.index + 1 = 1
                BY <3>2
            <4>2. Ctz[1] = 0
                BY CtzDef
            <4> QED BY <4>1, <4>2 DEF Skips
        <3>4. Len(h) = PointerSize /\ h[1] = Top.head
            BY <2>1, <2>2, <3>1, <3>3, SizeAssumption
        <3> DEFINE m == j * CacheSize
                   k == m - 1
        <3>5. m \in Nat /\ m > 0 /\ m <= PointerSize /\ PointerSize \in Nat
            BY <2>7, <3>4, SizeAssumption
        <3> HIDE DEF m
        <3>6. k \in Nat /\ k < PointerSize /\ PointerSize > 0
            BY <3>5
        <3> HIDE DEF k
        <3>7. k \div PointerSize = 0
            BY <3>5, <3>6
        <3>8. PointerSize * (k \div PointerSize) + 1 = 1
            BY <3>5, <3>7
        <3> QED BY <3>1, <3>2, <3>4, <3>8 DEF k, m
    <2>9. hd = Top.head
        BY <2>8
    <2> HIDE DEF hd
    <2>10. y = y2
        BY <2>9
    <2>11. last.off = Place[q].off /\ last.off \in Nat /\ last.off + 1 <= MaxSize
        BY <2>2, <2>3, <2>4, <2>5
    <2>12. y \in CallSteps /\ y.op = "extend" /\ y.head = Top.head /\ y.size = last.off + 1
        <3>1. last.off + 1 \in 0 .. MaxSize
            BY <2>2, <2>11
        <3>2. y2 \in CallSteps
            BY Zenon, <1>3, <3>1, StepMade
        <3> QED BY <2>10, <3>2
    <2>13. Go(<<y>>)
        BY <1>8 DEF hd, h, last
    <2> HIDE DEF y, y2
    <2>14. todo' = <<y>> \o Tail(todo)
        BY <1>1, <1>2, <2>12, <2>13, GoneOn
    <2>15. disk' \in Device(Cell) /\ Same(disk, disk', b)
        <3> DEFINE e1 == Erased(disk, b)
        <3>1. disk' = Spoilt(e1, c, j)
            BY <1>8 DEF c, h
        <3>2. e1 \in Device(Cell) /\ Same(disk, e1, b)
            BY <1>6
        <3> HIDE DEF e1
        <3>3. Spoilt(e1, c, j) \in Device(Cell) /\ Same(e1, Spoilt(e1, c, j), b)
            BY <2>6, <2>7, <3>2, SpoiltOf, Bounds
        <3> QED BY <3>1, <3>2, <3>3 DEF Same
    <2>16. Sound(disk', entry, file, todo)
        BY <1>3, <1>4, <2>15, FreshSound
    <2>17. ExtendOK(disk', file, Top)
        BY <1>1, <1>3, <2>16, SoundHandle
    <2>18. ExtendOK(disk', file, y)
        <3>1. Place[y.size - 1].off = Place[q].off
            <4>1. y.size - 1 = last.off
                BY <2>11, <2>12
            <4>2. Place[last.off] = [index |-> 0, off |-> last.off]
                BY <2>2, <2>3, <2>5, <2>11, PlaceFirst
            <4> QED BY <2>11, <4>1, <4>2
        <3>2. Place[q].off = BlockSize - 1 => y.size = file.pos
            <4>1. SUFFICES ASSUME Place[q].off = BlockSize - 1 PROVE y.size = file.pos
                OBVIOUS
            <4>2. Top.size - 1 = q /\ last.off + 1 = BlockSize
                BY <2>2, <2>3, <2>4, <2>11, <4>1
            <4>3. Place[q].index = 0
                BY <2>4, <2>8, <4>2
            <4>4. Place[q].off = q
                BY Zenon, <2>3, <4>3, PlaceFirst
            <4> QED BY <2>3, <2>11, <2>12, <4>4
        <3>3. y.size \in Nat /\ y.size > 0
            BY <2>11, <2>12
        <3> QED BY <2>2, <2>12, <2>17, <3>1, <3>2, <3>3 DEF ExtendOK, q
    <2>19. Sound(disk', entry, file, todo')
        BY <1>1, <2>12, <2>14, <2>16, <2>18, ExtendAgain
    <2> QED BY <1>4, <1>5, <2>19
<1> QED BY Zenon, <1>7, <1>8 DEF ExtendBad

-----------------------------------------------------------------------------
(* A write to the last block.                                                *)

LEMMA PutFacts ==
    ASSUME Sound(disk, entry, file, todo), Is(todo, "put"), ~file.inline, ~NeedsBlock
    PROVE  LET c == Filled(file.cache, file.block, file.off, SubSeq(Top.cells, 1, Chunk))
               more == SubSeq(Top.cells, Chunk + 1, Len(Top.cells))
           IN  /\ Top = todo[1] /\ Top.op = "put" /\ Len(Top.cells) \in Nat
               /\ file.writing /\ ~file.reading /\ Putting(todo, file)
               /\ file.off < BlockSize /\ file.block \in Blocks
               /\ Chunk \in Nat /\ Chunk > 0 /\ Chunk <= Len(Top.cells)
               /\ file.off + Chunk <= BlockSize
               /\ Chunk = Len(Top.cells) \/ file.off + Chunk = BlockSize
               /\ file.pos + Chunk <= MaxSize
               /\ more \in Seq(Cell) /\ Len(more) = Len(Top.cells) - Chunk
               /\ c \in [block : {file.block}, off : Nat, data : Seq(Cell)]
               /\ c.off % CacheSize = 0
               /\ c.off + Len(c.data) = file.off + Chunk
               /\ Len(c.data) > 0
               /\ \A d : \A k \in Nat : k < file.off =>
                     Peek(d, c, file.block, k) = Peek(d, file.cache, file.block, k)
<1> DEFINE cells == Top.cells
           L == Len(cells)
           room == BlockSize - file.off
           s == SubSeq(cells, 1, Chunk)
           c == Filled(file.cache, file.block, file.off, s)
           more == SubSeq(cells, Chunk + 1, L)
<1>1. /\ file \in Handles /\ todo \in Seq(CallSteps) /\ Legal(todo, file)
    BY DEF Sound
<1>2. Putting(todo, file) /\ ~file.reading /\ Top = todo[1] /\ Top.op = "put"
    BY <1>1, LegalOf, GoneOn
<1>3. cells \in Seq(Cell) /\ L \in Nat /\ L > 0 /\ file.pos + L <= MaxSize
    BY <1>1, <1>2, PutBounds
<1>4. /\ file.off \in Nat /\ file.off <= BlockSize /\ file.pos \in Nat /\ BlockSize \in Nat
      /\ MaxSize \in Nat
    BY <1>1, HandleType, Bounds
<1>5. file.writing /\ file.off # BlockSize
    BY DEF NeedsBlock
<1>6. file.off < BlockSize /\ room \in Int /\ room > 0
    BY <1>4, <1>5
<1>7. /\ TipOK(disk, entry, file) /\ CacheOK(file, todo) /\ file.block \in Blocks
    BY <1>5, SoundHandle DEF TipOK
<1> HIDE DEF cells
<1>8. /\ Chunk \in Nat /\ Chunk > 0 /\ Chunk <= L /\ file.off + Chunk <= BlockSize
      /\ Chunk = L \/ file.off + Chunk = BlockSize
    <2>1. Chunk = Min({L, room})
        BY DEF Chunk, cells
    <2> HIDE DEF room, L
    <2>2. Chunk = IF L <= room THEN L ELSE room
        BY <1>3, <1>6, <2>1, MinOf
    <2>3. Chunk \in Nat /\ Chunk > 0 /\ Chunk <= L /\ Chunk <= room /\ (Chunk = L \/ Chunk = room)
        BY <1>3, <1>6, <2>2
    <2> HIDE DEF room, L
    <2>4. file.off + Chunk <= BlockSize /\ (Chunk = room => file.off + Chunk = BlockSize)
        BY <1>4, <2>3 DEF room
    <2> QED BY <2>3, <2>4
<1> HIDE DEF L, room
<1>9. file.pos + Chunk <= MaxSize
    BY <1>3, <1>4, <1>8
<1>10. s \in Seq(Cell) /\ Len(s) = Chunk
    <2>1. \A i \in 1 .. Chunk : cells[i] \in Cell
        BY <1>3, <1>8 DEF L
    <2>2. 1 \in Int /\ Chunk \in Int /\ 1 <= Chunk /\ Chunk - 1 + 1 = Chunk
        BY <1>8
    <2> QED BY <2>1, <2>2, SubSeqProperties
<1>11. more \in Seq(Cell) /\ Len(more) = L - Chunk
    <2> DEFINE a == Chunk + 1
    <2>1. a \in Nat /\ a >= 1 /\ L \in Int
        BY <1>3, <1>8
    <2>2. CASE a <= L
        <3>1. \A i \in a .. L : cells[i] \in Cell
            BY <1>3, <2>1 DEF L
        <3>2. L - a + 1 = L - Chunk
            BY <1>3, <1>8
        <3> HIDE DEF a
        <3>3. SubSeq(cells, a, L) \in Seq(Cell) /\ Len(SubSeq(cells, a, L)) = L - a + 1
            BY <2>1, <2>2, <3>1, SubSeqProperties
        <3> QED BY <3>2, <3>3 DEF a
    <2>3. CASE ~(a <= L)
        <3>1. Chunk = L
            BY <1>3, <1>8, <2>3
        <3>2. L < a
            BY <1>3, <3>1
        <3> HIDE DEF a
        <3>3. SubSeq(cells, a, L) = <<>>
            BY <2>1, <3>2, SubSeqEmpty
        <3> QED BY <1>3, <3>1, <3>3 DEF a
    <2> QED BY <2>2, <2>3
<1> HIDE DEF s, more
<1>12. Follows_(file.cache, file.block, file.off)
    BY <1>1, <1>2, <1>7, HandleType DEF CacheOK, Follows_, Is
<1>13. /\ c.block = file.block
       /\ c.off = IF file.cache = NoCache THEN file.off ELSE file.cache.off
       /\ c.off \in Nat
       /\ c.data \in Seq(Cell)
       /\ c.off + Len(c.data) = file.off + Len(s)
       /\ Len(c.data) >= Len(s)
       /\ \A d : \A j \in Nat :
             Peek(d, c, file.block, j) = IF j \in file.off .. file.off + Len(s) - 1
                                         THEN s[j - file.off + 1]
                                         ELSE Peek(d, file.cache, file.block, j)
    <2> DEFINE fc == file.cache
               b == file.block
               k == file.off
    <2>1. fc.data \in Seq(Cell) /\ b \in Blocks /\ k \in Nat /\ s \in Seq(Cell) /\ Follows_(fc, b, k)
        BY <1>1, <1>4, <1>7, <1>10, <1>12, HandleType
    <2>2. c = Filled(fc, b, k, s)
        BY DEF c, s, cells
    <2> HIDE DEF fc, b, k, c
    <2>3. /\ c.block = b
          /\ c.off = IF fc = NoCache THEN k ELSE fc.off
          /\ c.off \in Nat
          /\ c.data \in Seq(Cell)
          /\ c.off + Len(c.data) = k + Len(s)
          /\ Len(c.data) >= Len(s)
          /\ \A d : \A j \in Nat :
                Peek(d, c, b, j) = IF j \in k .. k + Len(s) - 1 THEN s[j - k + 1]
                                   ELSE Peek(d, fc, b, j)
        BY <2>1, <2>2, FilledOf
    <2> QED BY <2>3 DEF fc, b, k
<1>14. c = [block |-> c.block, off |-> c.off, data |-> c.data]
    BY DEF Filled
<1> HIDE DEF c
<1>15. c \in [block : {file.block}, off : Nat, data : Seq(Cell)]
    BY <1>13, <1>14
<1>16. c.off % CacheSize = 0
    <2>1. ~Is(todo, "settle")
        BY <1>2 DEF Is, Putting
    <2>2. IF file.cache = NoCache THEN file.off % CacheSize = 0 ELSE file.cache.off % CacheSize = 0
        BY <1>7, <2>1, NoCacheIs DEF CacheOK
    <2> QED BY <1>13, <2>2
<1>17. c.off + Len(c.data) = file.off + Chunk /\ Len(c.data) > 0
    <2>1. Len(c.data) \in Nat
        BY <1>13
    <2> QED BY <1>8, <1>10, <1>13, <2>1
<1>18. \A d : \A k \in Nat : k < file.off =>
          Peek(d, c, file.block, k) = Peek(d, file.cache, file.block, k)
    BY <1>4, <1>13
<1> QED BY <1>2, <1>3, <1>5, <1>6, <1>7, <1>8, <1>9, <1>11, <1>15, <1>16, <1>17, <1>18
        DEF c, s, more, L, cells

\* Where the cells behind the last one lie.
LEMMA TipGrows ==
    ASSUME NEW p \in Nat, NEW o \in Nat, o < BlockSize, Place[p].off = o, NEW m \in Nat, m > 0,
           p + m <= Reach, o + m <= BlockSize
    PROVE  /\ Place[(p + m) - 1].index = Place[p].index
           /\ Place[(p + m) - 1].off = (o + m) - 1
           /\ o + m < BlockSize => /\ Place[p + m].index = Place[p].index
                                   /\ Place[p + m].off = o + m
<1>1. BlockSize \in Nat /\ Reach \in Nat
    BY Bounds
<1> DEFINE l == m - 1
<1>2. l \in Nat /\ p + l = (p + m) - 1 /\ p + l <= Reach /\ o + l < BlockSize /\ o + l = (o + m) - 1
    BY <1>1
<1> HIDE DEF l
<1>3. Place[p + l].index = Place[p].index /\ Place[p + l].off = o + l
    BY <1>2, PlaceRun
<1>4. o + m < BlockSize => /\ Place[p + m].index = Place[p].index
                           /\ Place[p + m].off = o + m
    BY Zenon, PlaceRun
<1> QED BY <1>2, <1>3, <1>4

LEMMA PutKeeps ==
    ASSUME Sound(disk, entry, file, todo), Put
    PROVE  Sound(disk', entry', file', todo')
<1> DEFINE L == Len(Top.cells)
           c == Filled(file.cache, file.block, file.off, SubSeq(Top.cells, 1, Chunk))
           n == Flushes(c)
           more == SubSeq(Top.cells, Chunk + 1, L)
           d2 == Written(disk, c, n * CacheSize)
           c2 == Kept(c, n)
           p == file.pos + Chunk
           o == file.off + Chunk
           e == file.erred /\ more # <<>>
           f2 == [file EXCEPT !.cache = c2, !.pos = p, !.off = o, !.erred = e]
<1>1. Is(todo, "put") /\ ~file.inline /\ ~NeedsBlock
    BY DoingIs DEF Put
<1>2. /\ disk \in Device(Cell) /\ entry \in Entries \union {Absent} /\ EntryOK(disk, entry)
      /\ file \in Handles /\ todo \in Seq(CallSteps) /\ Legal(todo, file)
    BY DEF Sound
<1>3. entry' = entry /\ disk' = d2 /\ file' = f2
    BY DEF Put
<1>4. Go(IF more = <<>> THEN <<>> ELSE PutStep(more))
    BY DEF Put
<1>5. /\ Top = todo[1] /\ Top.op = "put" /\ L \in Nat
      /\ file.writing /\ ~file.reading /\ Putting(todo, file)
      /\ file.off < BlockSize /\ file.block \in Blocks
      /\ Chunk \in Nat /\ Chunk > 0 /\ Chunk <= L
      /\ o <= BlockSize
      /\ Chunk = L \/ o = BlockSize
      /\ p <= MaxSize
      /\ more \in Seq(Cell) /\ Len(more) = L - Chunk
      /\ c \in [block : {file.block}, off : Nat, data : Seq(Cell)]
      /\ c.off % CacheSize = 0
      /\ c.off + Len(c.data) = o
      /\ Len(c.data) > 0
      /\ \A d : \A k \in Nat : k < file.off =>
            Peek(d, c, file.block, k) = Peek(d, file.cache, file.block, k)
    BY <1>1, PutFacts
<1>6. /\ file.pos \in Nat /\ file.size \in Nat /\ file.size <= MaxSize /\ file.off \in Nat
      /\ file.erred \in BOOLEAN /\ BlockSize \in Nat /\ MaxSize \in Nat /\ MaxSize <= Reach
      /\ Reach \in Nat
    BY <1>2, HandleType, Bounds
<1> HIDE DEF L, c, more
<1>7. /\ d2 \in Device(Cell)
      /\ \A x \in Blocks : x # file.block => d2[x] = disk[x]
      /\ \A j \in 0 .. BlockSize - 1 : Peek(d2, c2, file.block, j) = Peek(disk, c, file.block, j)
      /\ \/ c2 = NoCache /\ o % CacheSize = 0
         \/ /\ c2 \in [block : {file.block}, off : Nat, data : Seq(Cell)]
            /\ c2.off % CacheSize = 0
            /\ c2.data # <<>>
            /\ Len(c2.data) < CacheSize
            /\ c2.off + Len(c2.data) = o
    <2> HIDE DEF o
    <2> QED BY <1>2, <1>5, FlushedOf
<1> HIDE DEF d2, c2
<1>8. p \in Nat /\ p \in 0 .. MaxSize /\ o \in Nat /\ o \in 0 .. BlockSize /\ p > 0 /\ o > 0
      /\ p <= Reach /\ p > file.pos
    <2> DEFINE q == Chunk
               x == file.pos
               y == file.off
    <2>1. /\ q \in Nat /\ q > 0 /\ x \in Nat /\ y \in Nat /\ BlockSize \in Nat /\ MaxSize \in Nat
          /\ x + q <= MaxSize /\ y + q <= BlockSize /\ MaxSize <= Reach /\ Reach \in Nat
        BY <1>5, <1>6
    <2> HIDE DEF q, x, y
    <2>2. /\ x + q \in Nat /\ x + q \in 0 .. MaxSize /\ y + q \in Nat /\ y + q \in 0 .. BlockSize
          /\ x + q > 0 /\ y + q > 0 /\ x + q <= Reach /\ x + q > x
        BY <2>1
    <2> QED BY <2>2 DEF q, x, y
<1>9. TipOK(disk, entry, file) /\ CacheOK(file, todo)
    BY <1>1, <1>5, SoundHandle
<1>10. Place[file.pos].off = file.off
    BY <1>5, <1>9 DEF TipOK
<1>11. /\ Place[p - 1].index = Place[file.pos].index
       /\ Place[p - 1].off = o - 1
       /\ o < BlockSize => /\ Place[p].index = Place[file.pos].index
                           /\ Place[p].off = o
    <2> DEFINE q == Chunk
               x == file.pos
               y == file.off
    <2>1. /\ q \in Nat /\ q > 0 /\ x \in Nat /\ y \in Nat /\ y < BlockSize
          /\ x + q <= Reach /\ y + q <= BlockSize /\ Place[x].off = y
        BY <1>5, <1>6, <1>8, <1>10
    <2> HIDE DEF q, x, y
    <2>2. /\ Place[(x + q) - 1].index = Place[x].index
          /\ Place[(x + q) - 1].off = (y + q) - 1
          /\ y + q < BlockSize => /\ Place[x + q].index = Place[x].index
                                  /\ Place[x + q].off = y + q
        BY <2>1, TipGrows
    <2> QED BY <2>2 DEF q, x, y
<1> HIDE DEF p, o, e
<1>12. c2 \in Caches /\ (c2 = NoCache \/ c2.block = file.block)
    <2>1. CASE c2 = NoCache
        BY <2>1, Bounds
    <2>2. CASE c2 # NoCache
        BY <1>5, <1>7, <2>2 DEF Caches
    <2> QED BY <2>1, <2>2
<1>13. e \in BOOLEAN
    BY DEF e
<1>14. f2 \in Handles
    BY Zenon, <1>2, <1>8, <1>12, <1>13 DEF Handles
<1>15. /\ f2.pos = p /\ f2.size = file.size /\ f2.off = o
       /\ f2.writing = file.writing /\ f2.reading = file.reading /\ f2.inline = file.inline
       /\ f2.head = file.head /\ f2.cache = c2 /\ f2.dirty = file.dirty
       /\ f2.block = file.block /\ f2.append = file.append
    BY <1>2 DEF Handles
<1> HIDE DEF f2
<1>16. /\ IsSize(TipSize(f2)) /\ LastNo(TipSize(f2)) = LastNo(TipSize(file))
       /\ IF f2.off < BlockSize THEN Place[f2.pos].off = f2.off
          ELSE Place[f2.pos - 1].off = BlockSize - 1
    <2>1. TipSize(file) = file.pos + 1 /\ (file.pos + 1) - 1 = file.pos
        BY <1>5, <1>6 DEF TipSize
    <2>2. LastNo(TipSize(file)) = Place[file.pos].index
        BY <2>1 DEF LastNo
    <2>3. CASE o < BlockSize
        <3>1. TipSize(f2) = p + 1 /\ (p + 1) - 1 = p /\ p + 1 \in Nat \ {0}
            BY <1>8, <1>15, <2>3 DEF TipSize
        <3> QED BY <1>8, <1>11, <1>15, <2>2, <2>3, <3>1 DEF IsSize, LastNo
    <2>4. CASE ~(o < BlockSize)
        <3>1. TipSize(f2) = p /\ o = BlockSize
            BY <1>5, <1>6, <1>8, <1>15, <2>4 DEF TipSize
        <3>2. p \in Nat \ {0} /\ p - 1 <= Reach
            BY <1>6, <1>8
        <3> QED BY <1>8, <1>11, <1>15, <2>2, <2>4, <3>1, <3>2 DEF IsSize, LastNo
    <2> QED BY <2>3, <2>4
<1>17. EntryOK(d2, entry) /\ OldOK(d2, f2) /\ TipOK(d2, entry, f2)
    <2>1. Same(disk, d2, file.block)
        BY <1>7 DEF Same
    <2>2. ASSUME NEW k \in Nat, k < file.off
          PROVE  Peek(d2, f2.cache, file.block, k) = Peek(disk, file.cache, file.block, k)
        <3>1. k \in 0 .. BlockSize - 1
            BY <1>5, <1>6, <2>2
        <3> QED BY <1>5, <1>7, <1>15, <2>2, <3>1
    <2>3. f2.pos >= file.pos /\ f2.writing
        BY <1>5, <1>6, <1>8, <1>15
    <2> QED BY <1>1, <1>2, <1>5, <1>7, <1>12, <1>14, <1>15, <1>16, <2>1, <2>2, <2>3, TipKept
<1>18. ~Unused(f2)
    <2>1. p # 0
        BY <1>8
    <2> QED BY <1>11, <1>15, <2>1 DEF Unused
<1>19. ASSUME NEW t, ~Is(t, "relocate"), ~Is(t, "settle")
       PROVE  CacheOK(f2, t) /\ UnusedOK(f2, t)
    <2>1. UnusedOK(f2, t)
        BY <1>18 DEF UnusedOK
    <2>2. CacheOK(f2, t)
        BY <1>5, <1>7, <1>15, <1>19 DEF CacheOK
    <2> QED BY <2>1, <2>2
<1>20. \A t : OutlinedOK(f2, t)
    <2>1. SUFFICES ASSUME file.head = Inline PROVE file.size <= InlineMax /\ ~(p < file.size)
        BY <1>5, <1>15 DEF OutlinedOK
    <2>2. OutlinedOK(file, todo)
        BY <1>1, SoundHandle
    <2>3. file.size <= InlineMax
        BY <2>1, <2>2 DEF OutlinedOK
    <2>4. CASE file.pos < file.size
        <3>1. file.off = file.pos /\ file.pos + L >= file.size
            BY <1>1, <1>5, <2>1, <2>2, <2>4 DEF OutlinedOK, Is, L
        <3>2. p = o
            BY <3>1 DEF p, o
        <3>3. CASE Chunk = L
            BY <1>5, <1>6, <2>3, <3>1, <3>3 DEF p
        <3>4. CASE o = BlockSize
            BY <1>6, <2>3, <3>2, <3>4, Bounds
        <3> QED BY <1>5, <2>3, <3>3, <3>4
    <2>5. CASE ~(file.pos < file.size)
        BY <1>6, <1>8, <2>3, <2>5
    <2> QED BY <2>4, <2>5
<1>21. /\ f2.append /\ f2.writing => f2.pos >= f2.size
       /\ ~f2.dirty => entry # Absent /\ f2.head = entry.head /\ f2.size = entry.size
       /\ f2.reading => ~f2.writing
    <2>1. file.append => file.pos >= file.size
        BY <1>5, SoundHandle
    <2> QED BY <1>5, <1>6, <1>8, <1>15, <2>1, SoundHandle
<1>22. ASSUME NEW t \in Seq(CallSteps), Legal(t, f2),
              ~Is(t, "relocate"), ~Is(t, "settle"), ~Is(t, "extend")
       PROVE  Sound(d2, entry, f2, t)
    <2>1. HandleOK(d2, entry, f2, t)
        BY <1>1, <1>5, <1>15, <1>17, <1>19, <1>20, <1>21, <1>22 DEF HandleOK
    <2> QED BY <1>2, <1>7, <1>14, <1>17, <1>22, <2>1 DEF Sound
<1>23. CASE more = <<>>
    <2>1. todo' = Tail(todo) /\ Tail(todo) \in Seq(CallSteps)
        BY <1>1, <1>2, <1>4, <1>23, GoneOn
    <2>2. Chunk = L
        <3>1. Len(more) = 0
            BY <1>23
        <3> QED BY <1>5, <3>1
    <2>3. f2.pos = file.pos + Len(todo[1].cells)
        BY <1>5, <1>15, <2>2 DEF p, L
    <2>4. /\ Legal(Tail(todo), f2)
          /\ \A op \in {"extend", "relocate", "settle", "put", "get"} : ~Is(Tail(todo), op)
        BY Zenon, <1>2, <1>5, <1>15, <2>3, PutDone
    <2> QED BY Zenon, <1>3, <1>22, <2>1, <2>4
<1>24. CASE more # <<>>
    <2> DEFINE x == [op |-> "put", cells |-> more]
    <2>1. x \in CallSteps /\ x.op = "put" /\ x.cells = more
        BY <1>5, StepMade
    <2>2. Go(<<x>>)
        BY <1>4, <1>24 DEF PutStep
    <2> HIDE DEF x
    <2>3. todo' = <<x>> \o Tail(todo) /\ Tail(todo) \in Seq(CallSteps)
        BY <1>1, <1>2, <2>1, <2>2, GoneOn
    <2>4. /\ todo' \in Seq(CallSteps) /\ Tail(todo') = Tail(todo) /\ todo'[1] = x /\ Is(todo', "put")
          /\ ~Is(todo', "extend") /\ ~Is(todo', "relocate") /\ ~Is(todo', "settle")
        BY Zenon, <2>1, <2>3, Pushed
    <2>5. f2.pos + Len(todo'[1].cells) = file.pos + Len(todo[1].cells)
        <3>1. p + Len(more) = file.pos + L
            BY <1>5, <1>6 DEF p
        <3> QED BY Zenon, <1>5, <1>15, <2>1, <2>4, <3>1 DEF L
    <2>6. ASSUME Copying(Tail(todo), file), file.pos + Len(todo[1].cells) <= file.size
          PROVE  Copying(Tail(todo), f2)
        <3>1. p <= file.size /\ file.pos <= file.size
            <4>1. file.pos + L <= file.size
                BY <1>5, <2>6 DEF L
            <4> QED BY SMTT(60), <1>5, <1>6, <4>1 DEF p
        <3>2. SizeOf(f2) = SizeOf(file)
            BY <1>5, <1>6, <1>8, <1>15, <3>1 DEF SizeOf
        <3> QED BY <1>15, <2>6, <3>2, FlushedFrame
    <2>7. Putting(todo', f2)
        <3>1. todo'[1].cells # <<>>
            BY <1>24, <2>1, <2>4
        <3>2. \/ Tail(todo) = <<>> /\ file.pos + Len(todo[1].cells) <= MaxSize
              \/ FillsUp(Tail(todo)) /\ file.pos + Len(todo[1].cells) <= Tail(todo)[1].to
              \/ Copying(Tail(todo), file) /\ file.pos + Len(todo[1].cells) <= file.size
            BY Zenon, <1>5 DEF Putting
        <3> QED BY Zenon, <1>1, <1>5, <1>15, <2>4, <2>5, <2>6, <3>1, <3>2 DEF Putting
    <2>8. Legal(todo', f2)
        BY <1>5, <1>15, <2>7 DEF Legal, Starting
    <2> QED BY <1>3, <1>22, <2>4, <2>8
<1> QED BY <1>23, <1>24

-----------------------------------------------------------------------------
(* A block that turns out bad is left for another.                           *)

\* The last block of the new list, while it is written: the cache keeps what is lost.
LEMMA GoesBad ==
    ASSUME Sound(disk, entry, file, todo), ~file.inline, file.writing,
           NEW d2 \in Device(Cell), Same(disk, d2, file.block),
           NEW c2 \in [block : {file.block}, off : Nat, data : Seq(Cell)],
           c2.off % CacheSize = 0, c2.data # <<>>, c2.off + Len(c2.data) <= BlockSize,
           \A k \in Nat : k < file.off =>
              Peek(d2, c2, file.block, k) = Peek(disk, file.cache, file.block, k),
           file.pos > 0 => ~Unused(file),
           \/ Is(todo, "put") /\ c2.off + Len(c2.data) >= file.off
           \/ Is(todo, "drain") /\ Len(c2.data) < CacheSize /\ c2.off + Len(c2.data) = file.off,
           Go(Step("relocate") \o <<Top>>)
    PROVE  Sound(d2, entry, [file EXCEPT !.cache = c2], todo')
<1> DEFINE f2 == [file EXCEPT !.cache = c2]
           m == [op |-> "relocate"]
<1>1. /\ disk \in Device(Cell) /\ entry \in Entries \union {Absent} /\ EntryOK(disk, entry)
      /\ file \in Handles /\ todo \in Seq(CallSteps) /\ Legal(todo, file)
    BY DEF Sound
<1>2. m \in CallSteps /\ m.op = "relocate"
    BY StepMade
<1>3. Go(<<m>> \o <<Top>>)
    BY DEF Step
<1> HIDE DEF m
<1>4. todo' = <<m>> \o todo
    BY Zenon, <1>1, <1>2, <1>3, GoneOn
<1>5. /\ todo' \in Seq(CallSteps) /\ Tail(todo') = todo /\ Is(todo', "relocate")
      /\ ~Is(todo', "extend") /\ ~Is(todo', "put") /\ ~Is(todo', "settle")
    BY <1>1, <1>2, <1>4, Pushed
<1>6. c2 \in Caches /\ c2.block = file.block /\ file.block \in Blocks
    <2>1. file.block \in Blocks
        BY SoundHandle DEF TipOK
    <2> QED BY <2>1 DEF Caches
<1>7. /\ f2 \in Handles
      /\ f2.pos = file.pos /\ f2.size = file.size /\ f2.off = file.off
      /\ f2.writing /\ f2.reading = file.reading /\ f2.inline = file.inline
      /\ f2.head = file.head /\ f2.cache = c2 /\ f2.dirty = file.dirty
      /\ f2.block = file.block /\ f2.append = file.append
    <2>1. f2 \in Handles
        BY Zenon, <1>1, <1>6 DEF Handles
    <2> QED BY <1>1, <2>1 DEF Handles
<1> HIDE DEF f2
<1>8. TipOK(disk, entry, file) /\ ~file.reading
    BY SoundHandle
<1>9. EntryOK(d2, entry) /\ OldOK(d2, f2) /\ TipOK(d2, entry, f2)
    <2>1. IsSize(TipSize(file)) /\ TipSize(f2) = TipSize(file)
        BY <1>1, <1>7, <1>8, TipFacts DEF TipSize
    <2>2. file.pos \in Nat
        BY <1>1, HandleType
    <2>3. IF f2.off < BlockSize THEN Place[f2.pos].off = f2.off
          ELSE Place[f2.pos - 1].off = BlockSize - 1
        BY <1>7, <1>8 DEF TipOK
    <2>4. f2.pos >= file.pos
        BY <1>7, <2>2
    <2> QED BY <1>1, <1>6, <1>7, <2>1, <2>3, <2>4, TipKept
<1>10. UnusedOK(f2, todo')
    BY <1>7 DEF UnusedOK, Unused
<1>11. CacheOK(f2, todo')
    <2>1. Is(todo, "drain") => ~Is(todo, "put")
        BY DEF Is
    <2> QED BY Zenon, <1>5, <1>6, <1>7, <2>1 DEF CacheOK
<1>12. OutlinedOK(f2, todo')
    <2>1. OutlinedOK(file, todo)
        BY SoundHandle
    <2>2. ~Is(todo, "relocate")
        BY DEF Is
    <2> QED BY Zenon, <1>5, <1>7, <2>1, <2>2 DEF OutlinedOK
<1>13. Legal(todo', f2)
    <2>1. CASE Is(todo, "put")
        <3>1. Putting(todo, file)
            BY <1>1, <2>1, LegalOf
        <3>2. Putting(todo, f2)
            BY Zenon, <1>7, <3>1, PuttingFrame
        <3> QED BY Zenon, <1>5, <1>7, <1>8, <3>2 DEF Legal, Moving
    <2>2. CASE Is(todo, "drain")
        <3>1. Draining(todo, file) /\ file.pos >= file.size
            BY <1>1, <2>2, LegalOf
        <3>2. Draining(todo, f2)
            BY Zenon, <1>7, <3>1, PuttingFrame
        <3> QED BY Zenon, <1>5, <1>7, <3>1, <3>2 DEF Legal, Moving
    <2> QED BY <2>1, <2>2
<1>14. HandleOK(d2, entry, f2, todo')
    <2>1. /\ f2.append /\ f2.writing => f2.pos >= f2.size
          /\ ~f2.dirty => entry # Absent /\ f2.head = entry.head /\ f2.size = entry.size
        BY <1>7, SoundHandle
    <2> QED BY <1>5, <1>7, <1>8, <1>9, <1>10, <1>11, <1>12, <2>1 DEF HandleOK
<1>15. Sound(d2, entry, f2, todo')
    BY <1>1, <1>5, <1>7, <1>9, <1>13, <1>14 DEF Sound
<1> QED BY <1>15 DEF f2

LEMMA PutBadKeeps ==
    ASSUME Risks = {}, Sound(disk, entry, file, todo), PutBad
    PROVE  Sound(disk', entry', file', todo')
<1> DEFINE c == Filled(file.cache, file.block, file.off, SubSeq(Top.cells, 1, Chunk))
<1>1. Is(todo, "put") /\ ~file.inline /\ ~NeedsBlock
    BY DoingIs DEF PutBad
<1>2. /\ disk \in Device(Cell) /\ file \in Handles
    BY DEF Sound
<1>3. entry' = entry /\ Go(Step("relocate") \o <<Top>>) /\ ~AtBoundary
    BY DEF PutBad
<1>4. PICK j \in 1 .. Flushes(c) :
         /\ disk' = Spoilt(disk, c, j)
         /\ file' = [file EXCEPT !.cache = IF j = 1 THEN c ELSE Kept(c, j - 1)]
    BY DEF PutBad
<1>5. /\ file.writing /\ file.off < BlockSize /\ file.block \in Blocks
      /\ Chunk \in Nat /\ Chunk > 0 /\ file.off + Chunk <= BlockSize
      /\ c \in [block : {file.block}, off : Nat, data : Seq(Cell)]
      /\ c.off % CacheSize = 0
      /\ c.off + Len(c.data) = file.off + Chunk
      /\ \A d : \A k \in Nat : k < file.off =>
            Peek(d, c, file.block, k) = Peek(d, file.cache, file.block, k)
    BY <1>1, PutFacts
<1>6. file.pos \in Nat /\ file.pos <= Reach /\ file.off \in Nat /\ BlockSize \in Nat
    BY <1>2, HandleType, Bounds
<1> HIDE DEF c
<1> DEFINE d2 == Spoilt(disk, c, j)
           c2 == IF j = 1 THEN c ELSE Kept(c, j - 1)
<1>7. /\ d2 \in Device(Cell)
      /\ Same(disk, d2, file.block)
      /\ \A k \in 0 .. BlockSize - 1 :
            k < c.off + Len(c.data) => Peek(d2, c2, file.block, k) = Peek(disk, c, file.block, k)
      /\ c2 \in [block : {file.block}, off : Nat, data : Seq(Cell)]
      /\ c2.off % CacheSize = 0
      /\ c2.data # <<>>
      /\ c2.off + Len(c2.data) = c.off + Len(c.data)
    <2>1. Len(c.data) \in Nat
        BY <1>5
    <2>2. j \in Nat \ {0} /\ (j - 1) * CacheSize < Len(c.data)
        BY <2>1, FlushNo
    <2> DEFINE b == file.block
    <2>3. b \in Blocks /\ c \in [block : {b}, off : Nat, data : Seq(Cell)]
        BY <1>5
    <2> HIDE DEF b
    <2>4. d2 \in Device(Cell) /\ Same(disk, d2, b)
        BY <1>2, <2>2, <2>3, SpoiltOf, Bounds
    <2>5. \A k \in 0 .. BlockSize - 1 :
             k < c.off + Len(c.data) => Peek(d2, c2, b, k) = Peek(disk, c, b, k)
        BY <1>2, <2>2, <2>3, SpoiltOf, Bounds
    <2>6. c2 \in [block : {b}, off : Nat, data : Seq(Cell)]
        BY <1>2, <2>2, <2>3, SpoiltOf, Bounds
    <2>7. /\ c.off % CacheSize = 0 => c2.off % CacheSize = 0
          /\ c2.data # <<>>
          /\ c2.off + Len(c2.data) = c.off + Len(c.data)
        BY <1>2, <2>2, <2>3, SpoiltOf, Bounds
    <2> HIDE DEF d2, c2
    <2> QED BY <1>5, <2>4, <2>5, <2>6, <2>7 DEF b
<1>8. disk' = d2 /\ file' = [file EXCEPT !.cache = c2]
    BY <1>4
<1> HIDE DEF d2, c2
<1>9. c2.off + Len(c2.data) <= BlockSize /\ c2.off + Len(c2.data) >= file.off
    <2> DEFINE x == c2.off + Len(c2.data)
               q == Chunk
    <2>1. x = file.off + q /\ q \in Nat /\ file.off + q <= BlockSize
        BY <1>5, <1>7
    <2> HIDE DEF x, q
    <2>2. x <= BlockSize /\ x >= file.off
        BY <1>6, <2>1
    <2> QED BY <2>2 DEF x
<1>10. ASSUME NEW k \in Nat, k < file.off
       PROVE  Peek(d2, c2, file.block, k) = Peek(disk, file.cache, file.block, k)
    <2>1. k \in 0 .. BlockSize - 1
        BY <1>5, <1>6, <1>10
    <2>2. k < c.off + Len(c.data)
        <3> DEFINE x == c.off + Len(c.data)
                   q == Chunk
        <3>1. x = file.off + q /\ q \in Nat
            BY <1>5
        <3> HIDE DEF x, q
        <3>2. k < x
            BY <1>6, <1>10, <3>1
        <3> QED BY <3>2 DEF x
    <2> QED BY <1>5, <1>7, <1>10, <2>1, <2>2
<1>11. file.pos > 0 => ~Unused(file)
    <2>1. SUFFICES ASSUME file.pos > 0 PROVE Place[file.pos - 1].index = Place[file.pos].index
        BY <1>6 DEF Unused
    <2> DEFINE p == file.pos
    <2>2. p - 1 \in Nat /\ p - 1 <= Reach /\ p \in Nat /\ p <= Reach
        BY <1>6, <2>1, Bounds
    <2>3. CtzIndex(p - 1) = Place[p - 1] /\ CtzIndex(p) = Place[p]
        BY <2>2, PlaceType
    <2> QED BY <1>3, <2>1, <2>3 DEF AtBoundary
<1>12. Sound(d2, entry, [file EXCEPT !.cache = c2], todo')
    BY Zenon, <1>1, <1>3, <1>5, <1>7, <1>9, <1>10, <1>11, GoesBad
<1> QED BY <1>3, <1>8, <1>12

LEMMA DrainFacts ==
    ASSUME Sound(disk, entry, file, todo), Is(todo, "drain")
    PROVE  /\ Draining(todo, file) /\ file.writing /\ ~file.inline /\ file.pos >= file.size
           /\ file.pos > 0 => ~Unused(file)
           /\ file.block \in Blocks
           /\ \/ file.cache = NoCache /\ file.cache.block = NoBlock
              \/ /\ file.cache \in [block : {file.block}, off : Nat, data : Seq(Cell)]
                 /\ file.cache.block # NoBlock
                 /\ file.cache.off % CacheSize = 0
                 /\ file.cache.data # <<>>
                 /\ Len(file.cache.data) < CacheSize
                 /\ file.cache.off + Len(file.cache.data) = file.off
<1>1. /\ file \in Handles /\ todo \in Seq(CallSteps) /\ Legal(todo, file)
    BY DEF Sound
<1>2. Draining(todo, file) /\ file.writing /\ ~file.inline /\ file.pos >= file.size
    BY <1>1, LegalOf
<1>3. TipOK(disk, entry, file) /\ UnusedOK(file, todo) /\ CacheOK(file, todo)
    BY <1>2, SoundHandle
<1>4. ~Is(todo, "put") /\ ~Is(todo, "relocate")
    BY DEF Is
<1>5. file.block \in Blocks
    BY <1>3 DEF TipOK
<1>6. file.pos > 0 => ~Unused(file)
    BY <1>3, <1>4 DEF UnusedOK
<1>7. \/ file.cache = NoCache
      \/ /\ file.cache.block = file.block
         /\ file.cache.off % CacheSize = 0
         /\ file.cache.data # <<>>
         /\ Len(file.cache.data) < CacheSize
         /\ file.cache.off + Len(file.cache.data) = file.off
    BY <1>3, <1>4 DEF CacheOK
<1>8. file.cache = NoCache \/ file.cache \in [block : {file.block}, off : Nat, data : Seq(Cell)]
    BY <1>1, <1>3, CacheFacts
<1> QED BY <1>2, <1>5, <1>6, <1>7, <1>8, NoCacheIs, Bounds

LEMMA DrainBadKeeps ==
    ASSUME Sound(disk, entry, file, todo), DrainBad
    PROVE  Sound(disk', entry', file', todo')
<1> DEFINE c == file.cache
           b == file.block
           d2 == Spoilt(disk, c, 1)
<1>1. Is(todo, "drain")
    BY DoingIs DEF DrainBad
<1>2. /\ disk \in Device(Cell) /\ file \in Handles
    BY DEF Sound
<1>3. /\ entry' = entry /\ file' = file /\ disk' = d2 /\ Go(Step("relocate") \o <<Top>>)
      /\ c.block # NoBlock
    BY DEF DrainBad
<1>4. /\ file.writing /\ ~file.inline
      /\ file.pos > 0 => ~Unused(file)
    BY <1>1, DrainFacts
<1>5. /\ b \in Blocks
      /\ c \in [block : {b}, off : Nat, data : Seq(Cell)]
      /\ c.off % CacheSize = 0
      /\ c.data # <<>>
      /\ Len(c.data) < CacheSize
      /\ c.off + Len(c.data) = file.off
    BY <1>1, <1>3, DrainFacts
<1>6. file.off \in Nat /\ file.off <= BlockSize /\ BlockSize \in Nat /\ CacheSize \in Nat
    BY <1>2, HandleType, Bounds
<1>7. [file EXCEPT !.cache = c] = file
    BY <1>2 DEF Handles
<1> HIDE DEF c, b
<1>8. /\ d2 \in Device(Cell)
      /\ Same(disk, d2, b)
      /\ \A k \in 0 .. BlockSize - 1 : k < file.off => Peek(d2, c, b, k) = Peek(disk, c, b, k)
    <2> DEFINE j == 1
               c2 == IF j = 1 THEN c ELSE Kept(c, j - 1)
    <2>1. j \in Nat \ {0} /\ (j - 1) * CacheSize < Len(c.data)
        <3>1. Len(c.data) \in Nat /\ Len(c.data) > 0
            BY <1>5
        <3>2. 0 * CacheSize = 0
            BY <1>6
        <3> QED BY <3>1, <3>2
    <2>2. c2 = c /\ d2 = Spoilt(disk, c, j)
        OBVIOUS
    <2> HIDE DEF j
    <2>3. /\ Spoilt(disk, c, j) \in Device(Cell)
          /\ Same(disk, Spoilt(disk, c, j), b)
          /\ \A k \in 0 .. BlockSize - 1 : k < c.off + Len(c.data) =>
                Peek(Spoilt(disk, c, j), c2, b, k) = Peek(disk, c, b, k)
        BY <1>2, <1>5, <2>1, SpoiltOf, Bounds
    <2> HIDE DEF c2, d2
    <2> QED BY <1>5, <2>2, <2>3
<1> HIDE DEF d2
<1>9. ASSUME NEW k \in Nat, k < file.off PROVE Peek(d2, c, b, k) = Peek(disk, c, b, k)
    <2>1. k \in 0 .. BlockSize - 1
        BY <1>6, <1>9
    <2> QED BY <1>8, <1>9, <2>1
<1>10. c.off + Len(c.data) <= BlockSize
    BY <1>5, <1>6
<1>11. /\ Same(disk, d2, file.block)
       /\ c \in [block : {file.block}, off : Nat, data : Seq(Cell)]
       /\ \A k \in Nat : k < file.off =>
             Peek(d2, c, file.block, k) = Peek(disk, file.cache, file.block, k)
    <2>1. b = file.block /\ c = file.cache
        BY DEF b, c
    <2> QED BY <1>5, <1>8, <1>9, <2>1
<1>12. Sound(d2, entry, [file EXCEPT !.cache = c], todo')
    BY <1>1, <1>3, <1>4, <1>5, <1>8, <1>10, <1>11, GoesBad
<1> QED BY <1>3, <1>7, <1>12

LEMMA DrainKeeps ==
    ASSUME Sound(disk, entry, file, todo), Drain
    PROVE  Sound(disk', entry', file', todo')
<1> DEFINE c == file.cache
           b == file.block
           d2 == IF c.block = NoBlock THEN disk ELSE Written(disk, c, Len(c.data))
           f2 == [file EXCEPT !.cache = NoCache]
<1>1. Is(todo, "drain")
    BY DoingIs DEF Drain
<1>2. /\ disk \in Device(Cell) /\ entry \in Entries \union {Absent} /\ EntryOK(disk, entry)
      /\ file \in Handles /\ todo \in Seq(CallSteps)
    BY DEF Sound
<1>3. entry' = entry /\ disk' = d2 /\ file' = f2
    BY DEF Drain
<1>4. todo' = Tail(todo) /\ Tail(todo) \in Seq(CallSteps)
    BY <1>1, <1>2, GoneOn DEF Drain
<1>5. /\ Draining(todo, file) /\ file.writing /\ ~file.inline /\ file.pos >= file.size
      /\ file.pos > 0 => ~Unused(file)
      /\ b \in Blocks
      /\ \/ c = NoCache /\ c.block = NoBlock
         \/ c \in [block : {b}, off : Nat, data : Seq(Cell)] /\ c.block # NoBlock
    BY <1>1, DrainFacts
<1>6. ~file.reading /\ TipOK(disk, entry, file)
    BY <1>5, SoundHandle
<1>7. file.off \in Nat /\ file.off <= BlockSize /\ BlockSize \in Nat /\ file.pos \in Nat
    BY <1>2, HandleType, Bounds
<1>8. /\ d2 \in Device(Cell)
      /\ Same(disk, d2, b)
      /\ \A k \in Nat : k < file.off => Peek(d2, NoCache, b, k) = Peek(disk, c, b, k)
    <2> HIDE DEF b, c
    <2>1. CASE c = NoCache /\ c.block = NoBlock
        BY <1>2, <2>1 DEF Same
    <2>2. CASE c \in [block : {b}, off : Nat, data : Seq(Cell)] /\ c.block # NoBlock
        <3> DEFINE w == Written(disk, c, Len(c.data))
        <3>1. d2 = w
            BY <2>2
        <3>2. /\ w \in Device(Cell)
              /\ Same(disk, w, b)
              /\ \A k \in 0 .. BlockSize - 1 : Peek(w, NoCache, b, k) = Peek(disk, c, b, k)
            BY <1>2, <1>5, <2>2, DrainedOf
        <3> HIDE DEF w, d2
        <3>3. ASSUME NEW k \in Nat, k < file.off PROVE Peek(w, NoCache, b, k) = Peek(disk, c, b, k)
            <4>1. k \in 0 .. BlockSize - 1
                BY <1>7, <3>3
            <4> QED BY <3>2, <4>1
        <3> QED BY <3>1, <3>2, <3>3
    <2> QED BY <1>5, <2>1, <2>2
<1> HIDE DEF d2
<1>9. /\ f2 \in Handles
      /\ f2.pos = file.pos /\ f2.size = file.size /\ f2.off = file.off
      /\ f2.writing /\ ~f2.reading /\ ~f2.inline /\ f2.inline = file.inline
      /\ f2.writing = file.writing
      /\ f2.head = file.head /\ f2.cache = NoCache /\ f2.dirty = file.dirty
      /\ f2.block = file.block /\ f2.append = file.append
    <2>1. f2 \in Handles
        BY Zenon, <1>2, Bounds DEF Handles
    <2> QED BY Zenon, <1>2, <1>5, <1>6, <2>1 DEF Handles
<1> HIDE DEF f2
<1>10. EntryOK(d2, entry) /\ OldOK(d2, f2) /\ TipOK(d2, entry, f2)
    <2>1. IsSize(TipSize(file)) /\ TipSize(f2) = TipSize(file)
        BY <1>2, <1>6, <1>9, TipFacts DEF TipSize
    <2>2. IF f2.off < BlockSize THEN Place[f2.pos].off = f2.off
          ELSE Place[f2.pos - 1].off = BlockSize - 1
        BY <1>6, <1>9 DEF TipOK
    <2>3. f2.pos >= file.pos
        BY <1>7, <1>9
    <2>4. /\ Same(disk, d2, file.block)
          /\ \A k \in Nat : k < file.off =>
                Peek(d2, f2.cache, file.block, k) = Peek(disk, file.cache, file.block, k)
        BY <1>8, <1>9
    <2> QED BY <1>2, <1>5, <1>8, <1>9, <2>1, <2>2, <2>3, <2>4, TipKept
<1>11. Settling(Tail(todo), f2) /\ Is(Tail(todo), "settle") /\ ~Is(Tail(todo), "extend")
    <2>1. Settling(Tail(todo), file)
        BY <1>5 DEF Draining
    <2>2. Settling(Tail(todo), f2)
        BY <1>9, <2>1, PuttingFrame
    <2> QED BY <2>2 DEF Settling, Is
<1>12. UnusedOK(f2, Tail(todo)) /\ CacheOK(f2, Tail(todo)) /\ OutlinedOK(f2, Tail(todo))
    <2>1. OutlinedOK(file, todo) /\ ~(file.pos < file.size)
        BY <1>2, <1>5, SoundHandle, HandleType
    <2> QED BY <1>5, <1>9, <1>11, <2>1 DEF UnusedOK, Unused, CacheOK, OutlinedOK
<1>13. /\ f2.append /\ f2.writing => f2.pos >= f2.size
       /\ ~f2.dirty => entry # Absent /\ f2.head = entry.head /\ f2.size = entry.size
    BY <1>5, <1>9, SoundHandle
<1>14. HandleOK(d2, entry, f2, Tail(todo))
    BY <1>9, <1>10, <1>11, <1>12, <1>13 DEF HandleOK
<1>15. Legal(Tail(todo), f2)
    BY <1>5, <1>9, <1>11 DEF Legal
<1> QED BY <1>2, <1>3, <1>4, <1>8, <1>9, <1>10, <1>14, <1>15 DEF Sound

LEMMA MovingFacts ==
    ASSUME Sound(disk, entry, file, todo), Is(todo, "relocate")
    PROVE  /\ Moving(todo, file) /\ ~file.reading
           /\ file.inline =>
                 /\ file.off = file.pos /\ file.pos <= InlineMax
                 /\ InlineOK(file)
           /\ ~file.inline =>
                 /\ file.writing /\ TipOK(disk, entry, file)
                 /\ file.pos > 0 => ~Unused(file)
<1>1. /\ file \in Handles /\ todo \in Seq(CallSteps) /\ Legal(todo, file)
    BY DEF Sound
<1>2. Moving(todo, file)
    BY <1>1, LegalOf
<1>3. ~file.reading
    BY <1>2, SoundHandle DEF Moving
<1>4. ASSUME file.inline
      PROVE  file.off = file.pos /\ file.pos <= InlineMax /\ InlineOK(file)
    <2>1. InlineOK(file)
        BY <1>4, SoundHandle
    <2>2. file.size <= InlineMax /\ (file.writing => file.pos <= InlineMax)
        BY <2>1 DEF InlineOK
    <2>3. file.off = file.pos /\ (file.pos = file.size \/ Starting(file))
        BY <1>2, <1>4 DEF Moving
    <2>4. ~file.writing => file.pos <= file.size
        BY <1>1, <2>3, HandleType DEF Starting
    <2>5. file.pos \in Nat /\ file.size \in Nat /\ InlineMax \in Nat
        BY <1>1, HandleType, Bounds
    <2> QED BY <2>1, <2>2, <2>3, <2>4, <2>5
<1>5. ASSUME ~file.inline
      PROVE  file.writing /\ TipOK(disk, entry, file) /\ (file.pos > 0 => ~Unused(file))
    <2>1. file.writing
        BY <1>2, <1>5 DEF Moving
    <2>2. TipOK(disk, entry, file) /\ UnusedOK(file, todo)
        BY <1>5, <2>1, SoundHandle
    <2>3. ~Is(todo, "put")
        BY DEF Is
    <2> QED BY <2>1, <2>2, <2>3 DEF UnusedOK
<1> QED BY <1>2, <1>3, <1>4, <1>5

LEMMA RelocateBadKeeps ==
    ASSUME Sound(disk, entry, file, todo), NEW b \in Blocks, RelocateBad(b)
    PROVE  Sound(disk', entry', file', todo')
<1>1. Is(todo, "relocate")
    BY DoingIs DEF RelocateBad
<1>2. /\ disk \in Device(Cell) /\ file \in Handles /\ todo \in Seq(CallSteps)
    BY DEF Sound
<1>3. b \in Free /\ disk' = Erased(disk, b) /\ entry' = entry /\ file' = file /\ Go(<<Top>>)
    BY DEF RelocateBad
<1>4. todo' = todo
    BY <1>1, <1>2, <1>3, GoneOn
<1>5. Erased(disk, b) \in Device(Cell) /\ Same(disk, Erased(disk, b), b)
    BY <1>2, ErasedOf, Bounds
<1>6. ~file.inline /\ file.writing => file.pos = 0 \/ ~Unused(file)
    BY <1>1, <1>2, MovingFacts, HandleType
<1>7. Sound(Erased(disk, b), entry, file, todo)
    BY <1>3, <1>5, <1>6, FreshSound
<1> QED BY <1>3, <1>4, <1>7

\* What is copied to the new block, and the list that ends with it.
LEMMA CopiedOf ==
    ASSUME Sound(disk, entry, file, todo), Is(todo, "relocate")
    PROVE  /\ Copied \in Seq(Cell) /\ Len(Copied) = file.off
           /\ \A b \in Free, d2 \in Device(Cell) : \A c2 :
                 /\ Same(disk, d2, b)
                 /\ c2 = NoCache \/ c2.block = b
                 /\ \A k \in 0 .. Len(Copied) - 1 : Peek(d2, c2, b, k) = Copied[k + 1]
                 => IsList(d2, c2, b, TipSize(file))
           /\ TipSize(file) > 0
           /\ IF file.off < BlockSize THEN Place[file.pos].off = file.off
              ELSE Place[file.pos - 1].off = BlockSize - 1
           /\ file.inline => ~Unused(file) \/ file.pos = 0
<1> DEFINE h == Copied
           n == file.off
<1>1. /\ disk \in Device(Cell) /\ file \in Handles /\ todo \in Seq(CallSteps)
    BY DEF Sound
<1>2. /\ file.pos \in Nat /\ file.pos <= Reach /\ n \in Nat /\ n <= BlockSize /\ BlockSize \in Nat
      /\ file.cache.data \in Seq(Cell) /\ file.cache \in Caches
    BY <1>1, HandleType, Bounds
<1>3. h \in Seq(Cell) /\ Len(h) = n
    <2> DEFINE g(k) == IF file.inline
                       THEN IF k <= Len(file.cache.data) THEN file.cache.data[k] ELSE Filler
                       ELSE Peek(disk, file.cache, file.block, k - 1)
    <2>1. ASSUME NEW k \in 1 .. n PROVE g(k) \in Cell
        <3>1. CASE file.inline
            BY <1>2, <3>1, Bounds
        <3>2. CASE ~file.inline
            <4>1. k - 1 \in 0 .. BlockSize - 1
                BY <1>2
            <4> QED BY <1>1, <1>2, <3>2, <4>1, PeekType
        <3> QED BY <3>1, <3>2
    <2>2. h = [k \in 1 .. n |-> g(k)]
        BY DEF Copied
    <2> HIDE DEF g, h, n
    <2> QED BY <1>2, <2>1, <2>2
<1>4. CASE file.inline
    <2>1. n = file.pos /\ file.pos < BlockSize
        BY <1>1, <1>2, <1>4, MovingFacts, Bounds
    <2> DEFINE p == file.pos
    <2>2. p \in Nat /\ p < BlockSize /\ p <= Reach
        BY <1>2, <2>1
    <2>3. TipSize(file) = p + 1
        BY <2>1 DEF TipSize
    <2> HIDE DEF p
    <2>4. Place[p] = [index |-> 0, off |-> p]
        BY <2>2, PlaceFirst
    <2>5. p + 1 \in Nat \ {0} /\ (p + 1) - 1 = p
        BY <2>2
    <2>6. IsSize(p + 1) /\ LastNo(p + 1) = 0
        BY <2>2, <2>4, <2>5 DEF IsSize, LastNo
    <2>7. \A b \in Free : \A d2, c2 : IsList(d2, c2, b, TipSize(file))
        BY <2>3, <2>6, ListOne DEF Free
    <2>8. ~Unused(file) \/ p = 0
        <3>1. SUFFICES ASSUME p # 0 PROVE Place[p - 1].index = Place[p].index
            BY DEF Unused, p
        <3> DEFINE q == p - 1
        <3>2. q \in Nat /\ q < BlockSize /\ q <= Reach
            BY <1>2, <2>2, <3>1, Bounds
        <3> HIDE DEF q
        <3>3. Place[q] = [index |-> 0, off |-> q]
            BY <3>2, PlaceFirst
        <3> QED BY <2>4, <3>3 DEF q
    <2>9. Place[file.pos].off = file.off /\ file.off < BlockSize
        BY <2>1, <2>2, <2>4 DEF p
    <2>10. TipSize(file) > 0
        BY <2>3, <2>5
    <2> QED BY <1>3, <2>7, <2>8, <2>9, <2>10 DEF p
<1>5. CASE ~file.inline
    <2> DEFINE b0 == file.block
               t == TipSize(file)
               c == file.cache
    <2>1. file.writing /\ TipOK(disk, entry, file) /\ (file.pos > 0 => ~Unused(file))
        BY <1>5, MovingFacts
    <2>2. h = [k \in 1 .. n |-> Peek(disk, c, b0, k - 1)]
        BY <1>5 DEF Copied
    <2>3. /\ b0 \in Blocks /\ t > 0 /\ IsList(disk, c, b0, t)
          /\ IF file.off < BlockSize THEN Place[file.pos].off = file.off
             ELSE Place[file.pos - 1].off = BlockSize - 1
        BY <2>1 DEF TipOK
    <2>4. /\ IsSize(t)
          /\ file.pos = 0 => LastNo(t) = 0
          /\ LastNo(t) > 0 => \A k \in 0 .. Ctz[LastNo(t)] :
                k \in Nat /\ PointerSize * k \in Nat /\ PointerSize * k < n
        BY <1>1, <2>1, TipFacts
    <2>5. c = NoCache \/ c.block = b0
        <3>1. CacheOK(file, todo)
            BY <1>5, <2>1, SoundHandle
        <3> QED BY <3>1 DEF CacheOK
    <2> HIDE DEF h, b0, t, c, n
    <2>6. ASSUME NEW b \in Free, NEW d2 \in Device(Cell), NEW c2,
                 Same(disk, d2, b),
                 c2 = NoCache \/ c2.block = b,
                 \A k \in 0 .. Len(h) - 1 : Peek(d2, c2, b, k) = h[k + 1]
          PROVE  IsList(d2, c2, b, t)
        <3>1. CASE file.pos = 0
            BY <2>4, <3>1, ListOne DEF Free
        <3>2. CASE file.pos # 0
            <4>1. b \in Blocks /\ b \notin ListBlocks(disk, c, b0, t)
                <5>1. b \notin ListBlocks(disk, file.cache, file.block, TipSize(file))
                    BY <1>2, <1>5, <2>1, <3>2, FreshOf
                <5> QED BY <5>1 DEF Free, c, b0, t
            <4>2. ASSUME NEW x \in Blocks, x \notin {b, b0}, NEW k \in Nat
                  PROVE  Pointer(d2, c2, x, k) = Pointer(disk, c, x, k)
                <5>1. c.block # x /\ c2.block # x
                    BY <2>5, <2>6, <4>2, NoCacheIs, Bounds
                <5>2. d2[x] = disk[x]
                    BY <2>6, <4>2 DEF Same
                <5> QED BY <5>1, <5>2, PeekElsewhere DEF Pointer
            <4>3. ASSUME LastNo(t) > 0, NEW k \in 0 .. Ctz[LastNo(t)]
                  PROVE  Pointer(d2, c2, b, k) = Pointer(disk, c, b0, k)
                <5> DEFINE j == PointerSize * k
                <5>1. k \in Nat /\ j \in Nat /\ j < n
                    BY <2>4, <4>3
                <5> HIDE DEF j
                <5>2. j \in 0 .. Len(h) - 1 /\ j + 1 \in 1 .. n /\ (j + 1) - 1 = j
                    BY <1>2, <1>3, <5>1 DEF n, h
                <5>3. Peek(d2, c2, b, j) = Peek(disk, c, b0, j)
                    BY Zenon, <2>2, <2>6, <5>2
                <5> QED BY <5>3 DEF j, Pointer
            <4> QED BY <2>3, <2>4, <4>1, <4>2, <4>3, TipMade
        <3> QED BY <3>1, <3>2
    <2> QED BY <1>3, <1>5, <2>3, <2>6 DEF h, t, n
<1> QED BY <1>4, <1>5

LEMMA RelocateKeeps ==
    ASSUME Sound(disk, entry, file, todo), NEW b \in Blocks, Relocate(b)
    PROVE  Sound(disk', entry', file', todo')
<1> DEFINE h == Copied
           d2 == Begun(disk, b, h)
           c2 == BegunCache(b, h)
           s == Tail(todo)
           f2 == [file EXCEPT !.cache = c2, !.block = b, !.writing = TRUE, !.inline = FALSE]
<1>1. Is(todo, "relocate")
    BY DoingIs DEF Relocate
<1>2. /\ disk \in Device(Cell) /\ entry \in Entries \union {Absent} /\ EntryOK(disk, entry)
      /\ file \in Handles /\ todo \in Seq(CallSteps) /\ Legal(todo, file)
    BY DEF Sound
<1>3. /\ file.pos \in Nat /\ file.off \in Nat /\ file.off <= BlockSize /\ BlockSize \in Nat
      /\ file.size \in Nat /\ InlineMax \in Nat
    BY <1>2, HandleType, Bounds
<1>4. /\ h \in Seq(Cell) /\ Len(h) = file.off
      /\ \A x \in Free, e2 \in Device(Cell) : \A c :
            /\ Same(disk, e2, x)
            /\ c = NoCache \/ c.block = x
            /\ \A k \in 0 .. Len(h) - 1 : Peek(e2, c, x, k) = h[k + 1]
            => IsList(e2, c, x, TipSize(file))
      /\ TipSize(file) > 0
      /\ IF file.off < BlockSize THEN Place[file.pos].off = file.off
         ELSE Place[file.pos - 1].off = BlockSize - 1
      /\ file.inline => ~Unused(file) \/ file.pos = 0
    BY <1>1, CopiedOf
<1>5. file.off = 0 <=> h = <<>>
    <2> HIDE DEF h
    <2> QED BY <1>3, <1>4
<1>6. b \in Free /\ entry' = entry /\ todo' = s /\ s \in Seq(CallSteps)
    BY <1>1, <1>2, GoneOn DEF Relocate
<1>7. disk' = d2 /\ file' = f2
    BY Zenon, <1>5 DEF Relocate, Begun, BegunCache
<1>8. /\ Moving(todo, file) /\ ~file.reading
      /\ file.inline => file.off = file.pos /\ file.pos <= InlineMax /\ InlineOK(file)
      /\ ~file.inline => file.writing /\ (file.pos > 0 => ~Unused(file))
    BY <1>1, MovingFacts
<1> HIDE DEF h
<1>9. /\ d2 \in Device(Cell)
      /\ Same(disk, d2, b)
      /\ \A k \in 0 .. Len(h) - 1 : Peek(d2, c2, b, k) = h[k + 1]
      /\ \/ c2 = NoCache /\ Len(h) % CacheSize = 0
         \/ /\ c2 \in [block : {b}, off : Nat, data : Seq(Cell)]
            /\ c2.off % CacheSize = 0
            /\ c2.data # <<>>
            /\ Len(c2.data) < CacheSize
            /\ c2.off + Len(c2.data) = Len(h)
    BY <1>2, <1>3, <1>4, BegunOf, Bounds
<1> HIDE DEF d2, c2, s
<1>10. (c2 = NoCache \/ c2.block = b) /\ c2 \in Caches
    BY <1>9, Bounds DEF Caches
<1>11. /\ f2 \in Handles
       /\ f2.pos = file.pos /\ f2.size = file.size /\ f2.off = file.off
       /\ f2.writing /\ ~f2.reading /\ ~f2.inline
       /\ f2.head = file.head /\ f2.cache = c2 /\ f2.dirty = file.dirty
       /\ f2.block = b /\ f2.append = file.append
    <2>1. f2 \in Handles
        BY Zenon, <1>2, <1>10 DEF Handles
    <2> QED BY <1>2, <1>8, <2>1 DEF Handles
<1> HIDE DEF f2
<1>12. EntryOK(d2, entry) /\ OldOK(d2, f2) /\ TipOK(d2, entry, f2)
    <2>1. TipSize(f2) = TipSize(file)
        BY <1>11 DEF TipSize
    <2>2. IsList(d2, f2.cache, b, TipSize(f2)) /\ TipSize(f2) > 0
        BY <1>4, <1>6, <1>9, <1>10, <1>11, <2>1
    <2>3. file.inline => file.head = Inline
        BY <1>8 DEF InlineOK
    <2> QED BY <1>4, <1>6, <1>9, <1>11, <2>2, <2>3, TipMoved
<1>13. f2.pos > 0 => ~Unused(f2)
    BY <1>3, <1>4, <1>8, <1>11 DEF Unused
<1>14. ASSUME ~Is(s, "settle"), ~Is(s, "relocate"), ~Is(s, "extend"), Legal(s, f2),
              OutlinedOK(f2, s), file.append => file.pos >= file.size
       PROVE  Sound(d2, entry, f2, s)
    <2>1. UnusedOK(f2, s)
        BY <1>13 DEF UnusedOK
    <2>2. CacheOK(f2, s)
        BY <1>3, <1>4, <1>9, <1>11, <1>14 DEF CacheOK
    <2>3. ~f2.dirty => entry # Absent /\ f2.head = entry.head /\ f2.size = entry.size
        BY <1>11, SoundHandle
    <2>4. HandleOK(d2, entry, f2, s)
        BY <1>11, <1>12, <1>14, <2>1, <2>2, <2>3 DEF HandleOK
    <2> QED BY <1>2, <1>6, <1>9, <1>11, <1>12, <1>14, <2>4 DEF Sound
<1>15. file.head = Inline => file.size <= InlineMax
    <2>1. ~file.inline => OutlinedOK(file, todo)
        BY SoundHandle
    <2> QED BY <1>8, <2>1 DEF InlineOK, OutlinedOK
<1>16. CASE Is(s, "put")
    <2>1. ~Is(s, "settle") /\ ~Is(s, "relocate") /\ ~Is(s, "extend") /\ ~Is(s, "drain")
          /\ ~Is(s, "flush")
        BY <1>16 DEF Is
    <2>2. /\ Putting(s, file)
          /\ IF file.inline THEN /\ Starting(file)
                                 /\ file.pos + Len(s[1].cells) > InlineMax
             ELSE file.writing
        BY Zenon, <1>8, <2>1 DEF Moving, Draining, s
    <2>3. Putting(s, f2)
        <3>1. CASE file.inline
            BY Zenon, <1>11, <2>2, <3>1 DEF Putting
        <3>2. CASE ~file.inline
            <4>1. f2.writing = file.writing /\ f2.inline = file.inline
                BY Zenon, <1>2, <1>11, <2>2, <3>2, HandleType
            <4> QED BY <1>11, <2>2, <4>1, PuttingFrame
        <3> QED BY <3>1, <3>2
    <2>4. Legal(s, f2)
        BY <1>11, <2>3 DEF Legal, Starting
    <2>5. OutlinedOK(f2, s)
        <3>1. CASE file.inline
            <4> DEFINE l == Len(s[1].cells)
            <4>1. l \in Nat
                BY <1>2, <1>6, <2>2, PutBounds
            <4>2. file.pos + l > InlineMax
                BY <2>2, <3>1
            <4> HIDE DEF l
            <4>3. file.head = Inline => file.pos + l >= file.size
                BY <1>3, <1>15, <4>1, <4>2
            <4> QED BY <1>8, <1>11, <1>15, <1>16, <3>1, <4>3 DEF OutlinedOK, l
        <3>2. CASE ~file.inline
            <4>1. OutlinedOK(file, todo) /\ ~Is(todo, "put")
                BY <1>1, <3>2, SoundHandle DEF Is
            <4> QED BY Zenon, <1>11, <1>16, <4>1 DEF OutlinedOK, s
        <3> QED BY <3>1, <3>2
    <2>6. file.append => file.pos >= file.size
        <3>1. CASE file.writing
            BY <3>1, SoundHandle
        <3>2. CASE ~file.writing
            BY <1>3, <2>2, <3>2 DEF Starting
        <3> QED BY <3>1, <3>2
    <2> QED BY <1>6, <1>7, <1>14, <2>1, <2>4, <2>5, <2>6
<1>17. CASE ~Is(s, "put")
    <2>1. \/ Draining(s, file) /\ file.writing /\ ~file.inline /\ file.pos >= file.size
          \/ Is(s, "flush") /\ Saving(Tail(s)) /\ file.pos = file.size
        BY <1>8, <1>17 DEF Moving, Putting, s
    <2>2. ~Is(s, "settle") /\ ~Is(s, "relocate") /\ ~Is(s, "extend")
        BY <2>1 DEF Draining, Is
    <2>3. file.pos >= file.size /\ ~(file.pos < file.size)
        BY <1>3, <2>1
    <2>4. Legal(s, f2)
        <3>1. CASE Draining(s, file) /\ file.writing /\ ~file.inline
            <4>1. f2.writing = file.writing /\ f2.inline = file.inline
                BY <1>2, <1>11, <3>1, HandleType
            <4>2. Draining(s, f2)
                BY Zenon, <1>11, <3>1, <4>1, PuttingFrame
            <4> QED BY <1>11, <2>3, <4>2 DEF Legal
        <3>2. CASE Is(s, "flush") /\ Saving(Tail(s))
            BY <3>2 DEF Legal, Flushing, Flushed
        <3> QED BY <2>1, <3>1, <3>2
    <2>5. OutlinedOK(f2, s)
        BY <1>11, <1>15, <2>3 DEF OutlinedOK
    <2> QED BY <1>6, <1>7, <1>14, <2>2, <2>3, <2>4, <2>5
<1> QED BY <1>16, <1>17

-----------------------------------------------------------------------------
(* A call begins.                                                            *)

LEMMA EmptyEntry ==
    ASSUME NEW d
    PROVE  LET e == InlineEntry(<<>>) IN e \in Entries /\ e # Absent /\ EntryOK(d, e)
<1> DEFINE e == InlineEntry(<<>>)
<1>1. e = [head |-> Inline, size |-> 0, data |-> <<>>]
    BY DEF InlineEntry
<1> HIDE DEF e
<1>2. e \in Entries
    <2>1. <<>> \in Seq(Cell) /\ 0 \in 0 .. MaxSize
        BY Bounds
    <2> QED BY <1>1, <2>1 DEF Entries
<1>3. EntryOK(d, e)
    BY <1>1, Bounds DEF EntryOK, Listed
<1> QED BY <1>2, <1>3, SentinelAssumption DEF e

\* The handle that lfs_file_opencfg makes.
LEMMA HandleOf ==
    ASSUME NEW d, NEW e \in Entries, EntryOK(d, e), NEW a \in BOOLEAN
    PROVE  LET g == Handle(e, a)
           IN  /\ g \in Handles /\ ~g.writing /\ ~g.reading
               /\ IdleOK(d, e, g)
<1> DEFINE g == Handle(e, a)
           c == IF e.head = Inline THEN Buffer(e.data) ELSE NoCache
<1>1. e # Absent /\ e.head \in Blocks \union {Inline} /\ e.size \in 0 .. MaxSize
      /\ e.data \in Seq(Cell)
    BY EntryType, SentinelAssumption DEF Entries
<1>2. c \in Caches
      /\ (e.head = Inline => c.block = Inline /\ c.off = 0 /\ Len(c.data) = CacheSize)
      /\ (e.head # Inline => c = NoCache)
    <2>1. CASE e.head = Inline
        <3> DEFINE old == [j \in 1 .. CacheSize |-> Filler]
                   s == e.data
                   o == Overlay(old, 0, s)
        <3>1. Len(s) \in Nat /\ Len(s) <= CacheSize /\ s \in Seq(Cell)
            <4>1. e.size <= InlineMax /\ Len(s) = e.size
                BY <1>1, <2>1 DEF EntryOK
            <4> QED BY <1>1, <4>1, Bounds
        <3>2. old \in Seq(Cell) /\ Len(old) = CacheSize /\ CacheSize \in Nat
            BY Bounds
        <3> HIDE DEF old, s
        <3>3. 0 \in Nat /\ 0 <= Len(old)
            BY <3>2
        <3>4. /\ o \in Seq(Cell)
              /\ Len(o) = IF 0 + Len(s) >= Len(old) THEN 0 + Len(s) ELSE Len(old)
            BY <3>1, <3>2, <3>3, OverlayOf
        <3> HIDE DEF o
        <3>5. Len(o) = CacheSize
            BY <3>1, <3>2, <3>4
        <3>6. c = [block |-> Inline, off |-> 0, data |-> o]
            BY <2>1 DEF Buffer, old, s, o
        <3> HIDE DEF c
        <3>7. c \in Caches
            BY <3>4, <3>6 DEF Caches
        <3> QED BY <2>1, <3>5, <3>6, <3>7
    <2>2. CASE e.head # Inline
        BY <2>2, Bounds
    <2> QED BY <2>1, <2>2
<1> HIDE DEF c
<1>3. g = [append |-> a, inline |-> e.head = Inline,
           reading |-> FALSE, writing |-> FALSE, dirty |-> FALSE, erred |-> FALSE,
           pos |-> 0, off |-> 0, block |-> NoBlock, head |-> e.head, size |-> e.size,
           cache |-> c]
    BY DEF Handle, c
<1> HIDE DEF g
<1>4. 0 \in 0 .. MaxSize /\ 0 \in 0 .. BlockSize
    BY Bounds
<1>5. (e.head = Inline) \in BOOLEAN
    OBVIOUS
<1>6. g \in Handles
    BY <1>1, <1>2, <1>3, <1>4, <1>5 DEF Handles
<1>7. /\ g.inline = (e.head = Inline) /\ g.head = e.head /\ g.size = e.size /\ g.cache = c
      /\ ~g.writing /\ ~g.reading /\ ~g.dirty
    BY <1>3
<1>8. IdleOK(d, e, g)
    BY Zenon, <1>1, <1>2, <1>7 DEF IdleOK, InlineOK, EntryOK, Listed
<1> QED BY <1>6, <1>7, <1>8 DEF g

LEMMA OpenKeeps ==
    ASSUME Whole(disk, entry, file, todo), NEW a \in BOOLEAN, NEW t \in BOOLEAN, Open(a, t)
    PROVE  Whole(disk', entry', file', todo')
<1>1. /\ disk \in Device(Cell) /\ entry \in Entries \union {Absent} /\ EntryOK(disk, entry)
      /\ todo = <<>>
    BY DEF Open, Whole
<1>2. disk' = disk /\ todo' = <<>>
    BY <1>1 DEF Open
<1> DEFINE e0 == InlineEntry(<<>>)
<1>3. e0 \in Entries /\ e0 # Absent /\ EntryOK(disk, e0)
    BY EmptyEntry
<1>4. <<>> \in Seq(CallSteps) /\ \A g : Legal(<<>>, g)
    BY DEF Legal
<1>5. ~Is(<<>>, "extend")
    BY DEF Is
<1> HIDE DEF e0
<1>6. CASE entry # Absent /\ t
    <2> DEFINE g == Handle(e0, a)
               f2 == [g EXCEPT !.dirty = TRUE]
    <2>1. g \in Handles /\ ~g.writing /\ ~g.reading /\ IdleOK(disk, e0, g)
        BY <1>3, HandleOf
    <2>2. file' = f2 /\ entry' = entry
        BY <1>6 DEF Open, e0
    <2> HIDE DEF g
    <2>3. /\ f2 \in Handles
          /\ f2.writing = g.writing /\ f2.reading = g.reading /\ f2.inline = g.inline /\ f2.dirty
          /\ f2.head = g.head /\ f2.size = g.size /\ f2.cache = g.cache
        BY Zenon, <2>1 DEF Handles
    <2> HIDE DEF f2
    <2>4. IdleOK(disk, entry, f2)
        BY <2>1, <2>3 DEF IdleOK, InlineOK
    <2>5. Sound(disk, entry, f2, <<>>)
        BY Zenon, <1>1, <1>4, <1>5, <2>1, <2>3, <2>4, IdleSound
    <2> QED BY <1>2, <2>2, <2>5, SoundWhole
<1>7. CASE entry = Absent \/ ~t
    <2> DEFINE e == IF entry = Absent THEN e0 ELSE entry
               g == Handle(e, a)
    <2>1. e \in Entries /\ EntryOK(disk, e)
        BY <1>1, <1>3
    <2>2. entry' = e /\ file' = g
        BY <1>7 DEF Open, e0
    <2> HIDE DEF e
    <2>3. g \in Handles /\ ~g.writing /\ ~g.reading /\ IdleOK(disk, e, g)
        BY <2>1, HandleOf
    <2> HIDE DEF g
    <2>4. Sound(disk, e, g, <<>>)
        BY Zenon, <1>1, <1>4, <1>5, <2>1, <2>3, IdleSound
    <2> QED BY <1>2, <2>2, <2>4, SoundWhole
<1> QED BY <1>6, <1>7

\* A call that only says what is to be done.
LEMMA StartKeeps ==
    ASSUME Whole(disk, entry, file, todo), NEW s \in Seq(CallSteps), NEW w, Start(s, w),
           Legal(s, file), ~Is(s, "extend"), ~Is(s, "relocate"), ~Is(s, "settle")
    PROVE  Sound(disk', entry', file', todo')
<1>1. file # Closed /\ todo = <<>> /\ todo' = s /\ disk' = disk /\ entry' = entry /\ file' = file
    BY DEF Start, Begin, storage
<1>2. Sound(disk, entry, file, <<>>)
    BY <1>1 DEF Whole
<1>3. ~Is(<<>>, "put") /\ ~Is(<<>>, "settle") /\ ~Is(<<>>, "relocate")
    BY DEF Is
<1>4. Sound(disk, entry, file, s)
    BY <1>2, <1>3, Passed
<1> QED BY <1>1, <1>4

LEMMA Alone ==
    ASSUME NEW x \in CallSteps
    PROVE  /\ <<x>> \in Seq(CallSteps) /\ <<x>> # <<>> /\ <<x>>[1] = x /\ Tail(<<x>>) = <<>>
           /\ \A op : Ends(<<x>>, op) <=> op = x.op
           /\ \A op : Is(<<x>>, op) <=> op = x.op
<1>1. <<x>> \in Seq(CallSteps) /\ <<x>> # <<>> /\ <<x>>[1] = x /\ Tail(<<x>>) = <<>>
    OBVIOUS
<1> QED BY <1>1 DEF Ends, Is

LEMMA SeekStepsAre ==
    ASSUME NEW p \in 0 .. MaxSize
    PROVE  /\ SeekSteps(p) \in Seq(CallSteps) /\ Returning(SeekSteps(p))
           /\ \A f : Flushing(SeekSteps(p), f)
<1> DEFINE x == [op |-> "flush"]
           y == [op |-> "setpos", pos |-> p]
           s == <<x>> \o <<y>>
<1>1. SeekSteps(p) = s
    BY DEF SeekSteps, Step
<1>2. x \in CallSteps /\ y \in CallSteps /\ x.op = "flush" /\ y.op = "setpos"
    BY Zenon, StepMade
<1> HIDE DEF x, y
<1>3. <<y>> \in Seq(CallSteps) /\ Ends(<<y>>, "setpos")
    BY <1>2, Alone
<1>4. s \in Seq(CallSteps) /\ Is(s, "flush") /\ Tail(s) = <<y>>
    BY Zenon, <1>2, <1>3, Pushed
<1> HIDE DEF s
<1> QED BY Zenon, <1>1, <1>3, <1>4 DEF Returning, Flushing, Flushed

LEMMA ReadKeeps ==
    ASSUME Whole(disk, entry, file, todo), NEW n \in ReadSizes, Read(n)
    PROVE  Sound(disk', entry', file', todo')
<1> DEFINE x == [op |-> "flush"]
           y == [op |-> "get", n |-> n, cells |-> <<>>]
<1>1. n \in Nat /\ <<>> \in Seq(Cell)
    BY BoundAssumption
<1>2. x \in CallSteps /\ y \in CallSteps /\ x.op = "flush" /\ y.op = "get"
    BY Zenon, <1>1, StepMade
<1>3. Start((IF file # Closed /\ file.writing THEN <<x>> ELSE <<>>) \o <<y>>, FALSE)
    BY Zenon DEF Read, Step
<1>4. file # Closed
    BY DEF Read, Start, Begin
<1> HIDE DEF x, y
<1>5. <<y>> \in Seq(CallSteps) /\ Ends(<<y>>, "get") /\ (\A op : Is(<<y>>, op) <=> op = "get")
    BY <1>2, Alone
<1>6. CASE file.writing
    <2>1. Start(<<x>> \o <<y>>, FALSE)
        BY Zenon, <1>3, <1>4, <1>6
    <2> DEFINE s == <<x>> \o <<y>>
    <2>2. s \in Seq(CallSteps) /\ Tail(s) = <<y>> /\ (\A op : Is(s, op) <=> op = "flush")
        BY Zenon, <1>2, <1>5, Pushed
    <2> HIDE DEF s
    <2>3. Legal(s, file)
        BY Zenon, <1>5, <2>2 DEF Legal, Flushing, Flushed
    <2> QED BY Zenon, <2>1, <2>2, <2>3, StartKeeps DEF s
<1>7. CASE ~file.writing
    <2>1. <<>> \o <<y>> = <<y>>
        BY <1>5
    <2>2. Start(<<y>>, FALSE)
        BY Zenon, <1>3, <1>7, <2>1
    <2>3. Legal(<<y>>, file)
        BY <1>5, <1>7 DEF Legal, Flushed
    <2> QED BY Zenon, <1>5, <2>2, <2>3, StartKeeps
<1> QED BY <1>6, <1>7

LEMMA SeekKeeps ==
    ASSUME Whole(disk, entry, file, todo), NEW p \in Positions, Seek(p)
    PROVE  Sound(disk', entry', file', todo')
<1>1. p \in 0 .. MaxSize
    BY BoundAssumption
<1> DEFINE s == SeekSteps(p)
<1>2. s \in Seq(CallSteps) /\ Flushing(s, file)
    BY <1>1, SeekStepsAre
<1>3. Start(s, FALSE)
    BY Zenon DEF Seek
<1> HIDE DEF s
<1>4. Legal(s, file)
    BY <1>2 DEF Legal
<1>5. ~Is(s, "extend") /\ ~Is(s, "relocate") /\ ~Is(s, "settle")
    BY <1>2 DEF Flushing, Is
<1> QED BY Zenon, <1>2, <1>3, <1>4, <1>5, StartKeeps

LEMMA SyncKeeps ==
    ASSUME Whole(disk, entry, file, todo), Sync \/ Close
    PROVE  Sound(disk', entry', file', todo')
<1> DEFINE x == [op |-> "flush"]
           y == [op |-> "commit"]
           z == [op |-> "close"]
<1>1. /\ x \in CallSteps /\ y \in CallSteps /\ z \in CallSteps
      /\ x.op = "flush" /\ y.op = "commit" /\ z.op = "close"
    BY StepMade
<1>2. Start(<<x>> \o <<y>>, FALSE) \/ Start((<<x>> \o <<y>>) \o <<z>>, FALSE)
    BY Zenon DEF Sync, Close, Step
<1> HIDE DEF x, y, z
<1>3. ASSUME NEW t \in Seq(CallSteps), Saving(t), Start(<<x>> \o t, FALSE)
      PROVE  Sound(disk', entry', file', todo')
    <2> DEFINE s == <<x>> \o t
    <2>1. s \in Seq(CallSteps) /\ Tail(s) = t /\ (\A op : Is(s, op) <=> op = "flush")
        BY <1>1, Pushed
    <2>2. Start(s, FALSE)
        BY Zenon, <1>3
    <2> HIDE DEF s
    <2>3. Legal(s, file)
        BY Zenon, <1>3, <2>1 DEF Legal, Flushing, Flushed
    <2> QED BY Zenon, <2>1, <2>2, <2>3, StartKeeps
<1>4. CASE Start(<<x>> \o <<y>>, FALSE)
    <2>1. <<y>> \in Seq(CallSteps) /\ Is(<<y>>, "commit") /\ Tail(<<y>>) = <<>>
        BY <1>1, Alone
    <2>2. Saving(<<y>>)
        BY <2>1 DEF Saving
    <2> QED BY Zenon, <1>3, <1>4, <2>1, <2>2
<1>5. CASE Start((<<x>> \o <<y>>) \o <<z>>, FALSE)
    <2>1. <<z>> \in Seq(CallSteps) /\ Ends(<<z>>, "close")
        BY <1>1, Alone
    <2> DEFINE t == <<y>> \o <<z>>
    <2>2. t \in Seq(CallSteps) /\ Is(t, "commit") /\ Tail(t) = <<z>>
        BY Zenon, <1>1, <2>1, Pushed
    <2>3. (<<x>> \o <<y>>) \o <<z>> = <<x>> \o t
        BY <1>1, <2>1, PushTwo
    <2> HIDE DEF t
    <2>4. Saving(t)
        BY Zenon, <2>1, <2>2 DEF Saving
    <2> QED BY Zenon, <1>3, <1>5, <2>2, <2>3, <2>4
<1> QED BY Zenon, <1>2, <1>4, <1>5

LEMMA FileSizeIs ==
    ASSUME file \in Handles
    PROVE  FileSize = SizeOf(file) /\ FileSize \in 0 .. MaxSize
<1>1. file.pos \in Nat /\ file.size \in Nat /\ file.pos <= MaxSize /\ file.size <= MaxSize
      /\ MaxSize \in Nat
    BY HandleType, Bounds
<1>2. Max({file.pos, file.size}) = IF file.pos >= file.size THEN file.pos ELSE file.size
    BY <1>1, MaxOf
<1>3. FileSize = SizeOf(file)
    BY <1>2 DEF FileSize, SizeOf
<1> QED BY <1>1, <1>3 DEF SizeOf

LEMMA TruncateKeeps ==
    ASSUME Risks = {}, Whole(disk, entry, file, todo), NEW n \in TruncateSizes, Truncate(n)
    PROVE  Sound(disk', entry', file', todo')
<1>1. file # Closed /\ todo = <<>>
    BY Zenon DEF Truncate, Start, Begin
<1>2. Sound(disk, entry, file, <<>>) /\ file \in Handles
    BY <1>1 DEF Whole, Sound
<1>3. n \in 0 .. MaxSize /\ n \in Nat /\ n <= Reach /\ MaxSize \in Nat
    BY BoundAssumption, Bounds
<1>4. FileSize = SizeOf(file) /\ FileSize \in 0 .. MaxSize
    BY <1>2, FileSizeIs
<1>5. file.pos \in Nat /\ file.pos \in 0 .. MaxSize /\ file.size \in Nat
    BY <1>2, <1>3, HandleType
<1> DEFINE x == [op |-> "flush"]
           cut == [op |-> "cut", size |-> n]
           go == [op |-> "setpos", pos |-> FileSize]
           fill == [op |-> "fill", to |-> n]
           back == SeekSteps(file.pos)
<1>6. /\ x \in CallSteps /\ cut \in CallSteps /\ go \in CallSteps /\ fill \in CallSteps
      /\ x.op = "flush" /\ cut.op = "cut" /\ go.op = "setpos" /\ fill.op = "fill"
      /\ cut.size = n /\ go.pos = FileSize /\ fill.to = n
    BY Zenon, <1>3, <1>4, StepMade
<1>7. back \in Seq(CallSteps) /\ Returning(back) /\ Flushing(back, file) /\ Is(back, "flush")
    BY <1>5, SeekStepsAre DEF Returning
<1>8. IF n < FileSize
      THEN Start((<<x>> \o <<cut>>) \o back, FALSE)
      ELSE Start(((IF n > FileSize /\ file.pos # FileSize THEN <<x>> \o <<go>> ELSE <<>>)
                  \o (IF n > FileSize THEN <<fill>> ELSE <<>>))
                 \o back, n > FileSize)
    BY Zenon DEF Truncate, SeekSteps, Step, FillStep
<1>9. CutsWell(n)
    BY DEF Truncate
<1> HIDE DEF x, cut, go, fill, back
<1>10. ASSUME NEW t \in Seq(CallSteps), Flushed(t, file), NEW w, Start(<<x>> \o t, w)
       PROVE  Sound(disk', entry', file', todo')
    <2> DEFINE s == <<x>> \o t
    <2>1. s \in Seq(CallSteps) /\ Tail(s) = t /\ (\A op : Is(s, op) <=> op = "flush")
        BY <1>6, Pushed
    <2>2. Start(s, w)
        BY <1>10
    <2> HIDE DEF s
    <2>3. Legal(s, file)
        BY Zenon, <1>10, <2>1 DEF Legal, Flushing
    <2> QED BY <2>1, <2>2, <2>3, StartKeeps
<1>11. <<fill>> \o back \in Seq(CallSteps) /\ FillsUp(<<fill>> \o back)
       /\ (<<fill>> \o back)[1] = fill /\ Tail(<<fill>> \o back) = back
       /\ (\A op : Is(<<fill>> \o back, op) <=> op = "fill")
    <2> DEFINE s == <<fill>> \o back
    <2>1. s \in Seq(CallSteps) /\ Tail(s) = back /\ s[1] = fill /\ (\A op : Is(s, op) <=> op = "fill")
        BY <1>6, <1>7, Pushed
    <2> HIDE DEF s
    <2>2. FillsUp(s)
        BY Zenon, <1>7, <2>1 DEF FillsUp
    <2> QED BY <2>1, <2>2 DEF s
<1>12. CASE n < FileSize
    <2> DEFINE t == <<cut>> \o back
    <2>1. t \in Seq(CallSteps) /\ t[1] = cut /\ Tail(t) = back /\ Is(t, "cut")
        BY <1>6, <1>7, Pushed
    <2>2. (<<x>> \o <<cut>>) \o back = <<x>> \o t
        BY <1>6, <1>7, PushTwo
    <2> HIDE DEF t
    <2>3. file.inline \/ n = 0 \/ Place[n].index = Place[n - 1].index
        <3>1. SUFFICES ASSUME ~file.inline, n # 0 PROVE Place[n].index = Place[n - 1].index
            OBVIOUS
        <3>2. CtzIndex(n).index = CtzIndex(n - 1).index
            BY <1>3, <1>4, <1>9, <1>12, <3>1 DEF CutsWell
        <3> DEFINE m == n - 1
        <3>3. m \in Nat /\ m <= Reach
            BY <1>3, <3>1, Bounds
        <3> HIDE DEF m
        <3>4. CtzIndex(n) = Place[n] /\ CtzIndex(m) = Place[m]
            BY <1>3, <3>3, PlaceType
        <3> QED BY <3>2, <3>4 DEF m
    <2>4. Cutting(t, file)
        BY Zenon, <1>4, <1>6, <1>7, <1>12, <2>1, <2>3 DEF Cutting
    <2> QED BY Zenon, <1>8, <1>10, <1>12, <2>1, <2>2, <2>4 DEF Flushed
<1>13. CASE n = FileSize
    <2>1. Start((<<>> \o <<>>) \o back, n > FileSize)
        <3>1. ~(n < FileSize) /\ ~(n > FileSize)
            BY <1>3, <1>4, <1>13
        <3> QED BY <1>8, <3>1
    <2>2. (<<>> \o <<>>) \o back = back
        BY <1>7
    <2>3. Start(back, n > FileSize)
        BY <2>1, <2>2
    <2>4. Legal(back, file)
        BY <1>7 DEF Legal
    <2>5. ~Is(back, "extend") /\ ~Is(back, "relocate") /\ ~Is(back, "settle")
        BY <1>7 DEF Is
    <2> QED BY <1>7, <2>3, <2>4, <2>5, StartKeeps
<1>14. CASE n > FileSize /\ file.pos # FileSize
    <2> DEFINE t2 == <<fill>> \o back
               t == <<go>> \o t2
    <2>1. Start(((<<x>> \o <<go>>) \o <<fill>>) \o back, TRUE)
        <3>1. ~(n < FileSize)
            BY <1>3, <1>4, <1>14
        <3> QED BY Zenon, <1>8, <1>14, <3>1
    <2>2. ((<<x>> \o <<go>>) \o <<fill>>) \o back = <<x>> \o t
        BY <1>6, <1>7, PushThree
    <2> HIDE DEF t2
    <2>3. t2 \in Seq(CallSteps) /\ FillsUp(t2) /\ t2[1] = fill
        BY <1>11 DEF t2
    <2>4. t \in Seq(CallSteps) /\ t[1] = go /\ Tail(t) = t2 /\ Is(t, "setpos")
        BY <1>6, <2>3, Pushed
    <2> HIDE DEF t
    <2>5. GoingTo(t, file)
        <3>1. t[1].pos = SizeOf(file) /\ Tail(t)[1].to = n
            BY Zenon, <1>4, <1>6, <2>3, <2>4
        <3>2. t[1].pos <= Tail(t)[1].to
            <4>1. FileSize <= n /\ t[1].pos = FileSize
                BY <1>3, <1>4, <1>14, <3>1
            <4> QED BY Zenon, <3>1, <4>1
        <3> QED BY Zenon, <2>3, <2>4, <3>1, <3>2 DEF GoingTo
    <2> QED BY Zenon, <1>10, <2>1, <2>2, <2>4, <2>5 DEF Flushed
<1>15. CASE n > FileSize /\ file.pos = FileSize
    <2> DEFINE t == <<fill>> \o back
    <2>1. Start((<<>> \o <<fill>>) \o back, TRUE)
        <3>1. ~(n < FileSize)
            BY <1>3, <1>4, <1>15
        <3> QED BY Zenon, <1>8, <1>15, <3>1
    <2>2. (<<>> \o <<fill>>) \o back = t
        <3>1. <<>> \o <<fill>> = <<fill>>
            BY <1>6, Alone
        <3> QED BY <3>1
    <2> HIDE DEF t
    <2>3. t \in Seq(CallSteps) /\ FillsUp(t) /\ t[1] = fill /\ Tail(t) = back
          /\ (\A op : Is(t, op) <=> op = "fill")
        BY <1>11 DEF t
    <2>4. file.pos <= n
        BY <1>3, <1>4, <1>15
    <2>5. Starting(file)
        BY <1>4, <1>5, <1>15 DEF Starting, SizeOf
    <2>6. Filling(t, file)
        BY Zenon, <1>6, <1>7, <2>3, <2>4 DEF Filling
    <2>7. Legal(t, file)
        BY <2>5, <2>6 DEF Legal
    <2>8. Start(t, TRUE)
        BY Zenon, <2>1, <2>2
    <2> QED BY Zenon, <2>3, <2>7, <2>8, StartKeeps
<1> QED BY <1>3, <1>4, <1>12, <1>13, <1>14, <1>15

\* A write, with the hole before it.
LEMMA WriteKeeps ==
    ASSUME Whole(disk, entry, file, todo), ops \in 0 .. MaxOps, NEW n \in WriteSizes, Write(n)
    PROVE  Sound(disk', entry', file', todo')
<1> DEFINE f == DropRead(file)
           p == IF f.append /\ f.pos < f.size THEN f.size ELSE f.pos
           hole == ~f.writing /\ p > f.size
           cells == [j \in 1 .. n |-> ops']
           put == [op |-> "put", cells |-> cells]
           fill == [op |-> "fill", to |-> p]
           bad == [op |-> "toobig"]
           q == IF hole THEN f.size ELSE p
<1>1. file # Closed /\ todo = <<>> /\ disk' = disk /\ entry' = entry /\ ops < MaxOps /\ ops' = ops + 1
    BY DEF Write, Begin, storage
<1>2. Sound(disk, entry, file, <<>>) /\ file \in Handles
    BY <1>1 DEF Whole, Sound
<1>3. /\ IF p + n <= MaxSize
         THEN /\ todo' = (IF hole THEN <<fill>> ELSE <<>>) \o <<put>>
              /\ file' = [f EXCEPT !.pos = q]
         ELSE /\ todo' = <<bad>>
              /\ file' = [f EXCEPT !.pos = p]
    BY Zenon DEF Write, Begin, FillStep, PutStep, Step
<1>4. /\ f \in Handles /\ ~f.reading /\ (f.writing => f = file)
      /\ (~f.writing => IdleOK(disk, entry, f)) /\ f.writing = file.writing
    BY <1>2, DropOf
<1> HIDE DEF f
<1>5. /\ f.pos \in Nat /\ f.pos <= MaxSize /\ f.size \in Nat /\ f.size <= MaxSize
      /\ MaxSize \in Nat /\ n \in Nat /\ n > 0 /\ MaxOps \in Nat
    BY <1>4, HandleType, BoundAssumption, Bounds
<1>6. cells \in Seq(Cell) /\ Len(cells) = n /\ cells # <<>>
    <2>1. ops' \in Cell
        BY <1>1, <1>5 DEF Cell, Value
    <2> DEFINE v == ops'
    <2>2. v \in Cell
        BY <2>1
    <2> HIDE DEF v
    <2>3. [j \in 1 .. n |-> v] \in Seq(Cell) /\ Len([j \in 1 .. n |-> v]) = n
        BY <1>5, <2>2
    <2>4. cells = [j \in 1 .. n |-> v]
        BY DEF v
    <2> HIDE DEF cells
    <2>5. cells \in Seq(Cell) /\ Len(cells) = n
        BY Zenon, <2>3, <2>4
    <2> QED BY <1>5, <2>5
<1> HIDE DEF cells
<1>7. p \in 0 .. MaxSize /\ q \in 0 .. MaxSize
    BY <1>5
<1>8. /\ put \in CallSteps /\ bad \in CallSteps /\ fill \in CallSteps
      /\ put.op = "put" /\ bad.op = "toobig" /\ fill.op = "fill"
      /\ put.cells = cells /\ fill.to = p
    BY Zenon, <1>6, <1>7, StepMade
<1>9. f.append /\ f.writing => f.pos >= f.size
    BY <1>2, <1>4, SoundHandle
<1>10. f.writing => p = f.pos /\ ~hole /\ q = p
    BY <1>5, <1>9
<1>11. ~f.writing => q <= f.size /\ (f.append => q = f.size) /\ (hole => q = f.size /\ q <= p)
                     /\ (~hole => q = p)
    BY <1>5
<1> HIDE DEF put, bad, fill, p, q, hole
<1>12. <<put>> \in Seq(CallSteps) /\ Ends(<<put>>, "put") /\ <<put>>[1] = put /\ Tail(<<put>>) = <<>>
       /\ (\A op : Is(<<put>>, op) <=> op = "put")
    BY <1>8, Alone
<1>13. <<bad>> \in Seq(CallSteps) /\ Ends(<<bad>>, "toobig")
       /\ (\A op : Is(<<bad>>, op) <=> op = "toobig")
    BY <1>8, Alone
<1>14. ASSUME NEW x \in 0 .. MaxSize, NEW t \in Seq(CallSteps), f.writing => x = f.pos,
              \A g \in Handles : /\ g.pos = x /\ g.size = f.size /\ g.writing = f.writing
                                 /\ g.append = f.append /\ ~g.reading
                                 => Legal(t, g),
              ~Is(t, "extend"), ~Is(t, "relocate"), ~Is(t, "settle")
       PROVE  Sound(disk, entry, [f EXCEPT !.pos = x], t)
    <2> DEFINE g == [f EXCEPT !.pos = x]
    <2>1. /\ g \in Handles
          /\ g.pos = x /\ g.size = f.size /\ g.writing = f.writing /\ g.reading = f.reading
          /\ g.inline = f.inline /\ g.append = f.append /\ g.dirty = f.dirty
          /\ g.head = f.head /\ g.cache = f.cache
        <3>1. g \in Handles
            BY <1>4, <1>14 DEF Handles
        <3> QED BY <1>4, <3>1 DEF Handles
    <2>2. f.writing => g = file
        BY <1>4, <1>14 DEF Handles
    <2> HIDE DEF g
    <2>3. Legal(t, g)
        BY <1>4, <1>14, <2>1
    <2>4. CASE f.writing
        <3>1. ~Is(<<>>, "put") /\ ~Is(<<>>, "settle") /\ ~Is(<<>>, "relocate")
            BY DEF Is
        <3>2. Sound(disk, entry, g, <<>>)
            BY <1>2, <2>2, <2>4
        <3>3. Sound(disk, entry, g, t)
            BY <1>14, <2>3, <3>1, <3>2, Passed
        <3> QED BY <3>3 DEF g
    <2>5. CASE ~f.writing
        <3>1. IdleOK(disk, entry, g)
            BY <1>4, <2>1, <2>5 DEF IdleOK, InlineOK
        <3>2. Sound(disk, entry, g, t)
            BY <1>2, <1>4, <1>14, <2>1, <2>3, <2>5, <3>1, IdleSound DEF Sound
        <3> QED BY <3>2 DEF g
    <2> QED BY <2>4, <2>5
<1>15. CASE ~(p + n <= MaxSize)
    <2>1. todo' = <<bad>> /\ file' = [f EXCEPT !.pos = p]
        BY <1>3, <1>15
    <2>2. \A g \in Handles : ~g.reading => Legal(<<bad>>, g)
        BY <1>13 DEF Legal
    <2>3. Sound(disk, entry, [f EXCEPT !.pos = p], <<bad>>)
        BY Zenon, <1>7, <1>10, <1>13, <1>14, <2>2
    <2> QED BY <1>1, <2>1, <2>3
<1>16. CASE p + n <= MaxSize /\ hole
    <2> DEFINE t == <<fill>> \o <<put>>
    <2>1. todo' = t /\ file' = [f EXCEPT !.pos = q]
        BY Zenon, <1>3, <1>16
    <2>2. t \in Seq(CallSteps) /\ Tail(t) = <<put>> /\ t[1] = fill
          /\ (\A op : Is(t, op) <=> op = "fill")
        <3> DEFINE u == <<put>>
        <3>1. u \in Seq(CallSteps)
            BY <1>12
        <3> HIDE DEF u
        <3>2. /\ <<fill>> \o u \in Seq(CallSteps) /\ Tail(<<fill>> \o u) = u
              /\ (<<fill>> \o u)[1] = fill /\ \A op : Is(<<fill>> \o u, op) <=> op = "fill"
            BY <1>8, <3>1, Pushed
        <3> QED BY Zenon, <3>2 DEF u
    <2> HIDE DEF t
    <2>3. FillsUp(t)
        <3>1. Tail(t)[1].cells = cells /\ t[1].to = p
            BY Zenon, <1>8, <1>12, <2>2
        <3>2. t[1].to + Len(Tail(t)[1].cells) <= MaxSize
            BY Zenon, <1>6, <1>16, <3>1
        <3> QED BY Zenon, <1>6, <1>12, <2>2, <3>1, <3>2 DEF FillsUp
    <2>4. ~f.writing /\ q <= p /\ q = f.size
        BY <1>10, <1>11, <1>16
    <2>5. ASSUME NEW g \in Handles, g.pos = q, g.size = f.size, g.writing = f.writing,
                 g.append = f.append, ~g.reading
          PROVE  Legal(t, g)
        <3>1. Starting(g)
            BY <1>5, <2>4, <2>5 DEF Starting
        <3>2. g.pos <= t[1].to
            BY <1>8, <2>2, <2>4, <2>5
        <3>3. Filling(t, g)
            BY <2>3, <2>5, <3>2 DEF Filling
        <3> QED BY <3>1, <3>3 DEF Legal
    <2>6. Sound(disk, entry, [f EXCEPT !.pos = q], t)
        BY <1>7, <1>14, <2>2, <2>4, <2>5
    <2> QED BY <1>1, <2>1, <2>6
<1>17. CASE p + n <= MaxSize /\ ~hole
    <2>1. <<>> \o <<put>> = <<put>>
        BY <1>12
    <2>2. todo' = <<put>> /\ file' = [f EXCEPT !.pos = q]
        BY <1>3, <1>17, <2>1
    <2>3. q = p
        BY <1>10, <1>11, <1>17
    <2>4. ASSUME NEW g \in Handles, g.pos = q, g.size = f.size, g.writing = f.writing,
                 g.append = f.append, ~g.reading
          PROVE  Legal(<<put>>, g)
        <3>1. Starting(g)
            BY <1>11, <2>4 DEF Starting
        <3>2. <<put>>[1].cells = cells
            BY <1>8, <1>12
        <3>3. g.pos + Len(<<put>>[1].cells) <= MaxSize
            BY <1>6, <1>17, <2>3, <2>4, <3>2
        <3>4. Putting(<<put>>, g)
            BY <1>6, <1>12, <3>2, <3>3 DEF Putting
        <3> QED BY <2>4, <3>1, <3>4 DEF Legal
    <2>5. f.writing => q = f.pos
        BY <1>10
    <2>6. Sound(disk, entry, [f EXCEPT !.pos = q], <<put>>)
        BY Zenon, <1>7, <1>12, <1>14, <2>4, <2>5
    <2> QED BY <1>1, <2>2, <2>6
<1> QED BY <1>15, <1>16, <1>17

-----------------------------------------------------------------------------
(* Every step keeps the invariant.                                           *)

LEMMA IInvIs ==
    IInv <=> Whole(disk, entry, file, todo) /\ taken \subseteq Blocks /\ ops \in 0 .. MaxOps
<1>1. file = Closed => file \notin Handles
    BY SentinelAssumption
<1>2. <<>> \in Seq(CallSteps)
    OBVIOUS
<1>3. ASSUME IInv PROVE Whole(disk, entry, file, todo)
    BY <1>3 DEF IInv, Whole, Sound, TypeOK, Device
<1>4. ASSUME Whole(disk, entry, file, todo), taken \subseteq Blocks, ops \in 0 .. MaxOps
      PROVE  IInv
    <2>1. CASE file = Closed
        BY <1>2, <1>4, <2>1 DEF IInv, Whole, TypeOK, Device
    <2>2. CASE file # Closed
        <3>1. Sound(disk, entry, file, todo)
            BY <1>4, <2>2 DEF Whole
        <3>2. ~(file.reading /\ file.writing)
            BY <3>1, SoundHandle
        <3> QED BY <1>4, <2>2, <3>1, <3>2 DEF IInv, Sound, TypeOK, Device
    <2> QED BY <2>1, <2>2
<1> QED BY <1>3, <1>4 DEF IInv, TypeOK

LEMMA CallsKeep ==
    ASSUME Risks = {}, Whole(disk, entry, file, todo), ops \in 0 .. MaxOps, Calls
    PROVE  Whole(disk', entry', file', todo')
<1>1. CASE \E a, t \in BOOLEAN : Open(a, t)
    BY <1>1, OpenKeeps
<1>2. CASE \E n \in WriteSizes : Write(n)
    BY <1>2, WriteKeeps, SoundWhole
<1>3. CASE \E n \in ReadSizes : Read(n)
    BY <1>3, ReadKeeps, SoundWhole
<1>4. CASE \E p \in Positions : Seek(p)
    BY <1>4, SeekKeeps, SoundWhole
<1>5. CASE \E n \in TruncateSizes : Truncate(n)
    BY <1>5, TruncateKeeps, SoundWhole
<1>6. CASE Sync \/ Close
    BY <1>6, SyncKeeps, SoundWhole
<1> QED BY <1>1, <1>2, <1>3, <1>4, <1>5, <1>6 DEF Calls

LEMMA StepsKeep ==
    ASSUME Risks = {}, Whole(disk, entry, file, todo), Steps
    PROVE  Whole(disk', entry', file', todo')
<1>1. Sound(disk, entry, file, todo)
    <2>1. todo # <<>>
        BY Zenon DEF Steps, Doing, TooBig, Fill, Outline, PutInline, StartExtend, Put, PutBad, NoSpace,
               Extend, ExtendBad, Relocate, RelocateBad, Flush, Copy, Drain, DrainBad, Settle,
               Commit, CommitFull, Closes, Get, SetPos, Cut
    <2> QED BY <2>1 DEF Whole
<1>2. CASE TooBig \/ Fill \/ Outline \/ PutInline \/ StartExtend
    <2>1. CASE TooBig
        BY <1>1, <2>1, TooBigKeeps, SoundWhole
    <2>2. CASE Fill
        BY <1>1, <2>2, FillKeeps, SoundWhole
    <2>3. CASE Outline
        BY <1>1, <2>3, OutlineKeeps, SoundWhole
    <2>4. CASE PutInline
        BY <1>1, <2>4, PutInlineKeeps, SoundWhole
    <2>5. CASE StartExtend
        BY <1>1, <2>5, StartExtendKeeps, SoundWhole
    <2> QED BY <1>2, <2>1, <2>2, <2>3, <2>4, <2>5
<1>3. CASE Put \/ PutBad \/ NoSpace
    <2>1. CASE Put
        BY <1>1, <2>1, PutKeeps, SoundWhole
    <2>2. CASE PutBad
        BY <1>1, <2>2, PutBadKeeps, SoundWhole
    <2>3. CASE NoSpace
        BY <1>1, <2>3, NoSpaceKeeps
    <2> QED BY <1>3, <2>1, <2>2, <2>3
<1>4. ASSUME NEW b \in Blocks, Extend(b) \/ ExtendBad(b) \/ Relocate(b) \/ RelocateBad(b)
      PROVE  Whole(disk', entry', file', todo')
    <2>1. CASE Extend(b)
        BY <1>1, <2>1, ExtendKeeps, SoundWhole
    <2>2. CASE ExtendBad(b)
        BY <1>1, <2>2, ExtendBadKeeps, SoundWhole
    <2>3. CASE Relocate(b)
        BY <1>1, <2>3, RelocateKeeps, SoundWhole
    <2>4. CASE RelocateBad(b)
        BY <1>1, <2>4, RelocateBadKeeps, SoundWhole
    <2> QED BY <1>4, <2>1, <2>2, <2>3, <2>4
<1>5. CASE Flush \/ Copy \/ Drain \/ DrainBad \/ Settle
    <2>1. CASE Flush
        BY <1>1, <2>1, FlushKeeps, SoundWhole
    <2>2. CASE Copy
        BY <1>1, <2>2, CopyKeeps, SoundWhole
    <2>3. CASE Drain
        BY <1>1, <2>3, DrainKeeps, SoundWhole
    <2>4. CASE DrainBad
        BY <1>1, <2>4, DrainBadKeeps, SoundWhole
    <2>5. CASE Settle
        BY <1>1, <2>5, SettleKeeps, SoundWhole
    <2> QED BY <1>5, <2>1, <2>2, <2>3, <2>4, <2>5
<1>6. CASE Commit \/ CommitFull \/ Closes
    <2>1. CASE Commit
        BY <1>1, <2>1, CommitKeeps, SoundWhole
    <2>2. CASE CommitFull
        BY <1>1, <2>2, CommitFullKeeps
    <2>3. CASE Closes
        BY <1>1, <2>3, ClosesKeeps
    <2> QED BY <1>6, <2>1, <2>2, <2>3
<1>7. CASE Get \/ SetPos \/ Cut
    <2>1. CASE Get
        BY <1>1, <2>1, GetKeeps, SoundWhole
    <2>2. CASE SetPos
        BY <1>1, <2>2, SetPosKeeps, SoundWhole
    <2>3. CASE Cut
        BY <1>1, <2>3, CutKeeps, SoundWhole
    <2> QED BY <1>7, <2>1, <2>2, <2>3
<1> QED BY <1>2, <1>3, <1>4, <1>5, <1>6, <1>7 DEF Steps

LEMMA CrashKeeps ==
    ASSUME Whole(disk, entry, file, todo), Crash
    PROVE  Whole(disk', entry', file', todo')
    BY DEF Crash, Whole, Sound, storage

LEMMA CountsKept ==
    ASSUME taken \subseteq Blocks, ops \in 0 .. MaxOps, Next
    PROVE  taken' \subseteq Blocks /\ ops' \in 0 .. MaxOps
<1>1. MaxOps \in Nat
    BY Bounds
<1>2. CASE Calls
    <2>1. taken' = taken
        BY Zenon, <1>2 DEF Calls, Open, Write, Read, Seek, Truncate, Sync, Close, Start
    <2>2. ops < MaxOps /\ ops' = ops + 1
        BY Zenon, <1>2 DEF Calls, Open, Write, Read, Seek, Truncate, Sync, Close, Start, Begin
    <2> QED BY <1>1, <2>1, <2>2
<1>3. CASE Steps
    <2>1. ops' = ops
        BY Zenon, <1>3 DEF Steps, TooBig, Fill, Outline, PutInline, StartExtend, Put, PutBad, NoSpace,
               Extend, ExtendBad, Relocate, RelocateBad, Flush, Copy, Drain, DrainBad, Settle,
               Commit, CommitFull, Closes, Get, SetPos, Cut
    <2>2. taken' = taken \/ taken' = {} \/ \E b \in Blocks : taken' = taken \union {b}
        BY Zenon, <1>3 DEF Steps, TooBig, Fill, Outline, PutInline, StartExtend, Put, PutBad, NoSpace,
               Extend, ExtendBad, Relocate, RelocateBad, Flush, Copy, Drain, DrainBad, Settle,
               Commit, CommitFull, Closes, Get, SetPos, Cut
    <2> QED BY <2>1, <2>2
<1>4. CASE Crash
    BY <1>4 DEF Crash
<1> QED BY <1>2, <1>3, <1>4 DEF Next

LEMMA InitHolds ==
    Init => IInv
<1> SUFFICES ASSUME Init PROVE IInv
    OBVIOUS
<1>1. entry = Absent /\ file = Closed /\ todo = <<>> /\ taken = {} /\ ops = 0 /\ disk = Blank
    BY DEF Init, Mounted
<1>2. Blank \in Device(Cell)
    BY Bounds DEF Blank, Device
<1>3. EntryOK(disk, entry)
    BY <1>1 DEF EntryOK, Listed
<1> QED BY <1>1, <1>2, <1>3, IInvIs, Bounds DEF Whole

LEMMA NextKeeps ==
    ASSUME Risks = {}, IInv, [Next]_vars
    PROVE  IInv'
<1>1. Whole(disk, entry, file, todo) /\ taken \subseteq Blocks /\ ops \in 0 .. MaxOps
    BY IInvIs
<1>2. SUFFICES Whole(disk', entry', file', todo') /\ taken' \subseteq Blocks /\ ops' \in 0 .. MaxOps
    <2>1. IInv' <=> (Whole(disk, entry, file, todo) /\ taken \subseteq Blocks /\ ops \in 0 .. MaxOps)'
        BY IInvIs, PTL
    <2> QED BY <2>1 DEF Whole, Sound, HandleOK
<1>3. CASE Next
    <2>1. taken' \subseteq Blocks /\ ops' \in 0 .. MaxOps
        BY <1>1, <1>3, CountsKept
    <2>2. Whole(disk', entry', file', todo')
        BY <1>1, <1>3, CallsKeep, StepsKeep, CrashKeeps DEF Next
    <2> QED BY <2>1, <2>2
<1>4. CASE UNCHANGED vars
    BY <1>1, <1>4 DEF vars, storage
<1> QED BY <1>3, <1>4

-----------------------------------------------------------------------------
(* What follows from it.                                                     *)

LEMMA PlaceIsKept ==
    IInv => OffIsPlace
<1> SUFFICES ASSUME IInv, file # Closed PROVE OffIsPlace
    BY DEF OffIsPlace
<1>1. Sound(disk, entry, file, todo)
    BY IInvIs DEF Whole
<1>2. file \in Handles
    BY <1>1 DEF Sound
<1>3. file.pos \in Nat /\ file.pos <= Reach /\ file.off \in Nat /\ file.off <= BlockSize
      /\ BlockSize \in Nat
    BY <1>2, HandleType, Bounds
<1>4. CtzIndex(file.pos) = Place[file.pos]
    BY <1>3, PlaceType
<1>5. ASSUME todo = <<>>, ~file.inline, file.reading \/ file.writing
      PROVE  file.off \in {Place[file.pos].off, BlockSize}
    <2>1. CASE file.writing
        <3>1. TipOK(disk, entry, file)
            BY <1>1, <1>5, <2>1, SoundHandle
        <3> QED BY <1>3, <3>1 DEF TipOK
    <2>2. CASE ~file.writing
        <3>1. RestingOK(file, todo)
            BY <1>1, <1>5, <2>2, SoundHandle
        <3> QED BY <1>5, <2>2, <3>1 DEF RestingOK
    <2> QED BY <2>1, <2>2
<1> QED BY <1>4, <1>5 DEF OffIsPlace

LEMMA ListIsKept ==
    IInv => CommittedIsList
    BY DEF IInv, EntryOK, Listed, CommittedIsList

LEMMA NeededIsSeen ==
    IInv => Protected
<1> SUFFICES ASSUME IInv, todo = <<>> \/ Top.op \in {"extend", "relocate", "commit"}
             PROVE  Needed \subseteq Visited
    BY DEF Protected
<1>1. entry \in Entries \union {Absent} /\ EntryOK(disk, entry)
    BY DEF IInv, TypeOK
<1>2. Listed(entry) => BlocksOfEntry(disk, entry) \subseteq Visited
    BY <1>1, EntryVisited DEF Visited
<1>3. CASE file = Closed \/ file.inline
    BY <1>2, <1>3 DEF Needed, Listed, BlocksOfEntry
<1>4. CASE file # Closed /\ ~file.inline
    <2>1. Sound(disk, entry, file, todo)
        BY <1>4, IInvIs DEF Whole
    <2>2. file \in Handles
        BY <2>1 DEF Sound
    <2>3. NeedsOld(file) => OldBlocks(disk, file) \subseteq Visited
        BY <1>4, <2>1, VisitedOf
    <2>4. ~(file.head = Inline \/ (file.writing /\ file.pos >= file.size)) => NeedsOld(file)
        BY <2>2, HandleType DEF NeedsOld
    <2>5. file.writing => ListBlocks(disk, file.cache, file.block, file.pos) \subseteq Visited
        <3>1. SUFFICES ASSUME file.writing
                       PROVE  ListBlocks(disk, file.cache, file.block, file.pos) \subseteq Visited
            OBVIOUS
        <3>2. CASE file.pos = 0
            BY <3>2 DEF ListBlocks
        <3>3. CASE file.pos # 0
            <4>1. file.pos > 0
                BY <2>2, <3>3, HandleType
            <4>2. ~Is(todo, "put")
                BY DEF Is, Top
            <4>3. ~Unused(file)
                BY <1>4, <2>1, <3>1, <4>1, <4>2, SoundHandle DEF UnusedOK
            <4> QED BY <1>4, <2>1, <3>1, <4>1, <4>3, VisitedOf
        <3> QED BY <3>2, <3>3
    <2> QED BY <1>2, <1>4, <2>3, <2>4, <2>5 DEF Needed, Listed, BlocksOfEntry, OldBlocks
<1> QED BY <1>3, <1>4

LEMMA NothingIsLost ==
    IInv => AssertionsHold
<1> SUFFICES ASSUME IInv PROVE AssertionsHold
    OBVIOUS
<1>1. ASSUME todo # <<>> PROVE Sound(disk, entry, file, todo) /\ file \in Handles
    BY <1>1, IInvIs DEF Whole, Sound
<1>2. ASSUME Doing("put"), ~file.inline, ~NeedsBlock
      PROVE  \/ file.cache.block = NoBlock
             \/ /\ file.cache.block = file.block
                /\ file.off \in file.cache.off .. file.cache.off + CacheSize - 1
    <2>1. Sound(disk, entry, file, todo) /\ file \in Handles
        BY <1>1, <1>2 DEF Doing
    <2>2. file.writing /\ Is(todo, "put") /\ ~Is(todo, "relocate")
        BY <1>2, DoingIs DEF NeedsBlock, Is
    <2>3. CacheOK(file, todo)
        BY <1>2, <2>1, <2>2, SoundHandle
    <2>4. CASE file.cache = NoCache
        BY <2>4, NoCacheIs
    <2>5. CASE file.cache # NoCache
        <3> DEFINE l == Len(file.cache.data)
                   o == file.cache.off
        <3>1. /\ file.cache.block = file.block /\ file.cache.data # <<>>
              /\ l < CacheSize /\ o + l = file.off
            BY <2>2, <2>3, <2>5 DEF CacheOK
        <3>2. l \in Nat /\ o \in Nat /\ CacheSize \in Nat /\ file.off \in Nat
            BY <2>1, HandleType, Bounds
        <3> HIDE DEF l, o
        <3>3. file.off \in o .. o + CacheSize - 1
            BY <3>1, <3>2
        <3> QED BY <3>1, <3>3 DEF o
    <2> QED BY <2>4, <2>5
<1>3. ASSUME Doing("extend") PROVE file.cache.block = NoBlock
    <2>1. Sound(disk, entry, file, todo) /\ Is(todo, "extend")
        BY <1>1, <1>3, DoingIs DEF Doing
    <2> QED BY <2>1, ExtendFacts, NoCacheIs
<1>4. ASSUME Doing("copy"), file.pos < file.size PROVE file.head \in Blocks
    <2>1. Sound(disk, entry, file, todo) /\ file \in Handles /\ Is(todo, "copy")
        BY <1>1, <1>4, DoingIs DEF Doing
    <2>2. ~file.inline
        BY <2>1, LegalOf DEF Sound
    <2>3. ~Is(todo, "put") /\ ~Is(todo, "relocate")
        BY <2>1 DEF Is
    <2>4. OutlinedOK(file, todo)
        BY <2>1, <2>2, SoundHandle
    <2>5. file.head # Inline
        BY <1>4, <2>3, <2>4 DEF OutlinedOK
    <2> QED BY <2>1, <2>5, HandleType
<1> QED BY <1>2, <1>3, <1>4 DEF AssertionsHold

\* The invariant holds in every state that a program with none of the known mistakes
\* reaches.
THEOREM FileInvariant ==
    ASSUME Risks = {}
    PROVE  Spec => []IInv
<1>1. Init => IInv
    BY InitHolds
<1>2. IInv /\ [Next]_vars => IInv'
    BY NextKeeps
<1> QED BY <1>1, <1>2, PTL DEF Spec

\* lfs_file_t and the stack of its calls hold what their types say, and a handle is never
\* reading and writing at once (lfs.c:2598).
THEOREM FileTypes ==
    ASSUME Risks = {}
    PROVE  Spec => []TypeOK
<1>1. IInv => TypeOK
    BY DEF IInv
<1> QED BY <1>1, FileInvariant, PTL

\* lfs_ctz_index and file->off: the handle knows where it is in its list.
THEOREM HandleKnowsItsPlace ==
    ASSUME Risks = {}
    PROVE  Spec => []OffIsPlace
    BY FileInvariant, PlaceIsKept, PTL

\* Copy-on-write: nothing is ever written to a block of the committed file.
THEOREM CommittedFileIsWhole ==
    ASSUME Risks = {}
    PROVE  Spec => []CommittedIsList
    BY FileInvariant, ListIsKept, PTL

\* lfs_fs_traverse: no block of the file or of its handle can be handed out.
THEOREM NeededBlocksAreSafe ==
    ASSUME Risks = {}
    PROVE  Spec => []Protected
    BY FileInvariant, NeededIsSeen, PTL

\* The assertions of the block layer do not fail.
THEOREM FileAssertionsHold ==
    ASSUME Risks = {}
    PROVE  Spec => []AssertionsHold
    BY FileInvariant, NothingIsLost, PTL

=============================================================================
