------------------------------ MODULE Recursion ------------------------------
(***************************************************************************)
(* Induction over the natural numbers, and the existence of functions that *)
(* are defined by recursion, with sets and functions as parameters.        *)
(***************************************************************************)
EXTENDS Naturals, WellFoundedInduction, TLAPS

\* A set of numbers that is not empty has a least member.
LEMMA LeastNatural ==
    ASSUME NEW T, T \subseteq Nat, T # {}
    PROVE  \E x \in T : \A y \in T : x <= y
<1> DEFINE R == OpToRel(<, Nat)
<1>1. IsWellFoundedOn(R, Nat)
    BY NatLessThanWellFounded
<1>2. PICK x \in T : \A y \in T : ~(<<y, x>> \in R)
    <2> HIDE DEF R
    <2> QED BY <1>1, WFMin
<1>3. \A y \in T : <<y, x>> \in R <=> y < x
    BY DEF OpToRel
<1> HIDE DEF R
<1>4. \A y \in T : ~(y < x)
    BY <1>2, <1>3
<1>5. x \in Nat /\ \A y \in T : y \in Nat
    OBVIOUS
<1> QED BY <1>4, <1>5

\* Induction: T is the set of those numbers for which something holds.
LEMMA Induction ==
    ASSUME NEW T, 0 \in T, \A n \in Nat : n \in T => n + 1 \in T
    PROVE  \A n \in Nat : n \in T
<1> DEFINE F == {n \in Nat : n \notin T}
<1>1. SUFFICES ASSUME F # {} PROVE FALSE
    OBVIOUS
<1>2. PICK x \in F : \A y \in F : x <= y
    <2> F \subseteq Nat OBVIOUS
    <2> HIDE DEF F
    <2> QED BY <1>1, LeastNatural
<1>3. x # 0 /\ x - 1 \in Nat /\ x - 1 \notin F
    BY <1>2
<1>4. (x - 1) + 1 \in T
    BY <1>3
<1> QED BY <1>2, <1>4

\* ... where the step may use all smaller numbers.
LEMMA StrongInduction ==
    ASSUME NEW T, \A n \in Nat : (\A m \in Nat : m < n => m \in T) => n \in T
    PROVE  \A n \in Nat : n \in T
<1> DEFINE F == {n \in Nat : n \notin T}
<1>1. SUFFICES ASSUME F # {} PROVE FALSE
    OBVIOUS
<1>2. PICK x \in F : \A y \in F : x <= y
    <2> F \subseteq Nat OBVIOUS
    <2> HIDE DEF F
    <2> QED BY <1>1, LeastNatural
<1>3. \A m \in Nat : m < x => m \in T
    BY <1>2
<1> QED BY <1>2, <1>3

\* G gives the value at n of a function f into S, from n and from what f is below n.
Recurs(G, S) ==
    /\ G \in [Nat \X [Nat -> S] -> S]
    /\ \A n \in Nat : \A f, h \in [Nat -> S] :
          (\A i \in Nat : i < n => f[i] = h[i]) => G[<<n, f>>] = G[<<n, h>>]

Follows(f, G, S) == f \in [Nat -> S] /\ \A n \in Nat : f[n] = G[<<n, f>>]

\* There is a function that follows such a G.
LEMMA Recursion ==
    ASSUME NEW S, NEW s \in S, NEW G, Recurs(G, S)
    PROVE  \E f : Follows(f, G, S)
<1>0. /\ G \in [Nat \X [Nat -> S] -> S]
      /\ \A n \in Nat : \A f, h \in [Nat -> S] :
            (\A i \in Nat : i < n => f[i] = h[i]) => G[<<n, f>>] = G[<<n, h>>]
    BY DEF Recurs
<1> DEFINE Right(f, m) == \A n \in Nat : n < m => f[n] = G[<<n, f>>]
           T == {m \in Nat : \E f \in [Nat -> S] : Right(f, m)}
<1>1. 0 \in T
    <2>1. [n \in Nat |-> s] \in [Nat -> S] /\ Right([n \in Nat |-> s], 0)
        OBVIOUS
    <2> HIDE DEF Right
    <2> QED BY <2>1
<1>2. ASSUME NEW m \in Nat, m \in T PROVE m + 1 \in T
    <2>1. PICK f \in [Nat -> S] : Right(f, m)
        BY <1>2
    <2> DEFINE h == [f EXCEPT ![m] = G[<<m, f>>]]
    <2>2. h \in [Nat -> S] /\ h[m] = G[<<m, f>>] /\ \A i \in Nat : i < m => h[i] = f[i]
        BY <1>0
    <2> HIDE DEF h
    <2>3. G[<<m, h>>] = G[<<m, f>>]
        BY <1>0, <2>2
    <2>4. ASSUME NEW n \in Nat, n < m PROVE h[n] = G[<<n, h>>]
        <3>1. \A i \in Nat : i < n => h[i] = f[i]
            BY <2>2, <2>4
        <3>2. G[<<n, h>>] = G[<<n, f>>]
            BY <1>0, <2>2, <3>1
        <3> QED BY <3>2, <2>1, <2>2, <2>4
    <2>5. Right(h, m + 1)
        <3>1. \A n \in Nat : n < m + 1 => n < m \/ n = m
            OBVIOUS
        <3> QED BY <2>2, <2>3, <2>4, <3>1
    <2> HIDE DEF Right
    <2> QED BY <2>2, <2>5
<1>3. \A m \in Nat : \E f \in [Nat -> S] : Right(f, m)
    <2> HIDE DEF Right
    <2>1. \A m \in Nat : m \in T
        <3> HIDE DEF T
        <3> QED BY <1>1, <1>2, Induction
    <2> QED BY <2>1
<1> DEFINE F == [m \in Nat |-> CHOOSE f \in [Nat -> S] : Right(f, m)]
<1>4. \A m \in Nat : F[m] \in [Nat -> S] /\ Right(F[m], m)
    <2> HIDE DEF Right
    <2> QED BY <1>3
<1> HIDE DEF F
<1>5. ASSUME NEW m \in Nat, NEW k \in Nat, m <= k
      PROVE  \A i \in Nat : i < m => F[m][i] = F[k][i]
    <2> DEFINE U == {i \in Nat : i < m => F[m][i] = F[k][i]}
    <2>1. ASSUME NEW n \in Nat, \A i \in Nat : i < n => i \in U PROVE n \in U
        <3>1. SUFFICES ASSUME n < m PROVE F[m][n] = F[k][n]
            OBVIOUS
        <3>2. \A i \in Nat : i < n => F[m][i] = F[k][i]
            BY <2>1, <3>1
        <3>3. G[<<n, F[m]>>] = G[<<n, F[k]>>]
            BY <1>0, <1>4, <3>2
        <3>4. n < k
            BY <1>5, <3>1
        <3>5. F[m][n] = G[<<n, F[m]>>] /\ F[k][n] = G[<<n, F[k]>>]
            BY <1>4, <3>1, <3>4
        <3> QED BY <3>3, <3>5
    <2>2. \A n \in Nat : n \in U
        <3> HIDE DEF U
        <3> QED BY <2>1, StrongInduction
    <2> QED BY <2>2
<1> DEFINE f == [n \in Nat |-> F[n + 1][n]]
<1>6. f \in [Nat -> S]
    BY <1>4
<1>7. ASSUME NEW n \in Nat PROVE f[n] = G[<<n, f>>]
    <2>1. ASSUME NEW i \in Nat, i < n PROVE F[n + 1][i] = f[i]
        <3>1. i + 1 \in Nat /\ n + 1 \in Nat /\ i + 1 <= n + 1 /\ i < i + 1
            BY <2>1
        <3>2. F[i + 1][i] = F[n + 1][i]
            BY <1>5, <3>1
        <3>3. f[i] = F[i + 1][i]
            OBVIOUS
        <3> HIDE DEF f
        <3> QED BY <3>2, <3>3
    <2>2. f[n] = G[<<n, F[n + 1]>>]
        <3>1. n + 1 \in Nat /\ n < n + 1
            OBVIOUS
        <3>2. F[n + 1][n] = G[<<n, F[n + 1]>>]
            BY <1>4, <3>1
        <3>3. f[n] = F[n + 1][n]
            OBVIOUS
        <3> HIDE DEF f
        <3> QED BY <3>2, <3>3
    <2>3. F[n + 1] \in [Nat -> S]
        BY <1>4
    <2> HIDE DEF f
    <2>4. G[<<n, F[n + 1]>>] = G[<<n, f>>]
        BY <1>0, <1>6, <2>1, <2>3
    <2> QED BY <2>2, <2>4
<1> HIDE DEF f
<1> QED BY <1>6, <1>7 DEF Follows
==============================================================================
