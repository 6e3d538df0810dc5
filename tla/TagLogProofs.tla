----------------------------- MODULE TagLogProofs -----------------------------
(***************************************************************************)
(* What is proved of the log of tags: the kinds of tags a block may hold,  *)
(* and that the move in RAM is the one the device has.                     *)
(***************************************************************************)
EXTENDS TagLog, Recursion, SequenceTheorems, FiniteSetTheorems

-----------------------------------------------------------------------------
(* Logs.  The tags are not limited to a set that could be named here: what   *)
(* one holds may be the log of another pair.                                 *)

StoreKinds  == {"name", "struct", "attr", "tail", "splice"}
CommitKinds == StoreKinds \union {"from"}

\* A hard tail, to the next pair of the directory, names a pair.
IsTag(t, kinds) ==
    /\ t = Tag(t.kind, t.sub, t.id, t.val)
    /\ t.kind \in kinds
    /\ t.kind = "tail" /\ t.sub = "hard" => t.val \in Pairs

IsLog(s, kinds) == \E S : s \in Seq(S) /\ \A t \in S : IsTag(t, kinds)

LEMMA TagIsTag ==
    ASSUME NEW kind, NEW sub, NEW id, NEW val, NEW kinds, kind \in kinds,
           kind = "tail" /\ sub = "hard" => val \in Pairs
    PROVE  IsTag(Tag(kind, sub, id, val), kinds)
    BY DEF IsTag, Tag

LEMMA LogElement ==
    ASSUME NEW s, NEW kinds, IsLog(s, kinds)
    PROVE  /\ Len(s) \in Nat
           /\ DOMAIN s = 1 .. Len(s)
           /\ \A i \in 1 .. Len(s) : IsTag(s[i], kinds)
<1>1. PICK S : s \in Seq(S) /\ \A t \in S : IsTag(t, kinds)
    BY DEF IsLog
<1>2. \A i \in 1 .. Len(s) : s[i] \in S
    BY <1>1
<1> QED BY <1>1, <1>2

LEMMA LogOver ==
    ASSUME NEW s, NEW kinds, NEW S, s \in Seq(S), \A t \in S : IsTag(t, kinds)
    PROVE  IsLog(s, kinds)
    BY DEF IsLog

LEMMA LogEmpty ==
    ASSUME NEW kinds
    PROVE  IsLog(<<>>, kinds)
<1> DEFINE s == <<>>
<1>1. s \in Seq({})
    OBVIOUS
<1>2. \A t \in {} : IsTag(t, kinds)
    OBVIOUS
<1>3. IsLog(s, kinds)
    <2> HIDE DEF s
    <2> QED BY <1>1, <1>2, LogOver
<1> QED BY <1>3

LEMMA LogOne ==
    ASSUME NEW t, NEW kinds, IsTag(t, kinds)
    PROVE  IsLog(<<t>>, kinds)
<1> DEFINE s == <<t>>
<1>1. s \in Seq({t})
    OBVIOUS
<1>2. \A x \in {t} : IsTag(x, kinds)
    OBVIOUS
<1>3. IsLog(s, kinds)
    <2> HIDE DEF s
    <2> QED BY <1>1, <1>2, LogOver
<1> QED BY <1>3

LEMMA LogConcat ==
    ASSUME NEW s, NEW u, NEW kinds, IsLog(s, kinds), IsLog(u, kinds)
    PROVE  IsLog(s \o u, kinds)
<1>1. PICK S : s \in Seq(S) /\ \A t \in S : IsTag(t, kinds)
    BY DEF IsLog
<1>2. PICK U : u \in Seq(U) /\ \A t \in U : IsTag(t, kinds)
    BY DEF IsLog
<1>3. s \in Seq(S \union U) /\ u \in Seq(S \union U)
    BY <1>1, <1>2, SeqMonotonic
<1>4. s \o u \in Seq(S \union U)
    BY <1>3, ConcatProperties
<1> QED BY <1>1, <1>2, <1>4 DEF IsLog

LEMMA LogAppend ==
    ASSUME NEW s, NEW t, NEW kinds, IsLog(s, kinds), IsTag(t, kinds)
    PROVE  IsLog(Append(s, t), kinds)
<1>1. PICK S : s \in Seq(S) /\ \A x \in S : IsTag(x, kinds)
    BY DEF IsLog
<1>2. s \in Seq(S \union {t})
    BY <1>1, SeqMonotonic
<1>3. Append(s, t) \in Seq(S \union {t})
    BY <1>2, AppendProperties
<1> QED BY <1>1, <1>3 DEF IsLog

LEMMA LogWider ==
    ASSUME NEW s, NEW kinds, NEW more, IsLog(s, kinds), kinds \subseteq more
    PROVE  IsLog(s, more)
    BY DEF IsLog, IsTag

-----------------------------------------------------------------------------
(* lfs_dir_traverse.                                                          *)

\* A tag x that the tag t may become.
Became(x, t, kinds) == IsTag(x, kinds) /\ x.kind = t.kind /\ x.val = t.val

LEMMA FilteredTag ==
    ASSUME NEW t, NEW u, NEW x, NEW kinds, x = Superseded \/ Became(x, t, kinds)
    PROVE  Filtered(x, u) = Superseded \/ Became(Filtered(x, u), t, kinds)
<1>1. CASE Filtered(x, u) = Superseded \/ Filtered(x, u) = x
    BY <1>1
<1>2. CASE x # Superseded /\ Filtered(x, u) = [x EXCEPT !.id = x.id + Splice(u)]
    BY <1>2 DEF Became, IsTag, Tag
<1> QED BY <1>1, <1>2 DEF Filtered

LEMMA FilteredByTag ==
    ASSUME NEW t, NEW kinds, IsTag(t, kinds), NEW all, Len(all) \in Nat,
           NEW i \in 1 .. Len(all) + 1
    PROVE  FilteredBy(t, all, i) = Superseded \/ Became(FilteredBy(t, all, i), t, kinds)
<1> DEFINE Is(f, m) == f = [k \in i - 1 .. m |-> IF k = i - 1 THEN t
                                                ELSE Filtered(f[k - 1], all[k])]
           T == {m \in Nat : \E f : Is(f, (i - 1) + m)}
<1>1. \A m \in Nat : m \in T
    <2>1. 0 \in T
        <3>1. Is([k \in i - 1 .. i - 1 |-> t], (i - 1) + 0)
            OBVIOUS
        <3> HIDE DEF Is
        <3> QED BY <3>1
    <2>2. ASSUME NEW m \in Nat, m \in T PROVE m + 1 \in T
        <3>1. PICK f : Is(f, (i - 1) + m)
            BY <2>2
        <3> DEFINE h == [k \in i - 1 .. (i - 1) + (m + 1) |->
                            IF k = (i - 1) + (m + 1) THEN Filtered(f[k - 1], all[k])
                            ELSE f[k]]
        <3>2. Is(h, (i - 1) + (m + 1))
            BY <3>1
        <3> HIDE DEF Is, h
        <3> QED BY <3>2
    <2> HIDE DEF T
    <2> QED BY <2>1, <2>2, Induction
<1> DEFINE upto[k \in i - 1 .. Len(all)] ==
              IF k = i - 1 THEN t ELSE Filtered(upto[k - 1], all[k])
<1>2. Is(upto, Len(all))
    <2>1. PICK f : Is(f, (i - 1) + (Len(all) - (i - 1)))
        <3>1. Len(all) - (i - 1) \in Nat
            OBVIOUS
        <3> HIDE DEF Is
        <3> QED BY <1>1, <3>1
    <2>2. Is(f, Len(all))
        <3>1. (i - 1) + (Len(all) - (i - 1)) = Len(all)
            OBVIOUS
        <3> HIDE DEF Is
        <3> QED BY <2>1, <3>1
    <2> QED BY <2>2
<1>3. FilteredBy(t, all, i) = upto[Len(all)]
    BY DEF FilteredBy
<1> HIDE DEF upto
<1> DEFINE V == {m \in Nat : (i - 1) + m <= Len(all) =>
                    \/ upto[(i - 1) + m] = Superseded
                    \/ Became(upto[(i - 1) + m], t, kinds)}
<1>4. \A m \in Nat : m \in V
    <2>1. 0 \in V
        BY <1>2 DEF Became
    <2>2. ASSUME NEW m \in Nat, m \in V PROVE m + 1 \in V
        <3>1. SUFFICES ASSUME (i - 1) + (m + 1) <= Len(all)
                       PROVE  \/ upto[(i - 1) + (m + 1)] = Superseded
                              \/ Became(upto[(i - 1) + (m + 1)], t, kinds)
            OBVIOUS
        <3>2. upto[(i - 1) + (m + 1)]
                = Filtered(upto[(i - 1) + m], all[(i - 1) + (m + 1)])
            BY <1>2, <3>1
        <3>3. upto[(i - 1) + m] = Superseded \/ Became(upto[(i - 1) + m], t, kinds)
            BY <2>2, <3>1
        <3> QED BY <3>2, <3>3, FilteredTag
    <2> HIDE DEF V, T, Is
    <2> QED BY <2>1, <2>2, Induction
<1>5. /\ Len(all) - (i - 1) \in Nat
      /\ (i - 1) + (Len(all) - (i - 1)) = Len(all)
    OBVIOUS
<1>6. Len(all) - (i - 1) \in V
    <2> HIDE DEF V
    <2> QED BY <1>4, <1>5
<1> QED BY <1>3, <1>5, <1>6


\* Each tag of s was a tag of `all`.
ComesFrom(s, all) ==
    \A j \in 1 .. Len(s) : \E i \in 1 .. Len(all) :
        s[j].kind = all[i].kind /\ s[j].val = all[i].val

LEMMA ComesFromAppend ==
    ASSUME NEW s, NEW all, NEW kinds, IsLog(s, kinds), ComesFrom(s, all),
           NEW i \in 1 .. Len(all), NEW t, t.kind = all[i].kind, t.val = all[i].val
    PROVE  ComesFrom(Append(s, t), all)
<1>1. PICK S : s \in Seq(S)
    BY DEF IsLog
<1>2. s \in Seq(S \union {t})
    BY <1>1, SeqMonotonic
<1>3. /\ Len(Append(s, t)) = Len(s) + 1
      /\ \A j \in 1 .. Len(s) : Append(s, t)[j] = s[j]
      /\ Append(s, t)[Len(s) + 1] = t
      /\ Len(s) \in Nat
    BY <1>2, AppendProperties
<1>4. \A j \in 1 .. Len(s) + 1 : j \in 1 .. Len(s) \/ j = Len(s) + 1
    BY <1>3
<1> QED BY <1>3, <1>4 DEF ComesFrom

LEMMA UniqueLog ==
    ASSUME NEW all, NEW n, NEW kinds, NEW begin, NEW end,
           NEW any, IsLog(all, any)
    PROVE  /\ IsLog(Unique(all, n, kinds, begin, end), kinds)
           /\ ComesFrom(Unique(all, n, kinds, begin, end), all)
<1> DEFINE now(i) == IF i <= n /\ all[i].val = Gone THEN Superseded
                     ELSE FilteredBy(all[i], all, i + 1)
           Counts(i) == /\ all[i].kind \in kinds
                        /\ now(i) # Superseded
                        /\ now(i).id \in begin .. end - 1
           Next_(l, i) == IF Counts(i) THEN Append(l, now(i)) ELSE l
           Is(f, m) == f = [i \in 0 .. m |-> IF i = 0 THEN <<>> ELSE Next_(f[i - 1], i)]
           T == {m \in Nat : \E f : Is(f, m)}
<1>0. Len(all) \in Nat /\ \A i \in 1 .. Len(all) : IsTag(all[i], any)
    BY LogElement
<1>1. \A i \in 1 .. Len(all) : Counts(i) => Became(now(i), all[i], kinds)
    <2> SUFFICES ASSUME NEW i \in 1 .. Len(all), Counts(i)
                 PROVE  Became(now(i), all[i], kinds)
        OBVIOUS
    <2>1. now(i) = FilteredBy(all[i], all, i + 1) /\ now(i) # Superseded
        OBVIOUS
    <2>2. IsTag(all[i], {all[i].kind})
        BY <1>0 DEF IsTag
    <2>3. i + 1 \in 1 .. Len(all) + 1
        BY <1>0
    <2> HIDE DEF now
    <2>4. Became(FilteredBy(all[i], all, i + 1), all[i], {all[i].kind})
        BY <1>0, <2>1, <2>2, <2>3, FilteredByTag
    <2> QED BY <2>1, <2>4 DEF Became, IsTag
<1> HIDE DEF now, Counts
<1>2. \A m \in Nat : m \in T
    <2>1. 0 \in T
        <3>1. Is([i \in 0 .. 0 |-> <<>>], 0)
            OBVIOUS
        <3> HIDE DEF Is
        <3> QED BY <3>1
    <2>2. ASSUME NEW m \in Nat, m \in T PROVE m + 1 \in T
        <3>1. PICK f : Is(f, m)
            BY <2>2
        <3> DEFINE h == [i \in 0 .. m + 1 |-> IF i = m + 1 THEN Next_(f[i - 1], i) ELSE f[i]]
        <3>2. Is(h, m + 1)
            <4> HIDE DEF Next_
            <4> QED BY <3>1
        <3> HIDE DEF Is, h
        <3> QED BY <3>2
    <2> HIDE DEF T
    <2> QED BY <2>1, <2>2, Induction
<1> DEFINE upto[i \in 0 .. Len(all)] ==
              IF i = 0 THEN <<>>
              ELSE IF /\ all[i].kind \in kinds
                      /\ now(i) # Superseded
                      /\ now(i).id \in begin .. end - 1
              THEN Append(upto[i - 1], now(i))
              ELSE upto[i - 1]
<1>3. Is(upto, Len(all))
    <2>1. PICK f : Is(f, Len(all))
        BY <1>0, <1>2
    <2> QED BY <2>1 DEF Counts
<1>4. Unique(all, n, kinds, begin, end) = upto[Len(all)]
    BY DEF Unique, now
<1> HIDE DEF upto
<1> DEFINE Good(l) == IsLog(l, kinds) /\ ComesFrom(l, all)
           V == {m \in Nat : m <= Len(all) => Good(upto[m])}
<1>5. \A m \in Nat : m \in V
    <2>1. 0 \in V
        BY <1>3, <1>0, LogEmpty DEF ComesFrom
    <2>2. ASSUME NEW m \in Nat, m \in V PROVE m + 1 \in V
        <3>1. SUFFICES ASSUME m + 1 <= Len(all) PROVE Good(upto[m + 1])
            OBVIOUS
        <3>2. upto[m + 1] = Next_(upto[m], m + 1) /\ Good(upto[m])
            <4> HIDE DEF Next_, Good
            <4> QED BY <1>3, <1>0, <2>2, <3>1
        <3>3. m + 1 \in 1 .. Len(all)
            BY <1>0, <3>1
        <3>4. CASE Counts(m + 1)
            <4>1. Became(now(m + 1), all[m + 1], kinds)
                BY <1>1, <3>3, <3>4
            <4>2. upto[m + 1] = Append(upto[m], now(m + 1))
                BY <3>2, <3>4
            <4> QED BY <3>2, <3>3, <4>1, <4>2, LogAppend, ComesFromAppend DEF Became
        <3>5. CASE ~Counts(m + 1)
            BY <3>2, <3>5
        <3> QED BY <3>4, <3>5
    <2> HIDE DEF V
    <2> QED BY <2>1, <2>2, Induction
<1>6. Len(all) \in V
    <2> HIDE DEF V
    <2> QED BY <1>0, <1>5
<1> QED BY <1>0, <1>4, <1>6

\* The tags a commit may have: one that stands for the tags of a move has their log.
IsChange(t) == /\ IsTag(t, CommitKinds)
               /\ t.kind = "from" => \E kinds : IsLog(t.val.log, kinds)
IsChanges(s) == \E S : s \in Seq(S) /\ \A t \in S : IsChange(t)

LEMMA ChangesLog ==
    ASSUME NEW s, IsChanges(s)
    PROVE  IsLog(s, CommitKinds) /\ \A i \in 1 .. Len(s) : IsChange(s[i])
<1>1. PICK S : s \in Seq(S) /\ \A t \in S : IsChange(t)
    BY DEF IsChanges
<1>2. \A t \in S : IsTag(t, CommitKinds)
    BY <1>1 DEF IsChange
<1>3. \A i \in 1 .. Len(s) : s[i] \in S
    BY <1>1
<1> QED BY <1>1, <1>2, <1>3, LogOver

LEMMA EmittedLog ==
    ASSUME NEW tags, NEW d, IsLog(tags, CommitKinds),
           \A i \in 1 .. Len(tags) : IsChange(tags[i])
    PROVE  IsLog(Emitted(tags, d), StoreKinds)
<1> DEFINE one(t) == [t EXCEPT !.id = IF t.id = NoId THEN t.id ELSE t.id + d]
           moved(t) ==
               LET them == Unique(t.val.log, Len(t.val.log), {"struct", "attr"},
                                  t.val.id, t.val.id + 1)
               IN [k \in DOMAIN them |-> [them[k] EXCEPT !.id = t.id + d]]
           part(t) == IF t.kind = "from" THEN moved(t) ELSE <<one(t)>>
           Next_(l, i) == l \o part(tags[i])
           Is(f, m) == f = [i \in 0 .. m |-> IF i = 0 THEN <<>> ELSE Next_(f[i - 1], i)]
           T == {m \in Nat : \E f : Is(f, m)}
<1>0. Len(tags) \in Nat /\ \A i \in 1 .. Len(tags) : IsTag(tags[i], CommitKinds)
    BY LogElement
<1>1. ASSUME NEW t, IsChange(t) PROVE IsLog(part(t), StoreKinds)
    <2>1. CASE t.kind = "from"
        <3> DEFINE them == Unique(t.val.log, Len(t.val.log), {"struct", "attr"},
                                  t.val.id, t.val.id + 1)
                   out == [k \in DOMAIN them |-> [them[k] EXCEPT !.id = t.id + d]]
                   S == {out[k] : k \in DOMAIN them}
        <3>1. IsLog(them, {"struct", "attr"})
            BY <1>1, <2>1, UniqueLog DEF IsChange
        <3> HIDE DEF them
        <3>2. DOMAIN them = 1 .. Len(them) /\ Len(them) \in Nat
            BY <3>1, LogElement
        <3>3. \A k \in DOMAIN them : IsTag(them[k], {"struct", "attr"})
            BY <3>1, <3>2, LogElement
        <3>4. \A k \in DOMAIN them : IsTag(out[k], StoreKinds)
            BY <3>3 DEF IsTag, Tag, StoreKinds
        <3>5. out \in Seq(S)
            BY <3>2
        <3>6. \A x \in S : IsTag(x, StoreKinds)
            BY <3>4
        <3>7. IsLog(out, StoreKinds)
            <4> HIDE DEF out, S
            <4> QED BY <3>5, <3>6, LogOver
        <3>8. part(t) = out
            BY <2>1 DEF them
        <3> QED BY <3>7, <3>8
    <2>2. CASE t.kind # "from"
        <3>1. IsTag(one(t), StoreKinds)
            BY <1>1, <2>2 DEF IsChange, IsTag, Tag, StoreKinds, CommitKinds
        <3> HIDE DEF one
        <3> QED BY <2>2, <3>1, LogOne
    <2> QED BY <2>1, <2>2
<1> HIDE DEF part
<1>2. \A m \in Nat : m \in T
    <2>1. 0 \in T
        <3>1. Is([i \in 0 .. 0 |-> <<>>], 0)
            OBVIOUS
        <3> HIDE DEF Is
        <3> QED BY <3>1
    <2>2. ASSUME NEW m \in Nat, m \in T PROVE m + 1 \in T
        <3>1. PICK f : Is(f, m)
            BY <2>2
        <3> DEFINE h == [i \in 0 .. m + 1 |-> IF i = m + 1 THEN Next_(f[i - 1], i) ELSE f[i]]
        <3>2. Is(h, m + 1)
            <4> HIDE DEF Next_
            <4> QED BY <3>1
        <3> HIDE DEF Is, h
        <3> QED BY <3>2
    <2> HIDE DEF T
    <2> QED BY <2>1, <2>2, Induction
<1> DEFINE upto[i \in 0 .. Len(tags)] ==
              IF i = 0 THEN <<>>
              ELSE upto[i - 1] \o (IF tags[i].kind = "from" THEN moved(tags[i])
                                   ELSE <<one(tags[i])>>)
<1>3. Is(upto, Len(tags))
    <2>1. PICK f : Is(f, Len(tags))
        BY <1>0, <1>2
    <2> HIDE DEF moved, one
    <2> QED BY <2>1 DEF part
<1>4. Emitted(tags, d) = upto[Len(tags)]
    BY DEF Emitted
<1> HIDE DEF upto
<1> DEFINE V == {m \in Nat : m <= Len(tags) => IsLog(upto[m], StoreKinds)}
<1>5. \A m \in Nat : m \in V
    <2>1. 0 \in V
        BY <1>3, <1>0, LogEmpty
    <2>2. ASSUME NEW m \in Nat, m \in V PROVE m + 1 \in V
        <3>1. SUFFICES ASSUME m + 1 <= Len(tags) PROVE IsLog(upto[m + 1], StoreKinds)
            OBVIOUS
        <3>2. upto[m + 1] = upto[m] \o part(tags[m + 1]) /\ IsLog(upto[m], StoreKinds)
            BY <1>3, <1>0, <2>2, <3>1
        <3>3. IsLog(part(tags[m + 1]), StoreKinds)
            BY <1>1, <3>1
        <3> QED BY <3>2, <3>3, LogConcat
    <2> HIDE DEF V
    <2> QED BY <2>1, <2>2, Induction
<1>6. Len(tags) \in V
    <2> HIDE DEF V
    <2> QED BY <1>0, <1>5
<1> QED BY <1>0, <1>4, <1>6


-----------------------------------------------------------------------------
(* lfs_dir_fetchmatch, lfs_dir_find and the walk along the pairs.             *)

StoreOK == /\ store = [p \in Pairs |-> store[p]]
           /\ \A p \in Pairs : IsLog(store[p], StoreKinds)

LEMMA ScanTail ==
    ASSUME NEW p, NEW want, IsLog(store[p], StoreKinds), Scan(p, want).split
    PROVE  Scan(p, want).tail \in Pairs
<1> DEFINE log == store[p]
           base == [count |-> 0, tail |-> Nil, split |-> FALSE, best |-> NoTag]
           Next_(s, i) == [count |-> Counted(s.count, log[i]),
                           tail  |-> IF log[i].kind = "tail" THEN log[i].val ELSE s.tail,
                           split |-> IF log[i].kind = "tail" THEN log[i].sub = "hard"
                                     ELSE s.split,
                           best  |-> Best(s.best, log[i], want)]
           Is(f, m) == f = [i \in 0 .. m |-> IF i = 0 THEN base ELSE Next_(f[i - 1], i)]
           T == {m \in Nat : \E f : Is(f, m)}
<1>0. Len(log) \in Nat /\ \A i \in 1 .. Len(log) : IsTag(log[i], StoreKinds)
    BY LogElement
<1>1. \A m \in Nat : m \in T
    <2>1. 0 \in T
        <3>1. Is([i \in 0 .. 0 |-> base], 0)
            OBVIOUS
        <3> HIDE DEF Is
        <3> QED BY <3>1
    <2>2. ASSUME NEW m \in Nat, m \in T PROVE m + 1 \in T
        <3>1. PICK f : Is(f, m)
            BY <2>2
        <3> DEFINE h == [i \in 0 .. m + 1 |-> IF i = m + 1 THEN Next_(f[i - 1], i) ELSE f[i]]
        <3>2. Is(h, m + 1)
            <4> HIDE DEF Next_, base
            <4> QED BY <3>1
        <3> HIDE DEF Is, h
        <3> QED BY <3>2
    <2> HIDE DEF T
    <2> QED BY <2>1, <2>2, Induction
<1> DEFINE after[i \in 0 .. Len(log)] ==
              IF i = 0 THEN base ELSE Next_(after[i - 1], i)
<1>2. Is(after, Len(log))
    <2>1. PICK f : Is(f, Len(log))
        BY <1>0, <1>1
    <2> HIDE DEF Next_, base
    <2> QED BY <2>1
<1>3. Scan(p, want) = after[Len(log)]
    BY DEF Scan
<1> HIDE DEF after
<1> DEFINE V == {m \in Nat : m <= Len(log) /\ after[m].split => after[m].tail \in Pairs}
<1>4. \A m \in Nat : m \in V
    <2>1. 0 \in V
        BY <1>2, <1>0
    <2>2. ASSUME NEW m \in Nat, m \in V PROVE m + 1 \in V
        <3>1. SUFFICES ASSUME m + 1 <= Len(log), after[m + 1].split
                       PROVE  after[m + 1].tail \in Pairs
            OBVIOUS
        <3>2. after[m + 1] = Next_(after[m], m + 1) /\ m <= Len(log)
            <4>1. m + 1 \in 0 .. Len(log) /\ m + 1 # 0 /\ (m + 1) - 1 = m
                BY <1>0, <3>1
            <4> HIDE DEF Next_, base
            <4> QED BY <1>2, <1>0, <3>1, <4>1
        <3>3. IsTag(log[m + 1], StoreKinds)
            BY <1>0, <3>1
        <3>4. CASE log[m + 1].kind = "tail"
            <4>1. after[m + 1].split = (log[m + 1].sub = "hard")
                BY <3>2, <3>4
            <4>2. after[m + 1].tail = log[m + 1].val
                BY <3>2, <3>4
            <4>3. log[m + 1].sub = "hard"
                BY <3>1, <4>1
            <4> QED BY <3>3, <3>4, <4>2, <4>3 DEF IsTag
        <3>5. CASE log[m + 1].kind # "tail"
            BY <2>2, <3>1, <3>2, <3>5
        <3> QED BY <3>4, <3>5
    <2> HIDE DEF V
    <2> QED BY <2>1, <2>2, Induction
<1>5. Len(log) \in V
    <2> HIDE DEF V
    <2> QED BY <1>0, <1>4
<1> QED BY <1>0, <1>3, <1>5

\* A directory that was fetched: its pair, and the next one if it goes on.
IsFetched(d) == d.pair \in Pairs /\ (d.split => d.tail \in Pairs)

LEMMA FetchMatchFetched ==
    ASSUME StoreOK, NEW p \in Pairs, NEW want
    PROVE  IsFetched(FetchMatch(p, want))
<1>1. IsLog(store[p], StoreKinds)
    BY DEF StoreOK
<1>2. Scan(p, want).split => Scan(p, want).tail \in Pairs
    BY <1>1, ScanTail
<1> QED BY <1>2 DEF FetchMatch, IsFetched

LEMMA PairsCounted == Cardinality(Pairs) \in Nat /\ Cardinality(Pairs) >= 1
<1>1. First \in Pairs /\ IsFiniteSet(Pairs)
    BY NamesAssumption, PairsAssumption
<1>2. Cardinality(Pairs) \in Nat /\ Cardinality(Pairs) # 0
    BY <1>1, FS_CardinalityType, FS_EmptySet
<1> QED BY <1>2

LEMMA FindFetched ==
    ASSUME StoreOK, NEW n
    PROVE  IsFetched(Find(n))
<1> DEFINE N == Cardinality(Pairs)
           base == FetchMatch(First, ByName(n))
           Next_(d) == IF d.found \/ d.here \/ ~d.split THEN d
                       ELSE FetchMatch(d.tail, ByName(n))
           Is(f, m) == f = [k \in 1 .. m |-> IF k = 1 THEN base ELSE Next_(f[k - 1])]
           T == {m \in Nat : \E f : Is(f, m + 1)}
<1>0. N \in Nat /\ N >= 1 /\ First \in Pairs
    BY PairsCounted, NamesAssumption
<1>1. \A d : IsFetched(d) => IsFetched(Next_(d))
    BY FetchMatchFetched DEF IsFetched
<1>2. IsFetched(base)
    BY <1>0, FetchMatchFetched
<1> HIDE DEF base, Next_
<1>3. \A m \in Nat : m \in T
    <2>1. 0 \in T
        <3>1. Is([k \in 1 .. 1 |-> base], 0 + 1)
            OBVIOUS
        <3> HIDE DEF Is
        <3> QED BY <3>1
    <2>2. ASSUME NEW m \in Nat, m \in T PROVE m + 1 \in T
        <3>1. PICK f : Is(f, m + 1)
            BY <2>2
        <3> DEFINE h == [k \in 1 .. (m + 1) + 1 |->
                            IF k = (m + 1) + 1 THEN Next_(f[k - 1]) ELSE f[k]]
        <3>2. Is(h, (m + 1) + 1)
            BY <3>1
        <3> HIDE DEF Is, h
        <3> QED BY <3>2
    <2> HIDE DEF T
    <2> QED BY <2>1, <2>2, Induction
<1> DEFINE upto[k \in 1 .. N] == IF k = 1 THEN base ELSE Next_(upto[k - 1])
<1>4. Is(upto, N)
    <2>1. PICK f : Is(f, (N - 1) + 1)
        <3>1. N - 1 \in Nat
            BY <1>0
        <3> HIDE DEF Is, N
        <3> QED BY <1>3, <3>1
    <2>2. (N - 1) + 1 = N
        BY <1>0
    <2> HIDE DEF N
    <2> QED BY <2>1, <2>2
<1>5. Find(n) = upto[N]
    BY DEF Find, base, Next_
<1> HIDE DEF upto
<1> DEFINE V == {m \in Nat : m + 1 <= N => IsFetched(upto[m + 1])}
<1>6. \A m \in Nat : m \in V
    <2>1. 0 \in V
        BY <1>0, <1>2, <1>4
    <2>2. ASSUME NEW m \in Nat, m \in V PROVE m + 1 \in V
        <3>1. SUFFICES ASSUME (m + 1) + 1 <= N PROVE IsFetched(upto[(m + 1) + 1])
            OBVIOUS
        <3>2. upto[(m + 1) + 1] = Next_(upto[m + 1])
            BY <1>0, <1>4, <3>1
        <3>3. IsFetched(upto[m + 1])
            BY <1>0, <2>2, <3>1
        <3> QED BY <1>1, <3>2, <3>3
    <2> HIDE DEF V
    <2> QED BY <2>1, <2>2, Induction
<1>7. N - 1 \in V /\ (N - 1) + 1 = N
    <2> HIDE DEF V, N
    <2> QED BY <1>0, <1>6
<1> QED BY <1>0, <1>5, <1>7


LEMMA ChainOfPairs ==
    ASSUME StoreOK
    PROVE  /\ Chain \in Seq(Pairs)
           /\ Len(Chain) >= 1
           /\ Chain[1] = First
<1> DEFINE N == Cardinality(Pairs)
           d(l) == Scan(l[Len(l)], ByChild(Nil))
           Next_(l) == IF d(l).split THEN Append(l, d(l).tail) ELSE l
           Is(f, m) == f = [k \in 1 .. m |-> IF k = 1 THEN <<First>> ELSE Next_(f[k - 1])]
           T == {m \in Nat : \E f : Is(f, m + 1)}
           Good(l) == l \in Seq(Pairs) /\ Len(l) >= 1 /\ l[1] = First
<1>0. N \in Nat /\ N >= 1 /\ First \in Pairs
    BY PairsCounted, NamesAssumption
<1>1. ASSUME NEW l, Good(l) PROVE Good(Next_(l))
    <2>1. l[Len(l)] \in Pairs
        BY <1>1
    <2>2. d(l).split => d(l).tail \in Pairs
        BY <2>1, ScanTail DEF StoreOK
    <2> HIDE DEF d
    <2>3. CASE d(l).split
        <3>1. Append(l, d(l).tail) \in Seq(Pairs)
            BY <1>1, <2>2, <2>3
        <3>2. Len(Append(l, d(l).tail)) >= 1 /\ Append(l, d(l).tail)[1] = First
            BY <1>1, <2>2, <2>3, AppendProperties
        <3> QED BY <2>3, <3>1, <3>2
    <2> QED BY <1>1, <2>3
<1>2. Good(<<First>>)
    BY <1>0
<1> HIDE DEF Next_, Good
<1>3. \A m \in Nat : m \in T
    <2>1. 0 \in T
        <3>1. Is([k \in 1 .. 1 |-> <<First>>], 0 + 1)
            OBVIOUS
        <3> HIDE DEF Is
        <3> QED BY <3>1
    <2>2. ASSUME NEW m \in Nat, m \in T PROVE m + 1 \in T
        <3>1. PICK f : Is(f, m + 1)
            BY <2>2
        <3> DEFINE h == [k \in 1 .. (m + 1) + 1 |->
                            IF k = (m + 1) + 1 THEN Next_(f[k - 1]) ELSE f[k]]
        <3>2. Is(h, (m + 1) + 1)
            BY <3>1
        <3> HIDE DEF Is, h
        <3> QED BY <3>2
    <2> HIDE DEF T
    <2> QED BY <2>1, <2>2, Induction
<1> DEFINE first[k \in 1 .. N] == IF k = 1 THEN <<First>> ELSE Next_(first[k - 1])
<1>4. Is(first, N)
    <2>1. PICK f : Is(f, (N - 1) + 1)
        <3>1. N - 1 \in Nat
            BY <1>0
        <3> HIDE DEF Is, N
        <3> QED BY <1>3, <3>1
    <2>2. (N - 1) + 1 = N
        BY <1>0
    <2> HIDE DEF N
    <2> QED BY <2>1, <2>2
<1>5. Chain = first[N]
    BY DEF Chain, Next_
<1> HIDE DEF first
<1> DEFINE V == {m \in Nat : m + 1 <= N => Good(first[m + 1])}
<1>6. \A m \in Nat : m \in V
    <2>1. 0 \in V
        BY <1>0, <1>2, <1>4
    <2>2. ASSUME NEW m \in Nat, m \in V PROVE m + 1 \in V
        <3>1. SUFFICES ASSUME (m + 1) + 1 <= N PROVE Good(first[(m + 1) + 1])
            OBVIOUS
        <3>2. first[(m + 1) + 1] = Next_(first[m + 1])
            BY <1>0, <1>4, <3>1
        <3>3. Good(first[m + 1])
            BY <1>0, <2>2, <3>1
        <3> QED BY <1>1, <3>2, <3>3
    <2> HIDE DEF V
    <2> QED BY <2>1, <2>2, Induction
<1>7. N - 1 \in V /\ (N - 1) + 1 = N
    <2> HIDE DEF V, N
    <2> QED BY <1>0, <1>6
<1>8. Good(Chain)
    BY <1>0, <1>5, <1>7
<1> QED BY <1>8 DEF Good

LEMMA LastPairIsPair ==
    ASSUME StoreOK
    PROVE  LastPair \in Pairs
<1> DEFINE l == Chain
<1>1. l \in Seq(Pairs) /\ Len(l) >= 1
    BY ChainOfPairs
<1>2. l[Len(l)] \in Pairs
    <2> HIDE DEF l
    <2> QED BY <1>1
<1> QED BY <1>2 DEF LastPair

LEMMA ParentFetched ==
    ASSUME StoreOK, NEW c, Parent(c) # Nil
    PROVE  IsFetched(Parent(c))
<1> DEFINE hits == {i \in DOMAIN Chain : FetchMatch(Chain[i], ByChild(c)).found}
           i == CHOOSE j \in hits : \A k \in hits : j <= k
<1>1. hits # {} /\ Parent(c) = FetchMatch(Chain[i], ByChild(c))
    BY DEF Parent
<1>2. i \in hits
    <2>1. hits \subseteq Nat
        BY ChainOfPairs
    <2> HIDE DEF hits
    <2> QED BY <1>1, <2>1, LeastNatural
<1>3. Chain[i] \in Pairs
    <2>1. i \in DOMAIN Chain
        BY <1>2
    <2> HIDE DEF i
    <2> QED BY <2>1, ChainOfPairs
<1> HIDE DEF i
<1> QED BY <1>1, <1>3, FetchMatchFetched

-----------------------------------------------------------------------------
(* Commits.                                                                   *)

IsMove(m) == m = {} \/ \E x : m = {x} /\ x.pair \in Pairs

\* A commit that lfs_dir_commit is called for: what lfs_fs_prepmove left in gdelta is
\* what the device does not have yet.
IsCall(c) ==
    /\ c = [pair |-> c.pair, attrs |-> c.attrs, move |-> c.move, delta |-> Xor(move, c.move)]
    /\ c.pair \in Pairs
    /\ IsChanges(c.attrs)
    /\ IsMove(c.move)

LEMMA ChangesConcat ==
    ASSUME NEW s, NEW u, IsChanges(s), IsChanges(u)
    PROVE  IsChanges(s \o u)
<1>1. PICK S : s \in Seq(S) /\ \A t \in S : IsChange(t)
    BY DEF IsChanges
<1>2. PICK U : u \in Seq(U) /\ \A t \in U : IsChange(t)
    BY DEF IsChanges
<1>3. s \in Seq(S \union U) /\ u \in Seq(S \union U)
    BY <1>1, <1>2, SeqMonotonic
<1>4. s \o u \in Seq(S \union U)
    BY <1>3, ConcatProperties
<1> QED BY <1>1, <1>2, <1>4 DEF IsChanges

LEMMA ChangesEmpty == IsChanges(<<>>)
<1> DEFINE s == <<>>
<1>1. s \in Seq({})
    OBVIOUS
<1>2. IsChanges(s)
    <2> HIDE DEF s
    <2> QED BY <1>1 DEF IsChanges
<1> QED BY <1>2

LEMMA ChangesOne ==
    ASSUME NEW t, IsChange(t)
    PROVE  IsChanges(<<t>>)
<1> DEFINE s == <<t>>
<1>1. s \in Seq({t})
    OBVIOUS
<1>2. IsChanges(s)
    <2> HIDE DEF s
    <2> QED BY <1>1 DEF IsChanges
<1> QED BY <1>2

LEMMA PlainChange ==
    ASSUME NEW kind, NEW sub, NEW id, NEW val, kind \in StoreKinds,
           kind = "tail" /\ sub = "hard" => val \in Pairs
    PROVE  IsChange(Tag(kind, sub, id, val))
<1>1. IsTag(Tag(kind, sub, id, val), CommitKinds)
    BY TagIsTag DEF CommitKinds
<1>2. Tag(kind, sub, id, val).kind # "from"
    BY DEF Tag, StoreKinds
<1> QED BY <1>1, <1>2 DEF IsChange

LEMMA ChangesAreChanges ==
    ASSUME NEW c, IsChanges(c.attrs)
    PROVE  IsChanges(Changes(c))
<1>1. IsChanges(Pending(c))
    <2>1. IsChange(Delete(TheMove(c.move).id))
        BY PlainChange DEF Delete, StoreKinds
    <2>2. IsChanges(<<Delete(TheMove(c.move).id)>>)
        BY <2>1, ChangesOne
    <2> QED BY <2>2, ChangesEmpty DEF Pending
<1> QED BY <1>1, ChangesConcat DEF Changes

LEMMA AppendedLog ==
    ASSUME NEW c, IsLog(store[c.pair], StoreKinds), IsChanges(c.attrs)
    PROVE  IsLog(Appended(c), StoreKinds)
<1>1. IsLog(Emitted(Changes(c), 0), StoreKinds)
    BY ChangesAreChanges, ChangesLog, EmittedLog
<1> QED BY <1>1, LogConcat DEF Appended


LEMMA CompactedLog ==
    ASSUME NEW c, IsLog(store[c.pair], StoreKinds), IsChanges(c.attrs),
           NEW begin, NEW end, NEW tail, NEW split, split => tail \in Pairs
    PROVE  IsLog(Compacted(c, begin, end, tail, split), StoreKinds)
<1> DEFINE all   == store[c.pair] \o Changes(c)
           kinds == {"name", "struct", "attr", "from"}
           tags  == Unique(all, Len(store[c.pair]), kinds, begin, end)
           link_ == IF tail = Nil THEN <<>> ELSE <<LinkTag(split, tail)>>
<1>1. IsLog(Changes(c), CommitKinds) /\ \A i \in 1 .. Len(Changes(c)) : IsChange(Changes(c)[i])
    BY ChangesAreChanges, ChangesLog
<1>2. IsLog(all, CommitKinds)
    <2>1. IsLog(store[c.pair], CommitKinds)
        BY LogWider DEF CommitKinds
    <2> QED BY <1>1, <2>1, LogConcat
<1>3. \A i \in 1 .. Len(all) : all[i].kind = "from" => \E k : IsLog(all[i].val.log, k)
    <2>1. PICK S : store[c.pair] \in Seq(S) /\ \A t \in S : IsTag(t, StoreKinds)
        BY DEF IsLog
    <2>2. PICK U : Changes(c) \in Seq(U)
        BY <1>1 DEF IsLog
    <2>3. store[c.pair] \in Seq(S \union U) /\ Changes(c) \in Seq(S \union U)
        BY <2>1, <2>2, SeqMonotonic
    <2>4. \A i \in 1 .. Len(all) : \/ i \in 1 .. Len(store[c.pair]) /\ all[i] = store[c.pair][i]
                                   \/ \E j \in 1 .. Len(Changes(c)) : all[i] = Changes(c)[j]
        <3>1. /\ Len(all) = Len(store[c.pair]) + Len(Changes(c))
              /\ \A i \in 1 .. Len(store[c.pair]) + Len(Changes(c)) :
                    all[i] = IF i <= Len(store[c.pair]) THEN store[c.pair][i]
                             ELSE Changes(c)[i - Len(store[c.pair])]
              /\ Len(store[c.pair]) \in Nat /\ Len(Changes(c)) \in Nat
            BY <2>3, ConcatProperties
        <3> HIDE DEF all
        <3>2. ASSUME NEW i \in 1 .. Len(all), ~(i <= Len(store[c.pair]))
              PROVE  \E j \in 1 .. Len(Changes(c)) : all[i] = Changes(c)[j]
            <4>1. i - Len(store[c.pair]) \in 1 .. Len(Changes(c))
                BY <3>1, <3>2
            <4> QED BY <3>1, <3>2, <4>1
        <3>3. ASSUME NEW i \in 1 .. Len(all), i <= Len(store[c.pair])
              PROVE  i \in 1 .. Len(store[c.pair]) /\ all[i] = store[c.pair][i]
            BY <3>1, <3>3
        <3> QED BY <3>2, <3>3
    <2>5. \A i \in 1 .. Len(store[c.pair]) : store[c.pair][i].kind # "from"
        BY LogElement DEF IsTag, StoreKinds
    <2>6. \A j \in 1 .. Len(Changes(c)) :
             Changes(c)[j].kind = "from" => \E k : IsLog(Changes(c)[j].val.log, k)
        BY <1>1 DEF IsChange
    <2> HIDE DEF all
    <2> QED BY <2>4, <2>5, <2>6
<1>4. IsLog(tags, kinds) /\ ComesFrom(tags, all)
    <2> HIDE DEF all, kinds
    <2> QED BY <1>2, UniqueLog
<1>5. IsLog(tags, CommitKinds)
    <2> HIDE DEF tags
    <2> QED BY <1>4, LogWider DEF CommitKinds, StoreKinds
<1>6. \A i \in 1 .. Len(tags) : IsChange(tags[i])
    <2> HIDE DEF tags, all
    <2> SUFFICES ASSUME NEW i \in 1 .. Len(tags) PROVE IsChange(tags[i])
        OBVIOUS
    <2>1. IsTag(tags[i], CommitKinds)
        BY <1>5, LogElement
    <2>2. PICK j \in 1 .. Len(all) : tags[i].kind = all[j].kind /\ tags[i].val = all[j].val
        BY <1>4 DEF ComesFrom
    <2> QED BY <2>1, <2>2, <1>3 DEF IsChange
<1>7. IsLog(Emitted(tags, -begin), StoreKinds)
    <2> HIDE DEF tags
    <2> QED BY <1>5, <1>6, EmittedLog
<1>8. IsLog(link_, StoreKinds)
    <2>1. IsTag(LinkTag(split, tail), StoreKinds)
        BY TagIsTag DEF LinkTag, StoreKinds
    <2> QED BY <2>1, LogOne, LogEmpty
<1>9. Compacted(c, begin, end, tail, split) = Emitted(tags, -begin) \o link_
    BY DEF Compacted
<1> HIDE DEF tags, link_
<1> QED BY <1>7, <1>8, <1>9, LogConcat

LEMMA ChangedFetched ==
    ASSUME StoreOK, NEW c, c.pair \in Pairs, IsChanges(c.attrs)
    PROVE  IsFetched(Changed(c))
<1> DEFINE all == Changes(c)
           base == Fetch(c.pair)
           Next_(d, t) == [d EXCEPT !.count = d.count + Splice(t),
                                    !.tail  = IF t.kind = "tail" THEN t.val ELSE d.tail,
                                    !.split = IF t.kind = "tail" THEN t.sub = "hard"
                                              ELSE d.split]
           Is(f, m) == f = [i \in 0 .. m |-> IF i = 0 THEN base ELSE Next_(f[i - 1], all[i])]
           T == {m \in Nat : \E f : Is(f, m)}
           Good(d) == IsFetched(d) /\ {"tail", "split"} \subseteq DOMAIN d
<1>0. /\ Len(all) \in Nat
      /\ \A i \in 1 .. Len(all) : IsTag(all[i], CommitKinds)
    BY ChangesAreChanges, ChangesLog, LogElement
<1>1. ASSUME NEW d, Good(d), NEW t, IsTag(t, CommitKinds) PROVE Good(Next_(d, t))
    <2>1. Next_(d, t).pair = d.pair /\ {"tail", "split"} \subseteq DOMAIN Next_(d, t)
        BY <1>1
    <2>2. CASE t.kind = "tail"
        <3>1. Next_(d, t).tail = t.val
            BY <1>1, <2>2
        <3>2. Next_(d, t).split = (t.sub = "hard")
            BY <1>1, <2>2
        <3> HIDE DEF Next_
        <3> QED BY <1>1, <2>1, <2>2, <3>1, <3>2 DEF IsFetched, IsTag
    <2>3. CASE t.kind # "tail"
        <3>1. Next_(d, t).tail = d.tail
            BY <1>1, <2>3
        <3>2. Next_(d, t).split = d.split
            BY <1>1, <2>3
        <3> HIDE DEF Next_
        <3> QED BY <1>1, <2>1, <3>1, <3>2 DEF IsFetched
    <2> QED BY <2>2, <2>3
<1>2. Good(base)
    <2>1. IsFetched(base)
        BY FetchMatchFetched DEF Fetch
    <2>2. {"tail", "split"} \subseteq DOMAIN base
        BY DEF Fetch, FetchMatch
    <2> QED BY <2>1, <2>2
<1> HIDE DEF base, Good
<1>3. \A m \in Nat : m \in T
    <2>1. 0 \in T
        <3>1. Is([i \in 0 .. 0 |-> base], 0)
            OBVIOUS
        <3> HIDE DEF Is
        <3> QED BY <3>1
    <2>2. ASSUME NEW m \in Nat, m \in T PROVE m + 1 \in T
        <3>1. PICK f : Is(f, m)
            BY <2>2
        <3> DEFINE h == [i \in 0 .. m + 1 |-> IF i = m + 1 THEN Next_(f[i - 1], all[i])
                                             ELSE f[i]]
        <3>2. Is(h, m + 1)
            <4> HIDE DEF Next_, all
            <4> QED BY <3>1
        <3> HIDE DEF Is, h
        <3> QED BY <3>2
    <2> HIDE DEF T
    <2> QED BY <2>1, <2>2, Induction
<1> DEFINE upto[i \in 0 .. Len(all)] ==
              IF i = 0 THEN base ELSE Next_(upto[i - 1], all[i])
<1>4. Is(upto, Len(all))
    <2>1. PICK f : Is(f, Len(all))
        BY <1>0, <1>3
    <2> HIDE DEF Next_
    <2> QED BY <2>1
<1>5. Changed(c) = upto[Len(all)]
    BY DEF Changed, base
<1> HIDE DEF upto
<1> DEFINE V == {m \in Nat : m <= Len(all) => Good(upto[m])}
<1>6. \A m \in Nat : m \in V
    <2>1. 0 \in V
        <3>1. upto[0] = base
            <4> HIDE DEF Next_, all
            <4> QED BY <1>0, <1>4
        <3> QED BY <1>2, <3>1
    <2>2. ASSUME NEW m \in Nat, m \in V PROVE m + 1 \in V
        <3>1. SUFFICES ASSUME m + 1 <= Len(all) PROVE Good(upto[m + 1])
            OBVIOUS
        <3>2. upto[m + 1] = Next_(upto[m], all[m + 1])
            <4> HIDE DEF Next_, all
            <4> QED BY <1>0, <1>4, <3>1
        <3>3. Good(upto[m]) /\ IsTag(all[m + 1], CommitKinds)
            BY <1>0, <2>2, <3>1
        <3> HIDE DEF Next_, all
        <3> QED BY <1>1, <3>2, <3>3
    <2> HIDE DEF V
    <2> QED BY <2>1, <2>2, Induction
<1>7. Len(all) \in V
    <2> HIDE DEF V, all
    <2> QED BY <1>0, <1>6
<1>8. Good(Changed(c))
    BY <1>0, <1>5, <1>7
<1> QED BY <1>8 DEF Good

\* The log of a directory as lfs_format, or a compaction, leaves it.
LEMMA FilledLog ==
    ASSUME NEW names, Len(names) \in Nat, NEW hasSuper
    PROVE  IsLog(Filled(names, hasSuper), StoreKinds)
<1> DEFINE root   == IF hasSuper THEN 1 ELSE 0
           id(n)  == root + Cardinality({i \in DOMAIN names : names[i] < n})
           base == IF hasSuper
                   THEN <<Tag("name", "super", 0, Nil), Tag("struct", "inline", 0, Nil)>>
                   ELSE <<>>
           part(i) == <<NameTag("reg", id(names[i]), names[i]), Struct(id(names[i]), Empty)>>
           Next_(l, i) == l \o part(i)
           Is(f, m) == f = [i \in 0 .. m |-> IF i = 0 THEN base ELSE Next_(f[i - 1], i)]
           T == {m \in Nat : \E f : Is(f, m)}
<1>1. ASSUME NEW t, NEW u, IsTag(t, StoreKinds), IsTag(u, StoreKinds)
      PROVE  IsLog(<<t, u>>, StoreKinds)
    <2> DEFINE s == <<t, u>>
    <2>1. s \in Seq({t, u})
        OBVIOUS
    <2>2. IsLog(s, StoreKinds)
        <3> HIDE DEF s
        <3> QED BY <1>1, <2>1 DEF IsLog
    <2> QED BY <2>2
<1>2. IsLog(base, StoreKinds)
    <2>1. IsTag(Tag("name", "super", 0, Nil), StoreKinds)
        BY TagIsTag DEF StoreKinds
    <2>2. IsTag(Tag("struct", "inline", 0, Nil), StoreKinds)
        BY TagIsTag DEF StoreKinds
    <2> QED BY <1>1, <2>1, <2>2, LogEmpty
<1>3. \A i : IsLog(part(i), StoreKinds)
    <2> TAKE i
    <2>1. IsTag(NameTag("reg", id(names[i]), names[i]), StoreKinds)
        BY TagIsTag DEF StoreKinds, NameTag
    <2>2. IsTag(Struct(id(names[i]), Empty), StoreKinds)
        BY TagIsTag DEF StoreKinds, Struct
    <2> HIDE DEF id
    <2> QED BY <1>1, <2>1, <2>2
<1> HIDE DEF base, part
<1>4. \A l, i : IsLog(l, StoreKinds) => IsLog(Next_(l, i), StoreKinds)
    BY <1>3, LogConcat
<1> HIDE DEF Next_
<1>5. \A m \in Nat : m \in T
    <2>1. 0 \in T
        <3>1. Is([i \in 0 .. 0 |-> base], 0)
            OBVIOUS
        <3> HIDE DEF Is
        <3> QED BY <3>1
    <2>2. ASSUME NEW m \in Nat, m \in T PROVE m + 1 \in T
        <3>1. PICK f : Is(f, m)
            BY <2>2
        <3> DEFINE h == [i \in 0 .. m + 1 |-> IF i = m + 1 THEN Next_(f[i - 1], i) ELSE f[i]]
        <3>2. Is(h, m + 1)
            BY <3>1
        <3> HIDE DEF Is, h
        <3> QED BY <3>2
    <2> HIDE DEF T
    <2> QED BY <2>1, <2>2, Induction
<1> DEFINE upto[i \in 0 .. Len(names)] == IF i = 0 THEN base ELSE Next_(upto[i - 1], i)
<1>6. Is(upto, Len(names))
    <2>1. PICK f : Is(f, Len(names))
        BY <1>5
    <2> QED BY <2>1
<1>7. Filled(names, hasSuper) = upto[Len(names)]
    BY DEF Filled, base, part, Next_
<1> HIDE DEF upto
<1> DEFINE V == {m \in Nat : m <= Len(names) => IsLog(upto[m], StoreKinds)}
<1>8. \A m \in Nat : m \in V
    <2>1. 0 \in V
        BY <1>2, <1>6
    <2>2. ASSUME NEW m \in Nat, m \in V PROVE m + 1 \in V
        <3>1. SUFFICES ASSUME m + 1 <= Len(names) PROVE IsLog(upto[m + 1], StoreKinds)
            OBVIOUS
        <3>2. upto[m + 1] = Next_(upto[m], m + 1)
            BY <1>6, <3>1
        <3>3. IsLog(upto[m], StoreKinds)
            BY <2>2, <3>1
        <3> QED BY <1>4, <3>2, <3>3
    <2> HIDE DEF V
    <2> QED BY <2>1, <2>2, Induction
<1>9. Len(names) \in V
    <2> HIDE DEF V
    <2> QED BY <1>8
<1> QED BY <1>7, <1>9


-----------------------------------------------------------------------------
(* The invariant.                                                             *)

\* The move in RAM is on the device at every moment: a commit writes the difference to the
\* device that lfs_fs_prepmove left in gdelta, and takes the move it fixes out of both.
IInv ==
    /\ StoreOK
    /\ IsMove(move)
    /\ stored = move
    /\ call # Nil => IsCall(call)
    /\ DOMAIN dir \subseteq Names
    /\ busy \in BOOLEAN

LEMMA ChangesThree ==
    ASSUME NEW t, NEW u, NEW v, IsChange(t), IsChange(u), IsChange(v)
    PROVE  IsChanges(<<t, u, v>>)
<1> DEFINE s == <<t, u, v>>
<1>1. s \in Seq({t, u, v})
    OBVIOUS
<1>2. IsChanges(s)
    <2> HIDE DEF s
    <2> QED BY <1>1 DEF IsChanges
<1> QED BY <1>2

\* lfs_dir_commit is called with gstate as it is, or as lfs_fs_prepmove leaves it.
LEMMA CommitCalls ==
    ASSUME NEW p \in Pairs, NEW attrs, IsChanges(attrs), NEW m, IsMove(m),
           Commit(p, attrs, m), move' = move
    PROVE  IsCall(call)'
    BY DEF Commit, IsCall

LEMMA MoveKeptByCommit ==
    ASSUME NEW c, IsCall(c), stored = move, Committed(c)
    PROVE  stored' = move' /\ IsMove(move')
<1>1. stored' = Xor(move, Delta(c)) /\ move' = Kept(c) /\ c.delta = Xor(move, c.move)
    BY DEF Committed, IsCall
<1>2. CASE MoveHere(c.move, c.pair)
    <2>1. stored' = Xor(move, Xor(Xor(move, c.move), c.move))
        BY <1>1, <1>2 DEF Delta
    <2>2. stored' = {}
        BY <2>1 DEF Xor
    <2> QED BY <1>1, <1>2, <2>2 DEF Kept, IsMove
<1>3. CASE ~MoveHere(c.move, c.pair)
    <2>1. stored' = Xor(move, Xor(move, c.move))
        BY <1>1, <1>3 DEF Delta
    <2>2. stored' = c.move
        BY <2>1 DEF Xor
    <2> QED BY <1>1, <1>3, <2>2 DEF Kept, IsCall
<1> QED BY <1>2, <1>3

LEMMA InitInv == Init => IInv
<1> SUFFICES ASSUME Init PROVE IInv
    OBVIOUS
<1>1. PICK names \in Orders : \E hasSuper \in {FALSE} \union {Len(names) = 0} :
         /\ store = [p \in Pairs |-> IF p = First THEN Filled(names, hasSuper) ELSE <<>>]
         /\ dir = [n \in {names[i] : i \in DOMAIN names} |-> Fresh("reg", Empty)]
    BY DEF Init
<1>2. PICK k \in 0 .. MaxStart : names \in [1 .. k -> Names]
    BY <1>1 DEF Orders
<1>3. Len(names) \in Nat
    <2>1. k \in Nat /\ names \in Seq(Names)
        BY <1>2
    <2> QED BY <2>1
<1>4. StoreOK
    <2>1. PICK hasSuper :
             store = [p \in Pairs |-> IF p = First THEN Filled(names, hasSuper) ELSE <<>>]
        BY <1>1
    <2> QED BY <2>1, <1>3, FilledLog, LogEmpty DEF StoreOK
<1>5. DOMAIN dir \subseteq Names
    BY <1>1, <1>2
<1> QED BY <1>4, <1>5 DEF Init, IInv, IsMove

-----------------------------------------------------------------------------
(* The operations that call lfs_dir_commit leave the store as it is.           *)

LEMMA StoreSame ==
    ASSUME StoreOK, store' = store
    PROVE  StoreOK'
    BY DEF StoreOK

LEMMA OperationKeeps ==
    ASSUME IInv, Begin, NEW p \in Pairs, NEW attrs, IsChanges(attrs), NEW m, IsMove(m),
           Commit(p, attrs, m), DOMAIN dir' \subseteq Names, busy' \in BOOLEAN
    PROVE  IInv'
<1>1. store' = store /\ move' = move /\ stored' = stored
    BY DEF Begin
<1>2. IsCall(call)'
    BY <1>1, CommitCalls
<1> QED BY <1>1, <1>2, StoreSame DEF IInv

LEMMA FetchedPair ==
    ASSUME IInv, NEW n
    PROVE  Find(n).pair \in Pairs
    BY FindFetched DEF IInv, IsFetched

LEMMA CreateFileKeeps ==
    ASSUME IInv, NEW n \in Names, CreateFile(n)
    PROVE  IInv'
<1>1. PICK d \in {Find(n)} :
         Commit(d.pair, <<Create(d.id), NameTag("reg", d.id, n), Struct(d.id, Empty)>>, move)
    BY DEF CreateFile
<1>2. /\ IsChange(Create(d.id))
      /\ IsChange(NameTag("reg", d.id, n))
      /\ IsChange(Struct(d.id, Empty))
    BY PlainChange DEF Create, NameTag, Struct, StoreKinds
<1>3. IsChanges(<<Create(d.id), NameTag("reg", d.id, n), Struct(d.id, Empty)>>)
    BY <1>2, ChangesThree
<1>4. Begin /\ DOMAIN dir' \subseteq Names /\ busy' \in BOOLEAN
    BY DEF CreateFile, With, IInv
<1> QED BY <1>1, <1>3, <1>4, FetchedPair, OperationKeeps DEF IInv

LEMMA MkdirKeeps ==
    ASSUME IInv, NEW n \in Names, NEW c \in Child, Mkdir(n, c)
    PROVE  IInv'
<1> DEFINE s == [sub |-> "dir", val |-> c]
           made(d) == <<Create(d.id), NameTag("dir", d.id, n), Struct(d.id, s)>>
           linked(d) == IF d.split THEN <<>> ELSE <<LinkTag(FALSE, c)>>
<1>1. PICK d \in {Find(n)} : Commit(d.pair, made(d) \o linked(d), move)
    BY DEF Mkdir
<1>2. /\ IsChange(Create(d.id))
      /\ IsChange(NameTag("dir", d.id, n))
      /\ IsChange(Struct(d.id, s))
      /\ IsChange(LinkTag(FALSE, c))
    BY PlainChange DEF Create, NameTag, Struct, LinkTag, StoreKinds
<1>3. IsChanges(made(d))
    BY <1>2, ChangesThree
<1>4. IsChanges(linked(d))
    BY <1>2, ChangesOne, ChangesEmpty
<1>5. Begin /\ DOMAIN dir' \subseteq Names /\ busy' \in BOOLEAN
    BY DEF Mkdir, With, IInv
<1> HIDE DEF made, linked
<1>6. IsChanges(made(d) \o linked(d))
    BY <1>3, <1>4, ChangesConcat
<1> QED BY <1>1, <1>5, <1>6, FetchedPair, OperationKeeps DEF IInv

LEMMA LinkTailKeeps ==
    ASSUME IInv, NEW c \in Child, LinkTail(c)
    PROVE  IInv'
<1>1. Begin /\ Commit(LastPair, <<LinkTag(FALSE, c)>>, move)
    BY DEF LinkTail
<1>2. IsChanges(<<LinkTag(FALSE, c)>>)
    <2>1. IsChange(LinkTag(FALSE, c))
        BY PlainChange DEF LinkTag, StoreKinds
    <2> QED BY <2>1, ChangesOne
<1>3. DOMAIN dir' \subseteq Names /\ busy' \in BOOLEAN
    BY DEF LinkTail, IInv
<1>4. LastPair \in Pairs
    BY LastPairIsPair DEF IInv
<1> QED BY <1>1, <1>2, <1>3, <1>4, OperationKeeps DEF IInv

LEMMA SyncFileKeeps ==
    ASSUME IInv, NEW n \in Names, NEW sub, NEW v, NEW a, SyncFile(n, sub, v, a)
    PROVE  IInv'
<1> DEFINE s == [sub |-> sub, val |-> v]
           extra(d) == IF a = Nil THEN <<>> ELSE <<UserAttr(d.id, a)>>
<1>1. PICK d \in {Find(n)} : Commit(d.pair, <<Struct(d.id, s)>> \o extra(d), move)
    BY DEF SyncFile
<1>2. IsChange(Struct(d.id, s)) /\ IsChange(UserAttr(d.id, a))
    BY PlainChange DEF Struct, UserAttr, StoreKinds
<1>3. IsChanges(<<Struct(d.id, s)>>) /\ IsChanges(extra(d))
    BY <1>2, ChangesOne, ChangesEmpty
<1>4. Begin /\ DOMAIN dir' \subseteq Names /\ busy' \in BOOLEAN
    BY DEF SyncFile, With, IInv
<1> HIDE DEF extra
<1>5. IsChanges(<<Struct(d.id, s)>> \o extra(d))
    BY <1>3, ChangesConcat
<1> QED BY <1>1, <1>4, <1>5, FetchedPair, OperationKeeps DEF IInv

LEMMA RelocateKeeps ==
    ASSUME IInv, NEW c \in Child, NEW new \in Child, Relocate(c, new)
    PROVE  IInv'
<1> DEFINE s == [sub |-> "dir", val |-> new]
<1>1. PICK d \in {Parent(c)} : d # Nil /\ Commit(d.pair, <<Struct(d.id, s)>>, move)
    BY DEF Relocate
<1>2. IsChanges(<<Struct(d.id, s)>>)
    <2>1. IsChange(Struct(d.id, s))
        BY PlainChange DEF Struct, StoreKinds
    <2> QED BY <2>1, ChangesOne
<1>3. Begin /\ DOMAIN dir' \subseteq Names /\ busy' \in BOOLEAN
    BY DEF Relocate, IInv
<1>4. d.pair \in Pairs
    BY <1>1, ParentFetched DEF IInv, IsFetched
<1> QED BY <1>1, <1>2, <1>3, <1>4, OperationKeeps DEF IInv

LEMMA SetAttrKeeps ==
    ASSUME IInv, NEW n \in Names, NEW a, SetAttr(n, a)
    PROVE  IInv'
<1>1. PICK d \in {Find(n)} : Commit(d.pair, <<UserAttr(d.id, a)>>, move)
    BY DEF SetAttr
<1>2. IsChanges(<<UserAttr(d.id, a)>>)
    <2>1. IsChange(UserAttr(d.id, a))
        BY PlainChange DEF UserAttr, StoreKinds
    <2> QED BY <2>1, ChangesOne
<1>3. /\ store' = store /\ move' = move /\ stored' = stored
      /\ DOMAIN dir' \subseteq Names /\ busy' \in BOOLEAN
    BY DEF SetAttr, With, IInv
<1>4. IsCall(call)'
    BY <1>1, <1>2, <1>3, FetchedPair, CommitCalls DEF IInv
<1> QED BY <1>3, <1>4, StoreSame DEF IInv

LEMMA RemoveKeeps ==
    ASSUME IInv, NEW n \in Names, Remove(n)
    PROVE  IInv'
<1>1. PICK d \in {Find(n)} : Commit(d.pair, <<Delete(d.id)>>, move)
    BY DEF Remove
<1>2. IsChanges(<<Delete(d.id)>>)
    <2>1. IsChange(Delete(d.id))
        BY PlainChange DEF Delete, StoreKinds
    <2> QED BY <2>1, ChangesOne
<1>3. Begin /\ DOMAIN dir' \subseteq Names /\ busy' \in BOOLEAN
    BY DEF Remove, Without, IInv
<1> QED BY <1>1, <1>2, <1>3, FetchedPair, OperationKeeps DEF IInv

LEMMA RenameKeeps ==
    ASSUME IInv, NEW o \in Names, NEW n \in Names, Rename(o, n)
    PROVE  IInv'
<1> DEFINE old(to) == IF to.found THEN <<Delete(to.id)>> ELSE <<>>
           made(from, to) == <<Create(to.id), NameTag(from.sub, to.id, n),
                               FromMove(to.id, store[from.pair], from.id)>>
           m(from, to) == {[pair |-> from.pair, id |-> OldId(from, to)]}
<1>1. PICK from \in {Find(o)}, to \in {Find(n)} :
         /\ Commit(to.pair, old(to) \o made(from, to), m(from, to))
         /\ busy' = (from.pair # to.pair)
    BY DEF Rename
<1>2. from.pair \in Pairs /\ to.pair \in Pairs
    BY FetchedPair
<1>3. IsChange(FromMove(to.id, store[from.pair], from.id))
    <2>1. IsLog(store[from.pair], StoreKinds)
        BY <1>2 DEF IInv, StoreOK
    <2>2. IsTag(FromMove(to.id, store[from.pair], from.id), CommitKinds)
        BY TagIsTag DEF FromMove, CommitKinds
    <2>3. FromMove(to.id, store[from.pair], from.id).val.log = store[from.pair]
        BY DEF FromMove, Tag
    <2> QED BY <2>1, <2>2, <2>3 DEF IsChange
<1>4. /\ IsChange(Delete(to.id)) /\ IsChange(Create(to.id))
      /\ IsChange(NameTag(from.sub, to.id, n))
    BY PlainChange DEF Delete, Create, NameTag, StoreKinds
<1>5. IsChanges(old(to)) /\ IsChanges(made(from, to))
    BY <1>3, <1>4, ChangesOne, ChangesEmpty, ChangesThree
<1>6. IsMove(m(from, to))
    BY <1>2 DEF IsMove
<1>7. Begin /\ DOMAIN dir' \subseteq Names /\ busy' \in BOOLEAN
    BY <1>1 DEF Rename, With, Without, IInv
<1> HIDE DEF old, made, m
<1>8. IsChanges(old(to) \o made(from, to))
    BY <1>5, ChangesConcat
<1> QED BY <1>1, <1>2, <1>6, <1>7, <1>8, OperationKeeps

LEMMA RenameDoneKeeps ==
    ASSUME IInv, RenameDone
    PROVE  IInv'
<1>1. TheMove(move).pair \in Pairs
    BY DEF RenameDone, IInv, IsMove, TheMove
<1>2. /\ store' = store /\ move' = move /\ stored' = stored /\ dir' = dir
      /\ busy' = FALSE
      /\ Commit(TheMove(move).pair, <<>>, move)
    BY DEF RenameDone
<1>3. IsCall(call)'
    BY <1>1, <1>2, ChangesEmpty, CommitCalls DEF IInv
<1> QED BY <1>2, <1>3, StoreSame DEF IInv

LEMMA PowerLossKeeps ==
    ASSUME IInv, PowerLoss
    PROVE  IInv'
<1>1. /\ store' = store /\ stored' = stored /\ move' = stored /\ call' = call
      /\ dir' = dir /\ busy' = FALSE /\ call = Nil
    BY DEF PowerLoss
<1> QED BY <1>1, StoreSame DEF IInv


-----------------------------------------------------------------------------
(* lfs_dir_commit.                                                            *)

LEMMA AppendToKeeps ==
    ASSUME IInv, NEW c, IsCall(c), AppendTo(c)
    PROVE  StoreOK' /\ stored' = move' /\ IsMove(move') /\ call' = Nil
<1>1. store' = [store EXCEPT ![c.pair] = Appended(c)] /\ Committed(c)
    BY DEF AppendTo
<1>2. IsLog(Appended(c), StoreKinds)
    BY AppendedLog DEF IsCall, IInv, StoreOK
<1>3. StoreOK'
    BY <1>1, <1>2 DEF IInv, StoreOK
<1> QED BY <1>1, <1>3, MoveKeptByCommit DEF IInv, Committed

LEMMA CompactKeeps ==
    ASSUME IInv, NEW c, IsCall(c), NEW d, IsFetched(d), Compact(c, d)
    PROVE  StoreOK' /\ stored' = move' /\ IsMove(move') /\ call' = Nil
<1> DEFINE log == Compacted(c, 0, d.count, d.tail, d.split)
<1>1. store' = [store EXCEPT ![c.pair] = log] /\ Committed(c)
    BY DEF Compact
<1>2. IsLog(log, StoreKinds)
    BY CompactedLog DEF IsCall, IInv, StoreOK, IsFetched
<1> HIDE DEF log
<1>3. StoreOK'
    BY <1>1, <1>2 DEF IInv, StoreOK
<1> QED BY <1>1, <1>3, MoveKeptByCommit DEF IInv, Committed

LEMMA SplitKeeps ==
    ASSUME IInv, NEW c, IsCall(c), NEW d, IsFetched(d), Split(c, d)
    PROVE  StoreOK' /\ stored' = move' /\ IsMove(move') /\ call' = Nil
<1> DEFINE low(q)  == Compacted(c, 0, d.count \div 2, q, TRUE)
           high    == Compacted(c, d.count \div 2, d.count, d.tail, d.split)
<1>1. PICK q \in Pairs : store' = [store EXCEPT ![c.pair] = low(q), ![q] = high]
    BY DEF Split
<1>2. IsLog(low(q), StoreKinds)
    BY CompactedLog DEF IsCall, IInv, StoreOK
<1>3. IsLog(high, StoreKinds)
    BY CompactedLog DEF IsCall, IInv, StoreOK, IsFetched
<1>4. Committed(c)
    BY DEF Split
<1> HIDE DEF low, high
<1>5. StoreOK'
    BY <1>1, <1>2, <1>3 DEF IInv, StoreOK
<1> QED BY <1>4, <1>5, MoveKeptByCommit DEF IInv, Committed

LEMMA DropKeeps ==
    ASSUME IInv, NEW c, IsCall(c), NEW d, IsFetched(d), IsDropped(c, d), Drop(c, d),
           "drop" \notin Risks
    PROVE  StoreOK' /\ stored' = move' /\ IsMove(move') /\ IsCall(call)'
<1>1. /\ store' = store /\ move' = move /\ stored' = stored
      /\ ~MoveHere(c.move, c.pair)
    BY DEF Drop
<1>2. PICK i \in 2 .. Len(Chain) :
         /\ Chain[i] = c.pair
         /\ call' = [c EXCEPT !.pair = Chain[i - 1], !.delta = Delta(c),
                              !.attrs = <<LinkTag(d.split, d.tail)>>]
    BY DEF Drop
<1>3. Chain[i - 1] \in Pairs
    <2>1. Chain \in Seq(Pairs)
        BY ChainOfPairs DEF IInv
    <2>2. Len(Chain) \in Nat
        BY <2>1
    <2>3. i - 1 \in 1 .. Len(Chain)
        BY <2>2
    <2> QED BY <2>1, <2>3
<1>4. IsChanges(<<LinkTag(d.split, d.tail)>>)
    <2>1. IsChange(LinkTag(d.split, d.tail))
        BY PlainChange DEF LinkTag, StoreKinds, IsFetched
    <2> QED BY <2>1, ChangesOne
<1>5. Delta(c) = Xor(move, c.move)
    BY <1>1 DEF Delta, IsCall
<1>6. StoreOK'
    BY <1>1, StoreSame DEF IInv
<1> DEFINE attrs == <<LinkTag(d.split, d.tail)>>
           prev == Chain[i - 1]
<1>7. call' = [pair |-> prev, attrs |-> attrs, move |-> c.move, delta |-> Xor(move, c.move)]
    <2> HIDE DEF attrs, prev
    <2>1. call' = [c EXCEPT !.pair = prev, !.delta = Xor(move, c.move), !.attrs = attrs]
        BY <1>2, <1>5 DEF attrs, prev
    <2> QED BY <2>1 DEF IsCall
<1>8. IsCall(call)'
    <2>1. prev \in Pairs /\ IsChanges(attrs) /\ IsMove(c.move)
        BY <1>3, <1>4 DEF IsCall
    <2> HIDE DEF attrs, prev
    <2> QED BY <1>1, <1>7, <2>1 DEF IsCall
<1> QED BY <1>1, <1>6, <1>8 DEF IInv

LEMMA DirCommitKeeps ==
    ASSUME IInv, DirCommit, "drop" \notin Risks
    PROVE  IInv'
<1>1. IsCall(call) /\ IsFetched(Changed(call))
    <2>1. IsCall(call)
        BY DEF DirCommit, IInv
    <2> QED BY <2>1, ChangedFetched DEF IInv, IsCall
<1>2. dir' = dir /\ busy' = busy
    BY DEF DirCommit
<1>3. \/ IsDropped(call, Changed(call)) /\ Drop(call, Changed(call))
      \/ AppendTo(call) \/ Compact(call, Changed(call)) \/ Split(call, Changed(call))
    BY DEF DirCommit
<1>4. CASE IsDropped(call, Changed(call)) /\ Drop(call, Changed(call))
    BY <1>1, <1>2, <1>4, DropKeeps DEF IInv
<1>5. CASE AppendTo(call)
    BY <1>1, <1>2, <1>5, AppendToKeeps DEF IInv
<1>6. CASE Compact(call, Changed(call))
    BY <1>1, <1>2, <1>6, CompactKeeps DEF IInv
<1>7. CASE Split(call, Changed(call))
    BY <1>1, <1>2, <1>7, SplitKeeps DEF IInv
<1> QED BY <1>3, <1>4, <1>5, <1>6, <1>7

-----------------------------------------------------------------------------

LEMMA NextKeeps ==
    ASSUME IInv, Next, "drop" \notin Risks
    PROVE  IInv'
<1>1. CASE \E n \in Names : CreateFile(n) \/ Remove(n)
    BY <1>1, CreateFileKeeps, RemoveKeeps
<1>2. CASE \E n \in Names : \E c \in Child : Mkdir(n, c)
    BY <1>2, MkdirKeeps
<1>3. CASE \E n \in Names : \E sub \in {"inline", "ctz"}, v \in Value, a \in Value \union {Nil} :
              SyncFile(n, sub, v, a)
    BY <1>3, SyncFileKeeps
<1>4. CASE \E n \in Names : \E a \in Value \union {Gone} : SetAttr(n, a)
    BY <1>4, SetAttrKeeps
<1>5. CASE \E n \in Names : \E o \in Names : Rename(o, n)
    BY <1>5, RenameKeeps
<1>6. CASE \E c \in Child : LinkTail(c)
    BY <1>6, LinkTailKeeps
<1>7. CASE \E c, d \in Child : Relocate(c, d)
    BY <1>7, RelocateKeeps
<1>8. CASE RenameDone \/ DirCommit \/ PowerLoss
    BY <1>8, RenameDoneKeeps, DirCommitKeeps, PowerLossKeeps
<1> QED BY <1>1, <1>2, <1>3, <1>4, <1>5, <1>6, <1>7, <1>8 DEF Next

LEMMA StutterKeeps ==
    ASSUME IInv, UNCHANGED vars
    PROVE  IInv'
<1>1. /\ store' = store /\ move' = move /\ stored' = stored /\ call' = call
      /\ dir' = dir /\ busy' = busy
    BY DEF vars
<1>2. call # Nil => IsCall(call)'
    BY <1>1 DEF IInv, IsCall
<1> QED BY <1>1, <1>2, StoreSame DEF IInv

\* Whatever is appended, compacted, split and dropped, a block holds only tags of the kinds a
\* block may hold, a hard tail names a pair, and gdelta makes up for what the device lacks.
\* The drop of a pair that the last entry is moved away from is left out: it leaves the move
\* in RAM.
THEOREM LogInvariant ==
    ASSUME "drop" \notin Risks
    PROVE  Spec => []IInv
<1>1. IInv /\ [Next]_vars => IInv'
    BY NextKeeps, StutterKeeps
<1> QED BY <1>1, InitInv, PTL DEF Spec

LEMMA AtMostOne ==
    ASSUME NEW m, IsMove(m)
    PROVE  Cardinality(m) <= 1
<1>1. CASE m = {}
    BY <1>1, FS_EmptySet
<1>2. CASE \E x : m = {x}
    BY <1>2, FS_Singleton
<1> QED BY <1>1, <1>2 DEF IsMove

\* The tag that stands for the tags of a move (LFS_FROM_MOVE) is never written to a block,
\* and no more than one move is ever pending (lfs_dir_traverse, lfs_dir_commit).
THEOREM TypesHold ==
    ASSUME "drop" \notin Risks
    PROVE  Spec => []TypeOK
<1>1. IInv => TypeOK
    <2> SUFFICES ASSUME IInv PROVE TypeOK
        OBVIOUS
    <2>1. ASSUME NEW p \in Pairs, NEW i \in DOMAIN store[p]
          PROVE  store[p][i].kind \in {"name", "struct", "attr", "tail", "splice"}
        <3>1. IsLog(store[p], StoreKinds)
            BY DEF IInv, StoreOK
        <3>2. IsTag(store[p][i], StoreKinds)
            BY <3>1, LogElement
        <3> QED BY <3>2 DEF IsTag, StoreKinds
    <2>2. Cardinality(move) <= 1 /\ Cardinality(stored) <= 1
        BY AtMostOne DEF IInv
    <2> QED BY <2>1, <2>2 DEF IInv, TypeOK
<1> QED BY <1>1, LogInvariant, PTL

-----------------------------------------------------------------------------
(* Tags and logs, now with the sets that their parts are from.                *)

\* Tags of a log or a commit, T being any set of them.
Tags(T) ==
    \A t \in T :
       /\ t = Tag(t.kind, t.sub, t.id, t.val)
       /\ t.kind \in CommitKinds
       /\ t.id \in Nat
       /\ t.kind = "splice" => t = Create(t.id) \/ t = Delete(t.id)
       /\ t.kind = "attr" => t.sub = "attr"

\* The kinds of which an entry has one each.
Kinds == {"name", "struct", "attr"}

-----------------------------------------------------------------------------
(* What each way to read a log makes of one more tag.                         *)

LEMMA AppendIs ==
    ASSUME NEW T, NEW l \in Seq(T), NEW u \in T
    PROVE  /\ Append(l, u) \in Seq(T)
           /\ Len(l) \in Nat
           /\ Len(Append(l, u)) = Len(l) + 1
           /\ \A i \in 1 .. Len(l) : Append(l, u)[i] = l[i]
           /\ Append(l, u)[Len(l) + 1] = u
    BY AppendProperties

FilterSteps(t, all, i, f) ==
    /\ FilteredBy(t, all, i) = f[Len(all)]
    /\ f[i - 1] = t
    /\ \A k \in i .. Len(all) : f[k] = Filtered(f[k - 1], all[k])

LEMMA FilterStepsExist ==
    ASSUME NEW t, NEW all, Len(all) \in Nat, NEW i \in 1 .. Len(all) + 1
    PROVE  \E f : FilterSteps(t, all, i, f)
<1> DEFINE Is(f, m) == f = [k \in i - 1 .. m |-> IF k = i - 1 THEN t
                                                ELSE Filtered(f[k - 1], all[k])]
           T == {m \in Nat : \E f : Is(f, (i - 1) + m)}
<1>1. \A m \in Nat : m \in T
    <2>1. 0 \in T
        <3>1. Is([k \in i - 1 .. i - 1 |-> t], (i - 1) + 0)
            OBVIOUS
        <3> HIDE DEF Is
        <3> QED BY <3>1
    <2>2. ASSUME NEW m \in Nat, m \in T PROVE m + 1 \in T
        <3>1. PICK f : Is(f, (i - 1) + m)
            BY <2>2
        <3> DEFINE h == [k \in i - 1 .. (i - 1) + (m + 1) |->
                            IF k = (i - 1) + (m + 1) THEN Filtered(f[k - 1], all[k])
                            ELSE f[k]]
        <3>2. Is(h, (i - 1) + (m + 1))
            BY <3>1
        <3> HIDE DEF Is, h
        <3> QED BY <3>2
    <2> HIDE DEF T
    <2> QED BY <2>1, <2>2, Induction
<1> DEFINE upto[k \in i - 1 .. Len(all)] ==
              IF k = i - 1 THEN t ELSE Filtered(upto[k - 1], all[k])
<1>2. Is(upto, Len(all))
    <2>1. PICK f : Is(f, (i - 1) + (Len(all) - (i - 1)))
        <3>1. Len(all) - (i - 1) \in Nat
            OBVIOUS
        <3> HIDE DEF Is
        <3> QED BY <1>1, <3>1
    <2>2. Is(f, Len(all))
        <3>1. (i - 1) + (Len(all) - (i - 1)) = Len(all)
            OBVIOUS
        <3> HIDE DEF Is
        <3> QED BY <2>1, <3>1
    <2> QED BY <2>2
<1>3. FilteredBy(t, all, i) = upto[Len(all)]
    BY DEF FilteredBy
<1> HIDE DEF upto
<1>4. FilterSteps(t, all, i, upto)
    BY <1>2, <1>3 DEF FilterSteps
<1> QED BY <1>4

LEMMA FilteredByStart ==
    ASSUME NEW t, NEW all, Len(all) \in Nat
    PROVE  FilteredBy(t, all, Len(all) + 1) = t
<1>1. Len(all) + 1 \in 1 .. Len(all) + 1
    OBVIOUS
<1>2. PICK f : FilterSteps(t, all, Len(all) + 1, f)
    BY <1>1, FilterStepsExist
<1> QED BY <1>2 DEF FilterSteps

LEMMA FilteredByAppend ==
    ASSUME NEW T, NEW l \in Seq(T), NEW u \in T, NEW t, NEW i \in 1 .. Len(l) + 1
    PROVE  FilteredBy(t, Append(l, u), i) = Filtered(FilteredBy(t, l, i), u)
<1> DEFINE L == Append(l, u)
           n == Len(l)
<1>1. /\ n \in Nat /\ Len(L) = n + 1 /\ L[n + 1] = u
      /\ \A k \in 1 .. n : L[k] = l[k]
    BY AppendIs
<1> HIDE DEF L, n
<1>2. i \in 1 .. n + 1
    BY DEF n
<1>3. PICK f : FilterSteps(t, l, i, f)
    BY <1>1, <1>2, FilterStepsExist DEF n
<1>4. PICK h : FilterSteps(t, L, i, h)
    <2>1. Len(L) \in Nat /\ i \in 1 .. Len(L) + 1
        BY <1>1, <1>2
    <2> QED BY <2>1, FilterStepsExist
<1> DEFINE V == {m \in Nat : (i - 1) + m <= n => h[(i - 1) + m] = f[(i - 1) + m]}
<1>5. \A m \in Nat : m \in V
    <2>1. 0 \in V
        BY <1>2, <1>3, <1>4 DEF FilterSteps
    <2>2. ASSUME NEW m \in Nat, m \in V PROVE m + 1 \in V
        <3>1. SUFFICES ASSUME (i - 1) + (m + 1) <= n
                       PROVE  h[(i - 1) + (m + 1)] = f[(i - 1) + (m + 1)]
            OBVIOUS
        <3> DEFINE k == (i - 1) + (m + 1)
        <3>2. /\ k \in i .. n /\ k \in i .. Len(L) /\ k - 1 = (i - 1) + m /\ k \in 1 .. n
              /\ (i - 1) + m <= n
            BY <1>1, <1>2, <3>1
        <3>3. h[k - 1] = f[k - 1]
            BY <2>2, <3>2
        <3>4. L[k] = l[k]
            BY <1>1, <3>2
        <3>5. f[k] = Filtered(f[k - 1], l[k]) /\ h[k] = Filtered(h[k - 1], L[k])
            BY <1>3, <1>4, <3>2 DEF FilterSteps, n
        <3> QED BY <3>3, <3>4, <3>5
    <2> HIDE DEF V
    <2> QED BY <2>1, <2>2, Induction
<1>6. n - (i - 1) \in Nat /\ (i - 1) + (n - (i - 1)) = n
    BY <1>1, <1>2
<1>7. h[n] = f[n]
    <2>1. n - (i - 1) \in V
        <3> HIDE DEF V
        <3> QED BY <1>5, <1>6
    <2> QED BY <1>1, <1>6, <2>1
<1>8. h[n + 1] = Filtered(h[n], u)
    <2>1. n + 1 \in i .. Len(L) /\ (n + 1) - 1 = n
        BY <1>1, <1>2
    <2> QED BY <1>1, <1>4, <2>1 DEF FilterSteps
<1> QED BY <1>1, <1>3, <1>4, <1>7, <1>8 DEF FilterSteps, n, L

\* lfs_dir_fetchmatch of a log.
ScanOf(log, want) ==
    LET after[i \in 0 .. Len(log)] ==
            IF i = 0 THEN [count |-> 0, tail |-> Nil, split |-> FALSE, best |-> NoTag]
            ELSE LET s == after[i - 1]  t == log[i]
                 IN [count |-> Counted(s.count, t),
                     tail  |-> IF t.kind = "tail" THEN t.val ELSE s.tail,
                     split |-> IF t.kind = "tail" THEN t.sub = "hard" ELSE s.split,
                     best  |-> Best(s.best, t, want)]
    IN after[Len(log)]

LEMMA ScanIs ==
    ASSUME NEW p, NEW want
    PROVE  Scan(p, want) = ScanOf(store[p], want)
    BY DEF Scan, ScanOf

Scanned(s, t, want) ==
    [count |-> Counted(s.count, t),
     tail  |-> IF t.kind = "tail" THEN t.val ELSE s.tail,
     split |-> IF t.kind = "tail" THEN t.sub = "hard" ELSE s.split,
     best  |-> Best(s.best, t, want)]

ScanStart == [count |-> 0, tail |-> Nil, split |-> FALSE, best |-> NoTag]

ScanSteps(log, want, f) ==
    /\ ScanOf(log, want) = f[Len(log)]
    /\ f[0] = ScanStart
    /\ \A k \in 1 .. Len(log) : f[k] = Scanned(f[k - 1], log[k], want)

LEMMA ScanStepsExist ==
    ASSUME NEW log, Len(log) \in Nat, NEW want
    PROVE  \E f : ScanSteps(log, want, f)
<1> DEFINE Is(f, m) == f = [i \in 0 .. m |-> IF i = 0 THEN ScanStart
                                            ELSE Scanned(f[i - 1], log[i], want)]
           T == {m \in Nat : \E f : Is(f, m)}
<1>1. \A m \in Nat : m \in T
    <2>1. 0 \in T
        <3>1. Is([i \in 0 .. 0 |-> ScanStart], 0)
            OBVIOUS
        <3> HIDE DEF Is
        <3> QED BY <3>1
    <2>2. ASSUME NEW m \in Nat, m \in T PROVE m + 1 \in T
        <3>1. PICK f : Is(f, m)
            BY <2>2
        <3> DEFINE h == [i \in 0 .. m + 1 |-> IF i = m + 1 THEN Scanned(f[i - 1], log[i], want)
                                             ELSE f[i]]
        <3>2. Is(h, m + 1)
            BY <3>1
        <3> HIDE DEF Is, h
        <3> QED BY <3>2
    <2> HIDE DEF T
    <2> QED BY <2>1, <2>2, Induction
<1> DEFINE after[i \in 0 .. Len(log)] ==
              IF i = 0 THEN ScanStart ELSE Scanned(after[i - 1], log[i], want)
<1>2. Is(after, Len(log))
    <2>1. PICK f : Is(f, Len(log))
        BY <1>1
    <2> QED BY <2>1
<1>3. ScanOf(log, want) = after[Len(log)]
    BY DEF ScanOf, ScanStart, Scanned
<1> HIDE DEF after
<1>4. ScanSteps(log, want, after)
    BY <1>2, <1>3 DEF ScanSteps
<1> QED BY <1>4

LEMMA ScanEmpty ==
    ASSUME NEW want
    PROVE  ScanOf(<<>>, want) = ScanStart
<1> DEFINE l == <<>>
<1>1. Len(l) = 0 /\ Len(l) \in Nat
    OBVIOUS
<1> HIDE DEF l
<1>2. PICK f : ScanSteps(l, want, f)
    BY <1>1, ScanStepsExist
<1>3. ScanOf(l, want) = ScanStart
    BY <1>1, <1>2 DEF ScanSteps
<1> QED BY <1>3 DEF l

LEMMA ScanAppend ==
    ASSUME NEW T, NEW l \in Seq(T), NEW u \in T, NEW want
    PROVE  ScanOf(Append(l, u), want) = Scanned(ScanOf(l, want), u, want)
<1> DEFINE L == Append(l, u)
           n == Len(l)
<1>1. /\ n \in Nat /\ Len(L) = n + 1 /\ L[n + 1] = u
      /\ \A k \in 1 .. n : L[k] = l[k]
    BY AppendIs
<1> HIDE DEF L, n
<1>3. PICK f : ScanSteps(l, want, f)
    BY <1>1, ScanStepsExist DEF n
<1>4. PICK h : ScanSteps(L, want, h)
    BY <1>1, ScanStepsExist
<1> DEFINE V == {m \in Nat : m <= n => h[m] = f[m]}
<1>5. \A m \in Nat : m \in V
    <2>1. 0 \in V
        BY <1>3, <1>4 DEF ScanSteps
    <2>2. ASSUME NEW m \in Nat, m \in V PROVE m + 1 \in V
        <3>1. SUFFICES ASSUME m + 1 <= n PROVE h[m + 1] = f[m + 1]
            OBVIOUS
        <3>2. /\ m + 1 \in 1 .. n /\ m + 1 \in 1 .. Len(L) /\ (m + 1) - 1 = m
              /\ m <= n
            BY <1>1, <3>1
        <3>3. h[m] = f[m] /\ L[m + 1] = l[m + 1]
            BY <1>1, <2>2, <3>2
        <3>4. /\ f[m + 1] = Scanned(f[m], l[m + 1], want)
              /\ h[m + 1] = Scanned(h[m], L[m + 1], want)
            BY <1>3, <1>4, <3>2 DEF ScanSteps, n
        <3> QED BY <3>3, <3>4
    <2> HIDE DEF V
    <2> QED BY <2>1, <2>2, Induction
<1>7. h[n] = f[n]
    BY <1>1, <1>5
<1>8. h[n + 1] = Scanned(h[n], u, want)
    <2>1. n + 1 \in 1 .. Len(L) /\ (n + 1) - 1 = n
        BY <1>1
    <2> QED BY <1>1, <1>4, <2>1 DEF ScanSteps
<1> QED BY <1>1, <1>3, <1>4, <1>7, <1>8 DEF ScanSteps, n, L

-----------------------------------------------------------------------------
(* lfs_dir_getslice of a log, no move pending in its pair.                    *)

GetAt(log, kind, at) == GetSlice(log, {}, First, kind, at)

GetSteps(log, kind, f) ==
    /\ \A at \in Nat : GetAt(log, kind, at) = f[Len(log)][at]
    /\ \A at \in Nat : f[0][at] = Nil
    /\ \A i \in 1 .. Len(log) : \A at \in Nat :
          f[i][at] = IF log[i] = Create(at) THEN Nil
                     ELSE IF IsSought(log[i], kind, BeforeSplice(log[i], at))
                     THEN (IF log[i].val = Gone THEN Nil ELSE log[i])
                     ELSE f[i - 1][BeforeSplice(log[i], at)]

LEMMA GetSame ==
    ASSUME NEW log, NEW m, NEW p, NEW kind, NEW id, ~MoveHere(m, p)
    PROVE  GetSlice(log, m, p, kind, id) = GetAt(log, kind, id)
    BY DEF GetAt, GetSlice, MoveHere

LEMMA BeforeIs ==
    ASSUME NEW T, Tags(T), NEW t \in T, NEW at \in Nat, t # Create(at)
    PROVE  BeforeSplice(t, at) \in Nat
<1>1. CASE t.kind = "splice" /\ t.id <= at
    <2>1. t.id \in Nat
        BY DEF Tags
    <2>2. CASE t = Create(t.id)
        <3>1. t.id # at
            BY <2>2
        <3>2. Splice(t) = 1
            BY <2>2 DEF Splice, Create, Tag
        <3> QED BY <1>1, <2>1, <3>1, <3>2 DEF BeforeSplice
    <2>3. CASE t = Delete(t.id)
        <3>1. Splice(t) = -1
            BY <2>3 DEF Splice, Delete, Tag
        <3> QED BY <1>1, <3>1 DEF BeforeSplice
    <2> QED BY <1>1, <2>2, <2>3 DEF Tags
<1>2. CASE ~(t.kind = "splice" /\ t.id <= at)
    BY <1>2 DEF BeforeSplice
<1> QED BY <1>1, <1>2

LEMMA GetStepsExist ==
    ASSUME NEW log, Len(log) \in Nat, NEW kind
    PROVE  \E f : GetSteps(log, kind, f)
<1> DEFINE Then(i, g) ==
               [at \in Nat |->
                   IF i = 0 \/ log[i] = Create(at) THEN Nil
                   ELSE IF IsSought(log[i], kind, BeforeSplice(log[i], at))
                   THEN (IF log[i].val = Gone THEN Nil ELSE log[i])
                   ELSE g[BeforeSplice(log[i], at)]]
           Is(f, m) == f = [i \in 0 .. m |-> Then(i, f[i - 1])]
           G == {m \in Nat : \E f : Is(f, m)}
<1>1. \A m \in Nat : m \in G
    <2>1. 0 \in G
        <3> DEFINE f == [i \in 0 .. 0 |-> [at \in Nat |-> Nil]]
        <3>1. \A g : Then(0, g) = [at \in Nat |-> Nil]
            OBVIOUS
        <3>2. Is(f, 0)
            <4> HIDE DEF Then
            <4> QED BY <3>1
        <3> HIDE DEF Is, f
        <3> QED BY <3>2
    <2>2. ASSUME NEW m \in Nat, m \in G PROVE m + 1 \in G
        <3>1. PICK f : Is(f, m)
            BY <2>2
        <3> DEFINE h == [i \in 0 .. m + 1 |-> IF i = m + 1 THEN Then(i, f[i - 1]) ELSE f[i]]
        <3>2. Is(h, m + 1)
            <4>1. \A g : Then(0, g) = [at \in Nat |-> Nil]
                OBVIOUS
            <4> HIDE DEF Then
            <4>2. ASSUME NEW i \in 0 .. m + 1 PROVE h[i] = Then(i, h[i - 1])
                <5>1. CASE i = 0
                    <6>1. h[i] = f[0]
                        BY <5>1
                    <6>2. f[0] = Then(0, f[0 - 1])
                        BY <3>1
                    <6> HIDE DEF h
                    <6> QED BY <4>1, <5>1, <6>1, <6>2
                <5>2. CASE i # 0
                    <6>1. i - 1 \in 0 .. m /\ h[i - 1] = f[i - 1]
                        BY <5>2
                    <6>2. h[i] = Then(i, f[i - 1])
                        BY <3>1, <5>2
                    <6> HIDE DEF h
                    <6> QED BY <6>1, <6>2
                <5> QED BY <5>1, <5>2
            <4>3. h = [i \in 0 .. m + 1 |-> h[i]]
                OBVIOUS
            <4> HIDE DEF h
            <4> QED BY <4>2, <4>3
        <3> HIDE DEF Is, h
        <3> QED BY <3>2
    <2> HIDE DEF G
    <2> QED BY <2>1, <2>2, Induction
<1> DEFINE find[i \in 0 .. Len(log)] == Then(i, find[i - 1])
<1>2. Is(find, Len(log))
    <2>1. PICK f : Is(f, Len(log))
        BY <1>1
    <2> HIDE DEF Then
    <2> QED BY <2>1
<1>3. ASSUME NEW at \in Nat PROVE GetAt(log, kind, at) = find[Len(log)][at]
    BY DEF GetAt, GetSlice, MoveHere
<1> HIDE DEF find
<1>4. ASSUME NEW i \in 0 .. Len(log) PROVE find[i] = Then(i, find[i - 1])
    <2> HIDE DEF Then
    <2> QED BY <1>2
<1>5. GetSteps(log, kind, find)
    <2>1. \A at \in Nat : find[0][at] = Nil
        <3>1. find[0] = Then(0, find[0 - 1])
            <4>1. 0 \in 0 .. Len(log)
                OBVIOUS
            <4> HIDE DEF Then
            <4> QED BY <1>4, <4>1
        <3> QED BY <3>1
    <2>2. ASSUME NEW i \in 1 .. Len(log), NEW at \in Nat
          PROVE  find[i][at] = IF log[i] = Create(at) THEN Nil
                     ELSE IF IsSought(log[i], kind, BeforeSplice(log[i], at))
                     THEN (IF log[i].val = Gone THEN Nil ELSE log[i])
                     ELSE find[i - 1][BeforeSplice(log[i], at)]
        <3>1. find[i] = Then(i, find[i - 1])
            <4> HIDE DEF Then
            <4> QED BY <1>4
        <3> QED BY <3>1
    <2> HIDE DEF Then
    <2> QED BY <1>3, <2>1, <2>2 DEF GetSteps
<1> QED BY <1>5

LEMMA GetEmpty ==
    ASSUME NEW kind, NEW at \in Nat
    PROVE  GetAt(<<>>, kind, at) = Nil
<1> DEFINE l == <<>>
<1>1. Len(l) = 0 /\ Len(l) \in Nat
    OBVIOUS
<1> HIDE DEF l
<1>3. PICK f : GetSteps(l, kind, f)
    BY <1>1, GetStepsExist
<1>4. GetAt(l, kind, at) = Nil
    BY <1>1, <1>3 DEF GetSteps
<1> QED BY <1>4 DEF l

LEMMA GetAppend ==
    ASSUME NEW T, Tags(T), NEW l \in Seq(T), NEW u \in T, NEW kind, NEW at \in Nat
    PROVE  GetAt(Append(l, u), kind, at) =
              IF u = Create(at) THEN Nil
              ELSE IF IsSought(u, kind, BeforeSplice(u, at))
              THEN (IF u.val = Gone THEN Nil ELSE u)
              ELSE GetAt(l, kind, BeforeSplice(u, at))
<1> DEFINE L == Append(l, u)
           n == Len(l)
<1>1. /\ n \in Nat /\ Len(L) = n + 1 /\ L[n + 1] = u /\ L \in Seq(T)
      /\ \A k \in 1 .. n : L[k] = l[k]
    BY AppendIs
<1> HIDE DEF L, n
<1>2. PICK f : GetSteps(l, kind, f)
    BY <1>1, GetStepsExist DEF n
<1>3. PICK h : GetSteps(L, kind, h)
    <2>1. Len(L) \in Nat
        BY <1>1
    <2> QED BY <2>1, GetStepsExist
<1> DEFINE V == {m \in Nat : m <= n => \A x \in Nat : h[m][x] = f[m][x]}
<1>4. \A m \in Nat : m \in V
    <2>1. 0 \in V
        BY <1>2, <1>3 DEF GetSteps
    <2>2. ASSUME NEW m \in Nat, m \in V PROVE m + 1 \in V
        <3>1. SUFFICES ASSUME m + 1 <= n, NEW x \in Nat PROVE h[m + 1][x] = f[m + 1][x]
            OBVIOUS
        <3>2. /\ m + 1 \in 1 .. n /\ m + 1 \in 1 .. Len(L) /\ (m + 1) - 1 = m
              /\ m <= n
            BY <1>1, <3>1
        <3>3. L[m + 1] = l[m + 1] /\ l[m + 1] \in T
            BY <1>1, <3>2 DEF n
        <3>4. CASE l[m + 1] = Create(x)
            BY <1>2, <1>3, <3>2, <3>3, <3>4 DEF GetSteps, n
        <3>5. CASE l[m + 1] # Create(x)
            <4> DEFINE y == BeforeSplice(l[m + 1], x)
            <4>1. y \in Nat
                BY <3>3, <3>5, BeforeIs
            <4>2. h[m][y] = f[m][y]
                BY <2>2, <3>2, <4>1
            <4> HIDE DEF y
            <4> QED BY <1>2, <1>3, <3>2, <3>3, <4>2 DEF GetSteps, n, y
        <3> QED BY <3>4, <3>5
    <2> HIDE DEF V
    <2> QED BY <2>1, <2>2, Induction
<1>5. \A x \in Nat : h[n][x] = GetAt(l, kind, x)
    BY <1>1, <1>2, <1>4 DEF GetSteps, n
<1>6. GetAt(L, kind, at) = h[n + 1][at]
    BY <1>1, <1>3 DEF GetSteps
<1>7. h[n + 1][at] = IF u = Create(at) THEN Nil
                     ELSE IF IsSought(u, kind, BeforeSplice(u, at))
                     THEN (IF u.val = Gone THEN Nil ELSE u)
                     ELSE h[n][BeforeSplice(u, at)]
    <2>1. n + 1 \in 1 .. Len(L) /\ (n + 1) - 1 = n
        BY <1>1
    <2> QED BY <1>1, <1>3, <2>1 DEF GetSteps
<1>8. u # Create(at) => BeforeSplice(u, at) \in Nat
    BY BeforeIs
<1> QED BY <1>5, <1>6, <1>7, <1>8 DEF L

-----------------------------------------------------------------------------
(* What a log holds: for each place and kind what was last said of it, which  *)
(* lfs_dir_traverse_filter decides.                                           *)

\* The tag i still counts, and is about the place `at`.
Has(l, k, at, i) ==
    LET x == FilteredBy(l[i], l, i + 1)
    IN /\ l[i].kind = k /\ l[i].val # Gone
       /\ x # Superseded /\ x.id = at

\* One, or none.
Slot(l, k, at) ==
    {[sub |-> l[i].sub, val |-> l[i].val] : i \in {j \in 1 .. Len(l) : Has(l, k, at, j)}}

\* A later tag u, and what is about the place `at`.
Kills(u, k, at) == (u.kind = k /\ u.id = at) \/ u = Delete(at)
MovesTo(u, at) == IF u.kind = "splice" /\ u.id <= at THEN at + Splice(u) ELSE at

LEMMA TagParts ==
    ASSUME NEW kind, NEW sub, NEW id, NEW val
    PROVE  LET t == Tag(kind, sub, id, val)
           IN t.kind = kind /\ t.sub = sub /\ t.id = id /\ t.val = val
    BY DEF Tag

\* A tag that has passed the filter may have another id.
SameBut(x, t) == x = Tag(t.kind, t.sub, x.id, t.val) /\ x.id \in Nat

LEMMA SpliceIs ==
    ASSUME NEW T, Tags(T), NEW u \in T, u.kind = "splice"
    PROVE  /\ u.id \in Nat
           /\ u = Create(u.id) \/ u = Delete(u.id)
           /\ u = Create(u.id) => Splice(u) = 1 /\ \A x : u # Delete(x)
           /\ u = Delete(u.id) => Splice(u) = -1 /\ \A x : u # Create(x)
           /\ \A x : u = Delete(x) => x = u.id
           /\ \A x : u = Create(x) => x = u.id
<1>1. u.id \in Nat /\ (u = Create(u.id) \/ u = Delete(u.id))
    BY DEF Tags
<1>2. \A x : /\ Create(x).sub = "create" /\ Create(x).id = x /\ Create(x).kind = "splice"
             /\ Delete(x).sub = "delete" /\ Delete(x).id = x /\ Delete(x).kind = "splice"
    BY DEF Create, Delete, Tag
<1>3. u = Create(u.id) => u.sub = "create"
    BY <1>2
<1>4. u = Delete(u.id) => u.sub = "delete"
    BY <1>2
<1>5. u.sub = "create" => Splice(u) = 1
    BY DEF Splice
<1>6. u.sub = "delete" => Splice(u) = -1
    BY DEF Splice
<1>7. "create" # "delete"
    OBVIOUS
<1> QED BY <1>1, <1>2, <1>3, <1>4, <1>5, <1>6, <1>7

LEMMA FilteredIs ==
    ASSUME NEW T, Tags(T), NEW t \in T, t.kind # "splice", NEW u \in T, NEW x, SameBut(x, t)
    PROVE  /\ x # Superseded
           /\ \/ t.val = Gone \/ Kills(u, t.kind, x.id)
              \/ SameBut(Filtered(x, u), t) /\ Filtered(x, u).id = MovesTo(u, x.id)
           /\ t.val = Gone \/ Kills(u, t.kind, x.id) => Filtered(x, u) = Superseded
<1>1. x.kind = t.kind /\ x.sub = t.sub /\ x.val = t.val /\ x.id \in Nat
    BY TagParts DEF SameBut
<1>2. t.kind # "none" /\ Superseded.kind = "none"
    BY TagParts DEF Tags, CommitKinds, StoreKinds, Superseded
<1>3. x # Superseded
    BY <1>1, <1>2
<1>4. SameSlot(u, x) <=> u.kind = x.kind /\ u.id = x.id
    BY <1>1 DEF SameSlot, Tags
<1>5. Filtered(x, u) = IF SameSlot(u, x) \/ x.val = Gone \/ u = Delete(x.id) THEN Superseded
                       ELSE IF u.kind = "splice" /\ u.id <= x.id
                       THEN [x EXCEPT !.id = x.id + Splice(u)] ELSE x
    BY <1>3 DEF Filtered
<1>6. t.val = Gone \/ Kills(u, t.kind, x.id) => Filtered(x, u) = Superseded
    BY <1>1, <1>4, <1>5 DEF Kills
<1>7. ASSUME t.val # Gone, ~Kills(u, t.kind, x.id)
      PROVE  SameBut(Filtered(x, u), t) /\ Filtered(x, u).id = MovesTo(u, x.id)
    <2>1. Filtered(x, u) = IF u.kind = "splice" /\ u.id <= x.id
                           THEN [x EXCEPT !.id = x.id + Splice(u)] ELSE x
        BY <1>1, <1>4, <1>5, <1>7 DEF Kills
    <2>2. CASE u.kind = "splice" /\ u.id <= x.id
        <3>1. [x EXCEPT !.id = x.id + Splice(u)] = Tag(t.kind, t.sub, x.id + Splice(u), t.val)
            <4>1. x = Tag(t.kind, t.sub, x.id, t.val)
                BY DEF SameBut
            <4> DEFINE n == x.id
            <4>2. x = [kind |-> t.kind, sub |-> t.sub, id |-> n, val |-> t.val]
                BY <4>1 DEF Tag
            <4> HIDE DEF n
            <4>3. [x EXCEPT !.id = n + Splice(u)]
                    = [kind |-> t.kind, sub |-> t.sub, id |-> n + Splice(u), val |-> t.val]
                BY <4>2
            <4> QED BY <4>3 DEF Tag, n
        <3>2. x.id + Splice(u) \in Nat
            <4>1. CASE u = Create(u.id)
                BY <1>1, <4>1, <2>2, SpliceIs
            <4>2. CASE u = Delete(u.id)
                <5>1. u.id # x.id
                    BY <1>7, <4>2 DEF Kills
                <5>2. Splice(u) = -1 /\ u.id \in Nat
                    BY <4>2, <2>2, SpliceIs
                <5> QED BY <1>1, <2>2, <5>1, <5>2
            <4> QED BY <2>2, <4>1, <4>2, SpliceIs
        <3> QED BY <2>1, <2>2, <3>1, <3>2, TagParts DEF SameBut, MovesTo
    <2>3. CASE ~(u.kind = "splice" /\ u.id <= x.id)
        BY <2>1, <2>3 DEF MovesTo
    <2> QED BY <2>2, <2>3
<1> QED BY <1>3, <1>6, <1>7

LEMMA SupersededStays ==
    ASSUME NEW u
    PROVE  Filtered(Superseded, u) = Superseded
    BY DEF Filtered

LEMMA FilteredByIs ==
    ASSUME NEW T, Tags(T), NEW l \in Seq(T), NEW t \in T, t.kind # "splice",
           NEW i \in 1 .. Len(l) + 1
    PROVE  FilteredBy(t, l, i) = Superseded \/ SameBut(FilteredBy(t, l, i), t)
<1>1. Len(l) \in Nat /\ \A k \in 1 .. Len(l) : l[k] \in T
    OBVIOUS
<1>2. PICK f : FilterSteps(t, l, i, f)
    BY <1>1, FilterStepsExist
<1> DEFINE Good(x) == x = Superseded \/ SameBut(x, t)
           V == {m \in Nat : (i - 1) + m <= Len(l) => Good(f[(i - 1) + m])}
<1>3. \A m \in Nat : m \in V
    <2>1. 0 \in V
        <3>1. t = Tag(t.kind, t.sub, t.id, t.val) /\ t.id \in Nat
            BY DEF Tags
        <3>2. SameBut(t, t)
            BY <3>1 DEF SameBut
        <3>3. f[(i - 1) + 0] = t
            BY <1>2 DEF FilterSteps
        <3> QED BY <3>2, <3>3
    <2>2. ASSUME NEW m \in Nat, m \in V PROVE m + 1 \in V
        <3>1. SUFFICES ASSUME (i - 1) + (m + 1) <= Len(l) PROVE Good(f[(i - 1) + (m + 1)])
            OBVIOUS
        <3> DEFINE k == (i - 1) + (m + 1)
        <3>2. k \in i .. Len(l) /\ k \in 1 .. Len(l) /\ k - 1 = (i - 1) + m /\ k - 1 <= Len(l)
            BY <1>1, <3>1
        <3>3. f[k] = Filtered(f[k - 1], l[k]) /\ l[k] \in T
            BY <1>1, <1>2, <3>2 DEF FilterSteps
        <3>4. Good(f[k - 1])
            BY <2>2, <3>2
        <3> HIDE DEF k
        <3>5. Good(f[k])
            <4>1. CASE f[k - 1] = Superseded
                BY <3>3, <4>1, SupersededStays
            <4>2. CASE SameBut(f[k - 1], t)
                <5>1. Filtered(f[k - 1], l[k]) = Superseded
                      \/ SameBut(Filtered(f[k - 1], l[k]), t)
                    BY <3>3, <4>2, FilteredIs
                <5> QED BY <3>3, <5>1
            <4> QED BY <3>4, <4>1, <4>2
        <3> QED BY <3>5 DEF k
    <2> HIDE DEF V
    <2> QED BY <2>1, <2>2, Induction
<1>4. Len(l) - (i - 1) \in Nat /\ (i - 1) + (Len(l) - (i - 1)) = Len(l)
    BY <1>1
<1>5. Len(l) - (i - 1) \in V
    <2> HIDE DEF V
    <2> QED BY <1>3, <1>4
<1>6. Good(f[Len(l)])
    BY <1>1, <1>4, <1>5
<1> QED BY <1>2, <1>6 DEF FilterSteps

LEMMA HasAppend ==
    ASSUME NEW T, Tags(T), NEW l \in Seq(T), NEW u \in T, NEW k, k # "splice",
           NEW i \in 1 .. Len(l), NEW at
    PROVE  Has(Append(l, u), k, at, i) <=>
              \E from \in Nat : /\ Has(l, k, from, i) /\ ~Kills(u, k, from)
                                /\ at = MovesTo(u, from)
<1> DEFINE L == Append(l, u)
           x == FilteredBy(l[i], l, i + 1)
           y == FilteredBy(L[i], L, i + 1)
           t == l[i]
<1>0. SUFFICES Has(L, k, at, i) <=>
                  \E from \in Nat : /\ Has(l, k, from, i) /\ ~Kills(u, k, from)
                                    /\ at = MovesTo(u, from)
    OBVIOUS
<1>1. L[i] = l[i] /\ Len(l) \in Nat /\ t \in T
    BY AppendIs
<1>2. i + 1 \in 1 .. Len(l) + 1
    BY <1>1
<1>3. y = Filtered(x, u)
    BY <1>1, <1>2, FilteredByAppend
<1>4. Has(L, k, at, i) <=> t.kind = k /\ t.val # Gone /\ y # Superseded /\ y.id = at
    BY <1>1 DEF Has
<1>5. \A from : Has(l, k, from, i) <=> t.kind = k /\ t.val # Gone /\ x # Superseded /\ x.id = from
    BY DEF Has
<1>6. t.kind # "splice" => x = Superseded \/ SameBut(x, t)
    BY <1>1, <1>2, FilteredByIs
<1> HIDE DEF L, x, y, t
<1>7. CASE t.kind # k
    BY <1>4, <1>5, <1>7
<1>8. CASE t.kind = k
    <2>1. CASE x = Superseded
        BY <1>3, <1>4, <1>5, <2>1, SupersededStays
    <2>2. CASE SameBut(x, t)
        <3>1. x.id \in Nat
            BY <2>2 DEF SameBut
        <3>2. /\ x # Superseded
              /\ \/ t.val = Gone \/ Kills(u, t.kind, x.id)
                 \/ SameBut(Filtered(x, u), t) /\ Filtered(x, u).id = MovesTo(u, x.id)
              /\ t.val = Gone \/ Kills(u, t.kind, x.id) => Filtered(x, u) = Superseded
            BY <1>1, <1>8, <2>2, FilteredIs
        <3>3. SameBut(y, t) => y # Superseded
            <4>1. SameBut(y, t) => y.kind = t.kind
                BY TagParts DEF SameBut
            <4>2. Superseded.kind = "none" /\ t.kind # "none"
                BY <1>1, TagParts DEF Tags, CommitKinds, StoreKinds, Superseded
            <4> QED BY <4>1, <4>2
        <3>4. CASE t.val = Gone \/ Kills(u, k, x.id)
            BY <1>3, <1>4, <1>5, <1>8, <3>2, <3>4
        <3>5. CASE ~(t.val = Gone \/ Kills(u, k, x.id))
            <4>1. y # Superseded /\ y.id = MovesTo(u, x.id)
                BY <1>3, <1>8, <3>2, <3>3, <3>5
            <4> QED BY <1>4, <1>5, <1>8, <3>1, <3>2, <3>5, <4>1
        <3> QED BY <3>4, <3>5
    <2> QED BY <1>6, <1>8, <2>1, <2>2
<1> QED BY <1>7, <1>8

LEMMA HasLast ==
    ASSUME NEW T, Tags(T), NEW l \in Seq(T), NEW u \in T, NEW k, k # "splice", NEW at
    PROVE  Has(Append(l, u), k, at, Len(l) + 1) <=> u.kind = k /\ u.val # Gone /\ u.id = at
<1> DEFINE L == Append(l, u)
           n == Len(l) + 1
<1>1. L[n] = u /\ Len(L) = n /\ n \in Nat
    BY AppendIs
<1> HIDE DEF L, n
<1>2. FilteredBy(L[n], L, n + 1) = u
    BY <1>1, FilteredByStart
<1>3. u # Superseded
    <2>1. Superseded.kind = "none" /\ u.kind # "none"
        BY TagParts DEF Tags, CommitKinds, StoreKinds, Superseded
    <2> QED BY <2>1
<1> QED BY <1>1, <1>2, <1>3 DEF Has, L, n

LEMMA HasPlace ==
    ASSUME NEW T, Tags(T), NEW l \in Seq(T), NEW k, k # "splice", NEW at,
           NEW i \in 1 .. Len(l), Has(l, k, at, i)
    PROVE  at \in Nat
<1>1. i + 1 \in 1 .. Len(l) + 1 /\ l[i] \in T
    OBVIOUS
<1>2. SameBut(FilteredBy(l[i], l, i + 1), l[i])
    BY <1>1, FilteredByIs DEF Has
<1> QED BY <1>2 DEF Has, SameBut

-----------------------------------------------------------------------------
(* Induction over logs, and what a log holds after one more tag.              *)

LEMMA LogInduction ==
    ASSUME NEW T, NEW P, P \subseteq Seq(T), <<>> \in P,
           \A l \in P : \A u \in T : Append(l, u) \in P
    PROVE  \A l \in Seq(T) : l \in P
<1> DEFINE V == {m \in Nat : \A l \in Seq(T) : Len(l) = m => l \in P}
<1>1. 0 \in V
    <2>1. ASSUME NEW l \in Seq(T), Len(l) = 0 PROVE l = <<>>
        BY <2>1
    <2> QED BY <2>1
<1>2. ASSUME NEW m \in Nat, m \in V PROVE m + 1 \in V
    <2>1. SUFFICES ASSUME NEW l \in Seq(T), Len(l) = m + 1 PROVE l \in P
        OBVIOUS
    <2> DEFINE f == SubSeq(l, 1, m)
               u == l[m + 1]
    <2>2. f \in Seq(T) /\ Len(f) = m /\ u \in T /\ \A i \in 1 .. m : f[i] = l[i]
        BY <2>1
    <2>3. l = Append(f, u)
        <3>1. /\ Append(f, u) \in Seq(T) /\ Len(Append(f, u)) = m + 1
              /\ Append(f, u)[m + 1] = u
              /\ \A i \in 1 .. m : Append(f, u)[i] = f[i]
            <4> HIDE DEF f, u
            <4> QED BY <2>2, AppendIs
        <3>2. \A i \in 1 .. m + 1 : Append(f, u)[i] = l[i]
            <4> SUFFICES ASSUME NEW i \in 1 .. m + 1 PROVE Append(f, u)[i] = l[i]
                OBVIOUS
            <4>1. i \in 1 .. m \/ i = m + 1
                OBVIOUS
            <4> HIDE DEF f
            <4> QED BY <2>2, <3>1, <4>1
        <3> DEFINE a == Append(f, u)
        <3> HIDE DEF a, f, u
        <3>3. a \in Seq(T) /\ Len(a) = m + 1 /\ \A i \in 1 .. m + 1 : a[i] = l[i]
            BY <3>1, <3>2 DEF a
        <3>4. l = a
            BY <2>1, <3>3
        <3> QED BY <3>4 DEF a
    <2> HIDE DEF f, u
    <2> QED BY <1>2, <2>2, <2>3
<1>3. \A m \in Nat : m \in V
    <2> HIDE DEF V
    <2> QED BY <1>1, <1>2, Induction
<1>4. ASSUME NEW l \in Seq(T) PROVE l \in P
    <2>1. Len(l) \in Nat /\ Len(l) \in V
        <3> HIDE DEF V
        <3> QED BY <1>3
    <2> QED BY <2>1
<1> QED BY <1>4

LEMMA SlotEmpty ==
    ASSUME NEW k, NEW at
    PROVE  Slot(<<>>, k, at) = {}
<1> DEFINE l == <<>>
<1>1. 1 .. Len(l) = {}
    OBVIOUS
<1> HIDE DEF l
<1>2. Slot(l, k, at) = {}
    BY <1>1 DEF Slot
<1> QED BY <1>2 DEF l

LEMMA SlotFrom ==
    ASSUME NEW T, Tags(T), NEW l \in Seq(T), NEW u \in T, NEW k, NEW at, NEW from,
           \A i \in 1 .. Len(l) : Has(Append(l, u), k, at, i) <=> Has(l, k, from, i),
           ~Has(Append(l, u), k, at, Len(l) + 1)
    PROVE  Slot(Append(l, u), k, at) = Slot(l, k, from)
<1> DEFINE L == Append(l, u)
           n == Len(l)
<1>1. /\ n \in Nat /\ Len(L) = n + 1
      /\ \A i \in 1 .. n : L[i] = l[i]
      /\ \A i \in 1 .. n : Has(L, k, at, i) <=> Has(l, k, from, i)
      /\ ~Has(L, k, at, n + 1)
    BY AppendIs
<1> HIDE DEF L
<1>2. {j \in 1 .. Len(L) : Has(L, k, at, j)} = {j \in 1 .. n : Has(l, k, from, j)}
    <2>1. \A j : j \in 1 .. n + 1 <=> j \in 1 .. n \/ j = n + 1
        BY <1>1
    <2> HIDE DEF n
    <2> QED BY <1>1, <2>1
<1>3. \A i \in {j \in 1 .. n : Has(l, k, from, j)} : L[i] = l[i]
    BY <1>1
<1>4. Slot(L, k, at) = {[sub |-> L[i].sub, val |-> L[i].val] :
                            i \in {j \in 1 .. n : Has(l, k, from, j)}}
    BY <1>2 DEF Slot
<1>5. Slot(l, k, from) = {[sub |-> l[i].sub, val |-> l[i].val] :
                            i \in {j \in 1 .. n : Has(l, k, from, j)}}
    BY DEF Slot
<1> HIDE DEF n
<1>6. Slot(L, k, at) = Slot(l, k, from)
    <2> DEFINE J == {j \in 1 .. n : Has(l, k, from, j)}
    <2> HIDE DEF J
    <2> QED BY <1>3, <1>4, <1>5 DEF J
<1> QED BY <1>6 DEF L

LEMMA SlotNone ==
    ASSUME NEW l, NEW k, NEW at, \A i \in 1 .. Len(l) : ~Has(l, k, at, i)
    PROVE  Slot(l, k, at) = {}
    BY DEF Slot

\* A tag about something else.
LEMMA SlotOther ==
    ASSUME NEW T, Tags(T), NEW l \in Seq(T), NEW u \in T, NEW k, k # "splice", NEW at \in Nat,
           u.kind # "splice", ~(u.kind = k /\ u.id = at)
    PROVE  Slot(Append(l, u), k, at) = Slot(l, k, at)
<1>1. \A x : u # Delete(x) /\ MovesTo(u, x) = x
    BY TagParts DEF Delete, MovesTo
<1>2. \A i \in 1 .. Len(l) : Has(Append(l, u), k, at, i) <=> Has(l, k, at, i)
    BY <1>1, HasAppend DEF Kills
<1>3. ~Has(Append(l, u), k, at, Len(l) + 1)
    BY HasLast
<1> QED BY <1>2, <1>3, SlotFrom

\* A tag about this.
LEMMA SlotSet ==
    ASSUME NEW T, Tags(T), NEW l \in Seq(T), NEW u \in T, u.kind # "splice"
    PROVE  Slot(Append(l, u), u.kind, u.id) =
              IF u.val = Gone THEN {} ELSE {[sub |-> u.sub, val |-> u.val]}
<1> DEFINE L == Append(l, u)
           n == Len(l)
           k == u.kind
           at == u.id
<1>1. n \in Nat /\ Len(L) = n + 1 /\ L[n + 1] = u /\ at \in Nat
    BY AppendIs DEF Tags
<1>2. \A x : u # Delete(x) /\ MovesTo(u, x) = x
    BY TagParts DEF Delete, MovesTo
<1>3. \A i \in 1 .. n : ~Has(L, k, at, i)
    <2>1. k # "splice" /\ k = u.kind /\ at = u.id
        OBVIOUS
    <2> HIDE DEF k, at
    <2>2. \A i \in 1 .. n : Has(L, k, at, i) <=>
             \E from \in Nat : /\ Has(l, k, from, i) /\ ~Kills(u, k, from)
                               /\ at = MovesTo(u, from)
        BY <2>1, HasAppend
    <2> QED BY <1>2, <2>1, <2>2 DEF Kills
<1>4. Has(L, k, at, n + 1) <=> u.val # Gone
    BY HasLast
<1>5. \A j : j \in 1 .. n + 1 <=> j \in 1 .. n \/ j = n + 1
    BY <1>1
<1> HIDE DEF L, n, k, at
<1>6. {j \in 1 .. Len(L) : Has(L, k, at, j)} = IF u.val = Gone THEN {} ELSE {n + 1}
    BY <1>1, <1>3, <1>4, <1>5
<1>7. Slot(L, k, at) = IF u.val = Gone THEN {} ELSE {[sub |-> u.sub, val |-> u.val]}
    BY <1>1, <1>6 DEF Slot
<1> QED BY <1>7 DEF L, k, at

LEMMA SlotCreate ==
    ASSUME NEW T, Tags(T), NEW l \in Seq(T), NEW u \in T, NEW k, k # "splice", NEW at \in Nat,
           NEW id, u = Create(id)
    PROVE  Slot(Append(l, u), k, at) =
              IF at < id THEN Slot(l, k, at)
              ELSE IF at = id THEN {} ELSE Slot(l, k, at - 1)
<1>1. u.kind = "splice" /\ u.id = id
    BY TagParts DEF Create
<1>2. id \in Nat /\ Splice(u) = 1 /\ \A x : u # Delete(x)
    BY <1>1, SpliceIs
<1>3. \A x : ~Kills(u, k, x)
    BY <1>1, <1>2 DEF Kills
<1>4. \A x : MovesTo(u, x) = IF id <= x THEN x + 1 ELSE x
    BY <1>1, <1>2 DEF MovesTo
<1>5. ~Has(Append(l, u), k, at, Len(l) + 1)
    BY <1>1, HasLast
<1>6. \A i \in 1 .. Len(l) : Has(Append(l, u), k, at, i) <=>
         \E from \in Nat : Has(l, k, from, i) /\ at = MovesTo(u, from)
    BY <1>3, HasAppend
<1>7. CASE at < id
    <2>1. \A x \in Nat : at = MovesTo(u, x) <=> x = at
        BY <1>2, <1>4, <1>7
    <2>2. \A i \in 1 .. Len(l) : Has(Append(l, u), k, at, i) <=> Has(l, k, at, i)
        BY <1>6, <2>1
    <2> QED BY <1>5, <1>7, <2>2, SlotFrom
<1>8. CASE at = id
    <2>1. \A x \in Nat : at # MovesTo(u, x)
        BY <1>2, <1>4, <1>8
    <2>2. \A i \in 1 .. Len(l) : ~Has(Append(l, u), k, at, i)
        BY <1>6, <2>1
    <2>3. \A i \in 1 .. Len(Append(l, u)) : i \in 1 .. Len(l) \/ i = Len(l) + 1
        BY AppendIs
    <2>4. Slot(Append(l, u), k, at) = {}
        BY <1>5, <2>2, <2>3, SlotNone
    <2> QED BY <1>2, <1>8, <2>4
<1>9. CASE at > id
    <2>1. at - 1 \in Nat /\ \A x \in Nat : at = MovesTo(u, x) <=> x = at - 1
        BY <1>2, <1>4, <1>9
    <2> DEFINE from == at - 1
    <2>2. \A i \in 1 .. Len(l) : Has(Append(l, u), k, at, i) <=> Has(l, k, from, i)
        BY <1>6, <2>1
    <2>3. Slot(Append(l, u), k, at) = Slot(l, k, from)
        <3> HIDE DEF from
        <3> QED BY <1>5, <2>2, SlotFrom
    <2> QED BY <1>2, <1>9, <2>3
<1> QED BY <1>2, <1>7, <1>8, <1>9

LEMMA SlotDelete ==
    ASSUME NEW T, Tags(T), NEW l \in Seq(T), NEW u \in T, NEW k, k # "splice", NEW at \in Nat,
           NEW id, u = Delete(id)
    PROVE  Slot(Append(l, u), k, at) =
              IF at < id THEN Slot(l, k, at) ELSE Slot(l, k, at + 1)
<1>1. u.kind = "splice" /\ u.id = id
    BY TagParts DEF Delete
<1>2. id \in Nat /\ Splice(u) = -1 /\ \A x : u = Delete(x) <=> x = id
    BY <1>1, SpliceIs
<1>3. \A x : Kills(u, k, x) <=> x = id
    BY <1>1, <1>2 DEF Kills
<1>4. \A x : MovesTo(u, x) = IF id <= x THEN x + (-1) ELSE x
    BY <1>1, <1>2 DEF MovesTo
<1>5. ~Has(Append(l, u), k, at, Len(l) + 1)
    BY <1>1, HasLast
<1>6. \A i \in 1 .. Len(l) : Has(Append(l, u), k, at, i) <=>
         \E from \in Nat : Has(l, k, from, i) /\ from # id /\ at = MovesTo(u, from)
    BY <1>3, HasAppend
<1> DEFINE from == IF at < id THEN at ELSE at + 1
<1>7. from \in Nat /\ \A x \in Nat : x # id /\ at = MovesTo(u, x) <=> x = from
    BY <1>2, <1>4
<1>8. \A i \in 1 .. Len(l) : Has(Append(l, u), k, at, i) <=> Has(l, k, from, i)
    <2> HIDE DEF from
    <2> QED BY <1>6, <1>7
<1>9. Slot(Append(l, u), k, at) = Slot(l, k, from)
    <2> HIDE DEF from
    <2> QED BY <1>5, <1>8, SlotFrom
<1> QED BY <1>9

\* No two tags count for the same.
LEMMA HasOne ==
    ASSUME NEW T, Tags(T), NEW k, k # "splice"
    PROVE  \A l \in Seq(T) : \A at : \A i, j \in 1 .. Len(l) :
              Has(l, k, at, i) /\ Has(l, k, at, j) => i = j
<1> DEFINE One(l) == \A at : \A i, j \in 1 .. Len(l) :
                        Has(l, k, at, i) /\ Has(l, k, at, j) => i = j
           P == {l \in Seq(T) : One(l)}
<1>1. <<>> \in P
    OBVIOUS
<1>2. ASSUME NEW l \in P, NEW u \in T PROVE Append(l, u) \in P
    <2> DEFINE L == Append(l, u)
    <2>1. L \in Seq(T) /\ Len(L) = Len(l) + 1 /\ l \in Seq(T) /\ Len(l) \in Nat
        BY AppendIs
    <2>2. One(l)
        OBVIOUS
    <2>3. \A at : \A i \in 1 .. Len(l) : Has(L, k, at, i) <=>
             \E from \in Nat : /\ Has(l, k, from, i) /\ ~Kills(u, k, from)
                               /\ at = MovesTo(u, from)
        BY HasAppend
    <2>4. \A at : Has(L, k, at, Len(l) + 1) <=> u.kind = k /\ u.val # Gone /\ u.id = at
        BY HasLast
    <2>5. \A i \in 1 .. Len(L) : i \in 1 .. Len(l) \/ i = Len(l) + 1
        BY <2>1
    <2>6. ASSUME NEW x \in Nat, NEW y \in Nat, ~Kills(u, k, x), ~Kills(u, k, y),
                 MovesTo(u, x) = MovesTo(u, y)
          PROVE  x = y
        <3>1. CASE u.kind # "splice"
            BY <2>6, <3>1 DEF MovesTo
        <3>2. CASE u.kind = "splice" /\ u = Create(u.id)
            <4>1. Splice(u) = 1 /\ u.id \in Nat
                BY <3>2, SpliceIs
            <4> QED BY <2>6, <3>2, <4>1 DEF MovesTo
        <3>3. CASE u.kind = "splice" /\ u = Delete(u.id)
            <4>1. Splice(u) = -1 /\ u.id \in Nat
                BY <3>3, SpliceIs
            <4>2. x # u.id /\ y # u.id
                BY <2>6, <3>3 DEF Kills
            <4> QED BY <2>6, <3>3, <4>1, <4>2 DEF MovesTo
        <3> QED BY <3>1, <3>2, <3>3, SpliceIs
    <2>7. ASSUME NEW at, NEW i \in 1 .. Len(l), Has(L, k, at, i)
          PROVE  ~(u.kind = k /\ u.id = at)
        <3>1. PICK x \in Nat : ~Kills(u, k, x) /\ at = MovesTo(u, x)
            BY <2>3, <2>7
        <3>2. u.kind = k => at = x
            BY <3>1 DEF MovesTo
        <3> QED BY <3>1, <3>2 DEF Kills
    <2> HIDE DEF L
    <2>8. One(L)
        <3>1. SUFFICES ASSUME NEW at, NEW i \in 1 .. Len(L), NEW j \in 1 .. Len(L),
                              Has(L, k, at, i), Has(L, k, at, j)
                       PROVE  i = j
            OBVIOUS
        <3>2. CASE i \in 1 .. Len(l) /\ j \in 1 .. Len(l)
            <4>1. PICK x \in Nat : Has(l, k, x, i) /\ ~Kills(u, k, x) /\ at = MovesTo(u, x)
                BY <2>3, <3>1, <3>2
            <4>2. PICK y \in Nat : Has(l, k, y, j) /\ ~Kills(u, k, y) /\ at = MovesTo(u, y)
                BY <2>3, <3>1, <3>2
            <4>3. x = y
                BY <2>6, <4>1, <4>2
            <4> QED BY <2>2, <3>2, <4>1, <4>2, <4>3
        <3>3. CASE i = Len(l) + 1 /\ j = Len(l) + 1
            BY <3>3
        <3>4. CASE i \in 1 .. Len(l) /\ j = Len(l) + 1
            BY <2>4, <2>7, <3>1, <3>4
        <3>5. CASE j \in 1 .. Len(l) /\ i = Len(l) + 1
            BY <2>4, <2>7, <3>1, <3>5
        <3> QED BY <2>5, <3>2, <3>3, <3>4, <3>5
    <2> QED BY <2>1, <2>8 DEF L
<1>3. \A l \in Seq(T) : l \in P
    <2>1. P \subseteq Seq(T)
        OBVIOUS
    <2> HIDE DEF P
    <2> QED BY <1>1, <1>2, <2>1, LogInduction
<1> QED BY <1>3

-----------------------------------------------------------------------------
(* lfs_dir_getslice finds what the log holds.                                 *)

\* The entry of the superblock is written first.
SuperFirst(l) == \A i \in 2 .. Len(l) : l[i].sub # "super"

Seen(l, k, at) == {x \in Slot(l, k, at) : x.sub # "super"}

\* g is the tag that was sought, or Nil.
Gets(S, T, g) == \/ S = {} /\ g = Nil
                 \/ g \in T /\ S = {[sub |-> g.sub, val |-> g.val]}

LEMMA SlotBefore ==
    ASSUME NEW T, Tags(T), NEW l \in Seq(T), NEW u \in T, NEW k, k # "splice", NEW at \in Nat,
           ~(u.kind = k /\ u.id = at), u # Create(at)
    PROVE  Slot(Append(l, u), k, at) = Slot(l, k, BeforeSplice(u, at))
<1>1. CASE u.kind # "splice"
    BY <1>1, SlotOther DEF BeforeSplice
<1>2. CASE u.kind = "splice" /\ u = Create(u.id)
    <2>1. u.id \in Nat /\ Splice(u) = 1 /\ u.id # at
        BY <1>2, SpliceIs
    <2>2. BeforeSplice(u, at) = IF u.id <= at THEN at - 1 ELSE at
        BY <1>2, <2>1 DEF BeforeSplice
    <2>3. Slot(Append(l, u), k, at) = IF at < u.id THEN Slot(l, k, at)
                                      ELSE IF at = u.id THEN {} ELSE Slot(l, k, at - 1)
        <3> DEFINE id == u.id
        <3>1. u = Create(id)
            BY <1>2
        <3> HIDE DEF id
        <3>2. Slot(Append(l, u), k, at) = IF at < id THEN Slot(l, k, at)
                                          ELSE IF at = id THEN {} ELSE Slot(l, k, at - 1)
            BY <3>1, SlotCreate
        <3> QED BY <3>2 DEF id
    <2> QED BY <2>1, <2>2, <2>3
<1>3. CASE u.kind = "splice" /\ u = Delete(u.id)
    <2>1. u.id \in Nat /\ Splice(u) = -1
        BY <1>3, SpliceIs
    <2>2. BeforeSplice(u, at) = IF u.id <= at THEN at + 1 ELSE at
        BY <1>3, <2>1 DEF BeforeSplice
    <2>3. Slot(Append(l, u), k, at) = IF at < u.id THEN Slot(l, k, at)
                                      ELSE Slot(l, k, at + 1)
        BY <1>3, SlotDelete
    <2> QED BY <2>1, <2>2, <2>3
<1> QED BY <1>1, <1>2, <1>3, SpliceIs

\* lfs_dir_getslice, which goes backwards and follows an entry through the creates and
\* deletes that moved it, finds for every log, entry and kind what lfs_dir_traverse, which
\* goes forwards, counts as last said of it: that tag, or none if it counts none.
THEOREM GetFindsLast ==
    ASSUME NEW T, Tags(T), NEW k \in Kinds
    PROVE  \A l \in Seq(T) : SuperFirst(l) =>
              \A at \in Nat : Gets(Seen(l, k, at), T, GetAt(l, k, at))
<1> DEFINE Good(l) == \A at \in Nat : Gets(Seen(l, k, at), T, GetAt(l, k, at))
           P == {l \in Seq(T) : SuperFirst(l) => Good(l)}
<1>0. k # "splice"
    BY DEF Kinds
<1>1. <<>> \in P
    <2>1. \A at \in Nat : Seen(<<>>, k, at) = {} /\ GetAt(<<>>, k, at) = Nil
        BY SlotEmpty, GetEmpty DEF Seen
    <2> DEFINE e == <<>>
    <2>2. e \in Seq(T)
        OBVIOUS
    <2>3. Good(e)
        BY <2>1 DEF Gets
    <2> HIDE DEF e, Good
    <2>4. e \in P
        BY <2>2, <2>3
    <2> QED BY <2>4 DEF e
<1>2. ASSUME NEW l \in P, NEW u \in T PROVE Append(l, u) \in P
    <2> DEFINE L == Append(l, u)
    <2>1. /\ L \in Seq(T) /\ Len(L) = Len(l) + 1 /\ l \in Seq(T) /\ Len(l) \in Nat
          /\ L[Len(l) + 1] = u /\ \A i \in 1 .. Len(l) : L[i] = l[i]
        BY AppendIs
    <2>2. SUFFICES ASSUME SuperFirst(L), NEW at \in Nat
                   PROVE  Gets(Seen(L, k, at), T, GetAt(L, k, at))
        BY <2>1
    <2>3. SuperFirst(l) /\ Good(l)
        <3>1. SuperFirst(l)
            <4> HIDE DEF L
            <4> QED BY <2>1, <2>2 DEF SuperFirst
        <3> QED BY <3>1
    <2> DEFINE was == BeforeSplice(u, at)
    <2>4. GetAt(L, k, at) = IF u = Create(at) THEN Nil
                            ELSE IF IsSought(u, k, was) THEN (IF u.val = Gone THEN Nil ELSE u)
                            ELSE GetAt(l, k, was)
        BY <2>1, GetAppend
    <2>5. CASE u = Create(at)
        <3>1. Slot(L, k, at) = {}
            BY <1>0, <2>1, <2>5, SlotCreate
        <3> HIDE DEF L, was
        <3> QED BY <2>4, <2>5, <3>1 DEF Seen, Gets
    <2>6. CASE u # Create(at) /\ u.kind = k /\ u.id = at
        <3>1. u.kind # "splice" /\ was = at
            BY <1>0, <2>6 DEF BeforeSplice
        <3>2. Slot(L, k, at) = IF u.val = Gone THEN {} ELSE {[sub |-> u.sub, val |-> u.val]}
            <4>1. Slot(L, u.kind, u.id) = IF u.val = Gone THEN {}
                                          ELSE {[sub |-> u.sub, val |-> u.val]}
                <5>1. l \in Seq(T) /\ u.kind # "splice"
                    BY <2>1, <3>1
                <5> QED BY Zenon, <5>1, SlotSet
            <4> HIDE DEF L
            <4> QED BY <2>6, <4>1
        <3> HIDE DEF was
        <3>3. CASE u.sub # "super"
            <4>1. GetAt(L, k, at) = IF u.val = Gone THEN Nil ELSE u
                BY <2>4, <2>6, <3>1, <3>3 DEF IsSought
            <4>2. Seen(L, k, at) = Slot(L, k, at)
                BY <3>2, <3>3 DEF Seen
            <4> HIDE DEF L
            <4> QED BY <3>2, <4>1, <4>2 DEF Gets
        <3>4. CASE u.sub = "super"
            <4>1. Len(l) = 0
                <5> HIDE DEF L
                <5> QED BY <2>1, <2>2, <3>4 DEF SuperFirst
            <4>2. l = <<>>
                BY <2>1, <4>1
            <4>3. GetAt(L, k, at) = Nil
                BY <2>4, <2>6, <3>1, <3>4, <4>2, GetEmpty DEF IsSought
            <4>4. Seen(L, k, at) = {}
                BY <3>2, <3>4 DEF Seen
            <4> HIDE DEF L
            <4> QED BY <4>3, <4>4 DEF Gets
        <3> QED BY <3>3, <3>4
    <2>7. CASE u # Create(at) /\ ~(u.kind = k /\ u.id = at)
        <3>1. ~IsSought(u, k, was)
            BY <1>0, <2>7 DEF IsSought, BeforeSplice
        <3>2. was \in Nat
            BY <2>7, BeforeIs
        <3>3. Slot(L, k, at) = Slot(l, k, was)
            BY <1>0, <2>1, <2>7, SlotBefore
        <3>4. Gets(Seen(l, k, was), T, GetAt(l, k, was))
            BY <2>3, <3>2
        <3> HIDE DEF L, was
        <3> QED BY <2>4, <2>7, <3>1, <3>3, <3>4 DEF Seen
    <2> QED BY <2>5, <2>6, <2>7
<1>3. \A l \in Seq(T) : l \in P
    <2>1. P \subseteq Seq(T)
        OBVIOUS
    <2> HIDE DEF P
    <2> QED BY <1>1, <1>2, <2>1, LogInduction
<1> HIDE DEF Good
<1>4. \A l \in Seq(T) : SuperFirst(l) => Good(l)
    BY <1>3
<1> QED BY <1>4 DEF Good

-----------------------------------------------------------------------------
(* lfs_dir_traverse keeps the tags that count, in their order.                *)

Now(all, n, i) == IF i <= n /\ all[i].val = Gone THEN Superseded
                  ELSE FilteredBy(all[i], all, i + 1)

Counts(all, n, kinds, begin, end, i) ==
    /\ all[i].kind \in kinds
    /\ Now(all, n, i) # Superseded
    /\ Now(all, n, i).id \in begin .. end - 1

\* s has, of the first m tags, those that count; g says which.
Picks(s, g, all, n, kinds, begin, end, m) ==
    /\ s \in Seq({Now(all, n, i) : i \in 1 .. Len(all)})
    /\ \A j \in 1 .. Len(s) : /\ g[j] \in 1 .. m
                              /\ Counts(all, n, kinds, begin, end, g[j])
                              /\ s[j] = Now(all, n, g[j])
    /\ \A i, j \in 1 .. Len(s) : i < j => g[i] < g[j]
    /\ \A i \in 1 .. m : Counts(all, n, kinds, begin, end, i) =>
          \E j \in 1 .. Len(s) : g[j] = i

LEMMA PicksNext ==
    ASSUME NEW s, NEW g, NEW all, Len(all) \in Nat, NEW n, NEW kinds, NEW begin, NEW end,
           NEW m \in Nat, m + 1 <= Len(all), Picks(s, g, all, n, kinds, begin, end, m)
    PROVE  \E h : Picks(IF Counts(all, n, kinds, begin, end, m + 1)
                        THEN Append(s, Now(all, n, m + 1)) ELSE s,
                        h, all, n, kinds, begin, end, m + 1)
<1> DEFINE S == {Now(all, n, i) : i \in 1 .. Len(all)}
           C(i) == Counts(all, n, kinds, begin, end, i)
           t == Now(all, n, m + 1)
           k == Len(s)
<1>1. /\ s \in Seq(S) /\ k \in Nat
      /\ \A j \in 1 .. k : g[j] \in 1 .. m /\ C(g[j]) /\ s[j] = Now(all, n, g[j])
      /\ \A i, j \in 1 .. k : i < j => g[i] < g[j]
      /\ \A i \in 1 .. m : C(i) => \E j \in 1 .. k : g[j] = i
    BY DEF Picks
<1>2. m + 1 \in 1 .. Len(all) /\ t \in S
    OBVIOUS
<1>3. \A i \in 1 .. m + 1 : i \in 1 .. m \/ i = m + 1
    OBVIOUS
<1> HIDE DEF S, C, t, k
<1>4. CASE ~C(m + 1)
    <2>1. \A j \in 1 .. k : g[j] \in 1 .. m + 1
        BY <1>1
    <2>2. \A i \in 1 .. m + 1 : C(i) => \E j \in 1 .. k : g[j] = i
        BY <1>1, <1>3, <1>4
    <2>3. Picks(s, g, all, n, kinds, begin, end, m + 1)
        BY <1>1, <2>1, <2>2 DEF Picks, S, C, k
    <2> QED BY <1>4, <2>3 DEF C
<1>5. CASE C(m + 1)
    <2> DEFINE r == Append(s, t)
               h == [j \in 1 .. k + 1 |-> IF j = k + 1 THEN m + 1 ELSE g[j]]
    <2>1. r \in Seq(S) /\ Len(r) = k + 1 /\ r[k + 1] = t /\ \A j \in 1 .. k : r[j] = s[j]
        BY <1>1, <1>2, AppendIs DEF k
    <2>2. h[k + 1] = m + 1 /\ \A j \in 1 .. k : h[j] = g[j]
        BY <1>1
    <2>3. \A j \in 1 .. k + 1 : j \in 1 .. k \/ j = k + 1
        BY <1>1
    <2> HIDE DEF r, h
    <2>4. ASSUME NEW j \in 1 .. k + 1
          PROVE  h[j] \in 1 .. m + 1 /\ C(h[j]) /\ r[j] = Now(all, n, h[j])
        <3>1. CASE j \in 1 .. k
            BY <1>1, <2>1, <2>2, <3>1
        <3>2. CASE j = k + 1
            BY <1>5, <2>1, <2>2, <3>2 DEF t
        <3> QED BY <2>3, <3>1, <3>2
    <2>5. ASSUME NEW i \in 1 .. k + 1, NEW j \in 1 .. k + 1, i < j PROVE h[i] < h[j]
        <3>1. i \in 1 .. k
            BY <1>1, <2>5
        <3>2. h[i] = g[i] /\ g[i] \in 1 .. m
            BY <1>1, <2>2, <3>1
        <3>3. CASE j \in 1 .. k
            BY <1>1, <2>2, <2>5, <3>1, <3>3
        <3>4. CASE j = k + 1
            BY <2>2, <3>2, <3>4
        <3> QED BY <2>3, <3>3, <3>4
    <2>6. ASSUME NEW i \in 1 .. m + 1, C(i) PROVE \E j \in 1 .. k + 1 : h[j] = i
        <3>1. CASE i \in 1 .. m
            <4>1. PICK j \in 1 .. k : g[j] = i
                BY <1>1, <2>6, <3>1
            <4> QED BY SMTT(60), <1>1, <2>2, <4>1
        <3>2. CASE i = m + 1
            <4>1. k + 1 \in 1 .. k + 1
                BY <1>1
            <4> QED BY <2>2, <3>2, <4>1
        <3> QED BY <1>3, <3>1, <3>2
    <2>7. Picks(r, h, all, n, kinds, begin, end, m + 1)
        BY <2>1, <2>4, <2>5, <2>6 DEF Picks, S, C
    <2> QED BY <1>5, <2>7 DEF C, r, t
<1> QED BY <1>4, <1>5

LEMMA UniqueIs ==
    ASSUME NEW all, Len(all) \in Nat, NEW n, NEW kinds, NEW begin, NEW end
    PROVE  \E g : Picks(Unique(all, n, kinds, begin, end), g, all, n, kinds, begin, end, Len(all))
<1> DEFINE C(i) == Counts(all, n, kinds, begin, end, i)
           Then(l, i) == IF C(i) THEN Append(l, Now(all, n, i)) ELSE l
           Is(f, m) == f = [i \in 0 .. m |-> IF i = 0 THEN <<>> ELSE Then(f[i - 1], i)]
           T == {m \in Nat : \E f : Is(f, m)}
<1>2. \A m \in Nat : m \in T
    <2>1. 0 \in T
        <3>1. Is([i \in 0 .. 0 |-> <<>>], 0)
            OBVIOUS
        <3> HIDE DEF Is
        <3> QED BY <3>1
    <2>2. ASSUME NEW m \in Nat, m \in T PROVE m + 1 \in T
        <3>1. PICK f : Is(f, m)
            BY <2>2
        <3> DEFINE h == [i \in 0 .. m + 1 |-> IF i = m + 1 THEN Then(f[i - 1], i) ELSE f[i]]
        <3>2. Is(h, m + 1)
            <4> HIDE DEF Then
            <4> QED BY <3>1
        <3> HIDE DEF Is, h
        <3> QED BY <3>2
    <2> HIDE DEF T
    <2> QED BY <2>1, <2>2, Induction
<1> DEFINE now(i) == Now(all, n, i)
           upto[i \in 0 .. Len(all)] ==
              IF i = 0 THEN <<>>
              ELSE IF /\ all[i].kind \in kinds
                      /\ now(i) # Superseded
                      /\ now(i).id \in begin .. end - 1
              THEN Append(upto[i - 1], now(i))
              ELSE upto[i - 1]
<1>3. Is(upto, Len(all))
    <2>1. PICK f : Is(f, Len(all))
        BY <1>2
    <2> QED BY <2>1 DEF Counts
<1>4. Unique(all, n, kinds, begin, end) = upto[Len(all)]
    BY DEF Unique, Now
<1> HIDE DEF upto
<1> DEFINE V == {m \in Nat : m <= Len(all) =>
                    \E g : Picks(upto[m], g, all, n, kinds, begin, end, m)}
<1>5. \A m \in Nat : m \in V
    <2>1. 0 \in V
        <3>1. upto[0] = <<>>
            BY <1>3
        <3> DEFINE e == <<>>
                   S == {Now(all, n, i) : i \in 1 .. Len(all)}
        <3>2. e \in Seq(S) /\ Len(e) = 0
            OBVIOUS
        <3> HIDE DEF e
        <3>3. Picks(e, e, all, n, kinds, begin, end, 0)
            BY <3>2 DEF Picks
        <3> QED BY <3>1, <3>3 DEF e
    <2>2. ASSUME NEW m \in Nat, m \in V PROVE m + 1 \in V
        <3>1. SUFFICES ASSUME m + 1 <= Len(all)
                       PROVE  \E g : Picks(upto[m + 1], g, all, n, kinds, begin, end, m + 1)
            OBVIOUS
        <3>2. PICK g : Picks(upto[m], g, all, n, kinds, begin, end, m)
            BY <2>2, <3>1
        <3>3. upto[m + 1] = Then(upto[m], m + 1)
            <4> HIDE DEF Then
            <4> QED BY <1>3, <3>1
        <3> QED BY <3>1, <3>2, <3>3, PicksNext
    <2> HIDE DEF V
    <2> QED BY <2>1, <2>2, Induction
<1>6. Len(all) \in V
    <2> HIDE DEF V
    <2> QED BY <1>5
<1> QED BY <1>4, <1>6

-----------------------------------------------------------------------------
(* Logs without creates and deletes.                                          *)

NoSplice(m) == \A i \in 1 .. Len(m) : m[i].kind # "splice"

About(m, k, at) == \E i \in 1 .. Len(m) : m[i].kind = k /\ m[i].id = at

\* ... and with no more than one tag for each thing.
Plain(m) ==
    /\ NoSplice(m)
    /\ \A i, j \in 1 .. Len(m) : i < j /\ m[i].kind = m[j].kind => m[i].id # m[j].id

LEMMA ConcatAppend ==
    ASSUME NEW T, NEW l \in Seq(T), NEW m \in Seq(T), NEW u \in T
    PROVE  l \o Append(m, u) = Append(l \o m, u)
<1> DEFINE a == l \o m
<1>1. a \in Seq(T) /\ Len(a) = Len(l) + Len(m) /\ Len(l) \in Nat /\ Len(m) \in Nat
    BY ConcatProperties
<1>2. Append(m, u) \in Seq(T) /\ Len(Append(m, u)) = Len(m) + 1
    BY AppendIs
<1>3. Append(a, u) \in Seq(T) /\ Len(Append(a, u)) = Len(l) + Len(m) + 1
    <2> HIDE DEF a
    <2> QED BY SMTT(60), <1>1, AppendIs
<1>4. l \o Append(m, u) \in Seq(T) /\ Len(l \o Append(m, u)) = Len(l) + Len(m) + 1
    BY <1>1, <1>2, ConcatProperties
<1>5. \A i \in 1 .. Len(l) + Len(m) + 1 : (l \o Append(m, u))[i] = Append(a, u)[i]
    BY <1>1, <1>2
<1> HIDE DEF a
<1> QED BY <1>3, <1>4, <1>5, SeqEqual DEF a

\* Such a log behind another: its tags are the last.
LEMMA SlotConcat ==
    ASSUME NEW T, Tags(T), NEW l \in Seq(T), NEW k, k # "splice", NEW at \in Nat
    PROVE  \A m \in Seq(T) : NoSplice(m) =>
              Slot(l \o m, k, at) = IF About(m, k, at) THEN Slot(m, k, at) ELSE Slot(l, k, at)
<1> DEFINE Is(m) == Slot(l \o m, k, at) =
                       IF About(m, k, at) THEN Slot(m, k, at) ELSE Slot(l, k, at)
           P == {m \in Seq(T) : NoSplice(m) => Is(m)}
<1>1. <<>> \in P
    <2>1. l \o <<>> = l
        BY ConcatEmptySeq
    <2>2. ~About(<<>>, k, at)
        BY DEF About
    <2> QED BY <2>1, <2>2
<1>2. ASSUME NEW m \in P, NEW u \in T PROVE Append(m, u) \in P
    <2> DEFINE M == Append(m, u)
               a == l \o m
    <2>1. M \in Seq(T) /\ Len(M) = Len(m) + 1 /\ m \in Seq(T) /\ Len(m) \in Nat
          /\ (\A i \in 1 .. Len(m) : M[i] = m[i]) /\ M[Len(m) + 1] = u
        BY AppendIs
    <2>2. l \o M = Append(a, u) /\ a \in Seq(T)
        BY <2>1, ConcatAppend, ConcatProperties
    <2>3. SUFFICES ASSUME NoSplice(M) PROVE Is(M)
        BY <2>1
    <2>4. NoSplice(m) /\ u.kind # "splice"
        BY <2>1, <2>3 DEF NoSplice
    <2>5. Is(m)
        BY <2>4
    <2>6. \A i \in 1 .. Len(M) : i \in 1 .. Len(m) \/ i = Len(m) + 1
        BY <2>1
    <2>7. About(M, k, at) <=> About(m, k, at) \/ (u.kind = k /\ u.id = at)
        BY <2>1, <2>6 DEF About
    <2> HIDE DEF a, P, M
    <2>8. CASE u.kind = k /\ u.id = at
        <3>1. Slot(Append(a, u), u.kind, u.id) = IF u.val = Gone THEN {} ELSE {[sub |-> u.sub, val |-> u.val]}
            BY <2>2, <2>4, SlotSet
        <3>2. Slot(Append(m, u), u.kind, u.id) = IF u.val = Gone THEN {} ELSE {[sub |-> u.sub, val |-> u.val]}
            <4>1. m \in Seq(T)
                BY <2>1
            <4> QED BY <4>1, <2>4, SlotSet
        <3> QED BY <2>2, <2>7, <2>8, <3>1, <3>2 DEF M
    <2>9. CASE ~(u.kind = k /\ u.id = at)
        <3>1. Slot(Append(a, u), k, at) = Slot(a, k, at)
            BY <2>2, <2>4, <2>9, SlotOther
        <3>2. Slot(Append(m, u), k, at) = Slot(m, k, at)
            BY <2>1, <2>4, <2>9, SlotOther
        <3> QED BY <2>2, <2>5, <2>7, <2>9, <3>1, <3>2 DEF M, a
    <2> QED BY <2>8, <2>9 DEF M
<1>3. P \subseteq Seq(T)
    OBVIOUS
<1> HIDE DEF P
<1>4. \A m \in Seq(T) : m \in P
    BY <1>1, <1>2, <1>3, LogInduction
<1> QED BY <1>4 DEF P

LEMMA SlotAbout ==
    ASSUME NEW T, Tags(T), NEW m \in Seq(T), NoSplice(m), NEW k, k # "splice", NEW at \in Nat,
           ~About(m, k, at)
    PROVE  Slot(m, k, at) = {}
<1> DEFINE l == <<>>
<1>1. l \in Seq(T) /\ l \o m = m
    BY ConcatEmptySeq
<1>2. Slot(l, k, at) = {}
    BY SlotEmpty
<1> HIDE DEF l
<1>3. Slot(l \o m, k, at) = IF About(m, k, at) THEN Slot(m, k, at) ELSE Slot(l, k, at)
    BY ZenonT(60), <1>1, SlotConcat
<1> QED BY <1>1, <1>2, <1>3

LEMMA PlainSlot ==
    ASSUME NEW T, Tags(T)
    PROVE  \A m \in Seq(T) : Plain(m) => \A i \in 1 .. Len(m) :
              Slot(m, m[i].kind, m[i].id) =
                  IF m[i].val = Gone THEN {} ELSE {[sub |-> m[i].sub, val |-> m[i].val]}
<1> DEFINE At(m, i) == Slot(m, m[i].kind, m[i].id) =
                          IF m[i].val = Gone THEN {} ELSE {[sub |-> m[i].sub, val |-> m[i].val]}
           P == {m \in Seq(T) : Plain(m) => \A i \in 1 .. Len(m) : At(m, i)}
<1>1. <<>> \in P
    OBVIOUS
<1>2. ASSUME NEW m \in P, NEW u \in T PROVE Append(m, u) \in P
    <2> DEFINE M == Append(m, u)
    <2>1. M \in Seq(T) /\ Len(M) = Len(m) + 1 /\ m \in Seq(T) /\ Len(m) \in Nat
          /\ (\A i \in 1 .. Len(m) : M[i] = m[i]) /\ M[Len(m) + 1] = u
        BY AppendIs
    <2>2. SUFFICES ASSUME Plain(M), NEW i \in 1 .. Len(M) PROVE At(M, i)
        BY <2>1
    <2>3. Plain(m) /\ u.kind # "splice"
        <3>1. \A j \in 1 .. Len(m) : j \in 1 .. Len(M)
            BY <2>1
        <3>2. Len(m) + 1 \in 1 .. Len(M)
            BY <2>1
        <3> HIDE DEF M
        <3> QED BY <2>1, <2>2, <3>1, <3>2 DEF Plain, NoSplice
    <2>4. CASE i = Len(m) + 1
        <3>1. Slot(Append(m, u), u.kind, u.id) = IF u.val = Gone THEN {} ELSE {[sub |-> u.sub, val |-> u.val]}
            <4>1. m \in Seq(T)
                BY <2>1
            <4> HIDE DEF P, At, M
            <4> QED BY <4>1, <2>3, SlotSet
        <3> QED BY <2>1, <2>4, <3>1
    <2>5. CASE i # Len(m) + 1
        <3>1. i \in 1 .. Len(m) /\ M[i] = m[i] /\ i < Len(m) + 1 /\ Len(m) + 1 \in 1 .. Len(M)
            BY <2>1, <2>5
        <3>2. At(m, i)
            BY <2>3, <3>1
        <3> DEFINE k == m[i].kind
                   at == m[i].id
        <3>3. ~(u.kind = k /\ u.id = at)
            <4> HIDE DEF M
            <4> QED BY <2>1, <2>2, <3>1 DEF Plain
        <3>4. m[i] \in T
            BY <2>1, <3>1
        <3>5. at \in Nat /\ k # "splice"
            BY <2>3, <3>1, <3>4 DEF Tags, Plain, NoSplice
        <3>6. Slot(Append(m, u), k, at) = Slot(m, k, at)
            <4> HIDE DEF k, at
            <4> QED BY <2>1, <2>3, <3>3, <3>5, SlotOther
        <3> QED BY <3>1, <3>2, <3>6
    <2> QED BY <2>4, <2>5
<1>3. P \subseteq Seq(T)
    OBVIOUS
<1> HIDE DEF P
<1>4. \A m \in Seq(T) : m \in P
    BY <1>1, <1>2, <1>3, LogInduction
<1> QED BY <1>4 DEF P

\* Nothing comes behind the removal of an attribute that is still to be written.
LEMMA GoneLast ==
    ASSUME NEW T, NEW t, t.val = Gone
    PROVE  \A l \in Seq(T) : \A i \in 1 .. Len(l) : FilteredBy(t, l, i) = Superseded
<1> DEFINE P == {l \in Seq(T) : \A i \in 1 .. Len(l) : FilteredBy(t, l, i) = Superseded}
<1>1. <<>> \in P
    OBVIOUS
<1>2. ASSUME NEW l \in P, NEW u \in T PROVE Append(l, u) \in P
    <2>1. /\ Append(l, u) \in Seq(T) /\ Len(Append(l, u)) = Len(l) + 1 /\ l \in Seq(T)
          /\ Len(l) \in Nat
        BY AppendIs
    <2>2. SUFFICES ASSUME NEW i \in 1 .. Len(l) + 1 PROVE FilteredBy(t, Append(l, u), i) = Superseded
        BY <2>1
    <2>3. FilteredBy(t, Append(l, u), i) = Filtered(FilteredBy(t, l, i), u)
        BY <2>1, FilteredByAppend
    <2>4. CASE i \in 1 .. Len(l)
        BY <2>3, <2>4, SupersededStays
    <2>5. CASE i = Len(l) + 1
        <3>1. FilteredBy(t, l, i) = t
            BY <2>1, <2>5, FilteredByStart
        <3>2. Filtered(t, u) = Superseded
            BY DEF Filtered
        <3> QED BY <2>3, <3>1, <3>2
    <2> QED BY <2>1, <2>4, <2>5
<1>3. P \subseteq Seq(T)
    OBVIOUS
<1> HIDE DEF P
<1>4. \A l \in Seq(T) : l \in P
    BY <1>1, <1>2, <1>3, LogInduction
<1> QED BY <1>4 DEF P

-----------------------------------------------------------------------------
(* What lfs_dir_traverse keeps says the same.                                 *)

TagsOf(l) == {l[i] : i \in 1 .. Len(l)}

LEMMA TagsOfSeq ==
    ASSUME NEW S, NEW l \in Seq(S)
    PROVE  l \in Seq(TagsOf(l)) /\ TagsOf(l) \subseteq S
    BY DEF TagsOf

\* The tag x is the tag t, at another place.
Moved(x, t) == x.kind = t.kind /\ x.sub = t.sub /\ x.val = t.val

\* s has those tags of `all` that count and have these ids.
KeepsOf(s, all, kinds, begin, end) ==
    /\ s \in Seq(TagsOf(s)) /\ Tags(TagsOf(s)) /\ Plain(s)
    /\ \A j \in 1 .. Len(s) :
          /\ s[j].kind \in kinds /\ s[j].id \in begin .. end - 1
          /\ \E i \in 1 .. Len(all) : /\ Moved(s[j], all[i])
                                      /\ j > 1 => i > 1
                                      /\ s[j].val = Gone => i = Len(all)
    /\ \A k \in kinds : \A at \in begin .. end - 1 : Slot(s, k, at) = Slot(all, k, at)

LEMMA NowIs ==
    ASSUME NEW T, Tags(T), NEW all \in Seq(T), NEW n, NEW i \in 1 .. Len(all),
           all[i].kind # "splice", Now(all, n, i) # Superseded
    PROVE  /\ Now(all, n, i) = FilteredBy(all[i], all, i + 1)
           /\ SameBut(Now(all, n, i), all[i])
           /\ Moved(Now(all, n, i), all[i])
           /\ all[i].val = Gone => i = Len(all)
           /\ all[i].val # Gone => Has(all, all[i].kind, Now(all, n, i).id, i)
<1>0. all[i] \in T /\ Len(all) \in Nat /\ i + 1 \in 1 .. Len(all) + 1
    OBVIOUS
<1> DEFINE t == all[i]
           x == Now(all, n, i)
<1>1. x = FilteredBy(t, all, i + 1)
    BY DEF Now
<1>2. SameBut(x, t)
    <2> t \in T /\ t.kind # "splice" BY <1>0
    <2> HIDE DEF t, x
    <2> QED BY <1>0, <1>1, FilteredByIs DEF x
<1>3. Moved(x, t)
    <2> HIDE DEF x, t
    <2> QED BY <1>2, TagParts DEF SameBut, Moved
<1>4. t.val = Gone => i = Len(all)
    <2>1. SUFFICES ASSUME t.val = Gone, i # Len(all) PROVE FALSE
        OBVIOUS
    <2>2. i + 1 \in 1 .. Len(all)
        BY <1>0, <2>1
    <2> HIDE DEF t
    <2>3. FilteredBy(t, all, i + 1) = Superseded
        BY <2>1, <2>2, GoneLast
    <2> QED BY <1>1, <2>3
<1> QED BY <1>1, <1>2, <1>3, <1>4 DEF Has

LEMMA NowOne ==
    ASSUME NEW T, Tags(T), NEW all \in Seq(T), NEW n,
           NEW i \in 1 .. Len(all), NEW j \in 1 .. Len(all), i < j,
           all[i].kind # "splice", all[i].kind = all[j].kind,
           Now(all, n, i) # Superseded, Now(all, n, j) # Superseded
    PROVE  Now(all, n, i).id # Now(all, n, j).id
<1> DEFINE k == all[i].kind
           at == Now(all, n, i).id
<1>1. SUFFICES ASSUME Now(all, n, j).id = at PROVE FALSE
    OBVIOUS
<1>2. Has(all, k, at, i)
    <2>1. i # Len(all)
        OBVIOUS
    <2> QED BY <2>1, NowIs
<1>3. CASE all[j].val # Gone
    <2>1. Has(all, k, at, j)
        BY <1>1, <1>3, NowIs
    <2> HIDE DEF k, at
    <2>2. k # "splice"
        BY DEF k
    <2>3. i = j
        BY <1>2, <2>1, <2>2, HasOne
    <2> QED BY <2>3
<1>4. CASE all[j].val = Gone
    <2>1. j = Len(all)
        BY <1>4, NowIs
    <2> DEFINE m == Len(all) - 1
               l == SubSeq(all, 1, m)
               u == all[j]
    <2>2. m \in Nat /\ Len(all) = m + 1 /\ i \in 1 .. m
        BY <2>1
    <2>3. l \in Seq(T) /\ Len(l) = m /\ u \in T /\ \A x \in 1 .. m : l[x] = all[x]
        BY <2>2
    <2> HIDE DEF l
    <2>4. all = Append(l, u)
        <3>1. /\ Append(l, u) \in Seq(T) /\ Len(Append(l, u)) = m + 1
              /\ Append(l, u)[m + 1] = u
              /\ \A x \in 1 .. m : Append(l, u)[x] = l[x]
            <4> HIDE DEF m, u
            <4>1. l \in Seq(T) /\ u \in T /\ Len(l) = m
                BY <2>3
            <4>2. /\ Append(l, u) \in Seq(T) /\ Len(Append(l, u)) = Len(l) + 1
                  /\ Append(l, u)[Len(l) + 1] = u
                  /\ \A x \in 1 .. Len(l) : Append(l, u)[x] = l[x]
                BY <4>1, AppendIs
            <4> QED BY <4>1, <4>2
        <3>2. \A x \in 1 .. m + 1 : Append(l, u)[x] = all[x]
            <4> SUFFICES ASSUME NEW x \in 1 .. m + 1 PROVE Append(l, u)[x] = all[x]
                OBVIOUS
            <4>1. x \in 1 .. m \/ x = m + 1
                <5> HIDE DEF m
                <5> QED BY <2>2
            <4> QED BY <2>1, <2>2, <2>3, <3>1, <4>1
        <3> HIDE DEF m, u
        <3> QED BY <2>2, <3>1, <3>2, SeqEqual
    <2>5. u.kind = k /\ k # "splice" /\ u.id = at
        <3>1. Now(all, n, j) = FilteredBy(u, all, j + 1)
            BY NowIs
        <3>2. FilteredBy(u, all, j + 1) = u
            <4> HIDE DEF u
            <4> QED BY <2>1, FilteredByStart
        <3> QED BY <1>1, <3>1, <3>2
    <2> HIDE DEF k, at, u, m
    <2>6. Has(Append(l, u), k, at, i)
        BY <1>2, <2>4
    <2>7. i \in 1 .. Len(l)
        BY <2>2, <2>3
    <2>8. PICK from \in Nat : /\ Has(l, k, from, i) /\ ~Kills(u, k, from)
                              /\ at = MovesTo(u, from)
        <3>1. l \in Seq(T) /\ u \in T /\ k # "splice"
            BY <2>3, <2>5
        <3> QED BY <2>6, <2>7, <3>1, HasAppend
    <2>9. at = from
        BY <2>5, <2>8 DEF MovesTo
    <2> QED BY <2>5, <2>8, <2>9 DEF Kills
<1> QED BY <1>3, <1>4

LEMMA UniqueKeeps ==
    ASSUME NEW T, Tags(T), NEW all \in Seq(T), NEW n, NEW kinds, "splice" \notin kinds,
           NEW begin \in Nat, NEW end \in Nat
    PROVE  KeepsOf(Unique(all, n, kinds, begin, end), all, kinds, begin, end)
<1> DEFINE s == Unique(all, n, kinds, begin, end)
<1>0. Len(all) \in Nat /\ \A i \in 1 .. Len(all) : all[i] \in T
    OBVIOUS
<1>1. PICK g : Picks(s, g, all, n, kinds, begin, end, Len(all))
    BY <1>0, UniqueIs
<1> HIDE DEF s
<1>2. /\ s \in Seq(TagsOf(s)) /\ Len(s) \in Nat
      /\ \A j \in 1 .. Len(s) : /\ g[j] \in 1 .. Len(all)
                                /\ Counts(all, n, kinds, begin, end, g[j])
                                /\ s[j] = Now(all, n, g[j])
      /\ \A i, j \in 1 .. Len(s) : i < j => g[i] < g[j]
      /\ \A i \in 1 .. Len(all) : Counts(all, n, kinds, begin, end, i) =>
            \E j \in 1 .. Len(s) : g[j] = i
    BY <1>1, TagsOfSeq DEF Picks
<1>3. ASSUME NEW j \in 1 .. Len(s)
      PROVE  /\ g[j] \in 1 .. Len(all) /\ s[j] = Now(all, n, g[j])
             /\ s[j].kind \in kinds /\ s[j].kind # "splice"
             /\ s[j].id \in begin .. end - 1
             /\ SameBut(s[j], all[g[j]]) /\ Moved(s[j], all[g[j]])
             /\ s[j].val = Gone => g[j] = Len(all)
             /\ s[j].val # Gone => Has(all, s[j].kind, s[j].id, g[j])
             /\ Now(all, n, g[j]) # Superseded
    <2>1. g[j] \in 1 .. Len(all) /\ Counts(all, n, kinds, begin, end, g[j])
          /\ s[j] = Now(all, n, g[j])
        BY <1>2
    <2> DEFINE i == g[j]
    <2> HIDE DEF i
    <2>2. i \in 1 .. Len(all) /\ all[i].kind \in kinds /\ Now(all, n, i) # Superseded
          /\ Now(all, n, i).id \in begin .. end - 1 /\ s[j] = Now(all, n, i)
        BY <2>1 DEF Counts, i
    <2>3. all[i].kind # "splice"
        BY <2>2
    <2>4. /\ SameBut(s[j], all[i]) /\ Moved(s[j], all[i])
          /\ all[i].val = Gone => i = Len(all)
          /\ all[i].val # Gone => Has(all, all[i].kind, s[j].id, i)
        BY <2>2, <2>3, NowIs
    <2> QED BY <2>2, <2>3, <2>4 DEF Moved, i
<1>4. Tags(TagsOf(s))
    <2> SUFFICES ASSUME NEW j \in 1 .. Len(s)
                 PROVE  LET t == s[j]
                        IN /\ t = Tag(t.kind, t.sub, t.id, t.val)
                           /\ t.kind \in CommitKinds
                           /\ t.id \in Nat
                           /\ t.kind = "splice" => t = Create(t.id) \/ t = Delete(t.id)
                           /\ t.kind = "attr" => t.sub = "attr"
        BY DEF Tags, TagsOf
    <2> DEFINE u == all[g[j]]
    <2>1. u \in T /\ SameBut(s[j], u) /\ Moved(s[j], u) /\ s[j].kind # "splice"
        BY <1>0, <1>3
    <2> HIDE DEF u
    <2>2. u.kind \in CommitKinds /\ (u.kind = "attr" => u.sub = "attr")
        BY <2>1 DEF Tags
    <2> QED BY <2>1, <2>2 DEF SameBut, Moved
<1>5. Plain(s)
    <2>1. NoSplice(s)
        BY <1>3 DEF NoSplice
    <2>2. ASSUME NEW i \in 1 .. Len(s), NEW j \in 1 .. Len(s), i < j, s[i].kind = s[j].kind
          PROVE  s[i].id # s[j].id
        <3> DEFINE x == g[i]
                   y == g[j]
        <3>1. x \in 1 .. Len(all) /\ y \in 1 .. Len(all) /\ x < y
            BY <1>2, <2>2
        <3>2. /\ s[i] = Now(all, n, x) /\ s[j] = Now(all, n, y)
              /\ Now(all, n, x) # Superseded /\ Now(all, n, y) # Superseded
              /\ s[i].kind # "splice" /\ Moved(s[i], all[x]) /\ Moved(s[j], all[y])
            BY <1>3
        <3> HIDE DEF x, y
        <3>3. all[x].kind # "splice" /\ all[x].kind = all[y].kind
            BY <2>2, <3>2 DEF Moved
        <3>4. Now(all, n, x).id # Now(all, n, y).id
            BY <3>1, <3>2, <3>3, NowOne
        <3> QED BY <3>2, <3>4
    <2> QED BY <2>1, <2>2 DEF Plain
<1>6. ASSUME NEW j \in 1 .. Len(s)
      PROVE  \E i \in 1 .. Len(all) : /\ Moved(s[j], all[i])
                                      /\ j > 1 => i > 1
                                      /\ s[j].val = Gone => i = Len(all)
    <2>1. j > 1 => g[j] > 1
        <3> SUFFICES ASSUME j > 1 PROVE g[j] > 1
            OBVIOUS
        <3>1. 1 \in 1 .. Len(s) /\ 1 < j
            BY <1>2
        <3>2. g[1] < g[j] /\ g[1] \in 1 .. Len(all) /\ g[j] \in 1 .. Len(all)
            BY <1>2, <3>1
        <3> QED BY <1>0, <3>2
    <2> QED BY <1>3, <2>1
<1>7. ASSUME NEW k \in kinds, NEW at \in begin .. end - 1
      PROVE  Slot(s, k, at) = Slot(all, k, at)
    <2>0. at \in Nat /\ k # "splice"
        OBVIOUS
    <2>1. ASSUME NEW j \in 1 .. Len(s), s[j].kind = k, s[j].id = at
          PROVE  Slot(s, k, at) = IF s[j].val = Gone THEN {} ELSE {[sub |-> s[j].sub, val |-> s[j].val]}
        BY <1>2, <1>4, <1>5, <2>1, PlainSlot
    <2>2. ASSUME NEW y \in Slot(all, k, at) PROVE y \in Slot(s, k, at)
        <3>1. PICK i \in 1 .. Len(all) : /\ Has(all, k, at, i)
                                         /\ y = [sub |-> all[i].sub, val |-> all[i].val]
            BY <2>2 DEF Slot
        <3>2. /\ all[i].kind = k /\ all[i].val # Gone
              /\ FilteredBy(all[i], all, i + 1) # Superseded
              /\ FilteredBy(all[i], all, i + 1).id = at
            BY <3>1 DEF Has
        <3>3. Now(all, n, i) = FilteredBy(all[i], all, i + 1)
            BY <3>2 DEF Now
        <3>4. Counts(all, n, kinds, begin, end, i)
            BY <3>2, <3>3 DEF Counts
        <3>5. PICK j \in 1 .. Len(s) : g[j] = i
            BY <1>2, <3>4
        <3>6. s[j].id = at /\ Moved(s[j], all[i])
            BY <1>3, <3>2, <3>3, <3>5
        <3>7. s[j].kind = k /\ s[j].val # Gone /\ y = [sub |-> s[j].sub, val |-> s[j].val]
            BY <3>1, <3>2, <3>6 DEF Moved
        <3>8. Slot(s, k, at) = {[sub |-> s[j].sub, val |-> s[j].val]}
            BY <2>1, <3>6, <3>7
        <3> QED BY <3>7, <3>8
    <2>3. ASSUME NEW y \in Slot(s, k, at) PROVE y \in Slot(all, k, at)
        <3>1. About(s, k, at)
            BY <1>2, <1>4, <1>5, <2>0, <2>3, SlotAbout DEF Plain
        <3>2. PICK j \in 1 .. Len(s) : s[j].kind = k /\ s[j].id = at
            BY <3>1 DEF About
        <3>3. s[j].val # Gone /\ y = [sub |-> s[j].sub, val |-> s[j].val]
            BY <2>1, <2>3, <3>2
        <3>4. Has(all, k, at, g[j]) /\ g[j] \in 1 .. Len(all) /\ Moved(s[j], all[g[j]])
            BY <1>3, <3>2, <3>3
        <3> QED BY <3>3, <3>4 DEF Slot, Moved
    <2> QED BY <2>2, <2>3
<1> QED BY <1>2, <1>3, <1>4, <1>5, <1>6, <1>7 DEF KeepsOf, s

-----------------------------------------------------------------------------
(* What is written of the tags that are kept.                                  *)

\* A tag that a block may hold.
StoredTag(t) ==
    /\ t.kind # "from"
    /\ t.kind = "name" => t.val # Gone /\ (t.sub = "super" \/ t.val \in Names)
    /\ t.sub = "super" => t.kind = "name"
    /\ t.kind = "struct" => t.val # Gone /\ (t.sub = "dir" => t.val \in Child)
    /\ t.kind = "tail" => t.id = NoId

Stored(T) == Tags(T) /\ \A t \in T : StoredTag(t)

\* One that stands for the tags of a move.
FromTag(t) ==
    /\ t.kind = "from" /\ t.sub # "super" /\ t.val # Gone
    /\ t.val.id \in Nat
    /\ \E S : Stored(S) /\ t.val.log \in Seq(S)

\* Tags of a commit.
Written(T) == Tags(T) /\ \A t \in T : StoredTag(t) \/ FromTag(t)

OneTag(t, d) == [t EXCEPT !.id = IF t.id = NoId THEN t.id ELSE t.id + d]

MovedTags(t, d) ==
    LET them == Unique(t.val.log, Len(t.val.log), {"struct", "attr"}, t.val.id, t.val.id + 1)
    IN [k \in DOMAIN them |-> [them[k] EXCEPT !.id = t.id + d]]

EmittedTags(t, d) == IF t.kind = "from" THEN MovedTags(t, d) ELSE <<OneTag(t, d)>>

EmitSteps(s, d, f) ==
    /\ Emitted(s, d) = f[Len(s)]
    /\ f[0] = <<>>
    /\ \A i \in 1 .. Len(s) : f[i] = f[i - 1] \o EmittedTags(s[i], d)

LEMMA EmitStepsExist ==
    ASSUME NEW tags, Len(tags) \in Nat, NEW d
    PROVE  \E f : EmitSteps(tags, d, f)
<1> DEFINE Next_(l, i) == l \o EmittedTags(tags[i], d)
           Is(f, m) == f = [i \in 0 .. m |-> IF i = 0 THEN <<>> ELSE Next_(f[i - 1], i)]
           T == {m \in Nat : \E f : Is(f, m)}
<1>1. \A m \in Nat : m \in T
    <2>1. 0 \in T
        <3>1. Is([i \in 0 .. 0 |-> <<>>], 0)
            OBVIOUS
        <3> HIDE DEF Is
        <3> QED BY <3>1
    <2>2. ASSUME NEW m \in Nat, m \in T PROVE m + 1 \in T
        <3>1. PICK f : Is(f, m)
            BY <2>2
        <3> DEFINE h == [i \in 0 .. m + 1 |-> IF i = m + 1 THEN Next_(f[i - 1], i) ELSE f[i]]
        <3>2. Is(h, m + 1)
            <4> HIDE DEF Next_
            <4> QED BY <3>1
        <3> HIDE DEF Is, h
        <3> QED BY <3>2
    <2> HIDE DEF T
    <2> QED BY <2>1, <2>2, Induction
<1> DEFINE one(t) == [t EXCEPT !.id = IF t.id = NoId THEN t.id ELSE t.id + d]
           moved(t) ==
               LET them == Unique(t.val.log, Len(t.val.log), {"struct", "attr"},
                                  t.val.id, t.val.id + 1)
               IN [k \in DOMAIN them |-> [them[k] EXCEPT !.id = t.id + d]]
           upto[i \in 0 .. Len(tags)] ==
              IF i = 0 THEN <<>>
              ELSE upto[i - 1] \o (IF tags[i].kind = "from" THEN moved(tags[i])
                                   ELSE <<one(tags[i])>>)
<1>2. Is(upto, Len(tags))
    <2>1. PICK f : Is(f, Len(tags))
        BY <1>1
    <2>2. \A t : EmittedTags(t, d) = IF t.kind = "from" THEN moved(t) ELSE <<one(t)>>
        BY DEF EmittedTags, MovedTags, OneTag
    <2> HIDE DEF moved, one
    <2> QED BY ZenonT(60), <2>1, <2>2
<1>3. Emitted(tags, d) = upto[Len(tags)]
    BY DEF Emitted
<1> HIDE DEF upto
<1>4. EmitSteps(tags, d, upto)
    <2>1. upto = [i \in 0 .. Len(tags) |-> IF i = 0 THEN <<>> ELSE Next_(upto[i - 1], i)]
        BY <1>2
    <2>2. upto[0] = <<>>
        <3>1. 0 \in 0 .. Len(tags)
            OBVIOUS
        <3> HIDE DEF Next_
        <3> QED BY <2>1, <3>1
    <2>3. ASSUME NEW i \in 1 .. Len(tags) PROVE upto[i] = upto[i - 1] \o EmittedTags(tags[i], d)
        <3>1. i \in 0 .. Len(tags) /\ i # 0
            OBVIOUS
        <3>2. upto[i] = Next_(upto[i - 1], i)
            <4> HIDE DEF Next_
            <4> QED BY <2>1, <3>1
        <3> QED BY <3>2
    <2> QED BY <1>3, <2>2, <2>3 DEF EmitSteps
<1> QED BY <1>4

LEMMA EmittedEmpty ==
    ASSUME NEW d
    PROVE  Emitted(<<>>, d) = <<>>
<1> DEFINE s == <<>>
<1>1. Len(s) = 0
    OBVIOUS
<1> HIDE DEF s
<1>2. PICK f : EmitSteps(s, d, f)
    <2>1. Len(s) \in Nat
        BY <1>1
    <2> QED BY <2>1, EmitStepsExist
<1> QED BY <1>1, <1>2 DEF EmitSteps, s

LEMMA EmittedAppend ==
    ASSUME NEW T, NEW s \in Seq(T), NEW u \in T, NEW d
    PROVE  Emitted(Append(s, u), d) = Emitted(s, d) \o EmittedTags(u, d)
<1> DEFINE M == Append(s, u)
<1>1. /\ M \in Seq(T) /\ Len(s) \in Nat /\ Len(M) = Len(s) + 1
      /\ \A i \in 1 .. Len(s) : M[i] = s[i]
      /\ M[Len(s) + 1] = u
    BY AppendIs
<1> HIDE DEF M
<1>2. PICK f : EmitSteps(s, d, f)
    BY <1>1, EmitStepsExist
<1>3. PICK h : EmitSteps(M, d, h)
    <2>1. Len(M) \in Nat
        BY <1>1
    <2> QED BY <2>1, EmitStepsExist
<1> DEFINE V == {i \in Nat : i <= Len(s) => h[i] = f[i]}
<1>4. \A i \in Nat : i \in V
    <2>1. 0 \in V
        BY <1>2, <1>3 DEF EmitSteps
    <2>2. ASSUME NEW i \in Nat, i \in V PROVE i + 1 \in V
        <3>1. SUFFICES ASSUME i + 1 <= Len(s) PROVE h[i + 1] = f[i + 1]
            OBVIOUS
        <3>2. i + 1 \in 1 .. Len(s) /\ i + 1 \in 1 .. Len(M) /\ h[i] = f[i] /\ (i + 1) - 1 = i
            BY <1>1, <2>2, <3>1
        <3>3. h[i + 1] = h[i] \o EmittedTags(M[i + 1], d) /\ f[i + 1] = f[i] \o EmittedTags(s[i + 1], d)
            BY <1>2, <1>3, <3>2 DEF EmitSteps
        <3> QED BY <1>1, <3>2, <3>3
    <2> HIDE DEF V
    <2> QED BY <2>1, <2>2, Induction
<1>5. h[Len(s)] = f[Len(s)]
    BY <1>1, <1>4
<1>6. h[Len(s) + 1] = h[Len(s)] \o EmittedTags(u, d)
    <2>1. Len(s) + 1 \in 1 .. Len(M) /\ (Len(s) + 1) - 1 = Len(s)
        BY <1>1
    <2> QED BY <1>1, <1>3, <2>1 DEF EmitSteps
<1> QED BY <1>1, <1>2, <1>3, <1>5, <1>6 DEF EmitSteps, M

LEMMA OneIs ==
    ASSUME NEW T, Tags(T), NEW t \in T, StoredTag(t), NEW d, t.id # NoId \/ d = 0,
           t.id + d \in Nat
    PROVE  /\ OneTag(t, d) = Tag(t.kind, t.sub, t.id + d, t.val)
           /\ Moved(OneTag(t, d), t) /\ OneTag(t, d).id = t.id + d
           /\ t.kind # "splice" /\ t.kind # "tail" => Stored({OneTag(t, d)})
<1> DEFINE k == t.kind
           s == t.sub
           i == t.id
           v == t.val
<1>0. t = [kind |-> k, sub |-> s, id |-> i, val |-> v] /\ i \in Nat
    BY DEF Tags, Tag
<1>1. OneTag(t, d) = [kind |-> k, sub |-> s, id |-> i + d, val |-> v]
    <2>1. (IF i = NoId THEN i ELSE i + d) = i + d
        BY <1>0
    <2> HIDE DEF k, s, i, v
    <2> QED BY <1>0, <2>1 DEF OneTag
<1> DEFINE x == OneTag(t, d)
<1>2. x.kind = k /\ x.sub = s /\ x.id = i + d /\ x.val = v
    <2> HIDE DEF k, s, i, v, x
    <2> QED BY <1>1 DEF x
<1>3. k # "splice" /\ k # "tail" => Stored({x})
    <2> SUFFICES ASSUME k # "splice", k # "tail" PROVE Tags({x}) /\ StoredTag(x)
        BY DEF Stored
    <2>1. Tags({x})
        <3>1. k \in CommitKinds /\ (k = "attr" => s = "attr") /\ i + d \in Nat
            BY DEF Tags
        <3>2. x = Tag(x.kind, x.sub, x.id, x.val)
            <4> HIDE DEF k, s, i, v, x
            <4> QED BY <1>1, <1>2 DEF Tag, x
        <3> HIDE DEF k, s, i, v, x
        <3> QED BY <1>2, <3>1, <3>2 DEF Tags
    <2>2. StoredTag(x)
        <3> HIDE DEF x
        <3> QED BY <1>2 DEF StoredTag
    <2> QED BY <2>1, <2>2
<1> QED BY <1>1, <1>2, <1>3 DEF Moved, Tag

-----------------------------------------------------------------------------
(* What an entry has, once a move is written out.                             *)

MovedKinds == {"struct", "attr"}

\* What the log s of a block, and of commits to it, says; the entry of a tag that stands
\* for a move has what that entry had.
Whole(s, k, at) ==
    Slot(s, k, at) \union
    (IF k \in MovedKinds THEN UNION {Slot(x.val.log, k, x.val.id) : x \in Slot(s, "from", at)}
     ELSE {})

LEMMA MovedIs ==
    ASSUME NEW t, FromTag(t), NEW d, t.id + d \in Nat
    PROVE  LET m == MovedTags(t, d)
           IN /\ m \in Seq(TagsOf(m)) /\ Stored(TagsOf(m)) /\ Plain(m)
              /\ \A j \in 1 .. Len(m) : m[j].kind \in MovedKinds /\ m[j].id = t.id + d
              /\ \A k \in MovedKinds : Slot(m, k, t.id + d) = Slot(t.val.log, k, t.val.id)
<1> DEFINE log == t.val.log
           from == t.val.id
           u == Unique(log, Len(log), {"struct", "attr"}, from, from + 1)
           to == t.id + d
           m == MovedTags(t, d)
<1>1. PICK S : Stored(S) /\ log \in Seq(S)
    BY DEF FromTag
<1>2. from \in Nat /\ to \in Nat
    BY DEF FromTag
<1>3. KeepsOf(u, log, {"struct", "attr"}, from, from + 1)
    <2> HIDE DEF log, from
    <2>1. from + 1 \in Nat /\ "splice" \notin {"struct", "attr"} /\ Tags(S)
        BY <1>1, <1>2 DEF Stored
    <2> QED BY <1>1, <1>2, <2>1, UniqueKeeps
<1>4. m = [k \in DOMAIN u |-> [u[k] EXCEPT !.id = to]]
    BY DEF MovedTags
<1> HIDE DEF log, from, u, to, m
<1>5. /\ u \in Seq(TagsOf(u)) /\ Tags(TagsOf(u)) /\ Plain(u)
      /\ \A j \in 1 .. Len(u) :
            /\ u[j].kind \in {"struct", "attr"} /\ u[j].id \in from .. from
            /\ \E i \in 1 .. Len(log) : Moved(u[j], log[i])
      /\ \A k \in {"struct", "attr"} : \A at \in from .. from : Slot(u, k, at) = Slot(log, k, at)
    <2> DEFINE end == from + 1
    <2>1. end - 1 = from
        BY <1>2
    <2>2. KeepsOf(u, log, {"struct", "attr"}, from, end)
        BY <1>3
    <2> HIDE DEF end
    <2> QED BY <2>1, <2>2 DEF KeepsOf
<1>6. Len(u) \in Nat /\ DOMAIN u = 1 .. Len(u)
    BY <1>5
<1>7. m \in Seq(TagsOf(m)) /\ Len(m) = Len(u)
    <2>1. m = [k \in 1 .. Len(u) |-> m[k]]
        BY <1>4, <1>6
    <2>2. \A k \in 1 .. Len(u) : m[k] \in {m[i] : i \in 1 .. Len(u)}
        OBVIOUS
    <2>3. m \in Seq({m[i] : i \in 1 .. Len(u)}) /\ Len(m) = Len(u)
        BY <1>6, <2>1, <2>2
    <2> QED BY <2>3 DEF TagsOf
<1>8. ASSUME NEW j \in 1 .. Len(u)
      PROVE  /\ m[j] = Tag(u[j].kind, u[j].sub, to, u[j].val)
             /\ m[j].kind = u[j].kind /\ m[j].sub = u[j].sub /\ m[j].id = to /\ m[j].val = u[j].val
             /\ StoredTag(m[j])
             /\ u[j].kind \in MovedKinds /\ (u[j].kind = "attr" => u[j].sub = "attr")
    <2> DEFINE x == u[j]
    <2>1. x \in TagsOf(u)
        BY DEF TagsOf
    <2>2. x = Tag(x.kind, x.sub, x.id, x.val) /\ (x.kind = "attr" => x.sub = "attr")
        BY <1>5, <2>1 DEF Tags
    <2>3. m[j] = [x EXCEPT !.id = to]
        BY <1>4, <1>6
    <2>4. PICK i \in 1 .. Len(log) : Moved(x, log[i])
        BY <1>5
    <2>5. StoredTag(log[i])
        BY <1>1 DEF Stored
    <2>6. x.kind \in MovedKinds
        BY <1>5 DEF MovedKinds
    <2> DEFINE k == x.kind
               s == x.sub
               v == x.val
               a == x.id
    <2>7. x = [kind |-> k, sub |-> s, id |-> a, val |-> v]
        BY <2>2 DEF Tag
    <2> HIDE DEF x
    <2>8. m[j] = [kind |-> k, sub |-> s, id |-> to, val |-> v]
        <3> HIDE DEF k, s, v, a
        <3> QED BY <2>3, <2>7
    <2>9. StoredTag(m[j])
        <3>1. log[i].kind = k /\ log[i].sub = s /\ log[i].val = v
            BY <2>4 DEF Moved
        <3> HIDE DEF k, s, v, a
        <3> QED BY <2>5, <2>6, <2>8, <3>1 DEF StoredTag, k, MovedKinds
    <2> QED BY <2>2, <2>6, <2>8, <2>9 DEF Tag, x
<1>9. Stored(TagsOf(m))
    <2> SUFFICES ASSUME NEW j \in 1 .. Len(u) PROVE Tags({m[j]}) /\ StoredTag(m[j])
        BY <1>7 DEF Stored, Tags, TagsOf
    <2>1. m[j] = Tag(m[j].kind, m[j].sub, m[j].id, m[j].val)
        BY <1>8
    <2>2. m[j].kind \in CommitKinds /\ m[j].kind # "splice" /\ m[j].id \in Nat
        BY <1>2, <1>8 DEF MovedKinds, CommitKinds, StoreKinds
    <2> QED BY <1>8, <2>1, <2>2 DEF Tags
<1>10. Plain(m)
    <2>1. NoSplice(m)
        BY <1>7, <1>8 DEF NoSplice, MovedKinds
    <2>2. ASSUME NEW i \in 1 .. Len(u), NEW j \in 1 .. Len(u), i < j, m[i].kind = m[j].kind
          PROVE  FALSE
        <3>1. u[i].kind = u[j].kind
            BY <1>8, <2>2
        <3>2. u[i].id = from /\ u[j].id = from
            BY <1>2, <1>5
        <3> QED BY <1>5, <2>2, <3>1, <3>2 DEF Plain
    <2> QED BY <1>7, <2>1, <2>2 DEF Plain
<1>11. ASSUME NEW k \in MovedKinds PROVE Slot(m, k, to) = Slot(log, k, from)
    <2>1. Slot(u, k, from) = Slot(log, k, from)
        BY <1>2, <1>5 DEF MovedKinds
    <2>2. k # "splice"
        BY DEF MovedKinds
    <2>3. Tags(TagsOf(m)) /\ NoSplice(u) /\ NoSplice(m)
        BY <1>5, <1>9, <1>10 DEF Stored, Plain
    <2>4. CASE \E j \in 1 .. Len(u) : u[j].kind = k
        <3>1. PICK j \in 1 .. Len(u) : u[j].kind = k
            BY <2>4
        <3>2. u[j].id = from
            BY <1>2, <1>5
        <3>3. Slot(u, k, from) = IF u[j].val = Gone THEN {} ELSE {[sub |-> u[j].sub, val |-> u[j].val]}
            BY <1>5, <3>1, <3>2, PlainSlot
        <3>4. m[j].kind = k /\ m[j].id = to /\ m[j].sub = u[j].sub /\ m[j].val = u[j].val
            BY <1>8, <3>1
        <3>5. Slot(m, k, to) = IF m[j].val = Gone THEN {} ELSE {[sub |-> m[j].sub, val |-> m[j].val]}
            BY <1>7, <1>10, <2>3, <3>4, PlainSlot
        <3> QED BY <2>1, <3>3, <3>4, <3>5
    <2>5. CASE ~\E j \in 1 .. Len(u) : u[j].kind = k
        <3>1. ~About(u, k, from)
            BY <2>5 DEF About
        <3>2. ~About(m, k, to)
            BY <1>7, <1>8, <2>5 DEF About
        <3>3. Slot(u, k, from) = {}
            BY <1>2, <1>5, <2>2, <2>3, <3>1, SlotAbout
        <3>4. Slot(m, k, to) = {}
            BY <1>2, <1>7, <2>2, <2>3, <3>2, SlotAbout
        <3> QED BY <2>1, <3>3, <3>4
    <2> QED BY <2>4, <2>5
<1>12. \A j \in 1 .. Len(m) : m[j].kind \in MovedKinds /\ m[j].id = to
    BY <1>7, <1>8
<1> QED BY <1>7, <1>9, <1>10, <1>11, <1>12 DEF m, to, log, from

-----------------------------------------------------------------------------
(* Tags that are kept are written so that the log says the same of each entry. *)

LEMMA TagsUnion ==
    ASSUME NEW A, NEW B, Stored(A), Stored(B)
    PROVE  Stored(A \union B)
    BY DEF Stored, Tags

LEMMA StoredConcat ==
    ASSUME NEW e, NEW m, e \in Seq(TagsOf(e)), m \in Seq(TagsOf(m)),
           Stored(TagsOf(e)), Stored(TagsOf(m))
    PROVE  /\ e \o m \in Seq(TagsOf(e \o m)) /\ Stored(TagsOf(e \o m))
           /\ e \in Seq(TagsOf(e) \union TagsOf(m)) /\ m \in Seq(TagsOf(e) \union TagsOf(m))
           /\ Stored(TagsOf(e) \union TagsOf(m))
           /\ Len(e) \in Nat /\ Len(m) \in Nat /\ Len(e \o m) = Len(e) + Len(m)
           /\ \A i \in 1 .. Len(e) + Len(m) :
                 (e \o m)[i] = IF i <= Len(e) THEN e[i] ELSE m[i - Len(e)]
<1> DEFINE S == TagsOf(e) \union TagsOf(m)
<1>1. e \in Seq(S) /\ m \in Seq(S)
    BY SeqMonotonic
<1>2. Stored(S)
    BY TagsUnion
<1> HIDE DEF S
<1>3. /\ e \o m \in Seq(S) /\ Len(e \o m) = Len(e) + Len(m)
      /\ Len(e) \in Nat /\ Len(m) \in Nat
      /\ \A i \in 1 .. Len(e) + Len(m) :
            (e \o m)[i] = IF i <= Len(e) THEN e[i] ELSE m[i - Len(e)]
    BY <1>1, ConcatProperties
<1> DEFINE c == e \o m
<1>4. c \in Seq(TagsOf(c)) /\ TagsOf(c) \subseteq S
    <2>1. c \in Seq(S)
        BY <1>3
    <2> HIDE DEF c
    <2> QED BY <2>1, TagsOfSeq
<1>5. Stored(TagsOf(c))
    BY <1>2, <1>4 DEF Stored, Tags
<1> QED BY <1>1, <1>2, <1>3, <1>4, <1>5 DEF S

\* Tags that can be written with ids that are b lower.
Ready(s, b) ==
    /\ Plain(s)
    /\ \A j \in 1 .. Len(s) : /\ s[j].kind \in Kinds \union {"from"}
                              /\ s[j].id # NoId /\ s[j].id >= b
    /\ \A i, j \in 1 .. Len(s) : s[i].kind = "from" /\ s[j].kind \in MovedKinds
                                    => s[i].id # s[j].id

\* What the tag t becomes is about the same.
Becomes(x, t, b) == /\ x.kind \in Kinds /\ x.id + b = t.id
                    /\ x.kind = t.kind \/ (t.kind = "from" /\ x.kind \in MovedKinds)
                    /\ x.sub = "super" => t.sub = "super"

\* e is what is written of s.
WrittenAs(e, s, b) ==
    /\ e \in Seq(TagsOf(e)) /\ Stored(TagsOf(e)) /\ Plain(e)
    /\ \A i \in 1 .. Len(e) : \E j \in 1 .. Len(s) : Becomes(e[i], s[j], b)
    /\ \A k \in Kinds : \A at \in Nat : Slot(e, k, at) = Whole(s, k, at + b)

\* What one tag says of its entry.
Says(t, k) ==
    IF t.kind = "from" THEN (IF k \in MovedKinds THEN Slot(t.val.log, k, t.val.id) ELSE {})
    ELSE IF k = t.kind /\ t.val # Gone THEN {[sub |-> t.sub, val |-> t.val]} ELSE {}

\* It is about what it says.
Affects(t, k) == t.kind = k \/ (t.kind = "from" /\ k \in MovedKinds)

LEMMA PartIs ==
    ASSUME NEW T, Written(T), NEW t \in T, t.kind \in Kinds \union {"from"},
           NEW b \in Nat, t.id # NoId, t.id >= b
    PROVE  LET e == EmittedTags(t, -b)
           IN /\ e \in Seq(TagsOf(e)) /\ Stored(TagsOf(e)) /\ Plain(e)
              /\ \A i \in 1 .. Len(e) : Becomes(e[i], t, b)
              /\ \A k \in Kinds : Slot(e, k, t.id - b) = Says(t, k)
<1> DEFINE d == -b
<1>0. d \in Int /\ t.id \in Nat /\ t.id + d = t.id - b /\ t.id - b \in Nat /\ (t.id - b) + b = t.id
    BY DEF Written, Tags
<1> HIDE DEF d
<1>1. CASE t.kind = "from"
    <2> DEFINE m == MovedTags(t, d)
    <2>1. FromTag(t)
        BY <1>1 DEF Written, StoredTag
    <2>2. /\ m \in Seq(TagsOf(m)) /\ Stored(TagsOf(m)) /\ Plain(m)
          /\ \A j \in 1 .. Len(m) : m[j].kind \in MovedKinds /\ m[j].id = t.id + d
          /\ \A k \in MovedKinds : Slot(m, k, t.id + d) = Slot(t.val.log, k, t.val.id)
        <3> t.id + d \in Nat BY <1>0
        <3> QED BY <2>1, MovedIs
    <2>3. EmittedTags(t, d) = m
        BY <1>1 DEF EmittedTags
    <2> HIDE DEF m
    <2>4. ASSUME NEW i \in 1 .. Len(m) PROVE Becomes(m[i], t, b)
        <3>1. m[i] \in TagsOf(m)
            BY DEF TagsOf
        <3>2. StoredTag(m[i]) /\ m[i].kind \in MovedKinds /\ m[i].id = t.id - b
            BY <1>0, <2>2, <3>1 DEF Stored
        <3> QED BY <1>0, <1>1, <3>2 DEF Becomes, StoredTag, MovedKinds, Kinds
    <2>5. Slot(m, "name", t.id - b) = {}
        <3> DEFINE k == "name"
                   at == t.id - b
        <3>1. ~About(m, k, at) /\ k # "splice" /\ at \in Nat
            BY <1>0, <2>2 DEF About, MovedKinds
        <3>2. Tags(TagsOf(m)) /\ NoSplice(m)
            BY <2>2 DEF Stored, Plain
        <3>3. Slot(m, k, at) = {}
            <4> HIDE DEF k, at
            <4> QED BY <2>2, <3>1, <3>2, SlotAbout
        <3> QED BY <3>3
    <2>6. \A k \in Kinds : k = "name" \/ k \in MovedKinds
        BY DEF Kinds, MovedKinds
    <2>7. "name" \notin MovedKinds
        BY DEF MovedKinds
    <2>8. \A k \in Kinds : Slot(m, k, t.id - b) = Says(t, k)
        BY <1>0, <1>1, <2>2, <2>5, <2>6, <2>7 DEF Says
    <2> QED BY <2>2, <2>3, <2>4, <2>8 DEF d
<1>2. CASE t.kind # "from"
    <2> DEFINE x == OneTag(t, d)
               e == <<x>>
    <2>1. StoredTag(t) /\ Tags(T)
        BY <1>2 DEF Written, FromTag
    <2>2. Moved(x, t) /\ x.id = t.id - b /\ Stored({x})
        <3>1. t.kind # "splice" /\ t.kind # "tail" /\ t.id + d \in Nat
            BY <1>0, <1>2 DEF Kinds
        <3> QED BY <1>0, <2>1, <3>1, OneIs
    <2>3. EmittedTags(t, d) = e
        BY <1>2 DEF EmittedTags
    <2>4. e \in Seq(TagsOf(e)) /\ TagsOf(e) = {x} /\ Len(e) = 1 /\ e[1] = x
        <3>1. Len(e) = 1 /\ e[1] = x
            OBVIOUS
        <3> HIDE DEF x
        <3>2. \A i \in 1 .. 1 : i = 1
            OBVIOUS
        <3>3. TagsOf(e) = {x}
            BY <3>1, <3>2 DEF TagsOf
        <3> QED BY <3>1, <3>3
    <2> HIDE DEF e, x
    <2>5. Plain(e)
        <3>1. x.kind # "splice"
            BY <1>2, <2>2 DEF Moved, Kinds
        <3> QED BY <2>4, <3>1 DEF Plain, NoSplice
    <2>6. \A i \in 1 .. Len(e) : Becomes(e[i], t, b)
        <3>1. t.kind \in Kinds
            BY <1>2
        <3>2. Becomes(x, t, b)
            BY <1>0, <2>2, <3>1 DEF Becomes, Moved
        <3>3. \A i \in 1 .. 1 : i = 1
            OBVIOUS
        <3> QED BY <2>4, <3>2, <3>3
    <2>7. ASSUME NEW k \in Kinds PROVE Slot(e, k, t.id - b) = Says(t, k)
        <3>0. k # "splice" /\ Tags(TagsOf(e))
            BY <2>2, <2>4 DEF Kinds, Stored
        <3>1. CASE k = t.kind
            <4>1. x.kind = k /\ x.id = t.id - b /\ x.sub = t.sub /\ x.val = t.val
                BY <2>2, <3>1 DEF Moved
            <4>2. Slot(e, x.kind, x.id) = IF x.val = Gone THEN {} ELSE {[sub |-> x.sub, val |-> x.val]}
                <5>1. \A i \in 1 .. Len(e) : Slot(e, e[i].kind, e[i].id) =
                         IF e[i].val = Gone THEN {} ELSE {[sub |-> e[i].sub, val |-> e[i].val]}
                    BY <2>4, <2>5, <3>0, PlainSlot
                <5>2. 1 \in 1 .. Len(e)
                    BY <2>4
                <5> QED BY <2>4, <5>1, <5>2
            <4> QED BY <1>2, <3>1, <4>1, <4>2 DEF Says
        <3>2. CASE k # t.kind
            <4> DEFINE at == t.id - b
            <4>1. ~About(e, k, at) /\ at \in Nat
                BY SMTT(60), <1>0, <2>2, <2>4, <3>2 DEF About, Moved
            <4>2. Slot(e, k, at) = {}
                <5> HIDE DEF at
                <5> QED BY <2>4, <2>5, <3>0, <4>1, SlotAbout DEF Plain
            <4> QED BY <1>2, <3>2, <4>2 DEF Says
        <3> QED BY <3>1, <3>2
    <2> QED BY <2>2, <2>3, <2>4, <2>5, <2>6, <2>7 DEF d
<1> QED BY <1>1, <1>2

LEMMA WholeAppend ==
    ASSUME NEW T, Written(T), NEW s \in Seq(T), NEW u \in T, NEW b, Ready(Append(s, u), b),
           NEW k \in Kinds, NEW at \in Nat
    PROVE  Whole(Append(s, u), k, at) = IF at = u.id /\ Affects(u, k) THEN Says(u, k)
                                        ELSE Whole(s, k, at)
<1>0. /\ Tags(T) /\ k # "splice" /\ k # "from" /\ "from" # "splice"
      /\ u.kind # "splice" /\ u.id \in Nat /\ u.kind \in Kinds \union {"from"}
      /\ s \in Seq(T) /\ Len(s) \in Nat /\ NoSplice(s)
      /\ \A i \in 1 .. Len(s) : Append(s, u)[i] = s[i] /\ i \in 1 .. Len(Append(s, u))
                                /\ i < Len(s) + 1
      /\ Append(s, u)[Len(s) + 1] = u /\ Len(s) + 1 \in 1 .. Len(Append(s, u))
    <2>1. /\ Len(s) \in Nat /\ Len(Append(s, u)) = Len(s) + 1
          /\ \A i \in 1 .. Len(s) : Append(s, u)[i] = s[i]
          /\ Append(s, u)[Len(s) + 1] = u
        BY AppendIs
    <2>2. Len(s) + 1 \in 1 .. Len(Append(s, u)) /\ \A i \in 1 .. Len(s) : i \in 1 .. Len(Append(s, u))
        BY <2>1
    <2>3. u.kind \in Kinds \union {"from"} /\ u.kind # "splice"
        BY <2>1, <2>2 DEF Ready, Plain, NoSplice
    <2>4. NoSplice(s)
        BY <2>1, <2>2 DEF Ready, Plain, NoSplice
    <2> QED BY <2>1, <2>2, <2>3, <2>4 DEF Written, Tags, Kinds
<1> DEFINE M == Append(s, u)
<1>1. /\ \A i \in 1 .. Len(s) : s[i].kind = u.kind => s[i].id # u.id
      /\ \A i \in 1 .. Len(s) : u.kind = "from" /\ s[i].kind \in MovedKinds => s[i].id # u.id
      /\ \A i \in 1 .. Len(s) : u.kind \in MovedKinds /\ s[i].kind = "from" => s[i].id # u.id
    <2> HIDE DEF M
    <2>1. Ready(M, b) /\ (\A i \in 1 .. Len(s) : M[i] = s[i] /\ i \in 1 .. Len(M) /\ i < Len(s) + 1)
          /\ M[Len(s) + 1] = u /\ Len(s) + 1 \in 1 .. Len(M)
        BY <1>0 DEF M
    <2> QED BY <2>1 DEF Ready, Plain
<1>2. ASSUME NEW q, q # "splice", ~(u.kind = q /\ u.id = at) PROVE Slot(M, q, at) = Slot(s, q, at)
    BY <1>0, <1>2, SlotOther
<1>3. Slot(M, u.kind, u.id) = IF u.val = Gone THEN {} ELSE {[sub |-> u.sub, val |-> u.val]}
    <2>1. Tags(T) /\ s \in Seq(T) /\ u \in T /\ u.kind # "splice"
        BY <1>0
    <2> QED BY <2>1, SlotSet
<1> HIDE DEF M
<1>4. CASE at # u.id
    <2>1. Slot(M, k, at) = Slot(s, k, at) /\ Slot(M, "from", at) = Slot(s, "from", at)
        BY <1>0, <1>2, <1>4
    <2> QED BY <1>4, <2>1 DEF Whole, M
<1>5. CASE at = u.id /\ u.kind # "from" /\ k # u.kind
    <2>1. Slot(M, k, at) = Slot(s, k, at) /\ Slot(M, "from", at) = Slot(s, "from", at)
        BY <1>0, <1>2, <1>5
    <2> QED BY <1>5, <2>1 DEF Whole, Affects, M
<1>6. CASE at = u.id /\ u.kind # "from" /\ k = u.kind
    <2>1. Slot(M, "from", at) = Slot(s, "from", at)
        BY <1>0, <1>2, <1>6
    <2>2. k \in MovedKinds => Slot(s, "from", at) = {}
        <3> SUFFICES ASSUME k \in MovedKinds PROVE Slot(s, "from", at) = {}
            OBVIOUS
        <3>1. ~About(s, "from", at)
            BY <1>1, <1>6 DEF About
        <3> QED BY <1>0, <3>1, SlotAbout
    <2>3. Slot(M, k, at) = Says(u, k)
        BY <1>3, <1>6 DEF Says
    <2>4. Whole(M, k, at) = Slot(M, k, at)
        BY <2>1, <2>2 DEF Whole
    <2> QED BY <1>6, <2>3, <2>4 DEF Affects, M
<1>7. CASE at = u.id /\ u.kind = "from" /\ k \notin MovedKinds
    <2>1. Slot(M, k, at) = Slot(s, k, at)
        BY <1>0, <1>2, <1>7
    <2> QED BY <1>0, <1>7, <2>1 DEF Whole, Affects, M
<1>8. CASE at = u.id /\ u.kind = "from" /\ k \in MovedKinds
    <2>1. Slot(M, k, at) = Slot(s, k, at)
        BY <1>0, <1>2, <1>8
    <2>2. ~About(s, k, at)
        BY <1>1, <1>8 DEF About
    <2>3. Slot(s, k, at) = {}
        BY <1>0, <2>2, SlotAbout
    <2>4. FromTag(u)
        BY <1>8 DEF Written, StoredTag
    <2> DEFINE x == [sub |-> u.sub, val |-> u.val]
    <2>5. Slot(M, "from", at) = {x} /\ x.val = u.val
        BY <1>3, <1>8, <2>4 DEF FromTag
    <2> HIDE DEF x
    <2>6. Whole(M, k, at) = Slot(u.val.log, k, u.val.id)
        BY <1>8, <2>1, <2>3, <2>5 DEF Whole
    <2> QED BY <1>8, <2>6 DEF Says, Affects, M
<1> QED BY <1>4, <1>5, <1>6, <1>7, <1>8

-----------------------------------------------------------------------------
(* lfs_dir_commit writes what is kept, entry by entry.                        *)

LEMMA ReadyPrefix ==
    ASSUME NEW T, NEW s \in Seq(T), NEW u \in T, NEW b, Ready(Append(s, u), b)
    PROVE  Ready(s, b) /\ u.kind \in Kinds \union {"from"} /\ u.id # NoId /\ u.id >= b
<1> DEFINE M == Append(s, u)
<1>1. /\ Len(s) \in Nat /\ Len(M) = Len(s) + 1 /\ M[Len(s) + 1] = u
      /\ \A i \in 1 .. Len(s) : M[i] = s[i]
    BY AppendIs
<1>2. Len(s) + 1 \in 1 .. Len(M) /\ \A i \in 1 .. Len(s) : i \in 1 .. Len(M)
    BY <1>1
<1> HIDE DEF M
<1>3. Ready(M, b)
    BY DEF M
<1>4. u.kind \in Kinds \union {"from"} /\ u.id # NoId /\ u.id >= b
    BY <1>1, <1>2, <1>3 DEF Ready
<1>5. Plain(s)
    BY <1>1, <1>2, <1>3 DEF Ready, Plain, NoSplice
<1>6. /\ \A j \in 1 .. Len(s) : /\ s[j].kind \in Kinds \union {"from"}
                                /\ s[j].id # NoId /\ s[j].id >= b
      /\ \A i, j \in 1 .. Len(s) : s[i].kind = "from" /\ s[j].kind \in MovedKinds
                                      => s[i].id # s[j].id
    BY <1>1, <1>2, <1>3 DEF Ready
<1> QED BY <1>4, <1>5, <1>6 DEF Ready

LEMMA WrittenNext ==
    ASSUME NEW T, Written(T), NEW s \in Seq(T), NEW u \in T, NEW b \in Nat,
           Ready(Append(s, u), b), NEW e, WrittenAs(e, s, b)
    PROVE  WrittenAs(e \o EmittedTags(u, -b), Append(s, u), b)
<1> DEFINE M == Append(s, u)
           p == EmittedTags(u, -b)
           w == e \o p
           n == Len(e)
<1>1. /\ Len(s) \in Nat /\ Len(M) = Len(s) + 1 /\ M[Len(s) + 1] = u
      /\ \A i \in 1 .. Len(s) : M[i] = s[i]
    BY AppendIs
<1>2. Len(s) + 1 \in 1 .. Len(M) /\ \A i \in 1 .. Len(s) : i \in 1 .. Len(M) /\ i < Len(s) + 1
    BY <1>1
<1>3. u.kind \in Kinds \union {"from"} /\ u.id # NoId /\ u.id >= b /\ u.id \in Nat
    <2>1. u.id \in Nat
        BY DEF Written, Tags
    <2> QED BY <2>1, ReadyPrefix
<1>4. /\ p \in Seq(TagsOf(p)) /\ Stored(TagsOf(p)) /\ Plain(p)
      /\ \A i \in 1 .. Len(p) : Becomes(p[i], u, b)
      /\ \A k \in Kinds : Slot(p, k, u.id - b) = Says(u, k)
    BY <1>3, PartIs
<1>5. /\ e \in Seq(TagsOf(e)) /\ Stored(TagsOf(e)) /\ Plain(e)
      /\ \A i \in 1 .. n : \E j \in 1 .. Len(s) : Becomes(e[i], s[j], b)
      /\ \A k \in Kinds : \A at \in Nat : Slot(e, k, at) = Whole(s, k, at + b)
    BY DEF WrittenAs
<1> DEFINE S == TagsOf(e) \union TagsOf(p)
<1>6. Ready(M, b)
    OBVIOUS
<1> HIDE DEF M, p
<1>7. /\ w \in Seq(TagsOf(w)) /\ Stored(TagsOf(w))
      /\ e \in Seq(S) /\ p \in Seq(S) /\ Stored(S)
      /\ n \in Nat /\ Len(p) \in Nat /\ Len(w) = n + Len(p)
      /\ \A i \in 1 .. n + Len(p) : w[i] = IF i <= n THEN e[i] ELSE p[i - n]
    BY <1>4, <1>5, StoredConcat
<1> HIDE DEF w, n, S
<1>8. /\ \A i \in 1 .. n : w[i] = e[i]
      /\ \A i \in 1 .. Len(w) : i \in 1 .. n \/ (i > n /\ i - n \in 1 .. Len(p) /\ w[i] = p[i - n])
    BY <1>7

<1>9. ASSUME NEW i \in 1 .. n, NEW y, Affects(u, y), e[i].kind = y, e[i].id + b = u.id
      PROVE  FALSE
    <2>1. PICK j \in 1 .. Len(s) : Becomes(e[i], s[j], b)
        BY <1>5
    <2>2. y \in Kinds /\ M[j].id = u.id
          /\ (y = M[j].kind \/ (M[j].kind = "from" /\ y \in MovedKinds))
        BY <1>1, <1>9, <2>1 DEF Becomes
    <2>3. j \in 1 .. Len(M) /\ Len(s) + 1 \in 1 .. Len(M) /\ j < Len(s) + 1
        BY <1>2
    <2>4. M[j].kind # M[Len(s) + 1].kind
        BY <1>1, <1>6, <2>2, <2>3 DEF Ready, Plain
    <2>5. ~(M[j].kind = "from" /\ u.kind \in MovedKinds) /\ ~(u.kind = "from" /\ M[j].kind \in MovedKinds)
        BY <1>1, <1>6, <2>2, <2>3 DEF Ready
    <2> QED BY <1>1, <1>9, <2>2, <2>4, <2>5 DEF Affects
<1>10. ASSUME NEW i \in 1 .. Len(p)
       PROVE  Affects(u, p[i].kind) /\ p[i].id + b = u.id /\ p[i].kind \in Kinds
    BY <1>4 DEF Becomes, Affects
<1>11. ASSUME NEW i \in 1 .. Len(w) PROVE \E j \in 1 .. Len(M) : Becomes(w[i], M[j], b)
    <2>1. CASE i \in 1 .. n
        BY <1>1, <1>2, <1>5, <1>8, <2>1
    <2>2. CASE i > n
        <3>1. i \notin 1 .. n
            BY <1>7, <2>2
        <3>2. i - n \in 1 .. Len(p) /\ w[i] = p[i - n]
            BY <1>8, <3>1
        <3> QED BY <1>1, <1>2, <1>4, <3>2
    <2> QED BY <1>8, <2>1, <2>2
<1>12. Plain(w)
    <2>1. NoSplice(w)
        BY <1>11 DEF NoSplice, Becomes, Kinds
    <2>2. ASSUME NEW i \in 1 .. Len(w), NEW j \in 1 .. Len(w), i < j, w[i].kind = w[j].kind,
                 w[i].id = w[j].id
          PROVE  FALSE
        <3>1. CASE i \in 1 .. n /\ j \in 1 .. n
            BY <1>5, <1>8, <2>2, <3>1 DEF Plain, n
        <3>2. CASE i \in 1 .. n /\ j > n
            <4>1. j - n \in 1 .. Len(p) /\ w[j] = p[j - n] /\ w[i] = e[i]
                BY <1>7, <1>8, <3>2
            <4> QED BY <1>9, <1>10, <2>2, <3>2, <4>1
        <3>3. CASE i > n
            <4>1. i \notin 1 .. n /\ j \notin 1 .. n
                BY <1>7, <2>2, <3>3
            <4>2. i - n \in 1 .. Len(p) /\ w[i] = p[i - n] /\ j - n \in 1 .. Len(p) /\ w[j] = p[j - n]
                BY <1>8, <4>1
            <4>3. i - n < j - n
                BY <1>7, <2>2
            <4> QED BY <1>4, <2>2, <4>2, <4>3 DEF Plain
        <3> QED BY <1>7, <1>8, <2>2, <3>1, <3>2, <3>3
    <2> QED BY <2>1, <2>2 DEF Plain
<1>13. ASSUME NEW k \in Kinds, NEW at \in Nat PROVE Slot(w, k, at) = Whole(M, k, at + b)
    <2>0. k # "splice" /\ Tags(S) /\ Tags(TagsOf(e)) /\ Tags(TagsOf(p)) /\ NoSplice(e) /\ NoSplice(p)
        BY <1>4, <1>5, <1>7 DEF Kinds, Stored, Plain
    <2>1. Slot(w, k, at) = IF About(p, k, at) THEN Slot(p, k, at) ELSE Slot(e, k, at)
        BY <1>7, <2>0, SlotConcat DEF w
    <2>2. Whole(M, k, at + b) = IF at + b = u.id /\ Affects(u, k) THEN Says(u, k)
                                ELSE Whole(s, k, at + b)
        <3> DEFINE a == at + b
        <3>1. a \in Nat
            OBVIOUS
        <3> HIDE DEF a
        <3>2. Whole(Append(s, u), k, a) = IF a = u.id /\ Affects(u, k) THEN Says(u, k)
                                          ELSE Whole(s, k, a)
            BY <1>6, <3>1, WholeAppend DEF M
        <3> QED BY <3>2 DEF M, a
    <2>3. CASE ~(at + b = u.id /\ Affects(u, k))
        <3>1. ~About(p, k, at)
            BY <1>10, <2>3 DEF About
        <3> QED BY <1>5, <2>1, <2>2, <2>3, <3>1
    <2>4. CASE at + b = u.id /\ Affects(u, k)
        <3>1. at = u.id - b
            BY <1>3, <2>4
        <3>2. Slot(p, k, at) = Says(u, k)
            BY <1>4, <3>1
        <3>3. ~About(e, k, at)
            BY <1>9, <2>4 DEF About, n
        <3>4. Slot(e, k, at) = {}
            BY <1>5, <2>0, <3>3, SlotAbout
        <3>5. ~About(p, k, at) => Slot(p, k, at) = {}
            BY <1>4, <2>0, SlotAbout
        <3> QED BY <2>1, <2>2, <2>4, <3>2, <3>4, <3>5
    <2> QED BY <2>3, <2>4
<1> QED BY <1>7, <1>11, <1>12, <1>13 DEF WrittenAs, w, p, M

LEMMA EmittedIs ==
    ASSUME NEW T, Written(T), NEW b \in Nat
    PROVE  \A s \in Seq(T) : Ready(s, b) => WrittenAs(Emitted(s, -b), s, b)
<1> DEFINE P == {s \in Seq(T) : Ready(s, b) => WrittenAs(Emitted(s, -b), s, b)}
<1>1. <<>> \in P
    <2> DEFINE e == <<>>
    <2>1. e \in Seq(T) /\ e \in Seq(TagsOf(e)) /\ Len(e) = 0 /\ TagsOf(e) = {}
        BY DEF TagsOf
    <2>2. Emitted(<<>>, -b) = e
        BY EmittedEmpty
    <2>3. \A k, at : Slot(e, k, at) = {} /\ Whole(e, k, at) = {}
        BY SlotEmpty DEF Whole
    <2>4. Stored({})
        BY DEF Stored, Tags
    <2> HIDE DEF e
    <2>5. Plain(e)
        BY <2>1 DEF Plain, NoSplice
    <2>6. WrittenAs(e, e, b)
        BY <2>1, <2>3, <2>4, <2>5 DEF WrittenAs
    <2> QED BY <2>1, <2>2, <2>6 DEF e
<1>2. ASSUME NEW s \in P, NEW u \in T PROVE Append(s, u) \in P
    <2>1. s \in Seq(T) /\ Append(s, u) \in Seq(T)
        BY AppendIs
    <2> SUFFICES ASSUME Ready(Append(s, u), b)
                 PROVE  WrittenAs(Emitted(Append(s, u), -b), Append(s, u), b)
        BY <2>1
    <2>2. Ready(s, b)
        BY <2>1, ReadyPrefix
    <2> DEFINE e == Emitted(s, -b)
               d == -b
    <2>3. WrittenAs(e, s, b)
        BY <2>2
    <2>4. Emitted(Append(s, u), d) = Emitted(s, d) \o EmittedTags(u, d)
        <3> HIDE DEF d
        <3> QED BY <2>1, EmittedAppend
    <2> HIDE DEF e
    <2>5. WrittenAs(e \o EmittedTags(u, -b), Append(s, u), b)
        BY <2>1, <2>3, WrittenNext
    <2> QED BY <2>4, <2>5 DEF e
<1>3. P \subseteq Seq(T)
    OBVIOUS
<1> HIDE DEF P
<1>4. \A s \in Seq(T) : s \in P
    BY <1>1, <1>2, <1>3, LogInduction
<1> QED BY <1>4 DEF P

-----------------------------------------------------------------------------
(* lfs_dir_compact.                                                            *)

LEMMA EmittedSuper ==
    ASSUME NEW T, Written(T), NEW b \in Nat
    PROVE  \A s \in Seq(T) : Ready(s, b) /\ SuperFirst(s) => SuperFirst(Emitted(s, -b))
<1> DEFINE P == {s \in Seq(T) : Ready(s, b) /\ SuperFirst(s) => SuperFirst(Emitted(s, -b))}
           d == -b
<1>1. <<>> \in P
    <2>1. Emitted(<<>>, d) = <<>>
        BY EmittedEmpty
    <2> QED BY <2>1 DEF SuperFirst
<1>2. ASSUME NEW s \in P, NEW u \in T PROVE Append(s, u) \in P
    <2>1. /\ s \in Seq(T) /\ Append(s, u) \in Seq(T) /\ Len(s) \in Nat
          /\ Len(Append(s, u)) = Len(s) + 1 /\ Append(s, u)[Len(s) + 1] = u
          /\ \A i \in 1 .. Len(s) : Append(s, u)[i] = s[i]
        BY AppendIs
    <2> DEFINE M == Append(s, u)
               e == Emitted(s, d)
               p == EmittedTags(u, d)
               w == e \o p
    <2> SUFFICES ASSUME Ready(M, b), SuperFirst(M) PROVE SuperFirst(Emitted(M, d))
        BY <2>1
    <2>2. Emitted(M, d) = w
        <3> HIDE DEF d
        <3> QED BY <2>1, EmittedAppend
    <2>3. Ready(s, b) /\ u.kind \in Kinds \union {"from"} /\ u.id # NoId /\ u.id >= b
        BY <2>1, ReadyPrefix
    <2>4. SuperFirst(s)
        BY <2>1 DEF SuperFirst
    <2>5. SuperFirst(e)
        BY <2>3, <2>4
    <2>6. WrittenAs(e, s, b)
        BY <2>1, <2>3, EmittedIs
    <2>7. /\ p \in Seq(TagsOf(p)) /\ Stored(TagsOf(p))
          /\ \A i \in 1 .. Len(p) : Becomes(p[i], u, b)
        BY <2>3, PartIs
    <2>8. u.sub = "super" => Len(s) = 0
        <3>1. Len(s) # 0 => Len(s) + 1 \in 2 .. Len(M)
            BY <2>1
        <3> HIDE DEF M
        <3> QED BY <2>1, <3>1 DEF SuperFirst, M
    <2>9. Len(s) = 0 => Len(e) = 0
        <3>1. SUFFICES ASSUME Len(s) = 0 PROVE Len(e) = 0
            OBVIOUS
        <3>2. s = <<>>
            BY <2>1, <3>1
        <3> QED BY <3>2, EmittedEmpty
    <2>10. u.sub = "super" => Len(p) = 1
        <3>1. u.sub = "super" => u.kind # "from"
            BY DEF Written, StoredTag, FromTag
        <3> QED BY <3>1 DEF EmittedTags
    <2> HIDE DEF M, e, p
    <2>11. /\ Len(e) \in Nat /\ Len(p) \in Nat /\ Len(w) = Len(e) + Len(p)
           /\ \A i \in 1 .. Len(e) + Len(p) : w[i] = IF i <= Len(e) THEN e[i] ELSE p[i - Len(e)]
        BY <2>6, <2>7, StoredConcat DEF WrittenAs
    <2> HIDE DEF w
    <2>12. ASSUME NEW i \in 2 .. Len(w), w[i].sub = "super" PROVE FALSE
        <3>1. CASE i <= Len(e)
            <4>1. i \in 2 .. Len(e) /\ w[i] = e[i]
                BY <2>11, <3>1
            <4> QED BY <2>5, <2>12, <4>1 DEF SuperFirst
        <3>2. CASE i > Len(e)
            <4>1. i - Len(e) \in 1 .. Len(p) /\ w[i] = p[i - Len(e)]
                BY <2>11, <3>2
            <4>2. u.sub = "super"
                BY <2>7, <2>12, <4>1 DEF Becomes
            <4>3. Len(e) = 0 /\ Len(p) = 1
                BY <2>8, <2>9, <2>10, <4>2
            <4>4. Len(w) = 1
                BY <2>11, <4>3
            <4> QED BY <4>4
        <3> QED BY <2>11, <3>1, <3>2
    <2> QED BY <2>2, <2>12 DEF SuperFirst
<1>3. P \subseteq Seq(T)
    OBVIOUS
<1> HIDE DEF P
<1>4. \A s \in Seq(T) : s \in P
    BY <1>1, <1>2, <1>3, LogInduction
<1> QED BY <1>4 DEF P

LEMMA NoIdNat == NoId \in Nat
    BY DEF NoId

\* An entry that takes over another's has nothing of its own.
Alone(all) ==
    /\ \A at \in Nat : \A k \in MovedKinds : Slot(all, "from", at) # {} => Slot(all, k, at) = {}
    /\ \A i \in 1 .. Len(all) : all[i].kind = "from" => all[Len(all)].val # Gone

LEMMA KeptReady ==
    ASSUME NEW T, Written(T), NEW all \in Seq(T), Alone(all), NEW s, NEW begin \in Nat,
           NEW end \in Nat, end <= NoId, KeepsOf(s, all, Kinds \union {"from"}, begin, end)
    PROVE  /\ s \in Seq(TagsOf(s)) /\ Written(TagsOf(s)) /\ Ready(s, begin)
           /\ SuperFirst(all) => SuperFirst(s)
<1> DEFINE K == Kinds \union {"from"}
<1>0. /\ s \in Seq(TagsOf(s)) /\ Tags(TagsOf(s)) /\ Plain(s) /\ Len(s) \in Nat /\ Len(all) \in Nat
      /\ \A j \in 1 .. Len(s) :
          /\ s[j].kind \in K /\ s[j].id \in begin .. end - 1
          /\ \E i \in 1 .. Len(all) : /\ Moved(s[j], all[i])
                                      /\ j > 1 => i > 1
                                      /\ s[j].val = Gone => i = Len(all)
      /\ \A k \in K : \A at \in begin .. end - 1 : Slot(s, k, at) = Slot(all, k, at)
    BY DEF KeepsOf
<1>1. ASSUME NEW j \in 1 .. Len(s) PROVE StoredTag(s[j]) \/ FromTag(s[j])
    <2>1. PICK i \in 1 .. Len(all) : Moved(s[j], all[i])
        BY <1>0
    <2>2. StoredTag(all[i]) \/ FromTag(all[i])
        BY DEF Written
    <2>3. s[j].kind \in K /\ s[j].kind # "tail"
        BY <1>0 DEF Kinds
    <2>4. CASE FromTag(all[i])
        BY <2>1, <2>4 DEF Moved, FromTag
    <2>5. CASE StoredTag(all[i])
        BY <2>1, <2>3, <2>5 DEF Moved, StoredTag
    <2> QED BY <2>2, <2>4, <2>5
<1>2. Written(TagsOf(s))
    BY <1>0, <1>1 DEF Written, TagsOf
<1>3. ASSUME NEW i \in 1 .. Len(s), NEW j \in 1 .. Len(s), s[i].kind = "from",
             s[j].kind \in MovedKinds, s[i].id = s[j].id
      PROVE  FALSE
    <2> DEFINE at == s[i].id
               k == s[j].kind
    <2>1. k \in K /\ at \in begin .. end - 1 /\ at \in Nat /\ "from" \in K
        BY <1>0
    <2>2. FromTag(s[i])
        BY <1>1, <1>3 DEF StoredTag
    <2>3. /\ Slot(s, s[i].kind, s[i].id) # {}
          /\ s[j].val # Gone => Slot(s, s[j].kind, s[j].id) # {}
        <3>1. \A x \in 1 .. Len(s) : Slot(s, s[x].kind, s[x].id) =
                  IF s[x].val = Gone THEN {} ELSE {[sub |-> s[x].sub, val |-> s[x].val]}
            BY <1>0, PlainSlot
        <3>2. s[i].val # Gone
            BY <2>2 DEF FromTag
        <3> QED BY <3>1, <3>2
    <2>4. s[j].val = Gone => all[Len(all)].val = Gone
        BY <1>0 DEF Moved
    <2>5. PICK x \in 1 .. Len(all) : Moved(s[i], all[x])
        BY <1>0
    <2>6. all[Len(all)].val # Gone
        BY <1>3, <2>5 DEF Alone, Moved
    <2>7. Slot(all, "from", at) # {} /\ Slot(all, k, at) # {}
        BY <1>0, <1>3, <2>1, <2>3, <2>4, <2>6
    <2> QED BY <1>3, <2>1, <2>7 DEF Alone
<1>4. Ready(s, begin)
    <2>1. ASSUME NEW j \in 1 .. Len(s) PROVE /\ s[j].kind \in K /\ s[j].id # NoId /\ s[j].id >= begin
        BY <1>0 DEF NoId
    <2> QED BY <1>0, <1>3, <2>1 DEF Ready
<1>5. ASSUME SuperFirst(all) PROVE SuperFirst(s)
    <2>1. SUFFICES ASSUME NEW j \in 2 .. Len(s) PROVE s[j].sub # "super"
        BY DEF SuperFirst
    <2>2. j \in 1 .. Len(s) /\ j > 1
        BY <1>0
    <2>3. PICK i \in 1 .. Len(all) : Moved(s[j], all[i]) /\ i > 1
        BY <1>0, <2>2
    <2>4. i \in 2 .. Len(all)
        BY <1>0, <2>3
    <2> QED BY <1>5, <2>3, <2>4 DEF SuperFirst, Moved
<1> QED BY <1>0, <1>2, <1>4, <1>5

\* C holds what the log `all` does of the entries from `begin` to `end`.
CompactedAs(C, all, begin, end) ==
    /\ C \in Seq(TagsOf(C)) /\ Stored(TagsOf(C)) /\ NoSplice(C)
    /\ SuperFirst(all) => SuperFirst(C)
    /\ \A k \in Kinds : \A at \in Nat :
          Slot(C, k, at) = IF at < end - begin THEN Whole(all, k, at + begin) ELSE {}

LEMMA KeptIs ==
    ASSUME NEW T, Written(T), NEW all \in Seq(T), Alone(all), NEW n, NEW begin \in Nat,
           NEW end \in Nat, end <= NoId
    PROVE  LET e == Emitted(Unique(all, n, Kinds \union {"from"}, begin, end), -begin)
           IN /\ CompactedAs(e, all, begin, end) /\ Plain(e)
              /\ \A i \in 1 .. Len(e) : e[i].kind \in Kinds /\ e[i].id < NoId
<1> DEFINE K == Kinds \union {"from"}
           s == Unique(all, n, K, begin, end)
           e == Emitted(s, -begin)
<1>1. KeepsOf(s, all, K, begin, end)
    <2>1. "splice" \notin K /\ Tags(T)
        BY DEF Kinds, Written
    <2> HIDE DEF K
    <2> QED BY <2>1, UniqueKeeps
<1> HIDE DEF s
<1>2. /\ s \in Seq(TagsOf(s)) /\ Written(TagsOf(s)) /\ Ready(s, begin)
      /\ SuperFirst(all) => SuperFirst(s)
    BY <1>1, KeptReady
<1>3. WrittenAs(e, s, begin) /\ (SuperFirst(s) => SuperFirst(e))
    BY <1>2, EmittedIs, EmittedSuper
<1> HIDE DEF e
<1>4. ASSUME NEW k \in Kinds, NEW at \in Nat
      PROVE  Slot(e, k, at) = IF at < end - begin THEN Whole(all, k, at + begin) ELSE {}
    <2>1. Slot(e, k, at) = Whole(s, k, at + begin)
        BY <1>3 DEF WrittenAs
    <2> DEFINE a == at + begin
    <2>2. a \in Nat /\ k \in K /\ "from" \in K /\ k # "splice" /\ "from" # "splice"
          /\ (at < end - begin <=> a \in begin .. end - 1)
        BY DEF Kinds
    <2> HIDE DEF a
    <2>3. CASE a \in begin .. end - 1
        <3>1. Slot(s, k, a) = Slot(all, k, a) /\ Slot(s, "from", a) = Slot(all, "from", a)
            BY <1>1, <2>2, <2>3 DEF KeepsOf
        <3> QED BY <2>1, <2>2, <2>3, <3>1 DEF Whole, a
    <2>4. CASE a \notin begin .. end - 1
        <3>1. ~About(s, k, a) /\ ~About(s, "from", a)
            BY <1>1, <2>4 DEF KeepsOf, About
        <3>2. Tags(TagsOf(s)) /\ NoSplice(s)
            BY <1>1 DEF KeepsOf, Plain
        <3>3. Slot(s, k, a) = {} /\ Slot(s, "from", a) = {}
            BY <1>2, <2>2, <3>1, <3>2, SlotAbout
        <3> QED BY <2>1, <2>2, <2>4, <3>3 DEF Whole, a
    <2> QED BY <2>3, <2>4
<1>5. CompactedAs(e, all, begin, end) /\ Plain(e)
    BY <1>2, <1>3, <1>4 DEF CompactedAs, WrittenAs, Plain
<1>6. ASSUME NEW i \in 1 .. Len(e) PROVE e[i].kind \in Kinds /\ e[i].id < NoId
    <2>1. e[i].id \in Nat
        BY <1>3 DEF WrittenAs, Stored, Tags, TagsOf
    <2>2. PICK j \in 1 .. Len(s) : Becomes(e[i], s[j], begin)
        BY <1>3 DEF WrittenAs
    <2>3. s[j].id \in begin .. end - 1
        BY <1>1 DEF KeepsOf
    <2> QED BY <2>1, <2>2, <2>3, NoIdNat DEF Becomes
<1> QED BY <1>5, <1>6 DEF e, s

LEMMA TailLast ==
    ASSUME NEW C, NEW all, NEW begin, NEW end, CompactedAs(C, all, begin, end), NEW tail,
           NEW split \in BOOLEAN
    PROVE  CompactedAs(Append(C, LinkTag(split, tail)), all, begin, end)
<1> DEFINE t == LinkTag(split, tail)
           D == Append(C, t)
           S == TagsOf(C) \union {t}
<1>1. t.kind = "tail" /\ t.id = NoId /\ t.sub # "super" /\ t = Tag(t.kind, t.sub, t.id, t.val)
    BY DEF LinkTag, Tag
<1> HIDE DEF t
<1>2. StoredTag(t) /\ t.kind # "splice" /\ t.kind \notin Kinds
    BY <1>1 DEF StoredTag, Kinds
<1>3. Stored(S)
    <2>1. Tags({t})
        BY <1>1, <1>2 DEF Tags, CommitKinds, StoreKinds, NoId
    <2> QED BY <1>2, <2>1 DEF Stored, Tags, CompactedAs
<1>4. C \in Seq(S) /\ t \in S /\ Tags(S)
    BY <1>3, SeqMonotonic DEF CompactedAs, Stored
<1> HIDE DEF S
<1>5. /\ D \in Seq(S) /\ Len(C) \in Nat /\ Len(D) = Len(C) + 1 /\ D[Len(C) + 1] = t
      /\ \A i \in 1 .. Len(C) : D[i] = C[i]
    BY <1>4, AppendIs
<1>6. \A k \in Kinds : \A at \in Nat : Slot(D, k, at) = Slot(C, k, at)
    <2> SUFFICES ASSUME NEW k \in Kinds, NEW at \in Nat PROVE Slot(D, k, at) = Slot(C, k, at)
        OBVIOUS
    <2>1. k # "splice" /\ ~(t.kind = k /\ t.id = at)
        BY <1>2 DEF Kinds
    <2> QED BY <1>2, <1>4, <2>1, SlotOther
<1> HIDE DEF D
<1>7. \A i \in 1 .. Len(D) : i \in 1 .. Len(C) \/ i = Len(C) + 1
    BY <1>5
<1>8. NoSplice(D)
    BY <1>2, <1>5, <1>7 DEF NoSplice, CompactedAs
<1>9. SuperFirst(C) => SuperFirst(D)
    <2>1. \A i \in 2 .. Len(D) : (i \in 2 .. Len(C) /\ i \in 1 .. Len(C)) \/ i = Len(C) + 1
        BY <1>5
    <2> QED BY <1>1, <1>5, <2>1 DEF SuperFirst
<1>10. D \in Seq(TagsOf(D)) /\ Stored(TagsOf(D))
    <2>1. D \in Seq(TagsOf(D)) /\ TagsOf(D) \subseteq S
        BY <1>5, TagsOfSeq
    <2> QED BY <1>3, <2>1 DEF Stored, Tags
<1>11. CompactedAs(D, all, begin, end)
    BY <1>6, <1>8, <1>9, <1>10 DEF CompactedAs
<1> QED BY <1>11 DEF D, t

\* lfs_dir_compact, for any part of the entries of any block and commit: what is written
\* has of each entry exactly what the block and the commit say of it, under its new id,
\* including what a move takes over from another pair, and nothing else.
THEOREM CompactionKeeps ==
    ASSUME NEW T, Written(T), NEW c, store[c.pair] \o Changes(c) \in Seq(T),
           Alone(store[c.pair] \o Changes(c)), NEW begin \in Nat, NEW end \in Nat, end <= NoId,
           NEW tail, NEW split \in BOOLEAN
    PROVE  CompactedAs(Compacted(c, begin, end, tail, split),
                       store[c.pair] \o Changes(c), begin, end)
<1> DEFINE all == store[c.pair] \o Changes(c)
           K == {"name", "struct", "attr", "from"}
           e == Emitted(Unique(all, Len(store[c.pair]), K, begin, end), -begin)
           m == IF tail = Nil THEN <<>> ELSE <<LinkTag(split, tail)>>
<1>1. Compacted(c, begin, end, tail, split) = e \o m
    BY DEF Compacted
<1>2. K = Kinds \union {"from"}
    BY DEF Kinds
<1> HIDE DEF K
<1>3. CompactedAs(e, all, begin, end)
    <2> HIDE DEF all
    <2> QED BY <1>2, KeptIs DEF all
<1> HIDE DEF e, all
<1>4. e \in Seq(TagsOf(e))
    BY <1>3 DEF CompactedAs
<1>5. CASE tail = Nil
    <2>1. e \o m = e
        BY <1>4, <1>5
    <2> QED BY <1>1, <1>3, <2>1 DEF all
<1>6. CASE tail # Nil
    <2> DEFINE t == LinkTag(split, tail)
    <2>1. e \o m = Append(e, t)
        <3> HIDE DEF t
        <3>1. m = <<t>>
            BY <1>6 DEF t
        <3> QED BY <1>4, <3>1
    <2>2. CompactedAs(Append(e, t), all, begin, end)
        BY <1>3, TailLast
    <2> QED BY <1>1, <2>1, <2>2 DEF all
<1> QED BY <1>5, <1>6

-----------------------------------------------------------------------------
(* What lfs_dir_fetchmatch makes of a log.                                    *)

Cnt(l)          == ScanOf(l, ByChild(Nil)).count
TailOf(l)       == ScanOf(l, ByChild(Nil)).tail
SplitOf(l)      == ScanOf(l, ByChild(Nil)).split
NameBest(l, n)  == ScanOf(l, ByName(n)).best
ChildBest(l, c) == ScanOf(l, ByChild(c)).best

LEMMA ContentAppend ==
    ASSUME NEW T, NEW l \in Seq(T), NEW u \in T
    PROVE  /\ Cnt(Append(l, u)) = Counted(Cnt(l), u)
           /\ TailOf(Append(l, u)) = IF u.kind = "tail" THEN u.val ELSE TailOf(l)
           /\ SplitOf(Append(l, u)) = IF u.kind = "tail" THEN u.sub = "hard" ELSE SplitOf(l)
           /\ \A n : NameBest(Append(l, u), n) = Best(NameBest(l, n), u, ByName(n))
           /\ \A c : ChildBest(Append(l, u), c) = Best(ChildBest(l, c), u, ByChild(c))
<1>1. \A want : ScanOf(Append(l, u), want) = Scanned(ScanOf(l, want), u, want)
    BY ScanAppend
<1>2. \A s, want : /\ Scanned(s, u, want).count = Counted(s.count, u)
                   /\ Scanned(s, u, want).tail = IF u.kind = "tail" THEN u.val ELSE s.tail
                   /\ Scanned(s, u, want).split = IF u.kind = "tail" THEN u.sub = "hard" ELSE s.split
                   /\ Scanned(s, u, want).best = Best(s.best, u, want)
    BY DEF Scanned
<1> QED BY <1>1, <1>2 DEF Cnt, TailOf, SplitOf, NameBest, ChildBest

LEMMA ContentEmpty ==
    /\ Cnt(<<>>) = 0 /\ TailOf(<<>>) = Nil /\ SplitOf(<<>>) = FALSE
    /\ \A n : NameBest(<<>>, n) = NoTag
    /\ \A c : ChildBest(<<>>, c) = NoTag
<1>1. \A want : ScanOf(<<>>, want) = ScanStart
    BY ScanEmpty
<1>2. ScanStart.count = 0 /\ ScanStart.tail = Nil /\ ScanStart.split = FALSE
      /\ ScanStart.best = NoTag
    BY DEF ScanStart
<1> QED BY <1>1, <1>2 DEF Cnt, TailOf, SplitOf, NameBest, ChildBest

\* Whatever is looked for.
LEMMA ContentSame ==
    ASSUME NEW T, NEW want
    PROVE  \A l \in Seq(T) : /\ ScanOf(l, want).count = Cnt(l)
                             /\ ScanOf(l, want).tail = TailOf(l)
                             /\ ScanOf(l, want).split = SplitOf(l)
<1> DEFINE Same(l) == /\ ScanOf(l, want).count = Cnt(l)
                      /\ ScanOf(l, want).tail = TailOf(l)
                      /\ ScanOf(l, want).split = SplitOf(l)
           P == {l \in Seq(T) : Same(l)}
<1>1. <<>> \in P
    <2>1. ScanOf(<<>>, want) = ScanStart
        BY ScanEmpty
    <2>2. ScanStart.count = 0 /\ ScanStart.tail = Nil /\ ScanStart.split = FALSE
        BY DEF ScanStart
    <2>3. Same(<<>>)
        BY <2>1, <2>2, ContentEmpty
    <2> HIDE DEF Same
    <2> QED BY <2>3
<1>2. ASSUME NEW l \in P, NEW u \in T PROVE Append(l, u) \in P
    <2>1. l \in Seq(T) /\ Append(l, u) \in Seq(T) /\ Same(l)
        BY AppendIs
    <2>2. ScanOf(Append(l, u), want) = Scanned(ScanOf(l, want), u, want)
        BY <2>1, ScanAppend
    <2>3. /\ Cnt(Append(l, u)) = Counted(Cnt(l), u)
          /\ TailOf(Append(l, u)) = IF u.kind = "tail" THEN u.val ELSE TailOf(l)
          /\ SplitOf(Append(l, u)) = IF u.kind = "tail" THEN u.sub = "hard" ELSE SplitOf(l)
        BY <2>1, ContentAppend
    <2>4. Same(Append(l, u))
        BY <2>1, <2>2, <2>3 DEF Scanned
    <2> HIDE DEF Same
    <2> QED BY <2>1, <2>4
<1>3. P \subseteq Seq(T)
    OBVIOUS
<1> HIDE DEF P
<1>4. \A l \in Seq(T) : l \in P
    BY <1>1, <1>2, <1>3, LogInduction
<1> QED BY <1>4 DEF P

-----------------------------------------------------------------------------
(* The best match so far, against the names N and the data S that the log has *)
(* for each place.                                                            *)

Less(x, y) == y.sub # "super" /\ (x.sub = "super" \/ x.val < y.val)

Ordered(N, cnt) ==
    /\ cnt \in 0 .. NoId
    /\ \A at \in Nat : \A x \in N[at] : at < cnt /\ (x.sub = "super" \/ x.val \in Names)
    /\ \A at \in Nat : \A x, y \in N[at] : x = y
    /\ \A i, j \in Nat : \A x \in N[i], y \in N[j] : i < j => Less(x, y)

IsBest(b) == b = [gone |-> b.gone, sub |-> b.sub, id |-> b.id] /\ b.gone \in BOOLEAN /\ b.id \in Nat

\* b is the name n, or the place where it would go.
NameFits(b, N, cnt, n) ==
    /\ IsBest(b)
    /\ ~b.gone => b.id < cnt /\ b.sub # "super" /\ N[b.id] = {[sub |-> b.sub, val |-> n]}
    /\ b.gone => /\ b = NoTag \/ b.id <= cnt
                 /\ b.id < cnt => N[b.id] # {}
                 /\ \A at \in Nat : \A x \in N[at] :
                       IF at < b.id THEN x.sub = "super" \/ x.val < n
                       ELSE x.sub # "super" /\ x.val > n

\* ... of a log without creates.
NameFresh(b, cnt) == b.gone => b = NoTag \/ b.id < cnt

\* b is the directory c, or there is none.
ChildFits(b, S, c) ==
    /\ IsBest(b)
    /\ ~b.gone => b.sub = "dir" /\ S[b.id] = {[sub |-> "dir", val |-> c]}
    /\ b.gone => \A at \in Nat : [sub |-> "dir", val |-> c] \notin S[at]

OneCreated(M, N, id) ==
    \A at \in Nat : M[at] = IF at < id THEN N[at] ELSE IF at = id THEN {} ELSE N[at - 1]
OneDeleted(M, N, id) == \A at \in Nat : M[at] = IF at < id THEN N[at] ELSE N[at + 1]
OneSet(M, N, id, X)  == \A at \in Nat : M[at] = IF at = id THEN X ELSE N[at]

LEMMA BestParts ==
    ASSUME NEW gone, NEW sub, NEW id
    PROVE  LET b == [gone |-> gone, sub |-> sub, id |-> id]
           IN b.gone = gone /\ b.sub = sub /\ b.id = id
    OBVIOUS

LEMMA NoTagIs == IsBest(NoTag) /\ NoTag.gone /\ NoTag.id = NoId /\ NoId \in Nat
    BY DEF NoTag, IsBest, NoId

LEMMA CreateParts ==
    ASSUME NEW id
    PROVE  /\ Create(id).kind = "splice" /\ Create(id).id = id /\ Splice(Create(id)) = 1
           /\ \A x : Create(id) # Delete(x)
    BY DEF Create, Delete, Tag, Splice

LEMMA DeleteParts ==
    ASSUME NEW id
    PROVE  /\ Delete(id).kind = "splice" /\ Delete(id).id = id /\ Splice(Delete(id)) = -1
           /\ \A x : Delete(id) = Delete(x) => x = id
    BY DEF Delete, Tag, Splice

LEMMA ShiftedCreate ==
    ASSUME NEW b, IsBest(b), NEW id \in Nat
    PROVE  LET s == Shifted(b, Create(id))
           IN /\ IsBest(s) /\ s.gone = b.gone /\ s.sub = b.sub
              /\ s.id = IF b # NoTag /\ id <= b.id THEN b.id + 1 ELSE b.id
              /\ b = NoTag => s = NoTag
<1> DEFINE s == Shifted(b, Create(id))
<1>1. s = IF b # NoTag /\ id <= b.id THEN [b EXCEPT !.id = b.id + 1] ELSE b
    BY CreateParts DEF Shifted
<1> HIDE DEF s
<1>2. /\ b = [gone |-> b.gone, sub |-> b.sub, id |-> b.id]
      /\ b.gone \in BOOLEAN /\ b.id \in Nat
    BY DEF IsBest
<1>3. [b EXCEPT !.id = b.id + 1] = [gone |-> b.gone, sub |-> b.sub, id |-> b.id + 1]
    BY <1>2
<1>4. CASE b # NoTag /\ id <= b.id
    BY <1>1, <1>2, <1>3, <1>4 DEF IsBest, s
<1>5. CASE ~(b # NoTag /\ id <= b.id)
    BY <1>1, <1>5 DEF s
<1> QED BY <1>4, <1>5

LEMMA ShiftedDelete ==
    ASSUME NEW b, IsBest(b), NEW id \in Nat
    PROVE  LET s == Shifted(b, Delete(id))
           IN /\ IsBest(s) /\ (s.gone <=> b.gone \/ b.id = id) /\ s.sub = b.sub
              /\ s.id = IF b # NoTag /\ id < b.id THEN b.id - 1 ELSE b.id
              /\ b = NoTag => s = NoTag
<1> DEFINE s == Shifted(b, Delete(id))
<1>0. Delete(id) = Delete(b.id) <=> b.id = id
    BY DeleteParts
<1>1. s = IF b.id = id THEN [b EXCEPT !.gone = TRUE]
          ELSE IF b # NoTag /\ id <= b.id THEN [b EXCEPT !.id = b.id + (-1)] ELSE b
    BY <1>0, DeleteParts DEF Shifted
<1> HIDE DEF s
<1>2. /\ b = [gone |-> b.gone, sub |-> b.sub, id |-> b.id]
      /\ b.gone \in BOOLEAN /\ b.id \in Nat
    BY DEF IsBest
<1>3. CASE b.id = id
    <2>1. s = [gone |-> TRUE, sub |-> b.sub, id |-> b.id]
        BY <1>1, <1>2, <1>3
    <2>2. b = NoTag => s = NoTag
        BY <2>1 DEF NoTag
    <2> QED BY <1>2, <1>3, <2>1, <2>2 DEF IsBest, s
<1>4. CASE b.id # id /\ b # NoTag /\ id <= b.id
    <2>1. s = [gone |-> b.gone, sub |-> b.sub, id |-> b.id - 1]
        BY <1>1, <1>2, <1>4
    <2>2. b.id - 1 \in Nat /\ id < b.id
        BY <1>2, <1>4
    <2> QED BY <1>2, <1>4, <2>1, <2>2 DEF IsBest, s
<1>5. CASE b.id # id /\ ~(b # NoTag /\ id <= b.id)
    BY <1>1, <1>2, <1>5 DEF s
<1> QED BY <1>3, <1>4, <1>5

-----------------------------------------------------------------------------
(* ... after one more tag.                                                    *)

LEMMA FitsCreate ==
    ASSUME NEW b, NEW N, NEW M, NEW cnt, NEW n \in Nat, NEW id \in Nat,
           Ordered(N, cnt), NameFits(b, N, cnt, n), OneCreated(M, N, id), id <= cnt, cnt < NoId
    PROVE  NameFits(Shifted(b, Create(id)), M, cnt + 1, n)
<1> DEFINE s == Shifted(b, Create(id))
<1>1. /\ IsBest(s) /\ s.gone = b.gone /\ s.sub = b.sub
      /\ s.id = IF b # NoTag /\ id <= b.id THEN b.id + 1 ELSE b.id
      /\ b = NoTag => s = NoTag
    BY ShiftedCreate DEF NameFits
<1> HIDE DEF s
<1>2. b.id \in Nat /\ s.id \in Nat /\ b.gone \in BOOLEAN /\ cnt \in Nat
    BY <1>1 DEF NameFits, IsBest, Ordered
<1>3. \A at \in Nat : M[at] = IF at < id THEN N[at] ELSE IF at = id THEN {} ELSE N[at - 1]
    BY DEF OneCreated
<1>4. CASE ~b.gone
    <2>1. b.id < cnt /\ b.sub # "super" /\ N[b.id] = {[sub |-> b.sub, val |-> n]} /\ b # NoTag
        BY <1>4, NoTagIs DEF NameFits
    <2>2. M[s.id] = N[b.id]
        BY <1>1, <1>2, <1>3, <2>1
    <2>3. s.id < cnt + 1
        BY <1>1, <1>2, <2>1
    <2> QED BY <1>1, <1>4, <2>1, <2>2, <2>3 DEF NameFits, s
<1>5. CASE b.gone
    <2>1. /\ b = NoTag \/ b.id <= cnt
          /\ b.id < cnt => N[b.id] # {}
          /\ \A at \in Nat : \A x \in N[at] :
                IF at < b.id THEN x.sub = "super" \/ x.val < n ELSE x.sub # "super" /\ x.val > n
        BY <1>5 DEF NameFits
    <2>2. s = NoTag \/ s.id <= cnt + 1
        BY <1>1, <1>2, <2>1
    <2>3. ASSUME s.id < cnt + 1 PROVE M[s.id] # {}
        <3>1. CASE b = NoTag
            BY <1>1, <1>2, <2>3, <3>1, NoTagIs
        <3>2. CASE b # NoTag
            <4>1. M[s.id] = N[b.id]
                BY <1>1, <1>2, <1>3, <3>2
            <4>2. b.id < cnt
                BY <1>1, <1>2, <2>3, <3>2
            <4> QED BY <2>1, <4>1, <4>2
        <3> QED BY <3>1, <3>2
    <2>4. ASSUME NEW at \in Nat, NEW x \in M[at]
          PROVE  IF at < s.id THEN x.sub = "super" \/ x.val < n ELSE x.sub # "super" /\ x.val > n
        <3> DEFINE was == IF at < id THEN at ELSE at - 1
        <3>1. at # id
            BY <1>3
        <3>2. x \in N[was] /\ was \in Nat
            BY <1>2, <1>3, <3>1
        <3>3. was < cnt
            BY <3>2 DEF Ordered
        <3>4. at < s.id <=> was < b.id
            BY <1>1, <1>2, <3>1, <3>3, NoTagIs
        <3> HIDE DEF was
        <3> QED BY <2>1, <3>2, <3>4
    <2> QED BY <1>1, <1>5, <2>2, <2>3, <2>4 DEF NameFits, s
<1> QED BY <1>2, <1>4, <1>5

LEMMA FitsDelete ==
    ASSUME NEW b, NEW N, NEW M, NEW cnt, NEW n \in Nat, NEW id \in Nat,
           Ordered(N, cnt), NameFits(b, N, cnt, n), OneDeleted(M, N, id), id < cnt,
           \A at \in Nat : at < cnt => N[at] # {}
    PROVE  NameFits(Shifted(b, Delete(id)), M, cnt - 1, n)
<1> DEFINE s == Shifted(b, Delete(id))
<1>1. /\ IsBest(s) /\ (s.gone <=> b.gone \/ b.id = id) /\ s.sub = b.sub
      /\ s.id = IF b # NoTag /\ id < b.id THEN b.id - 1 ELSE b.id
      /\ b = NoTag => s = NoTag
    BY ShiftedDelete DEF NameFits
<1> HIDE DEF s
<1>2. b.id \in Nat /\ s.id \in Nat /\ b.gone \in BOOLEAN /\ cnt \in Nat /\ cnt <= NoId
    BY <1>1 DEF NameFits, IsBest, Ordered
<1>3. \A at \in Nat : M[at] = IF at < id THEN N[at] ELSE N[at + 1]
    BY DEF OneDeleted
<1>4. CASE ~s.gone
    <2>1. b.id < cnt /\ b.sub # "super" /\ N[b.id] = {[sub |-> b.sub, val |-> n]} /\ b # NoTag
          /\ b.id # id
        BY <1>1, <1>2, <1>4, NoTagIs DEF NameFits
    <2>2. M[s.id] = N[b.id]
        BY <1>1, <1>2, <1>3, <2>1
    <2>3. s.id < cnt - 1
        BY <1>1, <1>2, <2>1
    <2> QED BY <1>1, <1>4, <2>1, <2>2, <2>3 DEF NameFits, s

<1>5. CASE s.gone
    <2>1. s = NoTag \/ s.id <= cnt - 1
        <3>1. CASE b.gone
            BY <1>1, <1>2, <3>1 DEF NameFits
        <3>2. CASE ~b.gone
            BY <1>1, <1>2, <1>5, <3>2 DEF NameFits
        <3> QED BY <1>2, <3>1, <3>2
    <2>2. ASSUME s.id < cnt - 1 PROVE M[s.id] # {}
        <3>1. M[s.id] = N[s.id] \/ M[s.id] = N[s.id + 1]
            BY <1>2, <1>3
        <3> QED BY <1>2, <2>2, <3>1
    <2>3. ASSUME NEW at \in Nat, NEW x \in M[at]
          PROVE  IF at < s.id THEN x.sub = "super" \/ x.val < n ELSE x.sub # "super" /\ x.val > n
        <3> DEFINE was == IF at < id THEN at ELSE at + 1
        <3>1. x \in N[was] /\ was \in Nat /\ was # id
            BY <1>2, <1>3
        <3>2. was < cnt
            BY <3>1 DEF Ordered
        <3>3. at < s.id <=> was < b.id
            BY <1>1, <1>2, <3>1, <3>2, NoTagIs
        <3> HIDE DEF was
        <3>4. CASE b.gone
            BY <3>1, <3>3, <3>4 DEF NameFits
        <3>5. CASE ~b.gone
            <4> DEFINE y == [sub |-> b.sub, val |-> n]
            <4>1. b.id = id /\ y \in N[b.id] /\ y.sub # "super" /\ y.val = n
                BY <1>1, <1>5, <3>5 DEF NameFits
            <4> HIDE DEF y
            <4>2. was < b.id => Less(x, y)
                BY <1>2, <3>1, <4>1 DEF Ordered
            <4>3. b.id < was => Less(y, x)
                BY <1>2, <3>1, <4>1 DEF Ordered
            <4>4. x.sub = "super" \/ x.val \in Nat
                BY <3>1, NamesAssumption DEF Ordered
            <4>5. was < b.id \/ b.id < was
                BY <1>2, <3>1, <4>1
            <4>6. CASE was < b.id
                BY <3>3, <4>1, <4>2, <4>6 DEF Less
            <4>7. CASE b.id < was
                <5>1. ~(at < s.id)
                    BY <1>2, <3>1, <3>3, <4>7
                <5> QED BY <4>1, <4>3, <4>4, <4>7, <5>1 DEF Less
            <4> QED BY <4>5, <4>6, <4>7
        <3> QED BY <1>2, <3>4, <3>5
    <2> QED BY <1>1, <1>5, <2>1, <2>2, <2>3 DEF NameFits, s
<1> QED BY <1>1, <1>4, <1>5 DEF IsBest

LEMMA FitsName ==
    ASSUME NEW b, NEW N, NEW M, NEW cnt, NEW n \in Nat, NEW id \in Nat, id < NoId, NEW sub,
           sub # "super", NEW m \in Names, OneSet(M, N, id, {[sub |-> sub, val |-> m]}),
           NameFits(b, N, cnt, n), N[id] = {}, cnt \in Nat, cnt <= NoId,
           id < cnt \/ NameFresh(b, cnt), Ordered(M, IF id >= cnt THEN id + 1 ELSE cnt)
    PROVE  LET t == NameTag(sub, id, m)
           IN /\ NameFits(Best(b, t, ByName(n)), M, IF id >= cnt THEN id + 1 ELSE cnt, n)
              /\ NameFresh(b, cnt) => NameFresh(Best(b, t, ByName(n)),
                                                IF id >= cnt THEN id + 1 ELSE cnt)
<1> DEFINE t == NameTag(sub, id, m)
           cnt2 == IF id >= cnt THEN id + 1 ELSE cnt
           it == [gone |-> FALSE, sub |-> sub, id |-> id]
           best == Best(b, t, ByName(n))
           y == [sub |-> sub, val |-> m]
<1>0. cnt2 \in Nat /\ cnt <= cnt2 /\ id < cnt2
    OBVIOUS
<1>1. t.kind = "name" /\ t.sub = sub /\ t.id = id /\ t.val = m
    BY DEF NameTag, Tag
<1>2. ByName(n).kind = "name" /\ ByName(n).val = n
    BY DEF ByName
<1>3. best = IF m = n THEN it ELSE IF b.sub = sub /\ b.id = id THEN NoTag
             ELSE IF m > n /\ id <= b.id THEN [it EXCEPT !.gone = TRUE] ELSE b
    BY <1>1, <1>2 DEF Best, IsCandidate
<1>4. b.id \in Nat /\ b.gone \in BOOLEAN /\ IsBest(b) /\ m \in Nat
    BY NamesAssumption DEF NameFits, IsBest
<1>5. b.id # id
    <2>1. CASE ~b.gone
        BY <2>1 DEF NameFits
    <2>2. CASE b.gone
        <3>1. SUFFICES ASSUME b.id = id PROVE FALSE
            OBVIOUS
        <3>2. b # NoTag
            BY <3>1, NoTagIs
        <3>3. b.id < cnt
            BY <2>2, <3>1, <3>2 DEF NameFresh
        <3> QED BY <2>2, <3>1, <3>3 DEF NameFits
    <2> QED BY <1>4, <2>1, <2>2
<1>6. M[id] = {y} /\ y.sub = sub /\ y.val = m /\ \A at \in Nat : at # id => M[at] = N[at]
    BY DEF OneSet
<1>7. /\ \A at \in Nat : \A x \in M[at] : x.sub = "super" \/ x.val \in Nat
      /\ \A i, j \in Nat : \A x \in M[i], z \in M[j] : i < j => Less(x, z)
    BY NamesAssumption DEF Ordered
<1> HIDE DEF y, it, best, cnt2, t
<1>8. CASE m = n
    <2>1. best = [gone |-> FALSE, sub |-> sub, id |-> id]
        BY <1>3, <1>8 DEF it
    <2>2. ~best.gone /\ best.sub = sub /\ best.id = id /\ IsBest(best)
        BY <2>1 DEF IsBest
    <2>3. M[id] = {[sub |-> best.sub, val |-> n]}
        BY <1>6, <1>8, <2>2 DEF y
    <2>4. NameFits(best, M, cnt2, n)
        BY <1>0, <2>2, <2>3 DEF NameFits
    <2> QED BY <2>2, <2>4 DEF NameFresh, best, cnt2, t
<1>9. CASE m # n /\ m > n /\ id <= b.id
    <2>1. best = [gone |-> TRUE, sub |-> sub, id |-> id]
        BY <1>3, <1>5, <1>9 DEF it
    <2>2. best.gone /\ best.id = id /\ IsBest(best)
        BY <2>1 DEF IsBest
    <2>3. ASSUME ~b.gone PROVE FALSE
        <3> DEFINE z == [sub |-> b.sub, val |-> n]
        <3>1. z \in M[b.id] /\ z.val = n
            BY <1>4, <1>5, <1>6, <2>3 DEF NameFits
        <3> HIDE DEF z
        <3>2. Less(y, z)
            BY <1>4, <1>5, <1>6, <1>7, <1>9, <3>1
        <3> QED BY <1>4, <1>6, <1>9, <3>1, <3>2 DEF Less
    <2>4. ASSUME NEW at \in Nat, NEW x \in M[at]
          PROVE  IF at < id THEN x.sub = "super" \/ x.val < n ELSE x.sub # "super" /\ x.val > n
        <3>1. CASE at < id
            <4>1. x \in N[at] /\ at < b.id
                BY <1>4, <1>6, <1>9, <2>4, <3>1
            <4> QED BY <1>4, <2>3, <3>1, <4>1 DEF NameFits
        <3>2. CASE at = id
            BY <1>4, <1>6, <1>9, <3>2
        <3>3. CASE at > id
            <4>1. Less(y, x)
                BY <1>6, <1>7, <3>3
            <4>2. x.sub = "super" \/ x.val \in Nat
                BY <1>7
            <4> QED BY <1>4, <1>6, <1>9, <3>3, <4>1, <4>2 DEF Less
        <3> QED BY <3>1, <3>2, <3>3
    <2>5. NameFits(best, M, cnt2, n)
        BY <1>0, <1>6, <2>2, <2>4 DEF NameFits
    <2>6. NameFresh(best, cnt2)
        BY <1>0, <2>2 DEF NameFresh
    <2> QED BY <2>5, <2>6 DEF best, cnt2, t
<1>10. CASE m # n /\ ~(m > n /\ id <= b.id)
    <2>1. best = b
        BY <1>3, <1>5, <1>10
    <2>2. CASE ~b.gone
        <3>1. b.id < cnt /\ b.sub # "super" /\ N[b.id] = {[sub |-> b.sub, val |-> n]}
            BY <2>2 DEF NameFits
        <3>2. NameFits(b, M, cnt2, n)
            BY <1>0, <1>4, <1>5, <1>6, <2>2, <3>1 DEF NameFits
        <3>3. NameFresh(b, cnt2)
            BY <2>2 DEF NameFresh
        <3> QED BY <2>1, <3>2, <3>3 DEF best, cnt2, t
    <2>3. CASE b.gone
        <3>1. /\ b = NoTag \/ b.id <= cnt
              /\ b.id < cnt => N[b.id] # {}
              /\ \A at \in Nat : \A x \in N[at] :
                    IF at < b.id THEN x.sub = "super" \/ x.val < n ELSE x.sub # "super" /\ x.val > n
            BY <2>3 DEF NameFits
        <3>2. b.id < cnt2 => b.id < cnt
            <4>1. CASE id < cnt
                BY <4>1 DEF cnt2
            <4>2. CASE id >= cnt
                <5>1. b = NoTag \/ b.id < cnt
                    BY <2>3, <4>2 DEF NameFresh
                <5> QED BY <4>2, <5>1, NoTagIs DEF cnt2
            <4> QED BY <4>1, <4>2
        <3>3. b.id < cnt2 => M[b.id] # {}
            BY <1>4, <1>5, <1>6, <3>1, <3>2
        <3>4. ASSUME NEW at \in Nat, NEW x \in M[at]
              PROVE  IF at < b.id THEN x.sub = "super" \/ x.val < n ELSE x.sub # "super" /\ x.val > n
            <4>1. CASE at # id
                BY <1>6, <3>1, <4>1
            <4>2. CASE at = id /\ id < b.id
                BY <1>4, <1>6, <1>10, <4>2
            <4>3. CASE at = id /\ b.id < id
                <5>1. b # NoTag
                    BY <4>3, NoTagIs
                <5>2. b.id < cnt2
                    BY <1>0, <1>4, <4>3
                <5>3. PICK z : z \in N[b.id]
                    BY <3>1, <3>2, <5>2
                <5>4. z.sub # "super" /\ z.val > n
                    BY <1>4, <3>1, <5>3
                <5>5. z \in M[b.id]
                    BY <1>4, <1>5, <1>6, <5>3
                <5>6. Less(z, y) /\ (z.sub = "super" \/ z.val \in Nat)
                    BY <1>4, <1>6, <1>7, <4>3, <5>5
                <5> QED BY <1>4, <1>6, <4>3, <5>4, <5>6 DEF Less
            <4> QED BY <1>4, <1>5, <4>1, <4>2, <4>3
        <3>5. b = NoTag \/ b.id <= cnt2
            BY <1>0, <1>4, <3>1
        <3>6. NameFits(b, M, cnt2, n)
            BY <1>4, <2>3, <3>3, <3>4, <3>5 DEF NameFits
        <3>7. NameFresh(b, cnt) => NameFresh(b, cnt2)
            BY <1>0, <1>4 DEF NameFresh
        <3> QED BY <2>1, <3>6, <3>7 DEF best, cnt2, t
    <2> QED BY <1>4, <2>2, <2>3
<1> QED BY <1>8, <1>9, <1>10

LEMMA ChildCreate ==
    ASSUME NEW b, NEW S, NEW M, NEW c, NEW id \in Nat, ChildFits(b, S, c), OneCreated(M, S, id)
    PROVE  ChildFits(Shifted(b, Create(id)), M, c)
<1> DEFINE s == Shifted(b, Create(id))
<1>1. /\ IsBest(s) /\ s.gone = b.gone /\ s.sub = b.sub
      /\ s.id = IF b # NoTag /\ id <= b.id THEN b.id + 1 ELSE b.id
    BY ShiftedCreate DEF ChildFits
<1> HIDE DEF s
<1>2. b.id \in Nat /\ b.gone \in BOOLEAN
    BY DEF ChildFits, IsBest
<1>3. \A at \in Nat : M[at] = IF at < id THEN S[at] ELSE IF at = id THEN {} ELSE S[at - 1]
    BY DEF OneCreated
<1>4. CASE ~b.gone
    <2>1. b # NoTag
        BY <1>4, NoTagIs
    <2>2. M[s.id] = S[b.id]
        BY <1>1, <1>2, <1>3, <2>1
    <2> QED BY <1>1, <1>4, <2>2 DEF ChildFits, s
<1>5. CASE b.gone
    <2>1. ASSUME NEW at \in Nat PROVE [sub |-> "dir", val |-> c] \notin M[at]
        <3> DEFINE x == [sub |-> "dir", val |-> c]
        <3>1. \A i \in Nat : x \notin S[i]
            BY <1>5 DEF ChildFits
        <3> HIDE DEF x
        <3>2. x \notin M[at]
            BY <1>3, <3>1
        <3> QED BY <3>2 DEF x
    <2> QED BY <1>1, <1>5, <2>1 DEF ChildFits, s
<1> QED BY <1>2, <1>4, <1>5

LEMMA ChildDelete ==
    ASSUME NEW b, NEW S, NEW M, NEW c, NEW id \in Nat, ChildFits(b, S, c), OneDeleted(M, S, id),
           \A at \in Nat : [sub |-> "dir", val |-> c] \in S[id] /\ [sub |-> "dir", val |-> c] \in S[at]
                              => at = id
    PROVE  ChildFits(Shifted(b, Delete(id)), M, c)
<1> DEFINE s == Shifted(b, Delete(id))
           x == [sub |-> "dir", val |-> c]
<1>1. /\ IsBest(s) /\ (s.gone <=> b.gone \/ b.id = id) /\ s.sub = b.sub
      /\ s.id = IF b # NoTag /\ id < b.id THEN b.id - 1 ELSE b.id
    BY ShiftedDelete DEF ChildFits
<1> HIDE DEF s
<1>2. b.id \in Nat /\ s.id \in Nat /\ b.gone \in BOOLEAN /\ s.gone \in BOOLEAN
    BY <1>1 DEF ChildFits, IsBest
<1>3. \A at \in Nat : M[at] = IF at < id THEN S[at] ELSE S[at + 1]
    BY DEF OneDeleted
<1>4. CASE ~s.gone
    <2>1. b # NoTag
        BY <1>1, <1>4, NoTagIs
    <2>2. M[s.id] = S[b.id]
        BY <1>1, <1>2, <1>3, <1>4, <2>1
    <2> QED BY <1>1, <1>4, <2>2 DEF ChildFits, s
<1>5. CASE s.gone
    <2>1. \A i \in Nat : i # id => x \notin S[i]
        <3>1. CASE b.gone
            BY <3>1 DEF ChildFits
        <3>2. CASE ~b.gone
            <4>1. b.id = id /\ x \in S[id]
                BY <1>1, <1>5, <3>2 DEF ChildFits
            <4> QED BY <4>1
        <3> QED BY <1>2, <3>1, <3>2
    <2> HIDE DEF x
    <2>2. ASSUME NEW at \in Nat PROVE x \notin M[at]
        <3>1. (M[at] = S[at] /\ at # id) \/ (M[at] = S[at + 1] /\ at + 1 # id)
            BY <1>3
        <3> QED BY <2>1, <3>1
    <2> QED BY <1>1, <1>5, <2>2 DEF ChildFits, s, x
<1> QED BY <1>2, <1>4, <1>5

LEMMA ChildStruct ==
    ASSUME NEW b, NEW S, NEW M, NEW c, NEW id \in Nat, NEW sub, NEW val, ChildFits(b, S, c),
           OneSet(M, S, id, {[sub |-> sub, val |-> val]}),
           \A x \in S[id] : x.sub = "dir" => sub = "dir",
           \A at \in Nat : [sub |-> "dir", val |-> c] \in S[id] /\ [sub |-> "dir", val |-> c] \in S[at]
                              => at = id
    PROVE  ChildFits(Best(b, Tag("struct", sub, id, val), ByChild(c)), M, c)
<1> DEFINE t == Tag("struct", sub, id, val)
           x == [sub |-> "dir", val |-> c]
           y == [sub |-> sub, val |-> val]
           best == Best(b, t, ByChild(c))
<1>1. t.kind = "struct" /\ t.sub = sub /\ t.id = id /\ t.val = val /\ t # Delete(b.id)
    BY DeleteParts DEF Tag
<1>2. ByChild(c).kind = "struct" /\ ByChild(c).val = c
    BY DEF ByChild
<1>3. best = IF sub # "dir" THEN b ELSE IF val = c THEN [gone |-> FALSE, sub |-> sub, id |-> id]
             ELSE IF b.sub = sub /\ b.id = id THEN NoTag ELSE b
    BY <1>1, <1>2 DEF Best, IsCandidate, Shifted
<1>4. M[id] = {y} /\ \A at \in Nat : at # id => M[at] = S[at]
    BY DEF OneSet
<1>5. b.id \in Nat /\ b.gone \in BOOLEAN /\ IsBest(b)
    BY DEF ChildFits, IsBest
<1>6. x.sub = "dir" /\ x.val = c /\ y.sub = sub /\ y.val = val
    OBVIOUS
<1>7. ~b.gone => b.sub = "dir" /\ S[b.id] = {x} /\ x \in S[b.id]
    BY DEF ChildFits
<1>8. b.gone => \A at \in Nat : x \notin S[at]
    BY DEF ChildFits
<1>9. \A at \in Nat : x \in S[id] /\ x \in S[at] => at = id
    OBVIOUS
<1>10. IsBest(best) /\ (best.gone \in BOOLEAN)
    <2>1. IsBest([gone |-> FALSE, sub |-> sub, id |-> id])
        BY DEF IsBest
    <2>2. IsBest(best)
        BY <1>3, <1>5, <2>1, NoTagIs
    <2> QED BY <2>2 DEF IsBest
<1>11. ChildFits(best, M, c) <=> /\ ~best.gone => best.sub = "dir" /\ M[best.id] = {x}
                                 /\ best.gone => \A at \in Nat : x \notin M[at]
    BY <1>10 DEF ChildFits
<1>12. sub = "dir" /\ val = c => y = x
    OBVIOUS
<1> HIDE DEF x, y, t, best
<1>13. CASE sub # "dir"
    <2>1. best = b
        BY <1>3, <1>13
    <2>2. ~b.gone => b.id # id
        BY <1>6, <1>7, <1>13
    <2>3. b.gone => \A at \in Nat : x \notin M[at]
        <3>1. x # y
            BY <1>6, <1>13
        <3> QED BY <1>4, <1>8, <3>1
    <2>4. ~b.gone => M[b.id] = {x}
        BY <1>4, <1>5, <1>7, <2>2
    <2> QED BY <1>7, <1>11, <2>1, <2>3, <2>4 DEF best, t
<1>14. CASE sub = "dir" /\ val = c
    <2>1. ~best.gone /\ best.sub = "dir" /\ best.id = id
        BY <1>3, <1>14
    <2>2. M[best.id] = {x}
        BY <1>4, <1>12, <1>14, <2>1
    <2> QED BY <1>11, <2>1, <2>2 DEF best, t
<1>15. CASE sub = "dir" /\ val # c
    <2>0. x # y
        BY <1>6, <1>15
    <2>1. CASE b.sub = "dir" /\ b.id = id
        <3>1. best.gone
            BY <1>3, <1>15, <2>1, NoTagIs
        <3>2. \A at \in Nat : at # id => x \notin S[at]
            BY <1>5, <1>7, <1>8, <1>9, <2>1
        <3>3. \A at \in Nat : x \notin M[at]
            BY <1>4, <2>0, <3>2
        <3> QED BY <1>11, <3>1, <3>3 DEF best, t
    <2>2. CASE ~(b.sub = "dir" /\ b.id = id)
        <3>1. best = b
            BY <1>3, <1>15, <2>2
        <3>2. ~b.gone => M[b.id] = {x}
            BY <1>4, <1>5, <1>7, <2>2
        <3>3. b.gone => \A at \in Nat : x \notin M[at]
            BY <1>4, <1>8, <2>0
        <3> QED BY <1>7, <1>11, <3>1, <3>2, <3>3 DEF best, t
    <2> QED BY <2>1, <2>2
<1> QED BY <1>13, <1>14, <1>15

-----------------------------------------------------------------------------
(* A log of which lfs_dir_fetchmatch finds what it holds.                     *)

NamesAt(l) == [at \in Nat |-> Slot(l, "name", at)]
DataAt(l)  == [at \in Nat |-> Slot(l, "struct", at)]

Right(l) ==
    /\ Ordered(NamesAt(l), Cnt(l))
    /\ \A n \in Names : NameFits(NameBest(l, n), NamesAt(l), Cnt(l), n)
    /\ \A c \in Child : ChildFits(ChildBest(l, c), DataAt(l), c)

Fresh0(l) == \A n \in Names : NameFresh(NameBest(l, n), Cnt(l))

LEMMA OrderedCreate ==
    ASSUME NEW N, NEW M, NEW cnt, NEW id \in Nat, Ordered(N, cnt), OneCreated(M, N, id),
           id <= cnt, cnt < NoId
    PROVE  Ordered(M, cnt + 1)
<1> DEFINE was(at) == IF at < id THEN at ELSE at - 1
<1>1. cnt \in Nat /\ cnt + 1 \in 0 .. NoId
    BY DEF Ordered, NoId
<1>2. ASSUME NEW at \in Nat, NEW x \in M[at]
      PROVE  x \in N[was(at)] /\ was(at) \in Nat /\ at # id
    <2>1. M[at] = IF at < id THEN N[at] ELSE IF at = id THEN {} ELSE N[at - 1]
        BY DEF OneCreated
    <2>2. at # id
        BY <2>1
    <2> QED BY <2>1, <2>2
<1>3. ASSUME NEW at \in Nat, NEW x \in M[at]
      PROVE  at < cnt + 1 /\ (x.sub = "super" \/ x.val \in Names)
    <2>1. was(at) < cnt /\ (x.sub = "super" \/ x.val \in Names)
        <3> HIDE DEF was
        <3> QED BY <1>2 DEF Ordered
    <2> QED BY <1>1, <2>1
<1>4. ASSUME NEW at \in Nat, NEW x \in M[at], NEW y \in M[at] PROVE x = y
    <2> HIDE DEF was
    <2> QED BY <1>2 DEF Ordered
<1>5. ASSUME NEW i \in Nat, NEW j \in Nat, NEW x \in M[i], NEW y \in M[j], i < j PROVE Less(x, y)
    <2>1. x \in N[was(i)] /\ y \in N[was(j)] /\ was(i) \in Nat /\ was(j) \in Nat /\ i # id /\ j # id
        <3> HIDE DEF was
        <3> QED BY <1>2
    <2>2. was(i) < was(j)
        BY <1>5, <2>1
    <2> HIDE DEF was
    <2> QED BY <2>1, <2>2 DEF Ordered
<1> QED BY <1>1, <1>3, <1>4, <1>5 DEF Ordered

LEMMA OrderedDelete ==
    ASSUME NEW N, NEW M, NEW cnt, NEW id \in Nat, Ordered(N, cnt), OneDeleted(M, N, id), id < cnt
    PROVE  Ordered(M, cnt - 1)
<1> DEFINE was(at) == IF at < id THEN at ELSE at + 1
<1>1. cnt \in Nat /\ cnt - 1 \in 0 .. NoId
    BY DEF Ordered, NoId
<1>2. ASSUME NEW at \in Nat, NEW x \in M[at]
      PROVE  x \in N[was(at)] /\ was(at) \in Nat
    BY DEF OneDeleted
<1>3. ASSUME NEW at \in Nat, NEW x \in M[at]
      PROVE  at < cnt - 1 /\ (x.sub = "super" \/ x.val \in Names)
    <2>1. was(at) < cnt /\ (x.sub = "super" \/ x.val \in Names)
        <3> HIDE DEF was
        <3> QED BY <1>2 DEF Ordered
    <2> QED BY <1>1, <2>1
<1>4. ASSUME NEW at \in Nat, NEW x \in M[at], NEW y \in M[at] PROVE x = y
    <2> HIDE DEF was
    <2> QED BY <1>2 DEF Ordered
<1>5. ASSUME NEW i \in Nat, NEW j \in Nat, NEW x \in M[i], NEW y \in M[j], i < j PROVE Less(x, y)
    <2>1. x \in N[was(i)] /\ y \in N[was(j)] /\ was(i) \in Nat /\ was(j) \in Nat
        <3> HIDE DEF was
        <3> QED BY <1>2
    <2>2. was(i) < was(j)
        BY <1>5, <2>1
    <2> HIDE DEF was
    <2> QED BY <2>1, <2>2 DEF Ordered
<1> QED BY <1>1, <1>3, <1>4, <1>5 DEF Ordered

LEMMA OrderedPut ==
    ASSUME NEW N, NEW M, NEW cnt, NEW id \in Nat, Ordered(N, cnt), id < cnt,
           NEW y, y.sub # "super", y.val \in Names, OneSet(M, N, id, {y}),
           \A at \in Nat : \A x \in N[at] : at < id => x.sub = "super" \/ x.val < y.val,
           \A at \in Nat : \A x \in N[at] : at > id => x.sub # "super" /\ x.val > y.val
    PROVE  Ordered(M, cnt)
<1>1. M[id] = {y} /\ \A at \in Nat : at # id => M[at] = N[at]
    BY DEF OneSet
<1>2. cnt \in 0 .. NoId
    BY DEF Ordered
<1>3. ASSUME NEW at \in Nat, NEW x \in M[at]
      PROVE  at < cnt /\ (x.sub = "super" \/ x.val \in Names)
    <2>1. CASE at = id
        BY <1>1, <1>3, <2>1
    <2>2. CASE at # id
        BY <1>1, <1>3, <2>2 DEF Ordered
    <2> QED BY <2>1, <2>2
<1>4. ASSUME NEW at \in Nat, NEW x \in M[at], NEW z \in M[at] PROVE x = z
    <2>1. CASE at = id
        BY <1>1, <1>4, <2>1
    <2>2. CASE at # id
        BY <1>1, <1>4, <2>2 DEF Ordered
    <2> QED BY <2>1, <2>2
<1>5. ASSUME NEW i \in Nat, NEW j \in Nat, NEW x \in M[i], NEW z \in M[j], i < j PROVE Less(x, z)
    <2>1. CASE i # id /\ j # id
        <3>1. x \in N[i] /\ z \in N[j]
            BY <1>1, <1>5, <2>1
        <3> QED BY <1>5, <3>1 DEF Ordered
    <2>2. CASE i = id
        <3>1. x = y /\ z \in N[j]
            BY <1>1, <1>5, <2>2
        <3>2. z.sub # "super" /\ z.val > y.val
            BY <1>5, <2>2, <3>1
        <3>3. z.val \in Nat /\ y.val \in Nat
            BY <3>1, <3>2, NamesAssumption DEF Ordered
        <3> QED BY <3>1, <3>2, <3>3 DEF Less
    <2>3. CASE j = id
        <3>1. z = y /\ x \in N[i]
            BY <1>1, <1>5, <2>3
        <3> QED BY <1>5, <2>3, <3>1 DEF Less
    <2> QED BY <2>1, <2>2, <2>3
<1> QED BY <1>2, <1>3, <1>4, <1>5 DEF Ordered

LEMMA RightCreate ==
    ASSUME NEW T, Tags(T), NEW l \in Seq(T), NEW id \in Nat, Create(id) \in T, Right(l),
           id <= Cnt(l), Cnt(l) < NoId
    PROVE  LET a == Append(l, Create(id))
           IN /\ Right(a) /\ Cnt(a) = Cnt(l) + 1
              /\ TailOf(a) = TailOf(l) /\ SplitOf(a) = SplitOf(l)
              /\ OneCreated(NamesAt(a), NamesAt(l), id)
<1> DEFINE u == Create(id)
           a == Append(l, u)
<1>0. u.kind = "splice" /\ Splice(u) = 1
    BY CreateParts
<1>1. Cnt(a) = Counted(Cnt(l), u) /\ TailOf(a) = TailOf(l) /\ SplitOf(a) = SplitOf(l)
      /\ \A n : NameBest(a, n) = Best(NameBest(l, n), u, ByName(n))
      /\ \A c : ChildBest(a, c) = Best(ChildBest(l, c), u, ByChild(c))
    <2> HIDE DEF u
    <2> QED BY <1>0, ContentAppend DEF u
<1>2. Cnt(a) = Cnt(l) + 1
    BY <1>0, <1>1 DEF Counted
<1>3. \A b : (\A n : Best(b, u, ByName(n)) = Shifted(b, u))
             /\ (\A c : Best(b, u, ByChild(c)) = Shifted(b, u))
    BY <1>0 DEF Best, IsCandidate, ByName, ByChild
<1>4. OneCreated(NamesAt(a), NamesAt(l), id)
    <2>1. ASSUME NEW at \in Nat
          PROVE  Slot(a, "name", at) = IF at < id THEN Slot(l, "name", at)
                                       ELSE IF at = id THEN {} ELSE Slot(l, "name", at - 1)
        <3>1. u \in T /\ u = Create(id)
            OBVIOUS
        <3> HIDE DEF u
        <3> QED BY <3>1, SlotCreate
    <2> HIDE DEF a
    <2> QED BY <2>1 DEF OneCreated, NamesAt
<1>5. OneCreated(DataAt(a), DataAt(l), id)
    <2>1. ASSUME NEW at \in Nat
          PROVE  Slot(a, "struct", at) = IF at < id THEN Slot(l, "struct", at)
                                         ELSE IF at = id THEN {} ELSE Slot(l, "struct", at - 1)
        <3>1. u \in T /\ u = Create(id)
            OBVIOUS
        <3> HIDE DEF u
        <3> QED BY <3>1, SlotCreate
    <2> HIDE DEF a
    <2> QED BY <2>1 DEF OneCreated, DataAt
<1> HIDE DEF a
<1>6. Ordered(NamesAt(a), Cnt(l) + 1)
    BY <1>4, OrderedCreate DEF Right
<1>7. ASSUME NEW n \in Names PROVE NameFits(NameBest(a, n), NamesAt(a), Cnt(l) + 1, n)
    <2>1. n \in Nat /\ NameBest(a, n) = Shifted(NameBest(l, n), u)
        BY <1>1, <1>3, NamesAssumption
    <2> QED BY <1>4, <2>1, FitsCreate DEF Right
<1>8. ASSUME NEW c \in Child PROVE ChildFits(ChildBest(a, c), DataAt(a), c)
    BY <1>1, <1>3, <1>5, ChildCreate DEF Right
<1>9. Right(a)
    BY <1>2, <1>6, <1>7, <1>8 DEF Right
<1> QED BY <1>1, <1>2, <1>4, <1>9 DEF a

\* No other place has a directory that the place `id` has.
OnlyDir(S, id) ==
    \A at \in Nat : \A c \in Child :
        [sub |-> "dir", val |-> c] \in S[id] /\ [sub |-> "dir", val |-> c] \in S[at] => at = id

LEMMA RightDelete ==
    ASSUME NEW T, Tags(T), NEW l \in Seq(T), NEW id \in Nat, Delete(id) \in T, Right(l),
           id < Cnt(l), \A at \in Nat : at < Cnt(l) => NamesAt(l)[at] # {}, OnlyDir(DataAt(l), id)
    PROVE  LET a == Append(l, Delete(id))
           IN /\ Right(a) /\ Cnt(a) = Cnt(l) - 1
              /\ TailOf(a) = TailOf(l) /\ SplitOf(a) = SplitOf(l)
              /\ OneDeleted(NamesAt(a), NamesAt(l), id)
<1> DEFINE u == Delete(id)
           a == Append(l, u)
<1>0. u.kind = "splice" /\ Splice(u) = -1
    BY DeleteParts
<1>1. Cnt(a) = Counted(Cnt(l), u) /\ TailOf(a) = TailOf(l) /\ SplitOf(a) = SplitOf(l)
      /\ \A n : NameBest(a, n) = Best(NameBest(l, n), u, ByName(n))
      /\ \A c : ChildBest(a, c) = Best(ChildBest(l, c), u, ByChild(c))
    <2> HIDE DEF u
    <2> QED BY <1>0, ContentAppend DEF u
<1>2. Cnt(a) = Cnt(l) - 1
    <2>1. Cnt(l) \in Nat
        BY DEF Right, Ordered
    <2>2. Cnt(a) = Cnt(l) + (-1)
        BY <1>0, <1>1 DEF Counted
    <2> QED BY <2>1, <2>2
<1>3. \A b : (\A n : Best(b, u, ByName(n)) = Shifted(b, u))
             /\ (\A c : Best(b, u, ByChild(c)) = Shifted(b, u))
    BY <1>0 DEF Best, IsCandidate, ByName, ByChild
<1>4. OneDeleted(NamesAt(a), NamesAt(l), id)
    <2>1. ASSUME NEW at \in Nat
          PROVE  Slot(a, "name", at) = IF at < id THEN Slot(l, "name", at)
                                       ELSE Slot(l, "name", at + 1)
        <3> HIDE DEF u
        <3> QED BY ZenonT(60), <1>0, SlotDelete DEF u
    <2> HIDE DEF a
    <2> QED BY <2>1 DEF OneDeleted, NamesAt
<1>5. OneDeleted(DataAt(a), DataAt(l), id)
    <2>1. ASSUME NEW at \in Nat
          PROVE  Slot(a, "struct", at) = IF at < id THEN Slot(l, "struct", at)
                                         ELSE Slot(l, "struct", at + 1)
        <3> HIDE DEF u
        <3> QED BY ZenonT(60), <1>0, SlotDelete DEF u
    <2> HIDE DEF a
    <2> QED BY <2>1 DEF OneDeleted, DataAt
<1> HIDE DEF a
<1>6. Ordered(NamesAt(a), Cnt(l) - 1)
    BY <1>4, OrderedDelete DEF Right
<1>7. ASSUME NEW n \in Names PROVE NameFits(NameBest(a, n), NamesAt(a), Cnt(l) - 1, n)
    <2>1. n \in Nat /\ NameBest(a, n) = Shifted(NameBest(l, n), u)
        BY <1>1, <1>3, NamesAssumption
    <2> QED BY <1>4, <2>1, FitsDelete DEF Right
<1>8. ASSUME NEW c \in Child PROVE ChildFits(ChildBest(a, c), DataAt(a), c)
    <2> DEFINE b == ChildBest(l, c)
               S == DataAt(l)
    <2>1. ChildBest(a, c) = Shifted(b, u)
        BY <1>1, <1>3
    <2>2. \A at \in Nat : [sub |-> "dir", val |-> c] \in S[id] /\ [sub |-> "dir", val |-> c] \in S[at]
                             => at = id
        BY DEF OnlyDir
    <2>3. ChildFits(b, S, c)
        BY DEF Right
    <2> HIDE DEF b, S
    <2>4. OneDeleted(DataAt(a), S, id)
        BY <1>5 DEF S
    <2> QED BY <2>1, <2>2, <2>3, <2>4, ChildDelete
<1>9. Right(a)
    BY <1>2, <1>6, <1>7, <1>8 DEF Right
<1> QED BY <1>1, <1>2, <1>4, <1>9 DEF a

LEMMA NamesSame ==
    ASSUME NEW T, Tags(T), NEW l \in Seq(T), NEW u \in T, u.kind # "name", u.kind # "splice"
    PROVE  LET a == Append(l, u)
           IN /\ NamesAt(a) = NamesAt(l) /\ Cnt(a) = Cnt(l) + 0
              /\ \A n : NameBest(a, n) = NameBest(l, n)
<1> DEFINE a == Append(l, u)
<1>1. Cnt(a) = Counted(Cnt(l), u) /\ \A n : NameBest(a, n) = Best(NameBest(l, n), u, ByName(n))
    BY ContentAppend
<1>2. Cnt(a) = Cnt(l) + 0
    BY <1>1 DEF Counted, Splice
<1>3. \A b, n : Best(b, u, ByName(n)) = b
    <2>1. \A x : u # Delete(x)
        BY DeleteParts
    <2> QED BY <2>1 DEF Best, IsCandidate, ByName, Shifted
<1>4. \A at \in Nat : Slot(a, "name", at) = Slot(l, "name", at)
    BY SlotOther
<1> HIDE DEF a
<1> QED BY <1>1, <1>2, <1>3, <1>4 DEF NamesAt, a

LEMMA DataSame ==
    ASSUME NEW T, Tags(T), NEW l \in Seq(T), NEW u \in T, u.kind # "struct", u.kind # "splice"
    PROVE  LET a == Append(l, u)
           IN /\ DataAt(a) = DataAt(l)
              /\ \A c : ChildBest(a, c) = ChildBest(l, c)
<1> DEFINE a == Append(l, u)
<1>1. \A c : ChildBest(a, c) = Best(ChildBest(l, c), u, ByChild(c))
    BY ContentAppend
<1>3. \A b, c : Best(b, u, ByChild(c)) = b
    <2>1. \A x : u # Delete(x)
        BY DeleteParts
    <2> QED BY <2>1 DEF Best, IsCandidate, ByChild, Shifted
<1>4. \A at \in Nat : Slot(a, "struct", at) = Slot(l, "struct", at)
    BY SlotOther
<1> HIDE DEF a
<1> QED BY <1>1, <1>3, <1>4 DEF DataAt, a

LEMMA SlotPut ==
    ASSUME NEW T, Tags(T), NEW l \in Seq(T), NEW u \in T, NEW k, u.kind = k, k # "splice",
           u.val # Gone
    PROVE  OneSet([at \in Nat |-> Slot(Append(l, u), k, at)], [at \in Nat |-> Slot(l, k, at)],
                  u.id, {[sub |-> u.sub, val |-> u.val]})
<1> DEFINE a == Append(l, u)
           x == [sub |-> u.sub, val |-> u.val]
<1>1. Slot(a, u.kind, u.id) = {x}
    BY ZenonT(60), SlotSet
<1>2. \A at \in Nat : at # u.id => Slot(a, k, at) = Slot(l, k, at)
    BY SlotOther
<1> HIDE DEF a, x
<1>3. \A at \in Nat : Slot(a, k, at) = IF at = u.id THEN {x} ELSE Slot(l, k, at)
    BY <1>1, <1>2
<1> QED BY <1>3 DEF OneSet, a, x

LEMMA RightName ==
    ASSUME NEW T, Tags(T), NEW l \in Seq(T), NEW u \in T, u.kind = "name", u.sub # "super",
           u.val \in Names, u.val # Gone, u.id < NoId, Slot(l, "name", u.id) = {}, Right(l),
           u.id < Cnt(l) \/ Fresh0(l),
           Ordered(NamesAt(Append(l, u)), IF u.id >= Cnt(l) THEN u.id + 1 ELSE Cnt(l))
    PROVE  LET a == Append(l, u)
           IN /\ Right(a) /\ Cnt(a) = IF u.id >= Cnt(l) THEN u.id + 1 ELSE Cnt(l)
              /\ Fresh0(l) => Fresh0(a)
              /\ OneSet(NamesAt(a), NamesAt(l), u.id, {[sub |-> u.sub, val |-> u.val]})
<1> DEFINE a == Append(l, u)
           cnt == IF u.id >= Cnt(l) THEN u.id + 1 ELSE Cnt(l)
<1>1. Cnt(a) = Counted(Cnt(l), u) /\ \A n : NameBest(a, n) = Best(NameBest(l, n), u, ByName(n))
    BY ContentAppend
<1>2. Cnt(a) = cnt
    BY <1>1 DEF Counted
<1>3. u = NameTag(u.sub, u.id, u.val) /\ u.id \in Nat /\ u.kind # "struct" /\ u.kind # "splice"
    BY DEF Tags, NameTag
<1>4. DataAt(a) = DataAt(l) /\ \A c : ChildBest(a, c) = ChildBest(l, c)
    BY <1>3, DataSame
<1>5. OneSet(NamesAt(a), NamesAt(l), u.id, {[sub |-> u.sub, val |-> u.val]})
    <2> DEFINE k == "name"
    <2>1. u.kind = k /\ k # "splice"
        OBVIOUS
    <2>2. OneSet([at \in Nat |-> Slot(Append(l, u), k, at)], [at \in Nat |-> Slot(l, k, at)],
                 u.id, {[sub |-> u.sub, val |-> u.val]})
        <3> HIDE DEF k
        <3> QED BY <2>1, SlotPut
    <2> QED BY <2>2 DEF NamesAt
<1>6. Ordered(NamesAt(a), cnt)
    OBVIOUS
<1>7. Cnt(l) \in Nat /\ Cnt(l) <= NoId
    BY DEF Right, Ordered
<1>8. NamesAt(l)[u.id] = {}
    BY <1>3 DEF NamesAt
<1> HIDE DEF a
<1>9. ASSUME NEW n \in Names
      PROVE  /\ NameFits(NameBest(a, n), NamesAt(a), cnt, n)
             /\ Fresh0(l) => NameFresh(NameBest(a, n), cnt)
    <2> DEFINE b == NameBest(l, n)
               N == NamesAt(l)
               M == NamesAt(a)
               old == Cnt(l)
               sub == u.sub
               id == u.id
               m == u.val
    <2>1. n \in Nat /\ NameFits(b, N, old, n)
        BY NamesAssumption DEF Right
    <2>2. id < old \/ NameFresh(b, old)
        BY DEF Fresh0
    <2>3. /\ id \in Nat /\ id < NoId /\ sub # "super" /\ m \in Names /\ old \in Nat /\ old <= NoId
          /\ OneSet(M, N, id, {[sub |-> sub, val |-> m]}) /\ N[id] = {}
          /\ Ordered(M, IF id >= old THEN id + 1 ELSE old)
        BY <1>3, <1>5, <1>6, <1>7, <1>8
    <2>4. NameBest(a, n) = Best(b, NameTag(sub, id, m), ByName(n))
        BY <1>1, <1>3
    <2> HIDE DEF b, N, M, old, sub, id, m
    <2>5. LET t == NameTag(sub, id, m)
          IN /\ NameFits(Best(b, t, ByName(n)), M, IF id >= old THEN id + 1 ELSE old, n)
             /\ NameFresh(b, old) => NameFresh(Best(b, t, ByName(n)),
                                               IF id >= old THEN id + 1 ELSE old)
        BY <2>1, <2>2, <2>3, FitsName
    <2>6. Fresh0(l) => NameFresh(b, old)
        BY DEF Fresh0, b, old
    <2> QED BY <2>4, <2>5, <2>6 DEF M, old, id
<1> HIDE DEF cnt
<1>10. Right(a)
    BY <1>2, <1>4, <1>6, <1>9 DEF Right
<1>11. Fresh0(l) => Fresh0(a)
    BY <1>2, <1>9 DEF Fresh0
<1> QED BY <1>2, <1>5, <1>10, <1>11 DEF a, cnt

\* The entry of the superblock, the first of a log.
LEMMA RightSuper ==
    ASSUME NEW T, Tags(T), NEW u \in T, u.kind = "name", u.sub = "super", u.val # Gone,
           u.id < NoId
    PROVE  LET a == Append(<<>>, u)
           IN Right(a) /\ Cnt(a) = u.id + 1 /\ Fresh0(a)
<1> DEFINE l == <<>>
           a == Append(l, u)
           x == [sub |-> u.sub, val |-> u.val]
<1>0. l \in Seq(T) /\ u.id \in Nat /\ u.kind # "splice" /\ u.kind # "struct"
    BY DEF Tags
<1>1. /\ Cnt(l) = 0 /\ \A n : NameBest(l, n) = NoTag
      /\ \A c : ChildBest(l, c) = NoTag
    BY ContentEmpty
<1>2. \A k, at : Slot(l, k, at) = {}
    BY SlotEmpty
<1> HIDE DEF l
<1>3. /\ Cnt(a) = Counted(Cnt(l), u)
      /\ \A n : NameBest(a, n) = Best(NameBest(l, n), u, ByName(n))
      /\ \A c : ChildBest(a, c) = Best(ChildBest(l, c), u, ByChild(c))
    BY <1>0, ContentAppend
<1>4. Cnt(a) = u.id + 1
    BY <1>0, <1>1, <1>3 DEF Counted
<1>5. /\ \A b, n : Best(b, u, ByName(n)) = b
      /\ \A b, c : Best(b, u, ByChild(c)) = b
    <2>1. \A y : u # Delete(y)
        BY <1>0, DeleteParts
    <2> QED BY <1>0, <2>1 DEF Best, IsCandidate, ByName, ByChild, Shifted
<1>6. \A at \in Nat : NamesAt(a)[at] = IF at = u.id THEN {x} ELSE {}
    <2> DEFINE k == "name"
    <2>1. u.kind = k /\ k # "splice"
        OBVIOUS
    <2>2. OneSet([at \in Nat |-> Slot(Append(l, u), k, at)], [at \in Nat |-> Slot(l, k, at)],
                 u.id, {[sub |-> u.sub, val |-> u.val]})
        <3> HIDE DEF k
        <3> QED BY <1>0, <2>1, SlotPut
    <2> QED BY <1>2, <2>2 DEF NamesAt, OneSet
<1>7. \A at \in Nat : DataAt(a)[at] = {}
    <2>1. DataAt(a) = DataAt(l)
        BY <1>0, DataSame
    <2> QED BY <1>2, <2>1 DEF DataAt
<1>8. x.sub = "super"
    OBVIOUS
<1> HIDE DEF a, x
<1>9. Ordered(NamesAt(a), u.id + 1)
    <2>1. u.id + 1 \in 0 .. NoId
        <3> DEFINE i == u.id
        <3>1. i \in Nat /\ i < NoId
            BY <1>0
        <3> HIDE DEF i
        <3>2. i + 1 \in 0 .. NoId
            BY <3>1, NoTagIs
        <3> QED BY <3>2 DEF i
    <2>2. \A at \in Nat : \A y \in NamesAt(a)[at] : at = u.id /\ y = x
        BY <1>6
    <2> QED BY <1>0, <1>8, <2>1, <2>2 DEF Ordered
<1>10. ASSUME NEW n \in Names PROVE NameFits(NameBest(a, n), NamesAt(a), u.id + 1, n)
    <2>1. NameBest(a, n) = NoTag
        BY <1>1, <1>3, <1>5
    <2>2. \A at \in Nat : \A y \in NamesAt(a)[at] : at = u.id /\ y = x
        BY <1>6
    <2>3. NoTag.id < u.id + 1 => FALSE
        BY <1>0, NoTagIs
    <2> QED BY <1>0, <1>8, <2>1, <2>2, <2>3, NoTagIs DEF NameFits
<1>11. ASSUME NEW c \in Child PROVE ChildFits(ChildBest(a, c), DataAt(a), c)
    <2>1. ChildBest(a, c) = NoTag
        BY <1>1, <1>3, <1>5
    <2> QED BY <1>7, <2>1, NoTagIs DEF ChildFits
<1>12. Right(a)
    BY <1>4, <1>9, <1>10, <1>11 DEF Right
<1>13. Fresh0(a)
    BY <1>1, <1>3, <1>5 DEF Fresh0, NameFresh
<1> QED BY <1>4, <1>12, <1>13 DEF a, l

LEMMA RightStruct ==
    ASSUME NEW T, Tags(T), NEW l \in Seq(T), NEW u \in T, u.kind = "struct", u.val # Gone, Right(l),
           \A x \in Slot(l, "struct", u.id) : x.sub = "dir" => u.sub = "dir",
           OnlyDir(DataAt(l), u.id)
    PROVE  LET a == Append(l, u)
           IN /\ Right(a) /\ Cnt(a) = Cnt(l) /\ NamesAt(a) = NamesAt(l)
              /\ Fresh0(l) => Fresh0(a)
              /\ OneSet(DataAt(a), DataAt(l), u.id, {[sub |-> u.sub, val |-> u.val]})
<1> DEFINE a == Append(l, u)
<1>0. u = Tag("struct", u.sub, u.id, u.val) /\ u.id \in Nat /\ u.kind # "name" /\ u.kind # "splice"
    BY DEF Tags
<1>1. NamesAt(a) = NamesAt(l) /\ Cnt(a) = Cnt(l) + 0 /\ \A n : NameBest(a, n) = NameBest(l, n)
    BY <1>0, NamesSame
<1>2. Cnt(a) = Cnt(l)
    BY <1>1 DEF Right, Ordered
<1>3. \A c : ChildBest(a, c) = Best(ChildBest(l, c), u, ByChild(c))
    BY ContentAppend
<1>4. OneSet(DataAt(a), DataAt(l), u.id, {[sub |-> u.sub, val |-> u.val]})
    <2> DEFINE k == "struct"
    <2>1. u.kind = k /\ k # "splice"
        OBVIOUS
    <2>2. OneSet([at \in Nat |-> Slot(Append(l, u), k, at)], [at \in Nat |-> Slot(l, k, at)],
                 u.id, {[sub |-> u.sub, val |-> u.val]})
        <3> HIDE DEF k
        <3> QED BY <2>1, SlotPut
    <2> QED BY <2>2 DEF DataAt
<1> HIDE DEF a
<1>5. ASSUME NEW c \in Child PROVE ChildFits(ChildBest(a, c), DataAt(a), c)
    <2> DEFINE b == ChildBest(l, c)
               S == DataAt(l)
               M == DataAt(a)
               sub == u.sub
               id == u.id
               val == u.val
    <2>1. ChildFits(b, S, c)
        BY DEF Right
    <2>2. \A at \in Nat : [sub |-> "dir", val |-> c] \in S[id] /\ [sub |-> "dir", val |-> c] \in S[at]
                             => at = id
        BY DEF OnlyDir
    <2>3. \A x \in S[id] : x.sub = "dir" => sub = "dir"
        BY <1>0 DEF DataAt
    <2>4. OneSet(M, S, id, {[sub |-> sub, val |-> val]}) /\ id \in Nat
        BY <1>0, <1>4
    <2>5. ChildBest(a, c) = Best(b, Tag("struct", sub, id, val), ByChild(c))
        BY <1>0, <1>3
    <2> HIDE DEF b, S, M, sub, id, val
    <2>6. ChildFits(Best(b, Tag("struct", sub, id, val), ByChild(c)), M, c)
        BY <2>1, <2>2, <2>3, <2>4, ChildStruct
    <2> QED BY <2>5, <2>6 DEF M
<1>6. Right(a)
    BY <1>1, <1>2, <1>5 DEF Right
<1>7. Fresh0(l) => Fresh0(a)
    BY <1>1, <1>2 DEF Fresh0
<1> QED BY <1>1, <1>2, <1>4, <1>6, <1>7 DEF a

LEMMA RightOther ==
    ASSUME NEW T, Tags(T), NEW l \in Seq(T), NEW u \in T, Right(l),
           u.kind # "name", u.kind # "struct", u.kind # "splice"
    PROVE  LET a == Append(l, u)
           IN /\ Right(a) /\ Cnt(a) = Cnt(l) /\ NamesAt(a) = NamesAt(l) /\ DataAt(a) = DataAt(l)
              /\ Fresh0(l) => Fresh0(a)
<1> DEFINE a == Append(l, u)
<1>1. NamesAt(a) = NamesAt(l) /\ Cnt(a) = Cnt(l) + 0 /\ \A n : NameBest(a, n) = NameBest(l, n)
    BY NamesSame
<1>2. DataAt(a) = DataAt(l) /\ \A c : ChildBest(a, c) = ChildBest(l, c)
    BY DataSame
<1> HIDE DEF a
<1>3. Cnt(a) = Cnt(l)
    BY <1>1 DEF Right, Ordered
<1>4. Right(a)
    BY <1>1, <1>2, <1>3 DEF Right
<1>5. Fresh0(l) => Fresh0(a)
    BY <1>1, <1>3 DEF Fresh0
<1> QED BY <1>1, <1>2, <1>3, <1>4, <1>5 DEF a

-----------------------------------------------------------------------------
(* A log as lfs_dir_compact writes it.                                        *)

InOrder(e) ==
    \A i, j \in 1 .. Len(e) :
        e[i].kind = "name" /\ e[j].kind = "name" /\ e[i].id < e[j].id => Less(e[i], e[j])

Neat(e) ==
    /\ Plain(e) /\ SuperFirst(e) /\ InOrder(e)
    /\ \A i \in 1 .. Len(e) : e[i].kind \in Kinds /\ e[i].id < NoId

NeatIs(e) ==
    /\ Right(e) /\ Fresh0(e) /\ TailOf(e) = Nil /\ SplitOf(e) = FALSE
    /\ \A at \in Nat : \A x \in NamesAt(e)[at] :
          \E i \in 1 .. Len(e) : /\ e[i].kind = "name" /\ e[i].id = at
                                 /\ x = [sub |-> e[i].sub, val |-> e[i].val]
    /\ Cnt(e) = 0 \/ \E i \in 1 .. Len(e) : e[i].kind = "name" /\ Cnt(e) = e[i].id + 1

LEMMA NeatPrefix ==
    ASSUME NEW T, NEW s \in Seq(T), NEW u \in T, Neat(Append(s, u))
    PROVE  /\ Neat(s) /\ u.kind \in Kinds /\ u.id < NoId
           /\ u.sub = "super" => s = <<>>
           /\ \A i \in 1 .. Len(s) : s[i].kind = u.kind => s[i].id # u.id
           /\ u.kind = "name" => \A i \in 1 .. Len(s) : s[i].kind = "name" =>
                 /\ s[i].id < u.id => Less(s[i], u)
                 /\ u.id < s[i].id => Less(u, s[i])
<1> DEFINE M == Append(s, u)
<1>1. /\ Len(s) \in Nat /\ Len(M) = Len(s) + 1 /\ M[Len(s) + 1] = u
      /\ \A i \in 1 .. Len(s) : M[i] = s[i]
    BY AppendIs
<1>2. /\ Len(s) + 1 \in 1 .. Len(M) /\ (Len(s) # 0 => Len(s) + 1 \in 2 .. Len(M))
      /\ \A i \in 1 .. Len(s) : i \in 1 .. Len(M) /\ i < Len(s) + 1 /\ (i # 1 => i \in 2 .. Len(M))
      /\ \A i \in 2 .. Len(s) : i \in 1 .. Len(s) /\ i \in 2 .. Len(M)
    BY <1>1
<1>3. Len(s) = 0 => s = <<>>
    OBVIOUS
<1> HIDE DEF M
<1>4. Plain(M) /\ SuperFirst(M) /\ InOrder(M)
      /\ \A i \in 1 .. Len(M) : M[i].kind \in Kinds /\ M[i].id < NoId
    BY DEF Neat, M
<1>5. Plain(s)
    BY <1>1, <1>2, <1>4 DEF Plain, NoSplice
<1>6. SuperFirst(s)
    BY <1>1, <1>2, <1>4 DEF SuperFirst
<1>7. InOrder(s)
    BY <1>1, <1>2, <1>4 DEF InOrder
<1>8. \A i \in 1 .. Len(s) : s[i].kind \in Kinds /\ s[i].id < NoId
    BY <1>1, <1>2, <1>4
<1>9. u.kind \in Kinds /\ u.id < NoId
    BY <1>1, <1>2, <1>4
<1>10. u.sub = "super" => s = <<>>
    BY <1>1, <1>2, <1>3, <1>4 DEF SuperFirst
<1>11. \A i \in 1 .. Len(s) : s[i].kind = u.kind => s[i].id # u.id
    BY <1>1, <1>2, <1>4 DEF Plain
<1>12. u.kind = "name" => \A i \in 1 .. Len(s) : s[i].kind = "name" =>
          /\ s[i].id < u.id => Less(s[i], u)
          /\ u.id < s[i].id => Less(u, s[i])
    BY <1>1, <1>2, <1>4 DEF InOrder
<1> QED BY <1>5, <1>6, <1>7, <1>8, <1>9, <1>10, <1>11, <1>12 DEF Neat

LEMMA NeatNext ==
    ASSUME NEW T, Stored(T), NEW s \in Seq(T), NEW u \in T, Neat(Append(s, u)), NeatIs(s)
    PROVE  NeatIs(Append(s, u))
<1> DEFINE M == Append(s, u)
<1>1. /\ Len(s) \in Nat /\ Len(M) = Len(s) + 1 /\ M[Len(s) + 1] = u
      /\ \A i \in 1 .. Len(s) : M[i] = s[i]
    BY AppendIs
<1>2. Len(s) + 1 \in 1 .. Len(M) /\ \A i \in 1 .. Len(s) : i \in 1 .. Len(M)
    BY <1>1
<1>3. /\ Neat(s) /\ u.kind \in Kinds /\ u.id < NoId
      /\ u.sub = "super" => s = <<>>
      /\ \A i \in 1 .. Len(s) : s[i].kind = u.kind => s[i].id # u.id
      /\ u.kind = "name" => \A i \in 1 .. Len(s) : s[i].kind = "name" =>
            /\ s[i].id < u.id => Less(s[i], u)
            /\ u.id < s[i].id => Less(u, s[i])
    BY NeatPrefix
<1>4. Tags(T) /\ StoredTag(u) /\ u.id \in Nat /\ u.kind # "splice" /\ u.kind # "tail"
    BY <1>3 DEF Stored, Tags, Kinds
<1>5. Slot(s, u.kind, u.id) = {}
    <2>1. ~About(s, u.kind, u.id) /\ NoSplice(s)
        BY <1>3 DEF About, Neat, Plain
    <2> DEFINE k == u.kind
               at == u.id
    <2>2. ~About(s, k, at) /\ k # "splice" /\ at \in Nat
        BY <1>4, <2>1
    <2> HIDE DEF k, at
    <2>3. Slot(s, k, at) = {}
        BY <1>4, <2>1, <2>2, SlotAbout
    <2> QED BY <2>3 DEF k, at
<1>6. TailOf(M) = Nil /\ SplitOf(M) = FALSE
    BY <1>4, ContentAppend DEF NeatIs
<1>7. \A at \in Nat : \A x \in NamesAt(s)[at] :
          \E i \in 1 .. Len(s) : /\ s[i].kind = "name" /\ s[i].id = at
                                 /\ x = [sub |-> s[i].sub, val |-> s[i].val]
    BY DEF NeatIs
<1>8. Right(s) /\ Fresh0(s) /\ Cnt(s) \in Nat
    BY SMTT(60) DEF NeatIs, Right, Ordered
<1> HIDE DEF M
<1>9. CASE u.kind = "name"
    <2> DEFINE x == [sub |-> u.sub, val |-> u.val]
    <2>1. OneSet(NamesAt(M), NamesAt(s), u.id, {x})
        <3> DEFINE k == "name"
        <3>1. u.kind = k /\ k # "splice" /\ u.val # Gone
            BY <1>4, <1>9 DEF StoredTag
        <3>2. OneSet([at \in Nat |-> Slot(Append(s, u), k, at)], [at \in Nat |-> Slot(s, k, at)],
                     u.id, {[sub |-> u.sub, val |-> u.val]})
            <4> HIDE DEF k
            <4> QED BY <1>4, <3>1, SlotPut
        <3> QED BY <3>2 DEF NamesAt, M
    <2>2. \A at \in Nat : \A y \in NamesAt(M)[at] :
              \E i \in 1 .. Len(M) : /\ M[i].kind = "name" /\ M[i].id = at
                                     /\ y = [sub |-> M[i].sub, val |-> M[i].val]
        <3> SUFFICES ASSUME NEW at \in Nat, NEW y \in NamesAt(M)[at]
                     PROVE  \E i \in 1 .. Len(M) : /\ M[i].kind = "name" /\ M[i].id = at
                                                   /\ y = [sub |-> M[i].sub, val |-> M[i].val]
            OBVIOUS
        <3>1. CASE at = u.id
            <4>1. y = x
                BY <2>1, <3>1 DEF OneSet
            <4> QED BY <1>1, <1>2, <1>9, <3>1, <4>1
        <3>2. CASE at # u.id
            <4>1. y \in NamesAt(s)[at]
                BY <2>1, <3>2 DEF OneSet
            <4>2. PICK i \in 1 .. Len(s) : /\ s[i].kind = "name" /\ s[i].id = at
                                           /\ y = [sub |-> s[i].sub, val |-> s[i].val]
                BY <1>7, <4>1
            <4> QED BY <1>1, <1>2, <4>2
        <3> QED BY <3>1, <3>2
    <2> DEFINE cnt == IF u.id >= Cnt(s) THEN u.id + 1 ELSE Cnt(s)
    <2>3. CASE u.sub = "super"
        <3>1. s = <<>>
            BY <1>3, <2>3
        <3>2. Right(M) /\ Cnt(M) = u.id + 1 /\ Fresh0(M)
            BY <1>3, <1>4, <1>9, <2>3, <3>1, RightSuper DEF StoredTag, M
        <3>3. Cnt(M) = 0 \/ \E i \in 1 .. Len(M) : M[i].kind = "name" /\ Cnt(M) = M[i].id + 1
            BY <1>1, <1>2, <1>9, <3>2
        <3> QED BY <1>6, <2>2, <3>2, <3>3 DEF NeatIs, M
    <2>4. CASE u.sub # "super"
        <3>1. u.val \in Names /\ u.val # Gone
            BY <1>4, <1>9, <2>4 DEF StoredTag
        <3>2. Ordered(NamesAt(M), cnt)
            <4> DEFINE N == NamesAt(s)
                       id == u.id
                       old == Cnt(s)
                       R == NamesAt(M)
            <4>1. Ordered(N, old)
                BY <1>8 DEF Right
            <4>2. /\ R[id] = {x} /\ \A at \in Nat : at # id => R[at] = N[at]
                BY <1>4, <2>1 DEF OneSet
            <4>3. x.sub # "super" /\ x.val \in Names /\ x.sub = u.sub /\ x.val = u.val
                BY <2>4, <3>1
            <4>4. ASSUME NEW at \in Nat, NEW y \in N[at]
                  PROVE  (at < id => Less(y, x)) /\ (id < at => Less(x, y))
                <5>1. PICK i \in 1 .. Len(s) : /\ s[i].kind = "name" /\ s[i].id = at
                                               /\ y = [sub |-> s[i].sub, val |-> s[i].val]
                    BY <1>7
                <5>2. y.sub = s[i].sub /\ y.val = s[i].val
                    BY <5>1
                <5>3. (at < id => Less(s[i], u)) /\ (id < at => Less(u, s[i]))
                    BY <1>3, <1>9, <5>1
                <5> QED BY <4>3, <5>2, <5>3 DEF Less
            <4>5. id \in Nat /\ id < NoId /\ old \in Nat /\ old <= NoId
                BY <1>3, <1>4, <1>8, <4>1 DEF Ordered
            <4> HIDE DEF N, id, old, R, x
            <4>6. cnt \in 0 .. NoId /\ id < cnt /\ old <= cnt
                BY <4>5, NoTagIs DEF id, old
            <4>7. ASSUME NEW at \in Nat, NEW y \in R[at]
                  PROVE  at < cnt /\ (y.sub = "super" \/ y.val \in Names)
                <5>1. CASE at = id
                    BY <4>2, <4>3, <4>6, <5>1
                <5>2. CASE at # id
                    <6>1. y \in N[at]
                        BY <4>2, <5>2
                    <6>2. at < old /\ (y.sub = "super" \/ y.val \in Names)
                        BY <4>1, <6>1 DEF Ordered
                    <6> QED BY <4>5, <4>6, <6>2
                <5> QED BY <5>1, <5>2
            <4>8. ASSUME NEW at \in Nat, NEW y \in R[at], NEW z \in R[at] PROVE y = z
                <5>1. CASE at = id
                    BY <4>2, <5>1
                <5>2. CASE at # id
                    <6>1. y \in N[at] /\ z \in N[at]
                        BY <4>2, <5>2
                    <6> QED BY <4>1, <6>1 DEF Ordered
                <5> QED BY <5>1, <5>2
            <4>9. ASSUME NEW i \in Nat, NEW j \in Nat, NEW y \in R[i], NEW z \in R[j], i < j
                  PROVE  Less(y, z)
                <5>1. CASE i = id
                    <6>1. y = x /\ z \in N[j]
                        BY <4>2, <4>9, <5>1
                    <6> QED BY <4>4, <4>9, <5>1, <6>1
                <5>2. CASE j = id
                    <6>1. z = x /\ y \in N[i]
                        BY <4>2, <4>9, <5>2
                    <6> QED BY <4>4, <4>9, <5>2, <6>1
                <5>3. CASE i # id /\ j # id
                    <6>1. y \in N[i] /\ z \in N[j]
                        BY <4>2, <5>3
                    <6> QED BY <4>1, <4>9, <6>1 DEF Ordered
                <5> QED BY <5>1, <5>2, <5>3
            <4>10. Ordered(R, cnt)
                BY <4>6, <4>7, <4>8, <4>9 DEF Ordered
            <4> QED BY <4>10 DEF R
        <3>3. Slot(s, "name", u.id) = {}
            BY <1>5, <1>9
        <3>4. Ordered(NamesAt(Append(s, u)), IF u.id >= Cnt(s) THEN u.id + 1 ELSE Cnt(s))
            BY <3>2 DEF M
        <3>5. /\ Right(M) /\ Cnt(M) = IF u.id >= Cnt(s) THEN u.id + 1 ELSE Cnt(s)
              /\ Fresh0(M)
            BY <1>3, <1>4, <1>8, <1>9, <2>4, <3>1, <3>3, <3>4, RightName DEF M
        <3>6. Cnt(M) = 0 \/ \E i \in 1 .. Len(M) : M[i].kind = "name" /\ Cnt(M) = M[i].id + 1
            <4>1. CASE u.id >= Cnt(s)
                BY <1>1, <1>2, <1>9, <3>5, <4>1
            <4>2. CASE ~(u.id >= Cnt(s))
                <5>1. Cnt(M) = Cnt(s)
                    BY <3>5, <4>2
                <5>2. Cnt(s) = 0 \/ \E i \in 1 .. Len(s) : s[i].kind = "name" /\ Cnt(s) = s[i].id + 1
                    BY DEF NeatIs
                <5> QED BY <1>1, <1>2, <5>1, <5>2
            <4> QED BY <4>1, <4>2
        <3> QED BY <1>6, <2>2, <3>5, <3>6 DEF NeatIs, M
    <2> QED BY <2>3, <2>4 DEF M
<1>10. CASE u.kind # "name"
    <2>1. Right(M) /\ Cnt(M) = Cnt(s) /\ NamesAt(M) = NamesAt(s) /\ Fresh0(M)
        <3>1. CASE u.kind = "struct"
            <4>1. Slot(s, "struct", u.id) = {}
                BY <1>5, <3>1
            <4>2. OnlyDir(DataAt(s), u.id)
                BY <1>4, <4>1 DEF OnlyDir, DataAt
            <4>3. u.val # Gone
                BY <1>4, <3>1 DEF StoredTag
            <4> QED BY <1>4, <1>8, <3>1, <4>1, <4>2, <4>3, RightStruct DEF M
        <3>2. CASE u.kind # "struct"
            BY <1>4, <1>8, <1>10, <3>2, RightOther DEF M
        <3> QED BY <3>1, <3>2
    <2>2. \A at \in Nat : \A x \in NamesAt(M)[at] :
          \E i \in 1 .. Len(M) : /\ M[i].kind = "name" /\ M[i].id = at
                                 /\ x = [sub |-> M[i].sub, val |-> M[i].val]
        BY <1>1, <1>2, <1>7, <2>1
    <2>3. Cnt(M) = 0 \/ \E i \in 1 .. Len(M) : M[i].kind = "name" /\ Cnt(M) = M[i].id + 1
        <3>1. Cnt(s) = 0 \/ \E i \in 1 .. Len(s) : s[i].kind = "name" /\ Cnt(s) = s[i].id + 1
            BY DEF NeatIs
        <3> QED BY <1>1, <1>2, <2>1, <3>1
    <2> QED BY <1>6, <2>1, <2>2, <2>3 DEF NeatIs, M
<1> QED BY <1>9, <1>10

LEMMA NeatAll ==
    ASSUME NEW T, Stored(T)
    PROVE  \A e \in Seq(T) : Neat(e) => NeatIs(e)
<1> DEFINE P == {e \in Seq(T) : Neat(e) => NeatIs(e)}
<1>1. <<>> \in P
    <2> DEFINE e == <<>>
    <2>1. /\ Cnt(e) = 0 /\ TailOf(e) = Nil /\ SplitOf(e) = FALSE
          /\ \A n : NameBest(e, n) = NoTag
          /\ \A c : ChildBest(e, c) = NoTag
        BY ContentEmpty
    <2>2. \A at \in Nat : NamesAt(e)[at] = {} /\ DataAt(e)[at] = {}
        BY SlotEmpty DEF NamesAt, DataAt
    <2>3. e \in Seq(T)
        OBVIOUS
    <2> HIDE DEF e
    <2>4. Ordered(NamesAt(e), 0)
        BY <2>2, NoTagIs DEF Ordered
    <2>5. \A n : NameFits(NoTag, NamesAt(e), 0, n)
        BY <2>2, NoTagIs DEF NameFits
    <2>6. \A c : ChildFits(NoTag, DataAt(e), c)
        BY <2>2, NoTagIs DEF ChildFits
    <2>7. Right(e)
        BY <2>1, <2>4, <2>5, <2>6 DEF Right
    <2>8. Fresh0(e)
        BY <2>1 DEF Fresh0, NameFresh
    <2>9. NeatIs(e)
        BY <2>1, <2>2, <2>7, <2>8 DEF NeatIs
    <2> QED BY <2>3, <2>9 DEF e
<1>2. ASSUME NEW e \in P, NEW u \in T PROVE Append(e, u) \in P
    <2>1. e \in Seq(T) /\ Append(e, u) \in Seq(T)
        BY AppendIs
    <2>2. ASSUME Neat(Append(e, u)) PROVE NeatIs(Append(e, u))
        <3>1. Neat(e)
            BY <2>1, <2>2, NeatPrefix
        <3> QED BY <2>1, <2>2, <3>1, NeatNext
    <2> QED BY <2>1, <2>2
<1>3. P \subseteq Seq(T)
    OBVIOUS
<1> HIDE DEF P
<1>4. \A e \in Seq(T) : e \in P
    BY <1>1, <1>2, <1>3, LogInduction
<1> QED BY <1>4 DEF P

\* Each entry from `begin` to `end` has a name, and the names are in order.
Named(all, begin, end) ==
    /\ \A at \in begin .. end - 1 : Slot(all, "name", at) # {}
    /\ \A i, j \in Nat : \A x \in Slot(all, "name", i), y \in Slot(all, "name", j) :
          i < j => Less(x, y)

LEMMA KeptRight ==
    ASSUME NEW e, NEW all, NEW begin \in Nat, NEW end \in Nat, end <= NoId, begin <= end,
           CompactedAs(e, all, begin, end), Plain(e), \A i \in 1 .. Len(e) : e[i].kind \in Kinds,
           SuperFirst(all), Named(all, begin, end),
           \A i \in 1 .. Len(e) : e[i].id < NoId
    PROVE  Right(e) /\ Cnt(e) = end - begin /\ TailOf(e) = Nil /\ SplitOf(e) = FALSE
<1> DEFINE T == TagsOf(e)
           w == end - begin
<1>0. w \in Nat /\ w <= NoId /\ Len(e) \in Nat
    BY NoTagIs DEF CompactedAs
<1>1. /\ e \in Seq(T) /\ Stored(T) /\ Tags(T) /\ SuperFirst(e)
      /\ \A at \in Nat : Slot(e, "name", at) = IF at < w THEN Whole(all, "name", at + begin) ELSE {}
    BY DEF CompactedAs, Stored, Kinds
<1>2. \A at : Whole(all, "name", at) = Slot(all, "name", at)
    BY DEF Whole, MovedKinds
<1>3. ASSUME NEW i \in 1 .. Len(e), e[i].kind = "name"
      PROVE  /\ e[i].id \in Nat /\ e[i].id < w
             /\ [sub |-> e[i].sub, val |-> e[i].val] \in Slot(all, "name", e[i].id + begin)
    <2>1. e[i] \in T
        BY DEF TagsOf
    <2>2. StoredTag(e[i]) /\ e[i].id \in Nat
        BY <1>1, <2>1 DEF Stored, Tags
    <2>3. e[i].val # Gone
        BY <1>3, <2>2 DEF StoredTag
    <2>4. Slot(e, e[i].kind, e[i].id) =
              IF e[i].val = Gone THEN {} ELSE {[sub |-> e[i].sub, val |-> e[i].val]}
        BY <1>1, PlainSlot
    <2>5. [sub |-> e[i].sub, val |-> e[i].val] \in Slot(e, "name", e[i].id)
        BY <1>3, <2>3, <2>4
    <2>6. e[i].id < w
        BY <1>1, <2>2, <2>5
    <2> QED BY <1>1, <1>2, <2>2, <2>5, <2>6
<1>4. InOrder(e)
    <2> SUFFICES ASSUME NEW i \in 1 .. Len(e), NEW j \in 1 .. Len(e), e[i].kind = "name",
                        e[j].kind = "name", e[i].id < e[j].id
                 PROVE  Less(e[i], e[j])
        BY DEF InOrder
    <2> DEFINE x == [sub |-> e[i].sub, val |-> e[i].val]
               y == [sub |-> e[j].sub, val |-> e[j].val]
               p == e[i].id + begin
               q == e[j].id + begin
    <2>1. p \in Nat /\ q \in Nat /\ p < q
        <3> DEFINE a == e[i].id
                   b == e[j].id
        <3>1. a \in Nat /\ b \in Nat
            BY <1>3
        <3>2. a < b /\ p = a + begin /\ q = b + begin
            OBVIOUS
        <3> HIDE DEF a, b, p, q
        <3> QED BY <3>1, <3>2
    <2>2. x \in Slot(all, "name", p) /\ y \in Slot(all, "name", q)
        BY <1>3
    <2>3. x.sub = e[i].sub /\ x.val = e[i].val /\ y.sub = e[j].sub /\ y.val = e[j].val
        OBVIOUS
    <2> HIDE DEF x, y, p, q
    <2>4. Less(x, y)
        BY <2>1, <2>2 DEF Named
    <2> QED BY <2>3, <2>4 DEF Less
<1> HIDE DEF T
<1>5. Neat(e)
    BY <1>1, <1>4 DEF Neat
<1>6. NeatIs(e)
    BY <1>1, <1>5, NeatAll
<1>7. Cnt(e) = w
    <2>1. Cnt(e) \in Nat /\ Ordered(NamesAt(e), Cnt(e))
        BY <1>6 DEF NeatIs, Right, Ordered
    <2>2. Cnt(e) <= w
        <3>1. Cnt(e) = 0 \/ \E i \in 1 .. Len(e) : e[i].kind = "name" /\ Cnt(e) = e[i].id + 1
            BY <1>6 DEF NeatIs
        <3>2. CASE Cnt(e) = 0
            <4> HIDE DEF w
            <4> QED BY <1>0, <3>2
        <3>3. CASE \E i \in 1 .. Len(e) : e[i].kind = "name" /\ Cnt(e) = e[i].id + 1
            <4>1. PICK i \in 1 .. Len(e) : e[i].kind = "name" /\ Cnt(e) = e[i].id + 1
                BY <3>3
            <4> DEFINE a == e[i].id
            <4>2. a \in Nat /\ a < w
                BY <1>3, <4>1
            <4>3. Cnt(e) = a + 1
                BY <4>1
            <4> HIDE DEF a, w
            <4> QED BY <1>0, <4>2, <4>3
        <3> QED BY <3>1, <3>2, <3>3
    <2>3. w <= Cnt(e)
        <3>1. CASE w = 0
            BY <2>1, <3>1
        <3>2. CASE w # 0
            <4> DEFINE at == w - 1
            <4>1. at \in Nat /\ at < w /\ at + begin \in begin .. end - 1
                BY <1>0, <3>2
            <4>2. Slot(e, "name", at) # {}
                <5>1. Slot(all, "name", at + begin) # {}
                    BY <4>1 DEF Named
                <5> HIDE DEF at, w
                <5> QED BY <1>1, <1>2, <4>1, <5>1
            <4>3. PICK x : x \in NamesAt(e)[at]
                <5> HIDE DEF at, w
                <5> QED BY <4>1, <4>2 DEF NamesAt
            <4>4. at < Cnt(e)
                <5> HIDE DEF at, w
                <5> QED BY <2>1, <4>1, <4>3 DEF Ordered
            <4> QED BY <1>0, <2>1, <4>4
        <3> QED BY <3>1, <3>2
    <2> HIDE DEF w
    <2> QED BY <1>0, <2>1, <2>2, <2>3
<1> QED BY <1>6, <1>7 DEF NeatIs

\* What lfs_dir_compact has written, lfs_dir_fetchmatch finds.
LEMMA CompactedRight ==
    ASSUME NEW T, Written(T), NEW c, NEW all, all = store[c.pair] \o Changes(c), all \in Seq(T),
           Alone(all), SuperFirst(all), NEW begin \in Nat, NEW end \in Nat, begin <= end, end <= NoId,
           Named(all, begin, end), NEW tail, NEW split \in BOOLEAN, tail = Nil => split = FALSE
    PROVE  LET C == Compacted(c, begin, end, tail, split)
           IN /\ CompactedAs(C, all, begin, end) /\ Right(C) /\ Cnt(C) = end - begin
              /\ TailOf(C) = tail /\ SplitOf(C) = split
<1> DEFINE K == {"name", "struct", "attr", "from"}
           e == Emitted(Unique(all, Len(store[c.pair]), K, begin, end), -begin)
           m == IF tail = Nil THEN <<>> ELSE <<LinkTag(split, tail)>>
           C == Compacted(c, begin, end, tail, split)
<1>1. C = e \o m
    BY DEF Compacted
<1>2. K = Kinds \union {"from"}
    BY DEF Kinds
<1>3. CompactedAs(C, all, begin, end)
    BY CompactionKeeps
<1> HIDE DEF K, C
<1>4. /\ CompactedAs(e, all, begin, end) /\ Plain(e)
      /\ \A i \in 1 .. Len(e) : e[i].kind \in Kinds /\ e[i].id < NoId
    BY <1>2, KeptIs
<1> HIDE DEF e
<1>6. Right(e) /\ Cnt(e) = end - begin /\ TailOf(e) = Nil /\ SplitOf(e) = FALSE
    BY <1>4, KeptRight
<1>7. e \in Seq(TagsOf(e))
    BY <1>4 DEF CompactedAs
<1>8. CASE tail = Nil
    <2>1. C = e
        BY <1>1, <1>7, <1>8
    <2> QED BY <1>3, <1>6, <1>8, <2>1 DEF C
<1>9. CASE tail # Nil
    <2> DEFINE t == LinkTag(split, tail)
    <2>1. C = Append(e, t)
        <3> HIDE DEF t
        <3>1. m = <<t>>
            BY <1>9 DEF t
        <3> QED BY <1>1, <1>7, <3>1
    <2>2. t.kind = "tail" /\ t.val = tail /\ (t.sub = "hard") = split
        BY DEF LinkTag, Tag
    <2> HIDE DEF t
    <2> DEFINE S == TagsOf(C)
    <2>3. C \in Seq(S) /\ Tags(S)
        BY <1>3 DEF CompactedAs, Stored
    <2>4. Len(e) \in Nat /\ Len(C) = Len(e) + 1 /\ C[Len(e) + 1] = t /\ \A i \in 1 .. Len(e) : C[i] = e[i]
        BY <1>7, <2>1
    <2>5. t \in S /\ e \in Seq(S)
        <3>1. t \in S /\ \A i \in 1 .. Len(e) : e[i] \in S
            <4>1. Len(e) + 1 \in 1 .. Len(C) /\ \A i \in 1 .. Len(e) : i \in 1 .. Len(C)
                BY <2>4
            <4>2. \A i \in 1 .. Len(C) : C[i] \in S
                BY DEF TagsOf
            <4> QED BY <2>4, <4>1, <4>2
        <3> QED BY <1>7, <3>1
    <2> HIDE DEF S
    <2>6. Right(Append(e, t)) /\ Cnt(Append(e, t)) = Cnt(e)
        BY <1>6, <2>2, <2>3, <2>5, RightOther
    <2>7. TailOf(Append(e, t)) = tail /\ SplitOf(Append(e, t)) = (t.sub = "hard")
        BY <2>2, <2>5, ContentAppend
    <2> QED BY <1>3, <1>6, <2>1, <2>2, <2>6, <2>7 DEF C
<1> QED BY <1>8, <1>9

=============================================================================
