---------------------------- MODULE FilterProofs ----------------------------
(***************************************************************************)
(* What Filter does to a sequence, and the induction it takes to see it.   *)
(***************************************************************************)
EXTENDS Filters, SequencesExt, TLAPS, SequenceTheorems, FiniteSetTheorems,
        WellFoundedInduction

-----------------------------------------------------------------------------
(* Induction, with the property given as the set of what has it.            *)

LEMMA NatSetInduction ==
  ASSUME NEW S, 0 \in S, \A n \in Nat : n \in S => n + 1 \in S
  PROVE  Nat \subseteq S
<1> DEFINE R == {ss \in Nat \X Nat : ss[1] < ss[2]}
           Out == {n \in Nat : n \notin S}
<1> SUFFICES ASSUME Out # {} PROVE FALSE
  OBVIOUS
<1>1. IsWellFoundedOn(R, Nat)
  BY NatLessThanWellFounded DEF OpToRel
<1>2. PICK m \in Out : \A n \in Out : ~(<<n, m>> \in R)
  <2>1. Out \subseteq Nat
    OBVIOUS
  <2> HIDE DEF R, Out
  <2> QED BY <1>1, <2>1, WFMin
<1>3. m \in Nat /\ m # 0 /\ m \notin S
  OBVIOUS
<1>4. m - 1 \in Nat /\ m - 1 < m /\ (m - 1) + 1 = m
  BY <1>3, SMT
<1>5. m - 1 \notin S
  BY <1>3, <1>4
<1>6. m - 1 \in Out
  BY <1>4, <1>5
<1>7. <<m - 1, m>> \in R
  BY <1>3, <1>4
<1> QED BY <1>2, <1>6, <1>7

LEMMA SeqSetInduction ==
  ASSUME NEW X, NEW P, <<>> \in P,
         \A s \in Seq(X), x \in X : s \in P => Append(s, x) \in P
  PROVE  Seq(X) \subseteq P
<1> DEFINE S == {n \in Nat : \A s \in Seq(X) : Len(s) = n => s \in P}
<1>1. 0 \in S
  <2>1. \A s \in Seq(X) : Len(s) = 0 => s = <<>>
    BY EmptySeq
  <2> QED BY <2>1
<1>2. ASSUME NEW n \in Nat, n \in S PROVE n + 1 \in S
  <2> SUFFICES ASSUME NEW s \in Seq(X), Len(s) = n + 1 PROVE s \in P
    OBVIOUS
  <2> DEFINE front == [i \in 1 .. n |-> s[i]]
             x == s[n + 1]
  <2>1. front \in Seq(X) /\ Len(front) = n
    BY <1>2, SeqDef
  <2>2. x \in X
    BY <1>2
  <2>3. Append(front, x) = s
    <3>1. /\ Append(front, x) \in Seq(X) /\ Len(Append(front, x)) = n + 1
          /\ \A i \in 1 .. n : Append(front, x)[i] = front[i]
          /\ Append(front, x)[n + 1] = x
      <4> HIDE DEF front, x
      <4> QED BY <2>1, <2>2, AppendProperties
    <3>2. \A i \in 1 .. n + 1 : Append(front, x)[i] = s[i]
      <4> SUFFICES ASSUME NEW i \in 1 .. n + 1 PROVE Append(front, x)[i] = s[i]
        OBVIOUS
      <4>1. CASE i = n + 1
        BY <3>1, <4>1
      <4>2. CASE i # n + 1
        <5>1. i \in 1 .. n
          BY <4>2
        <5>2. front[i] = s[i]
          BY <5>1
        <5> QED BY <3>1, <5>1, <5>2
      <4> QED BY <4>1, <4>2
    <3> HIDE DEF front, x
    <3> QED BY <3>1, <3>2, SeqEqual
  <2>4. front \in P
    BY <1>2, <2>1
  <2> HIDE DEF front, x
  <2> QED BY <2>1, <2>2, <2>3, <2>4
<1>3. Nat \subseteq S
  <2> HIDE DEF S
  <2> QED BY <1>1, <1>2, NatSetInduction
<1>4. \A s \in Seq(X) : Len(s) \in Nat
  OBVIOUS
<1> QED BY <1>3, <1>4

-----------------------------------------------------------------------------
(* Picked follows its recursive definition, at every position.              *)

LEMMA PickedDef ==
  ASSUME NEW X, NEW s \in Seq(X), NEW wanted
  PROVE  Picked(s, wanted) =
           [i \in 0 .. Len(s) |->
              IF i = 0 THEN <<>>
              ELSE IF i \in wanted THEN Append(Picked(s, wanted)[i - 1], s[i])
                   ELSE Picked(s, wanted)[i - 1]]
<1> DEFINE Works(g, n) == g = [i \in 0 .. n |->
                                 IF i = 0 THEN <<>>
                                 ELSE IF i \in wanted THEN Append(g[i - 1], s[i]) ELSE g[i - 1]]
           S == {n \in Nat : \E g : Works(g, n)}
<1>1. 0 \in S
  <2> DEFINE g == [i \in 0 .. 0 |-> <<>>]
  <2>1. Works(g, 0)
    OBVIOUS
  <2> QED BY <2>1
<1>2. ASSUME NEW n \in Nat, n \in S PROVE n + 1 \in S
  <2>1. PICK g : Works(g, n)
    BY <1>2
  <2> DEFINE h == [i \in 0 .. n + 1 |->
                     IF i = n + 1
                     THEN IF i \in wanted THEN Append(g[n], s[i]) ELSE g[n]
                     ELSE g[i]]
  <2>2. \A i \in 0 .. n : h[i] = g[i]
    OBVIOUS
  <2>3. \A i \in 0 .. n + 1 : h[i] =
          IF i = 0 THEN <<>>
          ELSE IF i \in wanted THEN Append(h[i - 1], s[i]) ELSE h[i - 1]
    <3> SUFFICES ASSUME NEW i \in 0 .. n + 1
                 PROVE  h[i] = IF i = 0 THEN <<>>
                               ELSE IF i \in wanted THEN Append(h[i - 1], s[i]) ELSE h[i - 1]
      OBVIOUS
    <3>1. CASE i = n + 1
      <4>1. h[i - 1] = g[n]
        BY <2>2, <3>1
      <4> QED BY <3>1, <4>1
    <3>2. CASE i # n + 1
      <4>1. i \in 0 .. n
        BY <3>2
      <4>2. g[i] = IF i = 0 THEN <<>>
                   ELSE IF i \in wanted THEN Append(g[i - 1], s[i]) ELSE g[i - 1]
        BY <2>1, <4>1
      <4>3. i # 0 => h[i - 1] = g[i - 1]
        BY <2>2, <4>1
      <4> QED BY <2>2, <4>1, <4>2, <4>3
    <3> QED BY <3>1, <3>2
  <2>4. Works(h, n + 1)
    <3> DEFINE k == [i \in 0 .. n + 1 |->
                       IF i = 0 THEN <<>>
                       ELSE IF i \in wanted THEN Append(h[i - 1], s[i]) ELSE h[i - 1]]
    <3>1. h = [i \in 0 .. n + 1 |-> h[i]]
      OBVIOUS
    <3>2. k = [i \in 0 .. n + 1 |-> k[i]] /\ \A i \in 0 .. n + 1 : k[i] = h[i]
      <4> HIDE DEF h
      <4> QED BY <2>3
    <3>3. h = k
      <4> HIDE DEF h, k
      <4> QED BY <3>1, <3>2, Zenon
    <3> HIDE DEF h
    <3> QED BY <3>3
  <2> HIDE DEF h, Works
  <2> QED BY <2>4
<1>3. Nat \subseteq S
  <2> HIDE DEF S
  <2> QED BY <1>1, <1>2, NatSetInduction
<1>4. \E g : Works(g, Len(s))
  <2>1. Len(s) \in S
    <3> HIDE DEF S
    <3> QED BY <1>3
  <2> HIDE DEF Works
  <2> QED BY <2>1
<1>5. Picked(s, wanted) = CHOOSE g : Works(g, Len(s))
  BY DEF Picked
<1>6. Works(Picked(s, wanted), Len(s))
  <2> HIDE DEF Works
  <2> QED BY <1>4, <1>5
<1> QED BY <1>6

LEMMA PickedZero ==
  ASSUME NEW X, NEW s \in Seq(X), NEW wanted
  PROVE  Picked(s, wanted)[0] = <<>>
<1> DEFINE f == Picked(s, wanted)
<1>1. f = [i \in 0 .. Len(s) |->
             IF i = 0 THEN <<>>
             ELSE IF i \in wanted THEN Append(f[i - 1], s[i]) ELSE f[i - 1]]
  BY PickedDef
<1> HIDE DEF f
<1>2. f[0] = <<>>
  BY <1>1
<1> QED BY <1>2 DEF f

LEMMA PickOfNothing == \A wanted : Pick(<<>>, wanted) = <<>>
<1>1. \A X : \A s \in Seq(X) : \A wanted : Len(s) = 0 => Pick(s, wanted) = <<>>
  <2> SUFFICES ASSUME NEW X, NEW s \in Seq(X), NEW wanted, Len(s) = 0
               PROVE  Pick(s, wanted) = <<>>
    OBVIOUS
  <2> QED BY PickedZero DEF Pick
<1>2. <<>> \in Seq({}) /\ Len(<<>>) = 0
  OBVIOUS
<1> QED BY <1>1, <1>2, Zenon

-----------------------------------------------------------------------------
(* Filter: what is wanted is given by the elements, not by their positions.  *)

Filtered(s, keep) == Picked(s, {i \in DOMAIN s : s[i] \in keep})

Filter(s, keep) == Filtered(s, keep)[Len(s)]

LEMMA FilterIsPick ==
  ASSUME NEW s, NEW keep, NEW wanted, wanted = {i \in DOMAIN s : s[i] \in keep}
  PROVE  Pick(s, wanted) = Filter(s, keep)
  BY DEF Pick, Filter, Filtered

LEMMA FilteredDef ==
  ASSUME NEW X, NEW s \in Seq(X), NEW keep
  PROVE  Filtered(s, keep) =
           [i \in 0 .. Len(s) |->
              IF i = 0 THEN <<>>
              ELSE IF s[i] \in keep THEN Append(Filtered(s, keep)[i - 1], s[i])
                   ELSE Filtered(s, keep)[i - 1]]
<1> DEFINE wanted == {i \in DOMAIN s : s[i] \in keep}
           f == Filtered(s, keep)
           g == [i \in 0 .. Len(s) |->
                   IF i = 0 THEN <<>>
                   ELSE IF i \in wanted THEN Append(f[i - 1], s[i]) ELSE f[i - 1]]
           h == [i \in 0 .. Len(s) |->
                   IF i = 0 THEN <<>>
                   ELSE IF s[i] \in keep THEN Append(f[i - 1], s[i]) ELSE f[i - 1]]
<1>1. f = g
  <2>1. f = Picked(s, wanted)
    BY DEF Filtered
  <2> HIDE DEF wanted, f
  <2> QED BY <2>1, PickedDef
<1>2. \A i \in 0 .. Len(s) : i # 0 => (i \in wanted <=> s[i] \in keep)
  OBVIOUS
<1>3. g = h
  <2> HIDE DEF wanted, f
  <2>1. \A i \in 0 .. Len(s) : g[i] = h[i]
    BY <1>2
  <2>2. g = [i \in 0 .. Len(s) |-> g[i]] /\ h = [i \in 0 .. Len(s) |-> h[i]]
    OBVIOUS
  <2> HIDE DEF g, h
  <2> QED BY <2>1, <2>2, Zenon
<1>4. f = h
  BY <1>1, <1>3
<1> QED BY <1>4

-----------------------------------------------------------------------------
(* Filter, by what it does to the last element.                             *)

LEMMA FilteredAt ==
  ASSUME NEW X, NEW s \in Seq(X), NEW keep, NEW i \in 0 .. Len(s)
  PROVE  Filtered(s, keep)[i] =
           IF i = 0 THEN <<>>
           ELSE IF s[i] \in keep THEN Append(Filtered(s, keep)[i - 1], s[i])
                ELSE Filtered(s, keep)[i - 1]
<1> DEFINE f == Filtered(s, keep)
<1>1. f = [j \in 0 .. Len(s) |->
             IF j = 0 THEN <<>>
             ELSE IF s[j] \in keep THEN Append(f[j - 1], s[j]) ELSE f[j - 1]]
  BY FilteredDef
<1> HIDE DEF f
<1>2. f[i] = IF i = 0 THEN <<>>
             ELSE IF s[i] \in keep THEN Append(f[i - 1], s[i]) ELSE f[i - 1]
  BY <1>1
<1> QED BY <1>2 DEF f

LEMMA FilteredOfPrefix ==
  ASSUME NEW X, NEW s \in Seq(X), NEW x \in X, NEW keep
  PROVE  \A i \in 0 .. Len(s) : Filtered(Append(s, x), keep)[i] = Filtered(s, keep)[i]
<1> DEFINE t == Append(s, x)
           S == {i \in Nat : i <= Len(s) => Filtered(t, keep)[i] = Filtered(s, keep)[i]}
<1>1. /\ t \in Seq(X) /\ Len(t) = Len(s) + 1 /\ Len(s) \in Nat
      /\ \A i \in 1 .. Len(s) : t[i] = s[i]
  BY AppendProperties
<1> HIDE DEF t
<1>2. 0 \in S
  BY <1>1, FilteredAt
<1>3. ASSUME NEW i \in Nat, i \in S PROVE i + 1 \in S
  <2> SUFFICES ASSUME i + 1 <= Len(s)
               PROVE  Filtered(t, keep)[i + 1] = Filtered(s, keep)[i + 1]
    OBVIOUS
  <2>1. i + 1 \in 0 .. Len(s) /\ i + 1 \in 0 .. Len(t) /\ i + 1 # 0 /\ i + 1 - 1 = i
    BY <1>1
  <2>2. t[i + 1] = s[i + 1] /\ Filtered(t, keep)[i] = Filtered(s, keep)[i]
    BY <1>1, <1>3, <2>1
  <2>3. Filtered(t, keep)[i + 1] = IF t[i + 1] \in keep
          THEN Append(Filtered(t, keep)[i], t[i + 1]) ELSE Filtered(t, keep)[i]
    BY <1>1, <2>1, FilteredAt
  <2>4. Filtered(s, keep)[i + 1] = IF s[i + 1] \in keep
          THEN Append(Filtered(s, keep)[i], s[i + 1]) ELSE Filtered(s, keep)[i]
    <3> DEFINE j == i + 1
    <3>1. j \in 0 .. Len(s) /\ j # 0 /\ j - 1 = i
      BY <2>1
    <3> HIDE DEF j
    <3>2. Filtered(s, keep)[j] = IF s[j] \in keep
            THEN Append(Filtered(s, keep)[j - 1], s[j]) ELSE Filtered(s, keep)[j - 1]
      BY <3>1, FilteredAt
    <3> QED BY <3>1, <3>2 DEF j
  <2> QED BY <2>2, <2>3, <2>4
<1>4. Nat \subseteq S
  <2> HIDE DEF S
  <2> QED BY <1>2, <1>3, NatSetInduction
<1> QED BY <1>4 DEF t

LEMMA FilteredZero ==
  ASSUME NEW X, NEW s \in Seq(X), NEW keep
  PROVE  Filtered(s, keep)[0] = <<>>
<1> DEFINE f == Filtered(s, keep)
<1>1. f = [j \in 0 .. Len(s) |->
             IF j = 0 THEN <<>>
             ELSE IF s[j] \in keep THEN Append(f[j - 1], s[j]) ELSE f[j - 1]]
  BY FilteredDef
<1> HIDE DEF f
<1>2. f[0] = <<>>
  BY <1>1
<1> QED BY <1>2 DEF f

LEMMA FilterOfNothing ==
  ASSUME NEW X, NEW s \in Seq(X), NEW keep, Len(s) = 0
  PROVE  Filter(s, keep) = <<>>
  BY FilteredZero DEF Filter

LEMMA FilterEmpty == ASSUME NEW keep PROVE Filter(<<>>, keep) = <<>>
<1>1. \A X : \A s \in Seq(X) : Len(s) = 0 => Filter(s, keep) = <<>>
  BY FilterOfNothing
<1>2. <<>> \in Seq({}) /\ Len(<<>>) = 0
  OBVIOUS
<1> QED BY <1>1, <1>2, Zenon

LEMMA FilterAppend ==
  ASSUME NEW X, NEW s \in Seq(X), NEW x \in X, NEW keep
  PROVE  Filter(Append(s, x), keep) =
           IF x \in keep THEN Append(Filter(s, keep), x) ELSE Filter(s, keep)
<1> DEFINE t == Append(s, x)
<1>1. /\ t \in Seq(X) /\ Len(t) = Len(s) + 1 /\ Len(s) \in Nat /\ t[Len(s) + 1] = x
  BY AppendProperties
<1>2. Filtered(t, keep)[Len(s)] = Filtered(s, keep)[Len(s)]
  BY <1>1, FilteredOfPrefix
<1> HIDE DEF t
<1>3. Len(t) \in 0 .. Len(t) /\ Len(t) # 0 /\ Len(t) - 1 = Len(s)
  BY <1>1
<1>4. Filtered(t, keep)[Len(t)] = IF t[Len(t)] \in keep
        THEN Append(Filtered(t, keep)[Len(t) - 1], t[Len(t)]) ELSE Filtered(t, keep)[Len(t) - 1]
  BY <1>1, <1>3, FilteredAt
<1> QED BY <1>1, <1>2, <1>3, <1>4 DEF t, Filter

-----------------------------------------------------------------------------
(* Filter, as a query.                                                      *)

LEMMA FilterType ==
  ASSUME NEW X, NEW s \in Seq(X), NEW keep
  PROVE  Filter(s, keep) \in Seq(X \cap keep) /\ Filter(s, keep) \in Seq(X)
<1> DEFINE P == {t \in Seq(X) : Filter(t, keep) \in Seq(X \cap keep)}
<1>1. <<>> \in P
  BY FilterEmpty, EmptySeq
<1>2. ASSUME NEW t \in Seq(X), NEW x \in X, t \in P PROVE Append(t, x) \in P
  <2>1. Append(t, x) \in Seq(X) /\ Filter(t, keep) \in Seq(X \cap keep)
    BY <1>2, AppendProperties
  <2>2. CASE x \in keep
    <3>1. Filter(Append(t, x), keep) = Append(Filter(t, keep), x)
      BY <2>2, FilterAppend
    <3>2. Append(Filter(t, keep), x) \in Seq(X \cap keep)
      BY <2>1, <2>2, AppendProperties
    <3> QED BY <2>1, <3>1, <3>2
  <2>3. CASE x \notin keep
    <3>1. Filter(Append(t, x), keep) = Filter(t, keep)
      BY <2>3, FilterAppend
    <3> QED BY <2>1, <3>1
  <2> QED BY <2>2, <2>3
<1>3. Seq(X) \subseteq P
  <2> HIDE DEF P
  <2> QED BY <1>1, <1>2, SeqSetInduction
<1>4. Filter(s, keep) \in Seq(X \cap keep)
  BY <1>3
<1>5. Seq(X \cap keep) \subseteq Seq(X)
  BY SeqDef
<1> QED BY <1>4, <1>5

LEMMA AppendElements ==
  ASSUME NEW X, NEW s \in Seq(X), NEW x \in X
  PROVE  ToSet(Append(s, x)) = ToSet(s) \cup {x}
<1>1. /\ Len(Append(s, x)) = Len(s) + 1 /\ Len(s) \in Nat
      /\ \A i \in 1 .. Len(s) : Append(s, x)[i] = s[i]
      /\ Append(s, x)[Len(s) + 1] = x
  BY AppendProperties
<1>2. \A i \in 1 .. Len(s) + 1 : i = Len(s) + 1 \/ i \in 1 .. Len(s)
  BY <1>1
<1>3. \A i \in 1 .. Len(s) : i \in 1 .. Len(s) + 1
  BY <1>1
<1>4. Len(s) + 1 \in 1 .. Len(s) + 1
  BY <1>1
<1> QED BY <1>1, <1>2, <1>3, <1>4 DEF ToSet

LEMMA FilterElements ==
  ASSUME NEW X, NEW s \in Seq(X), NEW keep
  PROVE  ToSet(Filter(s, keep)) = ToSet(s) \cap keep
<1> DEFINE P == {t \in Seq(X) : ToSet(Filter(t, keep)) = ToSet(t) \cap keep}
<1>1. <<>> \in P
  <2>1. ToSet(<<>>) = {}
    BY DEF ToSet
  <2> QED BY <2>1, FilterEmpty
<1>2. ASSUME NEW t \in Seq(X), NEW x \in X, t \in P PROVE Append(t, x) \in P
  <2>1. ToSet(Append(t, x)) = ToSet(t) \cup {x} /\ Append(t, x) \in Seq(X)
    BY AppendElements, AppendProperties
  <2>2. CASE x \in keep
    <3>0. Filter(t, keep) \in Seq(X)
      BY FilterType
    <3>1. Filter(Append(t, x), keep) = Append(Filter(t, keep), x)
      BY <2>2, FilterAppend
    <3>2. ToSet(Filter(Append(t, x), keep)) = ToSet(Filter(t, keep)) \cup {x}
      BY <3>0, <3>1, AppendElements
    <3> QED BY <1>2, <2>1, <2>2, <3>2
  <2>3. CASE x \notin keep
    BY <1>2, <2>1, <2>3, FilterAppend
  <2> QED BY <2>2, <2>3
<1>3. Seq(X) \subseteq P
  <2> HIDE DEF P
  <2> QED BY <1>1, <1>2, SeqSetInduction
<1> QED BY <1>3

LEMMA ConcatAppend ==
  ASSUME NEW X, NEW s \in Seq(X), NEW t \in Seq(X), NEW x \in X
  PROVE  s \o Append(t, x) = Append(s \o t, x)
  OBVIOUS

LEMMA FilterConcat ==
  ASSUME NEW X, NEW s \in Seq(X), NEW t \in Seq(X), NEW keep
  PROVE  Filter(s \o t, keep) = Filter(s, keep) \o Filter(t, keep)
<1> DEFINE P == {u \in Seq(X) : Filter(s \o u, keep) = Filter(s, keep) \o Filter(u, keep)}
<1>0. Filter(s, keep) \in Seq(X)
  BY FilterType
<1>1. <<>> \in P
  BY <1>0, FilterEmpty, ConcatEmptySeq
<1>2. ASSUME NEW u \in Seq(X), NEW x \in X, u \in P PROVE Append(u, x) \in P
  <2>1. s \o Append(u, x) = Append(s \o u, x) /\ s \o u \in Seq(X) /\ Append(u, x) \in Seq(X)
    BY ConcatAppend, ConcatProperties, AppendProperties
  <2>2. Filter(u, keep) \in Seq(X)
    BY FilterType
  <2>3. CASE x \in keep
    <3>1. Filter(s \o Append(u, x), keep) = Append(Filter(s \o u, keep), x)
      BY <2>1, <2>3, FilterAppend
    <3>2. Filter(Append(u, x), keep) = Append(Filter(u, keep), x)
      BY <2>3, FilterAppend
    <3>3. Filter(s, keep) \o Append(Filter(u, keep), x) = Append(Filter(s, keep) \o Filter(u, keep), x)
      BY <1>0, <2>2, ConcatAppend
    <3> QED BY <1>2, <2>1, <3>1, <3>2, <3>3
  <2>4. CASE x \notin keep
    <3>1. Filter(s \o Append(u, x), keep) = Filter(s \o u, keep)
      BY <2>1, <2>4, FilterAppend
    <3>2. Filter(Append(u, x), keep) = Filter(u, keep)
      BY <2>4, FilterAppend
    <3> QED BY <1>2, <2>1, <3>1, <3>2
  <2> QED BY <2>3, <2>4
<1>3. Seq(X) \subseteq P
  <2> HIDE DEF P
  <2> QED BY <1>1, <1>2, SeqSetInduction
<1> QED BY <1>3

LEMMA FilterAgree ==
  ASSUME NEW X, NEW s \in Seq(X), NEW K, NEW L, ToSet(s) \cap K = ToSet(s) \cap L
  PROVE  Filter(s, K) = Filter(s, L)
<1> DEFINE P == {t \in Seq(X) : ToSet(t) \cap K = ToSet(t) \cap L
                                 => Filter(t, K) = Filter(t, L)}
<1>1. <<>> \in P
  BY FilterEmpty, EmptySeq
<1>2. ASSUME NEW t \in Seq(X), NEW x \in X, t \in P PROVE Append(t, x) \in P
  <2>1. ToSet(Append(t, x)) = ToSet(t) \cup {x} /\ Append(t, x) \in Seq(X)
    BY AppendElements, AppendProperties
  <2> SUFFICES ASSUME ToSet(Append(t, x)) \cap K = ToSet(Append(t, x)) \cap L
               PROVE  Filter(Append(t, x), K) = Filter(Append(t, x), L)
    BY <2>1
  <2>2. (x \in K <=> x \in L) /\ Filter(t, K) = Filter(t, L)
    BY <1>2, <2>1
  <2>3. CASE x \in K
    <3>1. Filter(Append(t, x), K) = Append(Filter(t, K), x)
      BY <2>3, FilterAppend
    <3>2. Filter(Append(t, x), L) = Append(Filter(t, L), x)
      BY <2>2, <2>3, FilterAppend
    <3> QED BY <2>2, <3>1, <3>2
  <2>4. CASE x \notin K
    <3>1. Filter(Append(t, x), K) = Filter(t, K)
      BY <2>4, FilterAppend
    <3>2. Filter(Append(t, x), L) = Filter(t, L)
      BY <2>2, <2>4, FilterAppend
    <3> QED BY <2>2, <3>1, <3>2
  <2> QED BY <2>3, <2>4
<1>3. Seq(X) \subseteq P
  <2> HIDE DEF P
  <2> QED BY <1>1, <1>2, SeqSetInduction
<1> QED BY <1>3

LEMMA ElementsType ==
  ASSUME NEW X, NEW s \in Seq(X)
  PROVE  ToSet(s) \subseteq X
  BY DEF ToSet

LEMMA FilterAll ==
  ASSUME NEW X, NEW s \in Seq(X), NEW keep, ToSet(s) \subseteq keep
  PROVE  Filter(s, keep) = s
<1> DEFINE P == {t \in Seq(X) : Filter(t, X) = t}
<1>1. <<>> \in P
  BY FilterEmpty, EmptySeq
<1>2. ASSUME NEW t \in Seq(X), NEW x \in X, t \in P PROVE Append(t, x) \in P
  <2>1. Filter(Append(t, x), X) = Append(Filter(t, X), x)
    BY FilterAppend
  <2> QED BY <1>2, <2>1, AppendProperties
<1>3. Seq(X) \subseteq P
  <2> HIDE DEF P
  <2> QED BY <1>1, <1>2, SeqSetInduction
<1>4. Filter(s, X) = s
  BY <1>3
<1>5. ToSet(s) \cap keep = ToSet(s) \cap X
  BY ElementsType
<1>6. Filter(s, keep) = Filter(s, X)
  BY <1>5, FilterAgree
<1> QED BY <1>4, <1>6

LEMMA FilterNone ==
  ASSUME NEW X, NEW s \in Seq(X), NEW keep, ToSet(s) \cap keep = {}
  PROVE  Filter(s, keep) = <<>>
<1> DEFINE t == Filter(s, keep)
<1>1. t \in Seq(X) /\ ToSet(t) = {}
  BY FilterType, FilterElements
<1> HIDE DEF t
<1>2. Len(t) \in Nat /\ (Len(t) # 0 => t[1] \in ToSet(t))
  BY <1>1 DEF ToSet
<1>3. Len(t) = 0
  BY <1>1, <1>2
<1>4. t = <<>>
  BY <1>1, <1>3, EmptySeq
<1> QED BY <1>4 DEF t

LEMMA FilterFilter ==
  ASSUME NEW X, NEW s \in Seq(X), NEW K, NEW L
  PROVE  Filter(Filter(s, K), L) = Filter(s, K \cap L)
<1> DEFINE P == {t \in Seq(X) : Filter(Filter(t, K), L) = Filter(t, K \cap L)}
<1>1. <<>> \in P
  BY FilterEmpty, EmptySeq
<1>2. ASSUME NEW t \in Seq(X), NEW x \in X, t \in P PROVE Append(t, x) \in P
  <2>1. Append(t, x) \in Seq(X) /\ Filter(t, K) \in Seq(X)
    BY AppendProperties, FilterType
  <2>2. CASE x \in K
    <3>1. Filter(Append(t, x), K) = Append(Filter(t, K), x)
      BY <2>2, FilterAppend
    <3>2. CASE x \in L
      <4>1. Filter(Append(Filter(t, K), x), L) = Append(Filter(Filter(t, K), L), x)
        BY <2>1, <3>2, FilterAppend
      <4>2. Filter(Append(t, x), K \cap L) = Append(Filter(t, K \cap L), x)
        <5> DEFINE both == K \cap L
        <5>1. x \in both
          BY <2>2, <3>2
        <5> HIDE DEF both
        <5>2. Filter(Append(t, x), both) = Append(Filter(t, both), x)
          BY <5>1, FilterAppend
        <5> QED BY <5>2 DEF both
      <4> QED BY <1>2, <2>1, <3>1, <4>1, <4>2
    <3>3. CASE x \notin L
      <4>1. Filter(Append(Filter(t, K), x), L) = Filter(Filter(t, K), L)
        BY <2>1, <3>3, FilterAppend
      <4>2. Filter(Append(t, x), K \cap L) = Filter(t, K \cap L)
        BY <3>3, FilterAppend
      <4> QED BY <1>2, <2>1, <3>1, <4>1, <4>2
    <3> QED BY <3>2, <3>3
  <2>3. CASE x \notin K
    <3>1. Filter(Append(t, x), K) = Filter(t, K)
      BY <2>3, FilterAppend
    <3>2. Filter(Append(t, x), K \cap L) = Filter(t, K \cap L)
      BY <2>3, FilterAppend
    <3> QED BY <1>2, <2>1, <3>1, <3>2
  <2> QED BY <2>2, <2>3
<1>3. Seq(X) \subseteq P
  <2> HIDE DEF P
  <2> QED BY <1>1, <1>2, SeqSetInduction
<1> QED BY <1>3

-----------------------------------------------------------------------------
(* Sequences without repetitions, by a key of their elements.               *)

Distinct(s, key) == \A i, j \in 1 .. Len(s) : key[s[i]] = key[s[j]] => i = j

LEMMA DistinctAppend ==
  ASSUME NEW X, NEW s \in Seq(X), NEW x \in X, NEW key
  PROVE  Distinct(Append(s, x), key)
           <=> Distinct(s, key) /\ \A y \in ToSet(s) : key[y] # key[x]
<1> DEFINE t == Append(s, x)
<1>1. /\ Len(t) = Len(s) + 1 /\ Len(s) \in Nat
      /\ \A i \in 1 .. Len(s) : t[i] = s[i]
      /\ t[Len(s) + 1] = x
  BY AppendProperties
<1> HIDE DEF t
<1>2. \A i \in 1 .. Len(t) : i = Len(s) + 1 \/ i \in 1 .. Len(s)
  BY <1>1
<1>3. \A i \in 1 .. Len(s) : i \in 1 .. Len(t) /\ i # Len(s) + 1
  BY <1>1
<1>4. Len(s) + 1 \in 1 .. Len(t)
  BY <1>1
<1>5. ASSUME Distinct(t, key)
      PROVE  Distinct(s, key) /\ \A y \in ToSet(s) : key[y] # key[x]
  BY <1>1, <1>3, <1>4, <1>5 DEF Distinct, ToSet
<1>6. ASSUME Distinct(s, key), \A y \in ToSet(s) : key[y] # key[x]
      PROVE  Distinct(t, key)
  <2>1. \A i \in 1 .. Len(s) : key[s[i]] # key[x]
    BY <1>6 DEF ToSet
  <2> SUFFICES ASSUME NEW i \in 1 .. Len(t), NEW j \in 1 .. Len(t), key[t[i]] = key[t[j]]
               PROVE  i = j
    BY DEF Distinct
  <2>2. CASE i = Len(s) + 1
    BY <1>1, <1>2, <2>1, <2>2
  <2>3. CASE i \in 1 .. Len(s)
    <3>1. CASE j = Len(s) + 1
      BY <1>1, <2>1, <2>3, <3>1
    <3>2. CASE j \in 1 .. Len(s)
      BY <1>1, <1>6, <2>3, <3>2 DEF Distinct
    <3> QED BY <1>2, <3>1, <3>2
  <2> QED BY <1>2, <2>2, <2>3
<1> QED BY <1>5, <1>6 DEF t

LEMMA FilterDistinct ==
  ASSUME NEW X, NEW s \in Seq(X), NEW keep, NEW key, Distinct(s, key)
  PROVE  Distinct(Filter(s, keep), key)
<1> DEFINE P == {t \in Seq(X) : Distinct(t, key) => Distinct(Filter(t, keep), key)}
<1>1. <<>> \in P
  <2>1. Distinct(<<>>, key)
    BY DEF Distinct
  <2> QED BY <2>1, FilterEmpty, EmptySeq
<1>2. ASSUME NEW t \in Seq(X), NEW x \in X, t \in P PROVE Append(t, x) \in P
  <2>1. Append(t, x) \in Seq(X) /\ Filter(t, keep) \in Seq(X)
    BY AppendProperties, FilterType
  <2> SUFFICES ASSUME Distinct(Append(t, x), key)
               PROVE  Distinct(Filter(Append(t, x), keep), key)
    BY <2>1
  <2>2. Distinct(t, key) /\ \A y \in ToSet(t) : key[y] # key[x]
    BY DistinctAppend
  <2>3. Distinct(Filter(t, keep), key) /\ \A y \in ToSet(Filter(t, keep)) : key[y] # key[x]
    BY <1>2, <2>2, FilterElements
  <2>4. Distinct(Append(Filter(t, keep), x), key)
    BY <2>1, <2>3, DistinctAppend
  <2>5. CASE x \in keep
    <3>1. Filter(Append(t, x), keep) = Append(Filter(t, keep), x)
      BY <2>5, FilterAppend
    <3> QED BY <2>4, <3>1
  <2>6. CASE x \notin keep
    <3>1. Filter(Append(t, x), keep) = Filter(t, keep)
      BY <2>6, FilterAppend
    <3> QED BY <2>3, <3>1
  <2> QED BY <2>5, <2>6
<1>3. Seq(X) \subseteq P
  <2> HIDE DEF P
  <2> QED BY <1>1, <1>2, SeqSetInduction
<1> QED BY <1>3

LEMMA ConcatElements ==
  ASSUME NEW X, NEW s \in Seq(X), NEW t \in Seq(X)
  PROVE  ToSet(s \o t) = ToSet(s) \cup ToSet(t)
<1> DEFINE P == {u \in Seq(X) : ToSet(s \o u) = ToSet(s) \cup ToSet(u)}
<1>1. <<>> \in P
  <2>1. ToSet(<<>>) = {}
    BY DEF ToSet
  <2> QED BY <2>1, ConcatEmptySeq, EmptySeq
<1>2. ASSUME NEW u \in Seq(X), NEW x \in X, u \in P PROVE Append(u, x) \in P
  <2>1. s \o Append(u, x) = Append(s \o u, x) /\ s \o u \in Seq(X) /\ Append(u, x) \in Seq(X)
    BY ConcatAppend, ConcatProperties, AppendProperties
  <2>2. ToSet(Append(s \o u, x)) = ToSet(s \o u) \cup {x}
    <3> DEFINE v == s \o u
    <3>1. v \in Seq(X)
      BY <2>1
    <3> HIDE DEF v
    <3>2. ToSet(Append(v, x)) = ToSet(v) \cup {x}
      BY <3>1, AppendElements
    <3> QED BY <3>2 DEF v
  <2>3. ToSet(Append(u, x)) = ToSet(u) \cup {x}
    BY AppendElements
  <2> QED BY <1>2, <2>1, <2>2, <2>3
<1>3. Seq(X) \subseteq P
  <2> HIDE DEF P
  <2> QED BY <1>1, <1>2, SeqSetInduction
<1> QED BY <1>3

LEMMA ConcatDistinct ==
  ASSUME NEW X, NEW s \in Seq(X), NEW t \in Seq(X), NEW key,
         Distinct(s, key), Distinct(t, key),
         \A x \in ToSet(s), y \in ToSet(t) : key[x] # key[y]
  PROVE  Distinct(s \o t, key)
<1>1. /\ Len(s \o t) = Len(s) + Len(t) /\ Len(s) \in Nat /\ Len(t) \in Nat
      /\ \A i \in 1 .. Len(s) + Len(t) :
           (s \o t)[i] = IF i <= Len(s) THEN s[i] ELSE t[i - Len(s)]
  BY ConcatProperties
<1> DEFINE u == s \o t
<1> HIDE DEF u
<1>2. ASSUME NEW i \in 1 .. Len(u)
      PROVE  \/ i \in 1 .. Len(s) /\ u[i] = s[i]
             \/ i - Len(s) \in 1 .. Len(t) /\ u[i] = t[i - Len(s)]
  BY <1>1 DEF u
<1>3. \A i \in 1 .. Len(s) : s[i] \in ToSet(s)
  BY DEF ToSet
<1>4. \A i \in 1 .. Len(t) : t[i] \in ToSet(t)
  BY DEF ToSet
<1>5. ASSUME NEW i \in 1 .. Len(u), NEW j \in 1 .. Len(u), key[u[i]] = key[u[j]]
      PROVE  i = j
  <2>1. CASE i \in 1 .. Len(s) /\ u[i] = s[i]
    <3>1. ~(j - Len(s) \in 1 .. Len(t) /\ u[j] = t[j - Len(s)])
      BY <1>3, <1>4, <1>5, <2>1
    <3>2. j \in 1 .. Len(s) /\ u[j] = s[j]
      BY <1>2, <3>1
    <3> QED BY <1>5, <2>1, <3>2 DEF Distinct
  <2>2. CASE i - Len(s) \in 1 .. Len(t) /\ u[i] = t[i - Len(s)]
    <3>1. ~(j \in 1 .. Len(s) /\ u[j] = s[j])
      BY <1>3, <1>4, <1>5, <2>2
    <3>2. j - Len(s) \in 1 .. Len(t) /\ u[j] = t[j - Len(s)]
      BY <1>2, <3>1
    <3>3. i - Len(s) = j - Len(s)
      BY <1>5, <2>2, <3>2 DEF Distinct
    <3>4. i \in Nat /\ j \in Nat
      BY <1>1 DEF u
    <3> QED BY <1>1, <3>3, <3>4
  <2> QED BY <1>2, <2>1, <2>2
<1> QED BY <1>5 DEF Distinct, u

-----------------------------------------------------------------------------
(* Filtering two sequences alike.                                           *)

LEMMA FilteredType ==
  ASSUME NEW X, NEW s \in Seq(X), NEW keep, NEW i \in Nat, i <= Len(s)
  PROVE  Filtered(s, keep)[i] \in Seq(X)
<1> DEFINE S == {n \in Nat : n <= Len(s) => Filtered(s, keep)[n] \in Seq(X)}
<1>1. 0 \in S
  BY FilteredZero, EmptySeq
<1>2. ASSUME NEW n \in Nat, n \in S PROVE n + 1 \in S
  <2> SUFFICES ASSUME n + 1 <= Len(s) PROVE Filtered(s, keep)[n + 1] \in Seq(X)
    OBVIOUS
  <2>1. n + 1 \in 0 .. Len(s) /\ n + 1 # 0 /\ n + 1 - 1 = n /\ s[n + 1] \in X
    OBVIOUS
  <2>2. Filtered(s, keep)[n] \in Seq(X)
    BY <1>2
  <2>3. Filtered(s, keep)[n + 1] = IF s[n + 1] \in keep
          THEN Append(Filtered(s, keep)[n], s[n + 1]) ELSE Filtered(s, keep)[n]
    BY <2>1, FilteredAt
  <2>4. Append(Filtered(s, keep)[n], s[n + 1]) \in Seq(X)
    BY <2>1, <2>2, AppendProperties
  <2> QED BY <2>2, <2>3, <2>4
<1>3. Nat \subseteq S
  <2> HIDE DEF S
  <2> QED BY <1>1, <1>2, NatSetInduction
<1> QED BY <1>3

AlikeBy(s, t, f, g) ==
  Len(s) = Len(t) /\ \A i \in 1 .. Len(s) : f[s[i]] = g[t[i]]

LEMMA AppendAlike ==
  ASSUME NEW X, NEW Y, NEW s \in Seq(X), NEW t \in Seq(Y), NEW x \in X, NEW y \in Y,
         NEW f, NEW g, AlikeBy(s, t, f, g), f[x] = g[y]
  PROVE  AlikeBy(Append(s, x), Append(t, y), f, g)
<1> DEFINE u == Append(s, x)
           v == Append(t, y)
<1>1. /\ Len(u) = Len(s) + 1 /\ Len(s) \in Nat
      /\ \A i \in 1 .. Len(s) : u[i] = s[i]
      /\ u[Len(s) + 1] = x
  BY AppendProperties
<1>2. /\ Len(v) = Len(t) + 1
      /\ \A i \in 1 .. Len(t) : v[i] = t[i]
      /\ v[Len(t) + 1] = y
  BY AppendProperties
<1> HIDE DEF u, v
<1>3. \A i \in 1 .. Len(u) : i = Len(s) + 1 \/ i \in 1 .. Len(s)
  BY <1>1
<1> QED BY <1>1, <1>2, <1>3 DEF AlikeBy, u, v

\* Two sequences that are alike, of which the same positions are kept.
LEMMA FilterAlike ==
  ASSUME NEW X, NEW Y, NEW s \in Seq(X), NEW t \in Seq(Y), NEW K, NEW L, NEW f, NEW g,
         AlikeBy(s, t, f, g), \A i \in 1 .. Len(s) : s[i] \in K <=> t[i] \in L
  PROVE  AlikeBy(Filter(s, K), Filter(t, L), f, g)
<1> DEFINE S == {n \in Nat : n <= Len(s) =>
                               AlikeBy(Filtered(s, K)[n], Filtered(t, L)[n], f, g)}
<1>0. Len(s) \in Nat /\ Len(t) = Len(s)
  BY DEF AlikeBy
<1>1. 0 \in S
  <2>1. Filtered(s, K)[0] = <<>>
    BY FilteredZero
  <2>2. Filtered(t, L)[0] = <<>>
    BY FilteredZero
  <2>3. AlikeBy(<<>>, <<>>, f, g)
    BY DEF AlikeBy
  <2> QED BY <2>1, <2>2, <2>3
<1>2. ASSUME NEW n \in Nat, n \in S PROVE n + 1 \in S
  <2> SUFFICES ASSUME n + 1 <= Len(s)
               PROVE  AlikeBy(Filtered(s, K)[n + 1], Filtered(t, L)[n + 1], f, g)
    OBVIOUS
  <2> DEFINE a == Filtered(s, K)[n]
             b == Filtered(t, L)[n]
             x == s[n + 1]
             y == t[n + 1]
  <2>1. /\ n + 1 \in 0 .. Len(s) /\ n + 1 \in 0 .. Len(t) /\ n + 1 # 0 /\ n + 1 - 1 = n
        /\ n <= Len(s) /\ n <= Len(t) /\ n + 1 \in 1 .. Len(s) /\ n + 1 \in 1 .. Len(t)
    BY <1>0
  <2>2. x \in X /\ y \in Y /\ f[x] = g[y] /\ (x \in K <=> y \in L)
    BY <2>1 DEF AlikeBy
  <2>3. a \in Seq(X) /\ b \in Seq(Y) /\ AlikeBy(a, b, f, g)
    <3>1. a \in Seq(X)
      BY <2>1, FilteredType
    <3>2. b \in Seq(Y)
      BY <2>1, FilteredType
    <3> QED BY <1>2, <2>1, <3>1, <3>2
  <2>4. Filtered(s, K)[n + 1] = IF x \in K THEN Append(a, x) ELSE a
    BY <2>1, FilteredAt
  <2>5. Filtered(t, L)[n + 1] = IF y \in L THEN Append(b, y) ELSE b
    BY <2>1, FilteredAt
  <2> HIDE DEF a, b, x, y
  <2>6. AlikeBy(Append(a, x), Append(b, y), f, g)
    BY <2>2, <2>3, AppendAlike
  <2> QED BY <2>2, <2>3, <2>4, <2>5, <2>6
<1>3. Nat \subseteq S
  <2> HIDE DEF S
  <2> QED BY <1>1, <1>2, NatSetInduction
<1> QED BY <1>0, <1>3 DEF Filter

-----------------------------------------------------------------------------
(* Prefixes.                                                                *)

LEMMA PrefixByIndex ==
  ASSUME NEW X, NEW s \in Seq(X), NEW t \in Seq(X)
  PROVE  IsPrefix(s, t) <=> Len(s) <= Len(t) /\ \A i \in 1 .. Len(s) : s[i] = t[i]
<1> SUFFICES ASSUME Len(s) <= Len(t)
             PROVE  SubSeq(s, 1, Len(s)) = SubSeq(t, 1, Len(s))
                      <=> \A i \in 1 .. Len(s) : s[i] = t[i]
  BY DEF IsPrefix
<1> DEFINE u == SubSeq(t, 1, Len(s))
<1>1. SubSeq(s, 1, Len(s)) = s
  OBVIOUS
<1>2. u \in Seq(X) /\ Len(u) = Len(s) /\ \A i \in 1 .. Len(s) : u[i] = t[i]
  OBVIOUS
<1> HIDE DEF u
<1>3. s = u <=> \A i \in 1 .. Len(s) : s[i] = u[i]
  BY <1>2, SeqEqual
<1> QED BY <1>1, <1>2, <1>3 DEF u

LEMMA PrefixConcat ==
  ASSUME NEW X, NEW s \in Seq(X), NEW t \in Seq(X)
  PROVE  IsPrefix(s, s \o t)
<1>1. /\ s \o t \in Seq(X) /\ Len(s) <= Len(s \o t)
      /\ \A i \in 1 .. Len(s) : s[i] = (s \o t)[i]
  BY ConcatProperties
<1> QED BY <1>1, PrefixByIndex

LEMMA PrefixReflexive == ASSUME NEW X, NEW s \in Seq(X) PROVE IsPrefix(s, s)
  BY PrefixByIndex

\* What is kept of a sequence whose elements are wanted from one position on.
LEMMA FilterRest ==
  ASSUME NEW X, NEW s \in Seq(X), NEW n \in Nat, n <= Len(s), NEW keep,
         \A i \in 1 .. Len(s) : s[i] \in keep <=> n < i
  PROVE  Filter(s, keep) = SubSeq(s, n + 1, Len(s))
<1> DEFINE a == SubSeq(s, 1, n)
           b == SubSeq(s, n + 1, Len(s))
<1>1. a \in Seq(X) /\ Len(a) = n /\ \A i \in 1 .. n : a[i] = s[i]
  OBVIOUS
<1>2. /\ b \in Seq(X) /\ Len(b) = Len(s) - n
      /\ \A i \in 1 .. Len(s) - n : b[i] = s[n + i]
  OBVIOUS
<1>3. s = a \o b
  <2>1. /\ a \o b \in Seq(X) /\ Len(a \o b) = Len(a) + Len(b)
        /\ \A i \in 1 .. Len(a) + Len(b) :
             (a \o b)[i] = IF i <= Len(a) THEN a[i] ELSE b[i - Len(a)]
    BY <1>1, <1>2, ConcatProperties
  <2> HIDE DEF a, b
  <2>2. Len(a \o b) = Len(s)
    BY <1>1, <1>2, <2>1
  <2>3. ASSUME NEW i \in 1 .. Len(s) PROVE (a \o b)[i] = s[i]
    <3>1. CASE i <= n
      BY <1>1, <1>2, <2>1, <3>1
    <3>2. CASE ~(i <= n)
      <4>1. i - n \in 1 .. Len(s) - n /\ n + (i - n) = i
        BY <3>2
      <4>2. b[i - n] = s[i]
        BY <1>2, <4>1
      <4> QED BY <1>1, <1>2, <2>1, <3>2, <4>2
    <3> QED BY <3>1, <3>2
  <2> QED BY <2>1, <2>2, <2>3, SeqEqual
<1> HIDE DEF a, b
<1>4. ToSet(a) \cap keep = {}
  <2>1. \A i \in 1 .. n : s[i] \notin keep
    OBVIOUS
  <2> QED BY <1>1, <2>1 DEF ToSet
<1>5. ToSet(b) \subseteq keep
  <2>1. \A i \in 1 .. Len(s) - n : s[n + i] \in keep
    OBVIOUS
  <2> QED BY <1>2, <2>1 DEF ToSet
<1>6. Filter(a, keep) = <<>> /\ Filter(b, keep) = b
  BY <1>1, <1>2, <1>4, <1>5, FilterNone, FilterAll
<1>7. Filter(a \o b, keep) = <<>> \o b
  <2>1. Filter(a \o b, keep) = Filter(a, keep) \o Filter(b, keep)
    BY <1>1, <1>2, FilterConcat
  <2> QED BY <1>6, <2>1
<1>8. <<>> \o b = b
  BY <1>2, ConcatEmptySeq
<1> QED BY <1>3, <1>7, <1>8 DEF b

-----------------------------------------------------------------------------
(* FlattenSeq, by what it does to the last sequence.                        *)

LEMMA FlattenDef ==
  ASSUME NEW X, NEW ss \in Seq(Seq(X)), Len(ss) # 0
  PROVE  \E f : /\ f = [i \in 1 .. Len(ss) |-> IF i = 1 THEN ss[i] ELSE f[i - 1] \o ss[i]]
                /\ FlattenSeq(ss) = f[Len(ss)]
<1> DEFINE Works(g, n) == g = [i \in 1 .. n |-> IF i = 1 THEN ss[i] ELSE g[i - 1] \o ss[i]]
           S == {n \in Nat : \E g : Works(g, n)}
<1>1. 0 \in S
  <2> DEFINE g == [i \in 1 .. 0 |-> <<>>]
  <2>1. Works(g, 0)
    OBVIOUS
  <2> QED BY <2>1
<1>2. ASSUME NEW n \in Nat, n \in S PROVE n + 1 \in S
  <2>1. PICK g : Works(g, n)
    BY <1>2
  <2> DEFINE h == [i \in 1 .. n + 1 |->
                     IF i = n + 1 THEN IF i = 1 THEN ss[i] ELSE g[n] \o ss[i] ELSE g[i]]
  <2>2. \A i \in 1 .. n : h[i] = g[i]
    OBVIOUS
  <2>3. \A i \in 1 .. n + 1 : h[i] = IF i = 1 THEN ss[i] ELSE h[i - 1] \o ss[i]
    <3> SUFFICES ASSUME NEW i \in 1 .. n + 1
                 PROVE  h[i] = IF i = 1 THEN ss[i] ELSE h[i - 1] \o ss[i]
      OBVIOUS
    <3>1. CASE i = n + 1
      <4>1. h[i] = IF i = 1 THEN ss[i] ELSE g[n] \o ss[i]
        BY <3>1
      <4>2. i # 1 => i - 1 = n /\ h[i - 1] = g[n]
        BY <2>2, <3>1
      <4> HIDE DEF h
      <4> QED BY <4>1, <4>2
    <3>2. CASE i # n + 1
      <4>1. i \in 1 .. n
        BY <3>2
      <4>2. g[i] = IF i = 1 THEN ss[i] ELSE g[i - 1] \o ss[i]
        BY <2>1, <4>1
      <4>3. i # 1 => h[i - 1] = g[i - 1]
        BY <2>2, <4>1
      <4>4. h[i] = g[i]
        BY <2>2, <4>1
      <4> HIDE DEF h
      <4> QED BY <4>2, <4>3, <4>4
    <3> QED BY <3>1, <3>2
  <2>4. Works(h, n + 1)
    <3> DEFINE k == [i \in 1 .. n + 1 |-> IF i = 1 THEN ss[i] ELSE h[i - 1] \o ss[i]]
    <3>1. h = [i \in 1 .. n + 1 |-> h[i]]
      OBVIOUS
    <3>2. k = [i \in 1 .. n + 1 |-> k[i]] /\ \A i \in 1 .. n + 1 : k[i] = h[i]
      <4> HIDE DEF h
      <4> QED BY <2>3
    <3>3. h = k
      <4> HIDE DEF h, k
      <4> QED BY <3>1, <3>2, Zenon
    <3> HIDE DEF h
    <3> QED BY <3>3
  <2> HIDE DEF h, Works
  <2> QED BY <2>4
<1>3. Nat \subseteq S
  <2> HIDE DEF S
  <2> QED BY <1>1, <1>2, NatSetInduction
<1>4. \E g : Works(g, Len(ss))
  <2>1. Len(ss) \in S
    <3> HIDE DEF S
    <3> QED BY <1>3
  <2> HIDE DEF Works
  <2> QED BY <2>1
<1> DEFINE f == CHOOSE g : Works(g, Len(ss))
<1>5. FlattenSeq(ss) = f[Len(ss)]
  BY DEF FlattenSeq
<1>6. Works(f, Len(ss))
  <2> HIDE DEF Works
  <2> QED BY <1>4
<1> HIDE DEF f
<1> QED BY <1>5, <1>6

LEMMA FlattenEmpty == FlattenSeq(<<>>) = <<>>
  BY DEF FlattenSeq

LEMMA FlattenAppend ==
  ASSUME NEW X, NEW ss \in Seq(Seq(X)), NEW t \in Seq(X)
  PROVE  FlattenSeq(Append(ss, t)) = FlattenSeq(ss) \o t
<1> DEFINE tt == Append(ss, t)
           m == Len(ss)
<1>1. /\ tt \in Seq(Seq(X)) /\ Len(tt) = m + 1 /\ m \in Nat
      /\ \A i \in 1 .. m : tt[i] = ss[i]
      /\ tt[m + 1] = t
  BY AppendProperties
<1> HIDE DEF tt
<1>2. Len(tt) # 0
  BY <1>1
<1>3. PICK f : /\ f = [i \in 1 .. Len(tt) |-> IF i = 1 THEN tt[i] ELSE f[i - 1] \o tt[i]]
               /\ FlattenSeq(tt) = f[Len(tt)]
  BY <1>1, <1>2, FlattenDef
<1>4. \A i \in 1 .. m + 1 : f[i] = IF i = 1 THEN tt[i] ELSE f[i - 1] \o tt[i]
  BY <1>1, <1>3
<1>5. CASE m = 0
  <2>1. ss = <<>>
    BY <1>5, EmptySeq
  <2>2. f[1] = t
    BY <1>1, <1>4, <1>5
  <2>3. FlattenSeq(ss) \o t = t
    BY <2>1, FlattenEmpty, ConcatEmptySeq
  <2> QED BY <1>1, <1>3, <1>5, <2>2, <2>3 DEF tt
<1>6. CASE m # 0
  <2>1. PICK g : /\ g = [i \in 1 .. Len(ss) |-> IF i = 1 THEN ss[i] ELSE g[i - 1] \o ss[i]]
                 /\ FlattenSeq(ss) = g[Len(ss)]
    BY <1>6, FlattenDef
  <2>2. \A i \in 1 .. m : g[i] = IF i = 1 THEN ss[i] ELSE g[i - 1] \o ss[i]
    BY <2>1
  <2> DEFINE S == {i \in Nat : 1 <= i /\ i <= m => f[i] = g[i]}
  <2>3. 0 \in S
    OBVIOUS
  <2>4. ASSUME NEW i \in Nat, i \in S PROVE i + 1 \in S
    <3> SUFFICES ASSUME i + 1 <= m PROVE f[i + 1] = g[i + 1]
      OBVIOUS
    <3>1. i + 1 \in 1 .. m /\ i + 1 \in 1 .. m + 1 /\ i + 1 - 1 = i /\ tt[i + 1] = ss[i + 1]
      BY <1>1
    <3>2. f[i + 1] = IF i + 1 = 1 THEN tt[i + 1] ELSE f[i] \o tt[i + 1]
      <4>1. \A j \in 1 .. m + 1 : j - 1 = i =>
              f[j] = IF j = 1 THEN tt[j] ELSE f[i] \o tt[j]
        BY <1>4
      <4> QED BY <3>1, <4>1
    <3>3. g[i + 1] = IF i + 1 = 1 THEN ss[i + 1] ELSE g[i] \o ss[i + 1]
      BY <2>2, <3>1
    <3>4. i + 1 # 1 => f[i] = g[i]
      BY <2>4, <3>1
    <3> QED BY <3>1, <3>2, <3>3, <3>4
  <2>5. Nat \subseteq S
    <3> HIDE DEF S
    <3> QED BY <2>3, <2>4, NatSetInduction
  <2>6. f[m] = g[m]
    BY <1>1, <1>6, <2>5
  <2>7. m + 1 \in 1 .. m + 1 /\ m + 1 # 1 /\ m + 1 - 1 = m
    BY <1>1, <1>6
  <2>8. f[m + 1] = f[m] \o tt[m + 1]
    <3>1. ASSUME NEW j \in 1 .. m + 1, j # 1, j - 1 = m PROVE f[j] = f[m] \o tt[j]
      BY <1>4, <3>1
    <3>2. PICK j : j = m + 1
      OBVIOUS
    <3>3. f[j] = f[m] \o tt[j]
      <4>1. j \in 1 .. m + 1 /\ j # 1 /\ j - 1 = m
        BY <1>1, <1>6, <3>2
      <4> QED BY <3>1, <4>1
    <3> QED BY <3>2, <3>3
  <2> QED BY <1>1, <1>3, <2>1, <2>6, <2>8 DEF tt
<1> QED BY <1>5, <1>6

LEMMA FlattenType ==
  ASSUME NEW X, NEW ss \in Seq(Seq(X))
  PROVE  FlattenSeq(ss) \in Seq(X)
<1> DEFINE P == {tt \in Seq(Seq(X)) : FlattenSeq(tt) \in Seq(X)}
<1>1. <<>> \in P
  BY FlattenEmpty, EmptySeq
<1>2. ASSUME NEW tt \in Seq(Seq(X)), NEW t \in Seq(X), tt \in P PROVE Append(tt, t) \in P
  <2>1. FlattenSeq(Append(tt, t)) = FlattenSeq(tt) \o t /\ FlattenSeq(tt) \in Seq(X)
    BY <1>2, FlattenAppend
  <2> QED BY <2>1, ConcatProperties, AppendProperties
<1>3. Seq(Seq(X)) \subseteq P
  <2> HIDE DEF P
  <2> QED BY <1>1, <1>2, SeqSetInduction
<1> QED BY <1>3

LEMMA FlattenElements ==
  ASSUME NEW X, NEW ss \in Seq(Seq(X))
  PROVE  ToSet(FlattenSeq(ss)) = UNION {ToSet(t) : t \in ToSet(ss)}
<1> DEFINE P == {tt \in Seq(Seq(X)) :
                   ToSet(FlattenSeq(tt)) = UNION {ToSet(t) : t \in ToSet(tt)}}
<1>1. <<>> \in P
  <2>1. ToSet(<<>>) = {}
    BY DEF ToSet
  <2> QED BY <2>1, FlattenEmpty, EmptySeq
<1>2. ASSUME NEW tt \in Seq(Seq(X)), NEW t \in Seq(X), tt \in P PROVE Append(tt, t) \in P
  <2>1. FlattenSeq(Append(tt, t)) = FlattenSeq(tt) \o t /\ FlattenSeq(tt) \in Seq(X)
    BY FlattenAppend, FlattenType
  <2>2. ToSet(FlattenSeq(tt) \o t) = ToSet(FlattenSeq(tt)) \cup ToSet(t)
    BY <2>1, ConcatElements
  <2>3. ToSet(Append(tt, t)) = ToSet(tt) \cup {t} /\ Append(tt, t) \in Seq(Seq(X))
    BY AppendElements, AppendProperties
  <2> QED BY <1>2, <2>1, <2>2, <2>3
<1>3. Seq(Seq(X)) \subseteq P
  <2> HIDE DEF P
  <2> QED BY <1>1, <1>2, SeqSetInduction
<1> QED BY <1>3

\* Sequences without repetitions, and none in common, in a row.
LEMMA FlattenDistinct ==
  ASSUME NEW X, NEW ss \in Seq(Seq(X)), NEW key,
         \A i \in 1 .. Len(ss) : Distinct(ss[i], key),
         \A i, j \in 1 .. Len(ss) : i # j =>
           \A x \in ToSet(ss[i]), y \in ToSet(ss[j]) : key[x] # key[y]
  PROVE  Distinct(FlattenSeq(ss), key)
<1> DEFINE Apart(tt) ==
             /\ \A i \in 1 .. Len(tt) : Distinct(tt[i], key)
             /\ \A i, j \in 1 .. Len(tt) : i # j =>
                  \A x \in ToSet(tt[i]), y \in ToSet(tt[j]) : key[x] # key[y]
           P == {tt \in Seq(Seq(X)) : Apart(tt) => Distinct(FlattenSeq(tt), key)}
<1>1. <<>> \in P
  <2>1. Distinct(<<>>, key)
    BY DEF Distinct
  <2> QED BY <2>1, FlattenEmpty, EmptySeq
<1>2. ASSUME NEW tt \in Seq(Seq(X)), NEW t \in Seq(X), tt \in P PROVE Append(tt, t) \in P
  <2> DEFINE uu == Append(tt, t)
  <2>0. /\ uu \in Seq(Seq(X)) /\ Len(uu) = Len(tt) + 1 /\ Len(tt) \in Nat
        /\ \A i \in 1 .. Len(tt) : uu[i] = tt[i]
        /\ uu[Len(tt) + 1] = t
    BY AppendProperties
  <2>1. FlattenSeq(uu) = FlattenSeq(tt) \o t /\ FlattenSeq(tt) \in Seq(X)
    BY FlattenAppend, FlattenType
  <2> HIDE DEF uu
  <2> SUFFICES ASSUME Apart(uu) PROVE Distinct(FlattenSeq(tt) \o t, key)
    BY <2>0, <2>1 DEF uu
  <2>2. \A i \in 1 .. Len(tt) : i \in 1 .. Len(uu) /\ i # Len(tt) + 1
    BY <2>0
  <2>3. Len(tt) + 1 \in 1 .. Len(uu)
    BY <2>0
  <2>4. Apart(tt)
    <3>1. \A i \in 1 .. Len(tt) : Distinct(tt[i], key)
      BY <2>0, <2>2
    <3>2. ASSUME NEW i \in 1 .. Len(tt), NEW j \in 1 .. Len(tt), i # j
          PROVE  \A x \in ToSet(tt[i]), y \in ToSet(tt[j]) : key[x] # key[y]
      <4>1. tt[i] = uu[i] /\ tt[j] = uu[j] /\ i \in 1 .. Len(uu) /\ j \in 1 .. Len(uu)
        BY <2>0, <2>2
      <4> QED BY <3>2, <4>1
    <3> QED BY <3>1, <3>2
  <2>5. Distinct(FlattenSeq(tt), key) /\ Distinct(t, key)
    BY <1>2, <2>0, <2>3, <2>4
  <2>6. \A x \in ToSet(FlattenSeq(tt)), y \in ToSet(t) : key[x] # key[y]
    <3> SUFFICES ASSUME NEW x \in ToSet(FlattenSeq(tt)), NEW y \in ToSet(t)
                 PROVE  key[x] # key[y]
      OBVIOUS
    <3>1. PICK u \in ToSet(tt) : x \in ToSet(u)
      BY FlattenElements
    <3>2. PICK i \in 1 .. Len(tt) : u = tt[i]
      BY <3>1 DEF ToSet
    <3>3. x \in ToSet(uu[i]) /\ y \in ToSet(uu[Len(tt) + 1]) /\ i # Len(tt) + 1
      BY <2>0, <2>2, <3>1, <3>2
    <3> QED BY <2>2, <2>3, <3>3
  <2> QED BY <2>1, <2>5, <2>6, ConcatDistinct
<1>3. Seq(Seq(X)) \subseteq P
  <2> HIDE DEF P
  <2> QED BY <1>1, <1>2, SeqSetInduction
<1> QED BY <1>3

\* What is wanted is in one of the sequences only.
OnlyIn(ss, k, keep) == \A i \in 1 .. Len(ss) : i # k => ToSet(ss[i]) \cap keep = {}

LEMMA FlattenFilter ==
  ASSUME NEW X, NEW ss \in Seq(Seq(X)), NEW keep, NEW k \in 1 .. Len(ss), OnlyIn(ss, k, keep)
  PROVE  Filter(FlattenSeq(ss), keep) = Filter(ss[k], keep)
<1> DEFINE P == {tt \in Seq(Seq(X)) :
                   \A n \in 1 .. Len(tt) : OnlyIn(tt, n, keep) =>
                     Filter(FlattenSeq(tt), keep) = Filter(tt[n], keep)}
<1>0. \A a, b \in Seq(X) : Filter(a \o b, keep) = Filter(a, keep) \o Filter(b, keep)
  BY FilterConcat
<1>1. <<>> \in P
  BY EmptySeq
<1>2. ASSUME NEW tt \in Seq(Seq(X)), NEW t \in Seq(X), tt \in P PROVE Append(tt, t) \in P
  <2> DEFINE uu == Append(tt, t)
  <2>0. /\ uu \in Seq(Seq(X)) /\ Len(uu) = Len(tt) + 1 /\ Len(tt) \in Nat
        /\ \A i \in 1 .. Len(tt) : uu[i] = tt[i]
        /\ uu[Len(tt) + 1] = t
    BY AppendProperties
  <2>1. FlattenSeq(uu) = FlattenSeq(tt) \o t /\ FlattenSeq(tt) \in Seq(X)
    BY FlattenAppend, FlattenType
  <2>2. Filter(FlattenSeq(tt) \o t, keep) = Filter(FlattenSeq(tt), keep) \o Filter(t, keep)
    <3> DEFINE v == FlattenSeq(tt)
    <3>1. v \in Seq(X)
      BY <2>1
    <3> HIDE DEF v
    <3>2. Filter(v \o t, keep) = Filter(v, keep) \o Filter(t, keep)
      BY <1>0, <3>1
    <3> QED BY <3>2 DEF v
  <2>3. Filter(FlattenSeq(tt), keep) \in Seq(X) /\ Filter(t, keep) \in Seq(X)
    BY <2>1, FilterType
  <2> HIDE DEF uu
  <2> SUFFICES ASSUME NEW n \in 1 .. Len(uu), OnlyIn(uu, n, keep)
               PROVE  Filter(FlattenSeq(uu), keep) = Filter(uu[n], keep)
    BY <2>0 DEF uu
  <2>4. \A i \in 1 .. Len(tt) : i \in 1 .. Len(uu) /\ i # Len(tt) + 1
    BY <2>0
  <2>5. CASE n = Len(tt) + 1
    <3>1. ToSet(FlattenSeq(tt)) \cap keep = {}
      <4>1. ASSUME NEW u \in ToSet(tt) PROVE ToSet(u) \cap keep = {}
        <5>1. PICK i \in 1 .. Len(tt) : u = tt[i]
          BY DEF ToSet
        <5>2. i \in 1 .. Len(uu) /\ i # n /\ uu[i] = u
          BY <2>0, <2>4, <2>5, <5>1
        <5> QED BY <5>2 DEF OnlyIn
      <4> QED BY <4>1, FlattenElements
    <3>2. Filter(FlattenSeq(tt), keep) = <<>>
      BY <2>1, <3>1, FilterNone
    <3>3. <<>> \o Filter(t, keep) = Filter(t, keep)
      BY <2>3, ConcatEmptySeq
    <3> QED BY <2>0, <2>1, <2>2, <2>5, <3>2, <3>3
  <2>6. CASE n # Len(tt) + 1
    <3>1. n \in 1 .. Len(tt) /\ uu[n] = tt[n]
      BY <2>0, <2>6
    <3>2. OnlyIn(tt, n, keep)
      BY <2>0, <2>4 DEF OnlyIn
    <3>3. Filter(FlattenSeq(tt), keep) = Filter(tt[n], keep)
      BY <1>2, <3>1, <3>2
    <3>4. ToSet(t) \cap keep = {}
      <4>1. Len(tt) + 1 \in 1 .. Len(uu)
        BY <2>0
      <4> QED BY <2>0, <2>6, <4>1 DEF OnlyIn
    <3>5. Filter(t, keep) = <<>>
      BY <3>4, FilterNone
    <3>6. Filter(FlattenSeq(tt), keep) \o <<>> = Filter(FlattenSeq(tt), keep)
      BY <2>3, ConcatEmptySeq
    <3> QED BY <2>1, <2>2, <3>1, <3>3, <3>5, <3>6
  <2> QED BY <2>5, <2>6
<1>3. Seq(Seq(X)) \subseteq P
  <2> HIDE DEF P
  <2> QED BY <1>1, <1>2, SeqSetInduction
<1>4. ss \in P /\ OnlyIn(ss, k, keep)
  BY <1>3
<1> QED BY <1>4

-----------------------------------------------------------------------------
(* SetToSeq lists every element of a finite set, each of them once.         *)

LEMMA SetToSeqLists ==
  ASSUME NEW S, IsFiniteSet(S)
  PROVE  /\ SetToSeq(S) \in Seq(S)
         /\ \A x \in S : \E i \in 1 .. Len(SetToSeq(S)) : SetToSeq(S)[i] = x
         /\ \A i, j \in 1 .. Len(SetToSeq(S)) : SetToSeq(S)[i] = SetToSeq(S)[j] => i = j
<1> DEFINE n == Cardinality(S)
           f == SetToSeq(S)
<1>1. n \in Nat /\ ExistsBijection(1 .. n, S)
  BY FS_CardinalityType
<1>2. \E g \in [1 .. n -> S] : IsInjective(g)
  BY <1>1 DEF ExistsBijection, Bijection, Injection
<1>3. f \in [1 .. n -> S] /\ IsInjective(f)
  <2> HIDE DEF n
  <2>1. f = CHOOSE g \in [1 .. n -> S] : IsInjective(g)
    BY DEF SetToSeq, n
  <2> QED BY <1>2, <2>1
<1>4. f \in Seq(S) /\ Len(f) = n
  <2> HIDE DEF f, n
  <2> QED BY <1>1, <1>3, SeqDef
<1> DEFINE T == {f[i] : i \in 1 .. n}
<1>5. T = S
  <2>1. T \in SUBSET S
    <3> HIDE DEF f, n
    <3> QED BY <1>3
  <2>2. f \in Bijection(1 .. n, T)
    <3> HIDE DEF f, n
    <3> QED BY <1>3 DEF Bijection, Injection, Surjection
  <2>3. Cardinality(T) = n
    <3> HIDE DEF f, n, T
    <3>1. ExistsBijection(1 .. n, T)
      BY <2>2 DEF ExistsBijection
    <3> QED BY <1>1, <3>1, FS_CountingElements
  <2> HIDE DEF f, T
  <2> QED BY <2>1, <2>3, FS_Subset
<1>6. \A i, j \in 1 .. n : f[i] = f[j] => i = j
  <2> HIDE DEF f, n
  <2> QED BY <1>3 DEF IsInjective
<1>7. \A x \in S : \E i \in 1 .. n : f[i] = x
  <2> HIDE DEF f, n
  <2> QED BY <1>5
<1> HIDE DEF f, n
<1> QED BY <1>4, <1>6, <1>7 DEF f
=============================================================================
