--------------------------- MODULE QueriesProofs ---------------------------
(***************************************************************************)
(* Proofs about what reads tables page by page, Search and Analytics, and  *)
(* about the services of MCServices together, for any rows, any sizes of   *)
(* pages and any number of requests in flight.                             *)
(***************************************************************************)
EXTENDS MCServices, VolunteeringProofs

-----------------------------------------------------------------------------
(* Pages of a table in the order of its ids.                                   *)

Below(S, i) == {j \in S : j <= i}

LEMMA InBelow ==
    ASSUME NEW S \in SUBSET Nat, NEW i \in Nat
    PROVE  \A j : j \in Below(S, i) <=> j \in S /\ j \in Nat /\ j <= i
<1>1. \A j \in Below(S, i) : j \in S /\ j \in Nat /\ j <= i
  BY DEF Below
<1>2. \A j \in S : j \in Nat /\ j <= i => j \in Below(S, i)
  BY DEF Below
<1> QED BY <1>1, <1>2

LEMMA RankType ==
    ASSUME NEW S \in SUBSET Nat, NEW i \in Nat, i \in S
    PROVE  IsFiniteSet(Below(S, i)) /\ Rank(S, i) = Cardinality(Below(S, i)) /\ Rank(S, i) \in Nat \ {0}
<1>1. Below(S, i) \subseteq 0..i /\ i \in Below(S, i)
  BY InBelow
<1>2. IsFiniteSet(0..i)
  BY FS_Interval
<1>3. IsFiniteSet(Below(S, i))
  BY <1>1, <1>2, FS_Subset
<1>4. Cardinality(Below(S, i)) \in Nat /\ Cardinality(Below(S, i)) # 0
  BY <1>1, <1>3, FS_CardinalityType, FS_EmptySet
<1> QED BY <1>3, <1>4 DEF Rank, Below

\* The row that follows k directly.
LEMMA RankNext ==
    ASSUME NEW S \in SUBSET Nat, NEW i \in Nat, NEW k \in Nat, i \in S, k \in S, k < i, \A j \in S : j < i => j <= k
    PROVE  Rank(S, i) = Rank(S, k) + 1
<1>1. Below(S, i) = Below(S, k) \cup {i} /\ i \notin Below(S, k)
  BY InBelow
<1>2. Cardinality(Below(S, k) \cup {i}) = Cardinality(Below(S, k)) + 1
  BY <1>1, RankType, FS_AddElement
<1> QED BY <1>1, <1>2, RankType

LEMMA RankFirst ==
    ASSUME NEW S \in SUBSET Nat, NEW i \in Nat, i \in S, \A j \in S : i <= j
    PROVE  Rank(S, i) = 1
<1>1. Below(S, i) = {i}
  BY InBelow
<1> QED BY <1>1, RankType, FS_Singleton

LEMMA RankGrows ==
    ASSUME NEW S \in SUBSET Nat, NEW i \in Nat, NEW k \in Nat, i \in S, k \in S, i < k
    PROVE  Rank(S, i) < Rank(S, k)
<1>1. Below(S, i) \subseteq Below(S, k) /\ k \in Below(S, k) /\ k \notin Below(S, i)
  BY InBelow
<1>2. Cardinality(Below(S, i)) < Cardinality(Below(S, k))
  BY <1>1, RankType, FS_Subset
<1> QED BY <1>2, RankType

LEMMA RankDecides ==
    ASSUME NEW S \in SUBSET Nat, NEW i \in Nat, NEW k \in Nat, i \in S, k \in S
    PROVE  /\ Rank(S, i) < Rank(S, k) <=> i < k
           /\ Rank(S, i) = Rank(S, k) <=> i = k
<1>1. i < k => Rank(S, i) < Rank(S, k)
  BY RankGrows
<1>2. k < i => Rank(S, k) < Rank(S, i)
  BY RankGrows
<1>3. Rank(S, i) \in Nat /\ Rank(S, k) \in Nat /\ i \in Nat /\ k \in Nat
  BY RankType
<1> QED BY <1>1, <1>2, <1>3

\* No rank is left out.
LEMMA RankReached ==
    ASSUME NEW S \in SUBSET Nat, NEW i \in Nat, NEW n \in Nat, i \in S, n \in 1..Rank(S, i)
    PROVE  \E k \in S : Rank(S, k) = n
<1> DEFINE T == {k \in S : Rank(S, k) >= n}
<1>1. T \subseteq Nat /\ i \in T
  <2>1. \A k \in T : k \in Nat
    OBVIOUS
  <2>2. Rank(S, i) >= n
    BY RankType
  <2> QED BY <2>1, <2>2
<1>2. PICK k \in T : \A j \in T : k <= j
  <2> HIDE DEF T
  <2> QED BY <1>1, LeastNat
<1>3. k \in S /\ Rank(S, k) >= n /\ Rank(S, k) \in Nat
  BY <1>2, RankType
<1>4. CASE Rank(S, k) # n
  <2> DEFINE U == {j \in S : j < k}
  <2>1. U # {}
    <3> SUFFICES ASSUME U = {} PROVE FALSE
      OBVIOUS
    <3>1. \A j \in S : k <= j
      BY <1>3
    <3>2. Rank(S, k) = 1
      BY <1>3, <3>1, RankFirst
    <3> QED BY <1>3, <1>4, <3>2
  <2>2. U \subseteq Nat /\ U \subseteq Below(S, k)
    <3>1. \A j \in U : j \in S /\ j \in Nat /\ j <= k
      BY <1>3
    <3> HIDE DEF U
    <3> QED BY <1>3, <3>1, InBelow
  <2>3. IsFiniteSet(U)
    BY <1>3, <2>2, RankType, FS_Subset
  <2>4. PICK j \in U : \A m \in U : m <= j
    <3> HIDE DEF U
    <3> QED BY <2>1, <2>2, <2>3, LargestNat
  <2>5. j \in S /\ j < k /\ \A m \in S : m < k => m <= j
    BY <2>4
  <2>6. Rank(S, k) = Rank(S, j) + 1 /\ Rank(S, j) \in Nat
    BY <1>3, <2>5, RankNext, RankType
  <2>7. j \in T
    BY <1>1, <1>3, <1>4, <2>5, <2>6
  <2> QED BY <1>2, <1>3, <2>5, <2>7
<1> QED BY <1>3, <1>4

\* A page goes on from where it begins without a gap, and is empty only after the last row.
LEMMA PageIsNext ==
    ASSUME NEW S \in SUBSET Nat, NEW skip \in Nat, NEW take \in Nat
    PROVE  /\ PageOf(S, skip, take) \subseteq S
           /\ \A i \in PageOf(S, skip, take) : Rank(S, i) > skip
           /\ \A i \in PageOf(S, skip, take) :
                \A k \in S : k <= i /\ Rank(S, k) > skip => k \in PageOf(S, skip, take)
           /\ take # 0 /\ PageOf(S, skip, take) = {} => \A i \in S : Rank(S, i) <= skip
<1>1. \A i \in S : Rank(S, i) \in Nat \ {0} /\ i \in Nat
  BY RankType
<1>2. \A i \in PageOf(S, skip, take) : i \in S /\ Rank(S, i) > skip /\ Rank(S, i) <= skip + take
  BY <1>1 DEF PageOf
<1>3. ASSUME NEW i \in PageOf(S, skip, take), NEW k \in S, k <= i, Rank(S, k) > skip
      PROVE  k \in PageOf(S, skip, take)
  <2>1. Rank(S, k) <= Rank(S, i)
    <3>1. i \in S /\ i \in Nat /\ k \in Nat /\ ~ (i < k)
      <4>1. \A j \in S : j \in Nat
        OBVIOUS
      <4>2. i \in S /\ k <= i
        BY <1>2, <1>3
      <4>3. i \in Nat /\ k \in Nat
        BY <4>1, <4>2
      <4> QED BY <4>2, <4>3
    <3>2. ~ (Rank(S, i) < Rank(S, k))
      BY <1>3, <3>1, RankDecides
    <3> QED BY <1>1, <1>3, <3>1, <3>2
  <2> QED BY <1>1, <1>2, <1>3, <2>1 DEF PageOf
<1>4. ASSUME take # 0, PageOf(S, skip, take) = {}, NEW i \in S, Rank(S, i) > skip
      PROVE  FALSE
  <2>1. skip + 1 \in 1..Rank(S, i)
    BY <1>1, <1>4
  <2>2. PICK k \in S : Rank(S, k) = skip + 1
    BY <2>1, RankReached
  <2>3. skip + 1 \in skip + 1 .. skip + take
    BY <1>4
  <2> QED BY <1>4, <2>2, <2>3 DEF PageOf
<1>5. take # 0 /\ PageOf(S, skip, take) = {} => \A i \in S : Rank(S, i) <= skip
  BY <1>1, <1>4
<1> QED BY <1>2, <1>3, <1>5

\* After a row c that is there, a page is the rows after it, up to its last one.
LEMMA PageAfterRow ==
    ASSUME NEW S \in SUBSET Nat, NEW c \in Nat, NEW take \in Nat, take # 0,
           c \in S, \A i \in S : c <= i
    PROVE  /\ \A i \in PageOf(S, 1, take) : i \in S /\ c < i
           /\ \A i \in PageOf(S, 1, take) :
                \A k \in S : c < k /\ k <= i => k \in PageOf(S, 1, take)
           /\ PageOf(S, 1, take) = {} => S = {c}
<1>1. Rank(S, c) = 1
  BY RankFirst
<1>2. \A i \in S : i \in Nat /\ Rank(S, i) \in Nat /\ (Rank(S, i) > 1 <=> c < i) /\ c <= i
  BY <1>1, RankDecides, RankType
<1>3. PICK P : P = PageOf(S, 1, take)
  OBVIOUS
<1>4. /\ P \subseteq S
      /\ \A i \in P : Rank(S, i) > 1
      /\ \A i \in P : \A k \in S : k <= i /\ Rank(S, k) > 1 => k \in P
      /\ P = {} => \A i \in S : Rank(S, i) <= 1
  BY <1>3, PageIsNext
<1>5. P = {} => S = {c}
  <2>1. P = {} => \A i \in S : ~ (c < i) /\ c <= i /\ i \in Nat
    BY <1>2, <1>4
  <2>2. P = {} => \A i \in S : i = c
    BY <2>1
  <2> QED BY <2>2
<1> QED BY <1>2, <1>3, <1>4, <1>5

-----------------------------------------------------------------------------
(* Sequences of ids in order.                                                  *)

Increasing(s) == \A i, j \in DOMAIN s : i < j => s[i] < s[j]

LEMMA RankOfFinite ==
    ASSUME NEW S \in SUBSET Nat, NEW i \in Nat, i \in S, IsFiniteSet(S)
    PROVE  Rank(S, i) <= Cardinality(S)
<1>1. Below(S, i) \subseteq S
  BY InBelow
<1> QED BY <1>1, RankType, FS_Subset

\* Each number up to the size of a set is the rank of one element.
LEMMA RankTaken ==
    ASSUME NEW S \in SUBSET Nat, IsFiniteSet(S), NEW n \in 1..Cardinality(S)
    PROVE  \E i \in S : Rank(S, i) = n
<1>1. S # {} /\ Cardinality(S) \in Nat
  BY FS_CardinalityType, FS_EmptySet
<1>2. PICK m \in S : \A j \in S : j <= m
  BY <1>1, LargestNat
<1>3. m \in Nat
  BY <1>2
<1>4. Below(S, m) = S
  BY <1>2, <1>3, InBelow
<1>5. Rank(S, m) = Cardinality(S)
  BY <1>2, <1>3, <1>4, RankType
<1> QED BY <1>1, <1>2, <1>3, <1>5, RankReached

LEMMA InOrderType ==
    ASSUME NEW S \in SUBSET Nat, IsFiniteSet(S)
    PROVE  /\ InOrder(S) \in Seq(S) /\ Len(InOrder(S)) = Cardinality(S)
           /\ DOMAIN InOrder(S) = 1..Cardinality(S) /\ Cardinality(S) \in Nat
           /\ \A n \in 1..Cardinality(S) : InOrder(S)[n] \in S /\ Rank(S, InOrder(S)[n]) = n
           /\ Increasing(InOrder(S))
           /\ Range(InOrder(S)) = S
<1> DEFINE t == InOrder(S)
           n == Cardinality(S)
<1>1. n \in Nat
  BY FS_CardinalityType
<1>2. t = [k \in 1..n |-> CHOOSE i \in S : Rank(S, i) = k]
  BY DEF InOrder
<1>3. ASSUME NEW k \in 1..n PROVE t[k] \in S /\ Rank(S, t[k]) = k
  <2>1. \E i \in S : Rank(S, i) = k
    BY <1>3, RankTaken
  <2>2. t[k] = CHOOSE i \in S : Rank(S, i) = k
    BY <1>2
  <2> QED BY <2>1, <2>2
<1>4. t \in Seq(S) /\ Len(t) = n /\ DOMAIN t = 1..n
  BY <1>1, <1>2, <1>3
<1> HIDE DEF t, n
<1>5. Increasing(t)
  <2> SUFFICES ASSUME NEW i \in 1..n, NEW j \in 1..n, i < j PROVE t[i] < t[j]
    BY <1>4 DEF Increasing
  <2>1. Rank(S, t[i]) < Rank(S, t[j]) /\ t[i] \in S /\ t[j] \in S
    BY <1>3
  <2>2. t[i] \in Nat /\ t[j] \in Nat
    BY <2>1
  <2> QED BY <2>1, <2>2, RankDecides
<1>6. Range(t) = S
  <2>1. \A x \in Range(t) : x \in S
    BY <1>3, <1>4 DEF Range
  <2>2. ASSUME NEW x \in S PROVE x \in Range(t)
    <3>1. x \in Nat
      OBVIOUS
    <3>2. Rank(S, x) \in Nat \ {0} /\ Rank(S, x) <= n
      BY <3>1, RankType, RankOfFinite DEF n
    <3>3. PICK k \in 1..n : k = Rank(S, x)
      BY <1>1, <3>2
    <3>4. t[k] \in S /\ Rank(S, t[k]) = Rank(S, x)
      BY <1>3, <3>3
    <3>5. t[k] = x
      <4>1. t[k] \in Nat
        BY <3>4
      <4> QED BY <3>1, <3>4, <4>1, RankDecides
    <3> QED BY <1>4, <3>3, <3>5 DEF Range
  <2> QED BY <2>1, <2>2
<1> QED BY <1>1, <1>3, <1>4, <1>5, <1>6 DEF t, n

\* The first elements of a set, without a gap, in order.
LEMMA FirstElements ==
    ASSUME NEW S \in SUBSET Nat, IsFiniteSet(S), NEW s \in Seq(Nat), Increasing(s),
           Range(s) \subseteq S,
           \A x \in S : \A i \in DOMAIN s : x <= s[i] => x \in Range(s)
    PROVE  /\ Len(s) <= Cardinality(S)
           /\ s = Firsts(InOrder(S), Len(s))
           /\ Range(s) = S => Len(s) = Cardinality(S)
<1> DEFINE D == 1..Len(s)
<1>1. /\ DOMAIN s = D /\ Len(s) \in Nat
      /\ \A i \in D : s[i] \in S /\ s[i] \in Nat /\ i \in Nat
      /\ \A x \in S : \A i \in D : x <= s[i] => \E j \in D : x = s[j]
      /\ \A i, j \in D : i < j => s[i] < s[j]
  <2>1. DOMAIN s = D /\ Len(s) \in Nat /\ \A i \in D : s[i] \in Nat /\ i \in Nat
    OBVIOUS
  <2>2. \A i \in D : s[i] \in Range(s)
    BY <2>1 DEF Range
  <2>3. \A x \in Range(s) : \E j \in D : x = s[j]
    BY <2>1 DEF Range
  <2> QED BY <2>1, <2>2, <2>3 DEF Increasing
<1> HIDE DEF D
<1>2. \A i, j \in D : s[i] < s[j] => i < j
  <2> SUFFICES ASSUME NEW i \in D, NEW j \in D, s[i] < s[j], ~ (i < j) PROVE FALSE
    OBVIOUS
  <2>1. i = j \/ j < i
    BY <1>1
  <2> QED BY <1>1, <2>1
<1>3. \A n \in D : Rank(S, s[n]) = n
  <2> DEFINE Bad == {n \in D : Rank(S, s[n]) # n}
  <2>1. Bad \subseteq Nat
    BY <1>1
  <2>2. SUFFICES ASSUME Bad # {} PROVE FALSE
    OBVIOUS
  <2>3. PICK n \in Bad : \A m \in Bad : n <= m
    <3> HIDE DEF Bad
    <3> QED BY <2>1, <2>2, LeastNat
  <2>4. n \in D /\ n \in Nat /\ n >= 1 /\ n <= Len(s) /\ Rank(S, s[n]) # n
    BY <1>1, <2>3 DEF D
  <2>5. \A m \in D : m < n => Rank(S, s[m]) = m
    BY <1>1, <2>3, <2>4
  <2>6. CASE n = 1
    <3>1. ASSUME NEW x \in S PROVE s[n] <= x
      <4>1. x \in Nat
        OBVIOUS
      <4>2. CASE x < s[n]
        <5>1. PICK j \in D : x = s[j]
          BY <1>1, <2>4, <4>1, <4>2
        <5>2. j < n
          BY <1>2, <2>4, <4>2, <5>1
        <5> QED BY <2>6, <5>2 DEF D
      <4> QED BY <1>1, <2>4, <4>1, <4>2
    <3>2. Rank(S, s[n]) = 1
      BY <1>1, <2>4, <3>1, RankFirst
    <3> QED BY <2>4, <2>6, <3>2
  <2>7. CASE n # 1
    <3>1. PICK k \in D : k = n - 1 /\ k < n
      BY <1>1, <2>4, <2>7 DEF D
    <3>2. Rank(S, s[k]) = k /\ s[k] < s[n]
      BY <1>1, <2>4, <2>5, <3>1
    <3>3. ASSUME NEW x \in S, x < s[n] PROVE x <= s[k]
      <4>1. x \in Nat
        OBVIOUS
      <4>2. PICK j \in D : x = s[j]
        <5>1. s[n] \in Nat /\ x <= s[n]
          BY <1>1, <2>4, <3>3, <4>1
        <5> QED BY <1>1, <2>4, <5>1
      <4>3. j < n
        BY <1>2, <2>4, <3>3, <4>2
      <4>4. j = k \/ j < k
        BY <1>1, <2>4, <3>1, <4>3
      <4> QED BY <1>1, <3>1, <4>2, <4>4
    <3>4. Rank(S, s[n]) = Rank(S, s[k]) + 1
      BY <1>1, <2>4, <3>1, <3>2, <3>3, RankNext
    <3> QED BY <1>1, <2>4, <3>1, <3>2, <3>4
  <2> QED BY <2>6, <2>7
<1>4. PICK t : t = InOrder(S)
  OBVIOUS
<1>5. PICK c \in Nat : c = Cardinality(S)
  BY FS_CardinalityType
<1>6. t \in Seq(S) /\ Len(t) = c /\ DOMAIN t = 1..c /\ \A n \in 1..c : t[n] \in S /\ Rank(S, t[n]) = n
  BY <1>4, <1>5, InOrderType
<1>7. \A n \in D : n <= c
  BY <1>1, <1>3, <1>5, RankOfFinite
<1>8. Len(s) <= c
  BY <1>1, <1>7 DEF D
<1>9. ASSUME NEW n \in D PROVE n \in 1..c /\ t[n] = s[n]
  <2>1. n \in 1..c /\ s[n] \in S /\ s[n] \in Nat
    BY <1>1, <1>7 DEF D
  <2>2. t[n] \in S /\ Rank(S, t[n]) = Rank(S, s[n])
    BY <1>3, <1>6, <2>1
  <2>3. t[n] \in Nat
    BY <2>2
  <2> QED BY <2>1, <2>2, <2>3, RankDecides
<1>10. s = Firsts(t, Len(s))
  <2>1. CASE Len(s) < c
    <3>1. Firsts(t, Len(s)) = SubSeq(t, 1, Len(s))
      BY <1>1, <1>6, <2>1 DEF Firsts
    <3>2. /\ SubSeq(t, 1, Len(s)) \in Seq(S) /\ Len(SubSeq(t, 1, Len(s))) = Len(s)
          /\ \A n \in D : SubSeq(t, 1, Len(s))[n] = t[n]
      BY <1>1, <1>6, <2>1 DEF D
    <3> QED BY <1>1, <1>9, <3>1, <3>2 DEF D
  <2>2. CASE Len(s) = c
    <3>1. Firsts(t, Len(s)) = t
      BY <1>6, <2>2 DEF Firsts
    <3>2. \A n \in 1..c : t[n] = s[n]
      BY <1>9, <2>2 DEF D
    <3> QED BY <1>1, <1>6, <2>2, <3>1, <3>2
  <2> QED BY <1>1, <1>8, <2>1, <2>2
<1>11. ASSUME Range(s) = S PROVE Len(s) = c
  <2>1. CASE c = 0
    BY <1>1, <1>8, <2>1
  <2>2. CASE c # 0
    <3>1. c \in 1..c
      BY <2>2
    <3>2. t[c] \in S /\ Rank(S, t[c]) = c
      BY <1>6, <3>1
    <3>3. PICK k \in D : t[c] = s[k]
      BY <1>1, <1>11, <3>2 DEF Range
    <3>4. k = c
      BY <1>3, <3>2, <3>3
    <3>5. k <= Len(s) /\ Len(s) \in Nat
      BY <1>1 DEF D
    <3> QED BY <1>8, <3>4, <3>5
  <2> QED BY <2>1, <2>2
<1> QED BY <1>4, <1>5, <1>8, <1>10, <1>11

LEMMA FirstsOf ==
    ASSUME NEW s \in Seq(Nat), NEW n \in Nat, Increasing(s)
    PROVE  /\ Firsts(s, n) \in Seq(Nat) /\ Increasing(Firsts(s, n))
           /\ Len(s) <= n => Firsts(s, n) = s
           /\ Len(s) > n => Len(Firsts(s, n)) = n
           /\ Range(Firsts(s, n)) \subseteq Range(s)
           /\ \A x \in Range(s) : \A i \in DOMAIN Firsts(s, n) :
                x <= Firsts(s, n)[i] => x \in Range(Firsts(s, n))
<1>1. Len(s) \in Nat /\ DOMAIN s = 1..Len(s)
  OBVIOUS
<1>2. CASE Len(s) <= n
  <2>1. ~ (Len(s) > n)
    BY <1>1, <1>2
  <2>2. Firsts(s, n) = s
    BY <2>1 DEF Firsts
  <2> QED BY <1>2, <2>1, <2>2 DEF Range
<1>3. CASE Len(s) > n
  <2>1. PICK t : t = SubSeq(s, 1, n)
    OBVIOUS
  <2>2. Firsts(s, n) = t
    BY <1>3, <2>1 DEF Firsts
  <2>3. t \in Seq(Nat) /\ Len(t) = n /\ DOMAIN t = 1..n /\ \A i \in 1..n : t[i] = s[i]
    BY <1>1, <1>3, <2>1
  <2>4. \A i \in 1..n : i \in DOMAIN s
    BY <1>1, <1>3
  <2>5. Increasing(t)
    BY <2>3, <2>4 DEF Increasing
  <2>6. \A x \in Range(t) : x \in Range(s)
    BY <2>3, <2>4 DEF Range
  <2>7. ASSUME NEW x \in Range(s), NEW i \in 1..n, x <= t[i] PROVE x \in Range(t)
    <3>1. PICK j \in 1..Len(s) : x = s[j]
      BY <1>1 DEF Range
    <3>2. j \in Nat /\ i \in DOMAIN s /\ j \in DOMAIN s /\ s[j] \in Nat /\ s[i] \in Nat /\ s[j] <= s[i]
      BY <1>1, <2>3, <2>4, <2>7, <3>1
    <3>3. ~ (i < j)
      BY <3>2 DEF Increasing
    <3>4. j \in 1..n
      BY <3>1, <3>2, <3>3
    <3> QED BY <2>3, <3>1, <3>4 DEF Range
  <2> QED BY <1>3, <2>2, <2>3, <2>5, <2>6, <2>7
<1> QED BY <1>1, <1>2, <1>3

LEMMA Joining ==
    ASSUME NEW s \in Seq(Nat), NEW t \in Seq(Nat), Increasing(s), Increasing(t),
           \A x \in Range(s), y \in Range(t) : x < y
    PROVE  /\ s \o t \in Seq(Nat) /\ Increasing(s \o t)
           /\ Range(s \o t) = Range(s) \cup Range(t)
<1>1. PICK u : u = s \o t
  OBVIOUS
<1>2. /\ Len(s) \in Nat /\ Len(t) \in Nat /\ DOMAIN s = 1..Len(s) /\ DOMAIN t = 1..Len(t)
      /\ u \in Seq(Nat) /\ Len(u) = Len(s) + Len(t) /\ DOMAIN u = 1..(Len(s) + Len(t))
  BY <1>1
<1>3. /\ \A i \in 1..Len(s) : u[i] = s[i] /\ i \in DOMAIN u
      /\ \A i \in 1..Len(t) : u[Len(s) + i] = t[i] /\ Len(s) + i \in DOMAIN u
  BY <1>1, <1>2
<1>4. \A i \in DOMAIN u : i \in 1..Len(s) \/ \E k \in 1..Len(t) : i = Len(s) + k
  <2> SUFFICES ASSUME NEW i \in DOMAIN u, i \notin 1..Len(s)
               PROVE  \E k \in 1..Len(t) : i = Len(s) + k
    OBVIOUS
  <2>1. i - Len(s) \in 1..Len(t) /\ i = Len(s) + (i - Len(s))
    BY <1>2
  <2> QED BY <2>1
<1>5. Increasing(u)
  <2> SUFFICES ASSUME NEW i \in DOMAIN u, NEW j \in DOMAIN u, i < j PROVE u[i] < u[j]
    BY DEF Increasing
  <2>1. i \in Nat /\ j \in Nat
    BY <1>2
  <2>2. CASE i \in 1..Len(s) /\ j \in 1..Len(s)
    BY <1>2, <1>3, <2>2 DEF Increasing
  <2>3. CASE i \in 1..Len(s) /\ j \notin 1..Len(s)
    <3>1. PICK k \in 1..Len(t) : j = Len(s) + k
      BY <1>4, <2>3
    <3>2. s[i] \in Range(s) /\ t[k] \in Range(t)
      BY <1>2, <2>3 DEF Range
    <3> QED BY <1>3, <2>3, <3>1, <3>2
  <2>4. CASE i \notin 1..Len(s)
    <3>1. j \notin 1..Len(s)
      BY <1>2, <2>1, <2>4
    <3>2. PICK k \in 1..Len(t), l \in 1..Len(t) : i = Len(s) + k /\ j = Len(s) + l
      BY <1>4, <2>4, <3>1
    <3>3. k < l /\ k \in DOMAIN t /\ l \in DOMAIN t
      BY <1>2, <3>2
    <3> QED BY <1>3, <3>2, <3>3 DEF Increasing
  <2> QED BY <2>2, <2>3, <2>4
<1>6. \A x \in Range(u) : x \in Range(s) \/ x \in Range(t)
  <2> SUFFICES ASSUME NEW x \in Range(u) PROVE x \in Range(s) \/ x \in Range(t)
    OBVIOUS
  <2>1. PICK i \in DOMAIN u : x = u[i]
    BY DEF Range
  <2>2. CASE i \in 1..Len(s)
    BY <1>2, <1>3, <2>1, <2>2 DEF Range
  <2>3. CASE i \notin 1..Len(s)
    <3>1. PICK k \in 1..Len(t) : i = Len(s) + k
      BY <1>4, <2>3
    <3> QED BY <1>2, <1>3, <2>1, <3>1 DEF Range
  <2> QED BY <2>2, <2>3
<1>7. \A x \in Range(s) : x \in Range(u)
  BY <1>2, <1>3 DEF Range
<1>8. \A x \in Range(t) : x \in Range(u)
  BY <1>2, <1>3 DEF Range
<1> QED BY <1>1, <1>2, <1>5, <1>6, <1>7, <1>8

\* Without its first n, the elements of a set are those of a higher rank.
LEMMA DropRank ==
    ASSUME NEW S \in SUBSET Nat, IsFiniteSet(S), NEW n \in Nat
    PROVE  Drop(InOrder(S), n) = {i \in S : Rank(S, i) > n}
<1>1. PICK t : t = InOrder(S)
  OBVIOUS
<1>2. /\ Len(t) = Cardinality(S) /\ Len(t) \in Nat /\ DOMAIN t = 1..Len(t) /\ Range(t) = S
      /\ \A k \in 1..Len(t) : t[k] \in S /\ Rank(S, t[k]) = k
  BY <1>1, InOrderType
<1>3. ASSUME NEW x \in Drop(t, n) PROVE x \in S /\ Rank(S, x) > n
  <2>1. PICK k \in n + 1 .. Len(t) : x = t[k]
    BY <1>3 DEF Drop
  <2>2. k \in 1..Len(t) /\ k > n
    BY <1>2, <2>1
  <2> QED BY <1>2, <2>1, <2>2
<1>4. ASSUME NEW x \in S, Rank(S, x) > n PROVE x \in Drop(t, n)
  <2>1. PICK k \in 1..Len(t) : x = t[k]
    BY <1>2 DEF Range
  <2>2. k > n
    BY <1>2, <1>4, <2>1
  <2>3. k \in n + 1 .. Len(t)
    BY <1>2, <2>2
  <2> QED BY <2>1, <2>3 DEF Drop
<1> QED BY <1>1, <1>3, <1>4

-----------------------------------------------------------------------------
(* Searches.                                                                   *)

SearchTables ==
    /\ searched \in {"activity", "organization"}
    /\ DOMAIN catalog \subseteq RowIds /\ Range(catalog) \subseteq Kinds
    /\ edits \in Nat /\ second \in Nat
    /\ history \in Seq([by : Searchers, at : 0..second])

\* A page that goes on from c in what q is about, without a gap, and is empty at its end.
Follows(P, c, q) ==
    /\ P \subseteq Asked(q) /\ \A x \in P : c < x
    /\ \A y \in P : \A x \in Asked(q) : c < x /\ x <= y => x \in P
    /\ \A y \in P : \A x \in Listed : y < x => x \in Asked(q)
    /\ P = {} => \A x \in Asked(q) : x <= c

LEMMA QueryType ==
    ASSUME NEW q \in Queries
    PROVE  /\ q.limit \in Nat /\ q.offset \in Nat /\ q.radius \in BOOLEAN
           /\ q.cursor \in Nat \cup {Null} /\ (q.cursor # Null => q.offset = 0)
           /\ q.cursor \in Int /\ Null = -1 /\ Null \notin Nat
  BY QueriesAssumption DEF Null

LEMMA ListedType ==
    ASSUME SearchTables
    PROVE  /\ Listed \in SUBSET Nat /\ Listed \subseteq RowIds /\ IsFiniteSet(Listed)
           /\ \A c \in Nat : c \in Listed => c \in DOMAIN catalog
           /\ From(Null) = Listed
           /\ \A c : From(c) \subseteq Listed
           /\ \A c \in Nat : \A i \in From(c) : i >= c
           /\ \A c \in Listed : \A i \in Listed : i >= c => i \in From(c)
<1>1. Listed \subseteq DOMAIN catalog /\ DOMAIN catalog \subseteq RowIds
  BY DEF Listed, SearchTables
<1>2. Listed \in SUBSET Nat /\ Listed \subseteq RowIds /\ IsFiniteSet(Listed)
  BY <1>1, RowIdsAssumption, FS_Subset
<1>3. From(Null) = Listed
  BY DEF From
<1>4. ASSUME NEW c PROVE From(c) \subseteq Listed
  BY DEF From
<1>5. ASSUME NEW c \in Nat PROVE c # Null
  BY DEF Null
<1>6. ASSUME NEW c \in Nat, NEW i \in From(c) PROVE i >= c
  BY <1>5, <1>6 DEF From
<1>7. ASSUME NEW c \in Listed, NEW i \in Listed, i >= c PROVE i \in From(c)
  BY <1>1, <1>2, <1>5, <1>7 DEF From
<1> QED BY <1>1, <1>2, <1>3, <1>4, <1>6, <1>7

LEMMA FromType ==
    ASSUME SearchTables, NEW c
    PROVE  From(c) \in SUBSET Nat /\ IsFiniteSet(From(c))
  BY ListedType, FS_Subset

\* What a search is about, by rank.
LEMMA AskedByRank ==
    ASSUME SearchTables, NEW q \in Queries, q.cursor = Null \/ searched = "organization"
    PROVE  Asked(q) = {i \in From(q.cursor) : Rank(From(q.cursor), i) > q.offset}
<1>1. CASE q.cursor = Null
  BY <1>1, ListedType, QueryType, DropRank DEF Asked
<1>2. CASE q.cursor # Null
  <2>1. q.offset = 0 /\ searched = "organization"
    BY <1>2, QueryType
  <2>2. Asked(q) = From(q.cursor)
    BY <1>2, <2>1 DEF Asked
  <2>3. \A i \in From(q.cursor) : i \in Nat /\ Rank(From(q.cursor), i) > 0
    <3> SUFFICES ASSUME NEW i \in From(q.cursor) PROVE i \in Nat /\ Rank(From(q.cursor), i) > 0
      OBVIOUS
    <3>1. i \in Nat
      BY FromType
    <3>2. Rank(From(q.cursor), i) \in Nat \ {0}
      BY <3>1, FromType, RankType
    <3> QED BY <3>1, <3>2
  <2>4. \A i : i \in Asked(q) <=> i \in From(q.cursor) /\ Rank(From(q.cursor), i) > q.offset
    BY <2>1, <2>2, <2>3
  <2> QED BY <2>4
<1> QED BY <1>1, <1>2

LEMMA AskedType ==
    ASSUME SearchTables, NEW q \in Queries
    PROVE  /\ Asked(q) \subseteq Listed /\ Asked(q) \in SUBSET Nat
           /\ Sought(q) \subseteq Asked(q) /\ Sought(q) \in SUBSET Nat /\ IsFiniteSet(Sought(q))
<1>1. Asked(q) \subseteq Listed
  <2>1. CASE q.cursor = Null
    BY <2>1, AskedByRank, ListedType
  <2>2. CASE q.cursor # Null
    <3>1. Asked(q) \subseteq From(q.cursor)
      BY <2>2 DEF Asked
    <3> QED BY <3>1, ListedType
  <2> QED BY <2>1, <2>2
<1>2. Sought(q) \subseteq Asked(q)
  BY DEF Sought, Hits
<1> QED BY <1>1, <1>2, ListedType, FS_Subset

LEMMA HitsOf ==
    ASSUME NEW S, NEW T, S \subseteq T, NEW q
    PROVE  \A x : x \in Hits(S, q) <=> x \in S /\ x \in Hits(T, q)
  BY DEF Hits

\* The first page of a search that does not go on from a cursor.
LEMMA FirstPage ==
    ASSUME SearchTables, NEW q \in Queries, q.cursor = Null \/ searched = "organization",
           q.cursor # Null => q.cursor \in Listed, NEW take \in Nat, take # 0
    PROVE  Follows(FindMany(q.cursor, q.offset, take), -1, q)
<1> DEFINE S == From(q.cursor)
           P == FindMany(q.cursor, q.offset, take)
<1>1. S \in SUBSET Nat /\ q.offset \in Nat
  BY FromType, QueryType
<1>2. \A i : i \in Asked(q) <=> i \in S /\ Rank(S, i) > q.offset
  BY AskedByRank
<1>3. \A x \in Listed : \A y \in S : y < x => x \in S
  <2>1. CASE q.cursor = Null
    BY <2>1, ListedType
  <2>2. CASE q.cursor # Null
    <3> SUFFICES ASSUME NEW x \in Listed, NEW y \in S, y < x PROVE x \in S
      OBVIOUS
    <3>1. q.cursor \in Nat /\ q.cursor \in Listed /\ x \in Nat /\ y \in Nat
      BY <1>1, <2>2, ListedType, QueryType
    <3>2. y >= q.cursor
      BY <3>1, ListedType
    <3>3. x >= q.cursor
      BY <3>1, <3>2
    <3> QED BY <3>1, <3>3, ListedType
  <2> QED BY <2>1, <2>2
<1>4. P = PageOf(S, q.offset, take)
  BY DEF FindMany
<1> HIDE DEF S, P
<1>5. /\ P \subseteq S
      /\ \A i \in P : Rank(S, i) > q.offset
      /\ \A i \in P : \A k \in S : k <= i /\ Rank(S, k) > q.offset => k \in P
      /\ P = {} => \A i \in S : Rank(S, i) <= q.offset
  BY <1>1, <1>4, PageIsNext
<1>6. P \subseteq Asked(q) /\ \A x \in P : -1 < x
  <2>1. \A x \in P : x \in Nat
    BY <1>1, <1>5
  <2> QED BY <1>2, <1>5, <2>1
<1>7. ASSUME P = {} PROVE Asked(q) = {}
  <2>1. \A i \in S : i \in Nat /\ Rank(S, i) \in Nat
    <3> SUFFICES ASSUME NEW i \in S PROVE i \in Nat /\ Rank(S, i) \in Nat
      OBVIOUS
    <3>1. i \in Nat
      BY <1>1
    <3> QED BY <1>1, <3>1, RankType
  <2>2. \A i \in S : ~ (Rank(S, i) > q.offset)
    BY <1>1, <1>5, <1>7, <2>1
  <2> QED BY <1>2, <2>2
<1>8. ASSUME NEW y \in P, NEW x \in Listed, y < x PROVE x \in Asked(q)
  <2>1. y \in S /\ x \in S /\ y \in Nat /\ x \in Nat
    BY <1>1, <1>3, <1>5, <1>8, ListedType
  <2>2. Rank(S, y) < Rank(S, x) /\ Rank(S, y) > q.offset /\ Rank(S, x) \in Nat /\ Rank(S, y) \in Nat
    BY <1>1, <1>5, <1>8, <2>1, RankGrows, RankType
  <2> QED BY <1>1, <1>2, <2>1, <2>2
<1>9. \A y \in P : \A x \in Asked(q) : x <= y => x \in P
  BY <1>2, <1>5
<1> QED BY <1>6, <1>7, <1>8, <1>9 DEF Follows, P

\* The rows that are read after the row c.
LEMMA RowsAfter ==
    ASSUME SearchTables, NEW c \in Nat, NEW take \in Nat
    PROVE  \A x \in FindMany(c, 1, take) : x \in Listed /\ x \in Nat /\ c < x
<1> DEFINE S == From(c)
           P == FindMany(c, 1, take)
<1>1. S \in SUBSET Nat /\ S \subseteq Listed /\ \A i \in S : i >= c
  BY FromType, ListedType
<1>2. P = PageOf(S, 1, take)
  BY DEF FindMany
<1> HIDE DEF S, P
<1>3. P \subseteq S /\ \A i \in P : Rank(S, i) > 1
  BY <1>1, <1>2, PageIsNext
<1>4. ASSUME NEW x \in P PROVE x \in Listed /\ x \in Nat /\ c < x
  <2>1. x \in S /\ x \in Nat /\ x >= c /\ x \in Listed
    BY <1>1, <1>3
  <2>2. CASE x = c
    <3>1. \A j \in S : x <= j
      BY <1>1, <2>2
    <3>2. Rank(S, x) = 1
      BY <1>1, <2>1, <3>1, RankFirst
    <3> QED BY <1>3, <3>2
  <2> QED BY <2>1, <2>2
<1> QED BY <1>4 DEF P

LEMMA NextPage ==
    ASSUME SearchTables, NEW q \in Queries, NEW c \in Nat, c \in Listed,
           \A x \in Listed : x > c => x \in Asked(q), NEW take \in Nat, take # 0
    PROVE  Follows(FindMany(c, 1, take), c, q)
<1> DEFINE S == From(c)
           P == FindMany(c, 1, take)
<1>1. S \in SUBSET Nat /\ S \subseteq Listed /\ (\A i \in S : c <= i) /\ c \in S
  <2>1. c >= c
    OBVIOUS
  <2>2. c \in S
    BY <2>1, ListedType
  <2>3. \A i \in S : i >= c /\ i \in Nat
    BY FromType, ListedType
  <2>4. S \in SUBSET Nat /\ S \subseteq Listed
    BY FromType, ListedType
  <2> HIDE DEF S
  <2> QED BY <2>2, <2>3, <2>4
<1>2. \A x \in Listed : x \in Nat /\ (x >= c => x \in S)
  BY ListedType
<1>3. P = PageOf(S, 1, take)
  BY DEF FindMany
<1> HIDE DEF S, P
<1>4. /\ \A i \in P : i \in S /\ c < i
      /\ \A i \in P : \A k \in S : c < k /\ k <= i => k \in P
      /\ P = {} => S = {c}
  BY <1>1, <1>3, PageAfterRow
<1>5. Asked(q) \subseteq Listed
  BY AskedType
<1>6. P \subseteq Asked(q) /\ \A x \in P : c < x
  BY <1>1, <1>2, <1>4
<1>7. ASSUME NEW y \in P, NEW x \in Asked(q), c < x, x <= y PROVE x \in P
  <2>1. x \in S
    <3>1. x \in Listed
      BY <1>5
    <3>2. x \in Nat /\ x >= c
      BY <1>2, <1>7, <3>1
    <3> QED BY <1>2, <3>1, <3>2
  <2> QED BY <1>4, <1>7, <2>1
<1>8. ASSUME NEW y \in P, NEW x \in Listed, y < x PROVE x \in Asked(q)
  <2>1. c < y /\ y \in Nat /\ x \in Nat
    BY <1>1, <1>2, <1>4
  <2> QED BY <1>8, <2>1
<1>9. ASSUME P = {}, NEW x \in Asked(q) PROVE x <= c
  <2>1. x \in Nat
    BY <1>2, <1>5
  <2>2. CASE x > c
    <3>1. x \in S /\ S = {c}
      BY <1>2, <1>4, <1>5, <1>9, <2>1, <2>2
    <3> QED BY <2>2, <3>1
  <2> QED BY <2>1, <2>2
<1> QED BY <1>6, <1>7, <1>8, <1>9 DEF Follows, P

LEMMA LastOf ==
    ASSUME SearchTables, NEW P, P \subseteq Listed, P # {}
    PROVE  /\ Largest(P) \in P /\ Largest(P) \in Nat /\ \A x \in P : x <= Largest(P)
<1>1. P \subseteq Nat /\ IsFiniteSet(P)
  BY ListedType, FS_Subset
<1>2. \E i \in P : \A j \in P : j <= i
  BY <1>1, LargestNat
<1>3. Largest(P) \in P /\ \A x \in P : x <= Largest(P)
  BY <1>2 DEF Largest
<1> QED BY <1>1, <1>3

LEMMA SeqOfNat ==
    ASSUME NEW S \in SUBSET Nat, NEW s \in Seq(S)
    PROVE  s \in Seq(Nat)
<1>1. Len(s) \in Nat /\ DOMAIN s = 1..Len(s) /\ s = [i \in 1..Len(s) |-> s[i]]
  OBVIOUS
<1>2. \A i \in 1..Len(s) : s[i] \in Nat
  <2> SUFFICES ASSUME NEW i \in 1..Len(s) PROVE s[i] \in Nat
    OBVIOUS
  <2>1. s[i] \in S
    OBVIOUS
  <2> QED BY <2>1
<1>3. s \in [1..Len(s) -> Nat]
  BY <1>1, <1>2
<1> QED BY <1>1, <1>3

\* What is found goes on in order with the hits of a page after it.
LEMMA FoundOn ==
    ASSUME SearchTables, NEW f \in Seq(Nat), NEW c \in Int, NEW P, NEW q, Increasing(f),
           \A x \in Range(f) : x \in RowIds /\ x <= c, P \subseteq Listed, \A x \in P : c < x
    PROVE  /\ f \o InOrder(Hits(P, q)) \in Seq(Nat) /\ Increasing(f \o InOrder(Hits(P, q)))
           /\ \A x : x \in Range(f \o InOrder(Hits(P, q))) <=> x \in Range(f) \/ x \in Hits(P, q)
           /\ \A x \in Range(f \o InOrder(Hits(P, q))) : x \in RowIds
<1> DEFINE H == Hits(P, q)
           t == InOrder(H)
<1>1. H \subseteq P
  BY DEF Hits
<1>2. H \in SUBSET Nat /\ IsFiniteSet(H) /\ H \subseteq RowIds
  BY <1>1, ListedType, FS_Subset
<1> HIDE DEF H
<1>3. t \in Seq(H) /\ Increasing(t) /\ Range(t) = H
  BY <1>2, InOrderType
<1>4. t \in Seq(Nat)
  BY <1>2, <1>3, SeqOfNat
<1> HIDE DEF t
<1>5. \A x \in Range(f), y \in Range(t) : x < y
  <2> SUFFICES ASSUME NEW x \in Range(f), NEW y \in Range(t) PROVE x < y
    OBVIOUS
  <2>1. x \in Nat /\ x <= c /\ y \in Nat /\ c < y
    BY <1>1, <1>2, <1>3, RowIdsAssumption
  <2> QED BY <2>1
<1>6. f \o t \in Seq(Nat) /\ Increasing(f \o t) /\ Range(f \o t) = Range(f) \cup Range(t)
  BY <1>3, <1>4, <1>5, Joining
<1> QED BY <1>2, <1>3, <1>6 DEF t, H

\* If it was all that is sought up to c, it is now all that is sought up to the last row.
LEMMA FoundReads ==
    ASSUME SearchTables, NEW q \in Queries, NEW F, NEW G, NEW P, NEW c \in Int,
           Follows(P, c, q), P # {},
           \A x : x \in F <=> x \in Sought(q) /\ x <= c,
           \A x : x \in G <=> x \in F \/ x \in Hits(P, q)
    PROVE  /\ \A x : x \in G <=> x \in Sought(q) /\ x <= Largest(P)
           /\ \A x \in Listed : x > Largest(P) => x \in Asked(q)
           /\ Largest(P) \in Listed
<1>1. P \subseteq Asked(q) /\ Asked(q) \subseteq Listed /\ Asked(q) \in SUBSET Nat
  BY AskedType DEF Follows
<1>2. PICK l \in P : l = Largest(P) /\ l \in Nat /\ \A x \in P : x <= l
  BY <1>1, LastOf
<1>3. \A x : x \in Hits(P, q) <=> x \in P /\ x \in Sought(q)
  BY <1>1, HitsOf DEF Sought
<1>4. \A x \in Sought(q) : x \in Asked(q) /\ x \in Nat
  BY AskedType
<1>5. ASSUME NEW x \in G PROVE x \in Sought(q) /\ x <= l
  <2>1. CASE x \in F
    <3>1. x \in Sought(q) /\ x \in Nat /\ x <= c /\ c < l
      BY <1>2, <1>4, <2>1 DEF Follows
    <3> QED BY <1>2, <3>1
  <2>2. CASE x \in Hits(P, q)
    BY <1>2, <1>3, <2>2
  <2> QED BY <1>5, <2>1, <2>2
<1>6. ASSUME NEW x \in Sought(q), x <= l PROVE x \in G
  <2>1. CASE x <= c
    BY <2>1
  <2>2. CASE ~ (x <= c)
    <3>1. c < x /\ x \in Asked(q)
      BY <1>4, <2>2
    <3>2. x \in P
      BY <1>2, <1>6, <3>1 DEF Follows
    <3> QED BY <1>3, <3>2
  <2> QED BY <2>1, <2>2
<1>7. \A x \in Listed : x > l => x \in Asked(q)
  <2> SUFFICES ASSUME NEW x \in Listed, x > l PROVE x \in Asked(q)
    OBVIOUS
  <2>1. l < x
    BY <1>2, ListedType
  <2> QED BY <1>2, <2>1 DEF Follows
<1> QED BY <1>1, <1>2, <1>5, <1>6, <1>7

\* The first rows of what is found are the first of those sought.
LEMMA FoundAnswers ==
    ASSUME SearchTables, NEW q \in Queries, NEW f \in Seq(Nat), NEW c \in Int, NEW n \in Nat,
           Increasing(f), \A x : x \in Range(f) <=> x \in Sought(q) /\ x <= c
    PROVE  /\ Firsts(f, n) = Firsts(InOrder(Sought(q)), Len(Firsts(f, n)))
           /\ Len(f) <= n /\ (\A x \in Sought(q) : x <= c)
                => Len(Firsts(f, n)) = Cardinality(Sought(q))
<1>1. PICK S : S = Sought(q)
  OBVIOUS
<1>2. S \in SUBSET Nat /\ IsFiniteSet(S)
  BY <1>1, AskedType
<1>3. PICK s : s = Firsts(f, n)
  OBVIOUS
<1>4. /\ s \in Seq(Nat) /\ Increasing(s) /\ Range(s) \subseteq Range(f)
      /\ \A x \in Range(f) : \A i \in DOMAIN s : x <= s[i] => x \in Range(s)
      /\ Len(f) <= n => s = f
  BY <1>3, FirstsOf
<1>5. Range(s) \subseteq S
  BY <1>1, <1>4
<1>6. ASSUME NEW x \in S, NEW i \in DOMAIN s, x <= s[i] PROVE x \in Range(s)
  <2>1. s[i] \in Range(s)
    BY DEF Range
  <2>2. s[i] \in Nat /\ s[i] <= c /\ x \in Nat
    BY <1>1, <1>2, <1>4, <1>5, <2>1
  <2>3. x <= c
    BY <1>6, <2>2
  <2> QED BY <1>1, <1>4, <1>6, <2>3
<1>7. s = Firsts(InOrder(S), Len(s)) /\ (Range(s) = S => Len(s) = Cardinality(S))
  BY <1>2, <1>4, <1>5, <1>6, FirstElements
<1>8. Len(f) <= n /\ (\A x \in S : x <= c) => Range(s) = S
  BY <1>1, <1>4
<1> QED BY <1>1, <1>3, <1>7, <1>8

-----------------------------------------------------------------------------

MostMisses == IF searched = "activity" THEN ActivityMisses ELSE OrganizationMisses

\* What a search has found is all it is to find up to its cursor.
Reads(p, q) ==
    /\ \A x : x \in Range(p.found) <=> x \in Sought(q) /\ x <= p.cursor
    /\ p.cursor = Null => q.cursor = Null /\ searched = "activity"
    /\ p.cursor # Null => /\ p.cursor \in Listed
                          /\ \A x \in Listed : x > p.cursor => x \in Asked(q)

\* What a search has found, whatever has happened to the rows.
FoundOK(p) ==
    /\ p.cursor \in Nat \cup {Null} /\ p.found \in Seq(Nat) /\ Increasing(p.found)
    /\ \A x \in Range(p.found) : x \in RowIds /\ x <= p.cursor
    /\ p.misses \in Nat /\ p.edits \in Nat /\ p.edits <= edits

SearchOf(r) ==
    /\ r.by \in Searchers /\ r.on = {r.by} /\ r.arg \in Queries
    /\ FoundOK(r.seen) /\ r.seen.misses < MostMisses
    /\ DOMAIN r.seen = {"cursor", "found", "misses", "edits"}
    /\ searched = "activity" => /\ r.at \in {"create", "update", "page"}
                                /\ Len(r.seen.found) < r.arg.limit \/ r.arg.limit = 0
    /\ searched = "organization" => /\ r.at \in {"first", "page"}
                                    /\ r.at = "page" => r.arg.radius
    /\ r.at # "page" => r.seen.found = <<>> /\ r.seen.cursor = r.arg.cursor
    /\ r.seen.edits = edits /\ Sensible(r.arg) /\ r.at # "first" => Reads(r.seen, r.arg)

SearchKinds(r) ==
    /\ DOMAIN r = Fields /\ r.op \in {"idle", "search"}
    /\ r.op = "search" => SearchOf(r)

SearchSlots ==
    /\ DOMAIN req = Handlers /\ Exclusive
    /\ \A h \in Handlers : SearchKinds(req[h])

\* An answer that is right of the rows it was given of.
Fair(a) ==
    /\ a.to \in Queries /\ a.ids \in Seq(Nat) /\ Increasing(a.ids) /\ Range(a.ids) \subseteq RowIds
    /\ a.edits \in Nat /\ a.edits <= edits
    /\ searched = "activity" => Len(a.ids) <= a.to.limit
    /\ a.edits = edits /\ Sensible(a.to) =>
          /\ a.ids = Firsts(InOrder(Sought(a.to)), Len(a.ids))
          /\ \/ Len(a.ids) >= Wanted(a.to) \/ a.misses = MostMisses
             \/ Len(a.ids) = Cardinality(Sought(a.to))

SearchInv ==
    /\ SearchTables /\ SearchSlots
    /\ answer # <<>> => Fair(answer)

LEMMA SearchIdle == Idle.op = "idle" /\ DOMAIN Idle = Fields /\ SearchKinds(Idle)
  BY DEF Idle, Fields, SearchKinds

\* What a search is to find depends on the table alone.
LEMMA SoughtStays ==
    ASSUME UNCHANGED <<searched, catalog>>
    PROVE  /\ Listed' = Listed /\ MostMisses' = MostMisses
           /\ \A q : /\ Asked(q)' = Asked(q) /\ Sought(q)' = Sought(q)
                     /\ Sensible(q)' = Sensible(q) /\ Wanted(q)' = Wanted(q)
<1>1. Listed' = Listed
  BY DEF Listed
<1>2. \A c : From(c)' = From(c)
  BY <1>1 DEF From
<1>3. \A q : Asked(q)' = Asked(q)
  BY <1>1, <1>2 DEF Asked
<1>4. \A S, q : Hits(S, q)' = Hits(S, q)
  BY DEF Hits
<1>5. \A q : Sought(q)' = Sought(q)
  BY <1>3, <1>4 DEF Sought
<1>6. \A q : Sensible(q)' = Sensible(q)
  BY <1>1 DEF Sensible
<1>7. MostMisses' = MostMisses /\ \A q : Wanted(q)' = Wanted(q)
  BY DEF MostMisses, Wanted
<1> QED BY <1>1, <1>3, <1>5, <1>6, <1>7

LEMMA SearchStays ==
    ASSUME UNCHANGED <<searched, catalog, edits>>
    PROVE  (\A r : SearchKinds(r) => SearchKinds(r)') /\ (\A a : Fair(a) => Fair(a)')
<1>1. \A p, q : Reads(p, q) => Reads(p, q)'
  BY SoughtStays DEF Reads
<1>2. \A p : FoundOK(p) => FoundOK(p)'
  BY DEF FoundOK
<1>3. \A r : SearchOf(r) => SearchOf(r)'
  BY <1>1, <1>2, SoughtStays DEF SearchOf
<1>4. \A r : SearchKinds(r) => SearchKinds(r)'
  BY <1>3 DEF SearchKinds
<1>5. \A a : Fair(a) => Fair(a)'
  BY SoughtStays DEF Fair
<1> QED BY <1>4, <1>5

\* An edit leaves what has been found before it without a claim.
LEMMA EditStays ==
    ASSUME SearchTables, edits' = edits + 1, searched' = searched
    PROVE  (\A r : SearchKinds(r) => SearchKinds(r)') /\ (\A a : Fair(a) => Fair(a)')
<1>1. MostMisses' = MostMisses
  BY DEF MostMisses
<1>2. ASSUME NEW n \in Nat, n <= edits PROVE n <= edits' /\ n # edits'
  BY <1>2 DEF SearchTables
<1>3. \A p : FoundOK(p) => FoundOK(p)'
  BY <1>2 DEF FoundOK
<1>4. \A r : SearchOf(r) => r.seen.edits # edits'
  BY <1>2 DEF SearchOf, FoundOK
<1>5. \A r : SearchOf(r) => SearchOf(r)'
  BY <1>1, <1>3, <1>4 DEF SearchOf
<1>6. \A r : SearchKinds(r) => SearchKinds(r)'
  BY <1>5 DEF SearchKinds
<1>7. ASSUME NEW a, Fair(a) PROVE Fair(a)'
  <2>1. a.edits <= edits' /\ a.edits # edits'
    BY <1>2, <1>7 DEF Fair
  <2> QED BY <1>7, <2>1 DEF Fair
<1> QED BY <1>6, <1>7

-----------------------------------------------------------------------------

\* A slot takes a request, and the rows stay.
LEMMA SearchSlot ==
    ASSUME SearchInv, UNCHANGED <<searched, catalog, edits, history, second>>,
           NEW h \in Handlers, NEW r, Takes(h, r), Exclusive', SearchKinds(r),
           NEW a, answer' = a, a # <<>> => Fair(a)
    PROVE  SearchInv'
<1>1. SearchTables'
  BY DEF SearchInv, SearchTables
<1>2. \A g \in Handlers : SearchKinds(req'[g])
  BY DEF SearchInv, SearchSlots, Takes
<1>3. \A g \in Handlers : SearchKinds(req[g])'
  <2> SUFFICES ASSUME NEW g \in Handlers PROVE SearchKinds(req[g])'
    OBVIOUS
  <2>1. PICK s : s = req'[g]
    OBVIOUS
  <2>2. SearchKinds(s)'
    BY <1>2, <2>1, SearchStays
  <2> QED BY <2>1, <2>2
<1>4. answer' # <<>> => Fair(answer)'
  <2>1. a # <<>> => Fair(a)'
    BY SearchStays
  <2> QED BY <2>1
<1>5. SearchSlots'
  BY <1>3 DEF SearchSlots, Takes
<1> QED BY <1>1, <1>4, <1>5 DEF SearchInv

\* A search ends with an answer.
LEMMA Responds ==
    ASSUME SearchInv, UNCHANGED <<searched, catalog, edits, history, second>>,
           NEW h \in Handlers, NEW f, NEW m, Respond(h, f, m),
           \A a : a.to = req[h].arg /\ a.ids = f /\ a.misses = m /\ a.edits = req[h].seen.edits
                    => Fair(a)
    PROVE  SearchInv'
<1>1. PICK a : a = [to |-> req[h].arg, ids |-> f, misses |-> m, edits |-> req[h].seen.edits]
  OBVIOUS
<1>2. answer' = a /\ Fair(a) /\ End(h)
  BY <1>1 DEF Respond
<1>3. Takes(h, Idle) /\ Exclusive'
  BY <1>2, Ends DEF SearchInv, SearchSlots
<1> QED BY <1>2, <1>3, SearchIdle, SearchSlot

\* A search goes on to its next page.
LEMMA GoesOnPage ==
    ASSUME SearchInv, UNCHANGED <<searched, catalog, edits, history, second, answer>>,
           NEW h \in Handlers, req[h].op = "search", NEW p, Goto(h, "page", p),
           FoundOK(p), p.misses < MostMisses, DOMAIN p = {"cursor", "found", "misses", "edits"},
           searched = "activity" => Len(p.found) < req[h].arg.limit \/ req[h].arg.limit = 0,
           searched = "organization" => req[h].arg.radius,
           p.edits = edits /\ Sensible(req[h].arg) => Reads(p, req[h].arg)
    PROVE  SearchInv'
<1>1. SearchKinds(req[h]) /\ DOMAIN req = Handlers /\ Exclusive
  BY DEF SearchInv, SearchSlots
<1>2. PICK r : /\ Takes(h, r) /\ Exclusive' /\ DOMAIN r = Fields
               /\ r.op = req[h].op /\ r.by = req[h].by /\ r.on = req[h].on
               /\ r.arg = req[h].arg /\ r.at = "page" /\ r.seen = p
  BY <1>1, GoesOn DEF SearchKinds
<1>3. SearchKinds(r)
  BY <1>1, <1>2 DEF SearchKinds, SearchOf
<1>4. answer # <<>> => Fair(answer)
  BY DEF SearchInv
<1> QED BY <1>2, <1>3, <1>4, SearchSlot

-----------------------------------------------------------------------------

\* The rows of a page, whatever has happened to the rows before.
LEMMA RowsRead ==
    ASSUME SearchTables, NEW c \in Nat \cup {Null}, NEW skip \in Nat, NEW take \in Nat,
           c # Null => skip = 1
    PROVE  \A x \in FindMany(c, skip, take) : x \in Listed /\ x \in Nat /\ c < x
<1>1. CASE c \in Nat
  <2>1. c # Null
    BY <1>1 DEF Null
  <2> QED BY <1>1, <2>1, RowsAfter
<1>2. CASE c = Null
  <2>1. FindMany(c, skip, take) \subseteq Listed
    BY <1>2, ListedType DEF FindMany, PageOf
  <2>2. \A x \in Listed : x \in Nat
    BY ListedType
  <2> QED BY <1>2, <2>1, <2>2 DEF Null
<1> QED BY <1>1, <1>2

\* The page after one that has left a claim.
LEMMA PageFollows ==
    ASSUME SearchTables, NEW q \in Queries, NEW p, p.cursor \in Nat \cup {Null}, Reads(p, q),
           NEW take \in Nat, take # 0,
           NEW skip, skip = IF p.cursor = Null THEN q.offset ELSE 1
    PROVE  Follows(FindMany(p.cursor, skip, take), p.cursor, q)
<1>1. CASE p.cursor = Null
  <2>1. q.cursor = Null /\ skip = q.offset /\ p.cursor = -1
    BY <1>1 DEF Reads, Null
  <2>2. Follows(FindMany(q.cursor, q.offset, take), -1, q)
    BY <2>1, FirstPage
  <2> QED BY <1>1, <2>1, <2>2
<1>2. CASE p.cursor # Null
  <2>1. /\ p.cursor \in Nat /\ p.cursor \in Listed /\ skip = 1
        /\ \A x \in Listed : x > p.cursor => x \in Asked(q)
    BY <1>2 DEF Reads
  <2> QED BY <2>1, NextPage
<1> QED BY <1>1, <1>2

\* A search with a page more.
LEMMA TurnedPage ==
    ASSUME SearchTables, NEW q \in Queries, NEW p, FoundOK(p), p.misses < MostMisses,
           DOMAIN p = {"cursor", "found", "misses", "edits"},
           NEW P, P # {}, \A x \in P : x \in Listed /\ x \in Nat /\ p.cursor < x
    PROVE  LET n == Turned(p, P, q)
           IN  /\ FoundOK(n) /\ n.misses <= MostMisses /\ MostMisses \in Nat
               /\ DOMAIN n = {"cursor", "found", "misses", "edits"} /\ n.edits = p.edits
               /\ Reads(p, q) /\ Follows(P, p.cursor, q) => Reads(n, q)
<1> DEFINE H == Hits(P, q)
<1>1. PICK n : n = Turned(p, P, q)
  OBVIOUS
<1>2. /\ n.cursor = Largest(P) /\ n.found = p.found \o InOrder(H)
      /\ n.misses = IF H = {} THEN p.misses + 1 ELSE p.misses
      /\ n.edits = p.edits /\ DOMAIN n = {"cursor", "found", "misses", "edits"}
  BY <1>1 DEF Turned
<1>3. P \subseteq Listed /\ p.cursor \in Int /\ \A x \in P : p.cursor < x
  BY DEF FoundOK, Null
<1>4. n.cursor \in P /\ n.cursor \in Nat /\ \A x \in P : x <= n.cursor
  BY <1>2, <1>3, LastOf
<1>5. /\ n.found \in Seq(Nat) /\ Increasing(n.found)
      /\ \A x : x \in Range(n.found) <=> x \in Range(p.found) \/ x \in H
      /\ \A x \in Range(n.found) : x \in RowIds
  <2>1. PICK c \in Int : c = p.cursor
    BY <1>3
  <2>2. PICK f \in Seq(Nat) : f = p.found
    BY DEF FoundOK
  <2>3. Increasing(f) /\ (\A x \in Range(f) : x \in RowIds /\ x <= c) /\ \A x \in P : c < x
    BY <1>3, <2>1, <2>2 DEF FoundOK
  <2> QED BY <1>2, <1>3, <2>2, <2>3, FoundOn
<1>6. ASSUME NEW x \in Range(n.found) PROVE x <= n.cursor
  <2>1. CASE x \in Range(p.found)
    <3>1. x <= p.cursor /\ p.cursor < n.cursor /\ x \in Nat
      BY <1>4, <2>1, RowIdsAssumption DEF FoundOK
    <3> QED BY <1>3, <1>4, <3>1
  <2>2. CASE x \in H
    BY <1>4, <2>2 DEF Hits
  <2> QED BY <1>5, <1>6, <2>1, <2>2
<1>7. MostMisses \in Nat /\ n.misses \in Nat /\ n.misses <= MostMisses
  <2>1. MostMisses \in Nat
    BY PagesAssumption DEF MostMisses
  <2> QED BY <1>2, <2>1 DEF FoundOK
<1>8. FoundOK(n)
  BY <1>2, <1>4, <1>5, <1>6, <1>7 DEF FoundOK
<1>9. ASSUME Reads(p, q), Follows(P, p.cursor, q) PROVE Reads(n, q)
  <2>1. PICK c \in Int : c = p.cursor
    BY <1>3
  <2>2. PICK F : F = Range(p.found)
    OBVIOUS
  <2>3. PICK G : G = Range(n.found)
    OBVIOUS
  <2>4. \A x : x \in F <=> x \in Sought(q) /\ x <= c
    BY <1>9, <2>1, <2>2 DEF Reads
  <2>5. \A x : x \in G <=> x \in F \/ x \in Hits(P, q)
    BY <1>5, <2>2, <2>3
  <2>6. /\ \A x : x \in G <=> x \in Sought(q) /\ x <= Largest(P)
        /\ \A x \in Listed : x > Largest(P) => x \in Asked(q)
        /\ Largest(P) \in Listed
    <3>1. Follows(P, c, q)
      BY <1>9, <2>1
    <3> HIDE DEF H
    <3> QED BY <2>4, <2>5, <3>1, FoundReads
  <2>7. n.cursor # Null
    BY <1>4 DEF Null
  <2> QED BY <1>2, <2>3, <2>6, <2>7 DEF Reads
<1> QED BY <1>1, <1>2, <1>7, <1>8, <1>9

\* What has been found answers a query that is asked of the rows as they are.
LEMMA ReadsAnswers ==
    ASSUME SearchTables, NEW q \in Queries, NEW p, FoundOK(p), Reads(p, q), NEW n \in Nat
    PROVE  /\ Firsts(p.found, n) = Firsts(InOrder(Sought(q)), Len(Firsts(p.found, n)))
           /\ Len(p.found) <= n /\ (\A x \in Asked(q) : x <= p.cursor)
                => Len(Firsts(p.found, n)) = Cardinality(Sought(q))
<1>1. PICK c \in Int : c = p.cursor
  BY DEF FoundOK, Null
<1>2. PICK f \in Seq(Nat) : f = p.found
  BY DEF FoundOK
<1>3. Increasing(f) /\ \A x : x \in Range(f) <=> x \in Sought(q) /\ x <= c
  BY <1>1, <1>2 DEF FoundOK, Reads
<1>4. Sought(q) \subseteq Asked(q)
  BY AskedType
<1> QED BY <1>1, <1>2, <1>3, <1>4, FoundAnswers

-----------------------------------------------------------------------------
(* The steps of a search. *)

LEMMA SearchInFlight ==
    ASSUME SearchInv, NEW h \in Handlers, req[h].op = "search"
    PROVE  /\ SearchTables /\ SearchOf(req[h]) /\ req[h].arg \in Queries
           /\ FoundOK(req[h].seen) /\ req[h].seen.misses < MostMisses
           /\ DOMAIN req[h].seen = {"cursor", "found", "misses", "edits"}
  BY DEF SearchInv, SearchSlots, SearchKinds, SearchOf

LEMMA ActivitySearchKeeps ==
    ASSUME SearchInv, NEW h \in Handlers, ActivitySearch(h) PROVE SearchInv'
<1>1. PICK q : q = req[h].arg
  OBVIOUS
<1>2. PICK p : p = req[h].seen
  OBVIOUS
<1>3. /\ searched = "activity" /\ req[h].op = "search" /\ req[h].at = "page"
      /\ UNCHANGED <<searched, catalog, edits, history, second>>
  BY DEF ActivitySearch, At
<1>4. /\ SearchTables /\ q \in Queries /\ FoundOK(p) /\ p.misses < MostMisses
      /\ DOMAIN p = {"cursor", "found", "misses", "edits"}
      /\ Len(p.found) < q.limit \/ q.limit = 0
      /\ p.edits = edits /\ Sensible(q) => Reads(p, q)
      /\ Wanted(q) = q.limit /\ MostMisses = ActivityMisses
  BY <1>1, <1>2, <1>3, SearchInFlight DEF SearchOf, Wanted, MostMisses
<1>5. /\ q.limit \in Nat /\ q.offset \in Nat /\ p.cursor \in Nat \cup {Null}
      /\ p.found \in Seq(Nat) /\ Len(p.found) \in Nat /\ p.edits \in Nat /\ p.edits <= edits
  BY <1>4, QueryType DEF FoundOK
<1>6. PICK take : take = SearchLimit(q)
  OBVIOUS
<1>7. take \in Nat /\ (q.limit # 0 => take # 0)
  BY <1>5, <1>6, PagesAssumption DEF SearchLimit
<1>8. PICK skip : skip = IF p.cursor = Null THEN q.offset ELSE 1
  OBVIOUS
<1>9. skip \in Nat /\ (p.cursor # Null => skip = 1)
  BY <1>5, <1>8
<1>10. PICK P : P = FindMany(p.cursor, skip, take)
  OBVIOUS
<1>11. \A x \in P : x \in Listed /\ x \in Nat /\ p.cursor < x
  BY <1>4, <1>5, <1>7, <1>9, <1>10, RowsRead
<1>12. q.limit # 0 /\ Reads(p, q) => Follows(P, p.cursor, q)
  BY <1>4, <1>5, <1>7, <1>8, <1>10, PageFollows
<1>13. PICK n : n = Turned(p, P, q)
  OBVIOUS
<1>14. P = ActivityRows(p, q)
  BY <1>6, <1>8, <1>10 DEF ActivityRows
\* An answer of what has been found.
<1>15. ASSUME NEW f, FoundOK(f), f.edits = p.edits, NEW m,
              f.edits = edits /\ Sensible(q) => Reads(f, q),
              \/ Len(f.found) >= q.limit \/ m = MostMisses
              \/ Reads(f, q) => \A x \in Asked(q) : x <= f.cursor,
              NEW a, a.to = q, a.ids = Firsts(f.found, q.limit), a.misses = m, a.edits = p.edits
       PROVE  Fair(a)
  <2>1. PICK s : s = Firsts(f.found, q.limit)
    OBVIOUS
  <2>2. f.found \in Seq(Nat) /\ Increasing(f.found) /\ Len(f.found) \in Nat
    BY <1>15 DEF FoundOK
  <2>3. /\ s \in Seq(Nat) /\ Increasing(s) /\ Range(s) \subseteq Range(f.found)
        /\ Len(f.found) <= q.limit => s = f.found
        /\ Len(f.found) > q.limit => Len(s) = q.limit
    BY <1>5, <2>1, <2>2, FirstsOf
  <2>4. Range(s) \subseteq RowIds /\ Len(s) <= q.limit
    <3>1. \A x \in Range(f.found) : x \in RowIds
      BY <1>15 DEF FoundOK
    <3> QED BY <1>5, <2>2, <2>3, <3>1
  <2>5. ASSUME a.edits = edits, Sensible(q)
        PROVE  /\ s = Firsts(InOrder(Sought(q)), Len(s))
               /\ Len(s) >= q.limit \/ m = MostMisses \/ Len(s) = Cardinality(Sought(q))
    <3>1. Reads(f, q)
      BY <1>15, <2>5
    <3>2. /\ s = Firsts(InOrder(Sought(q)), Len(s))
          /\ Len(f.found) <= q.limit /\ (\A x \in Asked(q) : x <= f.cursor)
                => Len(s) = Cardinality(Sought(q))
      BY <1>4, <1>5, <1>15, <2>1, <3>1, ReadsAnswers
    <3>3. CASE Len(f.found) >= q.limit
      BY <1>5, <2>2, <2>3, <3>2, <3>3
    <3>4. CASE m = MostMisses
      BY <3>2, <3>4
    <3>5. CASE (\A x \in Asked(q) : x <= f.cursor) /\ ~ (Len(f.found) >= q.limit)
      BY <1>5, <2>2, <3>2, <3>5
    <3> QED BY <1>15, <3>1, <3>3, <3>4, <3>5
  <2> QED BY <1>3, <1>4, <1>5, <1>15, <2>1, <2>3, <2>4, <2>5 DEF Fair
<1>16. CASE (q.limit = 0 \/ P = {}) /\ Respond(h, Firsts(p.found, q.limit), p.misses)
  <2>1. \/ Len(p.found) >= q.limit
        \/ Reads(p, q) => \A x \in Asked(q) : x <= p.cursor
    <3>1. CASE q.limit = 0
      BY <1>5, <3>1
    <3>2. CASE q.limit # 0 /\ P = {}
      BY <1>12, <3>2 DEF Follows
    <3> QED BY <1>16, <3>1, <3>2
  <2>2. \A a : a.to = q /\ a.ids = Firsts(p.found, q.limit) /\ a.misses = p.misses
                 /\ a.edits = p.edits => Fair(a)
    BY <1>4, <1>15, <2>1
  <2> QED BY <1>1, <1>2, <1>3, <1>16, <2>2, Responds
<1>17. CASE q.limit # 0 /\ P # {}
            /\ Continue(h, Len(n.found) < q.limit /\ n.misses < ActivityMisses, n,
                        Firsts(n.found, q.limit))
  <2>1. /\ FoundOK(n) /\ n.misses <= MostMisses /\ MostMisses \in Nat
        /\ DOMAIN n = {"cursor", "found", "misses", "edits"} /\ n.edits = p.edits
        /\ Reads(p, q) /\ Follows(P, p.cursor, q) => Reads(n, q)
    BY <1>4, <1>11, <1>13, <1>17, TurnedPage
  <2>2. n.edits = edits /\ Sensible(q) => Reads(n, q)
    BY <1>4, <1>12, <1>17, <2>1
  <2>3. CASE Len(n.found) < q.limit /\ n.misses < ActivityMisses
    <3>1. Goto(h, "page", n) /\ UNCHANGED answer
      BY <1>17, <2>3 DEF Continue
    <3> QED BY <1>1, <1>3, <1>4, <2>1, <2>2, <2>3, <3>1, GoesOnPage
  <2>4. CASE ~ (Len(n.found) < q.limit /\ n.misses < ActivityMisses)
    <3>1. Respond(h, Firsts(n.found, q.limit), n.misses)
      BY <1>17, <2>4 DEF Continue
    <3>2. Len(n.found) >= q.limit \/ n.misses = MostMisses
      <4>1. Len(n.found) \in Nat /\ n.misses \in Nat
        BY <2>1 DEF FoundOK
      <4> QED BY <1>4, <1>5, <2>1, <2>4, <4>1
    <3>3. \A a : a.to = q /\ a.ids = Firsts(n.found, q.limit) /\ a.misses = n.misses
                   /\ a.edits = p.edits => Fair(a)
      BY <1>15, <2>1, <2>2, <3>2
    <3> QED BY <1>1, <1>2, <1>3, <3>1, <3>3, Responds
  <2> QED BY <2>3, <2>4
<1> QED
  BY <1>1, <1>2, <1>13, <1>14, <1>16, <1>17 DEF ActivitySearch

LEMMA OrganizationSearchKeeps ==
    ASSUME SearchInv, NEW h \in Handlers, OrganizationSearch(h) PROVE SearchInv'
<1>1. PICK q : q = req[h].arg
  OBVIOUS
<1>2. PICK p : p = req[h].seen
  OBVIOUS
<1>3. /\ searched = "organization" /\ req[h].op = "search" /\ req[h].at = "page"
      /\ UNCHANGED <<searched, catalog, edits, history, second>>
  BY DEF OrganizationSearch, At
<1>4. /\ SearchTables /\ q \in Queries /\ FoundOK(p) /\ p.misses < MostMisses
      /\ DOMAIN p = {"cursor", "found", "misses", "edits"} /\ q.radius
      /\ p.edits = edits /\ Sensible(q) => Reads(p, q)
      /\ Wanted(q) = OrganizationPage /\ MostMisses = OrganizationMisses
  BY <1>1, <1>2, <1>3, SearchInFlight DEF SearchOf, Wanted, MostMisses
<1>5. p.cursor \in Nat \cup {Null} /\ p.edits \in Nat /\ p.edits <= edits
  BY <1>4 DEF FoundOK
<1>6. PICK take \in Nat : take = OrganizationPage /\ take # 0
  BY PagesAssumption
<1>7. PICK P : P = FindMany(p.cursor, 1, take)
  OBVIOUS
<1>8. \A x \in P : x \in Listed /\ x \in Nat /\ p.cursor < x
  BY <1>4, <1>5, <1>7, RowsRead
<1>9. Reads(p, q) => Follows(P, p.cursor, q)
  <2> SUFFICES ASSUME Reads(p, q) PROVE Follows(P, p.cursor, q)
    OBVIOUS
  <2>1. 1 = IF p.cursor = Null THEN q.offset ELSE 1
    BY <1>3 DEF Reads
  <2> QED BY <1>4, <1>5, <1>6, <1>7, <2>1, PageFollows
<1>10. PICK n : n = Turned(p, P, q)
  OBVIOUS
\* An answer of what has been found.
<1>11. ASSUME NEW f, FoundOK(f), f.edits = p.edits, NEW m,
              f.edits = edits /\ Sensible(q) => Reads(f, q),
              \/ Len(f.found) >= take \/ m = MostMisses
              \/ Reads(f, q) => \A x \in Asked(q) : x <= f.cursor,
              NEW a, a.to = q, a.ids = f.found, a.misses = m, a.edits = p.edits
       PROVE  Fair(a)
  <2>1. PICK s \in Seq(Nat) : s = f.found
    BY <1>11 DEF FoundOK
  <2>2. Increasing(s) /\ Len(s) \in Nat /\ Range(s) \subseteq RowIds
    BY <1>11, <2>1 DEF FoundOK
  <2>3. Firsts(s, Len(s)) = s
    BY <2>2, FirstsOf
  <2>4. ASSUME a.edits = edits, Sensible(q)
        PROVE  /\ s = Firsts(InOrder(Sought(q)), Len(s))
               /\ Len(s) >= take \/ m = MostMisses \/ Len(s) = Cardinality(Sought(q))
    <3>1. Reads(f, q)
      BY <1>11, <2>4
    <3>2. /\ s = Firsts(InOrder(Sought(q)), Len(s))
          /\ (\A x \in Asked(q) : x <= f.cursor) => Len(s) = Cardinality(Sought(q))
      <4>1. PICK k \in Nat : k = Len(s)
        BY <2>2
      <4>2. /\ Firsts(s, k) = Firsts(InOrder(Sought(q)), Len(Firsts(s, k)))
            /\ Len(s) <= k /\ (\A x \in Asked(q) : x <= f.cursor)
                 => Len(Firsts(s, k)) = Cardinality(Sought(q))
        BY <1>4, <1>11, <2>1, <3>1, ReadsAnswers
      <4> QED BY <2>2, <2>3, <4>1, <4>2
    <3> QED BY <1>11, <2>1, <3>1, <3>2
  <2> QED BY <1>3, <1>4, <1>5, <1>6, <1>11, <2>1, <2>2, <2>4 DEF Fair
<1>12. CASE P = {} /\ Respond(h, p.found, p.misses)
  <2>1. Reads(p, q) => \A x \in Asked(q) : x <= p.cursor
    BY <1>9, <1>12 DEF Follows
  <2>2. \A a : a.to = q /\ a.ids = p.found /\ a.misses = p.misses /\ a.edits = p.edits => Fair(a)
    BY <1>4, <1>11, <2>1
  <2> QED BY <1>1, <1>2, <1>3, <1>12, <2>2, Responds
<1>13. CASE P # {}
            /\ Continue(h, Len(n.found) < OrganizationPage /\ n.misses < OrganizationMisses, n,
                        n.found)
  <2>1. /\ FoundOK(n) /\ n.misses <= MostMisses /\ MostMisses \in Nat
        /\ DOMAIN n = {"cursor", "found", "misses", "edits"} /\ n.edits = p.edits
        /\ Reads(p, q) /\ Follows(P, p.cursor, q) => Reads(n, q)
    BY <1>4, <1>8, <1>10, <1>13, TurnedPage
  <2>2. n.edits = edits /\ Sensible(q) => Reads(n, q)
    BY <1>4, <1>9, <2>1
  <2>3. CASE Len(n.found) < OrganizationPage /\ n.misses < OrganizationMisses
    <3>1. Goto(h, "page", n) /\ UNCHANGED answer
      BY <1>13, <2>3 DEF Continue
    <3> QED BY <1>1, <1>3, <1>4, <2>1, <2>2, <2>3, <3>1, GoesOnPage
  <2>4. CASE ~ (Len(n.found) < OrganizationPage /\ n.misses < OrganizationMisses)
    <3>1. Respond(h, n.found, n.misses)
      BY <1>13, <2>4 DEF Continue
    <3>2. Len(n.found) >= take \/ n.misses = MostMisses
      <4>1. Len(n.found) \in Nat /\ n.misses \in Nat
        BY <2>1 DEF FoundOK
      <4> QED BY <1>4, <1>6, <2>1, <2>4, <4>1
    <3>3. \A a : a.to = q /\ a.ids = n.found /\ a.misses = n.misses /\ a.edits = p.edits
                   => Fair(a)
      BY <1>11, <2>1, <2>2, <3>2
    <3> QED BY <1>1, <1>2, <1>3, <3>1, <3>3, Responds
  <2> QED BY <2>3, <2>4
<1> QED BY <1>1, <1>2, <1>6, <1>7, <1>10, <1>12, <1>13 DEF OrganizationSearch

-----------------------------------------------------------------------------

\* A page that leaves a row for the next one is full.
LEMMA PageIsFull ==
    ASSUME NEW S \in SUBSET Nat, IsFiniteSet(S), NEW skip \in Nat, NEW take \in Nat,
           NEW x \in Nat, x \in S, Rank(S, x) > skip, x \notin PageOf(S, skip, take)
    PROVE  Cardinality(PageOf(S, skip, take)) >= take
<1> DEFINE P == PageOf(S, skip, take)
           f == [n \in 1..take |-> CHOOSE k \in S : Rank(S, k) = skip + n]
<1>1. Rank(S, x) \in Nat /\ Rank(S, x) > skip + take
  BY RankType DEF PageOf
<1>2. ASSUME NEW n \in 1..take PROVE f[n] \in S /\ Rank(S, f[n]) = skip + n /\ f[n] \in P
  <2>1. skip + n \in Nat /\ skip + n \in 1..Rank(S, x)
    BY <1>1
  <2>2. \E k \in S : Rank(S, k) = skip + n
    BY <2>1, RankReached
  <2>3. f[n] \in S /\ Rank(S, f[n]) = skip + n
    BY <2>2
  <2>4. Rank(S, f[n]) \in skip + 1 .. skip + take
    BY <2>3
  <2> QED BY <2>3, <2>4 DEF PageOf
<1>3. f \in [1..take -> P]
  BY <1>2
<1>4. \A m, n \in 1..take : f[m] = f[n] => m = n
  <2> SUFFICES ASSUME NEW m \in 1..take, NEW n \in 1..take, f[m] = f[n] PROVE m = n
    OBVIOUS
  <2>1. skip + m = skip + n
    BY <1>2
  <2> QED BY <2>1
<1> HIDE DEF f
<1>5. f \in Injection(1..take, P)
  BY <1>3, <1>4 DEF Injection, IsInjective
<1>6. IsFiniteSet(P)
  BY FS_Subset DEF PageOf
<1>7. Cardinality(1..take) = take /\ Cardinality(1..take) <= Cardinality(P) /\ Cardinality(P) \in Nat
  BY <1>5, <1>6, FS_Interval, FS_Injection, FS_CardinalityType
<1> QED BY <1>7

LEMMA OrganizationFirstKeeps ==
    ASSUME SearchInv, NEW h \in Handlers, OrganizationFirst(h) PROVE SearchInv'
<1>1. PICK q : q = req[h].arg
  OBVIOUS
<1>2. PICK p : p = req[h].seen
  OBVIOUS
<1>3. /\ req[h].op = "search" /\ req[h].at = "first"
      /\ UNCHANGED <<searched, catalog, edits, history, second>>
  BY DEF OrganizationFirst, At
<1>4. /\ SearchTables /\ q \in Queries /\ FoundOK(p) /\ p.misses < MostMisses
      /\ DOMAIN p = {"cursor", "found", "misses", "edits"} /\ searched = "organization"
      /\ p.found = <<>> /\ p.cursor = q.cursor
      /\ Wanted(q) = IF q.radius THEN OrganizationPage ELSE q.limit
  BY <1>1, <1>2, <1>3, SearchInFlight DEF SearchOf, SearchTables, Wanted
<1>5. /\ q.limit \in Nat /\ q.offset \in Nat /\ q.radius \in BOOLEAN
      /\ q.cursor \in Nat \cup {Null} /\ (q.cursor # Null => q.offset = 0)
      /\ p.edits \in Nat /\ p.edits <= edits /\ p.misses \in Nat
  BY <1>4, QueryType DEF FoundOK
<1>6. PICK take : take = IF q.radius THEN OrganizationPage ELSE q.limit
  OBVIOUS
<1>7. take \in Nat /\ OrganizationPage \in Nat /\ (q.radius => take # 0) /\ Wanted(q) = take
  BY <1>4, <1>5, <1>6, PagesAssumption
<1>8. PICK P : P = FindMany(q.cursor, q.offset, take)
  OBVIOUS
<1>9. P \subseteq Listed /\ P \in SUBSET Nat /\ P \subseteq RowIds /\ IsFiniteSet(P)
  <2>1. P \subseteq Listed
    BY <1>4, <1>8, ListedType DEF FindMany, PageOf
  <2> QED BY <1>4, <2>1, ListedType, FS_Subset
<1>10. PICK H : H = Hits(P, q)
  OBVIOUS
<1>11. H \subseteq P /\ H \in SUBSET Nat /\ IsFiniteSet(H) /\ (~ q.radius => H = P)
  <2>1. H \subseteq P /\ (~ q.radius => H = P)
    BY <1>4, <1>5, <1>10 DEF Hits
  <2> QED BY <1>9, <2>1, FS_Subset
<1>12. PICK s : s = InOrder(H)
  OBVIOUS
<1>13. /\ s \in Seq(Nat) /\ Increasing(s) /\ Range(s) = H /\ Len(s) = Cardinality(H)
       /\ Len(s) \in Nat
  <2>1. s \in Seq(H) /\ Increasing(s) /\ Range(s) = H /\ Len(s) = Cardinality(H) /\ Len(s) \in Nat
    BY <1>11, <1>12, InOrderType
  <2> QED BY <1>11, <2>1, SeqOfNat
<1>14. PICK n : n = [p EXCEPT !.cursor = IF P = {} THEN Null ELSE Largest(P), !.found = s]
  OBVIOUS
<1>15. /\ n.cursor = (IF P = {} THEN Null ELSE Largest(P)) /\ n.found = s
       /\ n.misses = p.misses /\ n.edits = p.edits
       /\ DOMAIN n = {"cursor", "found", "misses", "edits"}
  BY <1>4, <1>14
<1>16. P # {} => n.cursor \in P /\ n.cursor \in Nat /\ \A x \in P : x <= n.cursor
  BY <1>4, <1>9, <1>15, LastOf
<1>17. FoundOK(n)
  <2>1. n.cursor \in Nat \cup {Null}
    BY <1>15, <1>16
  <2>2. \A x \in Range(s) : x \in RowIds /\ x <= n.cursor
    BY <1>9, <1>11, <1>13, <1>16
  <2> QED BY <1>5, <1>13, <1>15, <2>1, <2>2 DEF FoundOK
<1>18. ASSUME take # 0, Sensible(q) PROVE Reads(n, q)
  <2>1. q.cursor # Null => q.cursor \in Listed
    BY <1>18 DEF Sensible
  <2>2. Follows(P, -1, q)
    BY <1>4, <1>7, <1>8, <1>18, <2>1, FirstPage
  <2>3. PICK x : x \in Asked(q)
    <3> DEFINE S == From(q.cursor)
    <3>1. S \in SUBSET Nat /\ IsFiniteSet(S)
      BY <1>4, FromType
    <3>2. \A i \in S : Rank(S, i) > q.offset => i \in Asked(q)
      BY <1>4, AskedByRank
    <3>3. CASE q.cursor = Null
      <4>1. S = Listed /\ q.offset < Cardinality(Listed) /\ Cardinality(Listed) \in Nat
        BY <1>4, <1>18, <3>1, <3>3, ListedType, FS_CardinalityType DEF Sensible
      <4>2. q.offset + 1 \in 1..Cardinality(S)
        BY <1>5, <4>1
      <4> HIDE DEF S
      <4>3. PICK i \in S : Rank(S, i) = q.offset + 1
        BY <3>1, <4>2, RankTaken
      <4>4. Rank(S, i) > q.offset
        BY <1>5, <4>3
      <4> QED BY <3>2, <4>3, <4>4
    <3>4. CASE q.cursor # Null
      <4>1. q.cursor \in Nat /\ q.cursor >= q.cursor
        BY <1>5, <3>4
      <4>2. q.cursor \in S
        BY <1>4, <2>1, <3>4, <4>1, ListedType
      <4>3. Rank(S, q.cursor) \in Nat \ {0}
        BY <3>1, <4>1, <4>2, RankType
      <4> QED BY <1>5, <3>2, <3>4, <4>2, <4>3
    <3> QED BY <3>3, <3>4
  <2>4. P # {}
    <3>1. x \in Nat
      BY <1>4, <2>3, AskedType
    <3>2. ~ (x <= -1)
      BY <3>1
    <3> QED BY <2>2, <2>3, <3>2 DEF Follows
  <2>5. PICK F : F = {}
    OBVIOUS
  <2>6. \A y : y \in F <=> y \in Sought(q) /\ y <= -1
    <3>1. \A y \in Sought(q) : y \in Nat
      BY <1>4, AskedType
    <3>2. \A y \in Sought(q) : ~ (y <= -1)
      BY <3>1
    <3> QED BY <2>5, <3>2
  <2>7. \A y : y \in H <=> y \in F \/ y \in Hits(P, q)
    BY <1>10, <2>5
  <2>8. PICK c \in Int : c = -1
    OBVIOUS
  <2>9. Follows(P, c, q) /\ \A y : y \in F <=> y \in Sought(q) /\ y <= c
    BY <2>2, <2>6, <2>8
  <2>10. /\ \A y : y \in H <=> y \in Sought(q) /\ y <= Largest(P)
         /\ \A y \in Listed : y > Largest(P) => y \in Asked(q)
         /\ Largest(P) \in Listed
    BY <1>4, <2>4, <2>7, <2>9, FoundReads
  <2>11. n.cursor # Null /\ n.cursor = Largest(P)
    BY <1>15, <1>16, <2>4 DEF Null
  <2> QED BY <1>13, <1>15, <2>10, <2>11 DEF Reads
<1>19. CASE q.radius /\ Len(s) < OrganizationPage /\ Goto(h, "page", n) /\ UNCHANGED answer
  <2>1. n.edits = edits /\ Sensible(q) => Reads(n, q)
    BY <1>7, <1>18, <1>19
  <2>2. searched # "activity" /\ n.misses < MostMisses
    BY <1>4, <1>15
  <2> QED BY <1>1, <1>3, <1>15, <1>17, <1>19, <2>1, <2>2, GoesOnPage
<1>20. CASE ~ (q.radius /\ Len(s) < OrganizationPage) /\ Respond(h, s, n.misses)
  <2>1. ASSUME NEW a, a.to = q, a.ids = s, a.misses = n.misses, a.edits = p.edits
        PROVE  Fair(a)
    <3>1. ASSUME Sensible(q)
          PROVE  /\ s = Firsts(InOrder(Sought(q)), Len(s))
                 /\ Len(s) >= take \/ Len(s) = Cardinality(Sought(q))
      <4>1. CASE take = 0
        <5>1. PICK T : T = Sought(q)
          OBVIOUS
        <5>2. T \in SUBSET Nat /\ IsFiniteSet(T)
          BY <1>4, <5>1, AskedType
        <5>3. P = {}
          BY <1>5, <1>8, <4>1 DEF FindMany, PageOf
        <5>4. Len(s) = 0 /\ DOMAIN s = {} /\ Range(s) = {}
          <6>1. H = {}
            BY <1>11, <5>3
          <6>2. Len(s) = 0 /\ Range(s) = {}
            BY <1>13, <6>1, FS_EmptySet
          <6> QED BY <1>13, <6>2
        <5>5. s = Firsts(InOrder(T), Len(s))
          BY <1>13, <5>2, <5>4, FirstElements
        <5> QED BY <4>1, <5>1, <5>4, <5>5
      <4>2. CASE take # 0
        <5>1. Reads(n, q)
          BY <1>18, <3>1, <4>2
        <5>2. PICK k \in Nat : k = Len(s)
          BY <1>13
        <5>3. Firsts(s, k) = Firsts(InOrder(Sought(q)), Len(Firsts(s, k)))
          BY <1>4, <1>15, <1>17, <5>1, ReadsAnswers
        <5>4. Firsts(s, k) = s
          BY <1>13, <5>2, FirstsOf
        <5>5. CASE q.radius
          BY <1>6, <1>7, <1>13, <1>20, <5>2, <5>3, <5>4, <5>5
        <5>6. CASE ~ q.radius
          <6>1. H = P /\ Sought(q) = Asked(q)
            BY <1>4, <1>5, <1>11, <5>6 DEF Sought, Hits
          <6>2. Follows(P, -1, q)
            BY <1>4, <1>7, <1>8, <3>1, <4>2, FirstPage DEF Sensible
          <6>3. CASE P = Asked(q)
            BY <1>13, <5>2, <5>3, <5>4, <6>1, <6>3
          <6>4. CASE P # Asked(q)
            <7>1. PICK x \in Asked(q) : x \notin P
              BY <6>2, <6>4 DEF Follows
            <7>2. PICK S : S = From(q.cursor)
              OBVIOUS
            <7>3. S \in SUBSET Nat /\ IsFiniteSet(S)
              BY <1>4, <7>2, FromType
            <7>4. x \in S /\ x \in Nat /\ Rank(S, x) > q.offset
              BY <1>4, <7>1, <7>2, <7>3, AskedByRank
            <7>5. P = PageOf(S, q.offset, take)
              BY <1>8, <7>2 DEF FindMany
            <7>6. Cardinality(P) >= take
              BY <1>5, <1>7, <7>1, <7>3, <7>4, <7>5, PageIsFull
            <7> QED BY <1>13, <5>2, <5>3, <5>4, <6>1, <7>6
          <6> QED BY <6>3, <6>4
        <5> QED BY <1>5, <5>5, <5>6
      <4> QED BY <4>1, <4>2
    <3>2. Range(s) \subseteq RowIds /\ searched # "activity"
      BY <1>4, <1>9, <1>11, <1>13
    <3> QED BY <1>4, <1>5, <1>7, <1>13, <2>1, <3>1, <3>2 DEF Fair
  <2> QED BY <1>1, <1>2, <1>3, <1>20, <2>1, Responds
<1>21. Continue(h, q.radius /\ Len(s) < OrganizationPage, n, s)
  BY <1>1, <1>2, <1>6, <1>8, <1>10, <1>12, <1>14 DEF OrganizationFirst
<1> QED BY <1>19, <1>20, <1>21 DEF Continue

LEMMA SearchStartKeeps ==
    ASSUME SearchInv, NEW h \in Handlers, SearchStart(h) PROVE SearchInv'
<1>1. PICK a \in Searchers, q \in Queries :
        LET paging == [cursor |-> q.cursor, found |-> <<>>, misses |-> 0, edits |-> edits]
            known == Latest(a) # Null /\ second - Latest(a) < SpacingSec
            at == IF searched = "organization" THEN "first"
                  ELSE IF q.record /\ ~ known THEN "create"
                  ELSE IF q.record THEN "update" ELSE "page"
        IN  /\ answer' = <<>>
            /\ Begin(h, [op |-> "search", at |-> at, by |-> a, on |-> {a},
                         arg |-> q, seen |-> paging])
            /\ UNCHANGED <<searched, catalog, edits, history, second>>
  BY DEF SearchStart
<1>2. PICK p : p = [cursor |-> q.cursor, found |-> <<>>, misses |-> 0, edits |-> edits]
  OBVIOUS
<1>3. /\ p.cursor = q.cursor /\ p.found = <<>> /\ p.misses = 0 /\ p.edits = edits
      /\ DOMAIN p = {"cursor", "found", "misses", "edits"}
  BY <1>2
<1>4. PICK at : /\ searched = "organization" => at = "first"
                /\ searched = "activity" => at \in {"create", "update", "page"}
                /\ Begin(h, [op |-> "search", at |-> at, by |-> a, on |-> {a},
                             arg |-> q, seen |-> p])
  BY <1>1, <1>2
<1>5. PICK r : r = [op |-> "search", at |-> at, by |-> a, on |-> {a}, arg |-> q, seen |-> p]
  OBVIOUS
<1>6. /\ DOMAIN r = Fields /\ r.op = "search" /\ r.at = at /\ r.by = a /\ r.on = {a}
      /\ r.arg = q /\ r.seen = p
  BY <1>5 DEF Fields
<1>7. SearchTables /\ searched \in {"activity", "organization"} /\ edits \in Nat
  BY DEF SearchInv, SearchTables
<1>8. q.limit \in Nat /\ q.cursor \in Nat \cup {Null} /\ Null = -1
  BY QueryType
<1>9. FoundOK(p) /\ p.misses < MostMisses
  <2>1. p.found \in Seq(Nat) /\ Increasing(p.found) /\ Range(p.found) = {}
    BY <1>3 DEF Increasing, Range
  <2>2. MostMisses \in Nat \ {0}
    BY PagesAssumption DEF MostMisses
  <2> QED BY <1>3, <1>7, <1>8, <2>1, <2>2 DEF FoundOK
<1>10. ASSUME Sensible(q), at # "first" PROVE Reads(p, q)
  <2>1. searched = "activity"
    BY <1>4, <1>7, <1>10
  <2>2. Range(p.found) = {}
    BY <1>3 DEF Range
  <2>3. ASSUME NEW x \in Sought(q) PROVE ~ (x <= q.cursor)
    <3>1. x \in Asked(q) /\ x \in Nat
      BY <1>7, <2>3, AskedType
    <3>2. CASE q.cursor = Null
      BY <1>8, <3>1, <3>2
    <3>3. CASE q.cursor # Null
      <4>1. x > q.cursor
        BY <2>1, <3>1, <3>3 DEF Asked
      <4> QED BY <1>8, <3>1, <4>1
    <3> QED BY <3>2, <3>3
  <2>4. q.cursor # Null => /\ q.cursor \in Listed
                           /\ \A x \in Listed : x > q.cursor => x \in Asked(q)
    <3> SUFFICES ASSUME q.cursor # Null
                 PROVE  /\ q.cursor \in Listed
                        /\ \A x \in Listed : x > q.cursor => x \in Asked(q)
      OBVIOUS
    <3>1. q.cursor \in Listed /\ q.cursor \in Nat
      BY <1>8, <1>10 DEF Sensible
    <3>2. ASSUME NEW x \in Listed, x > q.cursor PROVE x \in From(q.cursor)
      <4>1. x \in Nat /\ x >= q.cursor
        BY <1>7, <3>1, <3>2, ListedType
      <4> QED BY <1>7, <3>1, <4>1, ListedType
    <3> QED BY <3>1, <3>2 DEF Asked
  <2> QED BY <1>3, <2>1, <2>2, <2>3, <2>4 DEF Reads
<1>11. SearchOf(r)
  <2>1. searched = "activity" => Len(p.found) < q.limit \/ q.limit = 0
    BY <1>3, <1>8
  <2> QED BY <1>3, <1>4, <1>6, <1>7, <1>9, <1>10, <2>1 DEF SearchOf
<1>12. Takes(h, r) /\ Exclusive'
  BY <1>4, <1>5, Begins DEF SearchInv, SearchSlots
<1>13. SearchKinds(r)
  BY <1>6, <1>11 DEF SearchKinds
<1>14. answer' = <<>>
  BY <1>1
<1> QED BY <1>1, <1>12, <1>13, <1>14, SearchSlot

LEMMA RecordKeeps ==
    ASSUME SearchInv, NEW h \in Handlers, Record(h) PROVE SearchInv'
<1>1. /\ req[h].op = "search" /\ req[h].at \in {"create", "update"}
      /\ Goto(h, "page", req[h].seen) /\ second' = second
      /\ UNCHANGED <<searched, catalog, edits, answer>>
      /\ history' = history \/ history' = Append(history, [by |-> req[h].by, at |-> second])
  BY DEF Record, At
<1>2. SearchTables /\ SearchOf(req[h]) /\ DOMAIN req = Handlers /\ Exclusive /\ DOMAIN req[h] = Fields
  BY <1>1 DEF SearchInv, SearchSlots, SearchKinds
<1>3. SearchTables'
  <2>1. [by |-> req[h].by, at |-> second] \in [by : Searchers, at : 0..second]
    BY <1>2 DEF SearchOf, SearchTables
  <2>2. history' \in Seq([by : Searchers, at : 0..second])
    <3>1. PICK A : A = [by : Searchers, at : 0..second]
      OBVIOUS
    <3>2. PICK e \in A : e = [by |-> req[h].by, at |-> second]
      BY <2>1, <3>1
    <3>3. history \in Seq(A) /\ (history' = history \/ history' = Append(history, e))
      BY <1>1, <1>2, <3>1, <3>2 DEF SearchTables
    <3>4. history' \in Seq(A)
      BY <3>3
    <3> QED BY <3>1, <3>4
  <2> QED BY <1>1, <1>2, <2>2 DEF SearchTables
<1>4. PICK r : /\ Takes(h, r) /\ Exclusive' /\ DOMAIN r = Fields
               /\ r.op = req[h].op /\ r.by = req[h].by /\ r.on = req[h].on
               /\ r.arg = req[h].arg /\ r.at = "page" /\ r.seen = req[h].seen
  BY <1>1, <1>2, GoesOn
<1>5. searched = "activity"
  BY <1>1, <1>2 DEF SearchOf, SearchTables
<1>6. SearchKinds(r)
  BY <1>1, <1>2, <1>4, <1>5 DEF SearchKinds, SearchOf
<1>7. \A g \in Handlers : SearchKinds(req'[g])
  BY <1>4, <1>6 DEF SearchInv, SearchSlots, Takes
<1>8. /\ \A q : SearchKinds(q) => SearchKinds(q)'
      /\ \A a : Fair(a) => Fair(a)'
  BY <1>1, SearchStays
<1>9. \A g \in Handlers : SearchKinds(req[g])'
  <2> SUFFICES ASSUME NEW g \in Handlers PROVE SearchKinds(req[g])'
    OBVIOUS
  <2>1. PICK q : q = req'[g]
    OBVIOUS
  <2>2. SearchKinds(q)'
    BY <1>7, <1>8, <2>1
  <2> QED BY <2>1, <2>2
<1>10. answer' # <<>> => Fair(answer)'
  <2>1. PICK a : a = answer /\ a = answer'
    BY <1>1
  <2>2. a # <<>> => Fair(a)'
    BY <1>8, <2>1 DEF SearchInv
  <2> QED BY <2>1, <2>2
<1> QED BY <1>3, <1>4, <1>9, <1>10 DEF SearchInv, SearchSlots, Takes

\* The rows change or the clock goes on.
LEMMA RowsChange ==
    ASSUME SearchInv, UNCHANGED <<requestVars, searched, answer, history>>, SearchTables',
           \/ UNCHANGED <<catalog, edits>>
           \/ edits' = edits + 1
    PROVE  SearchInv'
<1>1. /\ \A q : SearchKinds(q) => SearchKinds(q)'
      /\ \A a : Fair(a) => Fair(a)'
  BY SearchStays, EditStays DEF SearchInv
<1>2. req' = req /\ manner' = manner
  BY DEF requestVars
<1>3. \A g \in Handlers : SearchKinds(req[g])'
  <2> SUFFICES ASSUME NEW g \in Handlers PROVE SearchKinds(req[g])'
    OBVIOUS
  <2>1. PICK q : q = req[g] /\ q = req'[g]
    BY <1>2
  <2>2. SearchKinds(q)'
    BY <1>1, <2>1 DEF SearchInv, SearchSlots
  <2> QED BY <2>1, <2>2
<1>4. answer' # <<>> => Fair(answer)'
  <2>1. PICK a : a = answer /\ a = answer'
    OBVIOUS
  <2>2. a # <<>> => Fair(a)'
    BY <1>1, <2>1 DEF SearchInv
  <2> QED BY <2>1, <2>2
<1>5. Exclusive'
  BY <1>2 DEF SearchInv, SearchSlots, Exclusive, Busy, Waits
<1> QED BY <1>2, <1>3, <1>4, <1>5 DEF SearchInv, SearchSlots

LEMMA EditKeeps ==
    ASSUME SearchInv, NEW i \in DOMAIN catalog, EditRow(i) PROVE SearchInv'
<1>1. /\ edits' = edits + 1 /\ UNCHANGED <<requestVars, searched, answer, history, second>>
      /\ \/ \E k \in Kinds : catalog' = [catalog EXCEPT ![i] = k]
         \/ catalog' = [j \in DOMAIN catalog \ {i} |-> catalog[j]]
  BY DEF EditRow
<1>2. DOMAIN catalog' \subseteq DOMAIN catalog /\ \A j \in DOMAIN catalog' : catalog'[j] \in Kinds
  <2>1. \A j \in DOMAIN catalog : catalog[j] \in Kinds
    BY DEF SearchInv, SearchTables, Range
  <2>2. CASE \E k \in Kinds : catalog' = [catalog EXCEPT ![i] = k]
    <3>1. PICK k \in Kinds : catalog' = [catalog EXCEPT ![i] = k]
      BY <2>2
    <3> QED BY <2>1, <3>1
  <2>3. CASE catalog' = [j \in DOMAIN catalog \ {i} |-> catalog[j]]
    BY <2>1, <2>3
  <2> QED BY <1>1, <2>2, <2>3
<1>3. SearchTables'
  BY <1>1, <1>2 DEF SearchInv, SearchTables, Range
<1> QED BY <1>1, <1>3, RowsChange

LEMMA SearchTickKeeps == SearchInv /\ SearchTick => SearchInv'
<1> SUFFICES ASSUME SearchInv, SearchTick PROVE SearchInv'
  OBVIOUS
<1>1. /\ second' = second + 1 /\ second \in Nat
      /\ UNCHANGED <<requestVars, searched, catalog, edits, answer, history>>
  BY DEF SearchTick, SearchInv, SearchTables
<1>2. 0..second \subseteq 0..second'
  BY <1>1
<1>3. history \in Seq([by : Searchers, at : 0..second'])
  <2>1. [by : Searchers, at : 0..second] \subseteq [by : Searchers, at : 0..second']
    BY <1>2
  <2>2. PICK A, B : A = [by : Searchers, at : 0..second] /\ B = [by : Searchers, at : 0..second']
    OBVIOUS
  <2>3. A \subseteq B /\ history \in Seq(A)
    BY <2>1, <2>2 DEF SearchInv, SearchTables
  <2>4. history \in Seq(B)
    BY <2>3
  <2> QED BY <2>2, <2>4
<1>4. SearchTables'
  BY <1>1, <1>3 DEF SearchInv, SearchTables
<1> QED BY <1>1, <1>4, RowsChange

\* A query of a search rejects.
LEMMA SearchAborts ==
    ASSUME SearchInv, NEW h \in Handlers, Abort(h), UNCHANGED searchVars PROVE SearchInv'
<1>1. req' = [req EXCEPT ![h] = Idle] /\ manner' = manner
  BY DEF Abort
<1>2. Takes(h, Idle) /\ Exclusive'
  BY <1>1, SearchIdle, ExclusiveGoesOn DEF SearchInv, SearchSlots, Takes
<1>3. UNCHANGED <<searched, catalog, edits, history, second>> /\ answer' = answer
  BY DEF searchVars
<1>4. answer # <<>> => Fair(answer)
  BY DEF SearchInv
<1> QED BY <1>2, <1>3, <1>4, SearchIdle, SearchSlot

LEMMA SearchInvStep == SearchInv /\ [SearchNext]_allSearchVars => SearchInv'
<1> SUFFICES ASSUME SearchInv, [SearchNext]_allSearchVars PROVE SearchInv'
  OBVIOUS
<1>1. CASE UNCHANGED allSearchVars
  <2>1. /\ UNCHANGED <<requestVars, searched, answer, history>> /\ UNCHANGED <<catalog, edits>>
        /\ second' = second
    BY <1>1 DEF allSearchVars, searchVars
  <2>2. SearchTables'
    BY <2>1 DEF SearchInv, SearchTables
  <2> QED BY <2>1, <2>2, RowsChange
<1> QED
  BY <1>1, SearchStartKeeps, RecordKeeps, ActivitySearchKeeps, OrganizationFirstKeeps,
     OrganizationSearchKeeps, SearchAborts, EditKeeps, SearchTickKeeps DEF SearchNext

LEMMA SearchInvInit == RequestsInit /\ SearchInit => SearchInv
<1> SUFFICES ASSUME RequestsInit, SearchInit PROVE SearchInv
  OBVIOUS
<1>1. SearchTables
  <2>1. PICK S \in SUBSET RowIds : catalog \in [S -> Kinds]
    BY DEF SearchInit
  <2>2. DOMAIN catalog \subseteq RowIds /\ Range(catalog) \subseteq Kinds
    BY <2>1 DEF Range
  <2>3. second \in Nat /\ edits \in Nat
    BY DEF SearchInit
  <2>4. history \in Seq([by : Searchers, at : 0..second])
    BY DEF SearchInit
  <2> QED BY <2>2, <2>3, <2>4 DEF SearchInit, SearchTables
<1>2. DOMAIN req = Handlers /\ \A h \in Handlers : req[h] = Idle
  BY DEF RequestsInit
<1>3. SearchSlots
  BY <1>2, SearchIdle DEF SearchSlots, Exclusive, Busy
<1> QED BY <1>1, <1>3 DEF SearchInit, SearchInv

\* The rows stay those of the table, and the entries of the history those of its clients.
THEOREM SearchTypeCorrect == SearchSpec => []SearchTypeOK
<1>1. SearchInv => SearchTypeOK
  BY DEF SearchInv, SearchTables, SearchTypeOK, Fair
<1> QED BY <1>1, SearchInvInit, SearchInvStep, PTL DEF SearchSpec

\* No search of activities has a row twice, out of order or beyond its limit; and one of rows
\* that stay as they are has the first of those it is to find, without a gap: the
\* strengthening says what has been found up to the cursor of a search under way.
THEOREM SearchesAnswer == SearchSpec => []SearchAnswers
<1>1. ASSUME SearchInv PROVE SearchAnswers
  <2> SUFFICES ASSUME answer # <<>>, Fair(answer)
               PROVE  SearchAnswers
    BY <1>1 DEF SearchInv, SearchAnswers
  <2>1. searched \in {"activity", "organization"}
    BY <1>1 DEF SearchInv, SearchTables
  <2>2. answer.misses = MostMisses => GaveUp
    BY <2>1 DEF MostMisses, GaveUp
  <2> QED BY <2>2 DEF SearchAnswers, Fair, Increasing
<1> QED BY <1>1, SearchInvInit, SearchInvStep, PTL DEF SearchSpec

-----------------------------------------------------------------------------
(* The search history.                                                         *)

\* The entries of account a are long past.
LongPast(a) == \A i \in DOMAIN history : history[i].by = a => second - history[i].at >= SpacingSec

Spaced ==
    \A i, j \in DOMAIN history :
        i < j /\ history[i].by = history[j].by => history[j].at - history[i].at >= SpacingSec

HistoryInv ==
    /\ SearchInv /\ manner \in Manners
    /\ manner # "any" =>
          /\ Spaced
          /\ \A h \in Handlers : At(h, "search", "create") => LongPast(req[h].by)

LEMMA HistoryType ==
    ASSUME SearchTables
    PROVE  /\ Len(history) \in Nat /\ DOMAIN history = 1..Len(history)
           /\ \A i \in DOMAIN history : history[i].at \in Nat /\ history[i].at <= second
           /\ second \in Nat
<1>1. PICK A : A = [by : Searchers, at : 0..second]
  OBVIOUS
<1>2. history \in Seq(A) /\ second \in Nat
  BY <1>1 DEF SearchTables
<1>3. \A i \in DOMAIN history : history[i] \in A
  BY <1>2
<1>4. \A e \in A : e.at \in Nat /\ e.at <= second
  BY <1>1, <1>2
<1> QED BY <1>2, <1>3, <1>4

\* The latest entry of an account is no earlier than the others.
LEMMA LatestEntry ==
    ASSUME SearchTables, NEW a, ~ (Latest(a) # Null /\ second - Latest(a) < SpacingSec)
    PROVE  LongPast(a)
<1>1. /\ Len(history) \in Nat /\ DOMAIN history = 1..Len(history) /\ second \in Nat
      /\ \A i \in DOMAIN history : history[i].at \in Nat /\ history[i].at <= second
  BY HistoryType
<1>2. \A i \in DOMAIN history : history[i].by = a => history[i].at \in Times(a)
  BY DEF Times
<1>3. PICK T : T = Times(a)
  OBVIOUS
<1>4. T \in SUBSET Nat /\ T \subseteq 0..second
  BY <1>1, <1>3 DEF Times
<1>5. IsFiniteSet(T)
  <2>1. PICK m \in Nat : m = second
    BY <1>1
  <2>2. IsFiniteSet(0..m)
    BY FS_Interval
  <2>3. PICK I : I = 0..m
    OBVIOUS
  <2>4. T \subseteq I /\ IsFiniteSet(I)
    BY <1>4, <2>1, <2>2, <2>3
  <2> QED BY <2>4, FS_Subset
<1> SUFFICES ASSUME NEW i \in DOMAIN history, history[i].by = a
             PROVE  second - history[i].at >= SpacingSec
  BY DEF LongPast
<1>6. history[i].at \in T /\ history[i].at \in Nat
  BY <1>1, <1>2, <1>3
<1>7. \E m \in T : \A n \in T : n <= m
  BY <1>4, <1>5, <1>6, LargestNat
<1>8. PICK l : l = Largest(T) /\ l \in T /\ \A n \in T : n <= l
  BY <1>7 DEF Largest
<1>9. l \in Nat /\ Latest(a) = l /\ l # Null /\ history[i].at <= l
  <2>1. l \in Nat /\ T # {}
    BY <1>4, <1>6, <1>8
  <2> QED BY <1>3, <1>6, <1>8, <2>1 DEF Latest, Null
<1>10. second - l >= SpacingSec
  BY <1>1, <1>9, SpacingAssumption
<1> QED BY <1>1, <1>6, <1>9, <1>10, SpacingAssumption

\* Clients that wait have one request at a time.
LEMMA OneOfClient ==
    ASSUME SearchInv, manner \in Manners, manner # "any", NEW g \in Handlers, NEW h \in Handlers,
           g # h, req[g].op = "search", req[h].op = "search", req[g].by = req[h].by
    PROVE  FALSE
<1>1. Busy(g) /\ Busy(h) /\ ~ Waits(req[g], req[h])
  BY DEF SearchInv, SearchSlots, Exclusive, Busy
<1>2. req[g].by \in req[g].on /\ req[h].by \in req[h].on
  BY DEF SearchInv, SearchSlots, SearchKinds, SearchOf
<1> QED BY <1>1, <1>2 DEF Waits, Manners

LEMMA HistoryStartKeeps ==
    ASSUME HistoryInv, NEW h \in Handlers, SearchStart(h) PROVE HistoryInv'
<1>1. PICK a \in Searchers, q \in Queries :
        LET paging == [cursor |-> q.cursor, found |-> <<>>, misses |-> 0, edits |-> edits]
            known == Latest(a) # Null /\ second - Latest(a) < SpacingSec
            at == IF searched = "organization" THEN "first"
                  ELSE IF q.record /\ ~ known THEN "create"
                  ELSE IF q.record THEN "update" ELSE "page"
        IN  /\ Begin(h, [op |-> "search", at |-> at, by |-> a, on |-> {a},
                         arg |-> q, seen |-> paging])
            /\ UNCHANGED <<history, second>>
  BY DEF SearchStart
<1>2. PICK r : /\ Begin(h, r) /\ r.op = "search" /\ r.by = a
               /\ r.at = "create" => ~ (Latest(a) # Null /\ second - Latest(a) < SpacingSec)
  BY <1>1
<1>3. r.at = "create" => LongPast(a)
  BY <1>2, LatestEntry DEF HistoryInv, SearchInv
<1>4. /\ SearchInv' /\ manner' = manner /\ UNCHANGED <<history, second>>
      /\ req' = [req EXCEPT ![h] = r] /\ DOMAIN req = Handlers
  BY <1>1, <1>2, SearchStartKeeps DEF HistoryInv, SearchInv, SearchSlots, Begin
<1>5. \A b : LongPast(b) => LongPast(b)'
  BY <1>4 DEF LongPast
<1>6. ASSUME manner # "any", NEW g \in Handlers, At(g, "search", "create")'
      PROVE  LongPast(req[g].by)'
  <2>1. PICK b : b = req'[g].by
    OBVIOUS
  <2>2. LongPast(b)
    BY <1>2, <1>3, <1>4, <1>6, <2>1 DEF HistoryInv, At
  <2> QED BY <1>5, <2>1, <2>2
<1>7. manner # "any" => Spaced'
  BY <1>4 DEF HistoryInv, Spaced
<1> QED BY <1>4, <1>6, <1>7 DEF HistoryInv

LEMMA HistoryRecordKeeps ==
    ASSUME HistoryInv, NEW h \in Handlers, Record(h) PROVE HistoryInv'
<1>1. /\ SearchInv /\ SearchInv' /\ manner' = manner /\ second' = second
      /\ DOMAIN req = Handlers /\ req[h].op = "search"
      /\ \A g \in Handlers : g # h => req'[g] = req[g]
      /\ req'[h].at = "page"
  <2>1. Goto(h, "page", req[h].seen) /\ second' = second /\ req[h].op = "search"
    BY DEF Record, At
  <2>2. DOMAIN req = Handlers /\ DOMAIN req[h] = Fields
    BY DEF HistoryInv, SearchInv, SearchSlots, SearchKinds
  <2> QED BY <2>1, <2>2, RecordKeeps DEF HistoryInv, Goto, Fields
<1>2. \A g \in Handlers : At(g, "search", "create")' => g # h /\ At(g, "search", "create")
  BY <1>1 DEF At
<1>3. CASE history' = history
  <2>1. manner # "any" => Spaced'
    BY <1>1, <1>3 DEF HistoryInv, Spaced
  <2>2. \A b : LongPast(b) => LongPast(b)'
    BY <1>1, <1>3 DEF LongPast
  <2>3. ASSUME manner # "any", NEW g \in Handlers, At(g, "search", "create")'
        PROVE  LongPast(req[g].by)'
    <3>1. PICK b : b = req'[g].by
      OBVIOUS
    <3>2. LongPast(b)
      BY <1>1, <1>2, <2>3, <3>1 DEF HistoryInv
    <3> QED BY <2>2, <3>1, <3>2
  <2> QED BY <1>1, <2>1, <2>3 DEF HistoryInv
<1>4. CASE At(h, "search", "create") /\ history' = Append(history, [by |-> req[h].by, at |-> second])
  <2>1. PICK n \in Nat : n = Len(history)
    BY <1>1, HistoryType DEF SearchInv
  <2>2. PICK e : e = [by |-> req[h].by, at |-> second]
    OBVIOUS
  <2>3. e.by = req[h].by /\ e.at = second
    BY <2>2
  <2>4. /\ DOMAIN history = 1..n /\ DOMAIN history' = 1..(n + 1)
        /\ history'[n + 1] = e /\ \A i \in 1..n : history'[i] = history[i]
    <3>1. history \in Seq([by : Searchers, at : 0..second])
      BY <1>1 DEF SearchInv, SearchTables
    <3>2. PICK A : A = [by : Searchers, at : 0..second]
      OBVIOUS
    <3>3. history \in Seq(A) /\ history' = Append(history, e)
      BY <1>4, <2>2, <3>1, <3>2
    <3> QED BY <2>1, <3>3
  <2>5. ASSUME manner # "any" PROVE Spaced'
    <3>1. LongPast(req[h].by) /\ Spaced
      BY <1>4, <2>5 DEF HistoryInv
    <3>2. ASSUME NEW i \in 1..(n + 1), NEW j \in 1..(n + 1), i < j, history'[i].by = history'[j].by
          PROVE  history'[j].at - history'[i].at >= SpacingSec
      <4>1. i \in 1..n
        BY <3>2
      <4>2. CASE j \in 1..n
        BY <2>4, <3>1, <3>2, <4>1, <4>2 DEF Spaced
      <4>3. CASE j = n + 1
        BY <2>3, <2>4, <3>1, <3>2, <4>1, <4>3 DEF LongPast
      <4> QED BY <4>2, <4>3
    <3> QED BY <2>4, <3>2 DEF Spaced
  <2>6. ASSUME manner # "any", NEW g \in Handlers, At(g, "search", "create")'
        PROVE  LongPast(req[g].by)'
    <3>1. PICK b : b = req'[g].by
      OBVIOUS
    <3>2. LongPast(b) /\ g # h /\ req[g].op = "search" /\ b = req[g].by
      BY <1>1, <1>2, <2>6, <3>1 DEF HistoryInv, At
    <3>3. b # req[h].by
      BY <1>1, <2>6, <3>2, OneOfClient DEF HistoryInv
    <3>4. LongPast(b)'
      BY <1>1, <2>3, <2>4, <3>2, <3>3 DEF LongPast
    <3> QED BY <3>1, <3>4
  <2> QED BY <1>1, <2>5, <2>6 DEF HistoryInv
<1> QED BY <1>3, <1>4 DEF Record

\* A step that records nothing.
LEMMA HistoryStays ==
    ASSUME HistoryInv, SearchInv', manner' = manner, history' = history,
           second' = second \/ second' = second + 1,
           \A g \in Handlers : At(g, "search", "create")' =>
                                 At(g, "search", "create") /\ req'[g].by = req[g].by
    PROVE  HistoryInv'
<1>1. /\ \A i \in DOMAIN history : history[i].at \in Nat
      /\ second \in Nat
  BY HistoryType DEF HistoryInv, SearchInv
<1>2. \A b : LongPast(b) => LongPast(b)'
  BY <1>1, SpacingAssumption DEF LongPast
<1>3. manner # "any" => Spaced'
  BY DEF HistoryInv, Spaced
<1>4. ASSUME manner # "any", NEW g \in Handlers, At(g, "search", "create")'
      PROVE  LongPast(req[g].by)'
  <2>1. PICK b : b = req'[g].by
    OBVIOUS
  <2>2. LongPast(b)
    BY <1>4, <2>1 DEF HistoryInv
  <2> QED BY <1>2, <2>1, <2>2
<1> QED BY <1>3, <1>4 DEF HistoryInv

\* A slot goes to its next page or becomes idle.
LEMMA HistorySlot ==
    ASSUME HistoryInv, NEW h \in Handlers, NEW r, req' = [req EXCEPT ![h] = r],
           r.op = "idle" \/ r.at = "page",
           SearchInv', manner' = manner, history' = history, second' = second
    PROVE  HistoryInv'
<1>1. \A g \in Handlers : req'[g] = IF g = h THEN r ELSE req[g]
  BY DEF HistoryInv, SearchInv, SearchSlots
<1>2. \A g \in Handlers : At(g, "search", "create")' =>
                             At(g, "search", "create") /\ req'[g].by = req[g].by
  BY <1>1 DEF At
<1> QED BY <1>2, HistoryStays

LEMMA HistoryStep == HistoryInv /\ [SearchNext]_allSearchVars => HistoryInv'
<1> SUFFICES ASSUME HistoryInv, [SearchNext]_allSearchVars PROVE HistoryInv'
  OBVIOUS
<1>1. SearchInv' /\ DOMAIN req = Handlers
  BY SearchInvStep DEF HistoryInv, SearchInv, SearchSlots
<1>2. ASSUME NEW h \in Handlers,
             ActivitySearch(h) \/ OrganizationFirst(h) \/ OrganizationSearch(h)
      PROVE  HistoryInv'
  <2>1. /\ UNCHANGED <<history, second>> /\ manner' = manner
        /\ \/ End(h)
           \/ \E p : Goto(h, "page", p)
    BY <1>2 DEF ActivitySearch, OrganizationFirst, OrganizationSearch, Continue, Respond, End, Goto
  <2>2. DOMAIN req[h] = Fields
    BY DEF HistoryInv, SearchInv, SearchSlots, SearchKinds
  <2>3. CASE End(h)
    BY <1>1, <2>1, <2>3, SearchIdle, HistorySlot DEF End
  <2>4. ASSUME NEW p, Goto(h, "page", p) PROVE HistoryInv'
    <3>1. PICK r : r = [[req[h] EXCEPT !.at = "page"] EXCEPT !.seen = p]
      OBVIOUS
    <3>2. r.at = "page" /\ req' = [req EXCEPT ![h] = r]
      BY <2>2, <2>4, <3>1 DEF Goto, Fields
    <3> QED BY <1>1, <2>1, <3>2, HistorySlot
  <2> QED BY <2>1, <2>3, <2>4
<1>3. ASSUME NEW h \in Handlers, Abort(h), UNCHANGED searchVars PROVE HistoryInv'
  <2>1. req' = [req EXCEPT ![h] = Idle] /\ manner' = manner /\ UNCHANGED <<history, second>>
    BY <1>3 DEF Abort, searchVars
  <2> QED BY <1>1, <2>1, SearchIdle, HistorySlot
<1>4. ASSUME NEW i \in DOMAIN catalog, EditRow(i) PROVE HistoryInv'
  <2>1. req' = req /\ manner' = manner /\ history' = history /\ second' = second
    BY <1>4 DEF EditRow, requestVars
  <2>2. \A g \in Handlers : At(g, "search", "create")' =>
                               At(g, "search", "create") /\ req'[g].by = req[g].by
    BY <2>1 DEF At
  <2> QED BY <1>1, <2>1, <2>2, HistoryStays
<1>5. CASE SearchTick \/ UNCHANGED allSearchVars
  <2>1. /\ req' = req /\ manner' = manner /\ history' = history
        /\ second' = second \/ second' = second + 1
    BY <1>5 DEF SearchTick, allSearchVars, searchVars, requestVars
  <2>2. \A g \in Handlers : At(g, "search", "create")' =>
                               At(g, "search", "create") /\ req'[g].by = req[g].by
    BY <2>1 DEF At
  <2> QED BY <1>1, <2>1, <2>2, HistoryStays
<1> QED
  BY <1>2, <1>3, <1>4, <1>5, HistoryStartKeeps, HistoryRecordKeeps DEF SearchNext

\* The entries of a client that waits for its answers are at least so far apart that they do
\* not count as spam: the strengthening says that a search that is to record itself has seen
\* none that is later, and that no other of its account is under way.
THEOREM HistorySpaced == SearchSpec => []HistoryIsSpaced
<1>1. RequestsInit /\ SearchInit => HistoryInv
  <2> SUFFICES ASSUME RequestsInit, SearchInit PROVE HistoryInv
    OBVIOUS
  <2>1. SearchInv /\ manner \in Manners
    BY SearchInvInit DEF RequestsInit
  <2>2. Spaced
    BY DEF SearchInit, Spaced
  <2>3. \A h \in Handlers : ~ At(h, "search", "create")
    BY SearchIdle DEF RequestsInit, At
  <2> QED BY <2>1, <2>2, <2>3 DEF HistoryInv
<1>2. HistoryInv => HistoryIsSpaced
  BY DEF HistoryInv, Spaced, HistoryIsSpaced
<1> QED BY <1>1, <1>2, HistoryStep, PTL DEF SearchSpec

-----------------------------------------------------------------------------
(* Rankings. *)

USE DayAssumption, PastShiftsAssumption

Paging == [cursor : {Missing} \cup PastShifts, counted : Rankings]

Request ==
    [op : {"idle", "refresh"},
     at : {"", "check", "page", "accounts", "organizations", "date"}, by : {0},
     on : {{}, {"rankings"}}, arg : {0}, seen : Paging \cup Rankings \cup Int]

Running(r) == r.op = "refresh"

\* What is known of a run past its check: there is no fresh date; once it has set a key,
\* it is the one who set it last.
KnownRun(r) ==
    Running(r) =>
        /\ r.at \in {"page", "accounts", "organizations", "date"} => ~ Fresh
        /\ r.at = "page" => r.seen \in Paging
        /\ r.at \in {"accounts", "organizations"} => r.seen \in Rankings
        /\ r.at = "organizations" => accounts = r.seen
        /\ r.at = "date" => /\ r.seen \in 0..hour
                            /\ accounts \in Rankings /\ accounts = organizations

\* One run at a time, with the flag set.
OneRun ==
    /\ \A h \in Handlers : Running(req[h]) => isRunning
    /\ \A g, h \in Handlers : Running(req[g]) /\ Running(req[h]) => g = h

Slots == req \in [Handlers -> Request] /\ \A h \in Handlers : KnownRun(req[h])

AnalyticsInv ==
    /\ hour \in Nat
    /\ AnalyticsTypeOK /\ RankingsAgree
    /\ Slots /\ OneRun

-----------------------------------------------------------------------------

LEMMA IdleRequest == Idle \in Request /\ ~ Running(Idle)
  BY DEF Idle, Request, Running

LEMMA RunIsRequest == RunRequest \in Request /\ Running(RunRequest) /\ RunRequest.at = "check"
  BY DEF RunRequest, Request, Running

\* A ranking of shifts is not the missing key.
LEMMA RankingThere == \A r \in Rankings : r # NoRanking
<1> SUFFICES ASSUME NEW r \in Rankings, r = NoRanking PROVE FALSE
  OBVIOUS
<1>1. DOMAIN r = PastShifts
  BY DEF Rankings
<1>2. DOMAIN <<>> = {}
  OBVIOUS
<1> QED BY <1>1, <1>2 DEF NoRanking

LEMMA AnalyticsInvInit == RequestsInit /\ AnalyticsInit /\ hour \in Nat => AnalyticsInv
<1> SUFFICES ASSUME RequestsInit, AnalyticsInit PROVE AnalyticsInv
  OBVIOUS
<1>1. AnalyticsTypeOK
  BY DEF AnalyticsInit, AnalyticsTypeOK
<1>2. RankingsAgree
  BY DEF AnalyticsInit, RankingsAgree, Fresh
<1>3. Slots /\ OneRun
  BY IdleRequest DEF RequestsInit, Slots, OneRun, KnownRun
<1> QED BY <1>1, <1>2, <1>3 DEF AnalyticsInit, AnalyticsInv

\* The slot of a run changes, and no other slot has one.
LEMMA SlotStep ==
    ASSUME Slots, NEW h \in Handlers, NEW r \in Request, req' = [req EXCEPT ![h] = r],
           \A g \in Handlers \ {h} : ~ Running(req[g]),
           Running(r) => isRunning', KnownRun(r)'
    PROVE  Slots' /\ OneRun'
<1>1. req' \in [Handlers -> Request]
  BY DEF Slots
<1>2. \A g \in Handlers : req'[g] = IF g = h THEN r ELSE req[g]
  BY DEF Slots
<1>3. \A g \in Handlers \ {h} : ~ Running(req'[g])
  BY <1>2
<1>4. \A g \in Handlers : KnownRun(req[g])'
  <2> SUFFICES ASSUME NEW g \in Handlers PROVE KnownRun(req[g])'
    OBVIOUS
  <2>1. CASE g = h
    BY <1>2, <2>1
  <2>2. CASE g # h
    <3>1. ~ Running(req'[g])
      BY <1>3, <2>2
    <3> QED BY <3>1 DEF KnownRun
  <2> QED BY <2>1, <2>2
<1>5. OneRun'
  BY <1>2, <1>3 DEF OneRun
<1> QED BY <1>1, <1>4, <1>5 DEF Slots

LEMMA AloneRunning ==
    ASSUME AnalyticsInv, NEW h \in Handlers, Running(req[h])
    PROVE  isRunning /\ \A g \in Handlers \ {h} : ~ Running(req[g])
  BY DEF AnalyticsInv, OneRun

\* The request a run becomes with its next query.
LEMMA GotoSlot ==
    ASSUME Slots, NEW h \in Handlers, Running(req[h]), NEW at, NEW seen, Goto(h, at, seen),
           at \in {"page", "accounts", "organizations", "date"},
           seen \in Paging \cup Rankings \cup Int
    PROVE  \E r \in Request : /\ req' = [req EXCEPT ![h] = r]
                              /\ Running(r) /\ r.at = at /\ r.seen = seen
<1> DEFINE r == [req[h] EXCEPT !.at = at, !.seen = seen]
<1>1. req[h] \in Request
  BY DEF Slots
<1>2. r \in Request /\ Running(r) /\ r.at = at /\ r.seen = seen
  BY <1>1 DEF Request, Running
<1>3. req' = [req EXCEPT ![h] = r]
  BY DEF Goto
<1> QED BY <1>2, <1>3

\* Nothing that is known depends on more than these.
LEMMA KnownRunStays ==
    ASSUME hour \in Nat, hour' \in Nat, hour <= hour', AnalyticsTypeOK,
           UNCHANGED keyVars, NEW r, KnownRun(r)
    PROVE  (Fresh' => Fresh) /\ KnownRun(r)'
<1>1. Fresh' => Fresh
  BY DEF Fresh, keyVars, AnalyticsTypeOK, Missing
<1> QED BY <1>1 DEF KnownRun, keyVars, Running

-----------------------------------------------------------------------------

LEMMA RefreshKeeps ==
    ASSUME AnalyticsInv, NEW h \in Handlers, Refresh(h) PROVE AnalyticsInv'
<1>1. req' = [req EXCEPT ![h] = RunRequest] /\ isRunning'
  BY DEF Refresh, Begin
<1>2. \A g \in Handlers : ~ Running(req[g])
  BY DEF Refresh, AnalyticsInv, OneRun
<1>3. KnownRun(RunRequest)'
  BY RunIsRequest DEF KnownRun
<1>4. Slots' /\ OneRun'
  BY <1>1, <1>2, <1>3, RunIsRequest, SlotStep DEF AnalyticsInv
<1>5. AnalyticsTypeOK' /\ RankingsAgree' /\ hour' \in Nat
  BY <1>1 DEF Refresh, keyVars, AnalyticsInv, AnalyticsTypeOK, RankingsAgree, Fresh
<1> QED BY <1>4, <1>5 DEF AnalyticsInv

\* A run ends and writes no key.
LEMMA EndKeeps ==
    ASSUME AnalyticsInv, NEW h \in Handlers, req' = [req EXCEPT ![h] = Idle],
           \A g \in Handlers \ {h} : ~ Running(req[g]), isRunning' \in BOOLEAN,
           UNCHANGED <<completed, deleted, keyVars, hour>>
    PROVE  AnalyticsInv'
<1>1. Slots' /\ OneRun'
  BY IdleRequest, SlotStep DEF AnalyticsInv, KnownRun
<1>2. AnalyticsTypeOK' /\ RankingsAgree' /\ hour' \in Nat
  BY DEF keyVars, AnalyticsInv, AnalyticsTypeOK, RankingsAgree, Fresh
<1> QED BY <1>1, <1>2 DEF AnalyticsInv

LEMMA ZeroIsRanking == Zero \in Rankings
  BY DEF Zero, Rankings

LEMMA CheckKeeps ==
    ASSUME AnalyticsInv, NEW h \in Handlers, RefreshCheck(h) PROVE AnalyticsInv'
<1>1. Running(req[h])
  BY DEF RefreshCheck, At, Running
<1>2. CASE Fresh
  BY <1>1, <1>2, AloneRunning, EndKeeps DEF RefreshCheck, End
<1>3. CASE ~ Fresh
  <2> DEFINE seen == [cursor |-> Missing, counted |-> Zero]
  <2>1. seen \in Paging
    BY ZeroIsRanking DEF Paging
  <2>2. Goto(h, "page", seen) /\ UNCHANGED <<completed, deleted, keyVars, isRunning, changes, hour>>
    BY <1>3 DEF RefreshCheck
  <2> HIDE DEF seen
  <2>3. PICK r \in Request : /\ req' = [req EXCEPT ![h] = r]
                             /\ Running(r) /\ r.at = "page" /\ r.seen = seen
    BY <1>1, <2>1, <2>2, GotoSlot DEF AnalyticsInv
  <2>4. KnownRun(r)'
    BY <1>3, <2>1, <2>2, <2>3 DEF KnownRun, Fresh, keyVars
  <2>5. Slots' /\ OneRun'
    BY <1>1, <2>2, <2>3, <2>4, AloneRunning, SlotStep DEF AnalyticsInv
  <2>6. AnalyticsTypeOK' /\ RankingsAgree' /\ hour' \in Nat
    BY <2>2 DEF keyVars, AnalyticsInv, AnalyticsTypeOK, RankingsAgree, Fresh
  <2> QED BY <2>5, <2>6 DEF AnalyticsInv
<1> QED BY <1>2, <1>3

\* A page is counted, or a run has counted the last one.
LEMMA PageKeeps ==
    ASSUME AnalyticsInv, NEW h \in Handlers, RefreshPage(h) PROVE AnalyticsInv'
<1>1. Running(req[h]) /\ req[h].at = "page" /\ ~ Fresh
  BY DEF RefreshPage, At, Running, AnalyticsInv, Slots, KnownRun
<1>2. req[h].seen \in Paging
  BY <1>1 DEF AnalyticsInv, Slots, KnownRun
<1>3. UNCHANGED analyticsVars
  BY DEF RefreshPage
<1>4. ASSUME NEW at, NEW seen, Goto(h, at, seen),
             (at = "accounts" /\ seen \in Rankings) \/ (at = "page" /\ seen \in Paging)
      PROVE  Slots' /\ OneRun'
  <2>1. PICK r \in Request : /\ req' = [req EXCEPT ![h] = r]
                             /\ Running(r) /\ r.at = at /\ r.seen = seen
    BY <1>1, <1>4, GotoSlot DEF AnalyticsInv
  <2>2. KnownRun(r)'
    BY <1>1, <1>3, <1>4, <2>1 DEF KnownRun, Fresh, analyticsVars
  <2> QED BY <1>1, <1>3, <2>1, <2>2, AloneRunning, SlotStep DEF AnalyticsInv, analyticsVars
<1>5. Slots' /\ OneRun'
  <2> DEFINE page == PageAfter(req[h].seen.cursor)
  <2>1. CASE Goto(h, "accounts", req[h].seen.counted)
    BY <1>2, <1>4, <2>1 DEF Paging
  <2>2. ASSUME NEW last \in page,
               Goto(h, "page", [cursor |-> last,
                                counted |-> [s \in PastShifts |-> req[h].seen.counted[s]
                                                + (IF s \in page THEN 1 ELSE 0)]])
        PROVE  Slots' /\ OneRun'
    <3> DEFINE counted == [s \in PastShifts |-> req[h].seen.counted[s]
                                                    + (IF s \in page THEN 1 ELSE 0)]
    <3>1. last \in PastShifts
      BY DEF PageAfter, PageOf, AnalyticsInv, AnalyticsTypeOK
    <3>2. counted \in Rankings
      BY <1>2 DEF Paging, Rankings
    <3> HIDE DEF counted, page
    <3>3. [cursor |-> last, counted |-> counted] \in Paging
      BY <3>1, <3>2 DEF Paging
    <3> QED BY <1>4, <2>2, <3>3 DEF counted
  <2> QED BY <2>1, <2>2 DEF RefreshPage
<1>6. AnalyticsTypeOK' /\ RankingsAgree' /\ hour' \in Nat
  BY <1>3 DEF analyticsVars, AnalyticsInv, AnalyticsTypeOK, RankingsAgree, Fresh
<1> QED BY <1>5, <1>6 DEF AnalyticsInv

LEMMA SetAccountsKeeps ==
    ASSUME AnalyticsInv, NEW h \in Handlers, SetAccounts(h) PROVE AnalyticsInv'
<1>1. Running(req[h]) /\ req[h].at = "accounts" /\ ~ Fresh /\ req[h].seen \in Rankings
  BY DEF SetAccounts, At, Running, AnalyticsInv, Slots, KnownRun
<1>2. ~ Fresh'
  BY <1>1 DEF SetAccounts, Fresh
<1>3. PICK r \in Request : /\ req' = [req EXCEPT ![h] = r] /\ Running(r)
                           /\ r.at = "organizations" /\ r.seen = req[h].seen
  BY <1>1, GotoSlot DEF SetAccounts, AnalyticsInv
<1>4. KnownRun(r)'
  BY <1>1, <1>2, <1>3 DEF KnownRun, SetAccounts
<1>5. Slots' /\ OneRun'
  BY <1>1, <1>3, <1>4, AloneRunning, SlotStep DEF SetAccounts, AnalyticsInv
<1>6. AnalyticsTypeOK' /\ RankingsAgree' /\ hour' \in Nat
  BY <1>1, <1>2, RankingThere
     DEF SetAccounts, AnalyticsInv, AnalyticsTypeOK, RankingsAgree
<1> QED BY <1>5, <1>6 DEF AnalyticsInv

LEMMA SetOrganizationsKeeps ==
    ASSUME AnalyticsInv, NEW h \in Handlers, SetOrganizations(h) PROVE AnalyticsInv'
<1>1. /\ Running(req[h]) /\ req[h].at = "organizations" /\ ~ Fresh
      /\ req[h].seen \in Rankings /\ accounts = req[h].seen
  BY DEF SetOrganizations, At, Running, AnalyticsInv, Slots, KnownRun
<1>2. ~ Fresh'
  BY <1>1 DEF SetOrganizations, Fresh
<1>3. hour \in 0..hour /\ hour \in Int
  BY DEF AnalyticsInv
<1>4. PICK r \in Request : /\ req' = [req EXCEPT ![h] = r] /\ Running(r)
                           /\ r.at = "date" /\ r.seen = hour
  BY <1>1, <1>3, GotoSlot DEF SetOrganizations, AnalyticsInv
<1>5. KnownRun(r)'
  BY <1>1, <1>2, <1>3, <1>4 DEF KnownRun, SetOrganizations
<1>6. Slots' /\ OneRun'
  BY <1>1, <1>4, <1>5, AloneRunning, SlotStep DEF SetOrganizations, AnalyticsInv
<1>7. AnalyticsTypeOK' /\ RankingsAgree' /\ hour' \in Nat
  BY <1>1, <1>2, RankingThere
     DEF SetOrganizations, AnalyticsInv, AnalyticsTypeOK, RankingsAgree
<1> QED BY <1>6, <1>7 DEF AnalyticsInv

LEMMA SetLastUpdatedKeeps ==
    ASSUME AnalyticsInv, NEW h \in Handlers, SetLastUpdated(h) PROVE AnalyticsInv'
<1>1. /\ Running(req[h]) /\ req[h].seen \in 0..hour
      /\ accounts \in Rankings /\ accounts = organizations
  BY DEF SetLastUpdated, At, Running, AnalyticsInv, Slots, KnownRun
<1>2. Slots' /\ OneRun'
  BY <1>1, AloneRunning, IdleRequest, SlotStep DEF SetLastUpdated, End, AnalyticsInv, KnownRun
<1>3. AnalyticsTypeOK' /\ RankingsAgree' /\ hour' \in Nat
  BY <1>1, RankingThere DEF SetLastUpdated, AnalyticsInv, AnalyticsTypeOK, RankingsAgree
<1> QED BY <1>2, <1>3 DEF AnalyticsInv

\* A query rejects; a slot that is busy is a run's.
LEMMA RefreshFailsKeeps ==
    ASSUME AnalyticsInv, NEW h \in Handlers, RefreshFails(h) PROVE AnalyticsInv'
<1>1. Running(req[h])
  BY DEF RefreshFails, Abort, Busy, Running, AnalyticsInv, Slots, Request
<1> QED BY <1>1, AloneRunning, EndKeeps DEF RefreshFails, Abort

\* The shifts change or the clock goes on.
LEMMA OutsideKeeps ==
    ASSUME AnalyticsInv, UNCHANGED <<req, keyVars, isRunning>>,
           completed' \subseteq PastShifts \ deleted', hour' \in Nat, hour <= hour'
    PROVE  AnalyticsInv'
<1>1. \A r : KnownRun(r) => KnownRun(r)'
  BY KnownRunStays DEF AnalyticsInv
<1>2. Fresh' => Fresh
  BY DEF Fresh, keyVars, AnalyticsInv, AnalyticsTypeOK, Missing
<1>3. Slots' /\ OneRun'
  BY <1>1 DEF AnalyticsInv, Slots, OneRun, Running
<1>4. AnalyticsTypeOK'
  BY DEF keyVars, AnalyticsInv, AnalyticsTypeOK, Missing
<1>5. RankingsAgree'
  BY <1>2 DEF keyVars, AnalyticsInv, RankingsAgree
<1> QED BY <1>3, <1>4, <1>5 DEF AnalyticsInv

LEMMA AnalyticsInvStep == AnalyticsInv /\ [AnalyticsNext]_allAnalyticsVars => AnalyticsInv'
<1> SUFFICES ASSUME AnalyticsInv, [AnalyticsNext]_allAnalyticsVars PROVE AnalyticsInv'
  OBVIOUS
<1>1. ASSUME NEW h \in Handlers, Refresh(h) \/ AskAccounts(h) \/ AskOrganizations(h)
      PROVE  AnalyticsInv'
  BY <1>1, RefreshKeeps DEF AskAccounts, AskOrganizations
<1>2. ASSUME NEW s \in PastShifts, ShiftChanges(s) PROVE AnalyticsInv'
  <2>1. completed' \subseteq PastShifts \ deleted'
    BY <1>2 DEF ShiftChanges, AnalyticsInv, AnalyticsTypeOK
  <2> QED BY <1>2, <2>1, OutsideKeeps DEF ShiftChanges, requestVars, AnalyticsInv
<1>3. CASE AnalyticsTick
  <2>1. completed' \subseteq PastShifts \ deleted'
    BY <1>3 DEF AnalyticsTick, AnalyticsInv, AnalyticsTypeOK
  <2> QED BY <1>3, <2>1, OutsideKeeps DEF AnalyticsTick, requestVars, AnalyticsInv
<1>4. CASE UNCHANGED allAnalyticsVars
  <2>1. UNCHANGED <<req, keyVars, isRunning, completed, deleted, hour>>
    BY <1>4 DEF allAnalyticsVars, requestVars, analyticsVars, keyVars
  <2>2. completed' \subseteq PastShifts \ deleted' /\ hour' \in Nat /\ hour <= hour'
    BY <2>1 DEF AnalyticsInv, AnalyticsTypeOK
  <2> QED BY <2>1, <2>2, OutsideKeeps
<1> QED
  BY <1>1, <1>2, <1>3, <1>4, CheckKeeps, PageKeeps, SetAccountsKeeps,
     SetOrganizationsKeeps, SetLastUpdatedKeeps, RefreshFailsKeeps DEF AnalyticsNext

\* The two rankings are there as soon as they have a date, and are those of one run while it
\* is fresh, wherever runs fail and whoever fires them: the strengthening says that a run
\* past its check has no fresh date beside it, and that it is alone.
THEOREM RankingsOfOneRun == AnalyticsSpec => []RankingsAgree
<1>1. RequestsInit /\ AnalyticsInit => AnalyticsInv
  BY AnalyticsInvInit DEF AnalyticsInit
<1>2. AnalyticsInv => RankingsAgree
  BY DEF AnalyticsInv
<1> QED BY <1>1, <1>2, AnalyticsInvStep, PTL DEF AnalyticsSpec

\* What a ranking says once every page is read.
FullCount(counted) ==
    /\ \A s \in PastShifts : counted[s] <= 1
    /\ changes = 0 => \A s \in completed : counted[s] = 1

\* What has been counted of the shifts up to the cursor.
Counting(p) ==
    /\ \A s \in PastShifts : p.counted[s] \in {0, 1} /\ (p.counted[s] = 1 => s <= p.cursor)
    /\ changes = 0 => /\ p.cursor \in completed \cup {Missing}
                      /\ \A s \in completed : s <= p.cursor => p.counted[s] = 1

RunCounts(r) ==
    /\ r.op = "refresh" /\ r.at = "page" => Counting(r.seen)
    /\ r.op = "refresh" /\ r.at = "accounts" => FullCount(r.seen)

CountingInv ==
    /\ AnalyticsInv /\ changes \in Nat /\ (changes = 0 => deleted = {})
    /\ \A h \in Handlers : RunCounts(req[h])
    /\ accounts # NoRanking => FullCount(accounts)

\* A slot changes, and the shifts do not.
LEMMA RunCountsStep ==
    ASSUME CountingInv, NEW h \in Handlers, NEW r, req' = [req EXCEPT ![h] = r],
           UNCHANGED <<completed, deleted, changes>>, RunCounts(r),
           accounts' # NoRanking => FullCount(accounts')
    PROVE  /\ changes' \in Nat /\ (changes' = 0 => deleted' = {})
           /\ \A g \in Handlers : RunCounts(req[g])'
           /\ accounts' # NoRanking => FullCount(accounts)'
<1>1. \A g \in Handlers : req'[g] = IF g = h THEN r ELSE req[g]
  BY DEF CountingInv, AnalyticsInv, Slots
<1>2. \A g \in Handlers : RunCounts(req'[g])
  BY <1>1 DEF CountingInv
<1>3. \A q : RunCounts(q) => RunCounts(q)'
  BY DEF RunCounts, Counting, FullCount
<1>4. accounts' # NoRanking => FullCount(accounts)'
  BY DEF CountingInv, FullCount
<1>5. \A g \in Handlers : RunCounts(req[g])'
  <2> SUFFICES ASSUME NEW g \in Handlers PROVE RunCounts(req[g])'
    OBVIOUS
  <2>1. PICK q : q = req'[g]
    OBVIOUS
  <2>2. RunCounts(q)'
    BY <1>2, <1>3, <2>1
  <2> QED BY <2>1, <2>2 DEF RunCounts, Counting, FullCount
<1> QED BY <1>4, <1>5 DEF CountingInv

LEMMA RunCountsIdle == RunCounts(Idle) /\ RunCounts(RunRequest)
  BY DEF RunCounts, Idle, RunRequest

\* The rows of a page come after the cursor; if no shift has changed they are all up to the
\* last of them, and those there are if there are none.
LEMMA PageOfRun ==
    ASSUME CountingInv, NEW cursor \in {Missing} \cup PastShifts
    PROVE  /\ \A s \in PageAfter(cursor) : s \in completed /\ cursor < s
           /\ changes = 0 /\ cursor \in completed \cup {Missing} =>
                /\ \A last \in PageAfter(cursor) : \A s \in completed :
                     cursor < s /\ s <= last => s \in PageAfter(cursor)
                /\ PageAfter(cursor) = {} => \A s \in completed : s <= cursor
<1> DEFINE S == {s \in completed : cursor # Missing => cursor \notin deleted /\ s >= cursor}
<1>1. /\ completed \subseteq PastShifts /\ (changes = 0 => deleted = {})
      /\ cursor \in Int /\ Missing = -1 /\ PastShifts \subseteq Nat
  BY DEF CountingInv, AnalyticsInv, AnalyticsTypeOK, Missing
<1>2. /\ \A s \in S : s \in Nat /\ s \in completed /\ (cursor # Missing => s >= cursor)
      /\ \A s \in completed : changes = 0 /\ s >= cursor => s \in S
  BY <1>1
<1>3. PageAfter(cursor) = PageOf(S, IF cursor = Missing THEN 0 ELSE 1, PageOfShifts)
  BY DEF PageAfter
<1> HIDE DEF S
<1>4. S \in SUBSET Nat /\ \A s \in S : Rank(S, s) \in Nat \ {0}
  BY <1>2, RankType
<1>5. CASE cursor = Missing
  <2>1. PICK P : P = PageOf(S, 0, PageOfShifts)
    OBVIOUS
  <2>2. /\ P \subseteq S
        /\ \A i \in P : \A k \in S : k <= i /\ Rank(S, k) > 0 => k \in P
        /\ P = {} => \A i \in S : Rank(S, i) <= 0
    BY <1>4, <2>1, PageIsNext, PageAssumption
  <2>3. \A i \in P : i \in completed /\ i \in Nat
    BY <1>2, <2>2
  <2>4. \A i \in P : \A k \in S : k <= i => k \in P
    BY <1>4, <2>2
  <2>5. P = {} => S = {}
    BY <1>4, <2>2
  <2>6. \A s \in completed : s \in Nat /\ s >= cursor
    BY <1>1, <1>5
  <2> QED BY <1>1, <1>2, <1>3, <1>5, <2>1, <2>3, <2>4, <2>5, <2>6
<1>6. CASE cursor # Missing
  <2>1. PICK P : P = PageOf(S, 1, PageOfShifts)
    OBVIOUS
  <2>2. P = PageAfter(cursor) /\ cursor \in Nat
    BY <1>1, <1>3, <1>6, <2>1
  <2>3. P \subseteq S /\ \A i \in P : Rank(S, i) > 1
    BY <1>4, <2>1, PageIsNext, PageAssumption
  <2>4. \A i \in P : i \in completed /\ i \in Nat /\ cursor < i
    <3> SUFFICES ASSUME NEW i \in P PROVE i \in completed /\ i \in Nat /\ cursor < i
      OBVIOUS
    <3>1. i \in S /\ i \in Nat /\ i \in completed /\ i >= cursor
      BY <1>2, <1>6, <2>3
    <3>2. CASE i = cursor
      <4>1. \A s \in S : i <= s
        BY <1>2, <1>6, <3>2
      <4>2. Rank(S, i) = 1
        BY <1>4, <3>1, <4>1, RankFirst
      <4> QED BY <2>3, <4>2
    <3> QED BY <2>2, <3>1, <3>2
  <2>5. ASSUME changes = 0, cursor \in completed
        PROVE  /\ \A last \in P : \A s \in completed : cursor < s /\ s <= last => s \in P
               /\ P = {} => \A s \in completed : s <= cursor
    <3>1. cursor \in S /\ \A s \in S : cursor <= s
      BY <1>2, <1>6, <2>2, <2>5
    <3>2. PICK take \in Nat : take = PageOfShifts /\ take # 0
      BY PageAssumption
    <3>3. /\ \A i \in P : \A k \in S : cursor < k /\ k <= i => k \in P
          /\ P = {} => S = {cursor}
      BY <1>4, <2>1, <2>2, <3>1, <3>2, PageAfterRow
    <3>4. \A s \in completed : s \in Nat /\ (s >= cursor => s \in S)
      BY <1>1, <1>2, <2>5
    <3>5. P = {} => \A s \in completed : s <= cursor
      <4> SUFFICES ASSUME P = {}, NEW s \in completed, ~ (s <= cursor) PROVE FALSE
        OBVIOUS
      <4>1. s \in Nat /\ s > cursor
        BY <2>2, <3>4
      <4>2. s \in S
        BY <2>2, <3>4, <4>1
      <4> QED BY <2>2, <3>3, <4>1, <4>2
    <3>6. \A last \in P : \A s \in completed : cursor < s /\ s <= last => s \in P
      <4> SUFFICES ASSUME NEW last \in P, NEW s \in completed, cursor < s, s <= last
                   PROVE  s \in P
        OBVIOUS
      <4>1. s \in S
        BY <2>2, <3>4
      <4> QED BY <3>3, <4>1
    <3> QED BY <3>5, <3>6
  <2> QED BY <1>6, <2>2, <2>4, <2>5
<1> QED BY <1>5, <1>6

\* What a run is that is on its pages.
LEMMA PageRun ==
    ASSUME CountingInv, NEW h \in Handlers, RefreshPage(h)
    PROVE  /\ Running(req[h]) /\ UNCHANGED analyticsVars
           /\ req[h].seen \in Paging /\ Counting(req[h].seen)
<1>1. Running(req[h]) /\ req[h].op = "refresh" /\ req[h].at = "page" /\ UNCHANGED analyticsVars
  BY DEF RefreshPage, At, Running
<1>2. KnownRun(req[h]) /\ RunCounts(req[h])
  BY DEF CountingInv, AnalyticsInv, Slots
<1> QED BY <1>1, <1>2 DEF KnownRun, RunCounts

LEMMA PageCounts ==
    ASSUME CountingInv, NEW h \in Handlers, RefreshPage(h)
    PROVE  CountingInv'
<1>1. PICK p : p = req[h].seen
  OBVIOUS
<1>2. p \in Paging /\ Counting(p) /\ UNCHANGED analyticsVars /\ Running(req[h])
  BY <1>1, PageRun
<1>3. /\ p.cursor \in {Missing} \cup PastShifts /\ p.counted \in [PastShifts -> Nat]
      /\ DOMAIN p.counted = PastShifts
  BY <1>2 DEF Paging, Rankings
<1>4. PICK P : P = PageAfter(p.cursor)
  OBVIOUS
<1>5. /\ \A s \in P : s \in completed /\ p.cursor < s
      /\ changes = 0 => /\ \A last \in P : \A s \in completed : p.cursor < s /\ s <= last => s \in P
                        /\ P = {} => \A s \in completed : s <= p.cursor
  BY <1>2, <1>3, <1>4, PageOfRun DEF Counting
<1>6. completed \subseteq PastShifts /\ p.cursor \in Int /\ PastShifts \subseteq Nat
  BY <1>3 DEF CountingInv, AnalyticsInv, AnalyticsTypeOK, Missing
<1>7. AnalyticsInv'
  BY PageKeeps DEF CountingInv
<1>8. ASSUME NEW at, NEW seen, Goto(h, at, seen),
             (at = "accounts" /\ seen \in Rankings) \/ (at = "page" /\ seen \in Paging),
             at = "page" => Counting(seen), at = "accounts" => FullCount(seen)
      PROVE  CountingInv'
  <2>1. PICK r \in Request : /\ req' = [req EXCEPT ![h] = r]
                             /\ Running(r) /\ r.at = at /\ r.seen = seen
    BY <1>2, <1>8, GotoSlot DEF CountingInv, AnalyticsInv
  <2>2. RunCounts(r)
    BY <1>8, <2>1 DEF RunCounts
  <2>3. accounts' # NoRanking => FullCount(accounts')
    BY <1>2 DEF CountingInv, analyticsVars, keyVars
  <2> QED BY <1>2, <1>7, <2>1, <2>2, <2>3, RunCountsStep DEF CountingInv, analyticsVars
<1>9. CASE P = {} /\ Goto(h, "accounts", p.counted)
  <2>1. \A s \in PastShifts : p.counted[s] <= 1
    BY <1>2 DEF Counting
  <2>2. ASSUME changes = 0, NEW s \in completed PROVE p.counted[s] = 1
    <3>1. s <= p.cursor
      BY <1>5, <1>9, <2>2
    <3> QED BY <1>2, <2>2, <3>1 DEF Counting
  <2>3. FullCount(p.counted) /\ p.counted \in Rankings
    BY <1>3, <2>1, <2>2 DEF FullCount, Rankings
  <2> QED BY <1>8, <1>9, <2>3
<1>10. ASSUME NEW last \in P, \A s \in P : s <= last,
              Goto(h, "page", [cursor |-> last,
                               counted |-> [s \in PastShifts |->
                                               p.counted[s] + (IF s \in P THEN 1 ELSE 0)]])
       PROVE  CountingInv'
  <2>1. PICK c : c = [s \in PastShifts |-> p.counted[s] + (IF s \in P THEN 1 ELSE 0)]
    OBVIOUS
  <2>2. PICK n : n = [cursor |-> last, counted |-> c]
    OBVIOUS
  <2>3. n.cursor = last /\ n.counted = c /\ Goto(h, "page", n)
    BY <1>10, <2>1, <2>2
  <2>4. /\ DOMAIN c = PastShifts
        /\ \A s \in PastShifts : s \in P => c[s] = p.counted[s] + 1
        /\ \A s \in PastShifts : s \notin P => c[s] = p.counted[s] + 0
    BY <2>1
  <2>5. last \in completed /\ last \in PastShifts /\ last \in Nat /\ p.cursor < last
    BY <1>5, <1>6, <1>10
  <2>6. ASSUME NEW s \in PastShifts
        PROVE  c[s] \in {0, 1} /\ (c[s] = 1 => s <= last)
    <3>1. p.counted[s] \in {0, 1} /\ (p.counted[s] = 1 => s <= p.cursor) /\ s \in Nat
      BY <1>2, <1>6 DEF Counting
    <3>2. CASE s \in P
      <4>1. p.cursor < s /\ s <= last
        BY <1>5, <1>10, <3>2
      <4> QED BY <1>6, <2>4, <3>1, <3>2, <4>1
    <3>3. CASE s \notin P
      BY <1>6, <2>4, <2>5, <3>1, <3>3
    <3> QED BY <3>2, <3>3
  <2>7. ASSUME changes = 0, NEW s \in completed, s <= last PROVE c[s] = 1
    <3>1. s \in PastShifts /\ s \in Nat /\ p.counted[s] \in {0, 1}
      BY <1>2, <1>6 DEF Counting
    <3>2. CASE s <= p.cursor
      <4>1. p.counted[s] = 1
        BY <1>2, <2>7, <3>2 DEF Counting
      <4>2. s \notin P
        <5> SUFFICES ASSUME s \in P PROVE FALSE
          OBVIOUS
        <5>1. p.cursor < s
          BY <1>5
        <5> QED BY <1>6, <3>1, <3>2, <5>1
      <4> QED BY <2>4, <3>1, <4>1, <4>2
    <3>3. CASE ~ (s <= p.cursor)
      <4>1. p.cursor < s
        BY <1>6, <3>1, <3>3
      <4>2. s \in P
        BY <1>5, <1>10, <2>7, <4>1
      <4>3. p.counted[s] # 1
        BY <1>2, <3>1, <3>3 DEF Counting
      <4> QED BY <2>4, <3>1, <4>2, <4>3
    <3> QED BY <3>2, <3>3
  <2>8. Counting(n)
    BY <2>3, <2>5, <2>6, <2>7 DEF Counting
  <2>9. n \in Paging
    <3>1. c \in Rankings
      <4>1. \A s \in PastShifts : c[s] \in Nat
        BY <2>6
      <4>2. c = [s \in PastShifts |-> c[s]]
        BY <2>1, <2>4
      <4> QED BY <4>1, <4>2 DEF Rankings
    <3> QED BY <2>2, <2>5, <3>1 DEF Paging
  <2> QED BY <1>8, <2>3, <2>8, <2>9
<1> QED BY <1>1, <1>4, <1>9, <1>10 DEF RefreshPage

LEMMA CountingStep ==
    ASSUME CountingInv, [AnalyticsNext]_allAnalyticsVars
    PROVE  CountingInv'
<1>1. AnalyticsInv' /\ AnalyticsInv
  BY AnalyticsInvStep DEF CountingInv
<1>2. ASSUME NEW h \in Handlers, req' = [req EXCEPT ![h] = RunRequest] \/ req' = [req EXCEPT ![h] = Idle],
             UNCHANGED <<completed, deleted, accounts, changes>>
      PROVE  CountingInv'
  <2>1. accounts' # NoRanking => FullCount(accounts')
    BY <1>2 DEF CountingInv
  <2> QED BY <1>1, <1>2, <2>1, RunCountsStep, RunCountsIdle DEF CountingInv
<1>3. ASSUME NEW h \in Handlers, Refresh(h) \/ AskAccounts(h) \/ AskOrganizations(h)
      PROVE  CountingInv'
  BY <1>2, <1>3 DEF Refresh, AskAccounts, AskOrganizations, Begin, keyVars
<1>4. ASSUME NEW h \in Handlers, RefreshCheck(h) PROVE CountingInv'
  <2>1. CASE Fresh
    BY <1>2, <1>4, <2>1 DEF RefreshCheck, End, keyVars
  <2>2. CASE ~ Fresh
    <3>1. PICK p : p = [cursor |-> Missing, counted |-> Zero]
      OBVIOUS
    <3>2. p \in Paging /\ p.cursor = Missing /\ p.counted = Zero
      BY <3>1, ZeroIsRanking DEF Paging
    <3>3. /\ Goto(h, "page", p) /\ Running(req[h])
          /\ UNCHANGED <<completed, deleted, accounts, changes>>
      BY <1>4, <2>2, <3>1 DEF RefreshCheck, keyVars, At, Running
    <3>4. PICK r \in Request : /\ req' = [req EXCEPT ![h] = r]
                               /\ Running(r) /\ r.at = "page" /\ r.seen = p
      BY <3>2, <3>3, GotoSlot DEF CountingInv, AnalyticsInv
    <3>5. Counting(p)
      <4>1. \A s \in PastShifts : p.counted[s] = 0
        BY <3>2 DEF Zero
      <4>2. \A s \in completed : ~ (s <= Missing)
        BY <1>1, PastShiftsAssumption DEF AnalyticsInv, AnalyticsTypeOK, Missing
      <4> QED BY <3>2, <4>1, <4>2 DEF Counting
    <3>6. RunCounts(r) /\ (accounts' # NoRanking => FullCount(accounts'))
      BY <3>3, <3>4, <3>5 DEF RunCounts, CountingInv
    <3> QED BY <1>1, <3>3, <3>4, <3>6, RunCountsStep DEF CountingInv
  <2> QED BY <2>1, <2>2
<1>5. ASSUME NEW h \in Handlers, SetAccounts(h) PROVE CountingInv'
  <2>1. /\ Running(req[h]) /\ req[h].op = "refresh" /\ req[h].at = "accounts"
        /\ Goto(h, "organizations", req[h].seen) /\ accounts' = req[h].seen
        /\ UNCHANGED <<completed, deleted, changes>>
    BY <1>5 DEF SetAccounts, At, Running
  <2>2. req[h].seen \in Rankings /\ FullCount(req[h].seen)
    BY <1>1, <2>1 DEF AnalyticsInv, Slots, KnownRun, CountingInv, RunCounts
  <2>3. PICK r \in Request : /\ req' = [req EXCEPT ![h] = r]
                             /\ Running(r) /\ r.at = "organizations" /\ r.seen = req[h].seen
    BY <2>1, <2>2, GotoSlot DEF CountingInv, AnalyticsInv
  <2>4. RunCounts(r) /\ FullCount(accounts')
    BY <2>1, <2>2, <2>3 DEF RunCounts
  <2> QED BY <1>1, <2>1, <2>3, <2>4, RunCountsStep DEF CountingInv
<1>6. ASSUME NEW h \in Handlers, SetOrganizations(h) PROVE CountingInv'
  <2>1. /\ Running(req[h]) /\ Goto(h, "date", hour) /\ accounts' = accounts
        /\ UNCHANGED <<completed, deleted, changes>>
    BY <1>6 DEF SetOrganizations, At, Running
  <2>2. hour \in Int
    BY <1>1 DEF AnalyticsInv
  <2>3. PICK r \in Request : req' = [req EXCEPT ![h] = r] /\ Running(r) /\ r.at = "date"
    BY <2>1, <2>2, GotoSlot DEF CountingInv, AnalyticsInv
  <2>4. RunCounts(r) /\ (accounts' # NoRanking => FullCount(accounts'))
    BY <2>1, <2>3 DEF RunCounts, CountingInv
  <2> QED BY <1>1, <2>1, <2>3, <2>4, RunCountsStep DEF CountingInv
<1>7. ASSUME NEW h \in Handlers, SetLastUpdated(h) \/ RefreshFails(h) PROVE CountingInv'
  BY <1>2, <1>7 DEF SetLastUpdated, RefreshFails, End, Abort, keyVars
<1>8. ASSUME NEW s \in PastShifts, ShiftChanges(s) PROVE CountingInv'
  <2>1. changes' = changes + 1 /\ req' = req /\ accounts' = accounts
    BY <1>8 DEF ShiftChanges, requestVars, keyVars
  <2>2. changes' \in Nat /\ changes' # 0
    BY <2>1 DEF CountingInv
  <2>3. \A q : RunCounts(q) => RunCounts(q)'
    BY <2>2 DEF RunCounts, Counting, FullCount
  <2>4. \A h \in Handlers : RunCounts(req[h])'
    BY <2>1, <2>3 DEF CountingInv, RunCounts, Counting, FullCount
  <2>5. accounts' # NoRanking => FullCount(accounts)'
    BY <2>1, <2>2 DEF CountingInv, FullCount
  <2> QED BY <1>1, <2>2, <2>4, <2>5 DEF CountingInv
<1>9. CASE AnalyticsTick \/ UNCHANGED allAnalyticsVars
  <2>1. UNCHANGED <<req, completed, deleted, accounts, changes>>
    BY <1>9 DEF AnalyticsTick, allAnalyticsVars, requestVars, analyticsVars, keyVars
  <2>2. \A h \in Handlers : RunCounts(req[h])'
    BY <2>1 DEF CountingInv, RunCounts, Counting, FullCount
  <2>3. accounts' # NoRanking => FullCount(accounts)'
    BY <2>1 DEF CountingInv, FullCount
  <2> QED BY <1>1, <2>1, <2>2, <2>3 DEF CountingInv
<1> QED
  BY <1>3, <1>4, <1>5, <1>6, <1>7, <1>8, <1>9, PageCounts DEF AnalyticsNext

\* A run that reads the completed shifts page by page counts none of them twice, however
\* they change meanwhile, and each of them if none does.
THEOREM EveryShiftIsCounted == AnalyticsSpec => []EveryShiftCounts
<1>1. RequestsInit /\ AnalyticsInit => CountingInv
  <2> SUFFICES ASSUME RequestsInit, AnalyticsInit PROVE CountingInv
    OBVIOUS
  <2>1. AnalyticsInv
    BY AnalyticsInvInit DEF AnalyticsInit
  <2>2. \A h \in Handlers : RunCounts(req[h])
    BY RunCountsIdle DEF RequestsInit
  <2> QED BY <2>1, <2>2 DEF AnalyticsInit, CountingInv
<1>2. CountingInv => EveryShiftCounts
  BY DEF CountingInv, FullCount, EveryShiftCounts
<1> QED BY <1>1, <1>2, CountingStep, PTL DEF AnalyticsSpec

\* The keys of the rankings, the flag and the date are well formed, whatever fails.
THEOREM AnalyticsTypeCorrect == AnalyticsSpec => []AnalyticsTypeOK
<1>1. RequestsInit /\ AnalyticsInit => AnalyticsInv
  BY AnalyticsInvInit DEF AnalyticsInit
<1>2. AnalyticsInv => AnalyticsTypeOK
  BY DEF AnalyticsInv
<1> QED BY <1>1, <1>2, AnalyticsInvStep, PTL DEF AnalyticsSpec

-----------------------------------------------------------------------------
(* The services of MCServices together.                                        *)

ServicesInv ==
    /\ ServicesTypeOK
    /\ service = "rating" => RatingsInv
    /\ service = "window" => WindowInv
    /\ service = "search" => SearchInv
    /\ service = "analytics" => AnalyticsInv

LEMMA ServiceTypesFollow ==
    /\ RatingsInv => RatingsTypeOK
    /\ WindowInv => WindowTypeOK
    /\ SearchInv => SearchTypeOK
    /\ AnalyticsInv => AnalyticsTypeOK
<1>1. RatingsInv => RatingsTypeOK
  BY DEF RatingsInv, RateTables
<1>2. WindowInv => WindowTypeOK
  BY DEF WindowInv, WindowTables, WindowTypeOK, WindowsOf, Spans
<1>3. SearchInv => SearchTypeOK
  BY DEF SearchInv, SearchTables, SearchTypeOK, Fair
<1>4. AnalyticsInv => AnalyticsTypeOK
  BY DEF AnalyticsInv
<1> QED BY <1>1, <1>2, <1>3, <1>4

LEMMA ServiceTypesFollowNext ==
    /\ RatingsInv' => RatingsTypeOK'
    /\ WindowInv' => WindowTypeOK'
    /\ SearchInv' => SearchTypeOK'
    /\ AnalyticsInv' => AnalyticsTypeOK'
BY ServiceTypesFollow, PTL

\* Each service keeps its own rows and keys, and no step is of two services.
LEMMA ServicesUntouched ==
    /\ RatingsTypeOK /\ UNCHANGED ratingVars => RatingsTypeOK'
    /\ WindowTypeOK /\ UNCHANGED windowVars => WindowTypeOK'
    /\ SearchTypeOK /\ UNCHANGED searchVars => SearchTypeOK'
    /\ AnalyticsTypeOK /\ UNCHANGED analyticsVars => AnalyticsTypeOK'
<1>1. RatingsTypeOK /\ UNCHANGED ratingVars => RatingsTypeOK'
  BY DEF ratingVars, RatingsTypeOK, Counted
<1>2. WindowTypeOK /\ UNCHANGED windowVars => WindowTypeOK'
  BY DEF windowVars, WindowTypeOK, WindowsOf, ShiftIds
<1>3. SearchTypeOK /\ UNCHANGED searchVars => SearchTypeOK'
  BY DEF searchVars, SearchTypeOK
<1>4. AnalyticsTypeOK /\ UNCHANGED analyticsVars => AnalyticsTypeOK'
  BY DEF analyticsVars, AnalyticsTypeOK
<1> QED BY <1>1, <1>2, <1>3, <1>4

LEMMA ServicesInvStep == ServicesInv /\ [ServicesNext]_allVars => ServicesInv'
<1> SUFFICES ASSUME ServicesInv, [ServicesNext]_allVars PROVE ServicesInv'
  OBVIOUS
<1>1. CASE service = "rating" /\ RatingsNext /\ service' = service
           /\ UNCHANGED <<windowVars, searchVars, analyticsVars>>
  <2>1. RatingsInv'
    BY <1>1, RatingsInvStep DEF ServicesInv
  <2>2. UNCHANGED windowVars /\ UNCHANGED searchVars /\ UNCHANGED analyticsVars
    BY <1>1
  <2>3. ServicesTypeOK'
    BY <2>1, <2>2, ServiceTypesFollowNext, ServicesUntouched DEF ServicesInv, ServicesTypeOK
  <2> QED BY <1>1, <2>1, <2>3 DEF ServicesInv
<1>2. CASE service = "window" /\ WindowNext /\ service' = service
           /\ UNCHANGED <<ratingVars, searchVars, analyticsVars>>
  <2>1. WindowInv'
    BY <1>2, WindowNextKeeps DEF ServicesInv
  <2>2. UNCHANGED ratingVars /\ UNCHANGED searchVars /\ UNCHANGED analyticsVars
    BY <1>2
  <2>3. ServicesTypeOK'
    BY <2>1, <2>2, ServiceTypesFollowNext, ServicesUntouched DEF ServicesInv, ServicesTypeOK
  <2> QED BY <1>2, <2>1, <2>3 DEF ServicesInv
<1>3. CASE service = "search" /\ SearchNext /\ service' = service
           /\ UNCHANGED <<ratingVars, windowVars, analyticsVars>>
  <2>1. SearchInv'
    BY <1>3, SearchInvStep DEF ServicesInv
  <2>2. UNCHANGED ratingVars /\ UNCHANGED windowVars /\ UNCHANGED analyticsVars
    BY <1>3
  <2>3. ServicesTypeOK'
    BY <2>1, <2>2, ServiceTypesFollowNext, ServicesUntouched DEF ServicesInv, ServicesTypeOK
  <2> QED BY <1>3, <2>1, <2>3 DEF ServicesInv
<1>4. CASE service = "analytics" /\ AnalyticsNext /\ service' = service
           /\ UNCHANGED <<ratingVars, windowVars, searchVars>>
  <2>1. AnalyticsInv'
    BY <1>4, AnalyticsInvStep DEF ServicesInv
  <2>2. UNCHANGED ratingVars /\ UNCHANGED windowVars /\ UNCHANGED searchVars
    BY <1>4
  <2>3. ServicesTypeOK'
    BY <2>1, <2>2, ServiceTypesFollowNext, ServicesUntouched DEF ServicesInv, ServicesTypeOK
  <2> QED BY <1>4, <2>1, <2>3 DEF ServicesInv
\* A step of a service that keeps none of these.
<1>5. CASE service \in {"token", "account", "attendance", "review"} /\ service' = service
           /\ UNCHANGED <<ratingVars, windowVars, searchVars, analyticsVars>>
  <2>1. /\ UNCHANGED ratingVars /\ UNCHANGED windowVars /\ UNCHANGED searchVars
        /\ UNCHANGED analyticsVars
    BY <1>5
  <2>2. ServicesTypeOK'
    BY <2>1, ServicesUntouched DEF ServicesInv, ServicesTypeOK
  <2> QED BY <1>5, <2>2 DEF ServicesInv
<1>6. CASE UNCHANGED allVars
  <2>1. /\ UNCHANGED requestVars /\ UNCHANGED ratingVars /\ UNCHANGED windowVars
        /\ UNCHANGED searchVars /\ UNCHANGED analyticsVars /\ service' = service
    BY <1>6 DEF allVars, askedVars, servedVars
  <2>2. /\ RatingsInv => RatingsInv'
        /\ WindowInv => WindowInv'
        /\ SearchInv => SearchInv'
        /\ AnalyticsInv => AnalyticsInv'
    BY <2>1, RatingsInvStep, WindowNextKeeps, SearchInvStep, AnalyticsInvStep
       DEF allRatingVars, allWindowVars, allSearchVars, allAnalyticsVars
  <2>3. ServicesTypeOK'
    BY <2>1, ServicesUntouched DEF ServicesInv, ServicesTypeOK
  <2> QED BY <2>1, <2>2, <2>3 DEF ServicesInv
<1> QED
  BY <1>1, <1>2, <1>3, <1>4, <1>5, <1>6 DEF ServicesNext, Only, askedVars, servedVars

\* The averages, the window, the answers and the rankings stay well formed, however the
\* requests of each service are interleaved.
THEOREM ServicesTypeCorrect == ServicesSpec => []ServicesTypeOK
<1>1. ServicesInit => ServicesInv
  <2> SUFFICES ASSUME ServicesInit PROVE ServicesInv
    OBVIOUS
  <2>1. RatingsInv /\ WindowInv /\ SearchInv /\ AnalyticsInv
    BY RatingsInvInit, WindowInitially, SearchInvInit, AnalyticsInvInit
       DEF ServicesInit, AnalyticsInit
  <2> QED BY <2>1, ServiceTypesFollow DEF ServicesInv, ServicesTypeOK
<1>2. ServicesInv => ServicesTypeOK
  BY DEF ServicesInv
<1> QED BY <1>1, <1>2, ServicesInvStep, PTL DEF ServicesSpec
=============================================================================
