------------------------- MODULE Subsequence_proofs -------------------------
(* What the places that a loop with append collects have in common. *)
EXTENDS Subsequence, TLAPS, FiniteSetTheorems

LEMMA FirstNumbers ==
  ASSUME NEW n \in Nat
  PROVE  IsFiniteSet(1 .. n) /\ Cardinality(1 .. n) = n
<1>1. 1 \in Int /\ n \in Int
  OBVIOUS
<1>2. IsFiniteSet(1 .. n) /\ Cardinality(1 .. n) = IF 1 > n THEN 0 ELSE n - 1 + 1
  BY ONLY <1>1, FS_Interval, Zenon
<1> QED  BY <1>2

LEMMA LeastNumber ==
  ASSUME NEW S \in SUBSET Nat, S # {}
  PROVE  \E i \in S : \A j \in S : i <= j
<1>1. PICK i \in S : \A j \in S : ~ (<<j, i>> \in OpToRel(<, Nat))
  BY NatLessThanWellFounded, WFMin
<1>2. \A j \in S : ~ j < i
  BY <1>1 DEF OpToRel
<1> QED  BY <1>2

LEMMA UpToFinite ==
  ASSUME NEW S \in SUBSET Nat, IsFiniteSet(S)
  PROVE  /\ Cardinality(S) \in Nat
         /\ \A i \in S :
              /\ IsFiniteSet(UpTo(S, i))
              /\ Cardinality(UpTo(S, i)) \in 1 .. Cardinality(S)
<1>1. Cardinality(S) \in Nat
  BY FS_CardinalityType
<1>2. ASSUME NEW i \in S
      PROVE  /\ IsFiniteSet(UpTo(S, i))
             /\ Cardinality(UpTo(S, i)) \in 1 .. Cardinality(S)
  <2>1. UpTo(S, i) \in SUBSET S /\ i \in UpTo(S, i)
    BY DEF UpTo
  <2>2. /\ IsFiniteSet(UpTo(S, i))
        /\ Cardinality(UpTo(S, i)) <= Cardinality(S)
    BY <1>1, <2>1, FS_Subset
  <2>3. Cardinality(UpTo(S, i)) \in Nat /\ Cardinality(UpTo(S, i)) # 0
    BY <2>1, <2>2, FS_CardinalityType, FS_EmptySet
  <2> QED  BY <1>1, <2>2, <2>3
<1> QED  BY <1>1, <1>2

(* A later place has more of them up to it. *)
LEMMA UpToGrows ==
  ASSUME NEW S \in SUBSET Nat, IsFiniteSet(S),
         NEW i \in S, NEW j \in S, i < j
  PROVE  Cardinality(UpTo(S, i)) < Cardinality(UpTo(S, j))
<1>1. /\ IsFiniteSet(UpTo(S, j))
      /\ Cardinality(UpTo(S, i)) \in Nat /\ Cardinality(UpTo(S, j)) \in Nat
  BY UpToFinite
<1>2. UpTo(S, i) \in SUBSET UpTo(S, j) /\ j \in UpTo(S, j) \ UpTo(S, i)
  <2>1. i \in Nat /\ j \in Nat /\ \A l \in S : l \in Nat
    OBVIOUS
  <2>2. j \in UpTo(S, j) /\ j \notin UpTo(S, i)
    BY <2>1, i < j DEF UpTo
  <2>3. ASSUME NEW l \in UpTo(S, i)
        PROVE  l \in UpTo(S, j)
    <3>1. l \in S /\ l <= i
      BY DEF UpTo
    <3>2. l <= j
      BY <2>1, <3>1, i < j
    <3> QED  BY <3>1, <3>2 DEF UpTo
  <2> QED  BY <2>2, <2>3
<1>3. /\ Cardinality(UpTo(S, i)) <= Cardinality(UpTo(S, j))
      /\ Cardinality(UpTo(S, i)) # Cardinality(UpTo(S, j))
  BY <1>1, <1>2, FS_Subset
<1> QED  BY <1>1, <1>3

(* Every number up to that of the places is the rank of one of them. *)
LEMMA RankTaken ==
  ASSUME NEW S \in SUBSET Nat, IsFiniteSet(S), NEW k \in 1 .. Cardinality(S)
  PROVE  \E i \in S : Cardinality(UpTo(S, i)) = k
<1> DEFINE ranks == 1 .. Cardinality(S)
           rank == [i \in S |-> Cardinality(UpTo(S, i))]
<1>1. Cardinality(S) \in Nat
  BY UpToFinite
<1>2. rank \in [S -> ranks]
  BY UpToFinite
<1>3. ASSUME NEW i \in S, NEW j \in S, rank[i] = rank[j]
      PROVE  i = j
  <2>1. i \in Nat /\ j \in Nat /\ rank[i] \in Nat /\ rank[j] \in Nat
    BY <1>1, <1>2
  <2>2. ~ i < j /\ ~ j < i
    BY <1>3, <2>1, UpToGrows
  <2> QED  BY <2>1, <2>2
<1>4. rank \in Injection(S, ranks)
  BY <1>2, <1>3 DEF Injection, IsInjective
<1>5. IsFiniteSet(ranks) /\ Cardinality(ranks) = Cardinality(S)
  BY <1>1, FirstNumbers
<1> HIDE DEF rank, ranks
<1>6. rank \in Surjection(S, ranks)
  BY <1>4, <1>5, FS_Injection
<1>7. \E i \in S : rank[i] = k
  BY <1>6 DEF Surjection, ranks
<1> QED  BY <1>7 DEF rank

\* The k-th chosen place is one, and has k of them up to it; the places come
\* in their order.
THEOREM ChosenInOrder ==
  ASSUME NEW S \in SUBSET Nat, IsFiniteSet(S)
  PROVE  /\ Cardinality(S) \in Nat
         /\ InOrder(S) \in [1 .. Cardinality(S) -> S]
         /\ \A k \in 1 .. Cardinality(S) :
              Cardinality(UpTo(S, InOrder(S)[k])) = k
         /\ \A j, k \in 1 .. Cardinality(S) :
              j < k => InOrder(S)[j] < InOrder(S)[k]
<1> DEFINE place == InOrder(S)
<1>1. Cardinality(S) \in Nat
  BY UpToFinite
<1>2. ASSUME NEW k \in 1 .. Cardinality(S)
      PROVE  place[k] \in S /\ Cardinality(UpTo(S, place[k])) = k
  BY RankTaken DEF InOrder
<1>3. place \in [1 .. Cardinality(S) -> S]
  BY <1>2 DEF InOrder
<1>4. ASSUME NEW j \in 1 .. Cardinality(S), NEW k \in 1 .. Cardinality(S), j < k
      PROVE  place[j] < place[k]
  <2> HIDE DEF place
  <2>1. place[j] \in S /\ place[k] \in S /\ place[j] \in Nat /\ place[k] \in Nat
    BY <1>2
  <2>2. place[j] # place[k] /\ ~ place[k] < place[j]
    BY <1>1, <1>2, <1>4, <2>1, UpToGrows
  <2> QED  BY <2>1, <2>2
<1> QED  BY <1>1, <1>2, <1>3, <1>4

LEMMA PlacesFinite ==
  ASSUME NEW T, NEW s \in Seq(T), NEW S \in SUBSET DOMAIN s
  PROVE  /\ S \in SUBSET Nat /\ IsFiniteSet(S)
         /\ Cardinality(S) \in Nat /\ Cardinality(S) <= Len(s)
         /\ Cardinality(S) = Len(s) => S = DOMAIN s
<1>1. Len(s) \in Nat /\ DOMAIN s = 1 .. Len(s)
  OBVIOUS
<1>2. IsFiniteSet(DOMAIN s) /\ Cardinality(DOMAIN s) = Len(s)
  BY <1>1, FirstNumbers
<1>3. /\ IsFiniteSet(S)
      /\ Cardinality(S) <= Cardinality(DOMAIN s)
      /\ Cardinality(DOMAIN s) = Cardinality(S) => DOMAIN s = S
  BY ONLY <1>2, S \in SUBSET DOMAIN s, FS_Subset
<1>4. S \in SUBSET Nat
  BY <1>1
<1>5. Cardinality(S) \in Nat
  BY <1>3, FS_CardinalityType
<1> QED  BY <1>2, <1>3, <1>4, <1>5

(* What is collected, and from where. *)
LEMMA Collected ==
  ASSUME NEW T, NEW s \in Seq(T), NEW S \in SUBSET DOMAIN s
  PROVE  /\ Cardinality(S) \in Nat
         /\ Len(Select(s, S)) = Cardinality(S)
         /\ DOMAIN Select(s, S) = 1 .. Cardinality(S)
         /\ Select(s, S) \in Seq({s[i] : i \in S})
         /\ \A k \in 1 .. Cardinality(S) :
              InOrder(S)[k] \in S /\ Select(s, S)[k] = s[InOrder(S)[k]]
<1>1. S \in SUBSET Nat /\ IsFiniteSet(S)
  BY PlacesFinite
<1>2. /\ Cardinality(S) \in Nat
      /\ InOrder(S) \in [1 .. Cardinality(S) -> S]
  BY <1>1, ChosenInOrder
<1>3. Select(s, S) \in [1 .. Cardinality(S) -> {s[i] : i \in S}]
  BY <1>2 DEF Select
<1> QED  BY <1>2, <1>3 DEF Select

\* Whatever places are chosen, one element is collected for each of them, none
\* is lost and none comes twice, and they keep their order.
THEOREM NoneLostOrRepeated ==
  ASSUME NEW T, NEW s \in Seq(T), NEW S \in SUBSET DOMAIN s
  PROVE  /\ Len(Select(s, S)) = Cardinality(S)
         /\ \E place \in [1 .. Cardinality(S) -> S] :
              /\ \A k \in 1 .. Cardinality(S) : Select(s, S)[k] = s[place[k]]
              /\ \A j, k \in 1 .. Cardinality(S) : j < k => place[j] < place[k]
              /\ \A i \in S : \E k \in 1 .. Cardinality(S) : place[k] = i
<1> DEFINE ranks == 1 .. Cardinality(S)
           place == InOrder(S)
<1>1. S \in SUBSET Nat /\ IsFiniteSet(S) /\ Cardinality(S) \in Nat
  BY PlacesFinite
<1>2. /\ place \in [ranks -> S]
      /\ \A j, k \in ranks : j < k => place[j] < place[k]
  BY <1>1, ChosenInOrder
<1>3. IsFiniteSet(ranks) /\ Cardinality(ranks) = Cardinality(S)
  BY <1>1, FirstNumbers
<1> HIDE DEF place, ranks
<1>4. place \in Injection(ranks, S)
  <2>1. ASSUME NEW j \in ranks, NEW k \in ranks, place[j] = place[k]
        PROVE  j = k
    <3>1. place[j] \in Nat /\ j \in Nat /\ k \in Nat
      BY <1>1, <1>2 DEF ranks
    <3>2. ~ j < k /\ ~ k < j
      BY <1>2, <2>1, <3>1
    <3> QED  BY <3>1, <3>2
  <2> QED  BY <1>2, <2>1 DEF Injection, IsInjective
<1>5. place \in Surjection(ranks, S)
  BY <1>1, <1>3, <1>4, FS_Injection
<1>6. \A i \in S : \E k \in ranks : place[k] = i
  BY <1>5 DEF Surjection
<1>7. \A k \in ranks : Select(s, S)[k] = s[place[k]]
  BY Collected DEF ranks, place
<1> QED  BY <1>2, <1>6, <1>7, Collected DEF ranks

\* A loop that collects as many elements as there are has left none out, and
\* collects the sequence itself.
LEMMA AllCollected ==
  ASSUME NEW T, NEW s \in Seq(T), NEW S \in SUBSET DOMAIN s,
         ~ Len(s) > Len(Select(s, S))
  PROVE  S = DOMAIN s /\ Select(s, S) = s
<1> DEFINE n == Len(s)
<1>1. n \in Nat /\ DOMAIN s = 1 .. n
  OBVIOUS
<1>2. Cardinality(S) = n
  <2>1. /\ Cardinality(S) \in Nat /\ Cardinality(S) <= n
        /\ Len(Select(s, S)) = Cardinality(S)
    BY PlacesFinite, Collected
  <2> QED  BY <1>1, <2>1
<1>3. S = 1 .. n /\ S \in SUBSET Nat /\ IsFiniteSet(S)
  BY <1>1, <1>2, PlacesFinite
<1>4. ASSUME NEW k \in 1 .. n
      PROVE  InOrder(S)[k] = k
  <2>1. InOrder(S)[k] \in 1 .. n /\ Cardinality(UpTo(S, InOrder(S)[k])) = k
    BY <1>2, <1>3, ChosenInOrder
  <2>2. UpTo(S, InOrder(S)[k]) = 1 .. InOrder(S)[k]
    BY <1>1, <1>3, <2>1 DEF UpTo
  <2>3. Cardinality(1 .. InOrder(S)[k]) = InOrder(S)[k]
    BY <1>1, <2>1, FirstNumbers
  <2> QED  BY <2>1, <2>2, <2>3
<1>5. Select(s, S) = [k \in 1 .. n |-> s[k]]
  BY <1>2, <1>4 DEF Select
<1>6. s = [k \in 1 .. n |-> s[k]]
  BY <1>1
<1> QED  BY <1>1, <1>3, <1>5, <1>6
=============================================================================
