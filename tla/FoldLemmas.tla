----------------------------- MODULE FoldLemmas -----------------------------
(***************************************************************************)
(* Lemmas about folds over sequences and the places of their members, for  *)
(* the proofs about the host backend and the output receiver.  The         *)
(* library's induction theorems take an operator, which the provers cannot *)
(* instantiate: the induction here is over sets of naturals.               *)
(***************************************************************************)
EXTENDS Ranks, SequencesExt, SequenceTheorems, FiniteSetTheorems, WellFoundedInduction,
        TLAPS

\* A set of naturals that is not empty has a least member.
LEMMA Least ==
  ASSUME NEW T, T \subseteq Nat, T # {}
  PROVE  \E n \in T : \A m \in T : n <= m
<1> DEFINE R == OpToRel(<, Nat)
<1>1. IsWellFoundedOn(R, Nat)
  BY NatLessThanWellFounded
<1>2. \A m, n \in Nat : m < n => <<m, n>> \in R
  BY DEF OpToRel
<1> HIDE DEF R
<1>3. PICK n \in T : \A m \in T : ~(<<m, n>> \in R)
  BY <1>1, WFMin
<1>4. \A m \in T : ~(m < n)
  BY <1>2, <1>3
<1> QED
  BY <1>4

\* Induction, on a set.
LEMMA SetInduction ==
  ASSUME NEW S, 0 \in S, \A n \in Nat : n \in S => n + 1 \in S
  PROVE  Nat \subseteq S
<1> DEFINE T == Nat \ S
<1> SUFFICES ASSUME T # {} PROVE FALSE
  OBVIOUS
<1> HIDE DEF T
<1>1. T \subseteq Nat
  BY DEF T
<1>2. PICK n \in T : \A m \in T : n <= m
  BY <1>1, Least
<1>3. n # 0 /\ n \in Nat /\ n - 1 \in Nat /\ n - 1 < n
  BY <1>1, <1>2 DEF T
<1>4. n - 1 \in S
  BY <1>2, <1>3 DEF T
<1> QED
  BY <1>3, <1>4 DEF T

\* The greatest member of a set of places.
LEMMA Greatest ==
  ASSUME NEW n \in Nat, NEW s, s \subseteq 1..n, s # {}
  PROVE  Max(s) \in s /\ \A i \in s : i <= Max(s)
<1> DEFINE T == {k \in Nat : \A i \in s : i <= k}
<1>1. n \in T
  OBVIOUS
<1>2. PICK k \in T : \A m \in T : k <= m
  <2> HIDE DEF T
  <2>1. T \subseteq Nat
    BY DEF T
  <2> QED
    BY <1>1, <2>1, Least
<1>3. k \in s
  <2> SUFFICES ASSUME k \notin s PROVE FALSE
    OBVIOUS
  <2>1. PICK i \in s : TRUE
    OBVIOUS
  <2>2. i \in Nat /\ i >= 1 /\ i <= k /\ k \in Nat
    BY <2>1
  <2>3. k - 1 \in Nat
    BY <2>2
  <2>4. \A j \in s : j <= k - 1
    BY <2>2
  <2>5. k - 1 \in T
    BY <2>3, <2>4
  <2> QED
    BY <1>2, <2>2, <2>5
<1>4. \A i \in s : k >= i /\ i \in Nat
  BY <1>2
<1> QED
  BY <1>3, <1>4 DEF Max

\* A fold of F over a sequence, by sets of places as the library's definition has it.
FoldsSets(f, base, seq, F) ==
  \A s \in SUBSET (1..Len(seq)) :
    f[s] = IF s = {} THEN base ELSE F[<<f[s \ {Max(s)}], seq[Max(s)]>>]

\* The same place by place.
FoldsPlaces(h, base, seq, F) ==
  h[0] = base /\ \A k \in 1..Len(seq) : h[k] = F[<<h[k - 1], seq[k]>>]

\* A fold over a sequence is defined.
LEMMA FoldDefined ==
  ASSUME NEW A, NEW base \in A, NEW E, NEW seq \in Seq(E), NEW F \in [A \X E -> A]
  PROVE  \E f \in [SUBSET (1..Len(seq)) -> A] : FoldsSets(f, base, seq, F)
<1> DEFINE Folds(f, k) ==
             \A s \in SUBSET (1..k) :
               f[s] = IF s = {} THEN base ELSE F[<<f[s \ {Max(s)}], seq[Max(s)]>>]
           Has(k) == \E f \in [SUBSET (1..k) -> A] : Folds(f, k)
           T == {k \in Nat : k <= Len(seq) => Has(k)}
<1>0. Len(seq) \in Nat
  OBVIOUS
<1>1. 0 \in T
  <2> DEFINE f == [s \in SUBSET (1..0) |-> base]
  <2>1. \A s \in SUBSET (1..0) : s = {}
    OBVIOUS
  <2>2. f \in [SUBSET (1..0) -> A] /\ Folds(f, 0)
    BY <2>1
  <2>3. Has(0)
    <3> HIDE DEF Folds, f
    <3> QED BY <2>2
  <2> HIDE DEF Has
  <2> QED
    BY <2>3
<1>2. ASSUME NEW k \in Nat, k \in T PROVE k + 1 \in T
  <2> SUFFICES ASSUME k + 1 <= Len(seq) PROVE Has(k + 1)
    <3> HIDE DEF Has
    <3> QED OBVIOUS
  <2>0. Has(k)
    <3> HIDE DEF Has
    <3> QED BY <1>0, <1>2
  <2>1. PICK f \in [SUBSET (1..k) -> A] : Folds(f, k)
    BY <2>0
  <2>2. seq[k + 1] \in E
    BY <1>0
  <2> DEFINE g == [s \in SUBSET (1..(k + 1)) |->
                     IF k + 1 \in s THEN F[<<f[s \ {k + 1}], seq[k + 1]>>] ELSE f[s]]
  <2>3. \A s \in SUBSET (1..(k + 1)) : s \ {k + 1} \in SUBSET (1..k)
    OBVIOUS
  <2>4. \A s \in SUBSET (1..(k + 1)) : k + 1 \notin s => s \in SUBSET (1..k)
    OBVIOUS
  <2>5. g \in [SUBSET (1..(k + 1)) -> A]
    BY <2>1, <2>2, <2>3, <2>4
  <2>6. ASSUME NEW s \in SUBSET (1..(k + 1))
        PROVE  g[s] = IF s = {} THEN base ELSE F[<<g[s \ {Max(s)}], seq[Max(s)]>>]
    <3>1. CASE k + 1 \in s
      <4>1. Max(s) \in s /\ k + 1 <= Max(s)
        <5>1. k + 1 \in Nat /\ s \subseteq 1..(k + 1) /\ s # {}
          BY <3>1
        <5> QED
          BY <3>1, <5>1, Greatest
      <4>2. Max(s) = k + 1
        <5>1. PICK i \in 1..(k + 1) : i = Max(s) /\ k + 1 <= i
          BY <4>1
        <5> QED
          BY <5>1
      <4>3. s \ {k + 1} \in SUBSET (1..k) /\ k + 1 \notin s \ {k + 1}
        BY <2>3
      <4>4. s \ {k + 1} \in SUBSET (1..(k + 1))
        OBVIOUS
      <4>5. g[s \ {k + 1}] = f[s \ {k + 1}]
        BY <4>3, <4>4
      <4> QED
        BY <3>1, <4>2, <4>5
    <3>2. CASE k + 1 \notin s
      <4>1. s \in SUBSET (1..k) /\ g[s] = f[s]
        BY <2>4, <3>2
      <4>2. \A i : /\ s \ {i} \in SUBSET (1..k) /\ s \ {i} \in SUBSET (1..(k + 1))
                   /\ k + 1 \notin s \ {i}
        <5>1. s \subseteq 1..k /\ s \subseteq 1..(k + 1) /\ k + 1 \notin s
          BY <3>2, <4>1
        <5> QED
          BY <5>1, Zenon
      <4>3. g[s \ {Max(s)}] = f[s \ {Max(s)}]
        BY <4>2
      <4> QED
        BY <2>1, <4>1, <4>3
    <3> QED
      BY <3>1, <3>2
  <2> HIDE DEF g
  <2> QED
    BY <2>5, <2>6
<1> HIDE DEF T, Has
<1>3. Len(seq) \in T
  BY <1>0, <1>1, <1>2, SetInduction
<1>4. Has(Len(seq))
  BY <1>0, <1>3 DEF T
<1> QED
  BY <1>4 DEF Has, FoldsSets

\* The places before one.
LEMMA Places ==
  ASSUME NEW k \in Nat, k # 0
  PROVE  Max(1..k) = k /\ (1..k) \ {k} = 1..(k - 1) /\ 1..k # {}
<1>1. k \in 1..k /\ 1..k \subseteq 1..k
  OBVIOUS
<1>2. Max(1..k) \in 1..k /\ \A i \in 1..k : i <= Max(1..k)
  BY <1>1, Greatest
<1>3. PICK i \in 1..k : i = Max(1..k) /\ k <= i
  BY <1>1, <1>2
<1> QED
  BY <1>1, <1>3

\* What a fold over a sequence computes, place by place.
LEMMA FoldSteps ==
  ASSUME NEW A, NEW base \in A, NEW E, NEW seq \in Seq(E), NEW F \in [A \X E -> A]
  PROVE  \E h \in [0..Len(seq) -> A] : FoldsPlaces(h, base, seq, F)
<1>0. PICK f \in [SUBSET (1..Len(seq)) -> A] : FoldsSets(f, base, seq, F)
  BY FoldDefined
<1>1. \A s \in SUBSET (1..Len(seq)) :
        f[s] = IF s = {} THEN base ELSE F[<<f[s \ {Max(s)}], seq[Max(s)]>>]
  BY <1>0 DEF FoldsSets
<1>2. Len(seq) \in Nat
  OBVIOUS
<1> DEFINE h == [k \in 0..Len(seq) |-> f[1..k]]
<1>3. \A k \in 0..Len(seq) : 1..k \in SUBSET (1..Len(seq))
  BY <1>2
<1>4. h \in [0..Len(seq) -> A]
  BY <1>1, <1>3
<1>5. h[0] = base
  <2>1. 1..0 = {} /\ 0 \in 0..Len(seq)
    BY <1>2
  <2> QED
    BY <1>1, <2>1
<1>6. ASSUME NEW k \in 1..Len(seq) PROVE h[k] = F[<<h[k - 1], seq[k]>>]
  <2>1. k \in Nat /\ k # 0 /\ k \in 0..Len(seq) /\ k - 1 \in 0..Len(seq)
    BY <1>2
  <2>2. Max(1..k) = k /\ (1..k) \ {k} = 1..(k - 1) /\ 1..k # {}
    BY <2>1, Places
  <2> QED
    BY <1>1, <1>3, <2>1, <2>2
<1> HIDE DEF h
<1> QED
  BY <1>4, <1>5, <1>6 DEF FoldsPlaces

\* Ranks are numbers from 1 that tell the members apart and order them.
LEMMA RankIs ==
  ASSUME NEW K, K \subseteq Nat, IsFiniteSet(K), NEW k \in K
  PROVE  /\ Rank(K, k) \in Nat /\ 1 <= Rank(K, k) /\ Rank(K, k) <= Cardinality(K)
         /\ \A j \in K : j < k => Rank(K, j) < Rank(K, k)
<1> DEFINE Upto(i) == {j \in K : j <= i}
<1>1. \A i : Upto(i) \subseteq K /\ IsFiniteSet(Upto(i))
  BY FS_Subset
<1>2. k \in Upto(k)
  OBVIOUS
<1>3. /\ Cardinality(Upto(k)) \in Nat /\ Cardinality(Upto(k)) <= Cardinality(K)
      /\ Cardinality(Upto(k)) # 0
  <2> HIDE DEF Upto
  <2>1. Cardinality(Upto(k)) \in Nat /\ Cardinality(Upto(k)) <= Cardinality(K)
    BY <1>1, FS_CardinalityType, FS_Subset
  <2> QED
    BY <1>1, <1>2, <2>1, FS_EmptySet
<1>4. ASSUME NEW j \in K, j < k PROVE Cardinality(Upto(j)) < Cardinality(Upto(k))
  <2>1. Upto(j) \cup {k} \subseteq Upto(k) /\ k \notin Upto(j)
    <3>1. \A i \in K : i <= j => i <= k /\ i # k
      BY <1>4
    <3> QED
      BY <1>2, <3>1
  <2> HIDE DEF Upto
  <2>2. Cardinality(Upto(j) \cup {k}) = Cardinality(Upto(j)) + 1
        /\ IsFiniteSet(Upto(j) \cup {k})
    BY <1>1, <2>1, FS_AddElement
  <2>3. Cardinality(Upto(j) \cup {k}) <= Cardinality(Upto(k))
    BY <1>1, <2>1, FS_Subset
  <2>4. Cardinality(Upto(j)) \in Nat /\ Cardinality(Upto(k)) \in Nat
    BY <1>1, FS_CardinalityType
  <2> QED
    BY <2>2, <2>3, <2>4
<1>5. \A i : Rank(K, i) = Cardinality(Upto(i))
  BY DEF Rank
<1> HIDE DEF Upto
<1> QED
  BY <1>3, <1>4, <1>5

\* A place after all of the others has the last rank, and changes no other.
LEMMA RankGrows ==
  ASSUME NEW K, K \subseteq Nat, IsFiniteSet(K), NEW k \in Nat, \A j \in K : j < k
  PROVE  /\ IsFiniteSet(K \cup {k}) /\ Cardinality(K \cup {k}) = Cardinality(K) + 1
         /\ Rank(K \cup {k}, k) = Cardinality(K) + 1
         /\ \A j \in K : Rank(K \cup {k}, j) = Rank(K, j)
<1>1. k \notin K
  OBVIOUS
<1>2. IsFiniteSet(K \cup {k}) /\ Cardinality(K \cup {k}) = Cardinality(K) + 1
  BY <1>1, FS_AddElement
<1>3. {j \in K \cup {k} : j <= k} = K \cup {k}
  <2>1. \A j \in K \cup {k} : j <= k
    OBVIOUS
  <2> QED
    BY <2>1
<1>4. ASSUME NEW l \in K PROVE {j \in K \cup {k} : j <= l} = {j \in K : j <= l}
  OBVIOUS
<1> QED
  BY <1>2, <1>3, <1>4 DEF Rank
=============================================================================
