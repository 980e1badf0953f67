----------------------------- MODULE VectorLemmas -----------------------------
(***************************************************************************)
(* Lemmas about natural numbers, about positions in a sequence, and about  *)
(* what Compaction leaves of a vector.                                     *)
(***************************************************************************)
EXTENDS Compaction, FiniteSetTheorems, WellFoundedInduction, TLAPS

-----------------------------------------------------------------------------
(* Naturals *)

\* A set of naturals that is not empty has a least element.
LEMMA LeastNatural ==
  ASSUME NEW S, S \subseteq Nat, S # {}
  PROVE  \E m \in S : \A n \in S : m <= n
  <1> DEFINE R == OpToRel(<, Nat)
  <1>1. IsWellFoundedOn(R, Nat)
    BY NatLessThanWellFounded, Zenon
  <1>2. \A m, n \in Nat : <<n, m>> \in R <=> n < m
    BY DEF OpToRel
  <1> HIDE DEF R
  <1>3. PICK m \in S : \A n \in S : ~(<<n, m>> \in R)
    BY <1>1, WFMin
  <1>4. ASSUME NEW n \in S
        PROVE  m <= n
    <2>1. m \in Nat /\ n \in Nat
      OBVIOUS
    <2>2. ~(n < m)
      BY <1>2, <1>3, <2>1, Zenon
    <2> QED
      BY <2>1, <2>2
  <1> QED
    BY <1>4

\* Induction, for a set in the place of a predicate.
LEMMA InductionOnSet ==
  ASSUME NEW S, 0 \in S, \A n \in Nat : n \in S => n + 1 \in S
  PROVE  Nat \subseteq S
  <1> SUFFICES ASSUME ~(Nat \subseteq S)
               PROVE  FALSE
    OBVIOUS
  <1> DEFINE C == Nat \ S
  <1>1. C # {} /\ C \subseteq Nat
    OBVIOUS
  <1> HIDE DEF C
  <1>2. PICK m \in C : \A n \in C : m <= n
    BY <1>1, LeastNatural
  <1>3. m - 1 \in Nat /\ m - 1 \in S
    BY <1>2 DEF C
  <1> QED
    BY <1>2, <1>3 DEF C

\* The largest of b and some of the numbers of a sequence.
LEMMA Largest ==
  ASSUME NEW N \in Nat, NEW q \in [1 .. N -> Nat], NEW b \in Nat, NEW I \in SUBSET (1 .. N)
  PROVE  \E s \in {b} \cup {q[i] : i \in I} : \A r \in {b} \cup {q[i] : i \in I} : r <= s
  <1> DEFINE T(J) == {b} \cup {q[i] : i \in J}
             Has(J) == \E s \in T(J) : \A r \in T(J) : r <= s
             S == {n \in Nat : \A J \in SUBSET (1 .. N) : J \subseteq 1 .. n => Has(J)}
  <1> HIDE DEF Has
  <1>1. 0 \in S
    <2> SUFFICES ASSUME NEW J \in SUBSET (1 .. N), J \subseteq 1 .. 0
                 PROVE  Has(J)
      OBVIOUS
    <2>1. J = {}
      OBVIOUS
    <2>2. T(J) = {b}
      BY <2>1
    <2> QED
      BY <2>2 DEF Has
  <1>2. ASSUME NEW n \in Nat, n \in S
        PROVE  n + 1 \in S
    <2> SUFFICES ASSUME NEW J \in SUBSET (1 .. N), J \subseteq 1 .. n + 1
                 PROVE  Has(J)
      OBVIOUS
    <2>1. CASE n + 1 \notin J
      <3>1. J \subseteq 1 .. n
        BY <2>1
      <3> QED
        BY <1>2, <3>1
    <2>2. CASE n + 1 \in J
      <3> DEFINE K == J \ {n + 1}
      <3>1. K \in SUBSET (1 .. N) /\ K \subseteq 1 .. n
        OBVIOUS
      <3>2. PICK s \in T(K) : \A r \in T(K) : r <= s
        BY <1>2, <3>1 DEF Has
      <3>3. T(J) = T(K) \cup {q[n + 1]}
        BY <2>2
      <3>4. T(J) \subseteq Nat /\ s \in Nat /\ q[n + 1] \in Nat
        BY <2>2, <3>1
      <3> HIDE DEF T, K
      <3>5. CASE s <= q[n + 1]
        BY <3>2, <3>3, <3>4, <3>5 DEF Has
      <3>6. CASE q[n + 1] <= s
        BY <3>2, <3>3, <3>4, <3>6 DEF Has
      <3> QED
        BY <3>4, <3>5, <3>6
    <2> QED
      BY <2>1, <2>2
  <1> HIDE DEF S
  <1>3. N \in S
    BY <1>1, <1>2, InductionOnSet
  <1> QED
    BY <1>3 DEF S, Has

\* A set of positions of a sequence has a last one.
LEMMA LastPosition ==
  ASSUME NEW N \in Nat, NEW I \in SUBSET (1 .. N), I # {}
  PROVE  \E i \in I : \A j \in I : j <= i
  <1> DEFINE q == [i \in 1 .. N |-> i]
  <1>1. PICK s \in {0} \cup {q[i] : i \in I} : \A r \in {0} \cup {q[i] : i \in I} : r <= s
    <2>1. q \in [1 .. N -> Nat] /\ 0 \in Nat
      OBVIOUS
    <2> HIDE DEF q
    <2> QED
      BY <2>1, Largest
  <1>2. \A i \in I : q[i] = i
    OBVIOUS
  <1> HIDE DEF q
  <1>3. PICK i \in I : TRUE
    OBVIOUS
  <1>4. i <= s /\ i >= 1
    <2>1. q[i] \in {0} \cup {q[j] : j \in I} /\ q[i] = i
      BY <1>2, <1>3
    <2>2. i <= s
      BY <1>1, <2>1
    <2>3. i \in 1 .. N
      BY <1>3
    <2> QED
      BY <2>2, <2>3
  <1>5. PICK j \in I : s = j
    BY <1>1, <1>2, <1>4
  <1> QED
    BY <1>1, <1>2, <1>5

-----------------------------------------------------------------------------
(* Ranks *)

LEMMA FinitePositions ==
  ASSUME NEW N \in Nat, NEW S \in SUBSET (1 .. N)
  PROVE  /\ IsFiniteSet(S) /\ Cardinality(S) \in 0 .. N
         /\ \A i \in S : /\ IsFiniteSet({j \in S : j <= i})
                         /\ Rank(S, i) \in 1 .. Cardinality(S)
  <1>1. IsFiniteSet(1 .. N) /\ Cardinality(1 .. N) = N
    BY FS_Interval
  <1>2. IsFiniteSet(S) /\ Cardinality(S) <= N
    BY <1>1, FS_Subset
  <1>3. Cardinality(S) \in Nat
    BY <1>2, FS_CardinalityType
  <1>4. ASSUME NEW i \in S
        PROVE  IsFiniteSet({j \in S : j <= i}) /\ Rank(S, i) \in 1 .. Cardinality(S)
    <2> DEFINE T == {j \in S : j <= i}
    <2>1. T \in SUBSET S /\ i \in T
      OBVIOUS
    <2> HIDE DEF T
    <2>2. IsFiniteSet(T) /\ Cardinality(T) <= Cardinality(S)
      BY <1>2, <2>1, FS_Subset
    <2>3. Cardinality(T) \in Nat /\ Cardinality(T) # 0
      BY <2>1, <2>2, FS_CardinalityType, FS_EmptySet
    <2>4. IsFiniteSet(T) /\ Cardinality(T) \in 1 .. Cardinality(S)
      BY <1>3, <2>2, <2>3
    <2> QED
      BY <2>4 DEF T, Rank
  <1> QED
    BY <1>2, <1>3, <1>4

\* A later position has a higher rank.
LEMMA RanksIncrease ==
  ASSUME NEW N \in Nat, NEW S \in SUBSET (1 .. N), NEW i \in S, NEW j \in S, i < j
  PROVE  Rank(S, i) < Rank(S, j)
  <1> DEFINE A == {k \in S : k <= i}
             B == {k \in S : k <= j}
  <1>0. \A k \in S : k \in Nat
    OBVIOUS
  <1>1. A \in SUBSET B /\ j \in B /\ j \notin A
    <2>1. i \in Nat /\ j \in Nat
      BY <1>0
    <2>2. \A k \in A : k \in B
      BY <1>0, <2>1
    <2>3. j \in B /\ j \notin A
      BY <2>1
    <2> HIDE DEF A, B
    <2> QED
      BY <2>2, <2>3
  <1>2. IsFiniteSet(B) /\ Rank(S, i) = Cardinality(A) /\ Rank(S, j) = Cardinality(B)
    BY FinitePositions DEF Rank
  <1> HIDE DEF A, B
  <1>3. Cardinality(A) <= Cardinality(B) /\ Cardinality(A) # Cardinality(B)
    BY <1>1, <1>2, FS_Subset
  <1>4. Cardinality(A) \in Nat /\ Cardinality(B) \in Nat
    BY <1>1, <1>2, FS_Subset, FS_CardinalityType
  <1> QED
    BY <1>2, <1>3, <1>4

\* Every rank is that of a position.
LEMMA RanksAreTaken ==
  ASSUME NEW N \in Nat, NEW S \in SUBSET (1 .. N), NEW r \in 1 .. Cardinality(S)
  PROVE  \E i \in S : Rank(S, i) = r
  <1> DEFINE Taken(T) == \A q \in 1 .. Cardinality(T) : \E i \in T : Rank(T, i) = q
             I == {n \in Nat : \A T \in SUBSET (1 .. n) : Taken(T)}
  <1>1. 0 \in I
    <2> SUFFICES ASSUME NEW T \in SUBSET (1 .. 0)
                 PROVE  Taken(T)
      OBVIOUS
    <2>1. T = {}
      OBVIOUS
    <2>2. Cardinality(T) = 0
      BY <2>1, FS_EmptySet
    <2> QED
      BY <2>2
  <1>2. ASSUME NEW n \in Nat, n \in I
        PROVE  n + 1 \in I
    <2> SUFFICES ASSUME NEW T \in SUBSET (1 .. n + 1), NEW q \in 1 .. Cardinality(T)
                 PROVE  \E i \in T : Rank(T, i) = q
      OBVIOUS
    <2>1. CASE n + 1 \notin T
      <3>1. T \in SUBSET (1 .. n)
        BY <2>1
      <3> QED
        BY <1>2, <3>1
    <2>2. CASE n + 1 \in T
      <3> DEFINE K == T \ {n + 1}
      <3>1. K \in SUBSET (1 .. n) /\ T = K \cup {n + 1} /\ n + 1 \notin K
        BY <2>2
      <3>2. IsFiniteSet(K) /\ Cardinality(K) \in Nat
        BY <3>1, FinitePositions
      <3>3. Cardinality(T) = Cardinality(K) + 1
        <4> HIDE DEF K
        <4> QED
          BY <3>1, <3>2, FS_AddElement
      <3>4. CASE q = Cardinality(T)
        <4>0. \A j \in T : j <= n + 1
          OBVIOUS
        <4>1. {j \in T : j <= n + 1} = T
          BY <4>0, Zenon
        <4> QED
          BY <2>2, <3>4, <4>1 DEF Rank
      <3>5. CASE q # Cardinality(T)
        <4>1. q \in 1 .. Cardinality(K)
          BY <3>2, <3>3, <3>5
        <4>2. Taken(K)
          BY <1>2, <3>1
        <4>3. PICK i \in K : Rank(K, i) = q
          BY <4>1, <4>2
        <4>4. {j \in T : j <= i} = {j \in K : j <= i}
          BY <3>1, <4>3
        <4> QED
          BY <4>3, <4>4, <3>1 DEF Rank
      <3> QED
        BY <3>4, <3>5
    <2> QED
      BY <2>1, <2>2
  <1> HIDE DEF I
  <1>3. N \in I
    BY <1>1, <1>2, InductionOnSet
  <1> QED
    BY <1>3 DEF I

\* The n-th position is one, and has rank n.
LEMMA NthPosition ==
  ASSUME NEW N \in Nat, NEW S \in SUBSET (1 .. N)
  PROVE  /\ \A r \in 1 .. Cardinality(S) : Nth(S, r) \in S /\ Rank(S, Nth(S, r)) = r
         /\ \A i \in S : Nth(S, Rank(S, i)) = i
  <1>1. ASSUME NEW r \in 1 .. Cardinality(S)
        PROVE  Nth(S, r) \in S /\ Rank(S, Nth(S, r)) = r
    BY RanksAreTaken DEF Nth
  <1>2. ASSUME NEW i \in S
        PROVE  Nth(S, Rank(S, i)) = i
    <2> DEFINE j == Nth(S, Rank(S, i))
    <2>1. Rank(S, i) \in 1 .. Cardinality(S)
      BY FinitePositions
    <2>2. j \in S /\ Rank(S, j) = Rank(S, i)
      BY <1>1, <2>1
    <2> HIDE DEF j
    <2>0. \A x \in S : Rank(S, x) \in Nat
      <3>1. Cardinality(S) \in 0 .. N /\ \A x \in S : Rank(S, x) \in 1 .. Cardinality(S)
        BY FinitePositions
      <3> QED
        BY <3>1
    <2>3. ASSUME NEW x \in S, NEW y \in S, Rank(S, x) = Rank(S, y)
          PROVE  ~(x < y)
      <3>1. Rank(S, x) \in Nat
        BY <2>0
      <3>2. x < y => Rank(S, x) < Rank(S, y)
        BY RanksIncrease
      <3> QED
        BY <2>3, <3>1, <3>2
    <2>4. \A x \in S : x \in Nat
      OBVIOUS
    <2>5. i = j
      BY <2>2, <2>3, <2>4
    <2> QED
      BY <2>5 DEF j
  <1> QED
    BY <1>1, <1>2

\* What is left of a vector are its live entries, all of them, in their order.
LEMMA SurvivorsOf ==
  ASSUME NEW E, NEW s \in Seq(E)
  PROVE  /\ LiveOf(s) \in SUBSET (1 .. Len(s))
         /\ Cardinality(LiveOf(s)) \in 0 .. Len(s)
         /\ Survivors(s) \in Seq(E) /\ Len(Survivors(s)) = Cardinality(LiveOf(s))
         /\ \E p \in [1 .. Cardinality(LiveOf(s)) -> LiveOf(s)] :
              /\ \A n \in 1 .. Cardinality(LiveOf(s)) : Survivors(s)[n] = s[p[n]]
              /\ \A i \in LiveOf(s) : \E n \in 1 .. Cardinality(LiveOf(s)) : p[n] = i
              /\ \A m, n \in 1 .. Cardinality(LiveOf(s)) : m < n => p[m] < p[n]
  <1> DEFINE L == LiveOf(s)
             c == Cardinality(L)
             p == [n \in 1 .. c |-> Nth(L, n)]
  <1>1. Len(s) \in Nat /\ L \in SUBSET (1 .. Len(s)) /\ \A i \in L : s[i] \in E
    BY DEF LiveOf
  <1>2. Survivors(s) = [n \in 1 .. c |-> s[Nth(L, n)]]
    BY DEF Survivors
  <1> HIDE DEF L
  <1>3. c \in 0 .. Len(s)
    BY <1>1, FinitePositions
  <1>4. \A n \in 1 .. c : p[n] = Nth(L, n) /\ p[n] \in L /\ Rank(L, p[n]) = n
    BY <1>1, NthPosition
  <1>5. p \in [1 .. c -> L]
    BY <1>4
  <1>6. \A i \in L : Rank(L, i) \in 1 .. c /\ p[Rank(L, i)] = i
    BY <1>1, FinitePositions, NthPosition
  <1>7. ASSUME NEW m \in 1 .. c, NEW n \in 1 .. c, m < n
        PROVE  p[m] < p[n]
    <2>1. p[m] \in L /\ p[n] \in L /\ Rank(L, p[m]) = m /\ Rank(L, p[n]) = n
      BY <1>4
    <2> DEFINE x == p[m]
               y == p[n]
    <2>2. x \in L /\ y \in L /\ Rank(L, x) = m /\ Rank(L, y) = n
      BY <2>1
    <2> HIDE DEF x, y
    <2>3. \A i \in L : i \in 1 .. Len(s)
      BY <1>1
    <2>4. y < x => n < m
      BY <1>1, <2>2, RanksIncrease
    <2>5. x \in Nat /\ y \in Nat /\ m \in Nat /\ n \in Nat
      BY <1>1, <1>3, <2>2, <2>3
    <2>6. x < y
      BY <1>7, <2>2, <2>4, <2>5
    <2> QED
      BY <2>6 DEF x, y
  <1>8. Survivors(s) \in Seq(E) /\ Len(Survivors(s)) = c
    <2>1. \A n \in 1 .. c : s[Nth(L, n)] \in E
      BY <1>1, <1>4
    <2> HIDE DEF c
    <2> QED
      BY <1>2, <1>3, <2>1
  <1>9. \A n \in 1 .. c : Survivors(s)[n] = s[p[n]]
    BY <1>2, <1>4
  <1> HIDE DEF p
  <1>10. \E f \in [1 .. c -> L] :
           /\ \A n \in 1 .. c : Survivors(s)[n] = s[f[n]]
           /\ \A i \in L : \E n \in 1 .. c : f[n] = i
           /\ \A m, n \in 1 .. c : m < n => f[m] < f[n]
    BY <1>5, <1>6, <1>7, <1>9
  <1> QED
    BY <1>1, <1>3, <1>8, <1>10 DEF L

=============================================================================
