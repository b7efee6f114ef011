------------------------------ MODULE RankProofs ------------------------------
(***************************************************************************)
(* Sorting and counting: what the proofs need of the first element of a     *)
(* sort and of the rows of a listing.                                       *)
(***************************************************************************)
EXTENDS Integers, FiniteSetTheorems, WellFoundedInduction, TLAPS

\* A measure on a non-empty set has a least value.
LEMMA LeastExists ==
  ASSUME NEW S, S # {}, NEW f, \A i \in S : f[i] \in Nat
  PROVE  \E i \in S : \A k \in S : f[i] <= f[k]
<1> DEFINE Values == {f[i] : i \in S}
<1>1. Values \in SUBSET Nat /\ Values # {}
  OBVIOUS
<1>2. \E n \in Values : \A m \in Values : n <= m
  <2> DEFINE R == OpToRel(<, Nat)
  <2>1. \A x, y \in Nat : x < y => <<x, y>> \in R
    BY SMTT(30) DEF OpToRel
  <2>2. IsWellFoundedOn(R, Nat)
    BY NatLessThanWellFounded
  <2> HIDE DEF Values, R
  <2>3. PICK n \in Values : \A m \in Values : ~(<<m, n>> \in R)
    BY <1>1, <2>2, WFMin
  <2>4. ASSUME NEW m \in Values PROVE n <= m
    <3>1. m \in Nat /\ n \in Nat
      BY <1>1
    <3>2. ~(m < n)
      BY <2>1, <2>3, <3>1, Zenon
    <3> QED BY <3>1, <3>2, SMT
  <2> QED BY <2>4
<1> QED BY <1>2

\* Two different members make a set of at least two.
LEMMA TwoMembers ==
  ASSUME NEW S, IsFiniteSet(S), NEW x \in S, NEW y \in S, x # y
  PROVE  Cardinality(S) \in Nat /\ Cardinality(S) >= 2
<1>1. IsFiniteSet({x}) /\ Cardinality({x}) = 1
  BY FS_Singleton
<1>2. IsFiniteSet({x} \cup {y}) /\ Cardinality({x} \cup {y}) = 1 + 1
  BY <1>1, FS_AddElement
<1>3. Cardinality({x} \cup {y}) <= Cardinality(S)
  BY FS_Subset
<1> QED BY SMTT(20), <1>2, <1>3, FS_CardinalityType

\* The sizes of two sets without a common member add up.
LEMMA DisjointUnion ==
  ASSUME NEW S, NEW T, IsFiniteSet(S), IsFiniteSet(T), S \cap T = {}
  PROVE  /\ IsFiniteSet(S \cup T)
         /\ Cardinality(S) \in Nat /\ Cardinality(T) \in Nat
         /\ Cardinality(S \cup T) = Cardinality(S) + Cardinality(T)
<1>1. Cardinality(S \cap T) = 0
  BY FS_EmptySet
<1>2. Cardinality(S) \in Nat /\ Cardinality(T) \in Nat
  BY FS_CardinalityType
<1>3. /\ IsFiniteSet(S \cup T)
      /\ Cardinality(S \cup T) = Cardinality(S) + Cardinality(T) - Cardinality(S \cap T)
  BY FS_Union, Zenon
<1> QED BY <1>1, <1>2, <1>3

-----------------------------------------------------------------------------
(* Listings: P[c] is the set of the rows that a sort puts before c, and the   *)
(* number of them is its position.                                            *)

Sorted(S, P) ==
  /\ P \in [S -> SUBSET S]
  /\ \A c \in S : c \notin P[c]
  /\ \A c, d \in S : c = d \/ c \in P[d] \/ d \in P[c]
  /\ \A c, d \in S : c \in P[d] => P[c] \subseteq P[d]
Leading(S, P, k) == {c \in S : Cardinality(P[c]) < k}

LEMMA PositionType ==
  ASSUME NEW S, IsFiniteSet(S), NEW P, Sorted(S, P)
  PROVE  /\ \A c \in S : IsFiniteSet(P[c]) /\ Cardinality(P[c]) \in Nat
         /\ \A k : IsFiniteSet(Leading(S, P, k)) /\ Cardinality(Leading(S, P, k)) \in Nat
<1>1. ASSUME NEW c \in S PROVE IsFiniteSet(P[c]) /\ Cardinality(P[c]) \in Nat
  <2>1. P[c] \subseteq S
    BY DEF Sorted
  <2> QED BY <2>1, FS_Subset, FS_CardinalityType
<1>2. ASSUME NEW k PROVE IsFiniteSet(Leading(S, P, k)) /\ Cardinality(Leading(S, P, k)) \in Nat
  <2>1. Leading(S, P, k) \subseteq S
    BY DEF Leading
  <2> QED BY <2>1, FS_Subset, FS_CardinalityType
<1> QED BY <1>1, <1>2

\* A row comes later in the sort when the rows before it are more.
LEMMA PositionGrows ==
  ASSUME NEW S, IsFiniteSet(S), NEW P, Sorted(S, P), NEW c \in S, NEW d \in S, c \in P[d]
  PROVE  Cardinality(P[c]) < Cardinality(P[d])
<1>1. P[c] \subseteq P[d] /\ c \notin P[c]
  BY DEF Sorted
<1>2. IsFiniteSet(P[d]) /\ Cardinality(P[c]) \in Nat /\ Cardinality(P[d]) \in Nat
  BY PositionType
<1>3. Cardinality(P[c]) <= Cardinality(P[d])
  BY <1>1, <1>2, FS_Subset
<1>4. Cardinality(P[c]) # Cardinality(P[d])
  BY <1>1, <1>2, FS_Subset
<1> QED BY <1>2, <1>3, <1>4

\* No more than k rows have a position below k.
LEMMA FirstAtMost ==
  ASSUME NEW S, IsFiniteSet(S), NEW P, Sorted(S, P), NEW k \in Nat
  PROVE  Cardinality(Leading(S, P, k)) <= k
<1> DEFINE L == Leading(S, P, k)
           f == [c \in L |-> k - Cardinality(P[c])]
<1>1. CASE L = {}
  BY <1>1, FS_EmptySet
<1>2. CASE L # {}
  <2>1. \A c \in L : c \in S /\ Cardinality(P[c]) \in Nat /\ Cardinality(P[c]) < k
    BY PositionType DEF Leading
  <2>2. \A c \in L : f[c] \in Nat
    BY <2>1
  <2>3. \E m \in L : \A c \in L : f[m] <= f[c]
    <3> HIDE DEF f, L
    <3> QED BY <1>2, <2>2, LeastExists
  <2>4. PICK m \in L : \A c \in L : Cardinality(P[c]) <= Cardinality(P[m])
    BY <2>1, <2>3
  <2>5. ASSUME NEW c \in L, c # m PROVE c \in P[m]
    <3>1. c \in P[m] \/ m \in P[c]
      BY <2>1, <2>5 DEF Sorted
    <3>2. CASE m \in P[c]
      BY <2>1, <2>4, <3>2, PositionGrows
    <3> QED BY <3>1, <3>2
  <2>6. L \subseteq P[m] \cup {m}
    BY <2>5
  <2>7. IsFiniteSet(P[m]) /\ Cardinality(P[m]) \in Nat /\ m \notin P[m]
    BY <2>1, PositionType DEF Sorted
  <2>8. IsFiniteSet(P[m] \cup {m}) /\ Cardinality(P[m] \cup {m}) = Cardinality(P[m]) + 1
    BY <2>7, FS_AddElement
  <2>9. Cardinality(L) <= Cardinality(P[m]) + 1
    BY <2>6, <2>8, FS_Subset
  <2>10. Cardinality(L) \in Nat
    BY PositionType
  <2> QED BY <2>1, <2>7, <2>9, <2>10
<1> QED BY <1>1, <1>2

\* Positions have no gaps: where a row has position k or more, one has position k and
\* exactly k rows are before it.
LEMMA FirstAtLeast ==
  ASSUME NEW S, IsFiniteSet(S), NEW P, Sorted(S, P), NEW k \in Nat, Leading(S, P, k) # S
  PROVE  /\ Cardinality(Leading(S, P, k)) = k
         /\ \E m \in S : Cardinality(P[m]) = k
<1> DEFINE R == S \ Leading(S, P, k)
           f == [c \in R |-> Cardinality(P[c])]
<1>1. \A c \in R : c \in S /\ f[c] \in Nat /\ f[c] = Cardinality(P[c]) /\ k <= f[c]
  BY PositionType DEF Leading
<1>2. R # {}
  BY DEF Leading
<1>3. \E m \in R : \A c \in R : f[m] <= f[c]
  <2> HIDE DEF f, R
  <2> QED BY <1>1, <1>2, LeastExists
<1>4. PICK m \in R : \A c \in R : Cardinality(P[m]) <= Cardinality(P[c])
  BY <1>1, <1>3
<1>5. P[m] \subseteq S
  BY <1>1 DEF Sorted
<1>6. ASSUME NEW c \in P[m] PROVE c \in Leading(S, P, k)
  <2>1. c \in S /\ Cardinality(P[c]) < Cardinality(P[m])
    BY <1>1, <1>5, PositionGrows
  <2>2. c \notin R
    BY <1>1, <1>4, <2>1
  <2> QED BY <2>1, <2>2
<1>7. Cardinality(P[m]) <= Cardinality(Leading(S, P, k))
  BY <1>6, PositionType, FS_Subset
<1> QED BY <1>1, <1>7, FirstAtMost, PositionType

\* What is left after the first k rows.
LEMMA RestAtMost ==
  ASSUME NEW S, IsFiniteSet(S), NEW P, Sorted(S, P), NEW k \in Nat, Leading(S, P, k) # S
  PROVE  /\ Cardinality(S) \in Nat /\ Cardinality(S \ Leading(S, P, k)) \in Nat
         /\ Cardinality(S \ Leading(S, P, k)) + k = Cardinality(S)
<1>1. S = Leading(S, P, k) \cup (S \ Leading(S, P, k))
  BY DEF Leading
<1>2. IsFiniteSet(S \ Leading(S, P, k))
  BY FS_Subset
<1>3. Cardinality(S) = Cardinality(Leading(S, P, k)) + Cardinality(S \ Leading(S, P, k))
  BY <1>1, <1>2, PositionType, DisjointUnion
<1> QED BY <1>2, <1>3, FirstAtLeast, FS_CardinalityType

\* When rows leave a listing, no more rows than left can move to a place among the first k;
\* the rows that come in only move others back.
LEMMA Departures ==
  ASSUME NEW S, IsFiniteSet(S), NEW P, Sorted(S, P),
         NEW T, IsFiniteSet(T), NEW Q, Sorted(T, Q), NEW k \in Nat,
         \A c \in S \cap T : P[c] \cap T \subseteq Q[c]
  PROVE  LET moved == (Leading(T, Q, k) \cap S) \ Leading(S, P, k)
         IN  Cardinality(moved) <= Cardinality(S \ T)
<1> DEFINE K == S \cap T
           O == [c \in K |-> P[c] \cap T]
           moved == (Leading(T, Q, k) \cap S) \ Leading(S, P, k)
           kept == Leading(S, P, k) \cap T
           gone == Leading(S, P, k) \ T
<1>1. IsFiniteSet(K) /\ IsFiniteSet(S \ T)
  BY FS_Subset
<1>2. Sorted(K, O)
  <2>1. O \in [K -> SUBSET K]
    BY DEF Sorted
  <2>2. \A c \in K : c \notin O[c]
    BY DEF Sorted
  <2>3. \A c, d \in K : c = d \/ c \in O[d] \/ d \in O[c]
    BY DEF Sorted
  <2>4. \A c, d \in K : c \in O[d] => O[c] \subseteq O[d]
    BY DEF Sorted
  <2> HIDE DEF O, K
  <2> QED BY <2>1, <2>2, <2>3, <2>4 DEF Sorted
<1>3. \A c \in K : O[c] = P[c] \cap T
  OBVIOUS
<1>4. ASSUME NEW c \in K, NEW A, IsFiniteSet(A), O[c] \subseteq A, Cardinality(A) < k
      PROVE  c \in Leading(K, O, k)
  <2> HIDE DEF O
  <2>1. Cardinality(O[c]) <= Cardinality(A) /\ Cardinality(A) \in Nat
    BY <1>4, FS_Subset, FS_CardinalityType
  <2>2. Cardinality(O[c]) \in Nat
    BY <1>1, <1>2, PositionType
  <2> QED BY <1>4, <2>1, <2>2 DEF Leading
<1>5. moved \subseteq Leading(K, O, k)
  <2> SUFFICES ASSUME NEW c \in moved PROVE c \in Leading(K, O, k)
    OBVIOUS
  <2>1. c \in K /\ c \in T /\ Cardinality(Q[c]) < k
    BY DEF Leading
  <2>2. IsFiniteSet(Q[c]) /\ O[c] \subseteq Q[c]
    BY <2>1, PositionType
  <2> QED BY <1>4, <2>1, <2>2
<1>6. kept \subseteq Leading(K, O, k)
  <2> SUFFICES ASSUME NEW c \in kept PROVE c \in Leading(K, O, k)
    OBVIOUS
  <2>1. c \in K /\ c \in S /\ Cardinality(P[c]) < k
    BY DEF Leading
  <2>2. IsFiniteSet(P[c]) /\ O[c] \subseteq P[c]
    BY <2>1, PositionType
  <2> QED BY <1>4, <2>1, <2>2
<1>7. CASE moved = {}
  BY SMTT(20), <1>1, <1>7, FS_EmptySet, FS_CardinalityType
<1>8. CASE moved # {}
  <2>1. Leading(S, P, k) # S
    BY <1>8
  <2>2. IsFiniteSet(Leading(S, P, k)) /\ Cardinality(Leading(S, P, k)) = k
    BY <2>1, FirstAtLeast, PositionType
  <2>3. IsFiniteSet(Leading(K, O, k)) /\ Cardinality(Leading(K, O, k)) <= k
        /\ Cardinality(Leading(K, O, k)) \in Nat
    <3> HIDE DEF O, K
    <3> QED BY <1>1, <1>2, FirstAtMost, PositionType
  <2>4. IsFiniteSet(moved) /\ IsFiniteSet(kept) /\ moved \cap kept = {}
        /\ IsFiniteSet(gone) /\ gone \cap kept = {}
    BY <2>2, <2>3, <1>5, FS_Subset
  <2>5. Leading(S, P, k) = gone \cup kept
    OBVIOUS
  <2>6. /\ Cardinality(moved) \in Nat /\ Cardinality(kept) \in Nat /\ Cardinality(gone) \in Nat
        /\ Cardinality(moved \cup kept) = Cardinality(moved) + Cardinality(kept)
        /\ Cardinality(gone \cup kept) = Cardinality(gone) + Cardinality(kept)
    <3> HIDE DEF moved, kept, gone
    <3> QED BY <2>4, DisjointUnion
  <2>7. Cardinality(moved \cup kept) <= Cardinality(Leading(K, O, k))
    <3>1. moved \cup kept \subseteq Leading(K, O, k)
      BY <1>5, <1>6
    <3> HIDE DEF moved, kept
    <3> QED BY <2>3, <3>1, FS_Subset
  <2>8. Cardinality(gone) <= Cardinality(S \ T)
    <3>1. gone \subseteq S \ T
      BY DEF Leading
    <3> HIDE DEF gone
    <3> QED BY <1>1, <3>1, FS_Subset
  <2>9. Cardinality(S \ T) \in Nat
    BY <1>1, FS_CardinalityType
  <2>10. Cardinality(moved) <= Cardinality(S \ T)
    <3> HIDE DEF moved, kept, gone, K, O
    <3> QED BY <2>2, <2>3, <2>5, <2>6, <2>7, <2>8, <2>9
  <2> QED BY <2>10
<1> QED BY <1>7, <1>8
==============================================================================
