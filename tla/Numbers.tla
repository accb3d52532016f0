------------------------------ MODULE Numbers ------------------------------
(***************************************************************************)
(* Lemmas about natural numbers that the proofs about texts rest on: least  *)
(* and greatest ones, and recursion over the positions of a sequence.       *)
(***************************************************************************)
EXTENDS Integers, FiniteSetsExt, NaturalsInduction, WellFoundedInduction, TLAPS

-----------------------------------------------------------------------------
(* The least and the greatest of a set.                                     *)

\* A set of numbers that is not empty has a least one.
LEMMA LeastNat ==
  ASSUME NEW S \in SUBSET Nat, S # {}
  PROVE  \E m \in S : \A k \in S : m <= k
<1>1. PICK m \in S : \A k \in S : ~(<<k, m>> \in OpToRel(<, Nat))
  BY NatLessThanWellFounded, WFMin
<1>2. SUFFICES ASSUME NEW k \in S, ~(m <= k) PROVE FALSE
  OBVIOUS
<1>3. k < m /\ k \in Nat /\ m \in Nat
  BY <1>2
<1>4. <<k, m>> \in OpToRel(<, Nat)
  BY <1>3 DEF OpToRel
<1> QED BY <1>1, <1>4

\* A set of numbers up to a bound has both.
LEMMA Extremes ==
  ASSUME NEW n \in Nat, NEW S \in SUBSET (0 .. n), S # {}
  PROVE  /\ Min(S) \in S /\ \A k \in S : Min(S) <= k
         /\ Max(S) \in S /\ \A k \in S : Max(S) >= k
<1>1. \E m \in S : \A k \in S : m <= k
  <2>1. S \in SUBSET Nat
    OBVIOUS
  <2> QED BY <2>1, LeastNat
<1>2. \E m \in S : \A k \in S : m >= k
  <2> DEFINE R == {n - k : k \in S}
  <2>1. R \in SUBSET Nat /\ R # {}
    <3>1. PICK k \in S : TRUE
      OBVIOUS
    <3>2. n - k \in R
      BY <3>1
    <3>3. \A m \in S : n - m \in Nat
      OBVIOUS
    <3> QED BY <3>2, <3>3
  <2>2. PICK r \in R : \A k \in R : r <= k
    BY <2>1, LeastNat
  <2>3. PICK m \in S : r = n - m
    OBVIOUS
  <2>4. ASSUME NEW k \in S PROVE m >= k
    <3>1. n - k \in R
      OBVIOUS
    <3>2. n - m <= n - k
      BY <2>2, <2>3, <3>1
    <3>3. m \in Nat /\ k \in Nat
      OBVIOUS
    <3> QED BY <3>2, <3>3
  <2> QED BY <2>4
<1>3. Min(S) \in S /\ \A k \in S : Min(S) <= k
  BY <1>1 DEF Min
<1>4. Max(S) \in S /\ \A k \in S : Max(S) >= k
  BY <1>2 DEF Max
<1> QED BY <1>3, <1>4

-----------------------------------------------------------------------------
(* Recursion over the positions of a sequence, from its end.                *)

\* What holds of a position if it holds of all later ones holds of every one.
LEMMA DownInduction ==
  ASSUME NEW n \in Nat, NEW T,
         \A i \in 1 .. n : (\A k \in (i + 1) .. n : k \in T) => i \in T
  PROVE  \A i \in 1 .. n : i \in T
<1> DEFINE B == {i \in 1 .. n : i \notin T}
           M == {n - i : i \in B}
<1>1. SUFFICES ASSUME B # {} PROVE FALSE
  OBVIOUS
<1>2. M \subseteq Nat /\ M # {}
  BY <1>1
<1>3. PICK x \in M : \A y \in M : ~(<<y, x>> \in OpToRel(<, Nat))
  BY <1>2, NatLessThanWellFounded, WFMin
<1>4. PICK i \in B : x = n - i
  OBVIOUS
<1>5. \A k \in (i + 1) .. n : k \in T
  <2>1. SUFFICES ASSUME NEW k \in (i + 1) .. n, k \notin T PROVE FALSE
    OBVIOUS
  <2>2. k \in B /\ n - k \in M /\ n - k < x
    BY <2>1, <1>4
  <2>3. n - k \in Nat /\ x \in Nat
    BY <1>2, <2>2
  <2>4. <<n - k, x>> \in OpToRel(<, Nat)
    BY <2>2, <2>3 DEF OpToRel
  <2> QED BY <2>2, <2>4, <1>3
<1> QED BY <1>4, <1>5

\* A function on positions may be defined from its values at later ones.
FromLater(n, V) ==
  {F \in [[1 .. n -> V] -> [1 .. n -> V]] :
     \A g, h \in [1 .. n -> V] : \A i \in 1 .. n :
       (\A k \in (i + 1) .. n : g[k] = h[k]) => F[g][i] = F[h][i]}

LEMMA Recursion ==
  ASSUME NEW n \in Nat, NEW V, V # {}, NEW F \in FromLater(n, V)
  PROVE  \E f \in [1 .. n -> V] : f = F[f]
<1> USE DEF FromLater
<1>0. PICK v : v \in V
  OBVIOUS
<1> DEFINE D == 1 .. n
           Defined(g, i) == \A k \in i .. n : g[k] = F[g][k]
           T == {i \in D : \E g \in [D -> V] : Defined(g, i)}
<1>1. ASSUME NEW i \in D, NEW g \in [D -> V], Defined(g, i + 1)
      PROVE  i \in T
  <2> DEFINE h == [g EXCEPT ![i] = F[g][i]]
  <2>1. h \in [D -> V] /\ \A k \in (i + 1) .. n : h[k] = g[k]
    OBVIOUS
  <2>2. h[i] = F[g][i]
    OBVIOUS
  <2> HIDE DEF h
  <2>3. ASSUME NEW k \in i .. n PROVE h[k] = F[h][k]
    <3>1. k \in D /\ \A l \in (k + 1) .. n : h[l] = g[l]
      BY <2>1
    <3>2. F[h][k] = F[g][k]
      BY <2>1, <3>1
    <3>3. CASE k = i
      BY <2>2, <3>2, <3>3
    <3>4. CASE k # i
      <4>1. k \in (i + 1) .. n
        BY <3>4
      <4> QED BY <1>1, <2>1, <3>2, <4>1
    <3> QED BY <3>3, <3>4
  <2> QED BY <2>1, <2>3
<1>2. ASSUME NEW i \in D, \A k \in (i + 1) .. n : k \in T
      PROVE  i \in T
  <2>1. CASE i = n
    <3> DEFINE g == [k \in D |-> v]
    <3>1. g \in [D -> V] /\ Defined(g, i + 1)
      BY <1>0, <2>1
    <3> HIDE DEF g, T
    <3> QED BY <1>1, <3>1
  <2>2. CASE i # n
    <3>1. i + 1 \in T
      <4>1. i + 1 \in (i + 1) .. n
        BY <2>2
      <4> QED BY <1>2, <4>1
    <3>2. PICK g \in [D -> V] : Defined(g, i + 1)
      BY <3>1
    <3> QED BY <1>1, <3>2
  <2> QED BY <2>1, <2>2
<1>3. \A i \in D : i \in T
  <2> HIDE DEF T
  <2> QED BY <1>2, DownInduction
<1>4. CASE n = 0
  <2> DEFINE g == [k \in D |-> v]
  <2>1. g \in [D -> V] /\ F[g] \in [D -> V]
    BY <1>0
  <2>2. g = F[g]
    BY <1>4, <2>1
  <2> QED BY <2>1, <2>2
<1>5. CASE n # 0
  <2>0. 1 \in D
    BY <1>5
  <2>1. PICK g \in [D -> V] : Defined(g, 1)
    BY <1>3, <2>0
  <2>2. F[g] \in [D -> V]
    OBVIOUS
  <2>3. g = F[g]
    BY <2>1, <2>2
  <2> QED BY <2>3
<1> QED BY <1>4, <1>5
=============================================================================
