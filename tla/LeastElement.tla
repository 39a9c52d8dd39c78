--------------------------- MODULE LeastElement ----------------------------
(***************************************************************************)
(* The least-element principles the proofs of this project use in place of *)
(* induction: a nonempty set of naturals has a least element, and in a     *)
(* nonempty finite set some element has the largest value of a function.   *)
(***************************************************************************)
EXTENDS FiniteSetTheorems, TLAPS

\* The order of the naturals as a well-founded relation.
LEMMA NatOrderWellFounded ==
    IsWellFoundedOn({pair \in Nat \X Nat : pair[1] < pair[2]}, Nat)
<1>1. OpToRel(<, Nat) = {pair \in Nat \X Nat : pair[1] < pair[2]}
  BY DEF OpToRel
<1>. QED  BY <1>1, NatLessThanWellFounded

\* A nonempty set of naturals has a least element.
THEOREM LeastNatural ==
    ASSUME NEW T \in SUBSET Nat, T # {}
    PROVE  \E x \in T : \A y \in T : x <= y
<1>. DEFINE R == {pair \in Nat \X Nat : pair[1] < pair[2]}
<1>1. IsWellFoundedOn(R, Nat)
  BY NatOrderWellFounded
<1>2. ASSUME NEW x \in Nat, NEW y \in Nat, <<y, x>> \notin R
      PROVE  x <= y
  <2>1. ~(y < x)
    BY <1>2
  <2>. QED  BY <2>1
<1>. HIDE DEF R
<1>3. PICK x \in T : \A y \in T : ~(<<y, x>> \in R)
  BY <1>1, WFMin, Zenon
<1>4. \A y \in T : x <= y
  BY <1>2, <1>3
<1>. QED  BY <1>4

(* Some element of a finite set has the largest value: the one with the    *)
(* fewest elements above it.                                               *)
THEOREM LargestValue ==
    ASSUME NEW S, IsFiniteSet(S), S # {}, NEW f \in [S -> Nat]
    PROVE  \E x \in S : \A y \in S : f[y] <= f[x]
<1>. DEFINE Above(x) == {y \in S : f[y] > f[x]}
            n == [x \in S |-> Cardinality(Above(x))]
            T == {n[x] : x \in S}
<1>1. \A x \in S : IsFiniteSet(Above(x)) /\ Cardinality(Above(x)) \in Nat
  BY FS_Subset, FS_CardinalityType
<1>2. T \in SUBSET Nat /\ T # {}
  BY <1>1
<1>3. PICK x \in S : \A y \in S : n[x] <= n[y]
  <2>. HIDE DEF n
  <2>1. PICK t \in T : \A u \in T : t <= u
    BY <1>2, LeastNatural
  <2>2. PICK x \in S : t = n[x]
    OBVIOUS
  <2>. QED  BY <2>1, <2>2
<1>4. ASSUME NEW y \in S, f[y] > f[x] PROVE FALSE
  <2>1. Above(y) \subseteq Above(x)
    BY <1>4
  <2>2. y \in Above(x) /\ y \notin Above(y)
    BY <1>4
  <2>3. Cardinality(Above(y)) <= Cardinality(Above(x)) /\ Cardinality(Above(y)) # Cardinality(Above(x))
    <3>. HIDE DEF Above
    <3>. QED  BY <1>1, <2>1, <2>2, FS_Subset
  <2>4. Cardinality(Above(x)) <= Cardinality(Above(y))
    BY <1>3
  <2>. QED
    <3>. HIDE DEF Above
    <3>. QED  BY <1>1, <2>3, <2>4
<1>. QED  BY <1>4
=============================================================================
