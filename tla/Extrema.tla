------------------------------- MODULE Extrema --------------------------------
(***************************************************************************)
(* Max and Min of the community modules, which are CHOOSEs: that they name *)
(* a greatest and a least element of a bounded set of integers.            *)
(***************************************************************************)
EXTENDS Integers, FiniteSetsExt, WellFoundedInduction, TLAPS

\* A set of natural numbers with a member has a least one.
LEMMA LeastExists ==
    ASSUME NEW S, S \subseteq Nat, S # {}
    PROVE  \E m \in S : \A k \in S : m <= k
<1> DEFINE R == OpToRel(<, Nat)
<1>1. IsWellFoundedOn(R, Nat)
  BY NatLessThanWellFounded
<1>2. \A x, y \in Nat : y < x => <<y, x>> \in R
  BY DEF OpToRel
<1> HIDE DEF R
<1>3. \E x \in S : \A y \in S : <<y, x>> \notin R
  BY <1>1, WFMin, Zenon
<1>4. PICK x \in S : \A y \in S : <<y, x>> \notin R
  BY <1>3
<1>5. ASSUME NEW y \in S PROVE x <= y
  <2>1. <<y, x>> \notin R
    BY <1>4
  <2>2. ~(y < x)
    BY <1>2, <2>1, Zenon
  <2> QED  BY <2>2
<1> QED  BY <1>5

\* A bounded set of natural numbers with a member has a greatest one.
LEMMA GreatestExists ==
    ASSUME NEW S, S \subseteq Nat, S # {}, NEW b \in Nat, \A k \in S : k <= b
    PROVE  \E m \in S : \A k \in S : m >= k
<1> DEFINE T == {m \in Nat : \E k \in S : m = b - k}
<1>1. \A k \in S : b - k \in T
  OBVIOUS
<1>2. T \subseteq Nat /\ T # {}
  BY <1>1
<1>3. PICK n \in S : b - n \in T /\ \A m \in T : b - n <= m
  <2> HIDE DEF T
  <2>1. PICK m \in T : \A k \in T : m <= k
    BY <1>2, LeastExists
  <2> QED  BY <2>1 DEF T
<1>5. ASSUME NEW k \in S PROVE n >= k
  <2>1. b - n <= b - k
    BY <1>1, <1>3
  <2> QED  BY <2>1
<1> QED  BY <1>3, <1>5

\* Min(S) is in S and no member of S is less.
LEMMA MinIsLeast ==
    ASSUME NEW S, S \subseteq Nat, S # {}
    PROVE  Min(S) \in S /\ \A k \in S : Min(S) <= k
<1>1. \E m \in S : \A k \in S : m <= k
  BY LeastExists
<1> QED  BY <1>1, Zenon DEF Min

\* Max(S) is in S and no member of S is greater.
LEMMA MaxIsGreatest ==
    ASSUME NEW S, S \subseteq Nat, S # {}, NEW b \in Nat, \A k \in S : k <= b
    PROVE  Max(S) \in S /\ \A k \in S : Max(S) >= k
<1>1. \E m \in S : \A k \in S : m >= k
  BY GreatestExists
<1> QED  BY <1>1, Zenon DEF Max
===============================================================================
