------------------------------ MODULE Extremes ------------------------------
(***************************************************************************)
(* A nonempty set of naturals has a least element, and a greatest one if   *)
(* it is bounded: what a CHOOSE of an LSN rests on.                        *)
(***************************************************************************)
EXTENDS Integers, WellFoundedInduction, TLAPS

\* The least element.
LEMMA LeastNatural ==
    ASSUME NEW S \in SUBSET Nat, S # {}
    PROVE  \E m \in S : \A n \in S : m <= n
<1>1. PICK m \in S : \A n \in S : ~(<<n, m>> \in OpToRel(<, Nat))
  BY NatLessThanWellFounded, WFMin
<1>2. \A n \in S : ~(n < m)
  BY <1>1 DEF OpToRel
<1> QED
  BY <1>2

\* The greatest element.
LEMMA GreatestNatural ==
    ASSUME NEW S \in SUBSET Nat, S # {}, NEW bound \in Nat, \A n \in S : n <= bound
    PROVE  \E m \in S : \A n \in S : n <= m
<1> DEFINE D == {bound - n : n \in S}
<1>1. D \in SUBSET Nat
  OBVIOUS
<1>2. PICK d \in D : \A c \in D : d <= c
  <2>1. D # {}
    OBVIOUS
  <2> HIDE DEF D
  <2> QED
    BY <1>1, <2>1, LeastNatural
<1>3. PICK m \in S : d = bound - m
  BY <1>2
<1>4. \A n \in S : n <= m
  BY <1>2, <1>3
<1> QED
  BY <1>3, <1>4
=============================================================================
