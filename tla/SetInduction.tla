---------------------------- MODULE SetInduction ----------------------------
(***************************************************************************)
(* Induction over the natural numbers in the form the provers can use: the *)
(* property is a set of numbers, not an operator.                          *)
(***************************************************************************)
EXTENDS Naturals, WellFoundedInduction, TLAPS

(* A nonempty set of natural numbers has a least element.                  *)
LEMMA LeastElement ==
  ASSUME NEW T \in SUBSET Nat, T # {}
  PROVE  \E x \in T : \A y \in T : x <= y
<1> DEFINE R == {ss \in Nat \X Nat : ss[1] < ss[2]}
<1>1. IsWellFoundedOn(R, Nat)
  <2>1. OpToRel(<, Nat) = R
    BY Zenon DEF OpToRel
  <2> QED
    BY <2>1, NatLessThanWellFounded, Zenon
<1>2. \A x, y \in Nat : y < x => <<y, x>> \in R
  OBVIOUS
<1> HIDE DEF R
<1>3. PICK x \in T : \A y \in T : <<y, x>> \notin R
  BY <1>1, WFMin, Zenon
<1>4. \A y \in T : ~(y < x)
  BY <1>2, <1>3
<1> QED
  BY <1>4

(* A set that holds 0 and, with every number below the bound, the next     *)
(* one, holds every number up to the bound.                                *)
LEMMA IntervalInduction ==
  ASSUME NEW N \in Nat, NEW T, 0 \in T,
         \A n \in 1..N : n - 1 \in T => n \in T
  PROVE  \A n \in 0..N : n \in T
<1> SUFFICES ASSUME NEW m \in 0..N, m \notin T
             PROVE  FALSE
  OBVIOUS
<1> DEFINE B == {n \in 0..N : n \notin T}
<1>1. B \in SUBSET Nat /\ m \in B
  OBVIOUS
<1>2. PICK x \in B : \A y \in B : x <= y
  BY <1>1, LeastElement
<1>3. x \in 1..N /\ x - 1 \in 0..N /\ ~(x <= x - 1)
  BY <1>2
<1>4. x - 1 \notin B
  BY <1>2, <1>3
<1> QED
  BY <1>2, <1>3, <1>4

(* A nonempty set of numbers up to a bound has a greatest element.         *)
LEMMA GreatestElement ==
  ASSUME NEW N \in Nat, NEW T \in SUBSET (0..N), T # {}
  PROVE  \E x \in T : \A y \in T : y <= x
<1> DEFINE M == {N - x : x \in T}
<1>1. M \in SUBSET Nat /\ M # {}
  OBVIOUS
<1>2. PICK m \in M : \A k \in M : m <= k
  BY <1>1, LeastElement
<1>3. PICK x \in T : m = N - x
  BY <1>2
<1>4. ASSUME NEW y \in T PROVE y <= x
  <2>1. N - y \in M
    OBVIOUS
  <2>2. N - x <= N - y
    BY <1>2, <1>3, <2>1
  <2> QED
    BY <2>2
<1> QED
  BY <1>4

=============================================================================
