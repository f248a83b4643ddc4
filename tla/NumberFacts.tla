----------------------------- MODULE NumberFacts ----------------------------
(***************************************************************************)
(* Least and greatest elements of sets of numbers, and induction over the  *)
(* numbers in a set.  The induction rules of the library take an operator, *)
(* which the provers cannot instantiate; that the numbers are well founded *)
(* is a fact about sets, and says as much.                                 *)
(***************************************************************************)
EXTENDS Integers, FiniteSetsExt, WellFoundedInduction, TLAPS

(* Any set of numbers has a least element.                                 *)
LEMMA LeastNat ==
  ASSUME NEW S \in SUBSET Nat, S # {}
  PROVE  \E m \in S : \A n \in S : m <= n
<1> DEFINE R == OpToRel(<, Nat)
<1>1. IsWellFoundedOn(R, Nat)
  BY NatLessThanWellFounded
<1>2. \A x, y \in Nat : x < y => <<x, y>> \in R
  BY DEF OpToRel
<1> HIDE DEF R
<1>3. PICK m \in S : \A n \in S : ~(<<n, m>> \in R)
  BY <1>1, WFMin
<1>4. \A n \in S : n \in Nat /\ m \in Nat
  OBVIOUS
<1>5. \A n \in S : ~(n < m)
  BY <1>2, <1>3, <1>4, Zenon
<1> QED
  BY <1>4, <1>5

(* A bounded one also has a greatest.                                      *)
LEMMA GreatestNat ==
  ASSUME NEW n \in Nat, NEW S \in SUBSET (0..n), S # {}
  PROVE  \E m \in S : \A k \in S : k <= m
<1> DEFINE T == {j \in Nat : n - j \in S}
<1>1. PICK x \in S : TRUE
  OBVIOUS
<1>2. n - x \in Nat /\ n - (n - x) = x
  BY <1>1
<1>3. T \in SUBSET Nat /\ T # {}
  BY <1>1, <1>2
<1>4. PICK j \in T : \A i \in T : j <= i
  BY <1>3, LeastNat
<1>5. ASSUME NEW k \in S PROVE k <= n - j
  <2>1. k \in 0..n /\ n - k \in Nat /\ n - (n - k) = k
    OBVIOUS
  <2>2. n - k \in T
    BY <2>1
  <2>3. j <= n - k /\ j \in Nat
    BY <1>4, <2>2
  <2> QED
    BY <2>1, <2>3
<1>6. n - j \in S
  BY <1>4
<1> QED
  BY <1>5, <1>6

(* What Min and Max of the community modules are.                          *)
LEMMA MinIsLeast ==
  ASSUME NEW S \in SUBSET Int, NEW i \in S, \A j \in S : i <= j
  PROVE  Min(S) = i
<1>1. Min(S) \in S /\ \A j \in S : Min(S) <= j
  BY Zenon DEF Min
<1>2. i \in Int /\ Min(S) \in Int /\ i <= Min(S) /\ Min(S) <= i
  BY <1>1
<1> QED
  BY <1>2

LEMMA MaxIsGreatest ==
  ASSUME NEW S \in SUBSET Int, NEW i \in S, \A j \in S : j <= i
  PROVE  Max(S) = i
<1>1. \A j \in S : i >= j
  OBVIOUS
<1>2. Max(S) \in S /\ \A j \in S : Max(S) >= j
  BY <1>1, Zenon DEF Max
<1>3. i \in Int /\ Max(S) \in Int /\ i <= Max(S) /\ Max(S) <= i
  BY <1>2
<1> QED
  BY <1>3

(* A set of numbers that has 0, and with a number the one behind it, has   *)
(* them all.                                                               *)
LEMMA SetInduction ==
  ASSUME NEW S, 0 \in S, \A n \in Nat : n \in S => n + 1 \in S
  PROVE  \A n \in Nat : n \in S
<1> SUFFICES ASSUME Nat \ S # {} PROVE FALSE
  OBVIOUS
<1>1. PICK m \in Nat \ S : \A n \in Nat \ S : m <= n
  <2> DEFINE T == Nat \ S
  <2>1. T \in SUBSET Nat /\ T # {}
    OBVIOUS
  <2> HIDE DEF T
  <2>2. \E m \in T : \A n \in T : m <= n
    BY <2>1, LeastNat
  <2> QED
    BY <2>2 DEF T
<1>2. m - 1 \in Nat /\ m - 1 < m /\ (m - 1) + 1 = m
  BY <1>1
<1>3. m - 1 \in S
  BY <1>1, <1>2
<1> QED
  BY <1>1, <1>2, <1>3
=============================================================================
