---------------------------- MODULE SetInduction ----------------------------
(***************************************************************************)
(* Induction over the natural numbers, stated about a set instead of a     *)
(* predicate: the provers cannot instantiate the P(_) of NatInduction, but *)
(* they can be given the set of the numbers for which P holds.  With it,   *)
(* that sets of numbers have a least and a greatest element.               *)
(***************************************************************************)
EXTENDS Integers, WellFoundedInduction, TLAPS

(* A set that holds 0, and with a number the next one, holds them all.      *)
LEMMA NatInd ==
    ASSUME NEW T \in SUBSET Nat, 0 \in T, \A n \in T : n + 1 \in T
    PROVE  T = Nat
<1> SUFFICES ASSUME T # Nat PROVE FALSE
  OBVIOUS
<1> DEFINE R == OpToRel(<, Nat)
<1>1. IsWellFoundedOn(R, Nat)
  BY NatLessThanWellFounded
<1>2. \A x, y \in Nat : y < x => <<y, x>> \in R
  BY DEF OpToRel
<1>3. Nat \ T # {} /\ Nat \ T \subseteq Nat
  OBVIOUS
<1> HIDE DEF R
<1>4. PICK x \in Nat \ T : \A y \in Nat \ T : <<y, x>> \notin R
  BY <1>1, <1>3, WFMin
<1>5. x # 0 /\ x - 1 \in Nat /\ x - 1 < x /\ (x - 1) + 1 = x
  OBVIOUS
<1> QED BY <1>2, <1>4, <1>5

(* A set of natural numbers has a least element.                            *)
LEMMA Least ==
    ASSUME NEW S \in SUBSET Nat, S # {}
    PROVE  \E x \in S : \A y \in S : x <= y
<1> DEFINE D == {n \in Nat : \A m \in 0 .. n : m \notin S}
<1> SUFFICES ASSUME ~ \E x \in S : \A y \in S : x <= y PROVE FALSE
  OBVIOUS
<1>1. 0 \in D
  <2>1. 0 .. 0 = {0} /\ \A y \in S : 0 <= y
    OBVIOUS
  <2> QED BY <2>1
<1>2. ASSUME NEW n \in D PROVE n + 1 \in D
  <2>1. n \in Nat /\ \A m \in 0 .. n : m \notin S
    BY <1>2
  <2>2. \A y \in S : n + 1 <= y
    BY <2>1
  <2>3. n + 1 \notin S
    BY <2>2
  <2> QED BY <2>1, <2>3
<1>3. D = Nat
  <2> HIDE DEF D
  <2>1. D \in SUBSET Nat
    BY DEF D
  <2> QED BY <1>1, <1>2, <2>1, NatInd
<1>4. PICK x \in S : TRUE
  OBVIOUS
<1>5. x \in D /\ x \in 0 .. x
  BY <1>3
<1> QED BY <1>5

(* A bounded set of natural numbers has a greatest element.                 *)
LEMMA Greatest ==
    ASSUME NEW n \in Nat, NEW S \in SUBSET (0 .. n), S # {}
    PROVE  \E x \in S : \A y \in S : x >= y
<1> DEFINE R == {n - x : x \in S}
<1>1. R \in SUBSET Nat /\ R # {}
  <2>1. ASSUME NEW x \in S PROVE n - x \in Nat
    BY <2>1
  <2>2. PICK x \in S : TRUE
    OBVIOUS
  <2>3. n - x \in R
    BY <2>2
  <2>4. \A r \in R : \E y \in S : r = n - y
    OBVIOUS
  <2> HIDE DEF R
  <2> QED BY <2>1, <2>3, <2>4
<1>2. PICK r \in R : \A y \in R : r <= y
  <2> HIDE DEF R
  <2> QED BY <1>1, Least
<1>3. PICK x \in S : r = n - x
  BY <1>2
<1>4. ASSUME NEW y \in S PROVE x >= y
  <2>1. n - y \in R
    BY <1>4
  <2>2. n - x <= n - y
    BY <1>2, <1>3, <2>1
  <2> QED BY <1>3, <1>4, <2>2
<1> QED BY <1>3, <1>4
=============================================================================
