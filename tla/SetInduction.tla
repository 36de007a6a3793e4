---------------------------- MODULE SetInduction ----------------------------
(***************************************************************************)
(* Induction over the naturals for sets of naturals.  The theorems of      *)
(* NaturalsInduction have an operator as a parameter; stated for a set,    *)
(* the principle can be cited with {n \in Nat : ...}, and it follows from   *)
(* the existence of minimal elements (WFMin).                              *)
(***************************************************************************)
EXTENDS WellFoundedInduction, TLAPS

(* Every set of naturals that has an element has a least one. *)
LEMMA LeastElement ==
  ASSUME NEW T \in SUBSET Nat, T # {}
  PROVE  \E x \in T : \A y \in T : x <= y
<1>1. IsWellFoundedOn(OpToRel(<, Nat), Nat)
  BY NatLessThanWellFounded
<1>2. \E x \in T : \A y \in T : ~ (<<y, x>> \in OpToRel(<, Nat))
  BY <1>1, WFMin
<1>3. PICK x \in T : \A y \in T : ~ (<<y, x>> \in OpToRel(<, Nat))
  BY <1>2
<1>4. \A y \in T : ~ (y < x)
  BY <1>3 DEF OpToRel
<1>. QED BY <1>4

(* A set of naturals that has 0 and, with every n, n + 1 has them all. *)
LEMMA InductionOnSets ==
  ASSUME NEW G, 0 \in G, \A n \in Nat : n \in G => n + 1 \in G
  PROVE  Nat \subseteq G
<1>1. SUFFICES ASSUME Nat \ G # {} PROVE FALSE
  OBVIOUS
<1>2. PICK x \in Nat \ G : \A y \in Nat \ G : x <= y
  BY <1>1, LeastElement
<1>3. x - 1 \in Nat /\ ~ (x <= x - 1)
  BY <1>2
<1>4. x - 1 \in G
  BY <1>2, <1>3
<1>. QED BY <1>2, <1>3, <1>4

(* A set of naturals with a bound has a greatest element. *)
LEMMA GreatestElement ==
  ASSUME NEW T \in SUBSET Nat, T # {}, NEW b \in Nat, \A x \in T : x <= b
  PROVE  \E x \in T : \A y \in T : y <= x
<1>. DEFINE D == {d \in Nat : \E x \in T : d = b - x}
<1>1. D \in SUBSET Nat /\ \A x \in T : b - x \in D
  OBVIOUS
<1>2. PICK d \in D : \A e \in D : d <= e
  BY <1>1, LeastElement
<1>3. PICK x \in T : d = b - x
  BY <1>2
<1>4. \A y \in T : b - x <= b - y
  BY <1>1, <1>2, <1>3
<1>. QED BY <1>3, <1>4
=============================================================================
