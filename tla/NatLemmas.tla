----------------------------- MODULE NatLemmas -----------------------------
(***************************************************************************)
(* What the proofs need of the natural numbers: a set of them that is not  *)
(* empty has a least element, which is what Min picks.  Induction is the   *)
(* same fact, used for the set of counterexamples.                         *)
(***************************************************************************)
EXTENDS Integers, FiniteSetsExt, WellFoundedInduction, TLAPS

(* The order of the naturals is well founded, for sets. *)
LEMMA LeastElement ==
  ASSUME NEW S \in SUBSET Nat, S # {}
  PROVE  \E m \in S : \A k \in S : m <= k
<1>1. PICK m \in S : \A k \in S : ~(<<k, m>> \in OpToRel(<, Nat))
  BY NatLessThanWellFounded, WFMin
<1>2. \A k \in S : ~(k < m)
  BY <1>1 DEF OpToRel
<1> QED BY <1>2

(* kzalloc's choice, Min, is a block of the set and the lowest one. *)
LEMMA MinIsLeast ==
  ASSUME NEW S \in SUBSET Nat, S # {}
  PROVE  Min(S) \in S /\ \A k \in S : Min(S) <= k
  BY LeastElement DEF Min

(* What holds of 0, and of n + 1 when it holds of n, holds up to any bound. *)
LEMMA InductionUpTo ==
  ASSUME NEW S, NEW b \in Nat,
         0 \in S,
         \A n \in 0..(b - 1) : n \in S => n + 1 \in S
  PROVE  0..b \subseteq S
<1> DEFINE bad == (0..b) \ S
<1> SUFFICES ASSUME bad # {} PROVE FALSE
  OBVIOUS
<1>1. bad \in SUBSET Nat
  OBVIOUS
<1>2. PICK m \in bad : \A k \in bad : m <= k
  <2> HIDE DEF bad
  <2> QED BY <1>1, LeastElement
<1>3. m - 1 \in 0..(b - 1) /\ m - 1 \notin bad
  BY <1>2
<1> QED BY <1>2, <1>3
=============================================================================
