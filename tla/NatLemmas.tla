------------------------------ MODULE NatLemmas ------------------------------
(***************************************************************************)
(* What the proofs about the DHT and about paths need of the naturals.     *)
(***************************************************************************)
EXTENDS Integers, WellFoundedInduction, TLAPS

\* The naturals are well founded; stated with a relation the provers can read.
Less == {ss \in Nat \X Nat : ss[1] < ss[2]}

\* A set of naturals that is not empty has a least element.
LEMMA LeastNat ==
    ASSUME NEW T \in SUBSET Nat, T # {}
    PROVE  \E x \in T : \A y \in T : x <= y
<1>1. IsWellFoundedOn(Less, Nat)
  BY NatLessThanWellFounded DEF Less, OpToRel
<1>2. PICK x \in T : \A y \in T : <<y, x>> \notin Less
  BY <1>1, WFMin
<1>3. \A y \in T : ~(y < x)
  BY <1>2 DEF Less
<1> QED
  BY <1>3
==============================================================================
