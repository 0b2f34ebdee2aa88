----------------------------- MODULE MinLemmas ------------------------------
(***************************************************************************)
(* The least element of a set of natural numbers.                          *)
(***************************************************************************)
EXTENDS Naturals, FiniteSetsExt, WellFoundedInduction, TLAPS

(* A set of numbers has a least one, which Min chooses. *)
LEMMA MinIn ==
    ASSUME NEW I \in SUBSET Nat, I # {}
    PROVE  Min(I) \in I /\ \A y \in I : Min(I) <= y
  <1> DEFINE R == {ss \in Nat \X Nat : ss[1] < ss[2]}
  <1>1. IsWellFoundedOn(R, Nat)
    BY NatLessThanWellFounded DEF OpToRel
  <1>2. \A x, y \in Nat : y < x => <<y, x>> \in R
    OBVIOUS
  <1> HIDE DEF R
  <1>3. PICK x \in I : \A y \in I : ~(<<y, x>> \in R)
    BY <1>1, WFMin
  <1>4. ASSUME NEW y \in I
        PROVE  x <= y
    <2>1. x \in Nat /\ y \in Nat
      OBVIOUS
    <2>2. <<y, x>> \notin R
      BY <1>3
    <2>3. ~(y < x)
      BY <1>2, <2>1, <2>2
    <2> QED BY <2>1, <2>3
  <1> QED BY <1>3, <1>4 DEF Min

(* ... and there is no other. *)
LEMMA MinIs ==
    ASSUME NEW I \in SUBSET Nat, NEW x \in I, \A y \in I : x <= y
    PROVE  Min(I) = x
  <1>1. \E m \in I : \A y \in I : m <= y
    OBVIOUS
  <1>2. Min(I) \in I /\ \A y \in I : Min(I) <= y
    BY <1>1 DEF Min
  <1>3. Min(I) <= x /\ x <= Min(I) /\ x \in Nat /\ Min(I) \in Nat
    BY <1>2
  <1> QED BY <1>3
=============================================================================
