----------------------------- MODULE Induction -----------------------------
(***************************************************************************)
(* Induction over the natural numbers, as facts about sets.  The induction *)
(* theorems of the library are about any operator; these are about any set *)
(* of numbers, which the least number outside of it shows to be everything.*)
(* A property of numbers is proved with the set of the numbers that have   *)
(* it.                                                                     *)
(***************************************************************************)
EXTENDS Integers, WellFoundedInduction, TLAPS

LEMMA NoDescent == IsWellFoundedOn({p \in Nat \X Nat : p[1] < p[2]}, Nat)
BY NatLessThanWellFounded DEF OpToRel

\* A set of natural numbers with 0 and each number's successor is all of them.
LEMMA SetInduction ==
    ASSUME NEW S, 0 \in S, \A n \in Nat : n \in S => n + 1 \in S
    PROVE  \A n \in Nat : n \in S
<1>. SUFFICES ASSUME NEW b \in Nat, b \notin S PROVE FALSE
  OBVIOUS
<1>1. PICK T : T = {n \in Nat : n \notin S}
  OBVIOUS
<1>2. T \subseteq Nat /\ T # {}
  BY <1>1
<1>3. PICK x \in T : \A y \in T : ~ (<<y, x>> \in {p \in Nat \X Nat : p[1] < p[2]})
  BY <1>2, NoDescent, WFMin
<1>4. x \in Nat /\ x # 0 /\ x \notin S
  BY <1>1, <1>3
<1>5. x - 1 \in Nat /\ x - 1 \notin S
  <2>1. x - 1 \in Nat /\ x - 1 + 1 = x
    BY <1>4
  <2>. QED  BY <2>1, <1>4
<1>6. x - 1 \in T
  BY <1>1, <1>5
<1>7. <<x - 1, x>> \in {p \in Nat \X Nat : p[1] < p[2]}
  BY <1>4, <1>5
<1>. QED  BY <1>3, <1>6, <1>7

\* The same from any number on.
LEMMA SetInductionFrom ==
    ASSUME NEW S, NEW m \in Nat, m \in S,
           \A n \in Nat : n >= m /\ n \in S => n + 1 \in S
    PROVE  \A n \in Nat : n >= m => n \in S
<1>1. PICK T : T = {n \in Nat : n < m \/ n \in S}
  OBVIOUS
<1>2. 0 \in T
  BY <1>1
<1>3. ASSUME NEW n \in Nat, n \in T PROVE n + 1 \in T
  <2>1. CASE n >= m
    BY <1>1, <1>3, <2>1
  <2>2. CASE n < m
    BY <1>1, <1>3, <2>2
  <2>. QED  BY <2>1, <2>2
<1>4. \A n \in Nat : n \in T
  BY <1>2, <1>3, SetInduction
<1>. QED  BY <1>1, <1>4
=============================================================================
