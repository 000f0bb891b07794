---------------------------- MODULE BoundedInduction ----------------------------
(***************************************************************************)
(* Induction over the positions of a log, as the proofs about logs need it:  *)
(* stated of a set, because the induction theorems of the library are stated *)
(* of an operator, which no backend instantiates.                           *)
(***************************************************************************)
EXTENDS Integers, WellFoundedInduction, TLAPS

(* What holds of 0, and of m when it holds of m - 1, holds up to n.         *)
LEMMA UpTo ==
    ASSUME NEW n \in Nat, NEW S, 0 \in S,
           \A m \in 1 .. n : m - 1 \in S => m \in S
    PROVE  \A m \in 0 .. n : m \in S
  <1> DEFINE Bad == {m \in 0 .. n : m \notin S}
  <1>1. SUFFICES ASSUME Bad # {} PROVE FALSE
    OBVIOUS
  <1>2. PICK m \in Bad : \A k \in Bad : << k, m >> \notin OpToRel(<, Nat)
    <2>1. IsWellFoundedOn(OpToRel(<, Nat), Nat)
      BY NatLessThanWellFounded
    <2>2. Bad \subseteq Nat
      OBVIOUS
    <2> HIDE DEF Bad
    <2>3. QED
      BY <1>1, <2>1, <2>2, WFMin
  <1>3. m \in 0 .. n /\ m \notin S
    OBVIOUS
  <1>4. m # 0
    BY <1>3
  <1>5. m \in 1 .. n /\ m - 1 \in 0 .. n /\ m - 1 \in Nat /\ m \in Nat /\ m - 1 < m
    BY <1>3, <1>4
  <1>6. << m - 1, m >> \in OpToRel(<, Nat)
    BY <1>5 DEF OpToRel
  <1>7. m - 1 \notin Bad
    BY <1>2, <1>6
  <1>8. QED
    BY <1>3, <1>5, <1>7

(* A bounded set of positions has a last one: the naturals counted down     *)
(* from the bound are well founded.                                        *)
LEMMA LastPosition ==
    ASSUME NEW n \in Nat, NEW S \in SUBSET (1 .. n), S # {}
    PROVE  \E k \in S : \A j \in S : j <= k
  <1> DEFINE below == {ss \in Nat \X Nat : ss[1] < ss[2]}
             mirror == {i \in Nat : n - i \in S}
  <1>1. IsWellFoundedOn(below, Nat)
    BY NatLessThanWellFounded DEF OpToRel
  <1>2. mirror # {} /\ mirror \subseteq Nat
    <2>1. PICK s \in S : TRUE
      OBVIOUS
    <2>2. n - s \in Nat /\ n - (n - s) = s
      OBVIOUS
    <2>3. QED
      BY <2>1, <2>2
  <1> HIDE DEF below, mirror
  <1>3. PICK x \in mirror : \A y \in mirror : ~ (<< y, x >> \in below)
    BY <1>1, <1>2, WFMin
  <1>4. n - x \in S /\ x \in Nat
    BY <1>3 DEF mirror
  <1>5. ASSUME NEW j \in S
        PROVE  j <= n - x
    <2>1. n - j \in Nat /\ n - (n - j) = j
      OBVIOUS
    <2>2. << n - j, x >> \notin below
      BY <1>3, <2>1 DEF mirror
    <2>3. QED
      BY <1>4, <2>1, <2>2 DEF below
  <1>6. QED
    BY <1>4, <1>5
=============================================================================
