------------------------------- MODULE Mayores -------------------------------
(* Numbers that are there have a least one, and the places of a sequence a    *)
(* last one.                                                                  *)
EXTENDS Integers, WellFoundedInduction, TLAPS

LEMMA HayMenor ==
  ASSUME NEW T, T \subseteq Nat, T # {}
  PROVE  \E i \in T : \A k \in T : i <= k
<1> DEFINE M == {s \in Nat \X Nat : s[1] < s[2]}
<1>1. IsWellFoundedOn(M, Nat)
  BY NatLessThanWellFounded DEF OpToRel
<1> HIDE DEF M
<1>2. PICK i \in T : \A k \in T : ~(<<k, i>> \in M)
  BY <1>1, WFMin
<1>3. ASSUME NEW k \in T PROVE i <= k
  <2>1. ~(k < i)
    BY <1>2 DEF M
  <2> QED BY <2>1
<1> QED BY <1>3

(* By how far each place is from the end. *)
LEMMA HayMayor ==
  ASSUME NEW n \in Nat, NEW T, T \subseteq 1..n, T # {}
  PROVE  \E i \in T : \A k \in T : k <= i
<1> DEFINE R == {n - i : i \in T}
<1>1. R \subseteq Nat
  BY SMT
<1>2. R # {}
  OBVIOUS
<1>3. PICK x \in R : \A y \in R : x <= y
  <2> HIDE DEF R
  <2> QED BY <1>1, <1>2, HayMenor
<1>4. PICK i \in T : x = n - i
  BY <1>3
<1>5. ASSUME NEW k \in T PROVE k <= i
  <2>1. n - k \in R /\ k \in Int /\ i \in Int
    OBVIOUS
  <2>2. x <= n - k
    BY <1>3, <2>1
  <2> QED BY <1>4, <2>1, <2>2
<1> QED BY <1>5
=============================================================================
