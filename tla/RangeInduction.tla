--------------------------- MODULE RangeInduction ---------------------------
(***************************************************************************)
(* Induction over the numbers up to a bound, stated with a set instead of  *)
(* a predicate: what holds of every number in T holds of 0..n.             *)
(***************************************************************************)
EXTENDS Integers, TLAPS, WellFoundedInduction

\* A set of numbers that is not empty has a least element.
LEMMA LeastNumber ==
    ASSUME NEW T, T \subseteq Nat, T # {}
    PROVE  \E x \in T : \A y \in T : x <= y
<1> DEFINE R == OpToRel(<, Nat)
<1>1. IsWellFoundedOn(R, Nat)
  BY NatLessThanWellFounded, Zenon
<1>2. \A x, y \in Nat : x < y => <<x, y>> \in R
  BY DEF OpToRel
<1> HIDE DEF R
<1>3. PICK x \in T : \A y \in T : <<y, x>> \notin R
  BY <1>1, WFMin, Zenon
<1>4. ASSUME NEW y \in T PROVE x <= y
  <2>1. x \in Nat /\ y \in Nat
    OBVIOUS
  <2>2. ~(y < x)
    BY <1>2, <1>3, <2>1
  <2>3. QED
    BY <2>1, <2>2
<1>5. QED
  BY <1>4

\* A set with 0 in it, and with each number the next, has all of them.
LEMMA RangeInduction ==
    ASSUME NEW n \in Nat, NEW T,
           0 \in T,
           \A i \in 0..(n - 1) : i \in T => i + 1 \in T
    PROVE  \A i \in 0..n : i \in T
<1> DEFINE M == {i \in 0..n : i \notin T}
<1>1. SUFFICES ASSUME M # {} PROVE FALSE
  OBVIOUS
<1>2. M \subseteq Nat
  OBVIOUS
<1>3. PICK m \in M : \A i \in M : m <= i
  BY <1>1, <1>2, LeastNumber, Zenon
<1>4. m \in 1..n
  BY <1>3
<1>5. m - 1 \in 0..(n - 1) /\ m - 1 \in 0..n /\ m - 1 \notin M
  BY <1>3, <1>4
<1>6. m - 1 \in T /\ (m - 1) + 1 = m
  BY <1>4, <1>5
<1>7. QED
  BY <1>3, <1>5, <1>6
=============================================================================
