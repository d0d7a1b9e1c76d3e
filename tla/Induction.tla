------------------------------ MODULE Induction ------------------------------
(***************************************************************************)
(* Facts about numbers that the other proofs share: induction over the     *)
(* natural numbers, about a set instead of a predicate, which is a fact of *)
(* first-order logic that the provers can instantiate, and the quotients   *)
(* and remainders the provers know too little of.                          *)
(***************************************************************************)
EXTENDS Integers, WellFoundedInduction, TLAPS

\* A set that has 0 and the successor of each of its numbers has every number: else there
\* is a least number it lacks.
LEMMA SetInduction ==
  ASSUME NEW S, 0 \in S, \A n \in Nat : n \in S => n + 1 \in S
  PROVE  Nat \subseteq S
<1> DEFINE T == Nat \ S
           R == OpToRel(<, Nat)
<1>1. IsWellFoundedOn(R, Nat)
  BY NatLessThanWellFounded
<1> SUFFICES ASSUME T # {}
             PROVE  FALSE
  OBVIOUS
<1>2. T \subseteq Nat
  OBVIOUS
<1>3. \A x, y \in Nat : x < y => <<x, y>> \in R
  BY DEF OpToRel
<1> HIDE DEF R, T
<1>4. PICK x \in T : \A y \in T : ~(<<y, x>> \in R)
  BY <1>1, <1>2, WFMin
<1>5. x \in Nat /\ x - 1 \in T
  BY <1>4 DEF T
<1>6. x - 1 \in Nat /\ x - 1 < x
  BY <1>2, <1>5
<1>7. <<x - 1, x>> \in R
  BY <1>3, <1>5, <1>6
<1> QED BY <1>4, <1>5, <1>7

----------------------------------------------------------------------------
(* Quotients and remainders.                                               *)

\* A quotient and a remainder are the only ones.
LEMMA Unique ==
  ASSUME NEW p \in Nat \ {0}, NEW q \in Int, NEW r \in Nat, r < p, NEW x \in Int, x = p * q + r
  PROVE  x \div p = q /\ x % p = r
<1>1. x \div p \in Int /\ x % p \in 0 .. p - 1 /\ x = p * (x \div p) + (x % p)
  OBVIOUS
<1> DEFINE d == x \div p
           m == x % p
<1> HIDE DEF d, m
<1>2. d \in Int /\ m \in 0 .. p - 1 /\ p * d + m = p * q + r
  BY <1>1 DEF d, m
<1>3. d = q
  <2>1. CASE d < q
    <3>1. p * d + p <= p * q
      <4>1. d + 1 <= q
        BY <1>2, <2>1
      <4>2. p * (d + 1) <= p * q
        BY <1>2, <4>1
      <4> QED BY <1>2, <4>2
    <3> QED BY <1>2, <3>1
  <2>2. CASE q < d
    <3>1. p * q + p <= p * d
      <4>1. q + 1 <= d
        BY <1>2, <2>2
      <4>2. p * (q + 1) <= p * d
        BY <1>2, <4>1
      <4> QED BY <1>2, <4>2
    <3> QED BY <1>2, <3>1
  <2> QED BY <1>2, <2>1, <2>2
<1> QED BY <1>2, <1>3 DEF d, m

\* A number is its quotient and remainder.
LEMMA Divided ==
  ASSUME NEW p \in Nat \ {0}, NEW x \in Int
  PROVE  x \div p \in Int /\ x % p \in 0 .. p - 1 /\ x = p * (x \div p) + (x % p)
         /\ (x \in Nat => x \div p \in Nat)
OBVIOUS

\* A number that is not negative and below p is its own remainder.
LEMMA Small ==
  ASSUME NEW p \in Nat \ {0}, NEW x \in Nat, x < p
  PROVE  x % p = x /\ x \div p = 0
<1>1. 0 \in Int /\ x \in Int /\ x = p * 0 + x
  OBVIOUS
<1> QED BY <1>1, Unique

\* A digit can be cut off below first, or above.
LEMMA Digit ==
  ASSUME NEW p \in Nat \ {0}, NEW b \in Nat \ {0}, NEW x \in Int
  PROVE  (x % (p * b)) \div p = (x \div p) % b
<1> DEFINE q == x \div p
           r == x % p
           h == q \div b
           d == q % b
           n == p * b
<1>1. q \in Int /\ r \in 0 .. p - 1 /\ x = p * q + r
  BY Divided
<1> HIDE DEF q, r
<1>2. h \in Int /\ d \in 0 .. b - 1 /\ q = b * h + d
  BY <1>1, Divided
<1> HIDE DEF h, d
<1>3. n \in Nat \ {0} /\ p * d + r \in Nat /\ p * d + r < n
  <2>1. n \in Nat \ {0}
    OBVIOUS
  <2>2. p * d + p <= p * b
    <3>1. d + 1 <= b
      BY <1>2
    <3>2. p * (d + 1) <= p * b
      BY <1>2, <3>1
    <3> QED BY <1>2, <3>2
  <2> QED BY <1>1, <1>2, <2>1, <2>2
<1>4. x = n * h + (p * d + r)
  <2>1. p * (b * h + d) = (p * b) * h + p * d
    BY <1>2
  <2> QED BY <1>1, <1>2, <2>1
<1> HIDE DEF n
<1>5. x % n = p * d + r
  <2> DEFINE y == p * d + r
  <2>1. n \in Nat \ {0} /\ h \in Int /\ y \in Nat /\ y < n /\ x \in Int /\ x = n * h + y
    BY <1>2, <1>3, <1>4
  <2> HIDE DEF y
  <2>2. x % n = y
    BY ONLY <2>1, Unique
  <2> QED BY <2>2 DEF y
<1>6. (x % n) \div p = d
  <2> DEFINE y == x % n
  <2>1. y \in Int /\ y = p * d + r /\ d \in Int /\ r \in Nat /\ r < p
    BY <1>1, <1>2, <1>5
  <2> HIDE DEF y
  <2>2. y \div p = d
    BY <2>1, Unique
  <2> QED BY <2>2 DEF y
<1> QED BY <1>6 DEF n, d, q
=============================================================================
