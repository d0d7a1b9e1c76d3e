---------------------------- MODULE SnippetProofs ----------------------------
(***************************************************************************)
(* Proofs about module I64Snippets: the Rust functions that compute on     *)
(* pairs of words compute, whatever the width of a word, what Wasm's       *)
(* instructions compute on an i64, which is a word of twice the bits.      *)
(***************************************************************************)
EXTENDS I64Lowering, Induction

----------------------------------------------------------------------------
(* Words.                                                                  *)

\* The powers of two.
LEMMA Powers ==
  /\ W \in Nat \ {0} /\ 2^W % (2 * W) = 0
  /\ 2^0 = 1 /\ 2^1 = 2
  /\ \A m \in 0 .. 2 * W : 2^m \in Nat \ {0}
  /\ \A m, n \in 0 .. W : 2^(m + n) = 2^m * 2^n
BY WordBits

\* A word, and its half.
LEMMA WordFacts ==
  /\ W \in Nat \ {0} /\ Snip!Modulus \in Nat \ {0} /\ Snip!Modulus = 2^W
  /\ Snip!MaxWord = Snip!Modulus - 1 /\ Snip!Words = 0 .. Snip!Modulus - 1
  /\ Long!Modulus = Snip!Modulus * Snip!Modulus
  /\ 2^(W - 1) \in Nat \ {0} /\ Snip!Modulus = 2 * 2^(W - 1)
<1>1. W \in Nat \ {0} /\ W \in 0 .. W /\ 1 \in 0 .. W /\ W - 1 \in 0 .. W /\ W - 1 \in 0 .. 2 * W
      /\ W \in 0 .. 2 * W /\ 2 * W = W + W /\ 1 + (W - 1) = W
  BY Powers
<1>2. 2^(W + W) = 2^W * 2^W
  BY <1>1, Powers
<1>3. 2^(1 + (W - 1)) = 2^1 * 2^(W - 1)
  BY <1>1, Powers
<1>4. 2^1 = 2 /\ 2^(W - 1) \in Nat \ {0} /\ 2^W \in Nat \ {0}
  BY <1>1, Powers
<1>5. Long!Modulus = Snip!Modulus * Snip!Modulus
  BY <1>1, <1>2 DEF Long!Modulus, Snip!Modulus
<1> QED BY <1>1, <1>3, <1>4, <1>5 DEF Snip!Modulus, Snip!MaxWord, Snip!Words

\* A power of two and what it lacks of a word.
LEMMA Split2 ==
  ASSUME NEW n \in 0 .. W
  PROVE  /\ 2^n \in Nat \ {0} /\ 2^(W - n) \in Nat \ {0} /\ Snip!Modulus = 2^n * 2^(W - n)
         /\ W - n \in 0 .. W
<1>1. n \in 0 .. W /\ W - n \in 0 .. W /\ n \in 0 .. 2 * W /\ W - n \in 0 .. 2 * W /\ n + (W - n) = W
  BY Powers
<1>2. 2^(n + (W - n)) = 2^n * 2^(W - n)
  BY <1>1, Powers
<1> QED BY <1>1, <1>2, Powers, WordFacts

\* Cutting off twice.
LEMMA Cut ==
  ASSUME NEW p \in Nat \ {0}, NEW b \in Nat \ {0}, NEW x \in Int
  PROVE  (x \div p) \div b = x \div (p * b)
<1> DEFINE q == x \div p
           r == x % p
           h == q \div b
           d == q % b
           n == p * b
<1>1. q \in Int /\ r \in 0 .. p - 1 /\ x = p * q + r
  BY Divided
<1> HIDE DEF q, r
<1>2. h \in Int /\ d \in 0 .. b - 1 /\ q = b * h + d
  BY <1>1, Divided
<1> HIDE DEF h, d
<1>3. n \in Nat \ {0} /\ p * d + r \in Nat /\ p * d + r < n
  <2>1. n \in Nat \ {0}
    OBVIOUS
  <2>2. p * d + p <= p * b
    <3>1. d + 1 <= b
      BY <1>2
    <3>2. p * (d + 1) <= p * b
      BY <1>2, <3>1
    <3> QED BY <1>2, <3>2
  <2> QED BY <1>1, <1>2, <2>1, <2>2
<1>4. x = n * h + (p * d + r)
  <2>1. p * (b * h + d) = (p * b) * h + p * d
    BY <1>2
  <2> QED BY <1>1, <1>2, <2>1
<1> HIDE DEF n
<1>5. x \div n = h
  BY <1>2, <1>3, <1>4, Unique
<1> QED BY <1>5 DEF n, h, q

\* Dividing what has a multiple of the divisor added.
LEMMA Shifted ==
  ASSUME NEW p \in Nat \ {0}, NEW x \in Int, NEW k \in Int
  PROVE  (x + p * k) \div p = (x \div p) + k /\ (x + p * k) % p = x % p
<1> DEFINE q == x \div p
           r == x % p
           y == x + p * k
<1>1. q \in Int /\ r \in 0 .. p - 1 /\ x = p * q + r
  BY Divided
<1> HIDE DEF q, r
<1>2. y = p * (q + k) + r /\ y \in Int /\ q + k \in Int /\ r \in Nat /\ r < p
  BY <1>1
<1> HIDE DEF y
<1>3. y \div p = q + k /\ y % p = r
  BY <1>2, Unique
<1> QED BY <1>3 DEF q, r, y

\* A product with a number that is not negative.
LEMMA Grows ==
  ASSUME NEW p \in Nat, NEW a \in Int, NEW b \in Int, a <= b
  PROVE  p * a <= p * b
OBVIOUS

----------------------------------------------------------------------------
(* The bits of a word.                                                     *)

\* A bit is 0 or 1.
LEMMA BitRange ==
  ASSUME NEW x \in Int, NEW i \in 0 .. 2 * W
  PROVE  Snip!Bit(x, i) \in {0, 1} /\ Snip!Bit(x, i) = (x \div 2^i) % 2
<1>1. 2^i \in Nat \ {0}
  BY Powers
<1>2. x \div 2^i \in Int
  BY <1>1
<1>3. (x \div 2^i) % 2 \in 0 .. 1
  BY <1>2
<1> QED BY <1>3 DEF Snip!Bit

\* Numbers below 2^n that have the same n bits.
SameBits(n) ==
  \A c, d \in Nat :
    (c < 2^n /\ d < 2^n /\ \A i \in 0 .. n - 1 : Snip!Bit(c, i) = Snip!Bit(d, i)) => c = d

\* The bits of a number determine it.
LEMMA BitsDetermine ==
  ASSUME NEW n \in 0 .. W
  PROVE  SameBits(n)
<1> DEFINE S == {k \in Nat : k <= W => SameBits(k)}
<1>1. 0 \in S
  <2>1. 2^0 = 1
    BY Powers
  <2>2. SameBits(0)
    BY <2>1 DEF SameBits
  <2> QED BY <2>2
<1>2. ASSUME NEW k \in Nat, k \in S
      PROVE  k + 1 \in S
  <2> SUFFICES ASSUME k + 1 <= W
               PROVE  SameBits(k + 1)
    OBVIOUS
  <2>1. SameBits(k) /\ W \in Nat
    BY <1>2, Powers
  <2>2. 2^(k + 1) = 2^k * 2 /\ 2^k \in Nat \ {0}
    <3>1. k \in 0 .. W /\ 1 \in 0 .. W /\ k \in 0 .. 2 * W
      BY <2>1
    <3>2. 2^(k + 1) = 2^k * 2^1
      BY <3>1, Powers
    <3> QED BY <3>1, <3>2, Powers
  <2>3. ASSUME NEW c \in Nat, NEW d \in Nat, c < 2^(k + 1), d < 2^(k + 1),
               \A i \in 0 .. (k + 1) - 1 : Snip!Bit(c, i) = Snip!Bit(d, i)
        PROVE  c = d
    <3> DEFINE c2 == c \div 2
               d2 == d \div 2
    <3>1. c2 \in Nat /\ d2 \in Nat /\ c = 2 * c2 + (c % 2) /\ d = 2 * d2 + (d % 2)
      OBVIOUS
    <3>2. c % 2 = d % 2
      <4>1. 2^0 = 1 /\ 0 \in 0 .. (k + 1) - 1
        BY Powers
      <4>2. Snip!Bit(c, 0) = c % 2 /\ Snip!Bit(d, 0) = d % 2
        BY <4>1 DEF Snip!Bit
      <4> QED BY <2>3, <4>1, <4>2
    <3>3. c2 < 2^k /\ d2 < 2^k
      <4> DEFINE p == 2^k
      <4>1. p \in Nat \ {0} /\ c < p * 2 /\ d < p * 2
        BY <2>2, <2>3
      <4> HIDE DEF p
      <4>2. c2 < p /\ d2 < p
        BY <4>1
      <4> QED BY <4>2 DEF p
    <3>4. ASSUME NEW x \in Nat, NEW i \in 0 .. k - 1
          PROVE  Snip!Bit(x \div 2, i) = Snip!Bit(x, i + 1)
      <4>1. i \in 0 .. W /\ 1 \in 0 .. W /\ i \in 0 .. 2 * W
        BY <2>1
      <4>2. 2^(1 + i) = 2^1 * 2^i
        BY <4>1, Powers
      <4>3. 2^(i + 1) = 2 * 2^i
        BY <4>1, <4>2, Powers
      <4>4. (x \div 2) \div 2^i = x \div (2 * 2^i)
        BY <4>1, Powers, Cut
      <4> QED BY <4>3, <4>4 DEF Snip!Bit
    <3>5. \A i \in 0 .. k - 1 : Snip!Bit(c2, i) = Snip!Bit(d2, i)
      <4> TAKE i \in 0 .. k - 1
      <4>1. Snip!Bit(c, i + 1) = Snip!Bit(d, i + 1)
        <5>1. i + 1 \in 0 .. (k + 1) - 1
          OBVIOUS
        <5> QED BY <2>3, <5>1
      <4> QED BY <3>4, <4>1
    <3>6. c2 = d2
      BY <2>1, <3>1, <3>3, <3>5 DEF SameBits
    <3> HIDE DEF c2, d2
    <3> QED BY <3>1, <3>2, <3>6
  <2> QED BY <2>3 DEF SameBits
<1> HIDE DEF S
<1>3. Nat \subseteq S
  BY <1>1, <1>2, SetInduction
<1>4. n \in Nat /\ n <= W
  BY Powers
<1> QED BY <1>3, <1>4 DEF S

\* A word with given bits is the one WordOf picks for a disjunction.
LEMMA OrIs ==
  ASSUME NEW a, NEW b, NEW c \in Snip!Words,
         \A i \in 0 .. W - 1 :
           Snip!Bit(c, i) = Snip!FromBool(Snip!Bit(a, i) = 1 \/ Snip!Bit(b, i) = 1)
  PROVE  Snip!Or(a, b) = c
<1> DEFINE P(x) == /\ x \in Snip!Words
                   /\ \A i \in 0 .. W - 1 :
                        Snip!Bit(x, i) = Snip!FromBool(Snip!Bit(a, i) = 1 \/ Snip!Bit(b, i) = 1)
           o == CHOOSE x : P(x)
<1>1. Snip!Or(a, b) = CHOOSE x \in Snip!Words : \A i \in 0 .. W - 1 :
           Snip!Bit(x, i) = Snip!FromBool(Snip!Bit(a, i) = 1 \/ Snip!Bit(b, i) = 1)
  BY DEF Snip!Or, Snip!Infallible, Snip!WordOf
<1>2. P(c)
  OBVIOUS
<1>3. P(Snip!Or(a, b))
  <2> HIDE DEF P
  <2>1. \E x \in Snip!Words : \A i \in 0 .. W - 1 :
           Snip!Bit(x, i) = Snip!FromBool(Snip!Bit(a, i) = 1 \/ Snip!Bit(b, i) = 1)
    BY <1>2 DEF P
  <2> QED BY <1>1, <2>1 DEF P
<1> DEFINE d == Snip!Or(a, b)
<1>4. d \in Snip!Words /\ \A i \in 0 .. W - 1 : Snip!Bit(d, i) = Snip!Bit(c, i)
  BY <1>2, <1>3
<1> HIDE DEF d
<1>5. c \in Nat /\ d \in Nat /\ c < 2^W /\ d < 2^W
  BY <1>2, <1>4, WordFacts
<1>6. SameBits(W)
  <2>1. W \in 0 .. W
    BY WordFacts
  <2> QED BY <2>1, BitsDetermine
<1> QED BY <1>4, <1>5, <1>6 DEF SameBits, d

\* The words of two numbers of which one is a multiple of 2^n and the other is below it: their
\* disjunction is their sum.
LEMMA OrSum ==
  ASSUME NEW n \in 0 .. W, NEW x \in Nat, NEW b \in Nat, b < 2^n, x < 2^(W - n)
  PROVE  LET a == 2^n * x
         IN  /\ a + b \in Snip!Words
             /\ Snip!Or(a, b) = a + b /\ Snip!Or(b, a) = a + b
<1> DEFINE P == 2^n
           R == 2^(W - n)
           a == P * x
           M == Snip!Modulus
<1>1. P \in Nat \ {0} /\ R \in Nat \ {0} /\ M = P * R /\ b < P /\ x < R /\ W - n \in 0 .. W
  BY Split2
<1>2. a + b \in Snip!Words
  <2>1. M = P * R /\ Snip!Words = 0 .. M - 1
    BY <1>1, WordFacts
  <2> HIDE DEF P, R, M
  <2>2. P * (x + 1) <= P * R
    BY <1>1, Grows
  <2>3. P * (x + 1) = P * x + P
    BY <1>1
  <2>4. P * x \in Nat
    BY <1>1
  <2> QED BY <1>1, <2>1, <2>2, <2>3, <2>4
<1>3. ASSUME NEW i \in 0 .. W - 1
      PROVE  Snip!Bit(a + b, i) = Snip!FromBool(Snip!Bit(a, i) = 1 \/ Snip!Bit(b, i) = 1)
             /\ Snip!Bit(a + b, i) = Snip!FromBool(Snip!Bit(b, i) = 1 \/ Snip!Bit(a, i) = 1)
  <2> DEFINE p == 2^i
  <2>1. i \in 0 .. W /\ i \in 0 .. 2 * W /\ n \in Nat /\ i \in Nat /\ W \in Nat
    BY WordFacts
  <2>2. p \in Nat \ {0}
    BY <2>1, Powers
  <2>3. a \in Nat /\ a + b \in Nat
    <3> HIDE DEF P, R, M
    <3>1. P * x \in Nat
      BY <1>1
    <3> QED BY <3>1
  <2>4. CASE i < n
    <3> DEFINE s == 2^(n - i - 1)
               y == b \div p
    <3>1. P = p * (2 * s) /\ s \in Nat \ {0}
      <4>1. 1 \in 0 .. W /\ n - i - 1 \in 0 .. W /\ n - i - 1 \in 0 .. 2 * W /\ n - i \in 0 .. W
            /\ 1 + (n - i - 1) = n - i /\ i + (n - i) = n
        BY <2>1, <2>4
      <4>2. 2^(1 + (n - i - 1)) = 2^1 * 2^(n - i - 1) /\ 2^(i + (n - i)) = 2^i * 2^(n - i)
        BY <2>1, <4>1, Powers
      <4>3. 2^(n - i - 1) \in Nat \ {0}
        BY <4>1, Powers
      <4> QED BY <4>1, <4>2, <4>3, Powers
    <3>2. a = p * (2 * (s * x)) /\ s * x \in Nat
      <4> HIDE DEF P, p, s
      <4>1. s * x \in Nat
        BY <3>1
      <4>2. (p * (2 * s)) * x = p * (2 * (s * x))
        BY <2>2, <3>1
      <4> QED BY <3>1, <4>1, <4>2
    <3> DEFINE z == s * x
    <3>3. z \in Nat /\ a = p * (2 * z)
      BY <3>2
    <3> HIDE DEF P, p, z
    <3>4. a \div p = 2 * z
      <4>1. a = p * (2 * z) + 0 /\ 2 * z \in Int /\ 0 \in Nat /\ 0 < p /\ a \in Int
        BY <2>2, <2>3, <3>3
      <4> HIDE DEF a
      <4> QED BY <2>2, <4>1, Unique
    <3>5. (a + b) \div p = y + 2 * z
      <4>1. 2 * z \in Int /\ b \in Int /\ b + p * (2 * z) = a + b
        BY <2>2, <3>3
      <4>2. (b + p * (2 * z)) \div p = (b \div p) + 2 * z
        BY <2>2, <4>1, Shifted
      <4> QED BY <4>1, <4>2
    <3>6. y \in Int
      BY <2>2
    <3> HIDE DEF y
    <3>7. (2 * z) % 2 = 0 /\ (y + 2 * z) % 2 = y % 2 /\ y % 2 \in {0, 1}
      BY <3>3, <3>6
    <3>8. Snip!Bit(a + b, i) = y % 2 /\ Snip!Bit(a, i) = 0 /\ Snip!Bit(b, i) = y % 2
      BY <3>4, <3>5, <3>7 DEF Snip!Bit, p, y
    <3> QED BY <3>7, <3>8 DEF Snip!FromBool
  <2>5. CASE ~(i < n)
    <3> DEFINE s == 2^(i - n)
               y == x \div s
    <3>1. p = P * s /\ s \in Nat \ {0}
      <4>1. i - n \in 0 .. W /\ i - n \in 0 .. 2 * W /\ n + (i - n) = i
        BY <2>1, <2>5
      <4>2. 2^(n + (i - n)) = 2^n * 2^(i - n)
        BY <4>1, Powers
      <4> QED BY <4>1, <4>2, Powers
    <3>2. y \in Nat
      <4> HIDE DEF s
      <4> QED BY <3>1
    <3> HIDE DEF P, p, s
    <3>3. (a + b) \div P = x /\ a \div P = x
      <4>1. b \in Int /\ x \in Int /\ b + P * x = a + b /\ 0 + P * x = a /\ 0 \in Int
        BY <1>1
      <4>2. (b + P * x) \div P = (b \div P) + x /\ (0 + P * x) \div P = (0 \div P) + x
        BY <1>1, <4>1, Shifted
      <4>3. b \div P = 0 /\ 0 \div P = 0
        <5>1. 0 \in Nat /\ 0 < P
          BY <1>1
        <5> QED BY <1>1, <5>1, Small
      <4> QED BY <4>1, <4>2, <4>3
    <3>4. (a + b) \div p = y /\ a \div p = y
      <4> DEFINE c == a + b
      <4>0. c \in Int /\ a \in Int
        BY <2>3
      <4> HIDE DEF a, c
      <4>1. (c \div P) \div s = c \div (P * s) /\ (a \div P) \div s = a \div (P * s)
        BY <1>1, <4>0, <3>1, Cut
      <4> USE DEF c
      <4> QED BY <3>1, <3>3, <4>1
    <3>5. b \div p = 0
      <4>1. P * 1 <= P * s
        BY <1>1, <3>1, Grows
      <4>2. b < p
        BY <1>1, <3>1, <4>1
      <4> QED BY <2>2, <4>2, Small
    <3> HIDE DEF y
    <3>6. Snip!Bit(a + b, i) = y % 2 /\ Snip!Bit(a, i) = y % 2 /\ Snip!Bit(b, i) = 0
      <4>1. 0 % 2 = 0
        OBVIOUS
      <4> HIDE DEF a
      <4> QED BY <3>4, <3>5, <4>1 DEF Snip!Bit, p
    <3>7. y % 2 \in {0, 1}
      BY <3>2
    <3> QED BY <3>6, <3>7 DEF Snip!FromBool
  <2> QED BY <2>4, <2>5
<1>4. Snip!Or(a, b) = a + b /\ Snip!Or(b, a) = a + b
  <2> DEFINE c == a + b
  <2>1. c \in Snip!Words
    BY <1>2
  <2>2. \A i \in 0 .. W - 1 :
          Snip!Bit(c, i) = Snip!FromBool(Snip!Bit(a, i) = 1 \/ Snip!Bit(b, i) = 1)
    BY <1>3
  <2>3. \A i \in 0 .. W - 1 :
          Snip!Bit(c, i) = Snip!FromBool(Snip!Bit(b, i) = 1 \/ Snip!Bit(a, i) = 1)
    BY <1>3
  <2> HIDE DEF c, a
  <2>4. Snip!Or(a, b) = c /\ Snip!Or(b, a) = c
    BY <2>1, <2>2, <2>3, OrIs
  <2> QED BY <2>4 DEF c
<1> QED BY <1>2, <1>4

----------------------------------------------------------------------------
(* Pairs of words.                                                         *)

\* The word of a number is the one it differs from by a multiple of the modulus.
LEMMA WrapIs ==
  ASSUME NEW r \in Snip!Words, NEW k \in Int
  PROVE  Snip!Wrap(r + Snip!Modulus * k) = r
<1> DEFINE M == Snip!Modulus
           x == r + M * k
<1>1. M \in Nat \ {0} /\ r \in 0 .. M - 1
  BY WordFacts
<1> HIDE DEF M
<1>2. x \in Int /\ x = M * k + r /\ r \in Nat /\ r < M
  BY <1>1
<1> HIDE DEF x
<1>3. x % M = r
  BY <1>1, <1>2, Unique
<1> QED BY <1>3 DEF x, M, Snip!Wrap

\* Every number has a word.
LEMMA Wraps ==
  ASSUME NEW x \in Int
  PROVE  Snip!Wrap(x) \in Snip!Words /\ \E k \in Int : x = Snip!Wrap(x) + Snip!Modulus * k
<1> DEFINE M == Snip!Modulus
           k == x \div M
           r == x % M
<1>1. M \in Nat \ {0} /\ Snip!Words = 0 .. M - 1
  BY WordFacts
<1> HIDE DEF M
<1>2. k \in Int /\ r \in 0 .. M - 1 /\ x = M * k + r
  BY <1>1, Divided
<1>3. Snip!Wrap(x) = r
  BY DEF Snip!Wrap, M
<1> HIDE DEF k, r
<1>4. x = r + M * k
  BY <1>1, <1>2
<1> QED BY <1>1, <1>2, <1>3, <1>4 DEF M

\* A word is its own word.
LEMMA WrapWord ==
  ASSUME NEW x \in Snip!Words
  PROVE  Snip!Wrap(x) = x
<1>1. Snip!Modulus \in Nat \ {0} /\ x \in Nat /\ x < Snip!Modulus
  BY WordFacts
<1> QED BY <1>1, Small DEF Snip!Wrap

\* The words of a number of two words.
LEMMA SplitIs ==
  ASSUME NEW lo \in Snip!Words, NEW hi \in Snip!Words
  PROVE  /\ Split(lo + Snip!Modulus * hi) = <<lo, hi>>
         /\ lo + Snip!Modulus * hi \in Nat /\ lo + Snip!Modulus * hi < Long!Modulus
<1> DEFINE M == Snip!Modulus
           x == lo + M * hi
<1>1. M \in Nat \ {0} /\ lo \in 0 .. M - 1 /\ hi \in 0 .. M - 1 /\ Long!Modulus = M * M /\ M = 2^W
  BY WordFacts
<1> HIDE DEF M
<1>2. x \in Nat /\ x \in Int /\ x = M * hi + lo /\ lo \in Nat /\ lo < M /\ hi \in Int
  BY <1>1
<1>3. x < M * M
  <2>1. M * (hi + 1) <= M * M
    BY <1>1, Grows
  <2>2. M * (hi + 1) = M * hi + M
    BY <1>1
  <2>3. M * hi \in Nat
    BY <1>1
  <2> QED BY <1>1, <2>1, <2>2, <2>3
<1> HIDE DEF x
<1>4. x % M = lo /\ x \div M = hi
  BY <1>1, <1>2, Unique
<1>5. Split(x) = <<lo, hi>>
  BY <1>1, <1>4 DEF Split
<1> QED BY <1>1, <1>2, <1>3, <1>5 DEF x, M

\* What a word of twice the bits keeps of a number.
LEMMA LongWrapIs ==
  ASSUME NEW lo \in Snip!Words, NEW hi \in Snip!Words, NEW k \in Int, NEW x \in Int,
         x = lo + Snip!Modulus * hi + Long!Modulus * k
  PROVE  Long!Wrap(x) = lo + Snip!Modulus * hi /\ Split(Long!Wrap(x)) = <<lo, hi>>
<1> DEFINE y == lo + Snip!Modulus * hi
           N == Long!Modulus
<1>1. y \in Nat /\ y < N /\ Split(y) = <<lo, hi>>
  BY SplitIs
<1>2. N \in Nat \ {0}
  <2>1. N = Snip!Modulus * Snip!Modulus /\ Snip!Modulus \in Nat \ {0}
    BY WordFacts
  <2> HIDE DEF N
  <2> QED BY <2>1
<1>3. x = y + N * k
  OBVIOUS
<1> HIDE DEF y, N
<1>4. x = N * k + y
  BY <1>1, <1>2, <1>3
<1>5. x % N = y
  BY <1>1, <1>2, <1>4, Unique
<1> QED BY <1>1, <1>5 DEF y, N, Long!Wrap

\* The carry of a sum is what add32 returns, and what a comparison with an operand tells.
LEMMA Carry ==
  ASSUME NEW x \in Snip!Words, NEW y \in Snip!Words
  PROVE  LET s == Snip!Wrap(x + y)
             c == Snip!FromBool(s < x)
         IN  /\ s \in Snip!Words /\ c \in {0, 1} /\ x + y = s + Snip!Modulus * c
             /\ Snip!add32(x, y) = <<s, c>>
<1> DEFINE M == Snip!Modulus
           s == Snip!Wrap(x + y)
           c == Snip!FromBool(s < x)
<1>1. M \in Nat \ {0} /\ x \in 0 .. M - 1 /\ y \in 0 .. M - 1 /\ Snip!Words = 0 .. M - 1
  BY WordFacts
<1>2. Snip!add32(x, y) = <<s, Snip!FromBool(x + y >= M)>>
  BY DEF Snip!add32
<1>3. CASE x + y >= M
  <2> DEFINE r == x + y - M
  <2>1. r \in Snip!Words /\ x + y = r + M * 1 /\ r < x
    <3> HIDE DEF M
    <3> QED BY <1>1, <1>3
  <2> HIDE DEF r
  <2>2. Snip!Wrap(r + M * 1) = r
    BY <2>1, WrapIs
  <2>3. s = r
    BY <2>1, <2>2
  <2> HIDE DEF s, M
  <2> QED BY <1>2, <1>3, <2>1, <2>3 DEF Snip!FromBool, s, M
<1>4. CASE ~(x + y >= M)
  <2> DEFINE r == x + y
  <2>1. r \in Snip!Words /\ ~(r < x) /\ r = r + M * 0
    <3> HIDE DEF M
    <3> QED BY <1>1, <1>4
  <2>2. s = r
    <3> HIDE DEF r
    <3> QED BY <2>1, WrapWord DEF r
  <2> HIDE DEF s, M
  <2> QED BY <1>2, <1>4, <2>1, <2>2 DEF Snip!FromBool, s, M
<1> QED BY <1>3, <1>4

\* The borrow of a difference is what a comparison of the operands tells.
LEMMA Borrow ==
  ASSUME NEW x \in Snip!Words, NEW y \in Snip!Words
  PROVE  LET s == Snip!Wrap(x - y)
             c == Snip!FromBool(x < y)
         IN  s \in Snip!Words /\ c \in {0, 1} /\ x - y = s - Snip!Modulus * c
<1> DEFINE M == Snip!Modulus
           s == Snip!Wrap(x - y)
           c == Snip!FromBool(x < y)
<1>1. M \in Nat \ {0} /\ x \in 0 .. M - 1 /\ y \in 0 .. M - 1 /\ Snip!Words = 0 .. M - 1
  BY WordFacts
<1>2. CASE x < y
  <2> DEFINE r == x - y + M
  <2>1. r \in Snip!Words /\ x - y = r + M * (0 - 1) /\ x - y = r - M * 1 /\ 0 - 1 \in Int
    <3> HIDE DEF M
    <3> QED BY <1>1, <1>2
  <2> HIDE DEF r
  <2>2. Snip!Wrap(r + M * (0 - 1)) = r
    BY <2>1, WrapIs
  <2>3. s = r
    BY <2>1, <2>2
  <2> HIDE DEF s, M
  <2> QED BY <1>2, <2>1, <2>3 DEF Snip!FromBool, s, M
<1>3. CASE ~(x < y)
  <2> DEFINE r == x - y
  <2>1. r \in Snip!Words /\ r = r - M * 0
    <3> HIDE DEF M
    <3> QED BY <1>1, <1>3
  <2>2. s = r
    <3> HIDE DEF r
    <3> QED BY <2>1, WrapWord DEF r
  <2> HIDE DEF s, M
  <2> QED BY <1>3, <2>1, <2>2 DEF Snip!FromBool, s, M
<1> QED BY <1>2, <1>3

----------------------------------------------------------------------------
(* Sums and differences.                                                   *)

\* i64_add_impl.
LEMMA AddCorrect ==
  ASSUME NEW alo \in Snip!Words, NEW ahi \in Snip!Words,
         NEW blo \in Snip!Words, NEW bhi \in Snip!Words
  PROVE  Snip!i64_add_impl(alo, ahi, blo, bhi)
           = Split(Long!Wrap(LongOf(alo, ahi) + LongOf(blo, bhi)))
<1> DEFINE M == Snip!Modulus
           lo == Snip!Wrap(alo + blo)
           c == Snip!FromBool(lo < alo)
           z == ahi + bhi + c
           hi == Snip!Wrap(z)
           x == LongOf(alo, ahi) + LongOf(blo, bhi)
<1>1. M \in Nat \ {0} /\ Snip!Words = 0 .. M - 1 /\ Long!Modulus = M * M /\ 2^W = M
  BY WordFacts
<1>2. lo \in Snip!Words /\ c \in {0, 1} /\ alo + blo = lo + M * c
  BY Carry
<1>3. Snip!i64_add_impl(alo, ahi, blo, bhi) = <<lo, hi>>
  BY DEF Snip!i64_add_impl
<1>4. x = alo + M * ahi + (blo + M * bhi)
  BY <1>1 DEF LongOf
<1> HIDE DEF M, lo, c
<1>5. z \in Int
  BY <1>1, <1>2
<1>6. hi \in Snip!Words /\ \E k \in Int : z = hi + M * k
  <2> HIDE DEF z
  <2> QED BY <1>5, Wraps DEF M
<1>7. PICK k \in Int : z = hi + M * k
  BY <1>6
<1>8. x = lo + M * z
  BY <1>1, <1>2, <1>4
<1> HIDE DEF z, hi, x
<1>9. x = lo + M * hi + (M * M) * k /\ x \in Int
  BY <1>1, <1>2, <1>6, <1>7, <1>8
<1>10. x = lo + Snip!Modulus * hi + Long!Modulus * k
  BY <1>1, <1>9 DEF M
<1>11. Split(Long!Wrap(x)) = <<lo, hi>>
  BY <1>2, <1>6, <1>9, <1>10, LongWrapIs
<1> QED BY <1>3, <1>11 DEF x

\* i64_sub_impl.
LEMMA SubCorrect ==
  ASSUME NEW alo \in Snip!Words, NEW ahi \in Snip!Words,
         NEW blo \in Snip!Words, NEW bhi \in Snip!Words
  PROVE  Snip!i64_sub_impl(alo, ahi, blo, bhi)
           = Split(Long!Wrap(LongOf(alo, ahi) - LongOf(blo, bhi)))
<1> DEFINE M == Snip!Modulus
           lo == Snip!Wrap(alo - blo)
           c == Snip!FromBool(alo < blo)
           z == ahi - bhi - c
           hi == Snip!Wrap(z)
           x == LongOf(alo, ahi) - LongOf(blo, bhi)
<1>1. M \in Nat \ {0} /\ Snip!Words = 0 .. M - 1 /\ Long!Modulus = M * M /\ 2^W = M
  BY WordFacts
<1>2. lo \in Snip!Words /\ c \in {0, 1} /\ alo - blo = lo - M * c
  BY Borrow
<1>3. Snip!i64_sub_impl(alo, ahi, blo, bhi) = <<lo, hi>>
  BY DEF Snip!i64_sub_impl
<1>4. x = alo + M * ahi - (blo + M * bhi)
  BY <1>1 DEF LongOf
<1> HIDE DEF M, lo, c
<1>5. z \in Int
  BY <1>1, <1>2
<1>6. hi \in Snip!Words /\ \E k \in Int : z = hi + M * k
  <2> HIDE DEF z
  <2> QED BY <1>5, Wraps DEF M
<1>7. PICK k \in Int : z = hi + M * k
  BY <1>6
<1>8. x = lo + M * z
  BY <1>1, <1>2, <1>4
<1> HIDE DEF z, hi, x
<1>9. x = lo + M * hi + (M * M) * k /\ x \in Int
  BY <1>1, <1>2, <1>6, <1>7, <1>8
<1>10. x = lo + Snip!Modulus * hi + Long!Modulus * k
  BY <1>1, <1>9 DEF M
<1>11. Split(Long!Wrap(x)) = <<lo, hi>>
  BY <1>2, <1>6, <1>9, <1>10, LongWrapIs
<1> QED BY <1>3, <1>11 DEF x

\* i64_ne.
LEMMA NeCorrect ==
  ASSUME NEW alo \in Snip!Words, NEW ahi \in Snip!Words,
         NEW blo \in Snip!Words, NEW bhi \in Snip!Words
  PROVE  Snip!i64_ne(alo, ahi, blo, bhi) = Long!FromBool(LongOf(alo, ahi) # LongOf(blo, bhi))
<1>1. Snip!Modulus = 2^W
  BY WordFacts
<1>2. Split(LongOf(alo, ahi)) = <<alo, ahi>> /\ Split(LongOf(blo, bhi)) = <<blo, bhi>>
  BY <1>1, SplitIs DEF LongOf
<1>3. LongOf(alo, ahi) = LongOf(blo, bhi) <=> alo = blo /\ ahi = bhi
  BY <1>2
<1> QED BY <1>3 DEF Snip!i64_ne, Snip!FromBool, Long!FromBool

----------------------------------------------------------------------------
(* Products.                                                               *)

\* Half a word.
LEMMA HalfFacts ==
  2^Snip!Half \in Nat \ {0} /\ 2^Snip!Half >= 2 /\ Snip!Modulus = 2^Snip!Half * 2^Snip!Half
<1> DEFINE h == W \div 2
<1>1. W \in Nat \ {0} /\ W = 2 * h /\ h \in Nat
  BY WordFacts, WidthAssumption
<1> HIDE DEF h
<1>2. h \in 0 .. W /\ h \in 0 .. 2 * W /\ h + h = W /\ 1 \in 0 .. W /\ h - 1 \in 0 .. W
      /\ h - 1 \in 0 .. 2 * W /\ 1 + (h - 1) = h
  BY <1>1
<1>3. 2^(h + h) = 2^h * 2^h /\ 2^(1 + (h - 1)) = 2^1 * 2^(h - 1)
  BY <1>2, Powers
<1>4. 2^h \in Nat \ {0} /\ 2^W = 2^h * 2^h /\ 2^h = 2 * 2^(h - 1) /\ 2^(h - 1) \in Nat \ {0}
  BY <1>2, <1>3, Powers
<1>5. 2^h >= 2
  <2> DEFINE p == 2^(h - 1)
             q == 2^h
  <2>1. q = 2 * p /\ p \in Nat \ {0}
    BY <1>4
  <2> HIDE DEF p, q
  <2>2. q >= 2
    BY <2>1
  <2> QED BY <2>2 DEF q
<1> QED BY <1>4, <1>5 DEF Snip!Half, h, Snip!Modulus

\* A product of numbers that are small enough is small.
LEMMA SmallProduct ==
  ASSUME NEW p \in Nat \ {0}, NEW a \in 0 .. p - 1, NEW b \in 0 .. p - 1
  PROVE  a * b \in 0 .. (p - 1) * (p - 1)
<1>1. a * b \in Nat /\ a * b <= a * (p - 1)
  <2>1. a \in Nat /\ b \in Int /\ p - 1 \in Int /\ b <= p - 1
    OBVIOUS
  <2> QED BY <2>1, Grows
<1>2. (p - 1) * a <= (p - 1) * (p - 1)
  <2>1. p - 1 \in Nat /\ a \in Int /\ a <= p - 1
    OBVIOUS
  <2> QED BY <2>1, Grows
<1>3. a * (p - 1) = (p - 1) * a
  OBVIOUS
<1>4. (p - 1) * (p - 1) \in Nat /\ a * (p - 1) \in Nat
  OBVIOUS
<1> QED BY <1>1, <1>2, <1>3, <1>4

\* The product of two words from the products of their halves is right, although the sum of
\* the cross products may carry.
LEMMA Mul32 ==
  ASSUME NEW x \in Snip!Words, NEW y \in Snip!Words
  PROVE  \E l, h \in Snip!Words :
           Snip!mul32(x, y) = <<l, h>> /\ x * y = l + Snip!Modulus * h
<1> DEFINE M == Snip!Modulus
           H == 2^Snip!Half
           x0 == x % H
           x1 == x \div H
           y0 == y % H
           y1 == y \div H
           cross == Snip!add32(Snip!Wrap(x0 * y1), Snip!Wrap(x1 * y0))
           cl == cross[1] % H
           ch == cross[1] \div H
           low == Snip!add32(Snip!Wrap(x0 * y0), Snip!Wrap(cl * H))
           crossHi == Snip!Wrap(ch + Snip!Wrap(cross[2] * H))
           tmp == Snip!add32(Snip!Wrap(x1 * y1), crossHi)
<1>1. M \in Nat \ {0} /\ Snip!Words = 0 .. M - 1 /\ H \in Nat \ {0} /\ H >= 2 /\ M = H * H
  BY WordFacts, HalfFacts
<1>2. Snip!mul32(x, y) = <<low[1], Snip!Wrap(tmp[1] + low[2] + tmp[2])>>
  BY DEF Snip!mul32
<1>3. x \in 0 .. M - 1 /\ y \in 0 .. M - 1
  BY <1>1
<1> HIDE DEF M, H
<1>4. ASSUME NEW z \in 0 .. M - 1
      PROVE  z % H \in 0 .. H - 1 /\ z \div H \in 0 .. H - 1 /\ z = H * (z \div H) + (z % H)
  <2> DEFINE q == z \div H
             r == z % H
  <2>1. z \in Int /\ z \in Nat
    BY <1>1
  <2>2. q \in Nat /\ r \in 0 .. H - 1 /\ z = H * q + r
    BY <1>1, <2>1, Divided
  <2> HIDE DEF q, r
  <2>3. q < H
    <3> SUFFICES ASSUME q >= H
                 PROVE  FALSE
      BY <1>1, <2>2
    <3>1. H * H <= H * q
      BY <1>1, <2>2, Grows
    <3> QED BY <1>1, <2>1, <2>2, <3>1
  <2> QED BY <1>1, <2>2, <2>3 DEF q, r
<1>5. /\ x0 \in 0 .. H - 1 /\ x1 \in 0 .. H - 1 /\ x = H * x1 + x0
      /\ y0 \in 0 .. H - 1 /\ y1 \in 0 .. H - 1 /\ y = H * y1 + y0
  BY <1>3, <1>4
<1> HIDE DEF x0, x1, y0, y1
<1>6. (H - 1) * (H - 1) < M
  BY <1>1
<1>7. x0 * y1 \in Snip!Words /\ x1 * y0 \in Snip!Words /\ x0 * y0 \in Snip!Words
      /\ x1 * y1 \in Snip!Words
  <2> DEFINE g == (H - 1) * (H - 1)
  <2>1. g \in Int /\ g < M
    BY <1>1, <1>6
  <2>2. x0 * y1 \in 0 .. g /\ x1 * y0 \in 0 .. g /\ x0 * y0 \in 0 .. g /\ x1 * y1 \in 0 .. g
    BY <1>1, <1>5, SmallProduct
  <2> HIDE DEF g
  <2> QED BY <1>1, <2>1, <2>2
<1> DEFINE p01 == x0 * y1
           p10 == x1 * y0
           p00 == x0 * y0
           p11 == x1 * y1
<1>8. /\ Snip!Wrap(p01) = p01 /\ Snip!Wrap(p10) = p10 /\ Snip!Wrap(p00) = p00
      /\ Snip!Wrap(p11) = p11
  BY <1>7, WrapWord
<1>9. x * y = p00 + H * (p01 + p10) + (H * H) * p11
  BY <1>1, <1>5
<1>10. p01 \in Snip!Words /\ p10 \in Snip!Words /\ p00 \in Snip!Words /\ p11 \in Snip!Words
  BY <1>7
<1> HIDE DEF p01, p10, p00, p11
<1>11. cross = Snip!add32(p01, p10)
  BY <1>8 DEF p01, p10
<1>12. cross[1] \in Snip!Words /\ cross[2] \in {0, 1} /\ p01 + p10 = cross[1] + M * cross[2]
  <2>1. \A u, v \in Snip!Words :
          LET t == Snip!add32(u, v)
          IN  t[1] \in Snip!Words /\ t[2] \in {0, 1} /\ u + v = t[1] + M * t[2]
    BY Carry DEF M
  <2> QED BY <1>10, <1>11, <2>1
<1> DEFINE c1 == cross[1]
           c2 == cross[2]
<1>13. c1 \in 0 .. M - 1 /\ c2 \in {0, 1} /\ p01 + p10 = c1 + M * c2
  BY <1>1, <1>12
<1>14. cl \in 0 .. H - 1 /\ ch \in 0 .. H - 1 /\ c1 = H * ch + cl
  BY <1>4, <1>13
<1> HIDE DEF c1, c2
<1>15. low = Snip!add32(Snip!Wrap(p00), Snip!Wrap(cl * H))
       /\ crossHi = Snip!Wrap(ch + Snip!Wrap(c2 * H))
       /\ tmp = Snip!add32(Snip!Wrap(p11), crossHi)
  BY DEF p00, p11, c2
<1> HIDE DEF cross, cl, ch, low
<1>16. cl * H \in Snip!Words /\ c2 * H \in Snip!Words /\ ch + c2 * H \in Snip!Words
  <2>1. H * (cl + 1) <= H * H /\ H * (cl + 1) = H * cl + H /\ H * cl \in Nat
    <3>1. H * (cl + 1) <= H * H
      BY <1>1, <1>14, Grows
    <3> QED BY <1>1, <1>14, <3>1
  <2>2. 2 * H <= H * H
    <3>1. H * 2 <= H * H
      BY <1>1, Grows
    <3> QED BY <1>1, <3>1
  <2>3. c2 * H = 0 \/ c2 * H = H
    BY <1>1, <1>13
  <2> QED BY <1>1, <1>13, <1>14, <2>1, <2>2, <2>3
<1>17. Snip!Wrap(cl * H) = cl * H /\ Snip!Wrap(c2 * H) = c2 * H
       /\ Snip!Wrap(ch + c2 * H) = ch + c2 * H
  BY <1>16, WrapWord
<1> DEFINE w == cl * H
           g == ch + c2 * H
<1>18. low = Snip!add32(p00, w) /\ crossHi = g /\ tmp = Snip!add32(p11, g)
  BY <1>8, <1>15, <1>17
<1>19. w \in Snip!Words /\ g \in Snip!Words
  BY <1>16
<1> HIDE DEF w, g, crossHi, tmp
<1>20. \A u, v \in Snip!Words :
         LET t == Snip!add32(u, v)
         IN  t[1] \in Snip!Words /\ t[2] \in {0, 1} /\ u + v = t[1] + M * t[2]
  BY Carry DEF M
<1>21. /\ low[1] \in Snip!Words /\ low[2] \in {0, 1} /\ p00 + w = low[1] + M * low[2]
       /\ tmp[1] \in Snip!Words /\ tmp[2] \in {0, 1} /\ p11 + g = tmp[1] + M * tmp[2]
  BY <1>10, <1>18, <1>19, <1>20
<1> DEFINE l1 == low[1]
           l2 == low[2]
           z == l2 + g + p11
<1>22. l1 \in 0 .. M - 1 /\ l2 \in {0, 1} /\ p00 + w = l1 + M * l2
  BY <1>1, <1>21
<1> HIDE DEF l1, l2
<1>23. x * y = l1 + M * z
  <2>1. H * (p01 + p10) = H * (H * ch + cl) + H * (M * c2)
    <3>1. p01 + p10 = (H * ch + cl) + M * c2
      BY <1>13, <1>14
    <3>2. H * ch + cl \in Int /\ M * c2 \in Int
      BY <1>1, <1>13, <1>14
    <3> DEFINE e == H * ch + cl
               f == M * c2
    <3> HIDE DEF e, f
    <3>3. p01 + p10 = e + f /\ e \in Int /\ f \in Int
      BY <3>1, <3>2 DEF e, f
    <3>4. H * (e + f) = H * e + H * f
      BY <1>1, <3>3
    <3> QED BY <3>3, <3>4 DEF e, f
  <2>2. H * (H * ch + cl) = M * ch + w
    BY <1>1, <1>14 DEF w
  <2>3. H * (M * c2) = M * (c2 * H)
    BY <1>1, <1>13
  <2>4. M * ch + M * (c2 * H) = M * g
    BY <1>1, <1>13, <1>14 DEF g
  <2>5. p00 \in Int /\ p11 \in Int /\ w \in Int /\ g \in Int /\ ch \in Int /\ c2 * H \in Int
    BY <1>1, <1>10, <1>13, <1>14, <1>19
  <2> DEFINE a == M * ch
             b == M * (c2 * H)
             c == M * g
             d == M * p11
  <2>6. a \in Int /\ b \in Int /\ c \in Int /\ d \in Int
    BY <1>1, <2>5
  <2>7. x * y = p00 + (a + w + b) + d
    BY <1>1, <1>9, <2>1, <2>2, <2>3
  <2>8. a + b = c
    BY <2>4
  <2>9. M * z = M * l2 + c + d
    BY <1>1, <1>22, <2>5
  <2>10. M * l2 \in Int
    BY <1>1, <1>22
  <2> HIDE DEF a, b, c, d, z
  <2> QED BY <1>22, <2>5, <2>6, <2>7, <2>8, <2>9, <2>10
<1>24. z < M /\ z \in Nat
  <2>1. z \in Nat
    BY <1>1, <1>10, <1>19, <1>22
  <2>2. x * y < M * M
    <3>1. x * y \in 0 .. (M - 1) * (M - 1)
      BY <1>1, <1>3, SmallProduct
    <3>2. (M - 1) * (M - 1) < M * M /\ (M - 1) * (M - 1) \in Int /\ M * M \in Int
      BY <1>1
    <3> QED BY <3>1, <3>2
  <2> HIDE DEF z
  <2> SUFFICES ASSUME z >= M
               PROVE  FALSE
    BY <1>1, <2>1
  <2>3. M * M <= M * z
    BY <1>1, <2>1, Grows
  <2>4. M * M \in Int /\ M * z \in Int
    BY <1>1, <2>1
  <2> QED BY <1>22, <1>23, <2>2, <2>3, <2>4
<1>25. tmp[2] = 0 /\ tmp[1] + l2 = z
  <2>1. p11 + g <= z /\ p11 \in Int /\ g \in Int
    BY <1>1, <1>10, <1>19, <1>22
  <2> HIDE DEF z
  <2>2. tmp[2] # 1
    BY <1>1, <1>21, <1>24, <2>1
  <2>3. tmp[2] = 0
    BY <1>21, <2>2
  <2>4. p11 + g = tmp[1]
    BY <1>1, <1>21, <2>1, <2>3
  <2> QED BY <1>1, <1>22, <2>1, <2>3, <2>4 DEF z
<1>26. Snip!mul32(x, y) = <<l1, z>> /\ z \in Snip!Words /\ l1 \in Snip!Words
  <2>1. tmp[1] + l2 + tmp[2] = z
    BY <1>1, <1>24, <1>25
  <2>2. z \in Snip!Words
    BY <1>1, <1>24
  <2>3. Snip!Wrap(z) = z
    BY <2>2, WrapWord
  <2> HIDE DEF z
  <2> QED BY <1>2, <1>21, <2>1, <2>2, <2>3 DEF l1, l2
<1> HIDE DEF z
<1> QED BY <1>23, <1>26 DEF M

\* Karatsuba's three products: of their sums and differences only what is lost by a multiple
\* of the modulus is lost, and that is above the words of the result.
LEMMA MulCorrect ==
  ASSUME NEW alo \in Snip!Words, NEW ahi \in Snip!Words,
         NEW blo \in Snip!Words, NEW bhi \in Snip!Words
  PROVE  Snip!i64_mul_impl(alo, ahi, blo, bhi)
           = Split(Long!Wrap(LongOf(alo, ahi) * LongOf(blo, bhi)))
<1> DEFINE M == Snip!Modulus
           z0 == Snip!mul32(alo, blo)
           z2 == Snip!mul32(ahi, bhi)
           sa == Snip!add32(alo, ahi)
           sb == Snip!add32(blo, bhi)
           z1 == Snip!mul32(sa[1], sb[1])
           z1a == IF sa[2] # 0 THEN Snip!add64(z1, 0, sb[1]) ELSE z1
           z1b == IF sb[2] # 0 THEN Snip!add64(z1a, 0, sa[1]) ELSE z1a
           inner == Snip!sub64(z1b, z0[1], z0[2])
           mid == Snip!sub64(inner, z2[1], z2[2])
           x == LongOf(alo, ahi) * LongOf(blo, bhi)
<1>1. M \in Nat \ {0} /\ Snip!Words = 0 .. M - 1 /\ Long!Modulus = M * M /\ 2^W = M
  BY WordFacts
<1>2. Snip!i64_mul_impl(alo, ahi, blo, bhi) = Snip!add64(z0, 0, mid[1])
  BY DEF Snip!i64_mul_impl
<1>3. PICK l0, h0 \in Snip!Words : z0 = <<l0, h0>> /\ alo * blo = l0 + M * h0
  BY Mul32
<1>4. PICK l2, h2 \in Snip!Words : z2 = <<l2, h2>> /\ ahi * bhi = l2 + M * h2
  BY Mul32
<1>5. \A u, v \in Snip!Words :
        LET t == Snip!add32(u, v)
        IN  t[1] \in Snip!Words /\ t[2] \in {0, 1} /\ u + v = t[1] + M * t[2]
  BY Carry
<1>6. /\ sa[1] \in Snip!Words /\ sa[2] \in {0, 1} /\ alo + ahi = sa[1] + M * sa[2]
      /\ sb[1] \in Snip!Words /\ sb[2] \in {0, 1} /\ blo + bhi = sb[1] + M * sb[2]
  BY <1>5
<1> DEFINE a1 == sa[1]
           a2 == sa[2]
           b1 == sb[1]
           b2 == sb[2]
<1>7. a1 \in Snip!Words /\ a2 \in {0, 1} /\ alo + ahi = a1 + M * a2
      /\ b1 \in Snip!Words /\ b2 \in {0, 1} /\ blo + bhi = b1 + M * b2
  BY <1>6
<1> HIDE DEF a1, a2, b1, b2
<1>8. \E l, h \in Snip!Words : Snip!mul32(a1, b1) = <<l, h>> /\ a1 * b1 = l + M * h
  BY <1>7, Mul32
<1>9. PICK l1, h1 \in Snip!Words : Snip!mul32(a1, b1) = <<l1, h1>> /\ a1 * b1 = l1 + M * h1
  BY <1>8
<1>10. z1 = <<l1, h1>>
  BY <1>9 DEF a1, b1
<1> HIDE DEF z0, z1, z2, sa, sb
<1>11. \A u \in Snip!Words : Snip!Wrap(u + 0) = u
  <2> TAKE u \in Snip!Words
  <2>1. u + 0 = u
    BY <1>1
  <2> QED BY <2>1, WrapWord
<1>12. z1b[1] = l1
  <2>1. \A t, v : t[1] = l1 => Snip!add64(t, 0, v)[1] = l1
    BY <1>11 DEF Snip!add64
  <2>2. z1[1] = l1
    BY <1>10
  <2>3. z1a[1] = l1
    BY <2>1, <2>2
  <2> HIDE DEF z1a
  <2> QED BY <2>1, <2>3
<1> HIDE DEF z1a, z1b
<1> DEFINE i1 == Snip!Wrap(l1 - l0)
           m1 == Snip!Wrap(i1 - l2)
<1>13. inner[1] = i1
  BY <1>3, <1>12 DEF Snip!sub64
<1> HIDE DEF inner
<1>14. mid[1] = m1
  BY <1>4, <1>13 DEF Snip!sub64
<1> HIDE DEF mid
<1>15. i1 \in Snip!Words /\ \E k \in Int : l1 - l0 = i1 + M * k
  <2>1. l1 - l0 \in Int
    BY <1>1, <1>3, <1>9
  <2> DEFINE y == l1 - l0
  <2> HIDE DEF y
  <2>2. y \in Int
    BY <2>1 DEF y
  <2>3. Snip!Wrap(y) \in Snip!Words /\ \E k \in Int : y = Snip!Wrap(y) + M * k
    BY <2>2, Wraps
  <2> QED BY <2>3 DEF y
<1>16. PICK k1 \in Int : l1 - l0 = i1 + M * k1
  BY <1>15
<1>17. m1 \in Snip!Words /\ \E k \in Int : i1 - l2 = m1 + M * k
  <2> DEFINE y == i1 - l2
  <2>1. y \in Int
    BY <1>1, <1>4, <1>15
  <2> HIDE DEF y
  <2>3. Snip!Wrap(y) \in Snip!Words /\ \E k \in Int : y = Snip!Wrap(y) + M * k
    BY <2>1, Wraps
  <2> QED BY <2>3 DEF y
<1>18. PICK k2 \in Int : i1 - l2 = m1 + M * k2
  BY <1>17
<1> HIDE DEF i1, m1
<1>19. Snip!add64(z0, 0, m1) = <<l0, Snip!Wrap(h0 + m1)>>
  <2>1. Snip!add32(l0, 0)[2] = 0
    <3>1. l0 + 0 = l0 /\ ~(l0 + 0 >= Snip!Modulus)
      BY <1>1, <1>3
    <3> QED BY <3>1 DEF Snip!add32, Snip!FromBool
  <2>2. Snip!Wrap(l0 + 0) = l0 /\ Snip!Wrap(m1 + 0) = m1
    BY <1>3, <1>11, <1>17
  <2>3. z0[1] = l0 /\ z0[2] = h0
    BY <1>3
  <2> QED BY <2>1, <2>2, <2>3 DEF Snip!add64
<1>20. Snip!i64_mul_impl(alo, ahi, blo, bhi) = <<l0, Snip!Wrap(h0 + m1)>>
  BY <1>2, <1>14, <1>19
<1> DEFINE y == h0 + m1
           h == Snip!Wrap(y)
<1>21. h \in Snip!Words /\ \E k \in Int : y = h + M * k
  <2>1. y \in Int
    BY <1>1, <1>3, <1>17
  <2> HIDE DEF y
  <2> QED BY <2>1, Wraps
<1>22. PICK k3 \in Int : h0 + m1 = h + M * k3
  BY <1>21
<1> HIDE DEF h, y
\* The middle product, but for a multiple of the modulus.
<1>23. \E k4 \in Int : alo * bhi + ahi * blo = m1 + M * k4
  <2> DEFINE c == a1 * b2 + a2 * b1 + M * (a2 * b2)
  <2>1. /\ alo \in Int /\ ahi \in Int /\ blo \in Int /\ bhi \in Int /\ M \in Int
        /\ a1 \in Int /\ a2 \in Int /\ b1 \in Int /\ b2 \in Int
        /\ l0 \in Int /\ h0 \in Int /\ l1 \in Int /\ h1 \in Int /\ l2 \in Int /\ h2 \in Int
        /\ m1 \in Int /\ i1 \in Int
    BY <1>1, <1>3, <1>4, <1>7, <1>9, <1>15, <1>17
  <2>2. (alo + ahi) * (blo + bhi) = a1 * b1 + M * c
    <3>1. (a1 + M * a2) * (b1 + M * b2) = a1 * b1 + M * c
      BY <2>1
    <3> QED BY <1>7, <3>1
  <2>3. (alo + ahi) * (blo + bhi) = alo * blo + (alo * bhi + ahi * blo) + ahi * bhi
    BY <2>1
  <2>4. c \in Int /\ alo * bhi + ahi * blo \in Int
    BY <2>1
  <2> DEFINE q == alo * bhi + ahi * blo
             k4 == c + h1 - h0 - h2 + k1 + k2
  <2>5. q \in Int /\ l0 + M * h0 + q + (l2 + M * h2) = l1 + M * h1 + M * c
    BY <1>3, <1>4, <1>9, <2>1, <2>2, <2>3
  <2> HIDE DEF c, q
  <2>6. q = (l1 - l0) - l2 + (M * h1 + M * c - M * h0 - M * h2)
    <3> DEFINE e0 == M * h0
               e1 == M * h1
               e2 == M * h2
               e3 == M * c
    <3>1. e0 \in Int /\ e1 \in Int /\ e2 \in Int /\ e3 \in Int
      BY <2>1, <2>4
    <3>2. l0 + e0 + q + (l2 + e2) = l1 + e1 + e3
      BY <2>5
    <3> HIDE DEF e0, e1, e2, e3
    <3>3. q = (l1 - l0) - l2 + (e1 + e3 - e0 - e2)
      BY <2>1, <2>5, <3>1, <3>2
    <3> QED BY <3>3 DEF e0, e1, e2, e3
  <2>7. (l1 - l0) - l2 = m1 + M * k1 + M * k2
    <3> DEFINE e1 == M * k1
               e2 == M * k2
    <3>1. e1 \in Int /\ e2 \in Int /\ l1 - l0 = i1 + e1 /\ i1 - l2 = m1 + e2
      BY <1>16, <1>18, <2>1
    <3> HIDE DEF e1, e2
    <3>2. (l1 - l0) - l2 = m1 + e1 + e2
      BY <2>1, <3>1
    <3> QED BY <3>2 DEF e1, e2
  <2>8. k4 \in Int /\ M * k4 = M * k1 + M * k2 + (M * h1 + M * c - M * h0 - M * h2)
    BY <2>1, <2>4
  <2>9. q = m1 + M * k4
    <3> DEFINE e1 == M * k1
               e2 == M * k2
               e3 == M * h1 + M * c - M * h0 - M * h2
               e4 == M * k4
    <3>1. e1 \in Int /\ e2 \in Int /\ e3 \in Int /\ e4 \in Int
      BY <2>1, <2>4, <2>8
    <3>2. e4 = e1 + e2 + e3 /\ (l1 - l0) - l2 = m1 + e1 + e2 /\ q = (l1 - l0) - l2 + e3
      BY <2>6, <2>7, <2>8
    <3> HIDE DEF e1, e2, e3, e4
    <3>3. q = m1 + e4
      BY <2>1, <2>5, <3>1, <3>2
    <3> QED BY <3>3 DEF e4
  <2> HIDE DEF k4
  <2> QED BY <2>8, <2>9 DEF q
<1>24. PICK k4 \in Int : alo * bhi + ahi * blo = m1 + M * k4
  BY <1>23
<1>25. x = l0 + M * h + (M * M) * (k3 + k4 + ahi * bhi) /\ x \in Int
  <2>1. /\ alo \in Int /\ ahi \in Int /\ blo \in Int /\ bhi \in Int /\ M \in Int
        /\ l0 \in Int /\ h0 \in Int /\ m1 \in Int /\ h \in Int
    BY <1>1, <1>3, <1>17, <1>21
  <2>2. x = (alo + M * ahi) * (blo + M * bhi)
    BY <1>1 DEF LongOf
  <2>3. (alo + M * ahi) * (blo + M * bhi)
          = alo * blo + M * (alo * bhi + ahi * blo) + (M * M) * (ahi * bhi)
    BY <2>1
  <2> DEFINE p == ahi * bhi
             q == alo * bhi + ahi * blo
             o == alo * blo
  <2>4. p \in Int /\ q = m1 + M * k4 /\ o = l0 + M * h0 /\ x = o + M * q + (M * M) * p
    BY <1>3, <1>24, <2>1, <2>2, <2>3
  <2> HIDE DEF p, q, o, x
  <2>5. x = l0 + M * h0 + M * (m1 + M * k4) + (M * M) * p
    BY <2>4
  <2>6. x = l0 + M * (h0 + m1) + (M * M) * k4 + (M * M) * p
    BY <2>1, <2>4, <2>5
  <2>7. x = l0 + M * (h + M * k3) + (M * M) * k4 + (M * M) * p
    BY <1>22, <2>6
  <2>8. x = l0 + M * h + (M * M) * (k3 + k4 + p)
    BY <2>1, <2>4, <2>7
  <2>9. x \in Int
    BY <2>1, <2>4, <2>8
  <2> QED BY <2>8, <2>9 DEF p
<1> DEFINE k == k3 + k4 + ahi * bhi
<1>26. k \in Int /\ x \in Int /\ x = l0 + Snip!Modulus * h + Long!Modulus * k
  BY <1>1, <1>25
<1> HIDE DEF x, k, M
<1>27. Split(Long!Wrap(x)) = <<l0, h>>
  BY <1>3, <1>21, <1>26, LongWrapIs
<1> QED BY <1>20, <1>27 DEF x, h, y

----------------------------------------------------------------------------
(* Shifts and rotations.                                                   *)

\* A word cut in two: what a shift to the left keeps of it, and what it loses, which is what
\* the shift by the other bits to the right keeps.
LEMMA Pieces ==
  ASSUME NEW n \in 0 .. W, NEW x \in Snip!Words
  PROVE  \E u \in 0 .. 2^n - 1, v \in 0 .. 2^(W - n) - 1 :
           /\ x = 2^(W - n) * u + v
           /\ Snip!Left(x, n) = 2^n * v /\ Snip!Right(x, W - n) = u
           /\ 2^n * v \in Snip!Words /\ u \in Snip!Words
<1> DEFINE M == Snip!Modulus
           P == 2^n
           Q == 2^(W - n)
           u == x \div Q
           v == x % Q
<1>1. P \in Nat \ {0} /\ Q \in Nat \ {0} /\ M = P * Q /\ M \in Nat \ {0}
      /\ Snip!Words = 0 .. M - 1 /\ x \in 0 .. M - 1
  BY Split2, WordFacts
<1>2. Snip!Left(x, n) = Snip!Wrap(x * P) /\ Snip!Right(x, W - n) = u
  BY DEF Snip!Left, Snip!Right
<1> HIDE DEF M, P, Q
<1>3. x \in Nat /\ x \in Int
  BY <1>1
<1>4. u \in Nat /\ v \in 0 .. Q - 1 /\ x = Q * u + v
  BY <1>1, <1>3, Divided
<1> HIDE DEF u, v
<1>5. u < P
  <2> SUFFICES ASSUME u >= P
               PROVE  FALSE
    BY <1>1, <1>4
  <2>1. Q * P <= Q * u
    BY <1>1, <1>4, Grows
  <2>2. Q * P = M /\ Q * u \in Int
    BY <1>1, <1>4
  <2> QED BY <1>1, <1>4, <2>1, <2>2
<1>6. P * v \in 0 .. M - 1
  <2>1. P * (v + 1) <= P * Q
    BY <1>1, <1>4, Grows
  <2>2. P * (v + 1) = P * v + P /\ P * v \in Nat
    BY <1>1, <1>4
  <2> QED BY <1>1, <2>1, <2>2
<1>7. Snip!Wrap(x * P) = P * v
  <2>1. x * P = P * v + M * u
    BY <1>1, <1>4
  <2> DEFINE y == P * v
  <2>2. y \in Snip!Words /\ u \in Int /\ x * P = y + M * u
    BY <1>1, <1>4, <1>6, <2>1
  <2> HIDE DEF y
  <2>3. Snip!Wrap(y + Snip!Modulus * u) = y
    BY <2>2, WrapIs
  <2> QED BY <2>2, <2>3 DEF y, M
<1>8. u \in 0 .. P - 1
  BY <1>1, <1>4, <1>5
<1>9. u \in 0 .. M - 1
  <2>1. P * 1 <= P * Q
    BY <1>1, Grows
  <2> QED BY <1>1, <1>8, <2>1
<1>10. P * v \in Snip!Words /\ u \in Snip!Words
  BY <1>1, <1>6, <1>9
<1>11. /\ x = Q * u + v /\ Snip!Left(x, n) = P * v /\ Snip!Right(x, W - n) = u
       /\ u \in 0 .. P - 1 /\ v \in 0 .. Q - 1
  BY <1>2, <1>4, <1>7, <1>8
<1> QED BY <1>10, <1>11 DEF P, Q

\* What one word keeps and what another loses have no bit in common.
LEMMA JoinIs ==
  ASSUME NEW n \in 0 .. W, NEW x \in Snip!Words, NEW y \in Snip!Words
  PROVE  LET a == Snip!Left(x, n)
             b == Snip!Right(y, W - n)
         IN  /\ a \in Snip!Words /\ b \in Snip!Words /\ a + b \in Snip!Words
             /\ Snip!Or(a, b) = a + b /\ Snip!Or(b, a) = a + b
<1>1. PICK u \in 0 .. 2^n - 1, v \in 0 .. 2^(W - n) - 1 :
        Snip!Left(x, n) = 2^n * v /\ 2^n * v \in Snip!Words
  BY Pieces
<1>2. PICK s \in 0 .. 2^n - 1, t \in 0 .. 2^(W - n) - 1 :
        Snip!Right(y, W - n) = s /\ s \in Snip!Words
  BY Pieces
<1>3. v \in Nat /\ s \in Nat /\ s < 2^n /\ v < 2^(W - n)
  BY Split2
<1> DEFINE a == 2^n * v
<1>4. a + s \in Snip!Words /\ Snip!Or(a, s) = a + s /\ Snip!Or(s, a) = a + s
  BY <1>3, OrSum
<1> QED BY <1>1, <1>2, <1>4

\* Two words shifted to the left by the bits of less than a word, and by those of a word more.
LEMMA LeftShift ==
  ASSUME NEW n \in 0 .. W, NEW alo \in Snip!Words, NEW ahi \in Snip!Words
  PROVE  LET A  == LongOf(alo, ahi)
             lo == Snip!Left(alo, n)
             hi == Snip!Left(ahi, n) + Snip!Right(alo, W - n)
         IN  /\ lo \in Snip!Words /\ hi \in Snip!Words
             /\ Long!Wrap(A * 2^n) = lo + Snip!Modulus * hi
             /\ Long!Wrap(A * 2^(W + n)) = Snip!Modulus * lo
<1> DEFINE M == Snip!Modulus
           P == 2^n
           Q == 2^(W - n)
           A == LongOf(alo, ahi)
           x == A * P
           y == A * 2^(W + n)
           lo == Snip!Left(alo, n)
           hi == Snip!Left(ahi, n) + Snip!Right(alo, W - n)
<1>1. P \in Nat \ {0} /\ Q \in Nat \ {0} /\ M = P * Q /\ M \in Nat \ {0} /\ M = 2^W
      /\ Snip!Words = 0 .. M - 1 /\ Long!Modulus = M * M
  BY Split2, WordFacts
<1>2. PICK u1 \in 0 .. P - 1, v1 \in 0 .. Q - 1 :
        alo = Q * u1 + v1 /\ lo = P * v1 /\ Snip!Right(alo, W - n) = u1
  BY Pieces
<1>3. PICK u2 \in 0 .. P - 1, v2 \in 0 .. Q - 1 :
        ahi = Q * u2 + v2 /\ Snip!Left(ahi, n) = P * v2
  BY Pieces
<1>4. lo \in Snip!Words /\ hi \in Snip!Words
  BY JoinIs
<1>5. A = alo + M * ahi
  BY <1>1 DEF LongOf
<1>6. 2^(W + n) = M * P
  <2>1. W \in 0 .. W
    BY WordFacts
  <2> QED BY <1>1, <2>1, Powers
<1>7. y = A * (M * P)
  BY <1>6
<1>8. hi = P * v2 + u1
  BY <1>2, <1>3
<1> HIDE DEF M, P, Q, A, x, y, lo, hi
<1>9. /\ u1 \in Int /\ v1 \in Int /\ u2 \in Int /\ v2 \in Int /\ alo \in Int /\ ahi \in Int
      /\ P \in Int /\ Q \in Int /\ M \in Int
  BY <1>1
<1>10. x = lo + M * hi + (M * M) * u2
  <2>1. x = (Q * u1 + v1) * P + M * ((Q * u2 + v2) * P)
    <3>1. x = (alo + M * ahi) * P
      BY <1>5 DEF x
    <3>2. (alo + M * ahi) * P = alo * P + M * (ahi * P)
      BY <1>9
    <3> QED BY <1>2, <1>3, <3>1, <3>2
  <2>2. (Q * u1 + v1) * P = M * u1 + P * v1 /\ (Q * u2 + v2) * P = M * u2 + P * v2
    BY <1>1, <1>9
  <2>3. x = M * u1 + P * v1 + M * (M * u2 + P * v2)
    BY <2>1, <2>2
  <2>4. M * u1 + P * v1 + M * (M * u2 + P * v2) = P * v1 + M * (P * v2 + u1) + (M * M) * u2
    BY <1>9
  <2> QED BY <1>2, <1>8, <2>3, <2>4
<1>11. x \in Int /\ lo \in Int /\ hi \in Int
  BY <1>1, <1>4, <1>9, <1>10
<1>12. Long!Wrap(x) = lo + M * hi
  <2>1. x = lo + Snip!Modulus * hi + Long!Modulus * u2
    BY <1>1, <1>10 DEF M
  <2> QED BY <1>4, <1>9, <1>11, <2>1, LongWrapIs DEF M
<1>13. y = 0 + M * lo + (M * M) * (hi + M * u2) /\ y \in Int
  <2>1. y = x * M
    BY <1>5, <1>7, <1>9 DEF x
  <2>2. (lo + M * hi + (M * M) * u2) * M = 0 + M * lo + (M * M) * (hi + M * u2)
    BY <1>9, <1>11
  <2>3. y \in Int
    BY <1>9, <1>11, <2>1
  <2> QED BY <1>10, <2>1, <2>2, <2>3
<1>14. Long!Wrap(y) = M * lo
  <2> DEFINE k == hi + M * u2
  <2>1. k \in Int /\ 0 \in Snip!Words
    BY <1>1, <1>9, <1>11
  <2>2. y = 0 + Snip!Modulus * lo + Long!Modulus * k
    BY <1>1, <1>13 DEF M
  <2> HIDE DEF k
  <2>3. Long!Wrap(y) = 0 + Snip!Modulus * lo
    BY <1>4, <1>13, <2>1, <2>2, LongWrapIs
  <2>4. 0 + M * lo = M * lo
    BY <1>9, <1>11
  <2> QED BY <2>3, <2>4 DEF M
<1> QED BY <1>4, <1>12, <1>14 DEF M, P, A, x, y, lo, hi

\* Two words shifted to the right; the higher one may be read with its sign.
LEMMA RightShift ==
  ASSUME NEW n \in 0 .. W, NEW alo \in Snip!Words, NEW ahi \in Snip!Words,
         NEW h \in Int, NEW k \in Int, h = ahi + Snip!Modulus * k
  PROVE  LET a  == alo + Snip!Modulus * h
             lo == Snip!Left(ahi, W - n) + Snip!Right(alo, n)
         IN  /\ lo \in Snip!Words
             /\ a \div 2^n = lo + Snip!Modulus * (h \div 2^n)
             /\ a \div 2^(W + n) = h \div 2^n
<1> DEFINE M == Snip!Modulus
           P == 2^n
           Q == 2^(W - n)
           a == alo + M * h
           lo == Snip!Left(ahi, W - n) + Snip!Right(alo, n)
           q == h \div P
<1>1. P \in Nat \ {0} /\ Q \in Nat \ {0} /\ M = P * Q /\ M \in Nat \ {0} /\ M = 2^W
      /\ Snip!Words = 0 .. M - 1 /\ W - n \in 0 .. W /\ W - (W - n) = n
  BY Split2, WordFacts
<1>2. PICK s1 \in 0 .. Q - 1, t1 \in 0 .. P - 1 :
        alo = P * s1 + t1 /\ Snip!Right(alo, n) = s1
  <2> DEFINE m == W - n
  <2>1. m \in 0 .. W /\ W - m = n
    BY <1>1
  <2> HIDE DEF m
  <2>2. \E s1 \in 0 .. 2^m - 1, t1 \in 0 .. 2^(W - m) - 1 :
          alo = 2^(W - m) * s1 + t1 /\ Snip!Right(alo, W - m) = s1
    BY <2>1, Pieces
  <2> QED BY <2>1, <2>2 DEF m
<1>3. PICK s2 \in 0 .. Q - 1, t2 \in 0 .. P - 1 :
        ahi = P * s2 + t2 /\ Snip!Left(ahi, W - n) = Q * t2
  <2> DEFINE m == W - n
  <2>1. m \in 0 .. W /\ W - m = n
    BY <1>1
  <2> HIDE DEF m
  <2>2. \E s2 \in 0 .. 2^m - 1, t2 \in 0 .. 2^(W - m) - 1 :
          ahi = 2^(W - m) * s2 + t2 /\ Snip!Left(ahi, m) = 2^m * t2
    BY <2>1, Pieces
  <2> QED BY <2>1, <2>2 DEF m
<1>4. lo \in Snip!Words
  <2> DEFINE m == W - n
  <2>1. m \in 0 .. W /\ W - m = n
    BY <1>1
  <2> HIDE DEF m
  <2>2. Snip!Left(ahi, m) + Snip!Right(alo, W - m) \in Snip!Words
    BY <2>1, JoinIs
  <2> QED BY <2>1, <2>2 DEF m
<1>5. lo = Q * t2 + s1
  BY <1>2, <1>3
<1>6. 2^(W + n) = M * P
  <2>1. W \in 0 .. W
    BY WordFacts
  <2> QED BY <1>1, <2>1, Powers
<1> HIDE DEF M, P, Q, lo
<1>7. /\ s1 \in Int /\ t1 \in Int /\ s2 \in Int /\ t2 \in Int /\ alo \in Int /\ ahi \in Int
      /\ P \in Int /\ Q \in Int /\ M \in Int /\ h = ahi + M * k
  BY <1>1 DEF M
<1>8. q = s2 + Q * k /\ q \in Int
  <2>1. h = P * (s2 + Q * k) + t2
    <3>1. P * (s2 + Q * k) + t2 = P * s2 + t2 + (P * Q) * k
      BY <1>7
    <3> QED BY <1>1, <1>3, <1>7, <3>1
  <2> DEFINE z == s2 + Q * k
  <2>2. z \in Int /\ h = P * z + t2 /\ t2 \in Nat /\ t2 < P /\ P \in Nat \ {0} /\ h \in Int
    BY <1>1, <1>7, <2>1
  <2> HIDE DEF z
  <2>3. h \div P = z
    BY <2>2, Unique
  <2> QED BY <2>2, <2>3 DEF z
<1>9. a = P * (lo + M * q) + t1
  <2>1. a = P * s1 + t1 + M * (P * s2 + t2 + M * k)
    BY <1>2, <1>3, <1>7
  <2>2. M * t2 = P * (Q * t2)
    BY <1>1, <1>7
  <2>3. M * (P * s2 + t2 + M * k) = P * (M * s2) + M * t2 + M * (M * k)
    BY <1>7
  <2>4. M * (M * k) = P * (M * (Q * k))
    BY <1>1, <1>7
  <2>5. P * (lo + M * q) = P * (Q * t2 + s1 + M * (s2 + Q * k))
    BY <1>5, <1>8
  <2>6. P * (Q * t2 + s1 + M * (s2 + Q * k))
          = P * (Q * t2) + P * s1 + P * (M * s2) + P * (M * (Q * k))
    BY <1>7
  <2> DEFINE e1 == P * s1
             e2 == P * (M * s2)
             e3 == M * t2
             e4 == M * (M * k)
             e5 == P * (lo + M * q)
             e6 == M * (P * s2 + t2 + M * k)
  <2>7. e1 \in Int /\ e2 \in Int /\ e3 \in Int /\ e4 \in Int
    BY <1>7
  <2>8. a = e1 + t1 + e6 /\ e6 = e2 + e3 + e4 /\ e5 = e3 + e1 + e2 + e4
    BY <2>1, <2>2, <2>3, <2>4, <2>5, <2>6
  <2> HIDE DEF e1, e2, e3, e4, e5, e6, a
  <2>9. a = e5 + t1
    BY <1>7, <2>7, <2>8
  <2> QED BY <2>9 DEF e5
<1>10. a \div P = lo + M * q
  <2> DEFINE z == lo + M * q
  <2>1. lo \in Int /\ q \in Int
    BY <1>1, <1>4, <1>8
  <2>2. a \in Int
    BY <1>7
  <2> HIDE DEF a, q
  <2>3. z \in Int /\ a = P * z + t1
    BY <1>7, <1>9, <2>1
  <2>4. t1 \in Nat /\ t1 < P /\ P \in Nat \ {0}
    BY <1>1
  <2> HIDE DEF z
  <2>5. a \div P = z
    BY <2>2, <2>3, <2>4, Unique
  <2> QED BY <2>5 DEF z
<1>11. a \div (M * P) = q
  <2>1. a \div M = h
    <3>1. /\ a = M * h + alo /\ a \in Int /\ alo \in Nat /\ alo < M
          /\ M \in Nat \ {0} /\ h \in Int
      BY <1>1, <1>7
    <3> HIDE DEF a
    <3> QED BY ONLY <3>1, Unique
  <2>2. a \in Int
    BY <1>7
  <2> HIDE DEF a, q
  <2>3. (a \div M) \div P = a \div (M * P)
    BY <1>1, <2>2, Cut
  <2> QED BY <2>1, <2>3 DEF q
<1> HIDE DEF a, q
<1> QED BY <1>4, <1>6, <1>10, <1>11 DEF a, q, M, P, lo

\* The amount of a shift is the lower word's alone.
LEMMA AmountIs ==
  ASSUME NEW blo \in Snip!Words, NEW bhi \in Snip!Words
  PROVE  /\ Snip!Amount(blo) \in 0 .. 2 * W - 1
         /\ Long!Shift(LongOf(blo, bhi)) = Snip!Amount(blo)
<1> DEFINE M == Snip!Modulus
           p == 2 * W
           c == M \div p
           b == LongOf(blo, bhi)
<1>1. M \in Nat \ {0} /\ Snip!Words = 0 .. M - 1 /\ M = 2^W /\ p \in Nat \ {0} /\ M % p = 0
  BY WordFacts, Powers
<1>2. b = blo + M * bhi
  BY <1>1 DEF LongOf
<1>3. Snip!Amount(blo) = blo % p /\ Long!Shift(b) = b % p
  BY DEF Snip!Amount, Long!Shift
<1> HIDE DEF M, p, b
<1>4. c \in Int /\ M = p * c
  <2>0. M \in Int /\ p \in Nat \ {0}
    BY <1>1
  <2>1. M = p * c + (M % p) /\ c \in Int
    BY <2>0, Divided
  <2> HIDE DEF c
  <2> QED BY <1>1, <2>1
<1> HIDE DEF c
<1>5. blo \in Int /\ bhi \in Int /\ p \in Int
  BY <1>1
<1>6. b = blo + p * (c * bhi) /\ c * bhi \in Int
  BY <1>2, <1>4, <1>5
<1>7. b % p = blo % p
  <2> DEFINE k == c * bhi
  <2>1. k \in Int /\ b = blo + p * k
    BY <1>6
  <2> HIDE DEF k
  <2> QED BY <1>1, <1>5, <2>1, Shifted
<1>8. blo % p \in 0 .. p - 1
  BY <1>1, <1>5, Divided
<1> QED BY <1>3, <1>7, <1>8 DEF p, b

\* A shift by nothing, or by a whole word.
LEMMA NoShift ==
  ASSUME NEW x \in Snip!Words
  PROVE  Snip!Left(x, 0) = x /\ Snip!Right(x, 0) = x /\ Snip!Right(x, W) = 0 /\ Snip!Left(x, W) = 0
<1>1. 2^0 = 1 /\ Snip!Modulus = 2^W /\ Snip!Modulus \in Nat \ {0} /\ x \in Nat
      /\ x < Snip!Modulus /\ 0 \in Snip!Words
  BY WordFacts, Powers
<1>2. x * 1 = x /\ x \div 1 = x
  BY <1>1
<1>3. Snip!Left(x, 0) = x
  BY <1>1, <1>2, WrapWord DEF Snip!Left
<1>4. Snip!Right(x, W) = 0
  BY <1>1, Small DEF Snip!Right
<1>5. Snip!Left(x, W) = 0
  <2> DEFINE M == Snip!Modulus
  <2>1. x * M = 0 + M * x
    BY <1>1
  <2>2. Snip!Wrap(0 + M * x) = 0
    BY <1>1, WrapIs
  <2> HIDE DEF M
  <2>3. Snip!Wrap(x * M) = 0
    BY <2>1, <2>2
  <2> QED BY <1>1, <2>3 DEF Snip!Left, M
<1> QED BY <1>1, <1>2, <1>3, <1>4, <1>5 DEF Snip!Right

\* i64_shl_impl.
LEMMA ShlCorrect ==
  ASSUME NEW alo \in Snip!Words, NEW ahi \in Snip!Words,
         NEW blo \in Snip!Words, NEW bhi \in Snip!Words
  PROVE  Snip!i64_shl_impl(alo, ahi, blo)
           = Split(Long!Wrap(LongOf(alo, ahi) * 2^Long!Shift(LongOf(blo, bhi))))
<1> DEFINE M == Snip!Modulus
           n == Snip!Amount(blo)
           A == LongOf(alo, ahi)
           full == Long!Wrap(A * 2^n)
           res == Snip!i64_shl_impl(alo, ahi, blo)
<1>1. W \in Nat \ {0} /\ M \in Nat \ {0} /\ Snip!Words = 0 .. M - 1
  BY WordFacts
<1>2. n \in 0 .. 2 * W - 1 /\ Long!Shift(LongOf(blo, bhi)) = n
  BY AmountIs
<1>3. /\ n = 0 => res = <<alo, ahi>>
      /\ n \in 1 .. W - 1 =>
           res = <<Snip!Left(alo, n), Snip!Or(Snip!Left(ahi, n), Snip!Right(alo, W - n))>>
      /\ n = W => res = <<0, alo>>
      /\ (n # 0 /\ n \notin 1 .. W - 1 /\ n # W) => res = <<0, Snip!Left(alo, n - W)>>
  BY <1>1 DEF Snip!i64_shl_impl
<1> HIDE DEF n, res, M, A
<1>4. CASE n \in 0 .. W - 1
  <2> DEFINE lo == Snip!Left(alo, n)
             a == Snip!Left(ahi, n)
             b == Snip!Right(alo, W - n)
             hi == a + b
  <2>1. n \in 0 .. W
    BY <1>1, <1>4
  <2>2. lo \in Snip!Words /\ hi \in Snip!Words /\ full = lo + M * hi
    BY <2>1, LeftShift DEF M, A
  <2>3. Snip!Or(a, b) = hi
    BY <2>1, JoinIs
  <2> DEFINE or == Snip!Or(a, b)
  <2>4. n \in 1 .. W - 1 => res = <<lo, or>>
    BY <1>3
  <2>5. n = 0 => lo = alo /\ hi = ahi
    <3> SUFFICES ASSUME n = 0
                 PROVE  lo = alo /\ a = ahi /\ b = 0 /\ ahi + 0 = ahi
      OBVIOUS
    <3>1. W - 0 = W /\ ahi + 0 = ahi
      BY <1>1
    <3> QED BY <3>1, NoShift
  <2>6. n = 0 => res = <<alo, ahi>>
    BY <1>3
  <2> HIDE DEF or, lo, hi, full
  <2>7. res = <<lo, hi>>
    BY <1>4, <2>3, <2>4, <2>5, <2>6 DEF or
  <2>8. Split(full) = <<lo, hi>>
    BY <2>2, SplitIs DEF M
  <2> QED BY <1>2, <2>7, <2>8 DEF full, res, A
<1>5. CASE n \notin 0 .. W - 1
  <2> DEFINE m == n - W
             lo == Snip!Left(alo, m)
  <2>1. m \in 0 .. W /\ n = W + m /\ n \in W .. 2 * W - 1
    BY <1>1, <1>2, <1>5
  <2> HIDE DEF m
  <2>2. lo \in Snip!Words /\ Long!Wrap(A * 2^(W + m)) = M * lo
    BY <2>1, LeftShift DEF M, A
  <2>3. full = 0 + M * lo /\ 0 \in Snip!Words
    <3>1. M * lo = 0 + M * lo
      BY <1>1, <2>2
    <3> QED BY <1>1, <2>1, <2>2, <3>1
  <2>4. res = <<0, lo>>
    <3>1. CASE n = W
      <4>1. m = 0
        BY <1>1, <2>1, <3>1
      <4>2. lo = alo
        BY <4>1, NoShift
      <4> QED BY <1>3, <3>1, <4>2
    <3>2. CASE n # W
      <4>1. n # 0 /\ n \notin 1 .. W - 1
        BY <1>1, <2>1
      <4> QED BY <1>3, <3>2, <4>1 DEF m
    <3> QED BY <3>1, <3>2
  <2> HIDE DEF lo, full
  <2>5. Split(full) = <<0, lo>>
    BY <2>2, <2>3, SplitIs DEF M
  <2> QED BY <1>2, <2>4, <2>5 DEF full, res, A
<1> QED BY <1>4, <1>5

\* The shift to the right of two words without a sign.
LEMMA UnsignedShift ==
  ASSUME NEW m \in 0 .. W, NEW alo \in Snip!Words, NEW ahi \in Snip!Words
  PROVE  LET A  == LongOf(alo, ahi)
             lo == Snip!Left(ahi, W - m) + Snip!Right(alo, m)
             hi == Snip!Right(ahi, m)
         IN  /\ lo \in Snip!Words /\ hi \in Snip!Words
             /\ A \div 2^m = lo + Snip!Modulus * hi /\ A \div 2^(W + m) = hi
             /\ Snip!Or(Snip!Right(alo, m), Snip!Left(ahi, W - m)) = lo
<1> DEFINE M == Snip!Modulus
           A == LongOf(alo, ahi)
<1>1. W \in Nat \ {0} /\ M \in Nat \ {0} /\ Snip!Words = 0 .. M - 1 /\ M = 2^W
  BY WordFacts
<1>2. A = alo + M * ahi
  BY <1>1 DEF LongOf
<1>3. ahi \in Int /\ 0 \in Int /\ ahi = ahi + M * 0
  BY <1>1
<1>4. LET a  == alo + M * ahi
          lo == Snip!Left(ahi, W - m) + Snip!Right(alo, m)
      IN  /\ lo \in Snip!Words
          /\ a \div 2^m = lo + M * (ahi \div 2^m)
          /\ a \div 2^(W + m) = ahi \div 2^m
  BY <1>3, RightShift
<1> DEFINE r == W - m
<1>5. r \in 0 .. W /\ W - r = m
  BY <1>1
<1> HIDE DEF r, A, M
<1>6. Snip!Or(Snip!Right(alo, W - r), Snip!Left(ahi, r))
        = Snip!Left(ahi, r) + Snip!Right(alo, W - r)
      /\ Snip!Right(ahi, W - r) \in Snip!Words
  BY <1>5, JoinIs
<1>7. Snip!Or(Snip!Right(alo, m), Snip!Left(ahi, W - m))
        = Snip!Left(ahi, W - m) + Snip!Right(alo, m)
      /\ Snip!Right(ahi, m) \in Snip!Words
  BY <1>5, <1>6 DEF r
<1> QED BY <1>2, <1>4, <1>7 DEF Snip!Right, A, M

\* i64_shr_u_impl.
LEMMA ShrUCorrect ==
  ASSUME NEW alo \in Snip!Words, NEW ahi \in Snip!Words,
         NEW blo \in Snip!Words, NEW bhi \in Snip!Words
  PROVE  Snip!i64_shr_u_impl(alo, ahi, blo)
           = Split(LongOf(alo, ahi) \div 2^Long!Shift(LongOf(blo, bhi)))
<1> DEFINE M == Snip!Modulus
           n == Snip!Amount(blo)
           A == LongOf(alo, ahi)
           full == A \div 2^n
           res == Snip!i64_shr_u_impl(alo, ahi, blo)
<1>1. W \in Nat \ {0} /\ M \in Nat \ {0} /\ Snip!Words = 0 .. M - 1 /\ M = 2^W
  BY WordFacts
<1>2. n \in 0 .. 2 * W - 1 /\ Long!Shift(LongOf(blo, bhi)) = n
  BY AmountIs
<1>3. /\ n = 0 => res = <<alo, ahi>>
      /\ n \in 1 .. W - 1 =>
           res = <<Snip!Or(Snip!Right(alo, n), Snip!Left(ahi, W - n)), Snip!Right(ahi, n)>>
      /\ n = W => res = <<ahi, 0>>
      /\ (n # 0 /\ n \notin 1 .. W - 1 /\ n # W) => res = <<Snip!Right(ahi, n - W), 0>>
  BY <1>1 DEF Snip!i64_shr_u_impl
<1>4. A = alo + M * ahi
  BY <1>1 DEF LongOf
<1> HIDE DEF n, res, M, A
<1>5. ASSUME NEW m \in 0 .. W
      PROVE  LET lo == Snip!Left(ahi, W - m) + Snip!Right(alo, m)
                 hi == Snip!Right(ahi, m)
             IN  /\ lo \in Snip!Words /\ hi \in Snip!Words
                 /\ A \div 2^m = lo + M * hi /\ A \div 2^(W + m) = hi
                 /\ Snip!Or(Snip!Right(alo, m), Snip!Left(ahi, W - m)) = lo
  BY UnsignedShift DEF A, M
<1>6. CASE n \in 0 .. W - 1
  <2> DEFINE a == Snip!Left(ahi, W - n)
             b == Snip!Right(alo, n)
             lo == a + b
             hi == Snip!Right(ahi, n)
  <2>1. n \in 0 .. W
    BY <1>1, <1>6
  <2>2. lo \in Snip!Words /\ hi \in Snip!Words /\ full = lo + M * hi /\ Snip!Or(b, a) = lo
    BY <1>5, <2>1
  <2> DEFINE or == Snip!Or(b, a)
  <2>4. n \in 1 .. W - 1 => res = <<or, hi>>
    BY <1>3
  <2>5. n = 0 => lo = alo /\ hi = ahi
    <3> SUFFICES ASSUME n = 0
                 PROVE  b = alo /\ a = 0 /\ 0 + alo = alo /\ hi = ahi
      OBVIOUS
    <3>1. W - 0 = W /\ 0 + alo = alo
      BY <1>1
    <3> QED BY <3>1, NoShift
  <2>6. n = 0 => res = <<alo, ahi>>
    BY <1>3
  <2> HIDE DEF or, lo, hi, full
  <2>7. res = <<lo, hi>>
    BY <1>6, <2>2, <2>4, <2>5, <2>6 DEF or
  <2>8. Split(full) = <<lo, hi>>
    BY <2>2, SplitIs DEF M
  <2> QED BY <1>2, <2>7, <2>8 DEF full, res, A
<1>7. CASE n \notin 0 .. W - 1
  <2> DEFINE m == n - W
             hi == Snip!Right(ahi, m)
  <2>1. m \in 0 .. W /\ n = W + m /\ n \in W .. 2 * W - 1
    BY <1>1, <1>2, <1>7
  <2> HIDE DEF m
  <2>2. hi \in Snip!Words /\ A \div 2^(W + m) = hi
    BY <1>5, <2>1
  <2>3. full = hi + M * 0 /\ 0 \in Snip!Words
    <3>1. hi = hi + M * 0
      BY <1>1, <2>2
    <3> QED BY <1>1, <2>1, <2>2, <3>1
  <2>4. res = <<hi, 0>>
    <3>1. CASE n = W
      <4>1. m = 0
        BY <1>1, <2>1, <3>1
      <4>2. hi = ahi
        BY <4>1, NoShift
      <4> QED BY <1>3, <3>1, <4>2
    <3>2. CASE n # W
      <4>1. n # 0 /\ n \notin 1 .. W - 1
        BY <1>1, <2>1
      <4> QED BY <1>3, <3>2, <4>1 DEF m
    <3> QED BY <3>1, <3>2
  <2> HIDE DEF hi, full
  <2>5. Split(full) = <<hi, 0>>
    BY <2>2, <2>3, SplitIs DEF M
  <2> QED BY <1>2, <2>4, <2>5 DEF full, res, A
<1> QED BY <1>6, <1>7

\* A quotient is between the dividend and zero.
LEMMA Floor ==
  ASSUME NEW p \in Nat \ {0}, NEW s \in Int
  PROVE  /\ s \div p \in Int
         /\ s < 0 => s <= s \div p /\ s \div p < 0
         /\ s >= 0 => 0 <= s \div p /\ s \div p <= s
<1> DEFINE q == s \div p
           r == s % p
<1>1. q \in Int /\ r \in 0 .. p - 1 /\ s = p * q + r
  BY Divided
<1> HIDE DEF q, r
<1>2. ASSUME s < 0
      PROVE  s <= q /\ q < 0
  <2>1. q < 0
    <3> SUFFICES ASSUME q >= 0
                 PROVE  FALSE
      BY <1>1
    <3>1. p * q \in Nat
      BY <1>1
    <3> QED BY <1>1, <1>2, <3>1
  <2>2. s <= q
    <3> SUFFICES ASSUME q <= s - 1
                 PROVE  FALSE
      BY <1>1
    <3>1. p * q <= p * (s - 1)
      BY <1>1, Grows
    <3>2. (p - 1) * s <= (p - 1) * 0
      <4>1. p - 1 \in Nat /\ s <= 0 /\ 0 \in Int
        BY <1>2
      <4> QED BY <4>1, Grows
    <3>3. (p - 1) * s = p * s - s /\ (p - 1) * 0 = 0 /\ p * (s - 1) = p * s - p
      OBVIOUS
    <3> DEFINE e == p * s
               f == p * q
    <3>4. e \in Int /\ f \in Int /\ f <= e - p /\ e - s <= 0 /\ s = f + r
      BY <1>1, <3>1, <3>2, <3>3
    <3> HIDE DEF e, f
    <3> QED BY <1>1, <3>4
  <2> QED BY <2>1, <2>2
<1>3. ASSUME s >= 0
      PROVE  0 <= q /\ q <= s
  <2>1. 0 <= q
    <3> SUFFICES ASSUME q <= 0 - 1
                 PROVE  FALSE
      BY <1>1
    <3>1. p * q <= p * (0 - 1)
      BY <1>1, Grows
    <3>2. p * (0 - 1) = 0 - p
      OBVIOUS
    <3> DEFINE f == p * q
    <3>3. f \in Int /\ f <= 0 - p /\ s = f + r
      BY <1>1, <3>1, <3>2
    <3> HIDE DEF f
    <3> QED BY <1>1, <1>3, <3>3
  <2>2. q * 1 <= q * p
    <3>1. q \in Nat /\ 1 <= p
      BY <1>1, <2>1
    <3> QED BY <3>1, Grows
  <2>3. q * 1 = q /\ q * p = p * q
    BY <1>1
  <2> DEFINE f == p * q
  <2>4. f \in Int /\ q <= f /\ s = f + r
    BY <1>1, <2>2, <2>3
  <2> HIDE DEF f
  <2> QED BY <1>1, <2>1, <2>4
<1> QED BY <1>1, <1>2, <1>3 DEF q

\* The sign of two words is the higher one's.
LEMMA SignedIs ==
  ASSUME NEW lo \in Snip!Words, NEW hi \in Snip!Words
  PROVE  LET s == Snip!Signed(hi)
         IN  /\ Long!Signed(LongOf(lo, hi)) = lo + Snip!Modulus * s
             /\ s \in Int /\ 0 - Snip!Modulus <= 2 * s /\ 2 * s < Snip!Modulus
             /\ \E k \in {0 - 1, 0} : s = hi + Snip!Modulus * k
             /\ s < 0 <=> 2 * hi >= Snip!Modulus
<1> DEFINE M == Snip!Modulus
           h == 2^(W - 1)
           x == LongOf(lo, hi)
           s == Snip!Signed(hi)
<1>1. M \in Nat \ {0} /\ Snip!Words = 0 .. M - 1 /\ M = 2^W /\ Long!Modulus = M * M
      /\ h \in Nat \ {0} /\ M = 2 * h
  BY WordFacts
<1>2. x = lo + M * hi
  BY <1>1 DEF LongOf
<1>3. s = IF 2 * hi >= M THEN hi - M ELSE hi
  BY DEF Snip!Signed
<1>4. Long!Signed(x) = IF 2 * x >= M * M THEN x - M * M ELSE x
  BY <1>1 DEF Long!Signed
<1> HIDE DEF M, h, x, s
<1>5. lo \in 0 .. M - 1 /\ hi \in 0 .. M - 1 /\ M \in Int
  BY <1>1
<1>6. CASE 2 * hi >= M
  <2>1. M * h <= M * hi
    <3>1. h <= hi
      BY <1>1, <1>5, <1>6
    <3> QED BY <1>1, <1>5, <3>1, Grows
  <2>2. 2 * x >= M * M
    <3>1. M * M = 2 * (M * h)
      BY <1>1
    <3> DEFINE e == M * h
               f == M * hi
               g == M * M
    <3>2. e \in Int /\ f \in Int /\ g \in Int /\ g = 2 * e /\ e <= f /\ x = lo + f
      <4>1. M \in Int /\ h \in Int /\ hi \in Int
        BY <1>1, <1>5
      <4>2. e \in Int /\ f \in Int /\ g \in Int
        BY ONLY <4>1
      <4> QED BY <1>2, <2>1, <3>1, <4>2
    <3> HIDE DEF e, f, g
    <3>3. 2 * x >= g
      BY <1>5, <3>2
    <3> QED BY <3>3 DEF g
  <2>3. lo + M * (hi - M) = (lo + M * hi) - M * M
    BY <1>5
  <2>4. Long!Signed(x) = lo + M * s
    <3>1. s = hi - M
      BY <1>3, <1>6
    <3>2. Long!Signed(x) = x - M * M
      BY <1>4, <2>2
    <3> DEFINE y == lo + M * hi
    <3>3. x = y
      BY <1>2
    <3>4. lo + M * (hi - M) = y - M * M
      BY <2>3
    <3> HIDE DEF y
    <3>5. Long!Signed(x) = y - M * M
      BY <3>2, <3>3
    <3> QED BY <3>1, <3>4, <3>5
  <2>5. s = hi + M * (0 - 1) /\ s = hi - M
    BY <1>3, <1>5, <1>6
  <2> QED BY <1>5, <1>6, <2>4, <2>5 DEF M, x, s
<1>7. CASE ~(2 * hi >= M)
  <2>1. M * (hi + 1) <= M * h
    <3>1. hi + 1 <= h
      BY <1>1, <1>5, <1>7
    <3> QED BY <1>1, <1>5, <3>1, Grows
  <2>2. ~(2 * x >= M * M)
    <3>1. M * M = 2 * (M * h) /\ M * (hi + 1) = M * hi + M
      BY <1>1, <1>5
    <3> DEFINE e == M * h
               f == M * hi
               g == M * M
    <3>2. e \in Int /\ f \in Int /\ g \in Int
      BY <1>1, <1>5
    <3>3. g = 2 * e /\ M * (hi + 1) <= e /\ M * (hi + 1) = f + M /\ x = lo + f
      BY <1>2, <2>1, <3>1
    <3> HIDE DEF e, f, g
    <3>4. ~(2 * x >= g)
      BY <1>5, <3>2, <3>3
    <3> QED BY <3>4 DEF g
  <2>4. Long!Signed(x) = lo + M * s
    BY <1>2, <1>3, <1>4, <1>7, <2>2
  <2>5. s = hi + M * 0 /\ s = hi
    BY <1>3, <1>5, <1>7
  <2> QED BY <1>5, <1>7, <2>4, <2>5 DEF M, x, s
<1> QED BY <1>6, <1>7

\* i64_shr_s_impl.
LEMMA ShrSCorrect ==
  ASSUME NEW alo \in Snip!Words, NEW ahi \in Snip!Words,
         NEW blo \in Snip!Words, NEW bhi \in Snip!Words
  PROVE  Snip!i64_shr_s_impl(alo, ahi, blo)
           = Split(Long!Wrap(Long!Signed(LongOf(alo, ahi)) \div 2^Long!Shift(LongOf(blo, bhi))))
<1> DEFINE M == Snip!Modulus
           n == Snip!Amount(blo)
           s == Snip!Signed(ahi)
           A == Long!Signed(LongOf(alo, ahi))
           full == A \div 2^n
           sign == IF s < 0 THEN M - 1 ELSE 0
           res == Snip!i64_shr_s_impl(alo, ahi, blo)
<1>1. W \in Nat \ {0} /\ M \in Nat \ {0} /\ Snip!Words = 0 .. M - 1 /\ Long!Modulus = M * M
      /\ Snip!MaxWord = M - 1
  BY WordFacts
<1>2. n \in 0 .. 2 * W - 1 /\ Long!Shift(LongOf(blo, bhi)) = n
  BY AmountIs
<1>3. /\ n = 0 => res = <<alo, ahi>>
      /\ n \in 1 .. W - 1 =>
           res = <<Snip!Or(Snip!Right(alo, n), Snip!Left(ahi, W - n)), Snip!SignedRight(ahi, n)>>
      /\ n = W => res = <<ahi, sign>>
      /\ (n # 0 /\ n \notin 1 .. W - 1 /\ n # W) =>
           res = <<Snip!SignedRight(ahi, n - W), sign>>
  BY <1>1 DEF Snip!i64_shr_s_impl
<1>4. A = alo + M * s /\ s \in Int /\ 0 - M <= 2 * s /\ 2 * s < M
  BY SignedIs
<1>5. PICK k \in {0 - 1, 0} : s = ahi + M * k
  BY SignedIs
<1> HIDE DEF n, res, M, A, s
<1>6. Snip!SignedRight(ahi, 0) = ahi
  <2>1. 2^0 = 1
    BY Powers
  <2>2. s \div 1 = s
    BY <1>4
  <2>3. Snip!SignedRight(ahi, 0) = Snip!Wrap(s)
    BY <2>1, <2>2 DEF Snip!SignedRight, s
  <2>4. Snip!Wrap(ahi + M * k) = ahi
    <3>1. k \in Int
      OBVIOUS
    <3> QED BY <3>1, WrapIs DEF M
  <2> QED BY <1>5, <2>3, <2>4
<1>7. ASSUME NEW m \in 0 .. W
      PROVE  LET lo == Snip!Left(ahi, W - m) + Snip!Right(alo, m)
                 q  == s \div 2^m
             IN  /\ lo \in Snip!Words /\ q \in Int
                 /\ A \div 2^m = lo + M * q /\ A \div 2^(W + m) = q
                 /\ Snip!Or(Snip!Right(alo, m), Snip!Left(ahi, W - m)) = lo
                 /\ s < 0 => 0 - M <= q /\ q < 0
                 /\ s >= 0 => 0 <= q /\ q < M
                 /\ Snip!SignedRight(ahi, m) = Snip!Wrap(q)
  <2>1. k \in Int /\ s = ahi + M * k
    BY <1>5
  <2>2. LET a  == alo + M * s
            lo == Snip!Left(ahi, W - m) + Snip!Right(alo, m)
        IN  /\ lo \in Snip!Words
            /\ a \div 2^m = lo + M * (s \div 2^m)
            /\ a \div 2^(W + m) = s \div 2^m
    BY <1>4, <2>1, RightShift DEF M
  <2> DEFINE r == W - m
  <2>3. r \in 0 .. W /\ W - r = m
    BY <1>1
  <2> HIDE DEF r
  <2>4. Snip!Or(Snip!Right(alo, W - r), Snip!Left(ahi, r))
          = Snip!Left(ahi, r) + Snip!Right(alo, W - r)
    BY <2>3, JoinIs
  <2>5. Snip!Or(Snip!Right(alo, m), Snip!Left(ahi, W - m))
          = Snip!Left(ahi, W - m) + Snip!Right(alo, m)
    BY <2>3, <2>4 DEF r
  <2> DEFINE p == 2^m
             q == s \div p
  <2>6. p \in Nat \ {0}
    BY Split2
  <2> HIDE DEF p
  <2>7. q \in Int /\ (s < 0 => s <= q /\ q < 0) /\ (s >= 0 => 0 <= q /\ q <= s)
    BY <1>4, <2>6, Floor
  <2> HIDE DEF q
  <2>8. (s < 0 => 0 - M <= q /\ q < 0) /\ (s >= 0 => 0 <= q /\ q < M)
    BY <1>1, <1>4, <2>7
  <2>9. Snip!SignedRight(ahi, m) = Snip!Wrap(q)
    BY DEF Snip!SignedRight, s, q, p
  <2> QED BY <1>4, <2>2, <2>5, <2>7, <2>8, <2>9 DEF q, p
<1>8. CASE n \in 0 .. W - 1
  <2> DEFINE a == Snip!Left(ahi, W - n)
             b == Snip!Right(alo, n)
             lo == a + b
             q == s \div 2^n
             hi == Snip!Wrap(q)
  <2>1. n \in 0 .. W
    BY <1>1, <1>8
  <2>2. lo \in Snip!Words /\ q \in Int /\ full = lo + M * q /\ Snip!Or(b, a) = lo
        /\ Snip!SignedRight(ahi, n) = hi
    BY <1>7, <2>1
  <2> DEFINE or == Snip!Or(b, a)
             sr == Snip!SignedRight(ahi, n)
  <2>4. n \in 1 .. W - 1 => res = <<or, sr>>
    BY <1>3
  <2>5. n = 0 => lo = alo /\ sr = ahi
    <3> SUFFICES ASSUME n = 0
                 PROVE  b = alo /\ a = 0 /\ 0 + alo = alo /\ sr = ahi
      OBVIOUS
    <3>1. W - 0 = W /\ 0 + alo = alo
      BY <1>1
    <3> QED BY <1>6, <3>1, NoShift
  <2>6. n = 0 => res = <<alo, ahi>>
    BY <1>3
  <2> HIDE DEF or, lo, sr, full, q
  <2>7. hi \in Snip!Words /\ \E j \in Int : q = hi + M * j
    BY <2>2, Wraps DEF M
  <2>8. PICK j \in Int : q = hi + M * j
    BY <2>7
  <2>9. hi \in Int
    BY <1>1, <2>7
  <2> HIDE DEF hi
  <2>10. res = <<lo, hi>>
    BY <1>8, <2>2, <2>4, <2>5, <2>6 DEF or, sr
  <2>11. full = lo + M * hi + (M * M) * j /\ full \in Int
    <3>1. lo \in Int /\ M \in Int
      BY <1>1, <2>2
    <3>2. M * (hi + M * j) = M * hi + (M * M) * j
      BY <2>9, <3>1
    <3>3. full = lo + (M * hi + (M * M) * j)
      BY <2>2, <2>8, <3>2
    <3> QED BY <2>9, <3>1, <3>3
  <2>12. full = lo + Snip!Modulus * hi + Long!Modulus * j
    BY <1>1, <2>11 DEF M
  <2>13. Split(Long!Wrap(full)) = <<lo, hi>>
    BY <2>2, <2>7, <2>11, <2>12, LongWrapIs DEF hi
  <2> QED BY <1>2, <2>10, <2>13 DEF full, res, A
<1>9. CASE n \notin 0 .. W - 1
  <2> DEFINE m == n - W
             q == s \div 2^m
             lo == Snip!Wrap(q)
  <2>1. m \in 0 .. W /\ n = W + m /\ n \in W .. 2 * W - 1
    BY <1>1, <1>2, <1>9
  <2> HIDE DEF m
  <2>2. /\ q \in Int /\ A \div 2^(W + m) = q
        /\ s < 0 => 0 - M <= q /\ q < 0
        /\ s >= 0 => 0 <= q /\ q < M
        /\ Snip!SignedRight(ahi, m) = lo
    BY <1>7, <2>1
  <2>3. full = q
    BY <2>1, <2>2
  <2>4. res = <<lo, sign>>
    <3>1. CASE n = W
      <4>1. m = 0
        BY <1>1, <2>1, <3>1
      <4>2. lo = ahi
        BY <1>6, <2>2, <4>1
      <4> QED BY <1>3, <3>1, <4>2
    <3>2. CASE n # W
      <4>1. n # 0 /\ n \notin 1 .. W - 1
        BY <1>1, <2>1
      <4>2. res = <<Snip!SignedRight(ahi, m), sign>>
        BY <1>3, <3>2, <4>1 DEF m
      <4> QED BY <2>2, <4>2
    <3> QED BY <3>1, <3>2
  <2> HIDE DEF q, full
  <2>5. sign \in Snip!Words /\ lo \in Snip!Words
        /\ \E j \in Int : q = lo + M * sign + (M * M) * j
    <3>1. CASE s < 0
      <4> DEFINE y == q + M
      <4>1. y \in Snip!Words /\ q = y + M * (0 - 1) /\ 0 - 1 \in Int
        BY <1>1, <2>2, <3>1
      <4> HIDE DEF y
      <4>2. lo = y
        <5>1. Snip!Wrap(y + M * (0 - 1)) = y
          BY <4>1, WrapIs DEF M
        <5> QED BY <4>1, <5>1
      <4>3. sign = M - 1
        BY <3>1
      <4> HIDE DEF lo, sign
      <4>4. y + M * (0 - 1) = y + M * (M - 1) + (M * M) * (0 - 1)
        BY <1>1, <4>1
      <4>5. q = lo + M * sign + (M * M) * (0 - 1)
        BY <4>1, <4>2, <4>3, <4>4
      <4> QED BY <1>1, <4>1, <4>2, <4>3, <4>5
    <3>2. CASE ~(s < 0)
      <4>1. q \in Snip!Words
        BY <1>1, <1>4, <2>2, <3>2
      <4>2. lo = q
        BY <4>1, WrapWord
      <4>3. sign = 0 /\ 0 \in Snip!Words
        BY <1>1, <3>2
      <4> HIDE DEF lo, sign
      <4>4. q = lo + M * sign + (M * M) * 0
        BY <1>1, <2>2, <4>2, <4>3
      <4> QED BY <4>1, <4>2, <4>3, <4>4
    <3> QED BY <3>1, <3>2
  <2>6. PICK j \in Int : q = lo + M * sign + (M * M) * j
    BY <2>5
  <2> HIDE DEF lo, sign
  <2>7. q = lo + Snip!Modulus * sign + Long!Modulus * j
    BY <1>1, <2>6 DEF M
  <2>8. Split(Long!Wrap(q)) = <<lo, sign>>
    BY <2>2, <2>5, <2>7, LongWrapIs
  <2> QED BY <1>2, <2>3, <2>4, <2>8 DEF full, res, A
<1> QED BY <1>8, <1>9

\* i64_rotl_impl: the bits that leave one word enter the other.
LEMMA RotlCorrect ==
  ASSUME NEW alo \in Snip!Words, NEW ahi \in Snip!Words,
         NEW blo \in Snip!Words, NEW bhi \in Snip!Words
  PROVE  LET s == Long!Shift(LongOf(blo, bhi))
         IN  Snip!i64_rotl_impl(alo, ahi, blo)
               = Split(Long!Wrap(LongOf(alo, ahi) * 2^s) + LongOf(alo, ahi) \div 2^(2 * W - s))
<1> DEFINE M == Snip!Modulus
           n == Snip!Amount(blo)
           A == LongOf(alo, ahi)
           full == Long!Wrap(A * 2^n) + A \div 2^(2 * W - n)
           res == Snip!i64_rotl_impl(alo, ahi, blo)
           L(x, k) == Snip!Left(x, k)
           R(x, k) == Snip!Right(x, k)
<1>1. W \in Nat \ {0} /\ M \in Nat \ {0} /\ Snip!Words = 0 .. M - 1
  BY WordFacts
<1>2. n \in 0 .. 2 * W - 1 /\ Long!Shift(LongOf(blo, bhi)) = n
  BY AmountIs
<1>3. /\ n = 0 => res = <<alo, ahi>>
      /\ n \in 1 .. W - 1 =>
           res = <<Snip!Or(L(alo, n), R(ahi, W - n)), Snip!Or(L(ahi, n), R(alo, W - n))>>
      /\ n = W => res = <<ahi, alo>>
      /\ (n # 0 /\ n \notin 1 .. W - 1 /\ n # W) =>
           res = <<Snip!Or(L(ahi, n - W), R(alo, W - (n - W))),
                   Snip!Or(L(alo, n - W), R(ahi, W - (n - W)))>>
  BY <1>1 DEF Snip!i64_rotl_impl
<1> HIDE DEF n, res, M, A
<1>4. ASSUME NEW m \in 0 .. W
      PROVE  LET x == L(alo, m) + R(ahi, W - m)
                 y == L(ahi, m) + R(alo, W - m)
             IN  /\ x \in Snip!Words /\ y \in Snip!Words
                 /\ Snip!Or(L(alo, m), R(ahi, W - m)) = x /\ Snip!Or(L(ahi, m), R(alo, W - m)) = y
                 /\ Long!Wrap(A * 2^m) + A \div 2^(W + (W - m)) = x + M * y
                 /\ Long!Wrap(A * 2^(W + m)) + A \div 2^(W - m) = y + M * x
  <2> DEFINE r == W - m
             a == L(alo, m)
             b == R(ahi, r)
             c == L(ahi, m)
             d == R(alo, r)
  <2>1. r \in 0 .. W /\ W - r = m
    BY <1>1
  <2>2. /\ a \in Snip!Words /\ b \in Snip!Words /\ a + b \in Snip!Words
        /\ c \in Snip!Words /\ d \in Snip!Words /\ c + d \in Snip!Words
        /\ Snip!Or(a, b) = a + b /\ Snip!Or(c, d) = c + d
    BY JoinIs
  <2>3. Long!Wrap(A * 2^m) = a + M * (c + d) /\ Long!Wrap(A * 2^(W + m)) = M * a
    BY LeftShift DEF A, M
  <2> HIDE DEF r
  <2>4. A \div 2^r = (Snip!Left(ahi, W - r) + d) + M * b /\ A \div 2^(W + r) = b
    BY <2>1, UnsignedShift DEF A, M
  <2>5. Snip!Left(ahi, W - r) = c
    BY <2>1
  <2> HIDE DEF a, b, c, d
  <2>6. Long!Wrap(A * 2^m) + A \div 2^(W + r) = (a + b) + M * (c + d)
    BY <1>1, <2>2, <2>3, <2>4
  <2>7. Long!Wrap(A * 2^(W + m)) + A \div 2^r = (c + d) + M * (a + b)
    <3>1. M * a + ((c + d) + M * b) = (c + d) + M * (a + b)
      BY <1>1, <2>2
    <3> QED BY <2>3, <2>4, <2>5, <3>1
  <2> QED BY <2>2, <2>6, <2>7 DEF a, b, c, d, r
<1> HIDE DEF L, R
<1>5. CASE n \in 0 .. W - 1
  <2> DEFINE x == L(alo, n) + R(ahi, W - n)
             y == L(ahi, n) + R(alo, W - n)
             ox == Snip!Or(L(alo, n), R(ahi, W - n))
             oy == Snip!Or(L(ahi, n), R(alo, W - n))
  <2>1. n \in 0 .. W /\ 2 * W - n = W + (W - n)
    BY <1>1, <1>5
  <2>2. x \in Snip!Words /\ y \in Snip!Words /\ ox = x /\ oy = y /\ full = x + M * y
    BY <1>4, <2>1
  <2>3. n \in 1 .. W - 1 => res = <<ox, oy>>
    BY <1>3
  <2>4. n = 0 => x = alo /\ y = ahi
    <3> SUFFICES ASSUME n = 0
                 PROVE  /\ L(alo, 0) = alo /\ L(ahi, 0) = ahi
                        /\ R(alo, W - 0) = 0 /\ R(ahi, W - 0) = 0
                        /\ alo + 0 = alo /\ ahi + 0 = ahi
      OBVIOUS
    <3>1. W - 0 = W /\ alo + 0 = alo /\ ahi + 0 = ahi
      BY <1>1
    <3> QED BY <3>1, NoShift DEF L, R
  <2>5. n = 0 => res = <<alo, ahi>>
    BY <1>3
  <2> HIDE DEF ox, oy, x, y, full
  <2>6. res = <<x, y>>
    BY <1>5, <2>2, <2>3, <2>4, <2>5
  <2>7. Split(full) = <<x, y>>
    BY <2>2, SplitIs DEF M
  <2> QED BY <1>2, <2>6, <2>7 DEF full, res, A
<1>6. CASE n \notin 0 .. W - 1
  <2> DEFINE m == n - W
             x == L(alo, m) + R(ahi, W - m)
             y == L(ahi, m) + R(alo, W - m)
             ox == Snip!Or(L(alo, m), R(ahi, W - m))
             oy == Snip!Or(L(ahi, m), R(alo, W - m))
  <2>1. m \in 0 .. W /\ n = W + m /\ n \in W .. 2 * W - 1 /\ 2 * W - n = W - m
    BY <1>1, <1>2, <1>6
  <2>2. x \in Snip!Words /\ y \in Snip!Words /\ ox = x /\ oy = y /\ full = y + M * x
    <3> HIDE DEF m
    <3> QED BY <1>4, <2>1
  <2>3. n # W => res = <<oy, ox>>
    <3>1. n # W => n # 0 /\ n \notin 1 .. W - 1
      BY <1>1, <2>1
    <3> QED BY <1>3, <3>1
  <2> HIDE DEF m
  <2>4. n = W => x = alo /\ y = ahi
    <3> SUFFICES ASSUME n = W
                 PROVE  /\ m = 0 /\ L(alo, 0) = alo /\ L(ahi, 0) = ahi
                        /\ R(alo, W - 0) = 0 /\ R(ahi, W - 0) = 0
                        /\ alo + 0 = alo /\ ahi + 0 = ahi
      OBVIOUS
    <3>1. W - 0 = W /\ alo + 0 = alo /\ ahi + 0 = ahi
      BY <1>1
    <3>2. m = 0
      BY <1>1, <2>1
    <3> QED BY <3>1, <3>2, NoShift DEF L, R
  <2>5. n = W => res = <<ahi, alo>>
    BY <1>3
  <2> HIDE DEF ox, oy, x, y, full
  <2>6. res = <<y, x>>
    BY <2>2, <2>3, <2>4, <2>5
  <2>7. Split(full) = <<y, x>>
    BY <2>2, SplitIs DEF M
  <2> QED BY <1>2, <2>6, <2>7 DEF full, res, A
<1> QED BY <1>5, <1>6

\* i64_rotr_impl, the same the other way around.
LEMMA RotrCorrect ==
  ASSUME NEW alo \in Snip!Words, NEW ahi \in Snip!Words,
         NEW blo \in Snip!Words, NEW bhi \in Snip!Words
  PROVE  LET s == Long!Shift(LongOf(blo, bhi))
         IN  Snip!i64_rotr_impl(alo, ahi, blo)
               = Split(LongOf(alo, ahi) \div 2^s + Long!Wrap(LongOf(alo, ahi) * 2^(2 * W - s)))
<1> DEFINE M == Snip!Modulus
           n == Snip!Amount(blo)
           A == LongOf(alo, ahi)
           full == A \div 2^n + Long!Wrap(A * 2^(2 * W - n))
           res == Snip!i64_rotr_impl(alo, ahi, blo)
           L(x, k) == Snip!Left(x, k)
           R(x, k) == Snip!Right(x, k)
<1>1. W \in Nat \ {0} /\ M \in Nat \ {0} /\ Snip!Words = 0 .. M - 1
  BY WordFacts
<1>2. n \in 0 .. 2 * W - 1 /\ Long!Shift(LongOf(blo, bhi)) = n
  BY AmountIs
<1>3. /\ n = 0 => res = <<alo, ahi>>
      /\ n \in 1 .. W - 1 =>
           res = <<Snip!Or(R(alo, n), L(ahi, W - n)), Snip!Or(R(ahi, n), L(alo, W - n))>>
      /\ n = W => res = <<ahi, alo>>
      /\ (n # 0 /\ n \notin 1 .. W - 1 /\ n # W) =>
           res = <<Snip!Or(R(ahi, n - W), L(alo, W - (n - W))),
                   Snip!Or(R(alo, n - W), L(ahi, W - (n - W)))>>
  BY <1>1 DEF Snip!i64_rotr_impl
<1> HIDE DEF n, res, M, A
<1>4. ASSUME NEW m \in 0 .. W
      PROVE  LET x == R(alo, m) + L(ahi, W - m)
                 y == R(ahi, m) + L(alo, W - m)
             IN  /\ x \in Snip!Words /\ y \in Snip!Words
                 /\ Snip!Or(R(alo, m), L(ahi, W - m)) = x /\ Snip!Or(R(ahi, m), L(alo, W - m)) = y
                 /\ A \div 2^m + Long!Wrap(A * 2^(W + (W - m))) = x + M * y
                 /\ A \div 2^(W + m) + Long!Wrap(A * 2^(W - m)) = y + M * x
  <2> DEFINE r == W - m
             a == R(alo, m)
             b == L(ahi, r)
             c == R(ahi, m)
             d == L(alo, r)
  <2>1. r \in 0 .. W /\ W - r = m
    BY <1>1
  <2> HIDE DEF r
  <2>2. /\ Snip!Left(ahi, r) \in Snip!Words /\ Snip!Right(alo, W - r) \in Snip!Words
        /\ Snip!Left(ahi, r) + Snip!Right(alo, W - r) \in Snip!Words
        /\ Snip!Or(Snip!Right(alo, W - r), Snip!Left(ahi, r))
             = Snip!Left(ahi, r) + Snip!Right(alo, W - r)
        /\ Snip!Left(alo, r) \in Snip!Words /\ Snip!Right(ahi, W - r) \in Snip!Words
        /\ Snip!Left(alo, r) + Snip!Right(ahi, W - r) \in Snip!Words
        /\ Snip!Or(Snip!Right(ahi, W - r), Snip!Left(alo, r))
             = Snip!Left(alo, r) + Snip!Right(ahi, W - r)
    BY <2>1, JoinIs
  <2>3. /\ a \in Snip!Words /\ b \in Snip!Words /\ b + a \in Snip!Words
        /\ c \in Snip!Words /\ d \in Snip!Words /\ d + c \in Snip!Words
        /\ Snip!Or(a, b) = b + a /\ Snip!Or(c, d) = d + c
    BY <2>1, <2>2
  <2>4. /\ Long!Wrap(A * 2^r) = d + M * (b + Snip!Right(alo, W - r))
        /\ Long!Wrap(A * 2^(W + r)) = M * d
    BY <2>1, LeftShift DEF A, M
  <2>5. A \div 2^m = (Snip!Left(ahi, W - m) + a) + M * c /\ A \div 2^(W + m) = c
    BY UnsignedShift DEF A, M
  <2>6. Snip!Left(ahi, W - m) = b /\ Snip!Right(alo, W - r) = a
    BY <2>1 DEF r
  <2> HIDE DEF a, b, c, d
  <2>7. a + b = b + a /\ c + d = d + c
    BY <1>1, <2>3
  <2>8. A \div 2^m + Long!Wrap(A * 2^(W + r)) = (a + b) + M * (c + d)
    <3>1. ((b + a) + M * c) + M * d = (a + b) + M * (c + d)
      BY <1>1, <2>3
    <3> QED BY <2>4, <2>5, <2>6, <3>1
  <2>9. A \div 2^(W + m) + Long!Wrap(A * 2^r) = (c + d) + M * (a + b)
    <3>1. c + (d + M * (b + a)) = (c + d) + M * (a + b)
      BY <1>1, <2>3
    <3> QED BY <2>4, <2>5, <2>6, <3>1
  <2> QED BY <2>3, <2>7, <2>8, <2>9 DEF a, b, c, d, r
<1> HIDE DEF L, R
<1>5. CASE n \in 0 .. W - 1
  <2> DEFINE x == R(alo, n) + L(ahi, W - n)
             y == R(ahi, n) + L(alo, W - n)
             ox == Snip!Or(R(alo, n), L(ahi, W - n))
             oy == Snip!Or(R(ahi, n), L(alo, W - n))
  <2>1. n \in 0 .. W /\ 2 * W - n = W + (W - n)
    BY <1>1, <1>5
  <2>2. x \in Snip!Words /\ y \in Snip!Words /\ ox = x /\ oy = y /\ full = x + M * y
    BY <1>4, <2>1
  <2>3. n \in 1 .. W - 1 => res = <<ox, oy>>
    BY <1>3
  <2>4. n = 0 => x = alo /\ y = ahi
    <3> SUFFICES ASSUME n = 0
                 PROVE  /\ R(alo, 0) = alo /\ R(ahi, 0) = ahi
                        /\ L(alo, W - 0) = 0 /\ L(ahi, W - 0) = 0
                        /\ alo + 0 = alo /\ ahi + 0 = ahi
      OBVIOUS
    <3>1. W - 0 = W /\ alo + 0 = alo /\ ahi + 0 = ahi
      BY <1>1
    <3> QED BY <3>1, NoShift DEF L, R
  <2>5. n = 0 => res = <<alo, ahi>>
    BY <1>3
  <2> HIDE DEF ox, oy, x, y, full
  <2>6. res = <<x, y>>
    BY <1>5, <2>2, <2>3, <2>4, <2>5
  <2>7. Split(full) = <<x, y>>
    BY <2>2, SplitIs DEF M
  <2> QED BY <1>2, <2>6, <2>7 DEF full, res, A
<1>6. CASE n \notin 0 .. W - 1
  <2> DEFINE m == n - W
             x == R(alo, m) + L(ahi, W - m)
             y == R(ahi, m) + L(alo, W - m)
             ox == Snip!Or(R(alo, m), L(ahi, W - m))
             oy == Snip!Or(R(ahi, m), L(alo, W - m))
  <2>1. m \in 0 .. W /\ n = W + m /\ n \in W .. 2 * W - 1 /\ 2 * W - n = W - m
    BY <1>1, <1>2, <1>6
  <2>2. x \in Snip!Words /\ y \in Snip!Words /\ ox = x /\ oy = y /\ full = y + M * x
    <3> HIDE DEF m
    <3> QED BY <1>4, <2>1
  <2>3. n # W => res = <<oy, ox>>
    <3>1. n # W => n # 0 /\ n \notin 1 .. W - 1
      BY <1>1, <2>1
    <3> QED BY <1>3, <3>1
  <2> HIDE DEF m
  <2>4. n = W => x = alo /\ y = ahi
    <3> SUFFICES ASSUME n = W
                 PROVE  /\ m = 0 /\ R(alo, 0) = alo /\ R(ahi, 0) = ahi
                        /\ L(alo, W - 0) = 0 /\ L(ahi, W - 0) = 0
                        /\ alo + 0 = alo /\ ahi + 0 = ahi
      OBVIOUS
    <3>1. W - 0 = W /\ alo + 0 = alo /\ ahi + 0 = ahi
      BY <1>1
    <3>2. m = 0
      BY <1>1, <2>1
    <3> QED BY <3>1, <3>2, NoShift DEF L, R
  <2>5. n = W => res = <<ahi, alo>>
    BY <1>3
  <2> HIDE DEF ox, oy, x, y, full
  <2>6. res = <<y, x>>
    BY <2>2, <2>3, <2>4, <2>5
  <2>7. Split(full) = <<y, x>>
    BY <2>2, SplitIs DEF M
  <2> QED BY <1>2, <2>6, <2>7 DEF full, res, A
<1> QED BY <1>5, <1>6

----------------------------------------------------------------------------
(* Division by a divisor of one word.                                      *)

\* A word shifted to the left by a bit, which another bit replaces.
LEMMA Doubled ==
  ASSUME NEW x \in Snip!Words, NEW b \in {0, 1}
  PROVE  LET y == Snip!Or(Snip!Left(x, 1), b)
             c == Snip!Right(x, W - 1)
         IN  /\ y \in Snip!Words /\ c \in {0, 1} /\ 2 * x + b = y + Snip!Modulus * c
             /\ b = 0 => y = Snip!Left(x, 1)
             /\ x < 2^(W - 1) => c = 0
<1> DEFINE M == Snip!Modulus
           h == 2^(W - 1)
<1>1. W \in Nat \ {0} /\ 2^1 = 2 /\ M \in Nat \ {0} /\ M = 2 * h /\ h \in Nat \ {0} /\ 1 \in 0 .. W
      /\ Snip!Words = 0 .. M - 1
  BY WordFacts, Powers
<1>2. PICK u \in 0 .. 2^1 - 1, v \in 0 .. 2^(W - 1) - 1 :
        /\ x = 2^(W - 1) * u + v
        /\ Snip!Left(x, 1) = 2^1 * v /\ Snip!Right(x, W - 1) = u
  <2> DEFINE n == 1
  <2>1. n \in 0 .. W
    BY <1>1
  <2> HIDE DEF n
  <2>2. \E u \in 0 .. 2^n - 1, v \in 0 .. 2^(W - n) - 1 :
          /\ x = 2^(W - n) * u + v
          /\ Snip!Left(x, n) = 2^n * v /\ Snip!Right(x, W - n) = u
    BY <2>1, Pieces
  <2> QED BY <2>2 DEF n
<1>3. v \in Nat /\ v < 2^(W - 1) /\ b \in Nat /\ b < 2^1 /\ u \in {0, 1}
  BY <1>1, <1>2
<1> DEFINE a == 2^1 * v
<1>4. a + b \in Snip!Words /\ Snip!Or(a, b) = a + b
  BY <1>1, <1>3, OrSum
<1>5. a = 2 * v /\ Snip!Left(x, 1) = a
  BY <1>1, <1>2
<1> HIDE DEF a, M, h
<1>6. 2 * x + b = (a + b) + M * u
  <2>1. x = h * u + v
    BY <1>2 DEF h
  <2> QED BY <1>1, <1>3, <1>5, <2>1
<1>7. x < h => u = 0
  <2> SUFFICES ASSUME x < h, u = 1
               PROVE  FALSE
    BY <1>3
  <2>1. x = h * 1 + v
    BY <1>2 DEF h
  <2> QED BY <1>1, <1>3, <2>1
<1>8. b = 0 => a + b = a
  BY <1>3, <1>5
<1> QED BY <1>2, <1>3, <1>4, <1>5, <1>6, <1>7, <1>8 DEF M, h

\* One bit more of a number.
LEMMA NextBit ==
  ASSUME NEW x \in Int, NEW i \in 0 .. W
  PROVE  /\ x \div 2^i = 2 * (x \div 2^(i + 1)) + Snip!Bit(x, i)
         /\ Snip!Bit(x, i) \in {0, 1} /\ 2^(i + 1) = 2^i * 2 /\ 2^i \in Nat \ {0}
<1> DEFINE p == 2^i
           y == x \div p
<1>1. W \in Nat \ {0} /\ 1 \in 0 .. W /\ i \in 0 .. 2 * W /\ 2^1 = 2
  BY Powers
<1>2. 2^(i + 1) = p * 2 /\ p \in Nat \ {0}
  BY <1>1, Powers
<1>3. Snip!Bit(x, i) = y % 2
  BY DEF Snip!Bit
<1> HIDE DEF p
<1>4. (x \div p) \div 2 = x \div (p * 2)
  <2>1. p \in Nat \ {0} /\ 2 \in Nat \ {0}
    BY <1>2
  <2> QED BY <2>1, Cut
<1>5. y \in Int
  BY <1>2
<1> HIDE DEF y
<1>6. y = 2 * (y \div 2) + (y % 2) /\ y % 2 \in {0, 1}
  BY <1>5
<1> QED BY <1>2, <1>3, <1>4, <1>6 DEF p, y

\* A round of div_mod_64_by_32.
DivModStep(prev, hi, lo, d, k) ==
  LET i == 2 * W - k
      r == Snip!Or(Snip!Left(prev.r, 1), IF i >= W THEN Snip!Bit(hi, i - W) ELSE Snip!Bit(lo, i))
  IN  IF r >= d THEN [q |-> Snip!Or(prev.q, 2^(i % W)), r |-> r - d]
                ELSE [q |-> prev.q, r |-> r]

\* The function of its first n rounds.
DivModRounds(f, hi, lo, d, n) ==
  f = [k \in 0 .. n |-> IF k = 0 THEN [q |-> 0, r |-> 0] ELSE DivModStep(f[k - 1], hi, lo, d, k)]

\* It has any number of rounds.
LEMMA DivModExists ==
  ASSUME NEW hi, NEW lo, NEW d
  PROVE  \A n \in Nat : \E f : DivModRounds(f, hi, lo, d, n)
<1> DEFINE S == {n \in Nat : \E f : DivModRounds(f, hi, lo, d, n)}
           start == [q |-> 0, r |-> 0]
<1>1. 0 \in S
  <2> DEFINE f == [k \in 0 .. 0 |-> start]
  <2>1. DivModRounds(f, hi, lo, d, 0)
    BY DEF DivModRounds
  <2> QED BY <2>1
<1>2. ASSUME NEW n \in Nat, n \in S
      PROVE  n + 1 \in S
  <2>1. PICK f : DivModRounds(f, hi, lo, d, n)
    BY <1>2
  <2> DEFINE g == [k \in 0 .. n + 1 |->
                     IF k = n + 1 THEN DivModStep(f[n], hi, lo, d, n + 1) ELSE f[k]]
  <2>2. ASSUME NEW k \in 0 .. n + 1
        PROVE  g[k] = IF k = 0 THEN start ELSE DivModStep(g[k - 1], hi, lo, d, k)
    <3>1. CASE k = n + 1
      <4>1. k # 0 /\ k - 1 = n /\ n \in 0 .. n + 1 /\ n # n + 1
        BY <3>1
      <4>2. g[k] = DivModStep(f[n], hi, lo, d, k) /\ g[n] = f[n]
        BY <3>1, <4>1
      <4> QED BY <4>1, <4>2
    <3>2. CASE k \in 0 .. n
      <4>1. f[k] = IF k = 0 THEN start ELSE DivModStep(f[k - 1], hi, lo, d, k)
        BY <2>1, <3>2 DEF DivModRounds
      <4>2. g[k] = f[k] /\ (k # 0 => g[k - 1] = f[k - 1])
        BY <3>2
      <4> QED BY <4>1, <4>2
    <3> QED BY <3>1, <3>2
  <2>3. DivModRounds(g, hi, lo, d, n + 1)
    <3> HIDE DEF g
    <3>1. g = [k \in 0 .. n + 1 |-> g[k]]
      BY DEF g
    <3> QED BY <2>2, <3>1 DEF DivModRounds
  <2> QED BY <2>3
<1> HIDE DEF S
<1>3. Nat \subseteq S
  BY <1>1, <1>2, SetInduction
<1> QED BY <1>3 DEF S

\* It is the last of 2W rounds.
LEMMA DivModUnfolds ==
  ASSUME NEW hi, NEW lo, NEW d
  PROVE  \E f : /\ f[0] = [q |-> 0, r |-> 0]
                /\ \A k \in 1 .. 2 * W : f[k] = DivModStep(f[k - 1], hi, lo, d, k)
                /\ Snip!div_mod_64_by_32(hi, lo, d) = f[2 * W]
<1> DEFINE F == CHOOSE f : f = [k \in 0 .. 2 * W |->
                  IF k = 0 THEN [q |-> 0, r |-> 0] ELSE DivModStep(f[k - 1], hi, lo, d, k)]
<1>1. Snip!div_mod_64_by_32(hi, lo, d) = F[2 * W]
  BY DEF Snip!div_mod_64_by_32, DivModStep
<1>2. 2 * W \in Nat
  BY WordFacts
<1>3. \E f : f = [k \in 0 .. 2 * W |->
                  IF k = 0 THEN [q |-> 0, r |-> 0] ELSE DivModStep(f[k - 1], hi, lo, d, k)]
  <2>1. \E f : DivModRounds(f, hi, lo, d, 2 * W)
    BY <1>2, DivModExists
  <2> QED BY <2>1 DEF DivModRounds
<1>4. F = [k \in 0 .. 2 * W |->
             IF k = 0 THEN [q |-> 0, r |-> 0] ELSE DivModStep(F[k - 1], hi, lo, d, k)]
  BY <1>3
<1> HIDE DEF F
<1>5. /\ F[0] = [q |-> 0, r |-> 0]
      /\ \A k \in 1 .. 2 * W : F[k] = DivModStep(F[k - 1], hi, lo, d, k)
  <2>1. 0 \in 0 .. 2 * W /\ \A k \in 1 .. 2 * W : k \in 0 .. 2 * W /\ k # 0
    BY <1>2
  <2>2. F[0] = [q |-> 0, r |-> 0]
    BY <1>4, <2>1
  <2>3. ASSUME NEW k \in 1 .. 2 * W
        PROVE  F[k] = DivModStep(F[k - 1], hi, lo, d, k)
    BY <1>4, <2>1
  <2> QED BY <2>2, <2>3
<1> QED BY <1>1, <1>5

\* A remainder below a divisor of less than a word, with the next bit of the dividend: the bit
\* that Left loses is zero.
LEMMA NextRemainder ==
  ASSUME NEW r \in Nat, NEW d \in Nat, r < d, d <= 2^(W - 1), NEW b \in {0, 1}
  PROVE  Snip!Or(Snip!Left(r, 1), b) = 2 * r + b
<1> DEFINE M == Snip!Modulus
           h == 2^(W - 1)
           y == Snip!Or(Snip!Left(r, 1), b)
           c == Snip!Right(r, W - 1)
<1>1. M \in Nat \ {0} /\ M = 2 * h /\ h \in Nat \ {0} /\ Snip!Words = 0 .. M - 1 /\ r < h
  BY WordFacts
<1>2. r \in Snip!Words
  <2> HIDE DEF M, h
  <2> QED BY <1>1
<1>3. y \in Snip!Words /\ 2 * r + b = y + M * c /\ c = 0
  BY <1>1, <1>2, Doubled
<1> HIDE DEF y, M, c
<1>4. y = 2 * r + b
  BY <1>1, <1>3
<1> QED BY <1>4 DEF y

\* While the rounds read the higher word, below the divisor, they only move its bits.
DivModHigh(f, hi, k) == f[k].q = 0 /\ f[k].r = hi \div 2^(W - k)

\* After j more rounds the divisor times the quotient so far and the remainder are the bits
\* read; the quotient's bits are at the top of the word.
DivModLow(f, hi, lo, d, j) ==
  \E u \in Nat :
    /\ u < 2^j /\ f[W + j].r \in 0 .. d - 1
    /\ hi * 2^j + lo \div 2^(W - j) = u * d + f[W + j].r
    /\ f[W + j].q = u * 2^(W - j)

\* One round reading the higher word.
LEMMA DivModHighStep ==
  ASSUME NEW f, NEW hi \in Snip!Words, NEW lo \in Snip!Words, NEW d \in Nat, hi < d,
         d <= 2^(W - 1), NEW k \in 0 .. W - 1, DivModHigh(f, hi, k),
         f[k + 1] = DivModStep(f[k], hi, lo, d, k + 1)
  PROVE  DivModHigh(f, hi, k + 1)
<1> DEFINE i == W - (k + 1)
           r == f[k].r
           b == Snip!Bit(hi, i)
           y == Snip!Or(Snip!Left(r, 1), b)
<1>1. /\ W \in Nat \ {0} /\ i \in 0 .. W /\ 2 * W - (k + 1) >= W /\ (2 * W - (k + 1)) - W = i
      /\ i + 1 = W - k /\ hi \in Nat
  BY WordFacts
<1>2. f[k].q = 0 /\ r = hi \div 2^(i + 1)
  BY <1>1 DEF DivModHigh
<1>3. hi \div 2^i = 2 * r + b /\ b \in {0, 1} /\ 2^i \in Nat \ {0} /\ 2^(i + 1) \in Nat \ {0}
  <2> HIDE DEF i, b
  <2>1. /\ hi \div 2^i = 2 * (hi \div 2^(i + 1)) + Snip!Bit(hi, i)
        /\ Snip!Bit(hi, i) \in {0, 1} /\ 2^(i + 1) = 2^i * 2 /\ 2^i \in Nat \ {0}
    BY <1>1, NextBit
  <2> QED BY <1>2, <2>1 DEF b
<1>4. r \in Nat /\ r <= hi /\ hi \div 2^i <= hi /\ hi \div 2^i \in Nat
  <2> DEFINE p == 2^i
             p2 == 2^(i + 1)
  <2>1. p \in Nat \ {0} /\ p2 \in Nat \ {0} /\ hi \in Int /\ hi >= 0
    BY <1>1, <1>3
  <2> HIDE DEF p, p2
  <2>2. 0 <= hi \div p /\ hi \div p <= hi /\ 0 <= hi \div p2 /\ hi \div p2 <= hi
        /\ hi \div p \in Int /\ hi \div p2 \in Int
    BY <2>1, Floor
  <2> QED BY <1>2, <2>2 DEF p, p2
<1> HIDE DEF r, b
<1>5. y = hi \div 2^i
  <2>1. r < d
    BY <1>1, <1>4
  <2>2. y = 2 * r + b
    BY <1>3, <1>4, <2>1, NextRemainder
  <2> QED BY <1>3, <2>2
<1>6. ~(y >= d)
  BY <1>1, <1>4, <1>5
<1>7. f[k + 1] = IF y >= d THEN [q |-> Snip!Or(f[k].q, 2^((2 * W - (k + 1)) % W)), r |-> y - d]
                            ELSE [q |-> f[k].q, r |-> y]
  BY <1>1 DEF DivModStep, r, b
<1> HIDE DEF y
<1>8. f[k + 1].q = 0 /\ f[k + 1].r = y
  BY <1>2, <1>6, <1>7
<1> QED BY <1>5, <1>8 DEF DivModHigh

\* One round reading the lower word.
LEMMA DivModLowStep ==
  ASSUME NEW f, NEW hi \in Snip!Words, NEW lo \in Snip!Words, NEW d \in Nat,
         d <= 2^(W - 1), NEW j \in 0 .. W - 1, DivModLow(f, hi, lo, d, j),
         f[W + (j + 1)] = DivModStep(f[W + j], hi, lo, d, W + (j + 1))
  PROVE  DivModLow(f, hi, lo, d, j + 1)
<1> DEFINE i == W - (j + 1)
           g == f[W + j]
           r == g.r
           b == Snip!Bit(lo, i)
           y == Snip!Or(Snip!Left(r, 1), b)
           P == 2^j
           Q == 2^i
           L == lo \div 2^(i + 1)
           L2 == lo \div 2^i
<1>1. /\ W \in Nat \ {0} /\ i \in 0 .. W /\ i + 1 \in 0 .. W /\ j \in 0 .. W
      /\ ~(2 * W - (W + (j + 1)) >= W) /\ 2 * W - (W + (j + 1)) = i
      /\ i + 1 = W - j /\ W - (i + 1) = j /\ hi \in Nat /\ lo \in Nat /\ i < W /\ i \in Nat
  BY WordFacts
<1>2. PICK u \in Nat :
        u < P /\ r \in 0 .. d - 1 /\ hi * P + L = u * d + r /\ g.q = u * 2^(i + 1)
  BY <1>1 DEF DivModLow
<1>3. L2 = 2 * L + b /\ b \in {0, 1} /\ 2^(i + 1) = Q * 2 /\ Q \in Nat \ {0}
      /\ 2^(j + 1) = P * 2 /\ P \in Nat \ {0}
  <2> HIDE DEF i
  <2>1. lo \in Int
    BY <1>1
  <2>2. /\ lo \div 2^i = 2 * (lo \div 2^(i + 1)) + Snip!Bit(lo, i)
        /\ Snip!Bit(lo, i) \in {0, 1} /\ 2^(i + 1) = 2^i * 2 /\ 2^i \in Nat \ {0}
    BY <1>1, <2>1, NextBit
  <2>3. 2^(j + 1) = 2^j * 2 /\ 2^j \in Nat \ {0}
    BY <1>1, <2>1, NextBit
  <2> QED BY <2>2, <2>3
<1>4. L \in Nat
  <2>1. 2^(i + 1) \in Nat \ {0}
    BY <1>3
  <2> DEFINE p == 2^(i + 1)
  <2>2. p \in Nat \ {0}
    BY <2>1
  <2> HIDE DEF p
  <2>3. lo \div p \in Nat
    BY <1>1, <2>2
  <2> QED BY <2>3 DEF p
<1>5. i % W = i
  <2> HIDE DEF i
  <2> QED BY <1>1, Small
<1>6. f[W + (j + 1)] = IF y >= d THEN [q |-> Snip!Or(g.q, Q), r |-> y - d]
                                 ELSE [q |-> g.q, r |-> y]
  BY <1>1, <1>5 DEF DivModStep
<1>7. Snip!Or(u * 2^(i + 1), Q) = (2 * u + 1) * Q
  <2> DEFINE n == i + 1
             a == 2^n * u
  <2>1. n \in 0 .. W /\ W - n = j /\ 2^n = Q * 2
    BY <1>1, <1>3
  <2>2. u < 2^(W - n) /\ Q < 2^n /\ Q \in Nat
    <3> HIDE DEF n, i, Q
    <3> QED BY <1>2, <1>3, <2>1
  <2> HIDE DEF n, Q
  <2>3. Snip!Or(a, Q) = a + Q
    BY <2>1, <2>2, OrSum
  <2>4. u * 2^n = a
    BY <2>1, <2>2
  <2>5. a + Q = (2 * u + 1) * Q
    BY <2>1, <2>2
  <2> QED BY <2>3, <2>4, <2>5 DEF n
<1> HIDE DEF g, r, b, P, Q, L, L2
<1>8. y = 2 * r + b
  <2>1. r \in Nat /\ r < d
    BY <1>2
  <2> QED BY <1>3, <2>1, NextRemainder
<1> HIDE DEF y
<1>9. hi * (P * 2) + L2 = (2 * u) * d + y
  <2>1. hi * (P * 2) = 2 * (hi * P) /\ (2 * u) * d = 2 * (u * d)
    BY <1>1, <1>3
  <2> DEFINE e == hi * P
             h == u * d
  <2>2. e \in Int /\ h \in Int /\ e + L = h + r
    BY <1>1, <1>2, <1>3
  <2>3. r \in Int /\ b \in Int
    BY <1>2, <1>3
  <2> HIDE DEF e, h
  <2>4. 2 * e + L2 = 2 * h + y
    BY <1>3, <1>4, <1>8, <2>2, <2>3
  <2> QED BY <2>1, <2>4 DEF e, h
<1>10. y \in Nat /\ y <= 2 * d - 1
  BY <1>2, <1>3, <1>8
<1> DEFINE F == f[W + (j + 1)]
<1>11. CASE y >= d
  <2> DEFINE v == 2 * u + 1
  <2>1. F.q = v * Q /\ F.r = y - d
    BY <1>2, <1>6, <1>7, <1>11
  <2>2. v \in Nat /\ v < P * 2 /\ y - d \in 0 .. d - 1
    BY <1>2, <1>3, <1>10, <1>11
  <2>3. hi * (P * 2) + L2 = v * d + (y - d)
    <3>1. v * d + (y - d) = (2 * u) * d + y
      BY <1>10
    <3> QED BY <1>9, <3>1
  <2> HIDE DEF v, F
  <2>4. v \in Nat /\ v < 2^(j + 1) /\ F.r \in 0 .. d - 1
        /\ hi * 2^(j + 1) + L2 = v * d + F.r /\ F.q = v * Q
    BY <1>3, <2>1, <2>2, <2>3
  <2> QED BY <2>4 DEF DivModLow, F, Q, L2
<1>12. CASE ~(y >= d)
  <2> DEFINE v == 2 * u
  <2>1. F.q = u * 2^(i + 1) /\ F.r = y
    BY <1>2, <1>6, <1>12
  <2>2. v \in Nat /\ v < P * 2 /\ y \in 0 .. d - 1 /\ u * (Q * 2) = v * Q
    BY <1>2, <1>3, <1>10, <1>12
  <2>3. hi * (P * 2) + L2 = v * d + y
    BY <1>9
  <2> HIDE DEF v, F
  <2>4. v \in Nat /\ v < 2^(j + 1) /\ F.r \in 0 .. d - 1
        /\ hi * 2^(j + 1) + L2 = v * d + F.r /\ F.q = v * Q
    BY <1>3, <2>1, <2>2, <2>3
  <2> QED BY <2>4 DEF DivModLow, F, Q, L2
<1> QED BY <1>11, <1>12

\* div_mod_64_by_32 divides, when the higher word is below the divisor and the divisor has no
\* bit at the top.
LEMMA DivModCorrect ==
  ASSUME NEW hi \in Snip!Words, NEW lo \in Snip!Words, NEW d \in Nat, hi < d, d <= 2^(W - 1)
  PROVE  LET res == Snip!div_mod_64_by_32(hi, lo, d)
         IN  /\ res.q \in Snip!Words /\ res.r \in 0 .. d - 1
             /\ lo + Snip!Modulus * hi = d * res.q + res.r
<1>1. /\ W \in Nat \ {0} /\ Snip!Modulus = 2^W /\ 2^0 = 1 /\ Snip!Modulus \in Nat \ {0}
      /\ Snip!Words = 0 .. Snip!Modulus - 1 /\ lo \in Nat /\ hi \in Nat /\ lo < Snip!Modulus
      /\ hi < Snip!Modulus
  BY WordFacts, Powers
<1>2. PICK f : /\ f[0] = [q |-> 0, r |-> 0]
               /\ \A k \in 1 .. 2 * W : f[k] = DivModStep(f[k - 1], hi, lo, d, k)
               /\ Snip!div_mod_64_by_32(hi, lo, d) = f[2 * W]
  BY DivModUnfolds
<1>3. DivModHigh(f, hi, W)
  <2> DEFINE S == {k \in Nat : k <= W => DivModHigh(f, hi, k)}
  <2>1. 0 \in S
    <3>1. hi \div 2^W = 0
      BY <1>1, Small
    <3>2. W - 0 = W
      BY <1>1
    <3>3. DivModHigh(f, hi, 0)
      BY <1>2, <3>1, <3>2 DEF DivModHigh
    <3> QED BY <3>3
  <2>2. ASSUME NEW k \in Nat, k \in S
        PROVE  k + 1 \in S
    <3> SUFFICES ASSUME k + 1 <= W
                 PROVE  DivModHigh(f, hi, k + 1)
      OBVIOUS
    <3>1. k \in 0 .. W - 1 /\ k + 1 \in 1 .. 2 * W /\ (k + 1) - 1 = k /\ DivModHigh(f, hi, k)
      BY <1>1, <2>2
    <3>2. f[k + 1] = DivModStep(f[k], hi, lo, d, k + 1)
      BY <1>2, <3>1
    <3> QED BY <3>1, <3>2, DivModHighStep
  <2> HIDE DEF S
  <2>3. Nat \subseteq S
    BY <2>1, <2>2, SetInduction
  <2>4. W \in S
    BY <1>1, <2>3
  <2> QED BY <1>1, <2>4 DEF S
<1>4. DivModLow(f, hi, lo, d, W)
  <2> DEFINE S == {j \in Nat : j <= W => DivModLow(f, hi, lo, d, j)}
  <2>1. 0 \in S
    <3>1. lo \div 2^W = 0 /\ hi \div 1 = hi
      BY <1>1, Small
    <3>2. W - W = 0 /\ W - 0 = W /\ W + 0 = W
      BY <1>1
    <3>3. f[W].q = 0 /\ f[W].r = hi
      BY <1>1, <1>3, <3>1, <3>2 DEF DivModHigh
    <3> DEFINE u == 0
               M == 2^W
    <3>4. M \in Nat /\ u \in Nat /\ u < 1 /\ hi \in 0 .. d - 1 /\ hi * 1 + 0 = u * d + hi /\ u * M = 0
      BY <1>1
    <3> HIDE DEF u, M
    <3>5. /\ u < 2^0 /\ f[W + 0].r \in 0 .. d - 1
          /\ hi * 2^0 + lo \div 2^(W - 0) = u * d + f[W + 0].r
          /\ f[W + 0].q = u * 2^(W - 0)
      BY <1>1, <3>1, <3>2, <3>3, <3>4 DEF M
    <3>6. DivModLow(f, hi, lo, d, 0)
      BY <3>4, <3>5 DEF DivModLow
    <3> QED BY <3>6
  <2>2. ASSUME NEW j \in Nat, j \in S
        PROVE  j + 1 \in S
    <3> SUFFICES ASSUME j + 1 <= W
                 PROVE  DivModLow(f, hi, lo, d, j + 1)
      OBVIOUS
    <3>1. j \in 0 .. W - 1 /\ W + (j + 1) \in 1 .. 2 * W /\ (W + (j + 1)) - 1 = W + j
          /\ DivModLow(f, hi, lo, d, j)
      BY <1>1, <2>2
    <3>2. f[W + (j + 1)] = DivModStep(f[W + j], hi, lo, d, W + (j + 1))
      BY <1>2, <3>1
    <3> QED BY <3>1, <3>2, DivModLowStep
  <2> HIDE DEF S
  <2>3. Nat \subseteq S
    BY <2>1, <2>2, SetInduction
  <2>4. W \in S
    BY <1>1, <2>3
  <2> QED BY <1>1, <2>4 DEF S
<1> DEFINE res == f[W + W]
           M == Snip!Modulus
<1>5. PICK u \in Nat : u < M /\ res.r \in 0 .. d - 1
                       /\ hi * M + lo \div 2^(W - W) = u * d + res.r /\ res.q = u * 2^(W - W)
  BY <1>1, <1>4 DEF DivModLow
<1>6. 2^(W - W) = 1 /\ W + W = 2 * W
  BY <1>1
<1>7. lo \div 1 = lo /\ u * 1 = u
  BY <1>1
<1> HIDE DEF res, M
<1>8. res.q = u /\ hi * M + lo = u * d + res.r
  BY <1>5, <1>6, <1>7
<1>9. res.q \in Snip!Words /\ lo + M * hi = d * res.q + res.r
  <2>1. M \in Nat \ {0} /\ Snip!Words = 0 .. M - 1
    BY <1>1 DEF M
  <2> QED BY <1>1, <1>5, <1>8, <2>1
<1> QED BY <1>2, <1>5, <1>6, <1>9 DEF res, M

----------------------------------------------------------------------------
(* Long division.                                                          *)

\* Two words shifted to the left by a bit, which another bit replaces.
LEMMA DoubledPair ==
  ASSUME NEW lo \in Snip!Words, NEW hi \in Snip!Words, NEW b \in {0, 1}
  PROVE  LET lo2 == Snip!Or(Snip!Left(lo, 1), b)
             hi2 == Snip!Or(Snip!Left(hi, 1), Snip!Right(lo, W - 1))
             c   == Snip!Right(hi, W - 1)
         IN  /\ lo2 \in Snip!Words /\ hi2 \in Snip!Words /\ c \in {0, 1}
             /\ 2 * LongOf(lo, hi) + b = LongOf(lo2, hi2) + Long!Modulus * c
             /\ b = 0 => lo2 = Snip!Left(lo, 1)
<1> DEFINE M == Snip!Modulus
           lo2 == Snip!Or(Snip!Left(lo, 1), b)
           e == Snip!Right(lo, W - 1)
           hi2 == Snip!Or(Snip!Left(hi, 1), e)
           c == Snip!Right(hi, W - 1)
<1>1. M \in Nat \ {0} /\ Snip!Words = 0 .. M - 1 /\ Long!Modulus = M * M /\ M = 2^W
  BY WordFacts
<1>2. /\ lo2 \in Snip!Words /\ e \in {0, 1} /\ 2 * lo + b = lo2 + M * e
      /\ b = 0 => lo2 = Snip!Left(lo, 1)
  BY Doubled
<1> HIDE DEF e
<1>3. hi2 \in Snip!Words /\ c \in {0, 1} /\ 2 * hi + e = hi2 + M * c
  BY <1>2, Doubled
<1>4. LongOf(lo, hi) = lo + M * hi /\ LongOf(lo2, hi2) = lo2 + M * hi2
  BY <1>1 DEF LongOf
<1> HIDE DEF M, lo2, hi2, c
<1>5. 2 * (lo + M * hi) + b = (lo2 + M * hi2) + (M * M) * c
  <2>1. M * (2 * hi + e) = M * (hi2 + M * c)
    BY <1>3
  <2>2. 2 * (lo + M * hi) + b = (2 * lo + b) + M * (2 * hi)
    <3>1. lo \in Int /\ hi \in Int /\ b \in Int /\ M \in Int
      BY <1>1
    <3> QED BY ONLY <3>1
  <2>3. lo2 + M * e + M * (2 * hi) = lo2 + M * (2 * hi + e)
    BY <1>1, <1>2
  <2>4. lo2 + M * (hi2 + M * c) = (lo2 + M * hi2) + (M * M) * c
    <3>1. lo2 \in Int /\ hi2 \in Int /\ c \in Int /\ M \in Int
      BY <1>1, <1>2, <1>3
    <3> QED BY <3>1
  <2> QED BY <1>2, <2>1, <2>2, <2>3, <2>4
<1> QED BY <1>1, <1>2, <1>3, <1>4, <1>5 DEF M, lo2, hi2, c, e

\* The order of two words: the lower ones decide when the higher ones are equal.
LEMMA PairOrder ==
  ASSUME NEW alo \in Snip!Words, NEW ahi \in Snip!Words,
         NEW blo \in Snip!Words, NEW bhi \in Snip!Words
  PROVE  /\ LongOf(alo, ahi) \in Nat /\ LongOf(alo, ahi) < Long!Modulus
         /\ LongOf(alo, ahi) >= LongOf(blo, bhi) <=> (ahi > bhi \/ (ahi = bhi /\ alo >= blo))
         /\ LongOf(alo, ahi) < LongOf(blo, bhi) <=> (ahi < bhi \/ (ahi = bhi /\ alo < blo))
<1> DEFINE M == Snip!Modulus
           a == alo + M * ahi
           b == blo + M * bhi
<1>1. M \in Nat \ {0} /\ Snip!Words = 0 .. M - 1 /\ Long!Modulus = M * M /\ M = 2^W
  BY WordFacts
<1>2. LongOf(alo, ahi) = a /\ LongOf(blo, bhi) = b
  BY <1>1 DEF LongOf
<1>3. a \in Nat /\ a < Long!Modulus
  BY SplitIs
<1> HIDE DEF M
<1>4. alo \in 0 .. M - 1 /\ ahi \in 0 .. M - 1 /\ blo \in 0 .. M - 1 /\ bhi \in 0 .. M - 1
  BY <1>1
<1>5. ahi > bhi => a > b
  <2> SUFFICES ASSUME ahi > bhi
               PROVE  a > b
    OBVIOUS
  <2>1. M * (bhi + 1) <= M * ahi
    BY <1>1, <1>4, Grows
  <2>2. M * (bhi + 1) = M * bhi + M
    BY <1>1, <1>4
  <2> DEFINE x == M * ahi
             y == M * bhi
  <2>3. x \in Int /\ y \in Int /\ y + M <= x
    <3>1. x \in Int /\ y \in Int
      BY <1>1, <1>4
    <3>2. M * (bhi + 1) <= x /\ M * (bhi + 1) = y + M
      BY <2>1, <2>2
    <3> QED BY <3>1, <3>2
  <2> HIDE DEF x, y
  <2>4. alo + x > blo + y
    BY <1>1, <1>4, <2>3
  <2> QED BY <2>4 DEF x, y
<1>6. ahi < bhi => a < b
  <2> SUFFICES ASSUME ahi < bhi
               PROVE  a < b
    OBVIOUS
  <2>1. M * (ahi + 1) <= M * bhi
    BY <1>1, <1>4, Grows
  <2>2. M * (ahi + 1) = M * ahi + M
    BY <1>1, <1>4
  <2> DEFINE x == M * ahi
             y == M * bhi
  <2>3. x \in Int /\ y \in Int /\ x + M <= y
    <3>1. x \in Int /\ y \in Int
      BY <1>1, <1>4
    <3>2. M * (ahi + 1) <= y /\ M * (ahi + 1) = x + M
      BY <2>1, <2>2
    <3> QED BY <3>1, <3>2
  <2> HIDE DEF x, y
  <2>4. alo + x < blo + y
    BY <1>1, <1>4, <2>3
  <2> QED BY <2>4 DEF x, y
<1>7. ahi = bhi => (a >= b <=> alo >= blo)
  <2> SUFFICES ASSUME ahi = bhi
               PROVE  a >= b <=> alo >= blo
    OBVIOUS
  <2> DEFINE x == M * ahi
  <2>1. x \in Int /\ a = alo + x /\ b = blo + x
    BY <1>1, <1>4
  <2> HIDE DEF x, a, b
  <2> QED BY <1>4, <2>1
<1>8. a \in Int /\ b \in Int
  BY <1>1, <1>4
<1> HIDE DEF a, b
<1>9. (a >= b <=> (ahi > bhi \/ (ahi = bhi /\ alo >= blo)))
      /\ (a < b <=> (ahi < bhi \/ (ahi = bhi /\ alo < blo)))
  BY <1>4, <1>5, <1>6, <1>7, <1>8
<1> QED BY <1>2, <1>3, <1>9

\* sub64, where the difference is not negative.
LEMMA Sub64 ==
  ASSUME NEW alo \in Snip!Words, NEW ahi \in Snip!Words,
         NEW blo \in Snip!Words, NEW bhi \in Snip!Words,
         LongOf(alo, ahi) >= LongOf(blo, bhi)
  PROVE  LET t == Snip!sub64(<<alo, ahi>>, blo, bhi)
         IN  /\ t[1] \in Snip!Words /\ t[2] \in Snip!Words
             /\ LongOf(t[1], t[2]) = LongOf(alo, ahi) - LongOf(blo, bhi)
<1> DEFINE M == Snip!Modulus
           A == LongOf(alo, ahi)
           B == LongOf(blo, bhi)
           lo == Snip!Wrap(alo - blo)
           c == Snip!FromBool(alo < blo)
           y == bhi + c
           j == Snip!Wrap(y)
           z == ahi - j
           hi == Snip!Wrap(z)
<1>1. M \in Nat \ {0} /\ Snip!Words = 0 .. M - 1 /\ Long!Modulus = M * M /\ M = 2^W
  BY WordFacts
<1>2. Snip!sub64(<<alo, ahi>>, blo, bhi) = <<lo, hi>>
  BY DEF Snip!sub64
<1>3. lo \in Snip!Words /\ c \in {0, 1} /\ alo - blo = lo - M * c
  BY Borrow
<1>4. A = alo + M * ahi /\ B = blo + M * bhi /\ LongOf(lo, hi) = lo + M * hi
  BY <1>1 DEF LongOf
<1>5. A \in Nat /\ B \in Nat /\ A < Long!Modulus /\ A >= B
  BY PairOrder
<1> HIDE DEF M, lo, c, A, B
<1>6. y \in Int
  BY <1>1, <1>3
<1> HIDE DEF y
<1>7. j \in Snip!Words /\ \E k \in Int : y = j + M * k
  BY <1>6, Wraps DEF M
<1>8. PICK k1 \in Int : y = j + M * k1
  BY <1>7
<1> HIDE DEF j
<1>9. z \in Int
  BY <1>1, <1>7
<1> HIDE DEF z
<1>10. hi \in Snip!Words /\ \E k \in Int : z = hi + M * k
  BY <1>9, Wraps DEF M
<1>11. PICK k2 \in Int : z = hi + M * k2
  BY <1>10
<1> HIDE DEF hi
<1> DEFINE x == lo + M * hi
           k == k2 - k1
           N == M * M
<1>12. A - B = x + N * k
  <2>1. A - B = (alo - blo) + M * (ahi - bhi)
    <3>1. alo \in Int /\ ahi \in Int /\ blo \in Int /\ bhi \in Int /\ M \in Int
      BY <1>1
    <3>2. (alo + M * ahi) - (blo + M * bhi) = (alo - blo) + M * (ahi - bhi)
      BY ONLY <3>1
    <3> QED BY <1>4, <3>2
  <2>2. ahi - bhi = hi + M * k2 - M * k1 + c
    <3> DEFINE e1 == M * k1
               e2 == M * k2
    <3>1. e1 \in Int /\ e2 \in Int /\ y = j + e1 /\ z = hi + e2
      <4>1. M \in Int
        BY <1>1
      <4>2. e1 \in Int /\ e2 \in Int
        BY ONLY <4>1, k1 \in Int, k2 \in Int
      <4> QED BY <1>8, <1>11, <4>2
    <3> HIDE DEF e1, e2
    <3>2. bhi + c = j + e1 /\ ahi - j = hi + e2
      BY <3>1 DEF y, z
    <3>3. ahi - bhi = hi + e2 - e1 + c
      BY <1>1, <1>3, <1>7, <1>10, <3>1, <3>2
    <3> QED BY <3>3 DEF e1, e2
  <2>3. A - B = (lo - M * c) + M * (hi + M * k2 - M * k1 + c)
    BY <1>3, <2>1, <2>2
  <2>4. (lo - M * c) + M * (hi + M * k2 - M * k1 + c) = x + N * k
    <3>1. lo \in Int /\ hi \in Int /\ c \in Int /\ M \in Int
      BY <1>1, <1>3, <1>10
    <3> QED BY <3>1
  <2> QED BY <2>3, <2>4
<1>13. x \in Nat /\ x < N
  BY <1>1, <1>3, <1>10, SplitIs DEF M
<1>14. k \in Int /\ N \in Nat \ {0} /\ A < N
  BY <1>1, <1>5
<1> HIDE DEF x, k, N
<1>15. k = 0
  <2> DEFINE d == A - B
  <2>1. d \in Nat /\ d < N /\ d = N * k + x
    BY <1>5, <1>12, <1>13, <1>14
  <2> HIDE DEF d
  <2>2. d \div N = k
    BY <1>13, <1>14, <2>1, Unique
  <2>3. d \div N = 0
    BY <1>14, <2>1, Small
  <2> QED BY <2>2, <2>3
<1>16. A - B = x
  BY <1>12, <1>13, <1>14, <1>15
<1> QED BY <1>2, <1>3, <1>4, <1>10, <1>16 DEF x, A, B

\* A round of div64_with_remainder.
Div64Step(p, dlo, dhi) ==
  LET rhi == Snip!Or(Snip!Left(p.rhi, 1), Snip!Right(p.rlo, W - 1))
      rlo == Snip!Or(Snip!Left(p.rlo, 1), Snip!Right(p.nhi, W - 1))
      ge  == rhi > dhi \/ (rhi = dhi /\ rlo >= dlo)
      r   == IF ge THEN Snip!sub64(<<rlo, rhi>>, dlo, dhi) ELSE <<rlo, rhi>>
  IN  [nlo |-> Snip!Left(p.nlo, 1),
       nhi |-> Snip!Or(Snip!Left(p.nhi, 1), Snip!Right(p.nlo, W - 1)),
       rlo |-> r[1], rhi |-> r[2],
       qlo |-> Snip!Or(Snip!Left(p.qlo, 1), Snip!FromBool(ge)),
       qhi |-> Snip!Or(Snip!Left(p.qhi, 1), Snip!Right(p.qlo, W - 1))]

Div64Start(nlo, nhi) ==
  [nlo |-> nlo, nhi |-> nhi, rlo |-> 0, rhi |-> 0, qlo |-> 0, qhi |-> 0]

\* The function of its first n rounds.
Div64Rounds(f, nlo, nhi, dlo, dhi, n) ==
  f = [k \in 0 .. n |-> IF k = 0 THEN Div64Start(nlo, nhi) ELSE Div64Step(f[k - 1], dlo, dhi)]

\* It has any number of rounds.
LEMMA Div64Exists ==
  ASSUME NEW nlo, NEW nhi, NEW dlo, NEW dhi
  PROVE  \A n \in Nat : \E f : Div64Rounds(f, nlo, nhi, dlo, dhi, n)
<1> DEFINE S == {n \in Nat : \E f : Div64Rounds(f, nlo, nhi, dlo, dhi, n)}
           start == Div64Start(nlo, nhi)
<1>1. 0 \in S
  <2> DEFINE f == [k \in 0 .. 0 |-> start]
  <2>1. Div64Rounds(f, nlo, nhi, dlo, dhi, 0)
    BY DEF Div64Rounds
  <2> QED BY <2>1
<1>2. ASSUME NEW n \in Nat, n \in S
      PROVE  n + 1 \in S
  <2>1. PICK f : Div64Rounds(f, nlo, nhi, dlo, dhi, n)
    BY <1>2
  <2> DEFINE g == [k \in 0 .. n + 1 |->
                     IF k = n + 1 THEN Div64Step(f[n], dlo, dhi) ELSE f[k]]
  <2>2. ASSUME NEW k \in 0 .. n + 1
        PROVE  g[k] = IF k = 0 THEN start ELSE Div64Step(g[k - 1], dlo, dhi)
    <3>1. CASE k = n + 1
      <4>1. k # 0 /\ k - 1 = n /\ n \in 0 .. n + 1 /\ n # n + 1
        BY <3>1
      <4>2. g[k] = Div64Step(f[n], dlo, dhi) /\ g[n] = f[n]
        BY <3>1, <4>1
      <4> QED BY <4>1, <4>2
    <3>2. CASE k \in 0 .. n
      <4>1. f[k] = IF k = 0 THEN start ELSE Div64Step(f[k - 1], dlo, dhi)
        BY <2>1, <3>2 DEF Div64Rounds
      <4>2. g[k] = f[k] /\ (k # 0 => g[k - 1] = f[k - 1])
        BY <3>2
      <4> QED BY <4>1, <4>2
    <3> QED BY <3>1, <3>2
  <2>3. Div64Rounds(g, nlo, nhi, dlo, dhi, n + 1)
    <3> HIDE DEF g
    <3>1. g = [k \in 0 .. n + 1 |-> g[k]]
      BY DEF g
    <3> QED BY <2>2, <3>1 DEF Div64Rounds
  <2> QED BY <2>3
<1> HIDE DEF S
<1>3. Nat \subseteq S
  BY <1>1, <1>2, SetInduction
<1> QED BY <1>3 DEF S

\* It is the last of 2W rounds.
LEMMA Div64Unfolds ==
  ASSUME NEW nlo, NEW nhi, NEW dlo, NEW dhi
  PROVE  \E f : /\ f[0] = Div64Start(nlo, nhi)
                /\ \A k \in 1 .. 2 * W : f[k] = Div64Step(f[k - 1], dlo, dhi)
                /\ Snip!div64_with_remainder(nlo, nhi, dlo, dhi) = f[2 * W]
<1> DEFINE F == CHOOSE f : f = [k \in 0 .. 2 * W |->
                  IF k = 0 THEN Div64Start(nlo, nhi) ELSE Div64Step(f[k - 1], dlo, dhi)]
<1>1. Snip!div64_with_remainder(nlo, nhi, dlo, dhi) = F[2 * W]
  BY DEF Snip!div64_with_remainder, Div64Step, Div64Start
<1>2. 2 * W \in Nat
  BY WordFacts
<1>3. \E f : f = [k \in 0 .. 2 * W |->
                  IF k = 0 THEN Div64Start(nlo, nhi) ELSE Div64Step(f[k - 1], dlo, dhi)]
  <2>1. \E f : Div64Rounds(f, nlo, nhi, dlo, dhi, 2 * W)
    BY <1>2, Div64Exists
  <2> QED BY <2>1 DEF Div64Rounds
<1>4. F = [k \in 0 .. 2 * W |->
             IF k = 0 THEN Div64Start(nlo, nhi) ELSE Div64Step(F[k - 1], dlo, dhi)]
  BY <1>3
<1> HIDE DEF F
<1>5. /\ F[0] = Div64Start(nlo, nhi)
      /\ \A k \in 1 .. 2 * W : F[k] = Div64Step(F[k - 1], dlo, dhi)
  <2>1. 0 \in 0 .. 2 * W /\ \A k \in 1 .. 2 * W : k \in 0 .. 2 * W /\ k # 0
    BY <1>2
  <2>2. F[0] = Div64Start(nlo, nhi)
    BY <1>4, <2>1
  <2>3. ASSUME NEW k \in 1 .. 2 * W
        PROVE  F[k] = Div64Step(F[k - 1], dlo, dhi)
    BY <1>4, <2>1
  <2> QED BY <2>2, <2>3
<1> QED BY <1>1, <1>5

\* The powers of two up to the width of an i64.
LEMMA NextPower ==
  ASSUME NEW k \in 0 .. 2 * W - 1
  PROVE  2^k \in Nat \ {0} /\ 2^(k + 1) = 2 * 2^k /\ 2 * 2^k <= Long!Modulus
<1> DEFINE M == Snip!Modulus
<1>1. /\ W \in Nat \ {0} /\ 2^1 = 2 /\ M \in Nat \ {0} /\ M = 2^W /\ Long!Modulus = M * M
      /\ k \in 0 .. 2 * W /\ k + 1 \in 0 .. 2 * W /\ 2^k \in Nat \ {0} /\ 2^(k + 1) \in Nat \ {0}
  BY Powers, WordFacts
<1>2. ASSUME NEW m \in 0 .. W
      PROVE  2^m \in Nat \ {0} /\ 2^m <= M /\ M * 2^m \in Nat /\ M * 2^m <= M * M /\ M <= M * M
  <2> DEFINE p == 2^m
             u == 2^(W - m)
  <2>1. p \in Nat \ {0} /\ u \in Nat \ {0} /\ M = p * u
    BY Split2
  <2> HIDE DEF p, u, M
  <2>2. p <= M
    <3>1. p * 1 <= p * u
      BY <2>1, Grows
    <3> QED BY <2>1, <3>1
  <2>3. M * p <= M * M /\ M * 1 <= M * M
    <3>1. M \in Nat /\ p \in Int /\ 1 \in Int /\ 1 <= M
      BY <1>1, <2>1
    <3> QED BY <2>2, <3>1, Grows
  <2>4. M * p \in Nat
    BY <1>1, <2>1
  <2> QED BY <1>1, <2>1, <2>2, <2>3, <2>4 DEF p
<1>3. CASE k < W
  <2>1. k \in 0 .. W /\ 1 \in 0 .. W /\ k + 1 \in 0 .. W /\ k + 1 = 1 + k
    BY <1>1, <1>3
  <2>2. 2^(1 + k) = 2^1 * 2^k
    BY <2>1, Powers
  <2>3. 2^(k + 1) <= M /\ M <= M * M
    BY <1>2, <2>1
  <2>4. 2^(k + 1) = 2 * 2^k
    BY <1>1, <2>1, <2>2
  <2> DEFINE x == 2^(k + 1)
             N == M * M
  <2>5. x \in Int /\ M \in Int /\ N \in Int
    BY <1>1
  <2>6. x <= N
    <3> HIDE DEF x, N, M
    <3> QED BY <2>3, <2>5 DEF x, N
  <2> QED BY <1>1, <2>4, <2>6
<1>4. CASE k >= W
  <2> DEFINE m == k - W
  <2>1. m \in 0 .. W /\ 1 \in 0 .. W /\ m + 1 \in 0 .. W /\ W \in 0 .. W /\ k = W + m
        /\ k + 1 = W + (m + 1) /\ m + 1 = 1 + m
    BY <1>1, <1>4
  <2> HIDE DEF m
  <2>2. 2^(W + m) = 2^W * 2^m /\ 2^(W + (m + 1)) = 2^W * 2^(m + 1) /\ 2^(1 + m) = 2^1 * 2^m
    BY <2>1, Powers
  <2>3. 2^k = M * 2^m /\ 2^(k + 1) = M * 2^(m + 1) /\ 2^(m + 1) = 2 * 2^m
    BY <1>1, <2>1, <2>2
  <2>4. 2^m \in Nat /\ M * 2^(m + 1) <= M * M
    BY <1>2, <2>1
  <2> DEFINE x == 2^m
  <2>5. M * (2 * x) = 2 * (M * x)
    <3>1. x \in Int /\ M \in Int
      BY <1>1, <2>4
    <3> HIDE DEF x, M
    <3> QED BY <3>1
  <2> QED BY <1>1, <2>3, <2>4, <2>5
<1> QED BY <1>1, <1>3, <1>4

\* One round: what the rounds so far have divided, and what is left.
LEMMA NextQuotient ==
  ASSUME NEW a \in Nat, NEW N \in Nat, NEW p \in Nat, NEW d \in Nat, NEW q \in Nat, NEW r \in Nat,
         NEW n \in Nat, NEW n2 \in Nat, NEW b \in {0, 1}, NEW g \in {0, 1}, NEW q2 \in Nat,
         NEW r2 \in Nat, a * p = N * (q * d + r) + n, q * d + r < p, 2 * n = n2 + N * b,
         q2 = 2 * q + g, r2 = 2 * r + b - g * d
  PROVE  a * (2 * p) = N * (q2 * d + r2) + n2 /\ q2 * d + r2 < 2 * p
<1> DEFINE s == q * d + r
           x == q * d
<1>1. q2 * d + r2 = 2 * s + b
  <2>1. q2 * d = 2 * x + g * d
    BY DEF x
  <2>2. x \in Int /\ g * d \in Int /\ s = x + r
    BY DEF x
  <2> DEFINE y == g * d
             z == q2 * d
  <2>3. y \in Int /\ z \in Int /\ z = 2 * x + y /\ r2 = 2 * r + b - y
    BY <2>1, <2>2
  <2> HIDE DEF x, s, y, z
  <2>4. z + r2 = 2 * s + b
    BY <2>2, <2>3
  <2> QED BY <2>4 DEF z
<1>2. s \in Nat /\ a * p = N * s + n /\ s < p
  OBVIOUS
<1> HIDE DEF s
<1>3. a * (2 * p) = 2 * (a * p)
  OBVIOUS
<1>4. 2 * (N * s + n) = N * (2 * s + b) + n2
  <2> DEFINE t == N * s
             e == N * b
  <2>1. N * (2 * s + b) = 2 * t + e /\ t \in Int /\ e \in Int
    BY <1>2
  <2>2. 2 * n = n2 + e
    OBVIOUS
  <2> HIDE DEF t, e
  <2>3. 2 * (t + n) = (2 * t + e) + n2
    BY <2>1, <2>2
  <2> QED BY <2>1, <2>3 DEF t
<1>5. a * (2 * p) = N * (2 * s + b) + n2
  BY <1>2, <1>3, <1>4
<1>6. 2 * s + b < 2 * p
  BY <1>2
<1> QED BY <1>1, <1>5, <1>6

\* After k rounds: the bits read so far are the divisor times the quotient so far and the
\* remainder, and the numerator's words hold the bits that are left.
Div64At(s, nlo, nhi, dlo, dhi, k) ==
  LET q == LongOf(s.qlo, s.qhi)
      r == LongOf(s.rlo, s.rhi)
      d == LongOf(dlo, dhi)
  IN  /\ s.nlo \in Snip!Words /\ s.nhi \in Snip!Words /\ s.rlo \in Snip!Words
      /\ s.rhi \in Snip!Words /\ s.qlo \in Snip!Words /\ s.qhi \in Snip!Words
      /\ LongOf(nlo, nhi) * 2^k = Long!Modulus * (q * d + r) + LongOf(s.nlo, s.nhi)
      /\ r < d /\ q * d + r < 2^k

\* One round.
LEMMA Div64AtStep ==
  ASSUME NEW nlo \in Snip!Words, NEW nhi \in Snip!Words, NEW dlo \in Snip!Words,
         NEW dhi \in Snip!Words, NEW k \in 0 .. 2 * W - 1, NEW p, Div64At(p, nlo, nhi, dlo, dhi, k)
  PROVE  Div64At(Div64Step(p, dlo, dhi), nlo, nhi, dlo, dhi, k + 1)
<1> DEFINE N == Long!Modulus
           a == LongOf(nlo, nhi)
           d == LongOf(dlo, dhi)
           q == LongOf(p.qlo, p.qhi)
           r == LongOf(p.rlo, p.rhi)
           n == LongOf(p.nlo, p.nhi)
           b == Snip!Right(p.nhi, W - 1)
           rhi == Snip!Or(Snip!Left(p.rhi, 1), Snip!Right(p.rlo, W - 1))
           rlo == Snip!Or(Snip!Left(p.rlo, 1), b)
           ge == rhi > dhi \/ (rhi = dhi /\ rlo >= dlo)
           t == IF ge THEN Snip!sub64(<<rlo, rhi>>, dlo, dhi) ELSE <<rlo, rhi>>
           g == Snip!FromBool(ge)
           nlo2 == Snip!Left(p.nlo, 1)
           nhi2 == Snip!Or(Snip!Left(p.nhi, 1), Snip!Right(p.nlo, W - 1))
           qlo2 == Snip!Or(Snip!Left(p.qlo, 1), g)
           qhi2 == Snip!Or(Snip!Left(p.qhi, 1), Snip!Right(p.qlo, W - 1))
           e == 2^k
<1>1. /\ p.nlo \in Snip!Words /\ p.nhi \in Snip!Words /\ p.rlo \in Snip!Words
      /\ p.rhi \in Snip!Words /\ p.qlo \in Snip!Words /\ p.qhi \in Snip!Words
      /\ a * e = N * (q * d + r) + n
      /\ r < d /\ q * d + r < e
  BY DEF Div64At
<1>2. Div64Step(p, dlo, dhi) =
        [nlo |-> nlo2, nhi |-> nhi2, rlo |-> t[1], rhi |-> t[2], qlo |-> qlo2, qhi |-> qhi2]
  BY DEF Div64Step
<1>3. N \in Nat \ {0} /\ e \in Nat \ {0} /\ 2^(k + 1) = 2 * e /\ 2 * e <= N
  <2>1. N \in Nat \ {0}
    <3> DEFINE M == Snip!Modulus
    <3>1. N = M * M /\ M \in Nat \ {0}
      BY WordFacts
    <3> HIDE DEF M, N
    <3> QED BY <3>1
  <2> QED BY <2>1, NextPower
<1>4. a \in Nat /\ d \in Nat /\ q \in Nat /\ r \in Nat /\ n \in Nat
  BY <1>1, PairOrder
<1>5. g \in {0, 1} /\ (ge => g = 1) /\ (~ge => g = 0)
  BY DEF Snip!FromBool
<1>6. /\ nlo2 \in Snip!Words /\ nhi2 \in Snip!Words /\ b \in {0, 1}
      /\ 2 * n = LongOf(nlo2, nhi2) + N * b
  <2> DEFINE z == 0
  <2>1. z \in {0, 1} /\ z = 0
    OBVIOUS
  <2> HIDE DEF z
  <2>2. LET lo2 == Snip!Or(Snip!Left(p.nlo, 1), z)
        IN  /\ lo2 \in Snip!Words /\ nhi2 \in Snip!Words /\ b \in {0, 1}
            /\ 2 * n + z = LongOf(lo2, nhi2) + N * b
            /\ z = 0 => lo2 = nlo2
    BY <1>1, <2>1, DoubledPair
  <2>3. 2 * n + z = 2 * n
    BY <1>4, <2>1
  <2> QED BY <2>1, <2>2, <2>3
<1> HIDE DEF nlo2, nhi2, b
<1>7. rlo \in Snip!Words /\ rhi \in Snip!Words /\ 2 * r + b = LongOf(rlo, rhi)
  <2>1. /\ rlo \in Snip!Words /\ rhi \in Snip!Words /\ Snip!Right(p.rhi, W - 1) \in {0, 1}
        /\ 2 * r + b = LongOf(rlo, rhi) + N * Snip!Right(p.rhi, W - 1)
    <3> DEFINE lo == p.rlo
               hi == p.rhi
    <3>1. lo \in Snip!Words /\ hi \in Snip!Words /\ b \in {0, 1}
      BY <1>1, <1>6
    <3> HIDE DEF lo, hi
    <3>2. LET lo2 == Snip!Or(Snip!Left(lo, 1), b)
              hi2 == Snip!Or(Snip!Left(hi, 1), Snip!Right(lo, W - 1))
              c   == Snip!Right(hi, W - 1)
          IN  /\ lo2 \in Snip!Words /\ hi2 \in Snip!Words /\ c \in {0, 1}
              /\ 2 * LongOf(lo, hi) + b = LongOf(lo2, hi2) + Long!Modulus * c
              /\ b = 0 => lo2 = Snip!Left(lo, 1)
      BY <3>1, DoubledPair
    <3> QED BY <3>2 DEF lo, hi
  <2>2. LongOf(rlo, rhi) \in Nat
    BY <2>1, PairOrder
  <2>3. 2 * r + b < N
    <3> DEFINE x == q * d
    <3>1. x \in Nat /\ x + r < e
      BY <1>1, <1>4
    <3> HIDE DEF x, r, e, N
    <3> QED BY <1>3, <1>4, <1>6, <3>1
  <2> DEFINE c == Snip!Right(p.rhi, W - 1)
             y == LongOf(rlo, rhi)
             x == 2 * r + b
  <2>4. x \in Nat /\ c \in {0, 1} /\ y \in Nat /\ x = y + N * c /\ x < N
    BY <1>4, <1>6, <2>1, <2>2, <2>3
  <2> HIDE DEF c, y, x, N
  <2>5. x = y
    BY <1>3, <2>4
  <2> QED BY <2>1, <2>5 DEF x, y
<1>8. ge <=> LongOf(rlo, rhi) >= d
  BY <1>7, PairOrder
<1> HIDE DEF rlo, rhi
<1>9. t[1] \in Snip!Words /\ t[2] \in Snip!Words /\ LongOf(t[1], t[2]) = LongOf(rlo, rhi) - g * d
  <2>1. CASE ge
    <3>1. t = Snip!sub64(<<rlo, rhi>>, dlo, dhi) /\ g = 1 /\ LongOf(rlo, rhi) >= LongOf(dlo, dhi)
      BY <1>5, <1>8, <2>1
    <3>2. /\ t[1] \in Snip!Words /\ t[2] \in Snip!Words
          /\ LongOf(t[1], t[2]) = LongOf(rlo, rhi) - LongOf(dlo, dhi)
      BY <1>7, <3>1, Sub64
    <3>3. g * d = d
      BY <1>4, <3>1
    <3> QED BY <3>2, <3>3
  <2>2. CASE ~ge
    <3>1. t[1] = rlo /\ t[2] = rhi /\ g = 0
      BY <1>5, <2>2
    <3>2. g * d = 0 /\ LongOf(rlo, rhi) \in Nat
      BY <1>4, <1>6, <1>7, <3>1
    <3> DEFINE x == LongOf(rlo, rhi)
    <3>3. x - g * d = x
      BY <3>2
    <3> QED BY <1>7, <3>1, <3>3
  <2> QED BY <2>1, <2>2
<1>10. LongOf(t[1], t[2]) \in Nat /\ LongOf(t[1], t[2]) < d
  <2> DEFINE x == LongOf(rlo, rhi)
             y == LongOf(t[1], t[2])
             z == g * d
  <2>1. y \in Nat /\ x \in Nat
    BY <1>7, <1>9, PairOrder
  <2>2. x = 2 * r + b /\ r < d /\ y = x - z /\ (ge <=> x >= d)
    BY <1>1, <1>7, <1>8, <1>9
  <2>3. (ge => z = d) /\ (~ge => z = 0)
    BY <1>4, <1>5
  <2> HIDE DEF x, y, z, g, ge, d, r
  <2>4. y < d
    BY <1>4, <1>6, <2>1, <2>2, <2>3
  <2> QED BY <2>1, <2>4 DEF y
<1> HIDE DEF t, ge, g
<1>11. qlo2 \in Snip!Words /\ qhi2 \in Snip!Words /\ 2 * q + g = LongOf(qlo2, qhi2)
  <2>1. /\ qlo2 \in Snip!Words /\ qhi2 \in Snip!Words /\ Snip!Right(p.qhi, W - 1) \in {0, 1}
        /\ 2 * q + g = LongOf(qlo2, qhi2) + N * Snip!Right(p.qhi, W - 1)
    <3> DEFINE lo == p.qlo
               hi == p.qhi
    <3>1. lo \in Snip!Words /\ hi \in Snip!Words /\ g \in {0, 1}
      BY <1>1, <1>5
    <3> HIDE DEF lo, hi
    <3>2. LET lo2 == Snip!Or(Snip!Left(lo, 1), g)
              hi2 == Snip!Or(Snip!Left(hi, 1), Snip!Right(lo, W - 1))
              c   == Snip!Right(hi, W - 1)
          IN  /\ lo2 \in Snip!Words /\ hi2 \in Snip!Words /\ c \in {0, 1}
              /\ 2 * LongOf(lo, hi) + g = LongOf(lo2, hi2) + Long!Modulus * c
              /\ g = 0 => lo2 = Snip!Left(lo, 1)
      BY <3>1, DoubledPair
    <3> QED BY <3>2 DEF lo, hi
  <2>2. LongOf(qlo2, qhi2) \in Nat
    BY <2>1, PairOrder
  <2>3. 2 * q + g < N
    <3> DEFINE x == q * d
    <3>1. q <= x
      <4>1. d >= 1
        BY <1>1, <1>4
      <4>2. q * 1 <= q * d
        BY <1>4, <4>1, Grows
      <4>3. q * 1 = q
        BY <1>4
      <4> QED BY <4>2, <4>3
    <3>2. x \in Nat /\ x + r < e
      BY <1>1, <1>4
    <3> HIDE DEF x, r, e, N, q
    <3> QED BY <1>3, <1>4, <1>5, <3>1, <3>2
  <2> DEFINE c == Snip!Right(p.qhi, W - 1)
             y == LongOf(qlo2, qhi2)
             x == 2 * q + g
  <2>4. x \in Nat /\ c \in {0, 1} /\ y \in Nat /\ x = y + N * c /\ x < N
    BY <1>4, <1>5, <2>1, <2>2, <2>3
  <2> HIDE DEF c, y, x, N
  <2>5. x = y
    BY <1>3, <2>4
  <2> QED BY <2>1, <2>5 DEF x, y
<1> DEFINE q2 == LongOf(qlo2, qhi2)
           r2 == LongOf(t[1], t[2])
           n2 == LongOf(nlo2, nhi2)
<1>12. q2 \in Nat /\ r2 \in Nat /\ n2 \in Nat
  BY <1>6, <1>9, <1>11, PairOrder
<1>13. q2 = 2 * q + g /\ r2 = 2 * r + b - g * d /\ 2 * n = n2 + N * b
  <2> DEFINE x == LongOf(rlo, rhi)
             y == g * d
  <2>1. x = 2 * r + b /\ r2 = x - y /\ q2 = 2 * q + g /\ 2 * n = n2 + N * b
    BY <1>6, <1>7, <1>9, <1>11
  <2>2. y \in Int
    BY <1>4, <1>5
  <2> HIDE DEF x, y, r2, r
  <2>3. r2 = 2 * r + b - y
    BY <1>4, <1>6, <2>1, <2>2
  <2> QED BY <2>1, <2>3 DEF y
<1>14. a * (2 * e) = N * (q2 * d + r2) + n2 /\ q2 * d + r2 < 2 * e
  <2>1. N \in Nat /\ e \in Nat
    BY <1>3
  <2> HIDE DEF q2, r2, n2, q, r, n, a, d, e, N
  <2>2. /\ a \in Nat /\ N \in Nat /\ e \in Nat /\ d \in Nat /\ q \in Nat /\ r \in Nat /\ n \in Nat
        /\ n2 \in Nat /\ b \in {0, 1} /\ g \in {0, 1} /\ q2 \in Nat /\ r2 \in Nat
        /\ a * e = N * (q * d + r) + n /\ q * d + r < e /\ 2 * n = n2 + N * b
        /\ q2 = 2 * q + g /\ r2 = 2 * r + b - g * d
    BY <1>1, <1>4, <1>5, <1>6, <1>12, <1>13, <2>1
  <2> QED BY ONLY <2>2, NextQuotient
<1> DEFINE s == [nlo |-> nlo2, nhi |-> nhi2, rlo |-> t[1], rhi |-> t[2], qlo |-> qlo2, qhi |-> qhi2]
<1>15. Div64At(s, nlo, nhi, dlo, dhi, k + 1)
  BY <1>3, <1>6, <1>9, <1>10, <1>11, <1>14 DEF Div64At
<1> QED BY <1>2, <1>15

\* div64_with_remainder divides.
LEMMA Div64Correct ==
  ASSUME NEW nlo \in Snip!Words, NEW nhi \in Snip!Words, NEW dlo \in Snip!Words,
         NEW dhi \in Snip!Words, LongOf(dlo, dhi) # 0
  PROVE  LET res == Snip!div64_with_remainder(nlo, nhi, dlo, dhi)
             n   == LongOf(nlo, nhi)
             d   == LongOf(dlo, dhi)
         IN  /\ res.qlo \in Snip!Words /\ res.qhi \in Snip!Words
             /\ res.rlo \in Snip!Words /\ res.rhi \in Snip!Words
             /\ LongOf(res.qlo, res.qhi) = n \div d /\ LongOf(res.rlo, res.rhi) = n % d
<1> DEFINE N == Long!Modulus
           a == LongOf(nlo, nhi)
           d == LongOf(dlo, dhi)
<1>1. W \in Nat \ {0} /\ 2 * W \in Nat /\ 2^0 = 1 /\ 2^(2 * W) = N /\ N \in Nat \ {0}
  <2>1. W \in Nat \ {0} /\ 2^0 = 1
    BY Powers
  <2>2. 2 * W \in 0 .. 2 * W /\ 2^(2 * W) \in Nat \ {0}
    BY <2>1, Powers
  <2> QED BY <2>1, <2>2 DEF Long!Modulus
<1>2. a \in Nat /\ a < N /\ d \in Nat \ {0}
  BY PairOrder
<1>3. PICK f : /\ f[0] = Div64Start(nlo, nhi)
               /\ \A k \in 1 .. 2 * W : f[k] = Div64Step(f[k - 1], dlo, dhi)
               /\ Snip!div64_with_remainder(nlo, nhi, dlo, dhi) = f[2 * W]
  BY Div64Unfolds
<1>4. Div64At(f[2 * W], nlo, nhi, dlo, dhi, 2 * W)
  <2> DEFINE S == {k \in Nat : k <= 2 * W => Div64At(f[k], nlo, nhi, dlo, dhi, k)}
  <2>1. 0 \in S
    <3> DEFINE s == Div64Start(nlo, nhi)
    <3>1. s = [nlo |-> nlo, nhi |-> nhi, rlo |-> 0, rhi |-> 0, qlo |-> 0, qhi |-> 0]
      BY DEF Div64Start
    <3>2. 0 \in Snip!Words /\ LongOf(0, 0) = 0
      <4> DEFINE M == Snip!Modulus
      <4>1. M \in Nat \ {0} /\ Snip!Words = 0 .. M - 1 /\ M = 2^W
        BY WordFacts
      <4>2. M * 0 = 0 /\ 0 \in 0 .. M - 1
        <5> HIDE DEF M
        <5> QED BY <4>1
      <4> QED BY <4>1, <4>2 DEF LongOf
    <3>3. /\ a * 1 = N * (0 * d + 0) + a
          /\ 0 < d /\ 0 * d + 0 < 1
      <4> HIDE DEF a, d, N
      <4> QED BY <1>1, <1>2
    <3>4. /\ s.nlo \in Snip!Words /\ s.nhi \in Snip!Words /\ s.rlo \in Snip!Words
          /\ s.rhi \in Snip!Words /\ s.qlo \in Snip!Words /\ s.qhi \in Snip!Words
          /\ s.nlo = nlo /\ s.nhi = nhi /\ s.qlo = 0 /\ s.qhi = 0 /\ s.rlo = 0 /\ s.rhi = 0
      BY <3>1, <3>2
    <3> HIDE DEF s
    <3>5. Div64At(s, nlo, nhi, dlo, dhi, 0)
      BY <1>1, <3>2, <3>3, <3>4 DEF Div64At
    <3> QED BY <1>3, <3>5 DEF s
  <2>2. ASSUME NEW k \in Nat, k \in S
        PROVE  k + 1 \in S
    <3> SUFFICES ASSUME k + 1 <= 2 * W
                 PROVE  Div64At(f[k + 1], nlo, nhi, dlo, dhi, k + 1)
      OBVIOUS
    <3>1. k \in 0 .. 2 * W - 1 /\ k + 1 \in 1 .. 2 * W /\ (k + 1) - 1 = k
          /\ Div64At(f[k], nlo, nhi, dlo, dhi, k)
      BY <1>1, <2>2
    <3>2. f[k + 1] = Div64Step(f[k], dlo, dhi)
      BY <1>3, <3>1
    <3> QED BY <3>1, <3>2, Div64AtStep
  <2> HIDE DEF S
  <2>3. Nat \subseteq S
    BY <2>1, <2>2, SetInduction
  <2>4. 2 * W \in S
    BY <1>1, <2>3
  <2> QED BY <1>1, <2>4 DEF S
<1> DEFINE res == f[2 * W]
           q == LongOf(res.qlo, res.qhi)
           r == LongOf(res.rlo, res.rhi)
           n == LongOf(res.nlo, res.nhi)
<1>5. /\ res.nlo \in Snip!Words /\ res.nhi \in Snip!Words /\ res.rlo \in Snip!Words
      /\ res.rhi \in Snip!Words /\ res.qlo \in Snip!Words /\ res.qhi \in Snip!Words
      /\ a * N = N * (q * d + r) + n /\ r < d
  BY <1>1, <1>4 DEF Div64At
<1>6. q \in Nat /\ r \in Nat /\ n \in Nat /\ n < N
  BY <1>5, PairOrder
<1> HIDE DEF a, d, q, r, n, N
<1>7. a = q * d + r
  <2> DEFINE s == q * d + r
             x == a * N
  <2>1. s \in Int /\ x \in Int /\ x = N * s + n /\ x = N * a + 0
    BY <1>1, <1>2, <1>5, <1>6
  <2> HIDE DEF s, x
  <2>2. x \div N = s
    BY <1>1, <1>6, <2>1, Unique
  <2> DEFINE z == 0
  <2>3. z \in Nat /\ z < N /\ x = N * a + z /\ a \in Int
    BY <1>1, <1>2, <2>1
  <2> HIDE DEF z
  <2>4. x \div N = a
    BY <1>1, <2>1, <2>3, Unique
  <2> QED BY <2>2, <2>4 DEF s
<1>8. a = d * q + r
  BY <1>2, <1>6, <1>7
<1>9. a \div d = q /\ a % d = r
  <2>1. a \in Int /\ d \in Nat \ {0} /\ q \in Int /\ r \in Nat /\ r < d
    BY <1>2, <1>5, <1>6
  <2> QED BY <1>8, <2>1, Unique
<1> QED BY <1>3, <1>5, <1>9 DEF q, r, a, d

\* Two divisions by one word.
LEMMA OneLimbDivides ==
  ASSUME NEW nlo \in Snip!Words, NEW nhi \in Snip!Words, NEW d \in Snip!Words, d # 0,
         d < 2^(W - 1)
  PROVE  LET high == Snip!div_mod_64_by_32(0, nhi, d)
             low  == Snip!div_mod_64_by_32(high.r, nlo, d)
             n    == LongOf(nlo, nhi)
         IN  /\ high.q \in Snip!Words /\ low.q \in Snip!Words /\ low.r \in Snip!Words
             /\ LongOf(low.q, high.q) = n \div LongOf(d, 0) /\ low.r = n % LongOf(d, 0)
<1> DEFINE M == Snip!Modulus
           high == Snip!div_mod_64_by_32(0, nhi, d)
           low  == Snip!div_mod_64_by_32(high.r, nlo, d)
           n    == LongOf(nlo, nhi)
<1>1. /\ M \in Nat \ {0} /\ Snip!Words = 0 .. M - 1 /\ 2^W = M /\ 2^(W - 1) \in Nat
      /\ d \in Nat \ {0} /\ d < M /\ d <= 2^(W - 1)
  <2>1. M \in Nat \ {0} /\ Snip!Words = 0 .. M - 1 /\ 2^W = M /\ 2^(W - 1) \in Nat
    BY WordFacts
  <2> DEFINE h == 2^(W - 1)
  <2> HIDE DEF h, M
  <2>2. d \in Nat \ {0} /\ d < M /\ h \in Nat /\ d <= h
    BY <2>1 DEF h
  <2> QED BY <2>1, <2>2 DEF h
<1>2. high.q \in Snip!Words /\ high.r \in 0 .. d - 1 /\ nhi + M * 0 = d * high.q + high.r
  <2> DEFINE z == 0
  <2>1. z \in Snip!Words /\ z < d
    <3> HIDE DEF M
    <3> QED BY <1>1
  <2> HIDE DEF z
  <2>2. LET res == Snip!div_mod_64_by_32(z, nhi, d)
        IN  /\ res.q \in Snip!Words /\ res.r \in 0 .. d - 1
            /\ nhi + Snip!Modulus * z = d * res.q + res.r
    BY <1>1, <2>1, DivModCorrect
  <2> QED BY <2>2 DEF z
<1>3. high.r \in Snip!Words /\ high.r < d
  <2> DEFINE r == high.r
  <2>1. r \in 0 .. d - 1
    BY <1>2
  <2> HIDE DEF r, M
  <2>2. r \in Snip!Words /\ r < d
    BY <1>1, <2>1
  <2> QED BY <2>2 DEF r
<1> DEFINE q1 == high.q
           r1 == high.r
           q2 == low.q
           r2 == low.r
<1> HIDE DEF high
<1>4. q2 \in Snip!Words /\ r2 \in 0 .. d - 1 /\ nlo + M * r1 = d * q2 + r2
  <2>1. r1 \in Snip!Words /\ r1 < d /\ d \in Nat /\ d <= 2^(W - 1)
    BY <1>1, <1>3
  <2> HIDE DEF r1
  <2>2. LET res == Snip!div_mod_64_by_32(r1, nlo, d)
        IN  /\ res.q \in Snip!Words /\ res.r \in 0 .. d - 1
            /\ nlo + Snip!Modulus * r1 = d * res.q + res.r
    BY <2>1, DivModCorrect
  <2> QED BY <2>2 DEF r1
<1> HIDE DEF low
<1>5. n = nlo + M * nhi /\ LongOf(d, 0) = d /\ LongOf(q2, q1) = q2 + M * q1
  <2>1. n = nlo + M * nhi /\ LongOf(d, 0) = d + M * 0 /\ LongOf(q2, q1) = q2 + M * q1
    BY <1>1 DEF LongOf
  <2>2. d + M * 0 = d
    <3> HIDE DEF M
    <3> QED BY <1>1
  <2> QED BY <2>1, <2>2
<1>6. nhi + M * 0 = d * q1 + r1 /\ q1 \in Snip!Words /\ r1 \in Snip!Words
  BY <1>2, <1>3
<1> DEFINE x == nlo + M * nhi
           q == q2 + M * q1
<1> HIDE DEF q1, q2, r1, r2, M
<1>7. M \in Int /\ nlo \in Nat /\ nhi \in Nat /\ q1 \in Int /\ r1 \in Int /\ q2 \in Int /\ r2 \in Nat /\ r2 < d
      /\ d \in Int /\ r2 \in Snip!Words
  BY <1>1, <1>4, <1>6
<1>8. x = d * q + r2 /\ x \in Int /\ q \in Int
  <2>1. x \in Int /\ q \in Int /\ nhi = d * q1 + r1
    BY <1>6, <1>7
  <2>2. M * nhi = M * (d * q1 + r1)
    BY <2>1
  <2>3. M * (d * q1 + r1) = d * (M * q1) + M * r1
    BY <1>7
  <2>4. d * q = d * q2 + d * (M * q1)
    BY <1>7
  <2> DEFINE y1 == M * nhi
             y2 == d * (M * q1)
             y3 == M * r1
             y4 == d * q2
             y5 == d * q
  <2>5. y1 \in Int /\ y2 \in Int /\ y3 \in Int /\ y4 \in Int /\ y5 \in Int
    BY <1>7
  <2>6. y1 = y2 + y3 /\ y5 = y4 + y2 /\ nlo + y3 = y4 + r2 /\ x = nlo + y1
    BY <1>4, <2>2, <2>3, <2>4
  <2> HIDE DEF y1, y2, y3, y4, y5, x, q
  <2>7. x = y5 + r2
    BY <1>7, <2>5, <2>6
  <2> QED BY <2>1, <2>7 DEF y5
<1> HIDE DEF x, q
<1>9. x \div d = q /\ x % d = r2
  <2>1. d \in Nat \ {0} /\ q \in Int /\ r2 \in Nat /\ r2 < d /\ x \in Int /\ x = d * q + r2
    BY <1>1, <1>7, <1>8
  <2> QED BY ONLY <2>1, Unique
<1> QED BY <1>4, <1>5, <1>6, <1>7, <1>9 DEF x, q, q1, q2, r2, r1, high, low

\* i64_div_u_impl.
LEMMA DivUCorrect ==
  ASSUME NEW nlo \in Snip!Words, NEW nhi \in Snip!Words, NEW dlo \in Snip!Words,
         NEW dhi \in Snip!Words, LongOf(dlo, dhi) # 0
  PROVE  Snip!i64_div_u_impl(nlo, nhi, dlo, dhi) = Split(LongOf(nlo, nhi) \div LongOf(dlo, dhi))
<1> DEFINE M == Snip!Modulus
           n == LongOf(nlo, nhi)
           d == LongOf(dlo, dhi)
           res == Snip!i64_div_u_impl(nlo, nhi, dlo, dhi)
<1>1. M \in Nat \ {0} /\ Snip!Words = 0 .. M - 1 /\ 2^W = M
  BY WordFacts
<1>2. n \in Nat /\ d \in Nat \ {0} /\ (n < d <=> (nhi < dhi \/ (nhi = dhi /\ nlo < dlo)))
  BY PairOrder
<1>3. ASSUME NEW lo \in Snip!Words, NEW hi \in Snip!Words, LongOf(lo, hi) = n \div d
      PROVE  Split(n \div d) = <<lo, hi>>
  <2>1. LongOf(lo, hi) = lo + Snip!Modulus * hi
    BY <1>1 DEF LongOf
  <2> QED BY <1>3, <2>1, SplitIs
<1>4. CASE n < d
  <2>1. res = <<0, 0>>
    BY <1>2, <1>4 DEF Snip!i64_div_u_impl
  <2>2. n \div d = 0
    BY <1>2, <1>4, Small
  <2>3. 0 \in Snip!Words /\ LongOf(0, 0) = 0
    <3>1. 0 \in 0 .. M - 1 /\ 0 + M * 0 = 0
      <4> HIDE DEF M
      <4> QED BY <1>1
    <3> QED BY <1>1, <3>1 DEF LongOf
  <2> QED BY <1>3, <2>1, <2>2, <2>3
<1>5. CASE ~(n < d) /\ Snip!OneLimb(dlo, dhi)
  <2> DEFINE high == Snip!div_mod_64_by_32(0, nhi, dlo)
             low  == Snip!div_mod_64_by_32(high.r, nlo, dlo)
  <2>1. dhi = 0 /\ dlo < 2^(W - 1) /\ d = LongOf(dlo, 0)
    BY <1>5 DEF Snip!OneLimb
  <2>2. dlo # 0
    <3> SUFFICES ASSUME dlo = 0
                 PROVE  FALSE
      OBVIOUS
    <3>1. d = 0 + M * 0
      BY <1>1, <2>1 DEF LongOf
    <3>2. 0 + M * 0 = 0
      <4> HIDE DEF M
      <4> QED BY <1>1
    <3> QED BY <3>1, <3>2
  <2>3. res = <<low.q, high.q>>
    BY <1>2, <1>5 DEF Snip!i64_div_u_impl
  <2>4. high.q \in Snip!Words /\ low.q \in Snip!Words /\ LongOf(low.q, high.q) = n \div LongOf(dlo, 0)
    BY <2>1, <2>2, OneLimbDivides
  <2> HIDE DEF high, low, n
  <2> QED BY <1>3, <2>1, <2>3, <2>4 DEF n
<1>6. CASE ~(n < d) /\ ~Snip!OneLimb(dlo, dhi)
  <2> DEFINE long == Snip!div64_with_remainder(nlo, nhi, dlo, dhi)
  <2>1. res = <<long.qlo, long.qhi>>
    BY <1>2, <1>6 DEF Snip!i64_div_u_impl, Snip!Quotient
  <2>2. long.qlo \in Snip!Words /\ long.qhi \in Snip!Words /\ LongOf(long.qlo, long.qhi) = n \div d
    BY Div64Correct
  <2> QED BY <1>3, <2>1, <2>2
<1> QED BY <1>4, <1>5, <1>6

\* i64_rem_u_impl.
LEMMA RemUCorrect ==
  ASSUME NEW nlo \in Snip!Words, NEW nhi \in Snip!Words, NEW dlo \in Snip!Words,
         NEW dhi \in Snip!Words, LongOf(dlo, dhi) # 0
  PROVE  Snip!i64_rem_u_impl(nlo, nhi, dlo, dhi) = Split(LongOf(nlo, nhi) % LongOf(dlo, dhi))
<1> DEFINE M == Snip!Modulus
           n == LongOf(nlo, nhi)
           d == LongOf(dlo, dhi)
           res == Snip!i64_rem_u_impl(nlo, nhi, dlo, dhi)
<1>1. M \in Nat \ {0} /\ Snip!Words = 0 .. M - 1 /\ 2^W = M
  BY WordFacts
<1>2. ASSUME NEW lo \in Snip!Words, NEW hi \in Snip!Words, LongOf(lo, hi) = n % d
      PROVE  Split(n % d) = <<lo, hi>>
  <2>1. LongOf(lo, hi) = lo + Snip!Modulus * hi
    BY <1>1 DEF LongOf
  <2> QED BY <1>2, <2>1, SplitIs
<1>3. CASE Snip!OneLimb(dlo, dhi)
  <2> DEFINE high == Snip!div_mod_64_by_32(0, nhi, dlo)
             low  == Snip!div_mod_64_by_32(high.r, nlo, dlo)
  <2>1. dhi = 0 /\ dlo < 2^(W - 1) /\ d = LongOf(dlo, 0)
    BY <1>3 DEF Snip!OneLimb
  <2>2. dlo # 0
    <3> SUFFICES ASSUME dlo = 0
                 PROVE  FALSE
      OBVIOUS
    <3>1. d = 0 + M * 0
      BY <1>1, <2>1 DEF LongOf
    <3>2. 0 + M * 0 = 0
      <4> HIDE DEF M
      <4> QED BY <1>1
    <3> QED BY <3>1, <3>2
  <2>3. res = <<low.r, 0>>
    BY <1>3 DEF Snip!i64_rem_u_impl
  <2>4. low.r \in Snip!Words /\ low.r = n % LongOf(dlo, 0)
    BY <2>1, <2>2, OneLimbDivides
  <2> HIDE DEF high, low, n
  <2>5. LongOf(low.r, 0) = low.r /\ 0 \in Snip!Words
    <3> DEFINE x == low.r
    <3>1. LongOf(x, 0) = x + M * 0
      BY <1>1 DEF LongOf
    <3>2. x + M * 0 = x /\ 0 \in Snip!Words
      <4> HIDE DEF M, x
      <4>1. x \in Int
        BY <1>1, <2>4 DEF x
      <4> QED BY <1>1, <4>1
    <3> QED BY <3>1, <3>2
  <2> QED BY <1>2, <2>1, <2>3, <2>4, <2>5 DEF n
<1>4. CASE ~Snip!OneLimb(dlo, dhi)
  <2> DEFINE long == Snip!div64_with_remainder(nlo, nhi, dlo, dhi)
  <2>1. res = <<long.rlo, long.rhi>>
    BY <1>4 DEF Snip!i64_rem_u_impl, Snip!Remainder
  <2>2. long.rlo \in Snip!Words /\ long.rhi \in Snip!Words /\ LongOf(long.rlo, long.rhi) = n % d
    BY Div64Correct
  <2> QED BY <1>2, <2>1, <2>2
<1> QED BY <1>3, <1>4

----------------------------------------------------------------------------
(* Signed division: of the absolute values, with the sign put back.        *)

\* neg64: the opposite, of two words.
LEMMA NegIs ==
  ASSUME NEW lo \in Snip!Words, NEW hi \in Snip!Words
  PROVE  LET y == Snip!neg64(<<lo, hi>>)
         IN  /\ y[1] \in Snip!Words /\ y[2] \in Snip!Words
             /\ LongOf(y[1], y[2]) = Long!Wrap(0 - LongOf(lo, hi))
             /\ y = Split(Long!Wrap(0 - LongOf(lo, hi)))
<1> DEFINE M == Snip!Modulus
           c == M - lo
           lo2 == Snip!Wrap(c)
           k == Snip!FromBool(lo2 = 0)
           z == M - 1 - hi + k
           hi2 == Snip!Wrap(z)
           x == LongOf(lo, hi)
<1>1. M \in Nat \ {0} /\ Snip!Words = 0 .. M - 1 /\ Long!Modulus = M * M /\ 2^W = M
      /\ Snip!MaxWord = M - 1
  BY WordFacts
<1>2. Snip!neg64(<<lo, hi>>) = <<lo2, hi2>>
  <2> DEFINE e == (M - 1 - lo) + 1
  <2>1. e = c
    <3> HIDE DEF M
    <3> QED BY <1>1
  <2>2. Snip!Not(lo) = M - 1 - lo /\ Snip!Not(hi) = M - 1 - hi
    BY <1>1 DEF Snip!Not
  <2>3. Snip!neg64(<<lo, hi>>) =
          LET l == Snip!Wrap(e) IN <<l, Snip!Wrap((M - 1 - hi) + Snip!FromBool(l = 0))>>
    BY <2>2 DEF Snip!neg64
  <2> QED BY <2>1, <2>3
<1>3. x = lo + M * hi
  BY <1>1 DEF LongOf
<1>4. lo2 \in Snip!Words /\ k \in {0, 1} /\ c = lo2 + M * k
  <2>1. CASE lo = 0
    <3>1. c = M
      <4> HIDE DEF M
      <4> QED BY <1>1, <2>1
    <3>2. M % M = 0
      <4> HIDE DEF M
      <4>1. 1 \in Int /\ 0 \in Nat /\ 0 < M /\ M \in Int /\ M = M * 1 + 0
        BY <1>1
      <4> QED BY <1>1, <4>1, Unique
    <3>3. lo2 = 0 /\ k = 1
      BY <3>1, <3>2 DEF Snip!Wrap, Snip!FromBool
    <3>4. 0 \in 0 .. M - 1 /\ M = 0 + M * 1
      <4> HIDE DEF M
      <4> QED BY <1>1
    <3> QED BY <1>1, <3>1, <3>3, <3>4
  <2>2. CASE lo # 0
    <3>1. c \in Snip!Words /\ c # 0 /\ c = c + M * 0
      <4> HIDE DEF M
      <4> QED BY <1>1, <2>2
    <3>2. lo2 = c
      BY <3>1, WrapWord
    <3>3. k = 0
      BY <3>1, <3>2 DEF Snip!FromBool
    <3> QED BY <3>1, <3>2, <3>3
  <2> QED BY <2>1, <2>2
<1> HIDE DEF lo2, k, x
<1>5. z \in Int
  <2> HIDE DEF M
  <2> QED BY <1>1, <1>4
<1>6. hi2 \in Snip!Words /\ \E j \in Int : z = hi2 + M * j
  <2> HIDE DEF z
  <2> QED BY <1>5, Wraps DEF M
<1>7. PICK j \in Int : z = hi2 + M * j
  BY <1>6
<1> HIDE DEF hi2
<1> DEFINE i == j - 1
<1>8. 0 - x = lo2 + M * hi2 + (M * M) * i
  <2> DEFINE y1 == M * hi
             y2 == M * hi2
             y3 == (M * M) * j
             y4 == M * M
             y5 == M * k
  <2>1. M * z = M * (hi2 + M * j)
    BY <1>7
  <2>2. M \in Int /\ lo \in Int /\ hi \in Int /\ lo2 \in Int /\ hi2 \in Int /\ k \in Int /\ j \in Int
    BY <1>1, <1>4, <1>6
  <2> HIDE DEF M, z
  <2>3. M * (hi2 + M * j) = y2 + y3
    BY <2>2
  <2>4. M * z = y4 - M - y1 + y5
    <3>1. z = (M - 1 - hi) + k
      BY DEF z
    <3>2. M * ((M - 1 - hi) + k) = (((M * M) - M) - (M * hi)) + (M * k)
      BY <2>2
    <3>3. y1 \in Int /\ y4 \in Int /\ y5 \in Int
      BY <2>2
    <3>4. M * z = ((y4 - M) - y1) + y5
      BY <3>1, <3>2
    <3> HIDE DEF y1, y2, y3, y4, y5
    <3> QED BY <2>2, <3>3, <3>4
  <2>5. (M * M) * i = y3 - y4
    BY <2>2
  <2>6. y1 \in Int /\ y2 \in Int /\ y3 \in Int /\ y4 \in Int /\ y5 \in Int
    BY <2>2
  <2>7. x = lo + y1 /\ M - lo = lo2 + y5
    BY <1>3, <1>4 DEF M
  <2> DEFINE y6 == (M * M) * i
  <2> HIDE DEF y1, y2, y3, y4, y5, y6
  <2>8. 0 - x = lo2 + y2 + y6
    BY <2>1, <2>2, <2>3, <2>4, <2>5, <2>6, <2>7 DEF y6
  <2> QED BY <2>8 DEF y2, y6
<1>9. i \in Int /\ 0 - x \in Int
  <2> HIDE DEF M
  <2> QED BY <1>1, <1>3
<1> DEFINE w == 0 - x
<1>10. w \in Int /\ w = lo2 + Snip!Modulus * hi2 + Long!Modulus * i
  BY <1>1, <1>8, <1>9
<1> HIDE DEF w, i
<1>11. Long!Wrap(w) = lo2 + Snip!Modulus * hi2 /\ Split(Long!Wrap(w)) = <<lo2, hi2>>
  BY <1>4, <1>6, <1>9, <1>10, LongWrapIs
<1>12. LongOf(lo2, hi2) = lo2 + Snip!Modulus * hi2
  BY <1>1 DEF LongOf
<1> QED BY <1>2, <1>4, <1>6, <1>11, <1>12 DEF w, x

\* The bit at the top is the sign.
LEMMA NegativeIs ==
  ASSUME NEW lo \in Snip!Words, NEW hi \in Snip!Words
  PROVE  Snip!Negative(<<lo, hi>>) <=> 2 * LongOf(lo, hi) >= Long!Modulus
<1> DEFINE M == Snip!Modulus
           h == 2^(W - 1)
           x == LongOf(lo, hi)
<1>1. M \in Nat \ {0} /\ Snip!Words = 0 .. M - 1 /\ Long!Modulus = M * M /\ 2^W = M
      /\ h \in Nat \ {0} /\ M = 2 * h
  BY WordFacts
<1>2. x = lo + M * hi
  BY <1>1 DEF LongOf
<1>3. Snip!Negative(<<lo, hi>>) <=> (hi \div h) % 2 = 1
  BY DEF Snip!Negative, Snip!Bit
<1> HIDE DEF M, h, x
<1>4. lo \in 0 .. M - 1 /\ hi \in 0 .. M - 1
  BY <1>1
<1>5. CASE hi >= h
  <2> DEFINE r == hi - h
  <2>1. 1 \in Int /\ r \in Nat /\ r < h /\ hi \in Int /\ hi = h * 1 + r
    BY <1>1, <1>4, <1>5
  <2> HIDE DEF r
  <2>2. hi \div h = 1
    BY <1>1, <2>1, Unique
  <2>3. (hi \div h) % 2 = 1
    BY <2>2
  <2>4. M * h <= M * hi
    BY <1>1, <1>4, <1>5, Grows
  <2>5. 2 * x >= M * M
    <3> DEFINE u == M * h
               v == M * hi
    <3>1. u \in Int /\ v \in Int /\ u <= v /\ x = lo + v /\ M * M = 2 * u
      BY <1>1, <1>2, <1>4, <2>4
    <3> HIDE DEF u, v
    <3>2. 2 * x >= 2 * u
      BY <1>4, <3>1
    <3> QED BY <3>1, <3>2
  <2> QED BY <1>1, <1>3, <2>3, <2>5 DEF x
<1>6. CASE hi < h
  <2>1. hi \div h = 0
    <3>1. hi \in Nat
      BY <1>1, <1>4
    <3> QED BY <1>1, <1>6, <3>1, Small
  <2>2. (hi \div h) % 2 # 1
    BY <2>1
  <2>3. M * (hi + 1) <= M * h
    BY <1>1, <1>4, <1>6, Grows
  <2>4. ~(2 * x >= M * M)
    <3> DEFINE u == M * h
               v == M * hi
    <3>1. u \in Int /\ v \in Int /\ v + M <= u /\ x = lo + v /\ M * M = 2 * u
      <4>1. M * (hi + 1) = v + M
        BY <1>1, <1>4
      <4>2. u \in Int /\ v \in Int /\ x = lo + v /\ M * M = 2 * u
        BY <1>1, <1>2, <1>4
      <4> QED BY <2>3, <4>1, <4>2
    <3> HIDE DEF u, v
    <3>2. 2 * x < 2 * u /\ x \in Int
      BY <1>1, <1>4, <3>1
    <3> QED BY <3>1, <3>2
  <2> QED BY <1>1, <1>3, <2>2, <2>4 DEF x
<1> QED BY <1>1, <1>4, <1>5, <1>6

\* The words of the absolute value.
LEMMA AbsoluteIs ==
  ASSUME NEW lo \in Snip!Words, NEW hi \in Snip!Words
  PROVE  LET y == Snip!Absolute(<<lo, hi>>)
             s == Long!Signed(LongOf(lo, hi))
         IN  /\ y[1] \in Snip!Words /\ y[2] \in Snip!Words
             /\ LongOf(y[1], y[2]) = Long!Abs(s) /\ s \in Int
             /\ s < 0 <=> Snip!Negative(<<lo, hi>>)
             /\ s = 0 => LongOf(lo, hi) = 0
<1> DEFINE N == Long!Modulus
           x == LongOf(lo, hi)
           s == Long!Signed(x)
           y == Snip!Absolute(<<lo, hi>>)
<1>1. x \in Nat /\ x < N
  BY PairOrder
<1>2. N \in Nat \ {0}
  <2> DEFINE M == Snip!Modulus
  <2>1. N = M * M /\ M \in Nat \ {0}
    BY WordFacts
  <2> HIDE DEF M, N
  <2> QED BY <2>1
<1>3. Snip!Negative(<<lo, hi>>) <=> 2 * x >= N
  BY NegativeIs
<1>4. s = IF 2 * x >= N THEN x - N ELSE x
  BY DEF Long!Signed
<1>5. Long!Abs(s) = IF s < 0 THEN -s ELSE s
  BY DEF Long!Abs
<1> HIDE DEF x, s, N
<1>6. CASE 2 * x >= N
  <2>1. y = Snip!neg64(<<lo, hi>>)
    BY <1>3, <1>6 DEF Snip!Absolute, Snip!NegatedIf
  <2>2. /\ y[1] \in Snip!Words /\ y[2] \in Snip!Words
        /\ LongOf(y[1], y[2]) = Long!Wrap(0 - x)
    BY <2>1, NegIs DEF x
  <2>3. Long!Wrap(0 - x) = N - x
    <3> DEFINE e == 0 - x
               r == N - x
               q == 0 - 1
    <3>1. e \in Int /\ q \in Int /\ r \in Nat /\ r < N /\ e = N * q + r
      BY <1>1, <1>2, <1>6
    <3> HIDE DEF e, r, q
    <3>2. e % N = r
      BY <1>2, <3>1, Unique
    <3> QED BY <3>2 DEF Long!Wrap, e, r, N
  <2>4. s \in Int /\ s < 0 /\ -s = N - x
    BY <1>1, <1>2, <1>4, <1>6
  <2> HIDE DEF y
  <2> QED BY <1>3, <1>5, <1>6, <2>2, <2>3, <2>4 DEF x, s, y
<1>7. CASE ~(2 * x >= N)
  <2>1. y = <<lo, hi>>
    BY <1>3, <1>7 DEF Snip!Absolute, Snip!NegatedIf
  <2>2. s = x /\ s \in Int /\ ~(s < 0)
    BY <1>1, <1>4, <1>7
  <2> QED BY <1>3, <1>5, <1>7, <2>1, <2>2 DEF x, s
<1> QED BY <1>6, <1>7

\* The remainder of a truncating division is that of the absolute values, with the dividend's
\* sign.
LEMMA TruncIs ==
  ASSUME NEW a \in Int, NEW b \in Int, b # 0
  PROVE  LET n == Long!Abs(a)
             d == Long!Abs(b)
         IN  /\ n \in Nat /\ d \in Nat \ {0} /\ n \div d \in Nat /\ n % d \in Nat
             /\ Long!TruncDiv(a, b) = IF (a < 0) # (b < 0) THEN 0 - (n \div d) ELSE n \div d
             /\ Long!TruncRem(a, b) = IF a < 0 THEN 0 - (n % d) ELSE n % d
<1> DEFINE n == Long!Abs(a)
           d == Long!Abs(b)
           q == n \div d
           r == n % d
           t == Long!TruncDiv(a, b)
<1>1. n = (IF a < 0 THEN 0 - a ELSE a) /\ d = (IF b < 0 THEN 0 - b ELSE b)
  BY DEF Long!Abs
<1>2. n \in Nat /\ d \in Nat \ {0}
  <2> HIDE DEF n, d
  <2> QED BY <1>1
<1>3. t = IF (a < 0) # (b < 0) THEN -q ELSE q
  BY DEF Long!TruncDiv
<1>4. Long!TruncRem(a, b) = a - b * t
  BY DEF Long!TruncRem
<1> HIDE DEF n, d
<1>5. q \in Nat /\ r \in Nat /\ n = d * q + r
  <2>1. q \in Int /\ r \in 0 .. d - 1 /\ n = d * q + r
    BY <1>2, Divided
  <2>2. q \in Nat
    BY <1>2, Floor
  <2> HIDE DEF q, r
  <2> QED BY <1>2, <2>1, <2>2
<1> HIDE DEF q, r, t
<1> DEFINE p == d * q
<1>6. p \in Int /\ n = p + r
  BY <1>2, <1>5
<1>7. a - b * t = IF a < 0 THEN 0 - r ELSE r
  <2>1. CASE a < 0 /\ b < 0
    <3>1. a = 0 - n /\ b = 0 - d /\ t = q
      BY <1>1, <1>3, <2>1
    <3>2. b * t = 0 - p
      BY <1>2, <1>5, <3>1
    <3> HIDE DEF p
    <3> QED BY <1>5, <1>6, <2>1, <3>1, <3>2
  <2>2. CASE a < 0 /\ ~(b < 0)
    <3>1. a = 0 - n /\ b = d /\ t = -q
      BY <1>1, <1>3, <2>2
    <3>2. b * t = 0 - p
      BY <1>2, <1>5, <3>1
    <3> HIDE DEF p
    <3> QED BY <1>5, <1>6, <2>2, <3>1, <3>2
  <2>3. CASE ~(a < 0) /\ b < 0
    <3>1. a = n /\ b = 0 - d /\ t = -q
      BY <1>1, <1>3, <2>3
    <3>2. b * t = p
      BY <1>2, <1>5, <3>1
    <3> HIDE DEF p
    <3> QED BY <1>5, <1>6, <2>3, <3>1, <3>2
  <2>4. CASE ~(a < 0) /\ ~(b < 0)
    <3>1. a = n /\ b = d /\ t = q
      BY <1>1, <1>3, <2>4
    <3>2. b * t = p
      BY <1>2, <1>5, <3>1
    <3> HIDE DEF p
    <3> QED BY <1>5, <1>6, <2>4, <3>1, <3>2
  <2> QED BY <2>1, <2>2, <2>3, <2>4
<1>8. t = IF (a < 0) # (b < 0) THEN 0 - q ELSE q
  <2>1. -q = 0 - q
    BY <1>5
  <2> QED BY <1>3, <2>1
<1> QED BY <1>2, <1>4, <1>5, <1>7, <1>8 DEF n, d, q, r, t

\* A number of two words is its own.
LEMMA OwnWords ==
  ASSUME NEW lo \in Snip!Words, NEW hi \in Snip!Words
  PROVE  Split(Long!Wrap(LongOf(lo, hi))) = <<lo, hi>>
<1> DEFINE M == Snip!Modulus
           x == lo + M * hi
<1>1. 2^W = M /\ M \in Nat \ {0}
  BY WordFacts
<1>2. LongOf(lo, hi) = x
  BY <1>1 DEF LongOf
<1>3. x \in Nat /\ x < Long!Modulus /\ Split(x) = <<lo, hi>>
  BY SplitIs
<1> HIDE DEF x
<1>4. Long!Modulus \in Nat \ {0}
  <2> DEFINE N == Long!Modulus
  <2>1. N = M * M
    BY WordFacts
  <2> HIDE DEF M, N
  <2>2. N \in Nat \ {0}
    BY <1>1, <2>1
  <2> QED BY <2>2 DEF N
<1>5. Long!Wrap(x) = x
  BY <1>3, <1>4, Small DEF Long!Wrap
<1> QED BY <1>2, <1>3, <1>5

\* i64_div_s_impl: the sign of the quotient is put back.
LEMMA DivSCorrect ==
  ASSUME NEW nlo \in Snip!Words, NEW nhi \in Snip!Words, NEW dlo \in Snip!Words,
         NEW dhi \in Snip!Words, LongOf(dlo, dhi) # 0
  PROVE  Snip!i64_div_s_impl(nlo, nhi, dlo, dhi)
           = Split(Long!Wrap(Long!TruncDiv(Long!Signed(LongOf(nlo, nhi)),
                                           Long!Signed(LongOf(dlo, dhi)))))
<1> DEFINE a == Long!Signed(LongOf(nlo, nhi))
           b == Long!Signed(LongOf(dlo, dhi))
           n == Snip!Absolute(<<nlo, nhi>>)
           d == Snip!Absolute(<<dlo, dhi>>)
           res == Snip!div64_with_remainder(n[1], n[2], d[1], d[2])
           opposite == Snip!Negative(<<nlo, nhi>>) # Snip!Negative(<<dlo, dhi>>)
           v == Long!Abs(a) \div Long!Abs(b)
<1>1. /\ n[1] \in Snip!Words /\ n[2] \in Snip!Words /\ LongOf(n[1], n[2]) = Long!Abs(a)
      /\ a \in Int /\ (a < 0 <=> Snip!Negative(<<nlo, nhi>>))
  BY AbsoluteIs
<1>2. /\ d[1] \in Snip!Words /\ d[2] \in Snip!Words /\ LongOf(d[1], d[2]) = Long!Abs(b)
      /\ b \in Int /\ (b < 0 <=> Snip!Negative(<<dlo, dhi>>)) /\ b # 0
  BY AbsoluteIs
<1>3. Snip!i64_div_s_impl(nlo, nhi, dlo, dhi)
        = IF opposite THEN Snip!neg64(<<res.qlo, res.qhi>>) ELSE <<res.qlo, res.qhi>>
  BY DEF Snip!i64_div_s_impl, Snip!NegatedIf, Snip!Quotient
<1>4. opposite <=> (a < 0) # (b < 0)
  <2>1. (a < 0 <=> Snip!Negative(<<nlo, nhi>>)) /\ (b < 0 <=> Snip!Negative(<<dlo, dhi>>))
    BY <1>1, <1>2
  <2> HIDE DEF a, b
  <2> QED BY <2>1 DEF Snip!Negative
<1> HIDE DEF a, b, n, d, opposite
<1>5. /\ Long!Abs(b) \in Nat \ {0}
      /\ Long!TruncDiv(a, b) = IF (a < 0) # (b < 0) THEN 0 - v ELSE v
  BY <1>1, <1>2, TruncIs
<1>6. res.qlo \in Snip!Words /\ res.qhi \in Snip!Words /\ LongOf(res.qlo, res.qhi) = v
  <2> DEFINE d1 == d[1]
             d2 == d[2]
             n1 == n[1]
             n2 == n[2]
  <2>1. n1 \in Snip!Words /\ n2 \in Snip!Words /\ d1 \in Snip!Words /\ d2 \in Snip!Words
        /\ LongOf(d1, d2) # 0 /\ LongOf(n1, n2) = Long!Abs(a) /\ LongOf(d1, d2) = Long!Abs(b)
    BY <1>1, <1>2, <1>5
  <2> HIDE DEF d1, d2, n1, n2
  <2> DEFINE out == Snip!div64_with_remainder(n1, n2, d1, d2)
  <2>2. /\ out.qlo \in Snip!Words /\ out.qhi \in Snip!Words
        /\ LongOf(out.qlo, out.qhi) = LongOf(n1, n2) \div LongOf(d1, d2)
    BY <2>1, Div64Correct
  <2> QED BY <2>1, <2>2 DEF d1, d2, n1, n2
<1> HIDE DEF res, v
<1>7. Split(Long!Wrap(v)) = <<res.qlo, res.qhi>>
  BY <1>6, OwnWords
<1>8. Snip!neg64(<<res.qlo, res.qhi>>) = Split(Long!Wrap(0 - v))
  BY <1>6, NegIs
<1>9. Snip!i64_div_s_impl(nlo, nhi, dlo, dhi) = Split(Long!Wrap(Long!TruncDiv(a, b)))
  <2>1. CASE opposite
    BY <1>3, <1>4, <1>5, <1>8, <2>1
  <2>2. CASE ~opposite
    BY <1>3, <1>4, <1>5, <1>7, <2>2
  <2> QED BY <2>1, <2>2
<1> QED BY <1>9 DEF a, b

\* i64_rem_s_impl: the remainder has the dividend's sign.
LEMMA RemSCorrect ==
  ASSUME NEW nlo \in Snip!Words, NEW nhi \in Snip!Words, NEW dlo \in Snip!Words,
         NEW dhi \in Snip!Words, LongOf(dlo, dhi) # 0
  PROVE  Snip!i64_rem_s_impl(nlo, nhi, dlo, dhi)
           = Split(Long!Wrap(Long!TruncRem(Long!Signed(LongOf(nlo, nhi)),
                                           Long!Signed(LongOf(dlo, dhi)))))
<1> DEFINE a == Long!Signed(LongOf(nlo, nhi))
           b == Long!Signed(LongOf(dlo, dhi))
           n == Snip!Absolute(<<nlo, nhi>>)
           d == Snip!Absolute(<<dlo, dhi>>)
           res == Snip!div64_with_remainder(n[1], n[2], d[1], d[2])
           negative == Snip!Negative(<<nlo, nhi>>)
           v == Long!Abs(a) % Long!Abs(b)
<1>1. /\ n[1] \in Snip!Words /\ n[2] \in Snip!Words /\ LongOf(n[1], n[2]) = Long!Abs(a)
      /\ a \in Int /\ (a < 0 <=> negative)
  BY AbsoluteIs
<1>2. /\ d[1] \in Snip!Words /\ d[2] \in Snip!Words /\ LongOf(d[1], d[2]) = Long!Abs(b)
      /\ b \in Int /\ b # 0
  BY AbsoluteIs
<1>3. Snip!i64_rem_s_impl(nlo, nhi, dlo, dhi)
        = IF negative THEN Snip!neg64(<<res.rlo, res.rhi>>) ELSE <<res.rlo, res.rhi>>
  BY DEF Snip!i64_rem_s_impl, Snip!NegatedIf, Snip!Remainder
<1> HIDE DEF a, b, n, d, negative
<1>5. /\ Long!Abs(b) \in Nat \ {0}
      /\ Long!TruncRem(a, b) = IF a < 0 THEN 0 - v ELSE v
  BY <1>1, <1>2, TruncIs
<1>6. res.rlo \in Snip!Words /\ res.rhi \in Snip!Words /\ LongOf(res.rlo, res.rhi) = v
  <2> DEFINE d1 == d[1]
             d2 == d[2]
             n1 == n[1]
             n2 == n[2]
  <2>1. n1 \in Snip!Words /\ n2 \in Snip!Words /\ d1 \in Snip!Words /\ d2 \in Snip!Words
        /\ LongOf(d1, d2) # 0 /\ LongOf(n1, n2) = Long!Abs(a) /\ LongOf(d1, d2) = Long!Abs(b)
    BY <1>1, <1>2, <1>5
  <2> HIDE DEF d1, d2, n1, n2
  <2> DEFINE out == Snip!div64_with_remainder(n1, n2, d1, d2)
  <2>2. /\ out.rlo \in Snip!Words /\ out.rhi \in Snip!Words
        /\ LongOf(out.rlo, out.rhi) = LongOf(n1, n2) % LongOf(d1, d2)
    BY <2>1, Div64Correct
  <2> QED BY <2>1, <2>2 DEF d1, d2, n1, n2
<1> HIDE DEF res, v
<1>7. Split(Long!Wrap(v)) = <<res.rlo, res.rhi>>
  BY <1>6, OwnWords
<1>8. Snip!neg64(<<res.rlo, res.rhi>>) = Split(Long!Wrap(0 - v))
  BY <1>6, NegIs
<1>9. Snip!i64_rem_s_impl(nlo, nhi, dlo, dhi) = Split(Long!Wrap(Long!TruncRem(a, b)))
  <2>1. CASE negative
    BY <1>1, <1>3, <1>5, <1>8, <2>1
  <2>2. CASE ~negative
    BY <1>1, <1>3, <1>5, <1>7, <2>2
  <2> QED BY <2>1, <2>2
<1> QED BY <1>9 DEF a, b

----------------------------------------------------------------------------
(* All the instructions.                                                   *)

\* What Wasm's instructions compute on an i64.
LEMMA LongResults ==
  ASSUME NEW a, NEW b
  PROVE  /\ Long!Binary("I32Add", a, b) = Long!Wrap(a + b)
         /\ Long!Binary("I32Sub", a, b) = Long!Wrap(a - b)
         /\ Long!Binary("I32Mul", a, b) = Long!Wrap(a * b)
         /\ Long!Binary("I32Ne", a, b) = Long!FromBool(a # b)
         /\ Long!Binary("I32Shl", a, b) = Long!Wrap(a * 2^Long!Shift(b))
         /\ Long!Binary("I32ShrU", a, b) = a \div 2^Long!Shift(b)
         /\ Long!Binary("I32ShrS", a, b) = Long!Wrap(Long!Signed(a) \div 2^Long!Shift(b))
         /\ Long!Binary("I32Rotl", a, b)
              = Long!Wrap(a * 2^Long!Shift(b)) + a \div 2^(2 * W - Long!Shift(b))
         /\ Long!Binary("I32Rotr", a, b)
              = a \div 2^Long!Shift(b) + Long!Wrap(a * 2^(2 * W - Long!Shift(b)))
         /\ Long!Binary("I32DivU", a, b) = a \div b
         /\ Long!Binary("I32RemU", a, b) = a % b
         /\ Long!Binary("I32DivS", a, b) = Long!Wrap(Long!TruncDiv(Long!Signed(a), Long!Signed(b)))
         /\ Long!Binary("I32RemS", a, b) = Long!Wrap(Long!TruncRem(Long!Signed(a), Long!Signed(b)))
<1>1. /\ Long!Infallible("I32Add", a, b) = Long!Wrap(a + b)
      /\ Long!Infallible("I32Sub", a, b) = Long!Wrap(a - b)
      /\ Long!Infallible("I32Mul", a, b) = Long!Wrap(a * b)
      /\ Long!Infallible("I32Ne", a, b) = Long!FromBool(a # b)
  BY DEF Long!Infallible
<1>2. /\ Long!Infallible("I32Shl", a, b) = Long!Wrap(a * 2^Long!Shift(b))
      /\ Long!Infallible("I32ShrU", a, b) = a \div 2^Long!Shift(b)
      /\ Long!Infallible("I32ShrS", a, b) = Long!Wrap(Long!Signed(a) \div 2^Long!Shift(b))
  BY DEF Long!Infallible
<1>3. /\ Long!Infallible("I32Rotl", a, b)
           = Long!Wrap(a * 2^Long!Shift(b)) + a \div 2^(2 * W - Long!Shift(b))
      /\ Long!Infallible("I32Rotr", a, b)
           = a \div 2^Long!Shift(b) + Long!Wrap(a * 2^(2 * W - Long!Shift(b)))
  BY DEF Long!Infallible
<1>4. /\ Long!Fallible("I32DivU", a, b) = a \div b
      /\ Long!Fallible("I32RemU", a, b) = a % b
      /\ Long!Fallible("I32DivS", a, b) = Long!Wrap(Long!TruncDiv(Long!Signed(a), Long!Signed(b)))
      /\ Long!Fallible("I32RemS", a, b) = Long!Wrap(Long!TruncRem(Long!Signed(a), Long!Signed(b)))
  BY DEF Long!Fallible
<1>5. \A op \in {"I32Add", "I32Sub", "I32Mul", "I32Ne", "I32Shl", "I32ShrU", "I32ShrS", "I32Rotl",
                 "I32Rotr"} : Long!Binary(op, a, b) = Long!Infallible(op, a, b)
  BY DEF Long!Binary, Long!FallibleOps
<1>6. \A op \in {"I32DivU", "I32RemU", "I32DivS", "I32RemS"} :
        Long!Binary(op, a, b) = Long!Fallible(op, a, b)
  BY DEF Long!Binary, Long!FallibleOps
<1> QED BY <1>1, <1>2, <1>3, <1>4, <1>5, <1>6

\* The names of the instructions.
LEMMA WideNames ==
  /\ Snip!SnippetOps \subseteq DOMAIN WideName
  /\ WideName["I64Add"] = "I32Add" /\ WideName["I64Sub"] = "I32Sub"
  /\ WideName["I64Mul"] = "I32Mul" /\ WideName["I64Ne"] = "I32Ne"
  /\ WideName["I64Shl"] = "I32Shl" /\ WideName["I64ShrS"] = "I32ShrS"
  /\ WideName["I64ShrU"] = "I32ShrU" /\ WideName["I64Rotl"] = "I32Rotl"
  /\ WideName["I64Rotr"] = "I32Rotr" /\ WideName["I64DivU"] = "I32DivU"
  /\ WideName["I64DivS"] = "I32DivS" /\ WideName["I64RemU"] = "I32RemU"
  /\ WideName["I64RemS"] = "I32RemS"
BY DEF WideName, Snip!SnippetOps

\* An instruction that leaves an i64 leaves its words.
LEMMA TwoWords ==
  ASSUME NEW op \in Snip!SnippetOps, NEW v
  PROVE  LET res == Long!Binary(WideName[op], LongOf(v[1], v[2]), LongOf(v[3], v[4]))
         IN  ExpectedResult(op, v) = IF op = "I64Ne" THEN <<res>> ELSE Split(res)
<1>1. op \in DOMAIN WideName
  BY WideNames
<1>2. op \in OneWord <=> op = "I64Ne"
  BY DEF OneWord, Snip!SnippetOps
<1> QED BY <1>1, <1>2 DEF ExpectedResult

\* A division that does not trap has a divisor other than zero.
LEMMA DivisorNotZero ==
  ASSUME NEW op \in {"I64DivU", "I64DivS", "I64RemU", "I64RemS"}, NEW v,
         ExpectedTrap(op, v) = "none"
  PROVE  LongOf(v[3], v[4]) # 0
<1>1. op \in DOMAIN WideName /\ WideName[op] \in Long!FallibleOps
  BY WideNames DEF Snip!SnippetOps, Long!FallibleOps
<1>2. Long!FallibleTrap(WideName[op], LongOf(v[1], v[2]), LongOf(v[3], v[4])) = "none"
  BY <1>1 DEF ExpectedTrap, Long!BinaryTrap
<1> QED BY <1>2 DEF Long!FallibleTrap

\* Each function computes its instruction.
LEMMA SnippetResult ==
  ASSUME NEW op \in Snip!SnippetOps, NEW v, v[1] \in Snip!Words, v[2] \in Snip!Words,
         v[3] \in Snip!Words, v[4] \in Snip!Words, ExpectedTrap(op, v) = "none"
  PROVE  Snip!Snippet(op, v[1], v[2], v[3], v[4]) = ExpectedResult(op, v)
<1> DEFINE alo == v[1]
           ahi == v[2]
           blo == v[3]
           bhi == v[4]
           a == LongOf(alo, ahi)
           b == LongOf(blo, bhi)
<1>1. alo \in Snip!Words /\ ahi \in Snip!Words /\ blo \in Snip!Words /\ bhi \in Snip!Words
  OBVIOUS
<1>2. /\ op # "I64Ne" => ExpectedResult(op, v) = Split(Long!Binary(WideName[op], a, b))
      /\ op = "I64Ne" => ExpectedResult(op, v) = <<Long!Binary(WideName[op], a, b)>>
  BY TwoWords
<1>3. op \in {"I64DivU", "I64DivS", "I64RemU", "I64RemS"} => b # 0
  BY DivisorNotZero
<1> HIDE DEF alo, ahi, blo, bhi
<1>4. CASE op = "I64Add"
  <2>1. Snip!Snippet(op, alo, ahi, blo, bhi) = Snip!i64_add_impl(alo, ahi, blo, bhi)
    BY <1>4 DEF Snip!Snippet
  <2>2. Snip!i64_add_impl(alo, ahi, blo, bhi) = Split(Long!Binary("I32Add", a, b))
    BY <1>1, AddCorrect, LongResults
  <2>3. ExpectedResult(op, v) = Split(Long!Binary("I32Add", a, b))
    BY <1>2, <1>4, WideNames
  <2> QED BY <2>1, <2>2, <2>3 DEF alo, ahi, blo, bhi
<1>5. CASE op = "I64Sub"
  <2>1. Snip!Snippet(op, alo, ahi, blo, bhi) = Snip!i64_sub_impl(alo, ahi, blo, bhi)
    BY <1>5 DEF Snip!Snippet
  <2>2. Snip!i64_sub_impl(alo, ahi, blo, bhi) = Split(Long!Binary("I32Sub", a, b))
    BY <1>1, SubCorrect, LongResults
  <2>3. ExpectedResult(op, v) = Split(Long!Binary("I32Sub", a, b))
    BY <1>2, <1>5, WideNames
  <2> QED BY <2>1, <2>2, <2>3 DEF alo, ahi, blo, bhi
<1>6. CASE op = "I64Mul"
  <2>1. Snip!Snippet(op, alo, ahi, blo, bhi) = Snip!i64_mul_impl(alo, ahi, blo, bhi)
    BY <1>6 DEF Snip!Snippet
  <2>2. Snip!i64_mul_impl(alo, ahi, blo, bhi) = Split(Long!Binary("I32Mul", a, b))
    BY <1>1, MulCorrect, LongResults
  <2>3. ExpectedResult(op, v) = Split(Long!Binary("I32Mul", a, b))
    BY <1>2, <1>6, WideNames
  <2> QED BY <2>1, <2>2, <2>3 DEF alo, ahi, blo, bhi
<1>7. CASE op = "I64Shl"
  <2>1. Snip!Snippet(op, alo, ahi, blo, bhi) = Snip!i64_shl_impl(alo, ahi, blo)
    BY <1>7 DEF Snip!Snippet
  <2>2. Snip!i64_shl_impl(alo, ahi, blo) = Split(Long!Binary("I32Shl", a, b))
    BY <1>1, ShlCorrect, LongResults
  <2>3. ExpectedResult(op, v) = Split(Long!Binary("I32Shl", a, b))
    BY <1>2, <1>7, WideNames
  <2> QED BY <2>1, <2>2, <2>3 DEF alo, ahi, blo, bhi
<1>8. CASE op = "I64ShrS"
  <2>1. Snip!Snippet(op, alo, ahi, blo, bhi) = Snip!i64_shr_s_impl(alo, ahi, blo)
    BY <1>8 DEF Snip!Snippet
  <2>2. Snip!i64_shr_s_impl(alo, ahi, blo) = Split(Long!Binary("I32ShrS", a, b))
    BY <1>1, ShrSCorrect, LongResults
  <2>3. ExpectedResult(op, v) = Split(Long!Binary("I32ShrS", a, b))
    BY <1>2, <1>8, WideNames
  <2> QED BY <2>1, <2>2, <2>3 DEF alo, ahi, blo, bhi
<1>9. CASE op = "I64ShrU"
  <2>1. Snip!Snippet(op, alo, ahi, blo, bhi) = Snip!i64_shr_u_impl(alo, ahi, blo)
    BY <1>9 DEF Snip!Snippet
  <2>2. Snip!i64_shr_u_impl(alo, ahi, blo) = Split(Long!Binary("I32ShrU", a, b))
    BY <1>1, ShrUCorrect, LongResults
  <2>3. ExpectedResult(op, v) = Split(Long!Binary("I32ShrU", a, b))
    BY <1>2, <1>9, WideNames
  <2> QED BY <2>1, <2>2, <2>3 DEF alo, ahi, blo, bhi
<1>10. CASE op = "I64Rotl"
  <2>1. Snip!Snippet(op, alo, ahi, blo, bhi) = Snip!i64_rotl_impl(alo, ahi, blo)
    BY <1>10 DEF Snip!Snippet
  <2>2. Snip!i64_rotl_impl(alo, ahi, blo) = Split(Long!Binary("I32Rotl", a, b))
    BY <1>1, RotlCorrect, LongResults
  <2>3. ExpectedResult(op, v) = Split(Long!Binary("I32Rotl", a, b))
    BY <1>2, <1>10, WideNames
  <2> QED BY <2>1, <2>2, <2>3 DEF alo, ahi, blo, bhi
<1>11. CASE op = "I64Rotr"
  <2>1. Snip!Snippet(op, alo, ahi, blo, bhi) = Snip!i64_rotr_impl(alo, ahi, blo)
    BY <1>11 DEF Snip!Snippet
  <2>2. Snip!i64_rotr_impl(alo, ahi, blo) = Split(Long!Binary("I32Rotr", a, b))
    BY <1>1, RotrCorrect, LongResults
  <2>3. ExpectedResult(op, v) = Split(Long!Binary("I32Rotr", a, b))
    BY <1>2, <1>11, WideNames
  <2> QED BY <2>1, <2>2, <2>3 DEF alo, ahi, blo, bhi
<1>12. CASE op = "I64DivU"
  <2>1. Snip!Snippet(op, alo, ahi, blo, bhi) = Snip!i64_div_u_impl(alo, ahi, blo, bhi)
    BY <1>12 DEF Snip!Snippet
  <2>2. Snip!i64_div_u_impl(alo, ahi, blo, bhi) = Split(Long!Binary("I32DivU", a, b))
    BY <1>1, <1>3, <1>12, DivUCorrect, LongResults
  <2>3. ExpectedResult(op, v) = Split(Long!Binary("I32DivU", a, b))
    BY <1>2, <1>12, WideNames
  <2> QED BY <2>1, <2>2, <2>3 DEF alo, ahi, blo, bhi
<1>13. CASE op = "I64DivS"
  <2>1. Snip!Snippet(op, alo, ahi, blo, bhi) = Snip!i64_div_s_impl(alo, ahi, blo, bhi)
    BY <1>13 DEF Snip!Snippet
  <2>2. Snip!i64_div_s_impl(alo, ahi, blo, bhi) = Split(Long!Binary("I32DivS", a, b))
    BY <1>1, <1>3, <1>13, DivSCorrect, LongResults
  <2>3. ExpectedResult(op, v) = Split(Long!Binary("I32DivS", a, b))
    BY <1>2, <1>13, WideNames
  <2> QED BY <2>1, <2>2, <2>3 DEF alo, ahi, blo, bhi
<1>14. CASE op = "I64RemU"
  <2>1. Snip!Snippet(op, alo, ahi, blo, bhi) = Snip!i64_rem_u_impl(alo, ahi, blo, bhi)
    BY <1>14 DEF Snip!Snippet
  <2>2. Snip!i64_rem_u_impl(alo, ahi, blo, bhi) = Split(Long!Binary("I32RemU", a, b))
    BY <1>1, <1>3, <1>14, RemUCorrect, LongResults
  <2>3. ExpectedResult(op, v) = Split(Long!Binary("I32RemU", a, b))
    BY <1>2, <1>14, WideNames
  <2> QED BY <2>1, <2>2, <2>3 DEF alo, ahi, blo, bhi
<1>15. CASE op = "I64RemS"
  <2>1. Snip!Snippet(op, alo, ahi, blo, bhi) = Snip!i64_rem_s_impl(alo, ahi, blo, bhi)
    BY <1>15 DEF Snip!Snippet
  <2>2. Snip!i64_rem_s_impl(alo, ahi, blo, bhi) = Split(Long!Binary("I32RemS", a, b))
    BY <1>1, <1>3, <1>15, RemSCorrect, LongResults
  <2>3. ExpectedResult(op, v) = Split(Long!Binary("I32RemS", a, b))
    BY <1>2, <1>15, WideNames
  <2> QED BY <2>1, <2>2, <2>3 DEF alo, ahi, blo, bhi
<1>16. CASE op = "I64Ne"
  <2>1. Snip!Snippet(op, alo, ahi, blo, bhi) = <<Snip!i64_ne(alo, ahi, blo, bhi)>>
    BY <1>16 DEF Snip!Snippet
  <2>2. Snip!i64_ne(alo, ahi, blo, bhi) = Long!Binary("I32Ne", a, b)
    BY <1>1, NeCorrect, LongResults
  <2>3. ExpectedResult(op, v) = <<Long!Binary("I32Ne", a, b)>>
    BY <1>2, <1>16, WideNames
  <2> QED BY <2>1, <2>2, <2>3 DEF alo, ahi, blo, bhi
<1> QED BY <1>4, <1>5, <1>6, <1>7, <1>8, <1>9, <1>10, <1>11, <1>12, <1>13, <1>14, <1>15, <1>16 DEF Snip!SnippetOps

----------------------------------------------------------------------------
(* The theorem.                                                            *)

\* A run in progress was called with operands of its module.
OperandsInv == module \in Modules /\ (operands = <<>> \/ operands \in ParamSets[module])

\* The interpreter never changes which module it runs.
LEMMA VisitKeepsModule ==
  ASSUME Visit
  PROVE  module' = module
<1>1. CASE VisitStackOp
  BY <1>1 DEF VisitStackOp, VisitLocalGet, VisitLocalSet, VisitLocalTee, VisitDrop, VisitSelect,
    VisitConst, VisitBulkConst, VisitBulkDrop, VisitUnary, VisitBinary, VisitWide, VisitGlobalGet,
    VisitGlobalSet, StackStep, Trapped, TrapOut, Leave
<1>2. CASE VisitSystemOp
  BY <1>2 DEF VisitSystemOp, VisitConsumeFuel, VisitConsumeFuelStack, VisitSignatureCheck,
    VisitStackCheck, Charge, Trapped, TrapOut, Leave
<1>3. CASE VisitControlOp
  BY <1>3 DEF VisitControlOp, VisitTrap, VisitBr, VisitBrIf, VisitBrTable, VisitReturn,
    VisitCallInternal, VisitReturnCallInternal, VisitIndirect, Jump, PushCall, Trapped, TrapOut, Leave
<1>4. CASE VisitCall
  BY <1>4 DEF VisitCall, Trapped, TrapOut, Leave
<1> QED BY <1>1, <1>2, <1>3, <1>4 DEF Visit

\* A step keeps the operands among the module's.
LEMMA OperandsStep ==
  ASSUME OperandsInv, [LowNext]_LowVars
  PROVE  OperandsInv'
<1>1. ASSUME NEW v \in Callable, Call(v)
      PROVE  OperandsInv'
  <2>1. operands = <<>> /\ v \in ParamSets[module]
    BY <1>1 DEF Call, Callable
  <2>2. module' = module /\ operands' = v
    BY <1>1 DEF Call, Execute, Start
  <2> QED BY <2>1, <2>2 DEF OperandsInv
<1>2. CASE Work
  <2>1. module' = module /\ operands' = operands
    BY <1>2, VisitKeepsModule DEF Work
  <2> QED BY <2>1 DEF OperandsInv
<1>3. CASE TakeResult
  BY <1>3 DEF TakeResult, OperandsInv
<1>4. CASE UNCHANGED LowVars
  BY <1>4 DEF LowVars, vars, runVars, OperandsInv
<1> QED BY <1>1, <1>2, <1>3, <1>4 DEF LowNext

\* Called with any two i64 a run may be called with, each function of src/snippets returns what
\* Wasm's instruction computes on them, unless that instruction traps: for words of any width
\* a power of two, the code's 32 bits among them.
THEOREM SnippetsCorrect ==
  ASSUME ParamSets = OpParamSets, Word \subseteq Snip!Words
  PROVE  LowSpec => []SnippetMatchesWasm
<1>1. LowInit => OperandsInv
  BY DEF LowInit, Init, OperandsInv
<1>2. OperandsInv /\ [LowNext]_LowVars => OperandsInv'
  BY OperandsStep
<1>3. OperandsInv => SnippetMatchesWasm
  <2> SUFFICES ASSUME OperandsInv, operands # <<>>, module \in Snip!SnippetOps,
                      ExpectedTrap(module, operands) = "none"
               PROVE  Snip!Snippet(module, operands[1], operands[2], operands[3], operands[4])
                        = ExpectedResult(module, operands)
    BY DEF SnippetMatchesWasm, Finished
  <2>1. module \in Modules /\ operands \in OpParamSets[module]
    BY DEF OperandsInv
  <2>2. Arity(module) = 4
    BY DEF Arity, Extensions, UnaryLongs, Snip!SnippetOps
  <2>3. DOMAIN operands = 1 .. 4 /\ \A i \in DOMAIN operands : operands[i] \in Limbs[module][i]
    BY <2>1, <2>2 DEF OpParamSets
  <2>4. \A i \in 1 .. 4 : Limbs[module][i] \subseteq Snip!Words
    BY <2>1, LoweringAssumption
  <2>5. \A i \in 1 .. 4 : operands[i] \in Snip!Words
    BY <2>3, <2>4
  <2>6. 1 \in 1 .. 4 /\ 2 \in 1 .. 4 /\ 3 \in 1 .. 4 /\ 4 \in 1 .. 4
    OBVIOUS
  <2>7. operands[1] \in Snip!Words /\ operands[2] \in Snip!Words /\ operands[3] \in Snip!Words
        /\ operands[4] \in Snip!Words
    BY <2>5, <2>6
  <2> QED BY <2>7, SnippetResult
<1> QED BY <1>1, <1>2, <1>3, PTL DEF LowSpec
=============================================================================
