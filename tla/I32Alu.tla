------------------------------- MODULE I32Alu -------------------------------
(***************************************************************************)
(* The integer unit of the rwasm interpreter: what the I32* opcodes        *)
(* compute (src/src/vm/executor/alu.rs on top of UntypedValue).  A stack   *)
(* slot is a word of W bits; the code has W = 32, the model checker uses   *)
(* a smaller W.  Words are kept unsigned, 0 .. 2^W - 1, as UntypedValue    *)
(* keeps its `bits: u32`.                                                  *)
(***************************************************************************)
EXTENDS Integers, FiniteSets

CONSTANT W          \* bits of a word (32 in the code)

ASSUME WordWidth == W \in Nat \ {0}

Modulus == 2^W
Words    == 0 .. Modulus - 1
MaxWord == Modulus - 1

\* True of every W; the provers know nothing of exponents.
ASSUME WordValues == Modulus \in Nat \ {0}

\* The trap an operation returns instead of a value.
NoTrap == "none"

\* A word read as a two's complement integer, and back.
Signed(a)   == IF 2 * a >= Modulus THEN a - Modulus ELSE a
Wrap(i)     == i % Modulus
FromBool(b) == IF b THEN 1 ELSE 0

Bit(a, i) == (a \div 2^i) % 2

\* The word whose bits satisfy P, bit by bit.
WordOf(P(_)) == CHOOSE c \in Words : \A i \in 0 .. W - 1 : Bit(c, i) = FromBool(P(i))

Abs(i) == IF i < 0 THEN -i ELSE i

\* Rust's truncating division of integers, and its remainder.
TruncDiv(a, b) == LET q == Abs(a) \div Abs(b)
                  IN  IF (a < 0) # (b < 0) THEN -q ELSE q
TruncRem(a, b) == a - b * TruncDiv(a, b)

----------------------------------------------------------------------------
(* Unary operations: sp.eval_top(UntypedValue::f).                         *)

Clz(a)    == CHOOSE n \in 0 .. W : /\ a < 2^(W - n)
                                   /\ n = W \/ a >= 2^(W - n - 1)
Ctz(a)    == CHOOSE n \in 0 .. W : /\ a % 2^n = 0
                                   /\ n = W \/ Bit(a, n) = 1

Popcnt(a) == Cardinality({i \in 0 .. W - 1 : Bit(a, i) = 1})

\* Sign extension of the low n bits; the code's 8 and 16 are W / 4 and W / 2.
SignExtend(a, n) == LET low == a % 2^n
                    IN  IF Bit(low, n - 1) = 1 THEN Wrap(low - 2^n) ELSE low

UnaryOpcodes == {"I32Eqz", "I32Clz", "I32Ctz", "I32Popcnt", "I32WrapI64",
             "I32Extend8S", "I32Extend16S"}

Unary(op, a) ==
  CASE op = "I32Eqz" -> FromBool(a = 0)
    [] op = "I32Clz" -> Clz(a)
    [] op = "I32Ctz" -> Ctz(a)
    [] op = "I32Popcnt"    -> Popcnt(a)
    [] op = "I32WrapI64"   -> a
    [] op = "I32Extend8S"  -> SignExtend(a, W \div 4)
    [] op = "I32Extend16S" -> SignExtend(a, W \div 2)

----------------------------------------------------------------------------
(* Infallible binary operations: sp.eval_top2(UntypedValue::f).            *)

Shift(b) == b % W        \* the `& 0x1F` of the code

InfallibleOps ==
  {"I32Eq", "I32Ne", "I32LtS", "I32LtU", "I32GtS", "I32GtU", "I32LeS",
   "I32LeU", "I32GeS", "I32GeU", "I32Add", "I32Sub", "I32Mul", "I32And",
   "I32Or", "I32Xor", "I32Shl", "I32ShrS", "I32ShrU", "I32Rotl", "I32Rotr"}

Infallible(op, a, b) ==
  CASE op = "I32Eq"   -> FromBool(a = b)
    [] op = "I32Ne"   -> FromBool(a # b)
    [] op = "I32LtS"  -> FromBool(Signed(a) < Signed(b))
    [] op = "I32LtU"  -> FromBool(a < b)
    [] op = "I32GtS"  -> FromBool(Signed(a) > Signed(b))
    [] op = "I32GtU"  -> FromBool(a > b)
    [] op = "I32LeS"  -> FromBool(Signed(a) <= Signed(b))
    [] op = "I32LeU"  -> FromBool(a <= b)
    [] op = "I32GeS"  -> FromBool(Signed(a) >= Signed(b))
    [] op = "I32GeU"  -> FromBool(a >= b)
    [] op = "I32Add"  -> Wrap(a + b)
    [] op = "I32Sub"  -> Wrap(a - b)
    [] op = "I32Mul"  -> Wrap(a * b)
    [] op = "I32And"  -> WordOf(LAMBDA i : Bit(a, i) = 1 /\ Bit(b, i) = 1)
    [] op = "I32Or"   -> WordOf(LAMBDA i : Bit(a, i) = 1 \/ Bit(b, i) = 1)
    [] op = "I32Xor"  -> WordOf(LAMBDA i : Bit(a, i) # Bit(b, i))
    [] op = "I32Shl"  -> Wrap(a * 2^Shift(b))
    [] op = "I32ShrU" -> a \div 2^Shift(b)
    [] op = "I32ShrS" -> Wrap(Signed(a) \div 2^Shift(b))
    [] op = "I32Rotl" -> Wrap(a * 2^Shift(b)) + a \div 2^(W - Shift(b))
    [] op = "I32Rotr" -> a \div 2^Shift(b) + Wrap(a * 2^(W - Shift(b)))

----------------------------------------------------------------------------
(* Fallible binary operations: sp.try_eval_top2(UntypedValue::f)?.         *)

FallibleOps == {"I32DivS", "I32DivU", "I32RemS", "I32RemU"}

\* i32::div and u32::div of types/value.rs: a zero divisor and the one
\* quotient that overflows trap; a remainder only traps on zero.
FallibleTrap(op, a, b) ==
  IF b = 0 THEN "IntegerDivisionByZero"
  ELSE IF op = "I32DivS" /\ 2 * a = Modulus /\ b = MaxWord /\ W > 1
       THEN "IntegerOverflow"
  ELSE NoTrap

Fallible(op, a, b) ==
  CASE op = "I32DivU" -> a \div b
    [] op = "I32RemU" -> a % b
    [] op = "I32DivS" -> Wrap(TruncDiv(Signed(a), Signed(b)))
    [] op = "I32RemS" -> Wrap(TruncRem(Signed(a), Signed(b)))

BinaryOpcodes == InfallibleOps \cup FallibleOps

BinaryTrap(op, a, b) == IF op \in FallibleOps THEN FallibleTrap(op, a, b) ELSE NoTrap
Binary(op, a, b)     == IF op \in FallibleOps THEN Fallible(op, a, b) ELSE Infallible(op, a, b)

----------------------------------------------------------------------------
(* Widening operations: two words in, the two words of the 64-bit result   *)
(* out, low word first (visit_i32_add64, visit_i32_mul64, push_i64).       *)

WideOpcodes == {"I32Add64", "I32Mul64"}

WideResult(op, a, b) == IF op = "I32Add64" THEN a + b ELSE a * b
Wide(op, a, b)       == << Wrap(WideResult(op, a, b)), Wrap(WideResult(op, a, b) \div Modulus) >>
=============================================================================
