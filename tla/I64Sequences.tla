---------------------------- MODULE I64Sequences ----------------------------
(***************************************************************************)
(* The i64 instructions of rwasm: there are none.  The compiler replaces   *)
(* each of them by a sequence of i32 opcodes (src/src/isa/*.rs), which     *)
(* finds an i64 as two words on the stack, the high word on top, and       *)
(* leaves its result the same way.  A word has W bits: the code's 31, 32,  *)
(* 63, 64 and 95 are W - 1, W, 2W - 1, 2W and 3W - 1 here.                 *)
(***************************************************************************)
EXTENDS Integers, Sequences, TLC

CONSTANT W          \* bits of a word (32 in the code)

\* 3W - 1 is a constant of the division sequences and has to be a word.
ASSUME WidthAssumption == W \in Nat /\ W % 2 = 0 /\ 3 * W - 1 < 2^W

\* Two's complement constants.
Neg(n) == 2^W - n
MinInt == 2^(W - 1)
MaxInt == MinInt - 1

\* One emitter of InstructionSet each.
Emit(op, imm) == [op |-> op, imm |-> imm]
Get(n)   == Emit("LocalGet", n)
Set(n)   == Emit("LocalSet", n)
Tee(n)   == Emit("LocalTee", n)
Const(w) == Emit("I32Const", w)
Br(d)    == Emit("Br", d)
BrNez(d) == Emit("BrIfNez", d)
BrEqz(d) == Emit("BrIfEqz", d)
TrapWith(code) == Emit("Trap", code)
Drop     == Emit("Drop", 0)
Select   == Emit("Select", 0)
Eqz    == Emit("I32Eqz", 0)
Eq     == Emit("I32Eq", 0)
Ne     == Emit("I32Ne", 0)
LtS    == Emit("I32LtS", 0)
LtU    == Emit("I32LtU", 0)
GtS    == Emit("I32GtS", 0)
GtU    == Emit("I32GtU", 0)
LeS    == Emit("I32LeS", 0)
LeU    == Emit("I32LeU", 0)
GeS    == Emit("I32GeS", 0)
GeU    == Emit("I32GeU", 0)
Add    == Emit("I32Add", 0)
Sub    == Emit("I32Sub", 0)
Mul    == Emit("I32Mul", 0)
And    == Emit("I32And", 0)
Or     == Emit("I32Or", 0)
Xor    == Emit("I32Xor", 0)
Shl    == Emit("I32Shl", 0)
ShrS   == Emit("I32ShrS", 0)
ShrU   == Emit("I32ShrU", 0)
Clz    == Emit("I32Clz", 0)
Ctz    == Emit("I32Ctz", 0)
Popcnt == Emit("I32Popcnt", 0)
Add64  == Emit("I32Add64", 0)
Mul64  == Emit("I32Mul64", 0)
Extend8  == Emit("I32Extend8S", 0)
Extend16 == Emit("I32Extend16S", 0)

Repeat(n, opcode) == [i \in 1 .. n |-> opcode]

----------------------------------------------------------------------------
(* Idioms that several sequences share.                                    *)

\* (a << 1) | (b >> 31): one bit from the word at b, seen one slot deeper.
ShlWith(a, b) == <<Get(a), Const(1), Shl, Get(b), Const(W - 1), ShrU, Or>>

\* The i64 <<0, word at n>>: the word shifted left by W.
HighToTop(n) ==
  <<Get(n), Const(0), Const(W), Const(0), Get(2), Const(2 * W - 1), And, Set(2),
    Get(2), BrEqz(32), Get(2), Const(W - 1), GtU, BrEqz(10), Get(4), Get(3),
    Const(W), Sub, Shl, Set(3), Const(0), Set(4), Br(19), Get(4), Get(3), Shl,
    Set(4), Get(3), Get(3), Shl, Set(3), Get(4), Const(W), Get(4), Const(W - 1),
    And, Sub, ShrU, Get(4), Or, Set(3), Drop, Drop>>

\* The i64 on top or-ed with the i64 <<word at n, 0>>.
OrLow(n) == <<Get(n), Const(0), Get(3), Or, Set(2), Get(3), Or, Set(2)>>

\* The result replaces the operands, and the scratch slots go.
Finish(n, scratch) == <<Set(n), Set(n)>> \o Repeat(scratch, Drop)

\* Restoring division of alo, ahi by dlo, dhi, 2W rounds counted down in c: the
\* dividend moves bit by bit into the remainder rlo, rhi, from which the divisor is
\* subtracted when it fits.  x is scratch.
RemainderLoop(x, rlo, rhi, dlo, dhi, alo, ahi, c) ==
  ShlWith(rlo, ahi + 1) \o <<Set(x)>> \o ShlWith(rhi, rlo + 1)
  \o <<Tee(rhi + 1), Get(dhi + 1), GtU, BrNez(12), Get(rhi), Get(dhi + 1), Ne, BrNez(5),
    Get(x), Get(dlo + 1), GeU, BrNez(4), Get(x), Set(rlo), Br(13),
    Get(rhi), Get(dhi + 1), Sub, Get(x + 1), Get(dlo + 2), LtU, Sub, Set(rhi),
    Get(x), Get(dlo + 1), Sub, Set(rlo)>>
  \o ShlWith(ahi, alo + 1) \o <<Set(ahi), Get(alo), Const(1), Shl, Set(alo),
    Get(c), Const(Neg(1)), Add, Tee(c + 1), BrNez(-58)>>

\* The same, with the bits of the quotient shifted into qlo, qhi.
QuotientLoop(x, rlo, rhi, dlo, dhi, alo, ahi, qlo, qhi, c) ==
  ShlWith(rlo, ahi + 1) \o <<Set(x)>> \o ShlWith(rhi, rlo + 1)
  \o <<Tee(rhi + 1), Get(dhi + 1), GtU, BrNez(14), Const(0), Set(1),
    Get(rhi), Get(dhi + 1), Ne, BrNez(5),
    Get(x), Get(dlo + 1), GeU, BrNez(4), Get(x), Set(rlo), Br(15),
    Get(rhi), Get(dhi + 1), Sub, Get(x + 1), Get(dlo + 2), LtU, Sub, Set(rhi),
    Get(x), Get(dlo + 1), Sub, Set(rlo), Const(1), Set(1)>>
  \o ShlWith(ahi, alo + 1) \o <<Set(ahi), Get(alo), Const(1), Shl, Set(alo)>>
  \o ShlWith(qhi, qlo + 1) \o <<Set(qhi), Get(1), Get(qlo + 1), Const(1), Shl, Or, Set(qlo),
    Get(c), Const(Neg(1)), Add, Tee(c + 1), BrNez(-76)>>

----------------------------------------------------------------------------
(* add_sub.rs, mul.rs, conv.rs.                                            *)

op_i64_add ==
  <<Get(4), Get(3), Add64, Get(5), Get(4), Add, Add>> \o Finish(4, 2)

op_i64_sub ==
  <<Get(4), Get(3), Sub, Get(5), Get(4), LtU, Get(5), Get(4), Sub, Get(2), Sub,
    Set(5), Drop, Set(4), Drop, Drop>>

op_i64_mul ==
  <<Get(2), Get(5), Mul64, Get(3), Get(7), Mul, Get(5), Get(7), Mul, Add, Add>>
  \o Finish(4, 2)

op_i32_wrap_i64     == <<Drop>>
op_i64_extend_i32_s == <<Get(1), Const(W - 1), ShrS>>
op_i64_extend_i32_u == <<Const(0)>>
op_i64_extend8_s    == <<Drop, Extend8>> \o op_i64_extend_i32_s
op_i64_extend16_s   == <<Drop, Extend16>> \o op_i64_extend_i32_s
op_i64_extend32_s   == <<Drop>> \o op_i64_extend_i32_s

----------------------------------------------------------------------------
(* compare.rs.                                                             *)

op_i64_eqz == <<Eqz, Get(2), Eqz, Set(2), And>>

\* Mutant: the low words are compared as signed numbers.
CompareSigned(high, low) ==
  <<Get(3), Get(2), Eq, BrNez(5), Get(3), Get(2), high, Br(4), Get(4), Get(3), high,
    Set(4), Drop, Drop, Drop>>

\* By the high words unless they are equal, then by the low ones, always unsigned.
Compare(high, low) ==
  <<Get(3), Get(2), Eq, BrNez(5), Get(3), Get(2), high, Br(4), Get(4), Get(3), low,
    Set(4), Drop, Drop, Drop>>

\* One word at a time, as and, or and xor do too.
Bitwise(word) == <<Get(3), word, Set(2), Get(3), word, Set(2)>>

op_i64_eq   == Bitwise(Eq) \o <<And>>
op_i64_ne   == Bitwise(Ne) \o <<Or>>
op_i64_lt_s == Compare(LtS, LtU)
op_i64_lt_u == Compare(LtU, LtU)
op_i64_gt_s == Compare(GtS, GtU)
op_i64_gt_u == Compare(GtU, GtU)
op_i64_le_s == Compare(LeS, LeU)
op_i64_le_u == Compare(LeU, LeU)
op_i64_ge_s == Compare(GeS, GeU)
op_i64_ge_u == Compare(GeU, GeU)

----------------------------------------------------------------------------
(* bitwise.rs.                                                             *)

op_i64_clz ==
  <<Clz, Get(1), Const(W), Eq, BrEqz(4), Get(2), Clz, Add, Set(1), Const(0)>>

op_i64_ctz ==
  <<Get(2), Ctz, Get(1), Const(W), Eq, BrEqz(5), Set(2), Ctz, Add, Br(3), Set(2),
    Drop, Const(0)>>

op_i64_popcnt == <<Popcnt, Get(2), Popcnt, Set(2), Add, Const(0)>>
op_i64_and    == Bitwise(And)
op_i64_or     == Bitwise(Or)
op_i64_xor    == Bitwise(Xor)

op_i64_shl ==
  <<Const(0), Const(0), Get(4), Const(2 * W - 1), And, Tee(3), BrNez(4), Get(6),
    Set(1), Br(44), Get(2), Const(W), Eq, BrNez(36), Get(2), Const(Neg(1)), Add,
    Const(W - 1), LtU, BrNez(10), Const(0), Set(1), Get(2), Const(W), GtU,
    BrNez(19), Const(0), Set(5), Br(25), Get(5), Get(5), Shl, Get(7), Const(0),
    Get(7), Sub, ShrU, Or, Set(5), Get(6), Get(5), Shl, Set(1), Br(10), Get(6),
    Get(5), Shl, Set(5), Br(5), Const(0), Set(1), Get(6), Set(5)>> \o HighToTop(5)
  \o OrLow(3) \o Finish(6, 4)

\* A word in the upper half of an i64, by the shift above: <<0, word>>.
WidenHigh(n) == <<Get(n), Const(0), Const(W), Const(0)>> \o op_i64_shl

\* The two words shifted right; the low one where the operand was.
ShrSWords ==
  <<Const(0), Const(0), Get(4), Const(2 * W - 1), And, Tee(3), BrNez(4), Get(5),
    Set(1), Br(49), Get(2), Const(W), Eq, BrNez(24), Get(2), Const(Neg(1)), Add,
    Const(W - 1), LtU, BrNez(25), Const(0), Set(1), Const(0), Set(6), Get(2),
    Const(W), LeU, BrNez(31), Get(5), Get(5), ShrS, Set(6), Get(5), Const(W - 1),
    ShrS, Set(1), Br(22), Get(5), Const(W - 1), ShrS, Set(1), Get(5), Set(6),
    Br(15), Get(6), Get(5), ShrU, Get(6), Const(0), Get(7), Sub, Shl, Or, Set(6),
    Get(5), Get(5), ShrS, Set(1)>>

op_i64_shr_s ==
  ShrSWords
  \o WidenHigh(1) \o OrLow(8) \o Finish(6, 4)

op_i64_shr_u ==
  <<Const(0), Const(0), Get(4), Const(2 * W - 1), And, Tee(3), BrNez(6), Get(5),
    Set(1), Get(6), Set(5), Br(42), Get(2), Const(W), Eq, BrNez(36), Get(2),
    Const(Neg(1)), Add, Const(W - 1), LtU, BrNez(10), Const(0), Set(1), Get(2),
    Const(W), GtU, BrNez(19), Const(0), Set(5), Br(23), Get(5), Get(5), ShrU,
    Set(1), Get(6), Get(5), ShrU, Get(6), Const(0), Get(7), Sub, Shl, Or, Set(5),
    Br(8), Get(5), Get(5), ShrU, Set(5), Br(3), Const(0), Set(1)>> \o HighToTop(1)
  \o OrLow(7) \o Finish(6, 4)

\* The two words rotated.
RotlWords ==
  <<Const(0), Const(0), Get(4), Const(2 * W - 1), And, Tee(3), BrNez(4), Get(5),
    Set(2), Br(53), Get(2), Const(W), LtU, BrNez(10), Get(2), Const(W), Ne,
    BrNez(26), Get(6), Set(2), Get(5), Set(6), Br(40), Get(5), Get(5), Shl, Get(7),
    Const(0), Get(7), Sub, Tee(4), ShrU, Or, Set(2), Get(6), Get(5), Shl, Get(6),
    Get(3), ShrU, Or, Set(6), Br(20), Get(6), Get(5), Shl, Get(6), Const(0), Get(7),
    Sub, Tee(4), ShrU, Or, Set(2), Get(5), Get(5), Shl, Get(7), Get(3), ShrU, Or,
    Set(6)>>

op_i64_rotl ==
  RotlWords
  \o WidenHigh(2) \o OrLow(8) \o Finish(6, 4)

RotrWords ==
  <<Const(0), Const(0), Get(4), Const(2 * W - 1), And, Tee(3), BrNez(4), Get(5),
    Set(2), Br(55), Get(2), Const(W), Ne, BrNez(6), Get(6), Set(2), Get(5), Set(6),
    Br(46), Get(2), Const(Neg(1)), Add, Const(W - 1), LtU, BrNez(21), Get(6),
    Get(5), ShrU, Get(6), Const(0), Get(7), Sub, Tee(4), Shl, Or, Set(2), Get(5),
    Get(5), ShrU, Get(7), Get(3), Shl, Or, Set(6), Br(20), Get(5), Get(5), ShrU,
    Get(7), Const(0), Get(7), Sub, Tee(4), Shl, Or, Set(2), Get(6), Get(5), ShrU,
    Get(6), Get(3), Shl, Or, Set(6)>>

op_i64_rotr ==
  RotrWords
  \o WidenHigh(2) \o OrLow(8) \o Finish(6, 4)

----------------------------------------------------------------------------
(* div_u.rs, div_s.rs, rem_u.rs, rem_s.rs.                                 *)

\* Which words are zero, and which divisor is larger than its dividend.
DivUCases ==
  Repeat(7, Const(0)) \o <<Get(8), BrNez(19), Get(9), Eqz, BrNez(25), Get(10),
    BrNez(9), Const(0), Set(7), Const(0), Set(6), Get(11), Get(10), LtU, BrNez(251),
    Get(9), Const(Neg(1)), GtS, BrNez(12), Br(159), Const(0), Set(7), Get(10),
    Get(9), GeU, BrNez(143), Const(0), Set(6), Br(237),
    TrapWith("IntegerDivisionByZero")>>

\* A divisor of one word: the high word bit by bit, then the low word.
DivUByWord ==
  <<Const(0), Set(7), Const(3 * W - 1), Set(5), Const(0), Set(4), Get(4), Const(1),
    Shl, Set(4), Get(5), Const(Neg(W - 1)), Add, Tee(7), Const(W), GtU, BrNez(26),
    Get(10), Get(6), Const(Neg(W)), Add, Tee(5), ShrU, Const(1), And, Get(5), Or,
    Tee(5), Get(10), LtU, BrNez(26), Get(4), Get(10), Sub, Set(4), Get(7), Const(1),
    Get(5), Shl, Or, Set(7), Br(15), Get(4), Get(10), LtU, BrNez(11), Get(4),
    Get(10), Sub, Set(4), Const(1), Get(6), Shl, Get(8), Or, Set(7), Get(5),
    Const(Neg(1)), Add, Set(5), Get(6), Const(1), GtU, BrNez(-57), Const(0), Set(6),
    Const(3 * W - 1), Set(5), Const(0), Set(10), Get(10), Const(1), Shl, Set(10),
    Get(5), Const(Neg(W - 1)), Add, Tee(4), Const(W), GtU, BrNez(26), Get(11),
    Get(6), Const(Neg(W)), Add, Tee(10), ShrU, Const(1), And, Get(11), Or, Tee(11),
    Get(10), LtU, BrNez(35), Get(10), Get(10), Sub, Set(10), Get(6), Const(1),
    Get(10), Shl, Or, Set(6), Br(24), Get(4), Get(6), ShrU, Const(1), And, Get(11),
    Or, Tee(11), Get(10), LtU, BrNez(13), Get(10), Get(10), Sub, Set(10), Const(1),
    Get(6), Const(W - 1), And, Shl, Get(7), Or, Set(6), Get(5), Const(Neg(1)), Add,
    Set(5), Get(3), Const(1), GtU, BrNez(-66), Br(98)>>

\* A divisor of two words.
DivULong ==
  <<Get(11), Get(10), GeU, BrNez(7), Const(0), Set(6), Get(10), Get(9), Eq,
    BrNez(88), Const(0), Set(4), Const(2 * W), Set(2), Const(0), Set(7), Const(0),
    Set(6), Const(0), Set(3)>> \o QuotientLoop(5, 3, 4, 9, 8, 11, 10, 6, 7, 2)

op_i64_div_u ==
  DivUCases \o DivUByWord \o DivULong
  \o WidenHigh(7) \o OrLow(8) \o Finish(11, 9)

\* The traps, and the absolute values of both operands.
DivSOperands ==
  Repeat(9, Const(0)) \o <<Get(10), Get(12), Or, BrNez(2),
    TrapWith("IntegerDivisionByZero"), Get(12), Const(MinInt), Ne, BrNez(12),
    Get(10), Const(Neg(1)), Ne, BrNez(8), Get(13), BrNez(43), Get(11),
    Const(Neg(1)), Ne, BrNez(39), TrapWith("IntegerOverflow"), Get(12),
    Const(Neg(1)), GtS, BrNez(17), Const(0), Get(14), Sub, Set(9), Get(13), Eqz,
    Get(13), Const(Neg(1)), Xor, Add, Set(8), Get(10), Const(0), LtS, BrNez(28),
    Br(13), Get(13), Set(9), Get(12), Set(8), Get(10), Const(Neg(1)), LeS,
    BrNez(19), Get(13), Set(9), Get(12), Set(8), Get(10), Set(7), Get(11), Set(6),
    Br(21), Const(MaxInt), Const(MinInt), Get(15), Select, Set(8), Const(0),
    Get(14), Sub, Set(9), Const(0), Get(12), Sub, Set(6), Get(11), Eqz, Get(11),
    Const(Neg(1)), Xor, Add, Set(7)>>

op_i64_div_s ==
  DivSOperands
  \o <<Const(0), Set(11), Const(2 * W), Set(5), Const(0), Set(4), Const(0), Set(3),
    Const(0), Set(2)>> \o QuotientLoop(13, 4, 11, 6, 7, 9, 8, 2, 3, 5) \o <<Get(10),
    Get(13), Xor, Const(Neg(1)), LeS, BrNez(4), Get(2), Set(11), Br(12), Const(0),
    Get(3), Sub, Set(11), Get(2), Eqz, Get(4), Const(Neg(1)), Xor, Add, Set(3)>>
  \o HighToTop(3) \o OrLow(13) \o Finish(13, 11)

\* A divisor of one word with a clear sign bit: two bits of the dividend a round,
\* first the high word's, then the low word's.
RemUHighWord ==
  Repeat(6, Const(0)) \o <<Get(7), BrNez(144), Get(8), BrNez(2),
    TrapWith("IntegerDivisionByZero"), Get(8), Const(0), LtS, BrNez(137),
    Const(2 * W), Set(6), Const(0), Set(5), Get(6), Const(W), GtU, Set(7), Get(6),
    Const(Neg(1)), Add, Set(4), Const(0), Get(10), Get(8), Const(Neg(2)), Add,
    Tee(9), ShrU, Const(1), And, Get(6), Const(W), GtU, Select, Const(0), Get(11),
    Get(7), ShrU, Const(1), And, Get(10), Select, Get(7), Const(1), Shl, Or, Tee(7),
    Const(0), Get(11), Get(9), Get(13), LtU, Select, Sub, Const(1), Shl, Or, Tee(6),
    Const(0), Get(10), Get(8), Get(12), LtU, Select, Sub, Set(5), Get(4), Const(1),
    Ne, BrNez(-56)>>

RemULowWord ==
  <<Const(3 * W - 1), Set(6), Const(0), Set(4), Get(5), Get(7), Const(Neg(1)), Add,
    Const(W - 2), And, ShrU, Get(11), Get(8), Const(Neg(W + 1)), Add, Tee(12), ShrU,
    Get(8), Const(Neg(W)), Add, Tee(10), Const(W), GtU, Select, Const(1), And,
    Get(6), Get(8), ShrU, Get(12), Get(10), ShrU, Get(9), Const(Neg(W - 1)), Add,
    Const(W), GtU, Select, Const(1), And, Get(6), Const(1), Shl, Or, Tee(6),
    Const(0), Get(11), Get(8), Get(13), LtU, Select, Sub, Const(1), Shl, Or, Tee(5),
    Const(0), Get(10), Get(7), Get(12), LtU, Select, Sub, Set(4), Get(6),
    Const(Neg(2)), Add, Set(6), Get(9), BrNez(-65), Const(0), Const(0), Set(3),
    Set(3), Br(182)>>

\* Any other divisor.
RemULong ==
  <<Const(0), Set(6), Const(2 * W), Set(1), Const(0), Set(4)>>
  \o RemainderLoop(5, 4, 6, 8, 7, 10, 9, 1)

op_i64_rem_u ==
  RemUHighWord \o RemULowWord \o RemULong
  \o WidenHigh(6) \o <<Set(3), Set(3), Get(3), Get(3)>> \o OrLow(6) \o Finish(10, 8)

\* One loop for each sign of the operands.
RemSPositive ==
  Repeat(4, Const(0)) \o <<Get(5), Get(7), Or, BrNez(2),
    TrapWith("IntegerDivisionByZero"), Get(7), Const(Neg(1)), LeS, BrNez(147),
    Const(0), Set(4), Get(5), Const(0), LtS, BrNez(67), Const(0), Set(4),
    Const(2 * W), Set(3), Const(0), Set(2)>>
  \o RemainderLoop(1, 2, 4, 6, 5, 8, 7, 3) \o <<Br(240), Const(0), Get(7), Sub,
    Tee(4), Eqz, Get(6), Const(Neg(1)), Xor, Add, Set(6), Const(2 * W), Set(1),
    Const(0), Set(2)>> \o RemainderLoop(5, 2, 4, 3, 6, 8, 7, 1) \o <<Br(166)>>

RemSNegative ==
  <<Const(0), Set(4), Const(0), Get(9), Sub, Tee(3), Eqz, Get(8), Const(Neg(1)),
    Xor, Add, Set(8), Get(5), Const(0), LtS, BrNez(67), Const(0), Set(4),
    Const(2 * W), Set(3), Const(0), Set(7)>>
  \o RemainderLoop(1, 7, 4, 6, 5, 2, 8, 3) \o <<Br(74), Const(0), Get(7), Sub,
    Tee(4), Eqz, Get(6), Const(Neg(1)), Xor, Add, Set(6), Const(2 * W), Set(1),
    Const(0), Set(7)>> \o RemainderLoop(5, 7, 4, 3, 6, 2, 8, 1)

op_i64_rem_s ==
  RemSPositive \o RemSNegative
  \o <<Const(0), Get(8), Sub, Tee(3), Eqz, Get(5), Const(Neg(1)), Xor, Add, Set(4)>>
  \o HighToTop(4) \o OrLow(4) \o Finish(8, 6)

----------------------------------------------------------------------------
\* The MSH_* constants, file by file: the slots a sequence may need above its operands.
MshArith ==
  [I64Add |-> 4, I64Sub |-> 8, I64Mul |-> 5, I32WrapI64 |-> 0, I64ExtendI32S |-> 2,
   I64ExtendI32U |-> 1, I64Extend8S |-> 2, I64Extend16S |-> 2, I64Extend32S |-> 2]

MshCompare ==
  [I64Eqz |-> 1, I64Eq |-> 1, I64Ne |-> 1, I64LtS |-> 2, I64LtU |-> 2, I64GtS |-> 2,
   I64GtU |-> 2, I64LeS |-> 2, I64LeU |-> 2, I64GeS |-> 2, I64GeU |-> 2]

\* Mutant: the borrowed constant of a shorter sequence.
MshBitwiseLow ==
  [I64Clz |-> 3, I64Ctz |-> 3, I64Popcnt |-> 1, I64And |-> 1, I64Or |-> 1, I64Xor |-> 1,
   I64Shl |-> 9, I64ShrS |-> 9, I64ShrU |-> 9, I64Rotl |-> 9, I64Rotr |-> 9]

MshBitwise ==
  [I64Clz |-> 3, I64Ctz |-> 3, I64Popcnt |-> 1, I64And |-> 1, I64Or |-> 1, I64Xor |-> 1,
   I64Shl |-> 9, I64ShrS |-> 21, I64ShrU |-> 21, I64Rotl |-> 16, I64Rotr |-> 16]

MshDivision == [I64DivU |-> 21, I64DivS |-> 17, I64RemU |-> 20, I64RemS |-> 12]

Msh == MshArith @@ MshCompare @@ MshBitwise @@ MshDivision

\* The emitter of each instruction (Snippet::definition and the translator's visit_i64_*).
Emitter ==
  [I64Add |-> op_i64_add, I64Sub |-> op_i64_sub, I64Mul |-> op_i64_mul,
   I32WrapI64 |-> op_i32_wrap_i64, I64ExtendI32S |-> op_i64_extend_i32_s,
   I64ExtendI32U |-> op_i64_extend_i32_u, I64Extend8S |-> op_i64_extend8_s,
   I64Extend16S |-> op_i64_extend16_s, I64Extend32S |-> op_i64_extend32_s,
   I64Eqz |-> op_i64_eqz, I64Eq |-> op_i64_eq, I64Ne |-> op_i64_ne, I64LtS |-> op_i64_lt_s,
   I64LtU |-> op_i64_lt_u, I64GtS |-> op_i64_gt_s, I64GtU |-> op_i64_gt_u,
   I64LeS |-> op_i64_le_s, I64LeU |-> op_i64_le_u, I64GeS |-> op_i64_ge_s,
   I64GeU |-> op_i64_ge_u, I64Clz |-> op_i64_clz, I64Ctz |-> op_i64_ctz,
   I64Popcnt |-> op_i64_popcnt, I64And |-> op_i64_and, I64Or |-> op_i64_or,
   I64Xor |-> op_i64_xor, I64Shl |-> op_i64_shl, I64ShrS |-> op_i64_shr_s,
   I64ShrU |-> op_i64_shr_u, I64Rotl |-> op_i64_rotl, I64Rotr |-> op_i64_rotr,
   I64DivU |-> op_i64_div_u, I64DivS |-> op_i64_div_s, I64RemU |-> op_i64_rem_u,
   I64RemS |-> op_i64_rem_s]
=============================================================================
