---------------------------- MODULE I64Snippets ----------------------------
(***************************************************************************)
(* The Rust functions of src/snippets, from which the longer sequences of  *)
(* I64Sequences were extracted: 64-bit arithmetic on pairs of 32-bit       *)
(* limbs, low limb first.  A limb has W bits.                              *)
(***************************************************************************)
EXTENDS I32Alu, Sequences

Or(a, b)  == Infallible("I32Or", a, b)
Not(a)    == MaxWord - a
Half      == W \div 2          \* 16 in the code

----------------------------------------------------------------------------
\* Mutant: a sum equal to the operand counts as a carry.
i64_add_carry(alo, ahi, blo, bhi) ==
  LET lo == Wrap(alo + blo) IN <<lo, Wrap(ahi + bhi + FromBool(lo <= alo))>>

i64_add_impl(alo, ahi, blo, bhi) ==
  LET lo == Wrap(alo + blo) IN <<lo, Wrap(ahi + bhi + FromBool(lo < alo))>>

i64_sub_impl(alo, ahi, blo, bhi) ==
  <<Wrap(alo - blo), Wrap(ahi - bhi - FromBool(alo < blo))>>

\* overflowing_add on one limb, and addition and subtraction on two.
add32(a, b) == <<Wrap(a + b), FromBool(a + b >= Modulus)>>
add64(x, alo, ahi) == <<Wrap(x[1] + alo), Wrap(x[2] + Wrap(ahi + add32(x[1], alo)[2]))>>
sub64(x, blo, bhi) == <<Wrap(x[1] - blo), Wrap(x[2] - Wrap(bhi + FromBool(x[1] < blo)))>>

\* The product of two limbs from those of their halves.
mul32(x, y) ==
  LET x0 == x % 2^Half  x1 == x \div 2^Half
      y0 == y % 2^Half  y1 == y \div 2^Half
      cross   == add32(Wrap(x0 * y1), Wrap(x1 * y0))
      low     == add32(Wrap(x0 * y0), Wrap((cross[1] % 2^Half) * 2^Half))
      crossHi == Wrap(cross[1] \div 2^Half + Wrap(cross[2] * 2^Half))
      tmp     == add32(Wrap(x1 * y1), crossHi)
  IN  <<low[1], Wrap(tmp[1] + low[2] + tmp[2])>>

\* Karatsuba: three products of limbs instead of four.
i64_mul_impl(alo, ahi, blo, bhi) ==
  LET z0  == mul32(alo, blo)
      z2  == mul32(ahi, bhi)
      sa  == add32(alo, ahi)
      sb  == add32(blo, bhi)
      z1  == mul32(sa[1], sb[1])
      z1a == IF sa[2] # 0 THEN add64(z1, 0, sb[1]) ELSE z1
      z1b == IF sb[2] # 0 THEN add64(z1a, 0, sa[1]) ELSE z1a
      mid == sub64(sub64(z1b, z0[1], z0[2]), z2[1], z2[2])
  IN  add64(z0, 0, mid[1])

i64_ne(alo, ahi, blo, bhi) == FromBool(alo # blo \/ ahi # bhi)

----------------------------------------------------------------------------
(* Shifts: the amount is the low limb modulo 2W.                           *)

Amount(blo) == blo % (2 * W)
Left(a, n)  == Wrap(a * 2^n)
Right(a, n) == a \div 2^n
SignedRight(a, n) == Wrap(Signed(a) \div 2^n)

i64_shl_impl(alo, ahi, blo) ==
  LET n == Amount(blo) IN
  CASE n = 0 -> <<alo, ahi>>
    [] n \in 1 .. W - 1 -> <<Left(alo, n), Or(Left(ahi, n), Right(alo, W - n))>>
    [] n = W -> <<0, alo>>
    [] OTHER -> <<0, Left(alo, n - W)>>

i64_shr_u_impl(alo, ahi, blo) ==
  LET n == Amount(blo) IN
  CASE n = 0 -> <<alo, ahi>>
    [] n \in 1 .. W - 1 -> <<Or(Right(alo, n), Left(ahi, W - n)), Right(ahi, n)>>
    [] n = W -> <<ahi, 0>>
    [] OTHER -> <<Right(ahi, n - W), 0>>

i64_shr_s_impl(alo, ahi, blo) ==
  LET n    == Amount(blo)
      sign == IF Signed(ahi) < 0 THEN MaxWord ELSE 0
  IN
  CASE n = 0 -> <<alo, ahi>>
    [] n \in 1 .. W - 1 -> <<Or(Right(alo, n), Left(ahi, W - n)), SignedRight(ahi, n)>>
    [] n = W -> <<ahi, sign>>
    [] OTHER -> <<SignedRight(ahi, n - W), sign>>

i64_rotl_impl(alo, ahi, blo) ==
  LET k == Amount(blo)
      m == k - W
  IN
  CASE k = 0 -> <<alo, ahi>>
    [] k \in 1 .. W - 1 -> <<Or(Left(alo, k), Right(ahi, W - k)),
                             Or(Left(ahi, k), Right(alo, W - k))>>
    [] k = W -> <<ahi, alo>>
    [] OTHER -> <<Or(Left(ahi, m), Right(alo, W - m)), Or(Left(alo, m), Right(ahi, W - m))>>

i64_rotr_impl(alo, ahi, blo) ==
  LET k == Amount(blo)
      m == k - W
  IN
  CASE k = 0 -> <<alo, ahi>>
    [] k = W -> <<ahi, alo>>
    [] k \in 1 .. W - 1 -> <<Or(Right(alo, k), Left(ahi, W - k)),
                             Or(Right(ahi, k), Left(alo, W - k))>>
    [] OTHER -> <<Or(Right(ahi, m), Left(alo, W - m)), Or(Right(alo, m), Left(ahi, W - m))>>

----------------------------------------------------------------------------
(* Division: a zero divisor and an overflowing quotient never get this     *)
(* far, the functions hit a breakpoint first.                              *)

\* The divisor fits one limb: quotient and remainder of the limbs hi, lo, in one
\* limb each, bit by bit.  The quotient loses what does not fit.
div_mod_64_by_32(hi, lo, d) ==
  LET round[k \in 0 .. 2 * W] ==
        IF k = 0 THEN [q |-> 0, r |-> 0]
        ELSE LET i    == 2 * W - k
                 prev == round[k - 1]
                 r    == Or(Left(prev.r, 1), IF i >= W THEN Bit(hi, i - W) ELSE Bit(lo, i))
             IN  IF r >= d THEN [q |-> Or(prev.q, 2^(i % W)), r |-> r - d]
                           ELSE [q |-> prev.q, r |-> r]
  IN  round[2 * W]

\* Long division over 2W rounds: numerator, remainder and quotient as limbs.
div64_with_remainder(nlo, nhi, dlo, dhi) ==
  LET round[k \in 0 .. 2 * W] ==
        IF k = 0 THEN [nlo |-> nlo, nhi |-> nhi, rlo |-> 0, rhi |-> 0, qlo |-> 0, qhi |-> 0]
        ELSE LET p   == round[k - 1]
                 rhi == Or(Left(p.rhi, 1), Right(p.rlo, W - 1))
                 rlo == Or(Left(p.rlo, 1), Right(p.nhi, W - 1))
                 ge  == rhi > dhi \/ (rhi = dhi /\ rlo >= dlo)
                 r   == IF ge THEN sub64(<<rlo, rhi>>, dlo, dhi) ELSE <<rlo, rhi>>
             IN  [nlo |-> Left(p.nlo, 1), nhi |-> Or(Left(p.nhi, 1), Right(p.nlo, W - 1)),
                  rlo |-> r[1], rhi |-> r[2],
                  qlo |-> Or(Left(p.qlo, 1), FromBool(ge)),
                  qhi |-> Or(Left(p.qhi, 1), Right(p.qlo, W - 1))]
  IN  round[2 * W]

\* Mutant: any divisor of one limb.
OneLimbAny(dlo, dhi) == dhi = 0

\* The fast path's condition.
OneLimb(dlo, dhi) == dhi = 0 /\ dlo < 2^(W - 1)

Quotient(res)  == <<res.qlo, res.qhi>>
Remainder(res) == <<res.rlo, res.rhi>>

i64_div_u_impl(nlo, nhi, dlo, dhi) ==
  IF nhi < dhi \/ (nhi = dhi /\ nlo < dlo) THEN <<0, 0>>
  ELSE IF OneLimb(dlo, dhi)
  THEN LET high == div_mod_64_by_32(0, nhi, dlo)
       IN  <<div_mod_64_by_32(high.r, nlo, dlo).q, high.q>>
  ELSE Quotient(div64_with_remainder(nlo, nhi, dlo, dhi))

i64_rem_u_impl(nlo, nhi, dlo, dhi) ==
  IF OneLimb(dlo, dhi)
  THEN <<div_mod_64_by_32(div_mod_64_by_32(0, nhi, dlo).r, nlo, dlo).r, 0>>
  ELSE Remainder(div64_with_remainder(nlo, nhi, dlo, dhi))

neg64(x) == LET lo == Wrap(Not(x[1]) + 1) IN <<lo, Wrap(Not(x[2]) + FromBool(lo = 0))>>
Negative(x) == Bit(x[2], W - 1) = 1
NegatedIf(condition, x) == IF condition THEN neg64(x) ELSE x
Absolute(x) == NegatedIf(Negative(x), x)

i64_div_s_impl(nlo, nhi, dlo, dhi) ==
  LET n == Absolute(<<nlo, nhi>>)
      d == Absolute(<<dlo, dhi>>)
  IN  NegatedIf(Negative(<<nlo, nhi>>) # Negative(<<dlo, dhi>>),
                Quotient(div64_with_remainder(n[1], n[2], d[1], d[2])))

i64_rem_s_impl(nlo, nhi, dlo, dhi) ==
  LET n == Absolute(<<nlo, nhi>>)
      d == Absolute(<<dlo, dhi>>)
  IN  NegatedIf(Negative(<<nlo, nhi>>),
                Remainder(div64_with_remainder(n[1], n[2], d[1], d[2])))

----------------------------------------------------------------------------
\* The functions by the instruction they implement.
SnippetOps == {"I64Add", "I64Sub", "I64Mul", "I64Shl", "I64ShrS", "I64ShrU", "I64Rotl",
               "I64Rotr", "I64DivU", "I64DivS", "I64RemU", "I64RemS", "I64Ne"}

Snippet(op, alo, ahi, blo, bhi) ==
  CASE op = "I64Add"  -> i64_add_impl(alo, ahi, blo, bhi)
    [] op = "I64Sub"  -> i64_sub_impl(alo, ahi, blo, bhi)
    [] op = "I64Mul"  -> i64_mul_impl(alo, ahi, blo, bhi)
    [] op = "I64Shl"  -> i64_shl_impl(alo, ahi, blo)
    [] op = "I64ShrS" -> i64_shr_s_impl(alo, ahi, blo)
    [] op = "I64ShrU" -> i64_shr_u_impl(alo, ahi, blo)
    [] op = "I64Rotl" -> i64_rotl_impl(alo, ahi, blo)
    [] op = "I64Rotr" -> i64_rotr_impl(alo, ahi, blo)
    [] op = "I64DivU" -> i64_div_u_impl(alo, ahi, blo, bhi)
    [] op = "I64DivS" -> i64_div_s_impl(alo, ahi, blo, bhi)
    [] op = "I64RemU" -> i64_rem_u_impl(alo, ahi, blo, bhi)
    [] op = "I64RemS" -> i64_rem_s_impl(alo, ahi, blo, bhi)
    [] op = "I64Ne"   -> <<i64_ne(alo, ahi, blo, bhi)>>
=============================================================================
