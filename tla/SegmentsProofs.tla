--------------------------- MODULE SegmentsProofs ---------------------------
(***************************************************************************)
(* Proofs about module Segments.  However a memory or a table grows, it    *)
(* stays within its maxima: the limit is compared in wrapping signed       *)
(* arithmetic (op_memory_grow_checked, op_table_grow_checked) before the   *)
(* store checks its own, and only the two together bound the size.  From   *)
(* that bound follow that bulk work is paid for, although its price is     *)
(* computed in wrapping arithmetic, and that fill, copy and grow are       *)
(* Wasm's, although their addresses are signed.                            *)
(***************************************************************************)
EXTENDS Segments, TLAPS

\* The region is a whole number of units, within both maxima, and empty until the
\* entrypoint has allocated it.
SizeInv ==
  /\ layout \in Layouts
  /\ boot \in Nat
  /\ cells \in Seq({cells[k] : k \in DOMAIN cells})
  /\ boot = 0 => cells = <<>>
  /\ Len(cells) = Units(cells) * Granule
  /\ Units(cells) \in 0 .. StoreMax
  /\ Declared # NoMaximum => Units(cells) <= Declared

----------------------------------------------------------------------------
(* Units and cells.                                                        *)

\* A whole number of units has that many units.
LEMMA UnitsOf ==
  ASSUME NEW u \in Nat, NEW g \in Nat \ {0}
  PROVE  (u * g) \div g = u
OBVIOUS

\* More units are more cells.
LEMMA MoreUnits ==
  ASSUME NEW u \in Nat, NEW v \in Nat, NEW g \in Nat, u <= v
  PROVE  u * g <= v * g
OBVIOUS

\* The cells of two numbers of units add up.
LEMMA AddUnits ==
  ASSUME NEW u \in Nat, NEW v \in Nat, NEW g \in Nat
  PROVE  u * g + v * g = (u + v) * g /\ v * g \in Nat
OBVIOUS

\* A sequence is one of its own values, and so is a concatenation.
LEMMA OwnValues ==
  ASSUME NEW S, NEW c \in Seq(S)
  PROVE  c \in Seq({c[k] : k \in DOMAIN c})
<1> DEFINE T == {c[k] : k \in DOMAIN c}
<1>1. c \in [1 .. Len(c) -> T] /\ Len(c) \in Nat
  OBVIOUS
<1> HIDE DEF T
<1>2. c \in Seq(T)
  BY <1>1
<1> QED BY <1>2 DEF T

\* A concatenation is as long as its parts, and takes its values from them.
LEMMA Concatenated ==
  ASSUME NEW S, NEW T, NEW c \in Seq(S), NEW d \in Seq(T)
  PROVE  c \o d \in Seq(S \cup T) /\ Len(c \o d) = Len(c) + Len(d)
<1>1. c \in Seq(S \cup T) /\ d \in Seq(S \cup T)
  OBVIOUS
<1> QED BY <1>1

\* The layout's numbers.
LEMMA LayoutTyped ==
  ASSUME layout \in Layouts
  PROVE  /\ Granule \in Nat \ {0} /\ Initial \in Nat /\ CompileMax \in Nat /\ StoreMax \in Nat
         /\ Declared \in Nat \cup {NoMaximum} /\ NoMaximum \notin Nat
         /\ Len(Segs) \in Nat /\ SegmentIds = 1 .. Len(Segs)
         /\ Declared # NoMaximum => Initial <= Declared
         /\ Operands \subseteq Nat
         /\ 2 * StoreMax < Modulus /\ Modulus \in Nat
<1>1. 1 .. MaxWord \subseteq Nat \ {0} /\ Words \subseteq Nat
  BY WordValues DEF MaxWord, Words
<1>2. layout.segs \in Seq([data : Seq(CellsOf(layout.region)), active : BOOLEAN, at : Words])
  BY LayoutAssumption
<1>3. Len(Segs) \in Nat /\ SegmentIds = 1 .. Len(Segs)
  BY <1>2 DEF Segs, SegmentIds
<1>4. Granule \in Nat \ {0} /\ Operands \subseteq Nat
  BY <1>1, LayoutAssumption DEF Granule, Operands
<1>5. /\ Initial \in Nat /\ CompileMax \in Nat /\ StoreMax \in Nat
      /\ Declared \in Nat \cup {NoMaximum} /\ NoMaximum \notin Nat
      /\ Declared # NoMaximum => Initial <= Declared
  BY LayoutAssumption DEF Initial, CompileMax, StoreMax, Declared
<1>6. 2 * StoreMax < Modulus /\ Modulus \in Nat
  BY LayoutAssumption, WordValues DEF StoreMax
<1> QED BY <1>3, <1>4, <1>5, <1>6

\* Growing by delta units.
LEMMA GrownSize ==
  ASSUME SizeInv, NEW delta \in Nat, NEW value
  PROVE  LET grown == Grown(cells, delta, value) IN
         /\ grown \in Seq({grown[k] : k \in DOMAIN grown})
         /\ Len(grown) = (Units(cells) + delta) * Granule
         /\ Units(grown) = Units(cells) + delta
<1> DEFINE new == [k \in 1 .. delta * Granule |-> value]
           grown == Grown(cells, delta, value)
           u == Units(cells)
<1>1. Granule \in Nat \ {0} /\ u \in Nat
  BY LayoutTyped DEF SizeInv
<1>2. delta * Granule \in Nat /\ u * Granule + delta * Granule = (u + delta) * Granule
  BY <1>1, AddUnits
<1>3. new \in Seq({value}) /\ Len(new) = delta * Granule
  <2>1. new \in [1 .. delta * Granule -> {value}]
    OBVIOUS
  <2> QED BY <1>2, <2>1
<1>4. grown \in Seq({cells[k] : k \in DOMAIN cells} \cup {value})
      /\ Len(grown) = Len(cells) + Len(new)
  <2> DEFINE S == {cells[k] : k \in DOMAIN cells}
  <2>1. cells \in Seq(S)
    BY DEF SizeInv
  <2>2. grown = cells \o new
    BY DEF Grown
  <2> HIDE DEF S, new, grown
  <2>3. cells \o new \in Seq(S \cup {value}) /\ Len(cells \o new) = Len(cells) + Len(new)
    BY <1>3, <2>1, Concatenated
  <2> QED BY <2>2, <2>3 DEF S
<1>5. Len(grown) = (u + delta) * Granule /\ (u + delta) * Granule \in Nat
  BY <1>1, <1>2, <1>3, <1>4 DEF SizeInv
<1>7. grown \in Seq({grown[k] : k \in DOMAIN grown})
  BY <1>4, OwnValues
<1>8. Units(grown) = u + delta
  BY <1>1, <1>5, UnitsOf DEF Units
<1> QED BY <1>5, <1>7, <1>8

\* Writing into a region keeps its length.
LEMMA WrittenSize ==
  ASSUME NEW S, NEW c \in Seq(S), NEW d, NEW values
  PROVE  LET w == Written(c, d, values) IN
         w \in Seq({w[k] : k \in DOMAIN w}) /\ Len(w) = Len(c)
<1> DEFINE w == Written(c, d, values)
           T == {w[k] : k \in DOMAIN w}
<1>1. DOMAIN c = 1 .. Len(c) /\ Len(c) \in Nat
  OBVIOUS
<1>2. DOMAIN w = DOMAIN c /\ w = [k \in DOMAIN c |-> w[k]]
  BY DEF Written
<1> HIDE DEF w
<1>3. w \in [1 .. Len(c) -> T]
  BY <1>1, <1>2
<1> HIDE DEF T
<1>4. w \in Seq(T) /\ Len(w) = Len(c)
  BY <1>1, <1>3
<1> QED BY <1>4 DEF T, w

\* The cells an opcode leaves: as many as before.
SameSize(c) == c \in Seq({c[k] : k \in DOMAIN c}) /\ Len(c) = Len(cells)

\* No opcode but a grow changes how many cells there are.
LEMMA OpcodesKeepSize ==
  ASSUME SizeInv
  PROVE  /\ SameSize(cells)
         /\ \A section, d, s, n : SameSize(InitOpcode(cells, section, d, s, n).cells)
         /\ \A d, v, n : SameSize(RunFill(cells, d, v, n).cells)
         /\ \A d, s, n : SameSize(RunCopy(cells, d, s, n).cells)
<1>1. SameSize(cells)
  BY DEF SizeInv, SameSize
<1>2. \A d, values : SameSize(Written(cells, d, values))
  BY <1>1, WrittenSize DEF SameSize
<1>3. \A section, d, s, n : SameSize(InitOpcode(cells, section, d, s, n).cells)
  BY <1>1, <1>2 DEF InitOpcode, Ok, Trap
<1>4. \A d, v, n : SameSize(RunFill(cells, d, v, n).cells)
  BY <1>1, <1>2 DEF RunFill, Ok, Trap
<1>5. \A d, s, n : SameSize(RunCopy(cells, d, s, n).cells)
  BY <1>1, <1>2 DEF RunCopy, Ok, Trap
<1> QED BY <1>1, <1>3, <1>4, <1>5

\* The two checks of a grow together bound the sum, although the first one wraps: what
\* passes the second is too small to wrap.
LEMMA ChecksBoundGrow ==
  ASSUME SizeInv, NEW delta \in Nat,
         ~LimitExceeded(cells, delta), GrowFits(cells, delta)
  PROVE  /\ Units(cells) + delta <= StoreMax
         /\ Declared # NoMaximum => Units(cells) + delta <= Declared
<1> DEFINE u == Units(cells)
<1>1. u \in Nat /\ u <= StoreMax /\ StoreMax \in Nat /\ 2 * StoreMax < Modulus /\ Modulus \in Nat
  BY LayoutTyped DEF SizeInv
<1>2. CASE delta = 0
  BY <1>1, <1>2 DEF SizeInv
<1>3. CASE delta # 0
  <2>1. u + delta <= StoreMax
    BY <1>3 DEF GrowFits
  <2>2. Signed(Wrap(delta + u)) = u + delta
    <3> HIDE DEF u
    <3>1. (delta + u) % Modulus = delta + u
      BY <1>1, <2>1
    <3> QED BY <1>1, <2>1, <3>1 DEF Signed, Wrap
  <2>3. CASE Declared = NoMaximum
    BY <2>1, <2>3
  <2>4. CASE Declared # NoMaximum
    <3>1. Declared \in Nat /\ CompileMax \in Nat
      BY <2>4, LayoutTyped DEF SizeInv
    <3>2. GrowLimit \in Nat /\ GrowLimit <= Declared
      BY <2>4, <3>1 DEF GrowLimit
    <3>3. u + delta <= Signed(GrowLimit) /\ Signed(GrowLimit) <= GrowLimit
      BY <1>1, <2>2, <3>2 DEF LimitExceeded, Signed
    <3> QED BY <1>1, <2>1, <3>1, <3>2, <3>3 DEF Signed
  <2> QED BY <2>3, <2>4
<1> QED BY <1>2, <1>3

----------------------------------------------------------------------------
(* The invariant is inductive.                                             *)

\* A step that keeps the size and does not return to the entrypoint's start.
LEMMA SizeKept ==
  ASSUME SizeInv, SameSize(cells'), layout' = layout, boot' \in Nat,
         boot' = 0 => cells' = <<>>
  PROVE  SizeInv'
<1>1. Units(cells)' = Units(cells) /\ Granule' = Granule /\ StoreMax' = StoreMax
      /\ Declared' = Declared
  BY DEF Units, Granule, StoreMax, Declared, SameSize
<1>2. Len(cells') = Len(cells) /\ cells' \in Seq({cells[k] : k \in DOMAIN cells}')
  BY DEF SameSize
<1> QED BY <1>1, <1>2 DEF SizeInv

\* Growing by units that are within both maxima keeps the invariant.
LEMMA SizeGrown ==
  ASSUME SizeInv, NEW delta \in Nat, NEW value, cells' = Grown(cells, delta, value),
         layout' = layout, boot' \in Nat \ {0},
         Units(cells) + delta <= StoreMax,
         Declared # NoMaximum => Units(cells) + delta <= Declared
  PROVE  SizeInv'
<1>1. Granule' = Granule /\ StoreMax' = StoreMax /\ Declared' = Declared
  BY DEF Granule, StoreMax, Declared
<1>2. /\ cells' \in Seq({cells[k] : k \in DOMAIN cells}')
      /\ Len(cells)' = (Units(cells) + delta) * Granule
      /\ Units(cells)' = Units(cells) + delta
  <2> DEFINE grown == Grown(cells, delta, value)
  <2>1. /\ grown \in Seq({grown[k] : k \in DOMAIN grown})
        /\ Len(grown) = (Units(cells) + delta) * Granule
        /\ Units(grown) = Units(cells) + delta
    BY GrownSize
  <2> HIDE DEF grown
  <2>2. cells' = grown
    BY DEF grown
  <2>3. Units(cells)' = Units(grown)
    BY <1>1, <2>2 DEF Units
  <2> QED BY <2>1, <2>2, <2>3
<1>3. Units(cells) \in Nat /\ StoreMax \in Nat
  BY LayoutTyped DEF SizeInv
<1> QED BY <1>1, <1>2, <1>3 DEF SizeInv

\* The entrypoint allocates the initial units, if the store allows them.
LEMMA BootGrowSize ==
  ASSUME SizeInv, BootGrow
  PROVE  SizeInv'
<1>1. boot = 0 /\ boot' = 1 /\ layout' = layout /\ cells = <<>>
  BY DEF BootGrow, SizeInv
<1>2. CASE UNCHANGED cells
  BY <1>1, <1>2, SizeKept, OpcodesKeepSize DEF SameSize
<1>3. CASE GrowFits(cells, Initial) /\ cells' = Grown(cells, Initial, 0)
  <2>1. Granule \in Nat \ {0} /\ Initial \in Nat /\ StoreMax \in Nat
        /\ (Declared # NoMaximum => Initial <= Declared)
    BY LayoutTyped DEF SizeInv
  <2>2. Units(cells) = 0
    BY <1>1, <2>1 DEF Units
  <2>3. Initial <= StoreMax
    BY <1>3, <2>1, <2>2 DEF GrowFits
  <2> QED BY <1>1, <1>3, <2>1, <2>2, <2>3, SizeGrown
<1> QED BY <1>2, <1>3 DEF BootGrow

\* The entrypoint initialises a segment, or fails.
LEMMA BootSegmentSize ==
  ASSUME SizeInv, BootSegment
  PROVE  SizeInv'
<1>1. layout' = layout /\ boot' \in Nat \ {0}
  BY LayoutTyped, SMTT(20) DEF BootSegment, SizeInv, Failed, Ready
<1>2. \/ cells' = cells
      \/ \E section, d, s, n : cells' = InitOpcode(cells, section, d, s, n).cells
  BY DEF BootSegment
<1>3. SameSize(cells')
  <2> HIDE DEF SizeInv
  <2> QED BY <1>2, OpcodesKeepSize
<1> QED BY <1>1, <1>3, SizeKept

\* An instruction of the guest that keeps the size.
LEMMA GuestSize ==
  ASSUME SizeInv, NEW charge, NEW run, Guest(charge, run), SameSize(run.cells)
  PROVE  SizeInv'
<1>1. layout' = layout /\ boot' \in Nat /\ boot' # 0
  BY LayoutTyped DEF Guest, SizeInv, Ready
<1>2. SameSize(cells')
  BY OpcodesKeepSize DEF Guest, OutOfFuel, SameSize
<1> QED BY <1>1, <1>2, SizeKept

\* A grow of the guest passes both checks or changes nothing.
LEMMA GrowSize ==
  ASSUME SizeInv, NEW delta \in Nat, NEW v, Grow(delta, v)
  PROVE  SizeInv'
<1>1. layout' = layout /\ boot' \in Nat \ {0}
  BY LayoutTyped DEF Grow, Guest, SizeInv, Ready
<1>2. cells' = cells \/ cells' = RunGrow(cells, delta, v)
  BY DEF Grow, Guest, OutOfFuel, Ok
<1>3. CASE cells' = cells
  BY <1>1, <1>3, SizeKept, OpcodesKeepSize DEF SameSize
<1>4. CASE cells' # cells
  <2>1. ~LimitExceeded(cells, delta) /\ GrowFits(cells, delta)
        /\ cells' = Grown(cells, delta, GrownCell(v))
    BY <1>2, <1>4 DEF RunGrow
  <2> QED BY <1>1, <2>1, ChecksBoundGrow, SizeGrown
<1> QED BY <1>3, <1>4

\* Every step of the entrypoint and of the guest keeps the invariant.
LEMMA NextSize ==
  ASSUME SizeInv, [Next]_vars
  PROVE  SizeInv'
<1> Operands \subseteq Nat
  BY LayoutTyped DEF SizeInv
<1>1. CASE BootGrow
  BY <1>1, BootGrowSize
<1>2. CASE BootSegment
  BY <1>2, BootSegmentSize
<1>3. CASE \E i \in SegmentIds, d, s, n \in Operands : InitSegment(i, d, s, n)
  <2> PICK i \in SegmentIds, d \in Operands, s \in Operands, n \in Operands :
        InitSegment(i, d, s, n)
    BY <1>3
  <2>1. SameSize(RunInit(cells, flags, i, d, s, n).cells)
    BY OpcodesKeepSize DEF RunInit, Trap
  <2> QED BY <2>1, GuestSize DEF InitSegment
<1>4. CASE \E v \in FillValues, d, n \in Operands : Fill(d, v, n)
  BY <1>4, OpcodesKeepSize, GuestSize DEF Fill
<1>5. CASE \E d, s, n \in Operands : Copy(d, s, n)
  BY <1>5, OpcodesKeepSize, GuestSize DEF Copy
<1>6. CASE \E v \in FillValues, delta \in Operands : Grow(delta, v)
  BY <1>6, GrowSize
<1>7. CASE \/ \E i \in Droppable : Drop(i)
           \/ \E keepFlags \in BOOLEAN : StoreReset(keepFlags)
           \/ UNCHANGED vars
  <2>1. layout' = layout /\ cells' = cells /\ boot' = boot
    BY <1>7 DEF Drop, StoreReset, vars
  <2>2. SameSize(cells') /\ boot' \in Nat /\ (boot' = 0 => cells' = <<>>)
    BY <2>1, OpcodesKeepSize DEF SizeInv, SameSize
  <2> QED BY <2>1, <2>2, SizeKept
<1> QED BY <1>1, <1>2, <1>3, <1>4, <1>5, <1>6, <1>7 DEF Next

\* Before the entrypoint has run there is no region.
LEMMA InitSize == Init => SizeInv
<1> SUFFICES ASSUME Init
             PROVE  SizeInv
  OBVIOUS
<1>1. layout \in Layouts /\ cells = <<>> /\ boot = 0
  BY DEF Init
<1>2. Granule \in Nat \ {0} /\ StoreMax \in Nat /\ Declared \in Nat \cup {NoMaximum}
  BY <1>1, LayoutTyped
<1>3. Len(cells) = 0 /\ Units(cells) = 0 /\ cells \in Seq({cells[k] : k \in DOMAIN cells})
  BY <1>1, <1>2 DEF Units
<1> QED BY <1>1, <1>2, <1>3 DEF SizeInv

\* The invariant bounds the size by what was declared and by what the store allows.
LEMMA InvBoundsSize == SizeInv => SizeWithinMaximum
<1> SUFFICES ASSUME SizeInv
             PROVE  SizeWithinMaximum
  OBVIOUS
<1>1. /\ Granule \in Nat /\ StoreMax \in Nat /\ Declared \in Nat \cup {NoMaximum}
      /\ Units(cells) \in Nat /\ Units(cells) <= StoreMax
      /\ Len(cells) = Units(cells) * Granule
  BY LayoutTyped DEF SizeInv
<1>2. Len(cells) <= StoreMax * Granule
  BY <1>1, MoreUnits
<1>3. ASSUME Declared # NoMaximum
      PROVE  Len(cells) <= Declared * Granule
  <2>1. Declared \in Nat /\ Units(cells) <= Declared
    BY <1>1, <1>3 DEF SizeInv
  <2> QED BY <1>1, <2>1, MoreUnits
<1> QED BY <1>2, <1>3 DEF SizeWithinMaximum

\* Whatever the operands, the declared sizes, the store's limit and the width of a word:
\* no sequence of grows, by the unchecked entrypoint or by the guest, takes a memory or a
\* table past its declared maximum or past what the store allows.
THEOREM SizeBounded == Spec => []SizeWithinMaximum
<1>1. Init => SizeInv
  BY InitSize
<1>2. SizeInv /\ [Next]_vars => SizeInv'
  BY NextSize
<1>3. SizeInv => SizeWithinMaximum
  BY InvBoundsSize
<1> QED BY <1>1, <1>2, <1>3, PTL DEF Spec

----------------------------------------------------------------------------
(* Fuel for bulk work.                                                     *)

\* Dividing with rounding up covers what is divided.
LEMMA RoundedUp ==
  ASSUME NEW n \in Nat, NEW p \in Nat \ {0}
  PROVE  p * ((n + p - 1) \div p) >= n
<1> DEFINE q == (n + p - 1) \div p
<1>1. q \in Int /\ n + p - 1 < p * q + p
  OBVIOUS
<1>2. p * q \in Int
  BY <1>1
<1> HIDE DEF q
<1>3. p * q >= n
  BY <1>1, <1>2
<1> QED BY <1>3 DEF q

\* The prices of a layout.
LEMMA PriceTyped ==
  ASSUME layout \in Layouts
  PROVE  /\ PerFuel \in Nat \ {0} /\ 2 * PerFuel <= Modulus /\ Modulus \in Nat \ {0}
         /\ IsMemory => Granule % PerFuel = 0
<1>1. 1 .. MaxWord \subseteq Nat \ {0}
  BY WordValues DEF MaxWord
<1> QED BY <1>1, WordValues, LayoutAssumption DEF PerFuel, IsMemory, Region, Granule

\* No region fills more than half the address space.
LEMMA HalfSpace ==
  ASSUME SizeInv
  PROVE  Len(cells) \in Nat /\ 2 * Len(cells) <= Modulus /\ 2 * StoreMax <= Modulus
<1>1. /\ Granule \in Nat /\ StoreMax \in Nat /\ Units(cells) \in Nat /\ Units(cells) <= StoreMax
      /\ Len(cells) = Units(cells) * Granule /\ Modulus \in Nat
  BY LayoutTyped, WordValues DEF SizeInv
<1>2. /\ 2 * StoreMax < Modulus
      /\ Region = "memory" => 2 * StoreMax * Granule <= Modulus
      /\ Region = "table" => Granule = 1
      /\ Region \in {"memory", "table"}
  BY LayoutAssumption DEF SizeInv, StoreMax, Granule, Region
<1>3. Units(cells) * Granule <= StoreMax * Granule /\ Units(cells) * Granule \in Nat
      /\ StoreMax * Granule \in Nat
  BY <1>1, MoreUnits
<1>4. CASE Region = "memory"
  <2>1. 2 * (StoreMax * Granule) <= Modulus
    BY <1>1, <1>2, <1>4
  <2> QED BY <1>1, <1>2, <1>3, <2>1
<1>5. CASE Region = "table"
  BY <1>1, <1>2, <1>5
<1> QED BY <1>2, <1>4, <1>5

\* A range that lies in a region is short, negative operands included: as an address a
\* negative word is beyond every region.
LEMMA RangeIsShort ==
  ASSUME NEW length \in Nat, 2 * length <= Modulus, NEW from \in Words, NEW n \in Words,
         InRange(length, from, n)
  PROVE  n <= length
<1>1. ASSUME NEW a \in Words
      PROVE  a \in Nat /\ AsUsize(a) \in Nat /\ (AsUsize(a) = a \/ AsUsize(a) > length)
  BY WordValues, UsizeValues DEF Words, AsUsize, Signed
<1>2. AsUsize(from) + AsUsize(n) <= length
  BY DEF InRange
<1>3. AsUsize(from) \in Nat /\ AsUsize(n) \in Nat /\ (AsUsize(n) = n \/ AsUsize(n) > length)
  BY <1>1
<1> QED BY <1>2, <1>3

\* The charge for up to half the address space does not wrap, and covers it.
LEMMA ChargeCovers ==
  ASSUME layout \in Layouts, Metered, NEW n \in Nat, 2 * n <= Modulus
  PROVE  PerFuel * Charge(n) >= n
<1>1. PerFuel \in Nat \ {0} /\ 2 * PerFuel <= Modulus /\ Modulus \in Nat \ {0}
  BY PriceTyped
<1>2. n + PerFuel - 1 \in 0 .. Modulus - 1
  BY <1>1
<1>3. Wrap(n + PerFuel - 1) = n + PerFuel - 1
  BY <1>1, <1>2 DEF Wrap
<1>4. Charge(n) = (n + PerFuel - 1) \div PerFuel
  BY <1>3 DEF Charge
<1> QED BY <1>1, <1>4, RoundedUp

\* A page is a whole number of units of fuel, so the price of pages is exact.
LEMMA PagePrice ==
  ASSUME NEW delta \in Nat, NEW g \in Nat, NEW p \in Nat \ {0}, g % p = 0
  PROVE  p * ((delta * g) \div p) = delta * g
<1> DEFINE k == g \div p
<1>1. k \in Nat /\ g = k * p
  OBVIOUS
<1> HIDE DEF k
<1>2. delta * k \in Nat /\ delta * g = (delta * k) * p
  BY <1>1
<1>3. (delta * g) \div p = delta * k
  BY <1>2, UnitsOf
<1> QED BY <1>1, <1>2, <1>3

\* Work that the opcodes do is paid for before they do it: what they touch lies in the
\* region, so neither the count nor its price has wrapped.
LEMMA InvPaysWork == SizeInv => BulkWorkIsPaid
<1> SUFFICES ASSUME SizeInv, Metered
             PROVE  BulkWorkIsPaid
  BY DEF BulkWorkIsPaid
<1>0. /\ layout \in Layouts /\ Operands \subseteq Words
      /\ Len(cells) \in Nat /\ 2 * Len(cells) <= Modulus /\ 2 * StoreMax <= Modulus
      /\ Modulus \in Nat
  BY HalfSpace, WordValues, LayoutAssumption DEF SizeInv, Operands
<1>1. ASSUME NEW d \in Words, NEW n \in Words, InRange(Len(cells), d, n)
      PROVE  PerFuel * Charge(n) >= n
  <2>1. n <= Len(cells) /\ n \in Nat
    BY <1>0, <1>1, RangeIsShort, WordValues DEF Words
  <2>2. 2 * n <= Modulus
    BY <1>0, <2>1
  <2> QED BY <1>0, <2>1, <2>2, ChargeCovers
<1>2. ASSUME NEW i \in SegmentIds, NEW d \in Operands, NEW s \in Operands, NEW n \in Operands,
             RunInit(cells, flags, i, d, s, n).outcome = "ok"
      PROVE  PerFuel * InitCharge(i, s, n) >= n
  <2>1. ~LengthExceeded(i, s, n) /\ InRange(Len(cells), d, n)
    BY <1>2 DEF RunInit, InitOpcode, Ok, Trap
  <2> QED BY <1>0, <1>1, <2>1 DEF InitCharge
<1>3. ASSUME NEW d \in Operands, NEW s \in Operands, NEW n \in Operands,
             RunCopy(cells, d, s, n).outcome = "ok"
      PROVE  PerFuel * Charge(n) >= n
  <2>1. InRange(Len(cells), d, n)
    BY <1>3 DEF RunCopy, Ok, Trap
  <2> QED BY <1>0, <1>1, <2>1
<1>4. ASSUME NEW v \in FillValues, NEW delta \in Operands
      PROVE  PerFuel * GrowCharge(cells, delta) >= Len(RunGrow(cells, delta, v)) - Len(cells)
  <2>0. /\ delta \in Nat /\ Granule \in Nat \ {0} /\ StoreMax \in Nat /\ Units(cells) \in Nat
        /\ PerFuel \in Nat \ {0} /\ Modulus \in Nat \ {0}
    BY <1>0, LayoutTyped, PriceTyped, WordValues DEF SizeInv, Words
  <2>1. GrowCharge(cells, delta) \in Nat
    BY <2>0 DEF GrowCharge, Charge, Wrap
  <2>2. CASE LimitExceeded(cells, delta) \/ ~GrowFits(cells, delta)
    <3>1. RunGrow(cells, delta, v) = cells
      BY <2>2 DEF RunGrow
    <3>2. PerFuel * GrowCharge(cells, delta) >= 0
      BY <2>0, <2>1
    <3> QED BY <1>0, <3>1, <3>2
  <2>3. CASE ~LimitExceeded(cells, delta) /\ GrowFits(cells, delta)
    <3>1. Len(RunGrow(cells, delta, v)) = (Units(cells) + delta) * Granule
      BY <2>0, <2>3, GrownSize DEF RunGrow
    <3>2. /\ delta * Granule \in Nat
          /\ Units(cells) * Granule + delta * Granule = (Units(cells) + delta) * Granule
      BY <2>0, AddUnits
    <3>3. Len(RunGrow(cells, delta, v)) - Len(cells) = delta * Granule
      BY <1>0, <3>1, <3>2 DEF SizeInv
    <3>4. delta <= StoreMax
      BY <2>0, <2>3, ChecksBoundGrow
    <3>5. CASE IsMemory
      <4>1. Granule % PerFuel = 0 /\ 2 * (StoreMax * Granule) <= Modulus
        <5>1. 2 * StoreMax * Granule <= Modulus /\ Granule % PerFuel = 0
          BY <1>0, <3>5, LayoutAssumption DEF IsMemory, Region, StoreMax, Granule, PerFuel
        <5> QED BY <2>0, <5>1
      <4>2. delta * Granule <= StoreMax * Granule /\ StoreMax * Granule \in Nat
        BY <2>0, <3>4, MoreUnits
      <4>3. delta * Granule \in 0 .. Modulus - 1
        BY <2>0, <3>2, <4>1, <4>2
      <4>4. Wrap(delta * Granule) = delta * Granule
        BY <2>0, <4>3 DEF Wrap
      <4>5. GrowCharge(cells, delta) = (delta * Granule) \div PerFuel
        BY <2>3, <3>5, <4>4 DEF GrowCharge
      <4>6. PerFuel * ((delta * Granule) \div PerFuel) = delta * Granule
        BY <2>0, <4>1, PagePrice
      <4> QED BY <3>2, <3>3, <4>5, <4>6
    <3>6. CASE ~IsMemory
      <4>1. Granule = 1
        BY <1>0, <3>6, LayoutAssumption DEF IsMemory, Region, Granule
      <4>2. 2 * delta <= Modulus
        BY <1>0, <2>0, <3>4
      <4>3. PerFuel * Charge(delta) >= delta
        BY <1>0, <2>0, <4>2, ChargeCovers
      <4>4. GrowCharge(cells, delta) = Charge(delta) /\ delta * Granule = delta
        BY <2>0, <2>3, <3>6, <4>1 DEF GrowCharge
      <4> QED BY <3>3, <4>3, <4>4
    <3> QED BY <3>5, <3>6
  <2> QED BY <2>2, <2>3
<1> QED BY <1>2, <1>3, <1>4 DEF BulkWorkIsPaid

\* Whatever the operands and the region: cells that a bulk instruction writes have been
\* charged for, although the price is computed in wrapping arithmetic from an operand
\* nothing has checked yet.
THEOREM WorkPaid == Spec => []BulkWorkIsPaid
<1>1. Init => SizeInv
  BY InitSize
<1>2. SizeInv /\ [Next]_vars => SizeInv'
  BY NextSize
<1>3. SizeInv => BulkWorkIsPaid
  BY InvPaysWork
<1> QED BY <1>1, <1>2, <1>3, PTL DEF Spec

----------------------------------------------------------------------------
(* Fill, copy and grow do what Wasm says.  Their addresses are extended by *)
(* their sign, where Wasm's are not negative: the two agree for a word     *)
(* below half the address space, and for one above it both are outside.    *)

\* In a memory of exactly half the address space the first address behind the memory is
\* the first negative word; where a store allows that size the operands are without it.
ShortOf(l) ==
  l.region = "memory" /\ 2 * l.storeMax * l.granule = Modulus =>
    \A a \in l.operands : 2 * a # Modulus

\* An address in the region is the word itself; any other word is beyond the region, for
\* Wasm as for the code.
LEMMA RangesAgree ==
  ASSUME SizeInv, ShortOf(layout), NEW from \in Operands, NEW n \in Operands
  PROVE  InRange(Len(cells), from, n) <=> from + n <= Len(cells)
<1>1. /\ layout \in Layouts /\ Operands \subseteq Words /\ from \in Words /\ n \in Words
      /\ Len(cells) \in Nat /\ 2 * Len(cells) <= Modulus /\ Modulus \in Nat
  BY HalfSpace, WordValues, LayoutAssumption DEF SizeInv, Operands
<1>2. ASSUME NEW a \in Operands
      PROVE  /\ a \in Nat /\ AsUsize(a) \in Nat
             /\ AsUsize(a) = a \/ (AsUsize(a) > Len(cells) /\ a > Len(cells))
  <2>1. a \in 0 .. Modulus - 1
    BY <1>1 DEF Words
  <2>2. CASE ~IsMemory \/ 2 * a < Modulus
    BY <1>1, <2>1, <2>2 DEF AsUsize, Signed
  <2>3. CASE IsMemory /\ 2 * a >= Modulus
    <3>1. AsUsize(a) = 2^(2 * W) + (a - Modulus)
      BY <1>1, <2>1, <2>3 DEF AsUsize, Signed
    <3>2. AsUsize(a) \in Nat /\ AsUsize(a) > Len(cells)
      BY <1>1, <2>1, <2>3, <3>1, UsizeValues
    <3>3. CASE 2 * a > Modulus
      BY <1>1, <2>1, <3>2, <3>3
    <3>4. CASE 2 * a = Modulus
      <4>1. 2 * StoreMax * Granule # Modulus
        BY <2>3, <3>4 DEF ShortOf, IsMemory, Region, StoreMax, Granule, Operands
      <4>2. 2 * StoreMax * Granule <= Modulus
        BY <1>1, <2>3, LayoutAssumption DEF IsMemory, Region, StoreMax, Granule
      <4>3. /\ Len(cells) = Units(cells) * Granule /\ Granule \in Nat /\ StoreMax \in Nat
            /\ Units(cells) \in Nat /\ Units(cells) <= StoreMax
        BY LayoutTyped DEF SizeInv
      <4>4. Len(cells) <= StoreMax * Granule
        BY <4>3, MoreUnits
      <4>5. StoreMax * Granule \in Nat /\ 2 * StoreMax * Granule = 2 * (StoreMax * Granule)
        BY <4>3
      <4> DEFINE max == StoreMax * Granule
      <4>6. 2 * max < Modulus /\ Len(cells) <= max /\ max \in Nat
        BY <1>1, <4>1, <4>2, <4>4, <4>5
      <4> HIDE DEF max
      <4> QED BY <1>1, <2>1, <3>2, <3>4, <4>6
    <3> QED BY <1>1, <2>1, <2>3, <3>3, <3>4
  <2> QED BY <1>1, <2>1, <2>2, <2>3
<1>3. /\ from \in Nat /\ AsUsize(from) \in Nat
      /\ AsUsize(from) = from \/ (AsUsize(from) > Len(cells) /\ from > Len(cells))
  BY <1>2
<1>4. /\ n \in Nat /\ AsUsize(n) \in Nat
      /\ AsUsize(n) = n \/ (AsUsize(n) > Len(cells) /\ n > Len(cells))
  BY <1>2
<1> QED BY <1>1, <1>3, <1>4 DEF InRange

\* What passes both checks of a grow is within the limit that was compiled in, which may
\* be the compiler's own.
LEMMA GrowWithinLimit ==
  ASSUME SizeInv, NEW delta \in Nat,
         ~LimitExceeded(cells, delta), GrowFits(cells, delta)
  PROVE  GrowLimit \in Nat /\ Units(cells) + delta <= GrowLimit
<1> DEFINE u == Units(cells)
<1>1. /\ u \in Nat /\ StoreMax \in Nat /\ 2 * StoreMax < Modulus /\ Modulus \in Nat
      /\ CompileMax \in Nat /\ Declared \in Nat \cup {NoMaximum}
  BY LayoutTyped DEF SizeInv
<1>2. u + delta <= StoreMax
  BY ChecksBoundGrow
<1>3. GrowLimit \in Nat
  BY <1>1 DEF GrowLimit
<1> HIDE DEF u
<1>4. Wrap(delta + u) = u + delta
  BY <1>1, <1>2 DEF Wrap
<1>5. Signed(Wrap(delta + u)) = u + delta
  BY <1>1, <1>2, <1>4 DEF Signed
<1>6. ~(Signed(Wrap(delta + u)) > Signed(GrowLimit))
  BY DEF LimitExceeded, u
<1>7. u + delta <= Signed(GrowLimit) /\ Signed(GrowLimit) <= GrowLimit
  BY <1>1, <1>3, <1>5, <1>6 DEF Signed
<1> QED BY <1>1, <1>3, <1>7 DEF u, Signed

\* A grow that the code does is one that Wasm allows.
LEMMA GrowsMatch ==
  ASSUME SizeInv, NEW v, NEW delta \in Nat
  PROVE  Wasm!GrowAllowed(cells, delta * Granule, GrownCell(v), GrowLimit * Granule,
                          RunGrow(cells, delta, v))
<1>1. CASE LimitExceeded(cells, delta) \/ ~GrowFits(cells, delta)
  BY <1>1 DEF RunGrow, Wasm!GrowAllowed
<1>2. CASE ~LimitExceeded(cells, delta) /\ GrowFits(cells, delta)
  <2>1. RunGrow(cells, delta, v) = cells \o [k \in 1 .. delta * Granule |-> GrownCell(v)]
    BY <1>2 DEF RunGrow, Grown
  <2>2. GrowLimit \in Nat /\ Units(cells) + delta <= GrowLimit
    BY <1>2, GrowWithinLimit
  <2>3. Units(cells) \in Nat /\ Granule \in Nat /\ Len(cells) = Units(cells) * Granule
    BY LayoutTyped DEF SizeInv
  <2>4. (Units(cells) + delta) * Granule <= GrowLimit * Granule
    BY <2>2, <2>3, MoreUnits
  <2>5. Units(cells) * Granule + delta * Granule = (Units(cells) + delta) * Granule
    BY <2>3, AddUnits
  <2>6. Len(cells) + delta * Granule <= GrowLimit * Granule
    BY <2>3, <2>4, <2>5
  <2> QED BY <2>1, <2>6 DEF Wasm!GrowAllowed
<1> QED BY <1>1, <1>2

\* In a state of the invariant every operand gives the result and the trap of Wasm.
LEMMA InvMatchesWasm == SizeInv /\ ShortOf(layout) => RegionOpsMatchWasm
<1> SUFFICES ASSUME SizeInv, ShortOf(layout)
             PROVE  RegionOpsMatchWasm
  OBVIOUS
<1>1. ASSUME NEW v, NEW d \in Operands, NEW n \in Operands
      PROVE  RunFill(cells, d, v, n) = Wasm!FillWith(cells, d, CellOf(v), n)
  <2>1. InRange(Len(cells), d, n) <=> d + n <= Len(cells)
    BY <1>1, RangesAgree
  <2> QED BY <2>1 DEF RunFill, Wasm!FillWith, Ok, Trap, Wasm!Done, Wasm!Trap, Written,
                      Wasm!Overwritten
<1>2. ASSUME NEW d \in Operands, NEW s \in Operands, NEW n \in Operands
      PROVE  RunCopy(cells, d, s, n) = Wasm!CopyWithin(cells, d, s, n)
  <2>1. InRange(Len(cells), d, n) <=> d + n <= Len(cells)
    BY <1>2, RangesAgree
  <2>2. InRange(Len(cells), s, n) <=> s + n <= Len(cells)
    BY <1>2, RangesAgree
  <2> QED BY <2>1, <2>2 DEF RunCopy, Wasm!CopyWithin, Wasm!Moved, Ok, Trap, Wasm!Done,
                            Wasm!Trap, Written, Wasm!Overwritten
<1>3. Operands \subseteq Nat
  BY LayoutTyped DEF SizeInv
<1> QED BY <1>1, <1>2, <1>3, GrowsMatch DEF RegionOpsMatchWasm

\* Whatever was done to a region before, fill, copy and grow do to it what Wasm says and
\* trap when Wasm does, for every layout but a memory of half the address space that is
\* addressed at its very end (visit_memory_fill, visit_memory_copy, op_memory_grow_checked
\* and their like for tables).
THEOREM RegionOpsMatch ==
  ASSUME \A l \in Layouts : ShortOf(l)
  PROVE  Spec => []RegionOpsMatchWasm
<1>1. Init => SizeInv
  BY InitSize
<1>2. SizeInv /\ [Next]_vars => SizeInv'
  BY NextSize
<1>3. SizeInv => RegionOpsMatchWasm
  BY InvMatchesWasm DEF SizeInv
<1> QED BY <1>1, <1>2, <1>3, PTL DEF Spec
=============================================================================
