---------------------------- MODULE SectionProofs ----------------------------
(***************************************************************************)
(* Proofs about the one section all segments of module Segments share.     *)
(* The section is joined by recursion over the segments; each segment is   *)
(* found again where the code's offset says (SegmentBuilder in src/src/    *)
(* compiler/segment_builder.rs).                                           *)
(***************************************************************************)
EXTENDS SegmentsProofs, Induction, SequenceTheorems

----------------------------------------------------------------------------
(* The recursion over the segments.                                        *)

\* A function that joins the first n segments.
JoinsUpTo(g, n) ==
  g = [i \in 0 .. n |-> IF i = 0 THEN <<>> ELSE g[i - 1] \o Segs[i].data]

\* There is one for every number of segments.
LEMMA SectionExists == \A n \in Nat : \E g : JoinsUpTo(g, n)
<1> DEFINE S == {n \in Nat : \E g : JoinsUpTo(g, n)}
<1>1. 0 \in S
  <2> DEFINE g == [i \in 0 .. 0 |-> <<>>]
  <2>1. JoinsUpTo(g, 0)
    BY DEF JoinsUpTo
  <2> QED BY <2>1
<1>2. ASSUME NEW n \in Nat, n \in S
      PROVE  n + 1 \in S
  <2>1. PICK g : JoinsUpTo(g, n)
    BY <1>2
  <2> DEFINE h == [i \in 0 .. n + 1 |-> IF i = n + 1 THEN g[n] \o Segs[n + 1].data ELSE g[i]]
  <2>2. ASSUME NEW i \in 0 .. n + 1
        PROVE  h[i] = IF i = 0 THEN <<>> ELSE h[i - 1] \o Segs[i].data
    <3>1. CASE i = n + 1
      <4>1. i # 0 /\ i - 1 = n /\ n \in 0 .. n + 1 /\ n # n + 1
        BY <3>1
      <4>2. h[i] = g[n] \o Segs[i].data /\ h[n] = g[n]
        BY <3>1, <4>1
      <4> QED BY <4>1, <4>2
    <3>2. CASE i \in 0 .. n
      <4>1. g[i] = IF i = 0 THEN <<>> ELSE g[i - 1] \o Segs[i].data
        BY <2>1, <3>2 DEF JoinsUpTo
      <4>2. h[i] = g[i] /\ (i # 0 => h[i - 1] = g[i - 1])
        BY <3>2
      <4> QED BY <4>1, <4>2
    <3> QED BY <3>1, <3>2
  <2>3. JoinsUpTo(h, n + 1)
    <3> HIDE DEF h
    <3>1. h = [i \in 0 .. n + 1 |-> h[i]]
      BY DEF h
    <3> QED BY <2>2, <3>1 DEF JoinsUpTo
  <2> QED BY <2>3
<1> HIDE DEF S
<1>3. Nat \subseteq S
  BY <1>1, <1>2, SetInduction
<1> QED BY <1>3 DEF S

\* So the section is what its recursive definition says.
LEMMA SectionUnfolds ==
  ASSUME layout \in Layouts
  PROVE  /\ DOMAIN SectionUpTo = 0 .. Len(Segs)
         /\ SectionUpTo[0] = <<>>
         /\ \A i \in 1 .. Len(Segs) : SectionUpTo[i] = SectionUpTo[i - 1] \o Segs[i].data
<1>1. Len(Segs) \in Nat
  BY LayoutTyped
<1>2. \E g : g = [i \in 0 .. Len(Segs) |-> IF i = 0 THEN <<>> ELSE g[i - 1] \o Segs[i].data]
  BY <1>1, SectionExists DEF JoinsUpTo
<1>3. SectionUpTo =
        [i \in 0 .. Len(Segs) |-> IF i = 0 THEN <<>> ELSE SectionUpTo[i - 1] \o Segs[i].data]
  BY <1>2 DEF SectionUpTo
<1> DEFINE f == SectionUpTo
<1> HIDE DEF f
<1>4. f = [i \in 0 .. Len(Segs) |-> IF i = 0 THEN <<>> ELSE f[i - 1] \o Segs[i].data]
  BY <1>3 DEF f
<1>5. /\ DOMAIN f = 0 .. Len(Segs) /\ f[0] = <<>>
      /\ \A i \in 1 .. Len(Segs) : f[i] = f[i - 1] \o Segs[i].data
  BY <1>1, <1>4
<1> QED BY <1>5 DEF f

\* The data of a segment are cells.
LEMMA DataTyped ==
  ASSUME layout \in Layouts, NEW i \in 1 .. Len(Segs)
  PROVE  /\ Segs[i].data \in Seq(CellValues) /\ DataLength(i) \in Nat
         /\ Segs[i].active \in BOOLEAN /\ Segs[i].at \in Words
<1>1. Segs \in Seq([data : Seq(CellValues), active : BOOLEAN, at : Words])
  BY LayoutAssumption DEF Segs, CellValues, Region
<1>2. Segs[i] \in [data : Seq(CellValues), active : BOOLEAN, at : Words]
  BY <1>1, ElementOfSeq
<1> QED BY <1>2 DEF DataLength

\* Each part of the section is a sequence of cells.
LEMMA SectionTyped ==
  ASSUME layout \in Layouts
  PROVE  \A n \in 0 .. Len(Segs) :
           SectionUpTo[n] \in Seq(CellValues) /\ Len(SectionUpTo[n]) \in Nat
<1> DEFINE S == {n \in Nat : n <= Len(Segs) => SectionUpTo[n] \in Seq(CellValues)}
<1>0. Len(Segs) \in Nat
  BY LayoutTyped
<1>1. 0 \in S
  BY SectionUnfolds
<1>2. ASSUME NEW n \in Nat, n \in S
      PROVE  n + 1 \in S
  <2> SUFFICES ASSUME n + 1 <= Len(Segs)
               PROVE  SectionUpTo[n + 1] \in Seq(CellValues)
    OBVIOUS
  <2>1. n + 1 \in 1 .. Len(Segs) /\ n <= Len(Segs) /\ (n + 1) - 1 = n
    BY <1>0
  <2>2. SectionUpTo[n] \in Seq(CellValues) /\ Segs[n + 1].data \in Seq(CellValues)
    BY <1>2, <2>1, DataTyped
  <2>3. SectionUpTo[n + 1] = SectionUpTo[n] \o Segs[n + 1].data
    BY <2>1, SectionUnfolds
  <2> QED BY <2>2, <2>3
<1> HIDE DEF S
<1>3. Nat \subseteq S
  BY <1>1, <1>2, SetInduction
<1>4. ASSUME NEW n \in 0 .. Len(Segs)
      PROVE  SectionUpTo[n] \in Seq(CellValues)
  BY <1>0, <1>3 DEF S
<1> QED BY <1>4

----------------------------------------------------------------------------
(* The cells stay cells.                                                   *)

\* As an address a word is never less than itself.
LEMMA UsizeAtLeast ==
  ASSUME NEW a \in Nat
  PROVE  AsUsize(a) \in Nat /\ AsUsize(a) >= a
<1>1. CASE IsMemory /\ Signed(a) < 0
  <2>1. AsUsize(a) = 2^(2 * W) + (a - Modulus)
    BY <1>1, WordValues DEF AsUsize, Signed
  <2> QED BY <2>1, WordValues, UsizeValues
<1>2. CASE ~(IsMemory /\ Signed(a) < 0)
  BY <1>2 DEF AsUsize
<1> QED BY <1>1, <1>2

\* The values a guest passes for a cell.
LEMMA CellTyped ==
  ASSUME layout \in Layouts
  PROVE  0 \in CellValues /\ \A v \in Words : CellOf(v) \in CellValues /\ GrownCell(v) \in CellValues
<1>1. Modulus \in Nat \ {0} /\ 0 \in Words
  BY WordValues DEF Words
<1>2. CASE IsMemory
  <2>1. CellValues = 0 .. 2^(W \div 4) - 1
    BY <1>2 DEF CellValues, CellsOf, IsMemory
  <2> DEFINE b == 2^(W \div 4)
  <2>2. b \in Nat \ {0}
    BY ByteValues
  <2> HIDE DEF b
  <2>3. \A v \in Words : v % b \in 0 .. b - 1
    BY <1>1, <2>2 DEF Words
  <2> QED BY <1>2, <2>1, <2>2, <2>3 DEF CellOf, GrownCell, b
<1>3. CASE ~IsMemory
  <2>1. CellValues = Words
    BY <1>3 DEF CellValues, CellsOf, IsMemory
  <2> QED BY <1>1, <1>3, <2>1 DEF CellOf, GrownCell
<1> QED BY <1>2, <1>3

\* Writing cells leaves cells.
LEMMA WrittenTyped ==
  ASSUME NEW S, NEW c \in Seq(S), NEW d, NEW values, \A k \in DOMAIN values : values[k] \in S
  PROVE  Written(c, d, values) \in Seq(S)
<1> DEFINE w == Written(c, d, values)
<1>1. DOMAIN c = 1 .. Len(c) /\ Len(c) \in Nat /\ \A k \in 1 .. Len(c) : c[k] \in S
  BY ElementOfSeq
<1>2. w = [k \in 1 .. Len(c) |-> IF k - d \in DOMAIN values THEN values[k - d] ELSE c[k]]
  BY <1>1 DEF Written
<1>3. w \in [1 .. Len(c) -> S]
  BY <1>1, <1>2
<1> HIDE DEF w
<1>4. w \in Seq(S)
  BY <1>1, <1>3
<1> QED BY <1>4 DEF w

\* What lies within a sequence of cells are cells.
LEMMA PartTyped ==
  ASSUME NEW S, NEW section \in Seq(S), NEW s \in Nat, NEW n \in Nat, s + n <= Len(section)
  PROVE  /\ SubSeq(section, s + 1, s + n) \in Seq(S)
         /\ Len(SubSeq(section, s + 1, s + n)) = n
         /\ \A k \in 1 .. n : SubSeq(section, s + 1, s + n)[k] = section[s + k]
<1>1. s + 1 \in Int /\ s + n \in Int /\ Len(section) \in Nat
  OBVIOUS
<1>2. ASSUME NEW i \in s + 1 .. s + n
      PROVE  section[i] \in S
  <2>1. i \in 1 .. Len(section)
    BY <1>1
  <2> QED BY <2>1, ElementOfSeq
<1>3. /\ SubSeq(section, s + 1, s + n) \in Seq(S)
      /\ Len(SubSeq(section, s + 1, s + n)) =
           IF s + 1 <= s + n THEN (s + n) - (s + 1) + 1 ELSE 0
      /\ \A i \in 1 .. (s + n) - (s + 1) + 1 :
           SubSeq(section, s + 1, s + n)[i] = section[(s + 1) + i - 1]
  BY <1>1, <1>2, SubSeqProperties
<1> QED BY <1>3

\* What the bits of a segment leave of the section are cells.
LEMMA VisibleTyped ==
  ASSUME layout \in Layouts, NEW f, NEW b
  PROVE  VisibleSection(f, b) \in Seq(CellValues)
<1>1. Section \in Seq(CellValues)
  BY LayoutTyped, SectionTyped DEF Section
<1> QED BY <1>1 DEF VisibleSection

\* Each opcode leaves cells.
LEMMA OpcodesTyped ==
  ASSUME layout \in Layouts, NEW c \in Seq(CellValues)
  PROVE  /\ \A section \in Seq(CellValues), d, s, n \in Nat :
              InitOpcode(c, section, d, s, n).cells \in Seq(CellValues)
         /\ \A d, n \in Nat, v \in Words : RunFill(c, d, v, n).cells \in Seq(CellValues)
         /\ \A d, s, n \in Nat : RunCopy(c, d, s, n).cells \in Seq(CellValues)
<1>1. ASSUME NEW section \in Seq(CellValues), NEW d \in Nat, NEW s \in Nat, NEW n \in Nat,
             InRange(Len(section), s, n)
      PROVE  Written(c, d, SubSeq(section, s + 1, s + n)) \in Seq(CellValues)
  <2>1. s + n <= Len(section)
    <3>1. /\ AsUsize(s) \in Nat /\ AsUsize(s) >= s
          /\ AsUsize(n) \in Nat /\ AsUsize(n) >= n
      BY UsizeAtLeast
    <3>2. AsUsize(s) + AsUsize(n) <= Len(section) /\ Len(section) \in Nat
      BY <1>1 DEF InRange
    <3> QED BY <3>1, <3>2
  <2>2. SubSeq(section, s + 1, s + n) \in Seq(CellValues)
    BY <2>1, PartTyped
  <2> DEFINE part == SubSeq(section, s + 1, s + n)
  <2> HIDE DEF part
  <2>3. part \in Seq(CellValues)
    BY <2>2 DEF part
  <2>4. \A k \in DOMAIN part : part[k] \in CellValues
    BY <2>3, ElementOfSeq
  <2>5. Written(c, d, part) \in Seq(CellValues)
    BY <2>4, WrittenTyped
  <2> QED BY <2>5 DEF part
<1>2. \A section \in Seq(CellValues), d, s, n \in Nat :
        InitOpcode(c, section, d, s, n).cells \in Seq(CellValues)
  BY <1>1 DEF InitOpcode, Ok, Trap
<1>3. \A d, s, n \in Nat : RunCopy(c, d, s, n).cells \in Seq(CellValues)
  BY <1>1 DEF RunCopy, Ok, Trap
<1>4. ASSUME NEW d \in Nat, NEW n \in Nat, NEW v \in Words
      PROVE  RunFill(c, d, v, n).cells \in Seq(CellValues)
  <2>1. CellOf(v) \in CellValues
    BY CellTyped
  <2> DEFINE values == [k \in 1 .. n |-> CellOf(v)]
  <2>2. \A k \in DOMAIN values : values[k] \in CellValues
    BY <2>1
  <2>3. Written(c, d, values) \in Seq(CellValues)
    BY <2>2, WrittenTyped
  <2> QED BY <2>3 DEF RunFill, Ok, Trap
<1> QED BY <1>2, <1>3, <1>4

\* A grow adds cells.
LEMMA GrownTyped ==
  ASSUME NEW S, NEW c \in Seq(S), NEW delta \in Nat, NEW value \in S, Granule \in Nat
  PROVE  Grown(c, delta, value) \in Seq(S)
<1> DEFINE n == delta * Granule
           new == [k \in 1 .. n |-> value]
<1>1. n \in Nat
  OBVIOUS
<1> HIDE DEF n
<1>2. new \in [1 .. n -> S]
  OBVIOUS
<1> HIDE DEF new
<1>3. new \in Seq(S)
  BY <1>1, <1>2
<1>4. c \o new \in Seq(S)
  BY <1>3
<1> QED BY <1>4 DEF Grown, new, n

----------------------------------------------------------------------------
(* The types are inductive.                                                *)

\* The bits of dropped segments.
LEMMA FlagTyped ==
  ASSUME NEW f \in Seq(BOOLEAN), NEW b \in Nat
  PROVE  /\ DropFlag(f, b) \in Seq(BOOLEAN)
         /\ Len(DropFlag(f, b)) = b + 1
<1> DEFINE g == DropFlag(f, b)
<1>1. g \in [1 .. b + 1 -> BOOLEAN]
  BY DEF DropFlag
<1> HIDE DEF g
<1>2. g \in Seq(BOOLEAN) /\ Len(g) = b + 1
  BY <1>1
<1> QED BY <1>2 DEF g

\* A guest's instruction that leaves cells.
LEMMA GuestTypes ==
  ASSUME TypeOK, NEW charge, NEW run, Guest(charge, run), run.cells \in Seq(CellValues),
         run.outcome \in {"ok", "trap"}
  PROVE  TypeOK'
<1>1. /\ layout' = layout /\ flags' = flags /\ dropped' = dropped /\ boot' = boot
      /\ cells' \in Seq(CellValues) /\ outcome' \in {"ok", "trap", "OutOfFuel"}
  BY DEF Guest, OutOfFuel, TypeOK
<1>2. CellValues' = CellValues /\ SegmentIds' = SegmentIds /\ Failed' = Failed
  BY <1>1 DEF CellValues, Region, SegmentIds, Failed, Ready, Segs
<1> QED BY <1>1, <1>2 DEF TypeOK

\* The entrypoint's steps.
LEMMA BootTypes ==
  ASSUME TypeOK, BootGrow \/ BootSegment
  PROVE  TypeOK'
<1>0. /\ layout \in Layouts /\ Len(Segs) \in Nat /\ SegmentIds = 1 .. Len(Segs)
      /\ Granule \in Nat /\ Initial \in Nat /\ Failed = Len(Segs) + 2
  BY LayoutTyped DEF TypeOK, Failed, Ready
<1>1. layout' = layout
  BY DEF BootGrow, BootSegment
<1>2. CellValues' = CellValues /\ SegmentIds' = SegmentIds /\ Failed' = Failed
  BY <1>1 DEF CellValues, Region, SegmentIds, Failed, Ready, Segs
<1>3. CASE BootGrow
  <2>1. Grown(cells, Initial, 0) \in Seq(CellValues)
    BY <1>0, CellTyped, GrownTyped DEF TypeOK
  <2>2. /\ cells' \in Seq(CellValues) /\ boot' = 1 /\ outcome' = "ok"
        /\ flags' = flags /\ dropped' = dropped
    BY <1>3, <2>1 DEF BootGrow, TypeOK
  <2> QED BY <1>0, <1>1, <1>2, <2>2 DEF TypeOK
<1>4. CASE BootSegment
  <2>1. boot \in 1 .. Len(Segs) /\ boot \in Nat
    BY <1>0, <1>4 DEF BootSegment
  <2>2. \A f, b : VisibleSection(f, b) \in Seq(CellValues)
    BY <1>0, VisibleTyped
  <2>3. Segs[boot].at \in Nat /\ DataOffset(boot) \in Nat /\ ActiveLength(boot) \in Nat
    <3>1. Segs[boot].at \in Nat /\ DataLength(boot) \in Nat /\ MaxWord \in Nat
      BY <1>0, <2>1, DataTyped, WordValues DEF Words, MaxWord
    <3>2. DataOffset(boot) \in Nat
      BY <1>0, <2>1, SectionTyped DEF DataOffset
    <3> QED BY <3>1, <3>2 DEF ActiveLength
  <2>4. InitOpcode(cells, VisibleSection(flags, IF IsMemory THEN 0 ELSE boot), Segs[boot].at,
                   DataOffset(boot), ActiveLength(boot)).cells \in Seq(CellValues)
    BY <1>0, <2>2, <2>3, OpcodesTyped DEF TypeOK
  <2>5. /\ cells' \in Seq(CellValues) /\ boot' \in {boot + 1, Failed}
        /\ outcome' \in {"ok", "trap", "OutOfFuel"}
        /\ flags' = flags \/ flags' = DropFlag(flags, boot)
        /\ dropped' \subseteq dropped \cup {boot}
    BY <1>4, <2>4 DEF BootSegment, TypeOK
  <2>6. flags' \in Seq(BOOLEAN)
    BY <2>1, <2>5, FlagTyped DEF TypeOK
  <2> QED BY <1>0, <1>1, <1>2, <2>1, <2>5, <2>6 DEF TypeOK
<1> QED BY <1>3, <1>4

\* A bulk instruction of the guest.
LEMMA BulkTypes ==
  ASSUME TypeOK,
         \/ \E i \in SegmentIds, d, s, n \in Operands : InitSegment(i, d, s, n)
         \/ \E v \in FillValues, d, n \in Operands : Fill(d, v, n)
         \/ \E d, s, n \in Operands : Copy(d, s, n)
         \/ \E v \in FillValues, delta \in Operands : Grow(delta, v)
  PROVE  TypeOK'
<1>0. /\ layout \in Layouts /\ cells \in Seq(CellValues) /\ Granule \in Nat
      /\ Operands \subseteq Nat /\ FillValues \subseteq Words
  BY LayoutTyped, LayoutAssumption DEF TypeOK, FillValues
<1>1. ASSUME NEW i \in SegmentIds, NEW d \in Operands, NEW s \in Operands, NEW n \in Operands,
             InitSegment(i, d, s, n)
      PROVE  TypeOK'
  <2>1. Wrap(s + SegmentOffset(i)) \in Nat
    <3>1. i \in 1 .. Len(Segs) /\ Len(Segs) \in Nat
      BY <1>0, LayoutTyped
    <3>2. Segs[i].at \in Nat
      BY <1>0, <3>1, DataTyped, WordValues DEF Words
    <3>3. DataOffset(i) \in Nat
      BY <1>0, <3>1, SectionTyped DEF DataOffset
    <3>4. s + SegmentOffset(i) \in Nat
      BY <1>0, <3>2, <3>3 DEF SegmentOffset
    <3> QED BY <3>4, WordValues DEF Wrap
  <2>2. VisibleSection(flags, i) \in Seq(CellValues)
    BY <1>0, VisibleTyped
  <2>3. RunInit(cells, flags, i, d, s, n).cells \in Seq(CellValues)
    BY <1>0, <2>1, <2>2, OpcodesTyped DEF RunInit, Trap
  <2>4. RunInit(cells, flags, i, d, s, n).outcome \in {"ok", "trap"}
    BY DEF RunInit, InitOpcode, Ok, Trap
  <2> QED BY <1>1, <2>3, <2>4, GuestTypes DEF InitSegment
<1>2. ASSUME NEW v \in FillValues, NEW d \in Operands, NEW n \in Operands, Fill(d, v, n)
      PROVE  TypeOK'
  <2>1. RunFill(cells, d, v, n).cells \in Seq(CellValues)
    BY <1>0, OpcodesTyped
  <2>2. RunFill(cells, d, v, n).outcome \in {"ok", "trap"}
    BY DEF RunFill, Ok, Trap
  <2> QED BY <1>2, <2>1, <2>2, GuestTypes DEF Fill
<1>3. ASSUME NEW d \in Operands, NEW s \in Operands, NEW n \in Operands, Copy(d, s, n)
      PROVE  TypeOK'
  <2>1. RunCopy(cells, d, s, n).cells \in Seq(CellValues)
    BY <1>0, OpcodesTyped
  <2>2. RunCopy(cells, d, s, n).outcome \in {"ok", "trap"}
    BY DEF RunCopy, Ok, Trap
  <2> QED BY <1>3, <2>1, <2>2, GuestTypes DEF Copy
<1>4. ASSUME NEW v \in FillValues, NEW delta \in Operands, Grow(delta, v)
      PROVE  TypeOK'
  <2>1. GrownCell(v) \in CellValues
    BY <1>0, CellTyped
  <2>2. RunGrow(cells, delta, v) \in Seq(CellValues)
    BY <1>0, <2>1, GrownTyped DEF RunGrow
  <2>3. \A c : Ok(c).cells = c /\ Ok(c).outcome = "ok"
    BY DEF Ok
  <2>4. PICK c \in Seq(CellValues) : Guest(GrowCharge(cells, delta), Ok(c))
    BY <1>0, <1>4, <2>2 DEF Grow
  <2> QED BY <2>3, <2>4, GuestTypes
<1> QED BY <1>1, <1>2, <1>3, <1>4

\* A drop, a reset by the host, and a stutter.
LEMMA DropTypes ==
  ASSUME TypeOK,
         \/ \E i \in Droppable : Drop(i)
         \/ \E keepFlags \in BOOLEAN : StoreReset(keepFlags)
         \/ UNCHANGED vars
  PROVE  TypeOK'
<1>0. /\ layout \in Layouts /\ SegmentIds = 1 .. Len(Segs)
      /\ Droppable \subseteq SegmentIds
  BY LayoutTyped, LayoutAssumption DEF TypeOK, Droppable, SegmentIds, Segs
<1>1. /\ layout' = layout /\ cells' = cells /\ boot' = boot
      /\ outcome' \in {"ok", "trap", "OutOfFuel"}
  BY DEF Drop, StoreReset, vars, TypeOK
<1>2. CellValues' = CellValues /\ SegmentIds' = SegmentIds /\ Failed' = Failed
  BY <1>1 DEF CellValues, Region, SegmentIds, Failed, Ready, Segs
<1>3. flags' \in Seq(BOOLEAN) /\ dropped' \subseteq SegmentIds
  <2>1. ASSUME NEW i \in Droppable, Drop(i)
        PROVE  flags' \in Seq(BOOLEAN) /\ dropped' \subseteq SegmentIds
    <3>1. i \in SegmentIds /\ i \in Nat
      BY <1>0
    <3> QED BY <2>1, <3>1, FlagTyped DEF Drop, TypeOK
  <2>2. ASSUME NEW keepFlags \in BOOLEAN, StoreReset(keepFlags)
        PROVE  flags' \in Seq(BOOLEAN) /\ dropped' \subseteq SegmentIds
    <3>1. [k \in DOMAIN flags |-> FALSE] \in Seq(BOOLEAN)
      <4> DEFINE cleared == [k \in DOMAIN flags |-> FALSE]
      <4>1. DOMAIN flags = 1 .. Len(flags) /\ Len(flags) \in Nat
        BY DEF TypeOK
      <4>2. cleared \in [1 .. Len(flags) -> BOOLEAN]
        BY <4>1
      <4> HIDE DEF cleared
      <4>3. cleared \in Seq(BOOLEAN)
        BY <4>1, <4>2
      <4> QED BY <4>3 DEF cleared
    <3>2. <<>> \in Seq(BOOLEAN)
      OBVIOUS
    <3> QED BY <2>2, <3>1, <3>2 DEF StoreReset, TypeOK
  <2>3. CASE UNCHANGED vars
    BY <2>3 DEF vars, TypeOK
  <2> QED BY <2>1, <2>2, <2>3
<1> QED BY <1>1, <1>2, <1>3 DEF TypeOK

\* Every step keeps the types.
LEMMA NextTypes == TypeOK /\ [Next]_vars => TypeOK'
  BY BootTypes, BulkTypes, DropTypes DEF Next

\* Nothing is there before the entrypoint runs.
LEMMA InitTypes == Init => TypeOK
<1> SUFFICES ASSUME Init
             PROVE  TypeOK
  OBVIOUS
<1>1. layout \in Layouts /\ Len(Segs) \in Nat
  BY LayoutTyped DEF Init
<1> QED BY <1>1 DEF Init, TypeOK, Failed, Ready

----------------------------------------------------------------------------
(* Where a segment is in the section.                                      *)

\* Segment i in the joined segments up: its data at the offset DataOffset gives it.
Holds(up, i) ==
  /\ DataOffset(i) + DataLength(i) <= Len(up)
  /\ \A k \in 1 .. DataLength(i) : up[DataOffset(i) + k] = Segs[i].data[k]

\* Each segment is in the section, wherever the segments after it begin.
LEMMA SectionHolds ==
  ASSUME layout \in Layouts
  PROVE  \A i \in 1 .. Len(Segs) : DataOffset(i) \in Nat /\ Holds(Section, i)
<1> DEFINE S == {n \in Nat : n <= Len(Segs) => \A i \in 1 .. n : Holds(SectionUpTo[n], i)}
<1>0. Len(Segs) \in Nat
  BY LayoutTyped
<1>1. 0 \in S
  OBVIOUS
<1>2. ASSUME NEW n \in Nat, n \in S
      PROVE  n + 1 \in S
  <2> SUFFICES ASSUME n + 1 <= Len(Segs), NEW i \in 1 .. n + 1
               PROVE  Holds(SectionUpTo[n + 1], i)
    OBVIOUS
  <2> DEFINE before == SectionUpTo[n]
             data   == Segs[n + 1].data
             after  == SectionUpTo[n + 1]
  <2>1. n + 1 \in 1 .. Len(Segs) /\ n \in 0 .. Len(Segs) /\ (n + 1) - 1 = n
    BY <1>0
  <2>2. before \in Seq(CellValues) /\ data \in Seq(CellValues)
    BY <2>1, SectionTyped, DataTyped
  <2>3. after = before \o data
    BY <2>1, SectionUnfolds
  <2>4. DataOffset(n + 1) = Len(before) /\ DataLength(n + 1) = Len(data)
    BY <2>1 DEF DataOffset, DataLength
  <2>5. i \in 1 .. Len(Segs) /\ i - 1 \in 0 .. Len(Segs)
    BY <1>0
  <2>6. DataOffset(i) \in Nat /\ DataLength(i) \in Nat
    BY <2>5, SectionTyped, DataTyped DEF DataOffset
  <2> HIDE DEF before, data, after
  <2>7. /\ Len(after) = Len(before) + Len(data) /\ Len(before) \in Nat /\ Len(data) \in Nat
        /\ \A k \in 1 .. Len(before) : after[k] = before[k]
        /\ \A k \in 1 .. Len(data) : after[Len(before) + k] = data[k]
    BY <2>2, <2>3
  <2>8. CASE i = n + 1
    <3>1. data = Segs[i].data
      BY <2>8 DEF data
    <3>2. DataOffset(i) = Len(before) /\ DataLength(i) = Len(data)
      BY <2>4, <2>8
    <3>3. Holds(after, i)
      BY <2>7, <3>1, <3>2 DEF Holds
    <3> QED BY <3>3 DEF after
  <2>9. CASE i \in 1 .. n
    <3>1. Holds(before, i)
      BY <1>0, <1>2, <2>1, <2>9 DEF before
    <3>2. \A k \in 1 .. DataLength(i) : DataOffset(i) + k \in 1 .. Len(before)
      BY <2>6, <2>7, <3>1 DEF Holds
    <3> QED BY <2>6, <2>7, <3>1, <3>2 DEF Holds, after
  <2> QED BY <2>8, <2>9
<1> HIDE DEF S
<1>3. Nat \subseteq S
  BY <1>1, <1>2, SetInduction
<1>4. ASSUME NEW i \in 1 .. Len(Segs)
      PROVE  DataOffset(i) \in Nat /\ Holds(Section, i)
  <2>1. Len(Segs) \in S /\ i - 1 \in 0 .. Len(Segs)
    BY <1>0, <1>3
  <2>2. DataOffset(i) \in Nat
    BY <2>1, SectionTyped DEF DataOffset
  <2> QED BY <1>0, <2>1, <2>2 DEF S, Section
<1> QED BY <1>4

\* A part of a segment's data is the same part of the section.
LEMMA PartOfSection ==
  ASSUME layout \in Layouts, NEW i \in 1 .. Len(Segs), NEW s \in Nat, NEW n \in Nat,
         s + n <= DataLength(i)
  PROVE  /\ DataOffset(i) + s + n <= Len(Section)
         /\ SubSeq(Section, DataOffset(i) + s + 1, DataOffset(i) + s + n)
              = SubSeq(Segs[i].data, s + 1, s + n)
<1> DEFINE o    == DataOffset(i)
           data == Segs[i].data
           p    == o + s
           left  == SubSeq(Section, p + 1, p + n)
           right == SubSeq(data, s + 1, s + n)
<1>1. /\ o \in Nat /\ o + Len(data) <= Len(Section) /\ Len(data) \in Nat
      /\ \A k \in 1 .. Len(data) : Section[o + k] = data[k]
      /\ Section \in Seq(CellValues) /\ data \in Seq(CellValues) /\ s + n <= Len(data)
  <2>1. Len(Segs) \in Nat /\ Len(Segs) \in 0 .. Len(Segs)
    BY LayoutTyped
  <2>2. Section \in Seq(CellValues)
    BY <2>1, SectionTyped DEF Section
  <2> QED BY <2>2, SectionHolds, DataTyped DEF Holds, DataLength
<1> HIDE DEF o, data
<1>2. p \in Nat /\ p + n <= Len(Section)
  BY <1>1
<1> HIDE DEF p
<1>3. /\ left \in Seq(CellValues) /\ Len(left) = n
      /\ \A k \in 1 .. n : left[k] = Section[p + k]
  BY <1>1, <1>2, PartTyped
<1>4. /\ right \in Seq(CellValues) /\ Len(right) = n
      /\ \A k \in 1 .. n : right[k] = data[s + k]
  BY <1>1, PartTyped
<1>5. ASSUME NEW k \in 1 .. n
      PROVE  Section[p + k] = data[s + k]
  <2>1. s + k \in 1 .. Len(data) /\ o + (s + k) = p + k
    BY <1>1 DEF p
  <2> QED BY <1>1, <2>1
<1> HIDE DEF left, right
<1>6. left = right
  BY <1>3, <1>4, <1>5, SeqEqual
<1> QED BY <1>2, <1>6 DEF left, right, o, data, p

----------------------------------------------------------------------------
(* memory.init and table.init do what Wasm says, for the layouts outside   *)
(* of two divergences: resize shortens the bits of dropped segments, and a *)
(* source that wraps reaches the segment before.                           *)

\* Only the first segment is ever dropped, by the guest or as an active one at offset 0;
\* and where there are others, no operand is negative and no data segment is empty, whose
\* length check is not emitted.  The section is less than half the address space.
ExactLayout ==
  /\ \A i \in SegmentIds : Segs[i].active => i = 1 /\ Segs[i].at = 0
  /\ Droppable \subseteq {1}
  /\ 2 * Len(Section) < Modulus
  /\ Len(Segs) > 1 =>
       /\ \A a \in Operands : 2 * a < Modulus
       /\ IsMemory => \A i \in SegmentIds : DataLength(i) > 0

\* The bits say which segments are dropped.
FlagsExact ==
  /\ ExactLayout
  /\ dropped \subseteq {1}
  /\ \A i \in SegmentIds : Flag(flags, i) <=> i \in dropped

\* In a layout where offsets and data are the same a segment's offset is where its data are.
LEMMA OffsetExact ==
  ASSUME layout \in Layouts, ExactLayout, NEW i \in 1 .. Len(Segs)
  PROVE  SegmentOffset(i) = DataOffset(i) /\ (i = 1 => DataOffset(i) = 0)
<1>1. SegmentIds = 1 .. Len(Segs) /\ Len(Segs) \in Nat
  BY LayoutTyped
<1>2. i = 1 => DataOffset(i) = 0
  BY SectionUnfolds DEF DataOffset
<1>3. Segs[i].active => i = 1 /\ Segs[i].at = 0
  BY <1>1 DEF ExactLayout
<1> QED BY <1>2, <1>3 DEF SegmentOffset

\* A word is an index into the section, or beyond it for Wasm as for the code.
LEMMA SectionRange ==
  ASSUME NEW length \in Nat, 2 * length < Modulus, NEW a \in Words
  PROVE  /\ a \in Nat /\ AsUsize(a) \in Nat
         /\ AsUsize(a) = a \/ (AsUsize(a) > length /\ a > length)
<1>1. a \in 0 .. Modulus - 1 /\ Modulus \in Nat
  BY WordValues DEF Words
<1>2. AsUsize(a) \in Nat /\ AsUsize(a) >= a
  BY <1>1, UsizeAtLeast
<1>3. CASE 2 * a < Modulus
  BY <1>1, <1>2, <1>3 DEF AsUsize, Signed
<1>4. CASE 2 * a >= Modulus
  <2>1. a > length
    BY <1>1, <1>4
  <2> QED BY <1>1, <1>2, <2>1
<1> QED BY <1>1, <1>3, <1>4

\* What the length check refuses Wasm refuses.
LEMMA RefusedIsTooLong ==
  ASSUME NEW i, DataLength(i) \in Nat, 2 * DataLength(i) < Modulus,
         NEW s \in Words, NEW n \in Words, LengthExceeded(i, s, n)
  PROVE  s + n > DataLength(i)
<1>1. s \in Nat /\ n \in Nat /\ Modulus \in Nat \ {0}
  BY WordValues DEF Words
<1> DEFINE l == DataLength(i)
           w == Wrap(n + s)
<1>2. Signed(w) > Signed(l)
  BY DEF LengthExceeded
<1>3. w \in Nat /\ w <= n + s
  BY <1>1 DEF Wrap
<1> HIDE DEF l, w
<1>4. Signed(l) = l /\ Signed(w) <= w
  BY <1>1, <1>3 DEF Signed, l
<1> QED BY <1>1, <1>2, <1>3, <1>4 DEF l, Signed

\* What the length check accepts is in the section exactly when it is in the segment, and
\* is then the same cells.
LEMMA AcceptedIsInSegment ==
  ASSUME layout \in Layouts, ExactLayout, NEW i \in 1 .. Len(Segs),
         NEW s \in Operands, NEW n \in Operands, ~LengthExceeded(i, s, n)
  PROVE  LET p == Wrap(s + SegmentOffset(i)) IN
         /\ InRange(Len(Section), p, n) <=> s + n <= DataLength(i)
         /\ s + n <= DataLength(i) =>
              SubSeq(Section, p + 1, p + n) = SubSeq(Segs[i].data, s + 1, s + n)
<1> DEFINE o    == DataOffset(i)
           l    == DataLength(i)
           size == Len(Section)
           p    == Wrap(s + o)
<1>0. /\ s \in Words /\ n \in Words /\ s \in Nat /\ n \in Nat /\ Modulus \in Nat \ {0}
      /\ s < Modulus /\ n < Modulus
  <2>1. Operands \subseteq Words
    BY LayoutAssumption DEF Operands
  <2> QED BY <2>1, WordValues DEF Words
<1>1. /\ Len(Segs) \in Nat /\ SegmentIds = 1 .. Len(Segs)
      /\ o \in Nat /\ l \in Nat /\ o + l <= size /\ size \in Nat /\ 2 * size < Modulus
  <2>1. Len(Segs) \in Nat /\ SegmentIds = 1 .. Len(Segs)
    BY LayoutTyped
  <2>2. Section \in Seq(CellValues)
    BY <2>1, SectionTyped DEF Section
  <2> QED BY <2>1, <2>2, SectionHolds, DataTyped DEF Holds, ExactLayout
<1>2. SegmentOffset(i) = o /\ (i = 1 => o = 0)
  BY OffsetExact
<1>3. \/ Len(Segs) = 1 /\ o = 0 /\ size = l
      \/ Len(Segs) > 1 /\ 2 * s < Modulus /\ (IsMemory => l > 0)
  <2>1. CASE Len(Segs) = 1
    <3>1. i = 1
      BY <2>1
    <3>2. Section = <<>> \o Segs[1].data
      <4>1. 1 \in 1 .. Len(Segs) /\ 1 - 1 = 0
        BY <2>1
      <4>2. SectionUpTo[1] = SectionUpTo[0] \o Segs[1].data /\ SectionUpTo[0] = <<>>
        BY <4>1, SectionUnfolds
      <4> QED BY <2>1, <4>2 DEF Section
    <3>3. Segs[1].data \in Seq(CellValues)
      BY <3>1, DataTyped
    <3>4. size = l
      BY <3>1, <3>2, <3>3 DEF DataLength
    <3> QED BY <1>2, <2>1, <3>1, <3>4
  <2>2. CASE Len(Segs) > 1
    BY <1>1, <2>2 DEF ExactLayout
  <2>3. Len(Segs) = 1 \/ Len(Segs) > 1
    <3> DEFINE m == Len(Segs)
    <3>1. m \in Nat /\ i \in 1 .. m
      BY <1>1
    <3> HIDE DEF m
    <3>2. m = 1 \/ m > 1
      BY <3>1
    <3> QED BY <3>2 DEF m
  <2> QED BY <2>1, <2>2, <2>3
<1> HIDE DEF o, l, size
<1>4. s + o \in 0 .. Modulus - 1 /\ p = s + o
  <2>1. s + o \in 0 .. Modulus - 1
    BY <1>0, <1>1, <1>3
  <2> QED BY <1>0, <2>1 DEF Wrap
<1>5. ASSUME s + n <= size
      PROVE  s + n <= l
  <2>1. n + s \in 0 .. Modulus - 1 /\ 2 * (n + s) < Modulus /\ 2 * l < Modulus
    BY <1>0, <1>1, <1>5
  <2>2. Wrap(n + s) = n + s
    BY <1>0, <2>1 DEF Wrap
  <2>3. Signed(Wrap(n + s)) = n + s /\ Signed(l) = l
    BY <1>0, <1>1, <2>1, <2>2 DEF Signed
  <2>4. CASE IsMemory /\ l = 0
    BY <1>3, <1>5, <2>4
  <2>5. CASE ~IsMemory \/ l > 0
    <3>1. ~(Signed(Wrap(n + s)) > Signed(l))
      BY <2>5 DEF LengthExceeded, l
    <3> QED BY <1>0, <1>1, <2>3, <3>1
  <2> QED BY <1>1, <2>4, <2>5
<1>6. p \in Words
  BY <1>4 DEF Words
<1> HIDE DEF p
<1>7. InRange(size, p, n) <=> p + n <= size
  <2>1. /\ p \in Nat /\ AsUsize(p) \in Nat
        /\ AsUsize(p) = p \/ (AsUsize(p) > size /\ p > size)
    BY <1>1, <1>6, SectionRange
  <2>2. /\ n \in Nat /\ AsUsize(n) \in Nat
        /\ AsUsize(n) = n \/ (AsUsize(n) > size /\ n > size)
    BY <1>0, <1>1, SectionRange
  <2> QED BY <1>1, <2>1, <2>2 DEF InRange
<1>8. InRange(size, p, n) <=> s + n <= l
  BY <1>0, <1>1, <1>4, <1>5, <1>7
<1>9. ASSUME s + n <= l
      PROVE  SubSeq(Section, p + 1, p + n) = SubSeq(Segs[i].data, s + 1, s + n)
  <2>1. SubSeq(Section, o + s + 1, o + s + n) = SubSeq(Segs[i].data, s + 1, s + n)
    BY <1>0, <1>9, PartOfSection DEF l, o
  <2>2. o + s + 1 = p + 1 /\ o + s + n = p + n
    BY <1>0, <1>1, <1>4
  <2> QED BY <2>1, <2>2
<1> QED BY <1>2, <1>8, <1>9 DEF p, l, size

\* In a state with exact bits every init is Wasm's.
LEMMA InvInitMatches ==
  ASSUME SizeInv, ShortOf(layout), FlagsExact
  PROVE  InitMatchesWasm
<1>0. /\ layout \in Layouts /\ Len(Segs) \in Nat /\ SegmentIds = 1 .. Len(Segs)
      /\ ExactLayout /\ Operands \subseteq Words
  BY LayoutTyped, LayoutAssumption DEF SizeInv, FlagsExact, Operands
<1> SUFFICES ASSUME NEW i \in 1 .. Len(Segs), NEW d \in Operands, NEW s \in Operands,
                    NEW n \in Operands
             PROVE  RunInit(cells, flags, i, d, s, n) = Wasm!InitFrom(cells, Content(i), d, s, n)
  BY <1>0 DEF InitMatchesWasm
<1>1. /\ s \in Words /\ n \in Words /\ s \in Nat /\ n \in Nat /\ s < Modulus
      /\ Modulus \in Nat \ {0}
  BY <1>0, WordValues DEF Words
<1>2. /\ DataLength(i) \in Nat /\ 2 * DataLength(i) < Modulus
      /\ Content(i) = IF i \in dropped THEN <<>> ELSE Segs[i].data
  <2>1. Section \in Seq(CellValues)
    BY <1>0, SectionTyped DEF Section
  <2>2. /\ DataOffset(i) \in Nat /\ DataOffset(i) + DataLength(i) <= Len(Section)
        /\ DataLength(i) \in Nat /\ 2 * Len(Section) < Modulus
    BY <1>0, SectionHolds, DataTyped DEF Holds, ExactLayout
  <2>3. Len(Section) \in Nat
    BY <2>1
  <2> QED BY <1>1, <2>2, <2>3 DEF Content
<1>3. InRange(Len(cells), d, n) <=> d + n <= Len(cells)
  BY RangesAgree
<1>4. Len(Content(i)) \in Nat /\ Len(Content(i)) <= DataLength(i)
  BY <1>2 DEF DataLength
<1> DEFINE p == Wrap(s + SegmentOffset(i))
           section == VisibleSection(flags, i)
<1>5. CASE LengthExceeded(i, s, n)
  <2>1. s + n > DataLength(i)
    BY <1>1, <1>2, <1>5, RefusedIsTooLong
  <2>2. ~(s + n <= Len(Content(i)))
    BY <1>1, <1>2, <1>4, <2>1
  <2> QED BY <1>5, <2>2 DEF RunInit, Trap, Wasm!InitFrom, Wasm!Moved, Wasm!Trap
<1>6. CASE ~LengthExceeded(i, s, n)
  <2>1. /\ InRange(Len(section), p, n) <=> s + n <= Len(Content(i))
        /\ s + n <= Len(Content(i)) =>
             SubSeq(section, p + 1, p + n) = SubSeq(Content(i), s + 1, s + n)
    <3>1. CASE i \in dropped
      <4>1. section = <<>> /\ Content(i) = <<>> /\ i = 1
        BY <1>0, <1>2, <3>1 DEF FlagsExact, VisibleSection
      <4>2. p = s
        BY <1>0, <1>1, <4>1, OffsetExact DEF Wrap
      <4>3. /\ AsUsize(s) \in Nat /\ AsUsize(s) >= s /\ AsUsize(n) \in Nat /\ AsUsize(n) >= n
        BY <1>1, UsizeAtLeast
      <4>4. AsUsize(0) = 0
        BY <1>1 DEF AsUsize, Signed
      <4>5. InRange(0, s, n) <=> s + n <= 0
        BY <1>1, <4>3, <4>4 DEF InRange
      <4> QED BY <4>1, <4>2, <4>5
    <3>2. CASE i \notin dropped
      <4>1. section = Section /\ Content(i) = Segs[i].data /\ Len(Content(i)) = DataLength(i)
        BY <1>0, <1>2, <3>2 DEF FlagsExact, VisibleSection, DataLength
      <4> QED BY <1>0, <1>6, <4>1, AcceptedIsInSegment
    <3> QED BY <3>1, <3>2
  <2> HIDE DEF section, p
  <2>2. RunInit(cells, flags, i, d, s, n) = InitOpcode(cells, section, d, p, n)
    BY <1>6 DEF RunInit, section, p
  <2> QED BY <1>3, <2>1, <2>2 DEF InitOpcode, Ok, Trap, Written, Wasm!InitFrom, Wasm!Moved,
                                  Wasm!Done, Wasm!Trap, Wasm!Overwritten
<1> QED BY <1>5, <1>6

\* The section is the layout's.
LEMMA ExactStays ==
  ASSUME layout' = layout
  PROVE  /\ ExactLayout' <=> ExactLayout
         /\ SegmentIds' = SegmentIds
<1>1. Segs' = Segs /\ IsMemory' = IsMemory /\ Operands' = Operands /\ Droppable' = Droppable
  BY DEF Segs, IsMemory, Region, Operands, Droppable
<1>2. Section' = Section
  BY <1>1 DEF Section, SectionUpTo
<1>3. SegmentIds' = SegmentIds
  BY <1>1 DEF SegmentIds
<1>4. \A i : DataLength(i)' = DataLength(i)
  BY <1>1 DEF DataLength
<1> QED BY <1>1, <1>2, <1>3, <1>4 DEF ExactLayout

\* A step that neither drops nor arms a segment.
LEMMA FlagsStay ==
  ASSUME FlagsExact, UNCHANGED <<layout, flags, dropped>>
  PROVE  FlagsExact'
BY ExactStays DEF FlagsExact, Flag

\* Dropping the first segment: the bits end with it.
LEMMA FirstDropped ==
  ASSUME layout \in Layouts, FlagsExact, layout' = layout, flags' = DropFlag(flags, 1),
         dropped' = dropped \cup {1}
  PROVE  FlagsExact'
<1>1. ExactLayout' /\ SegmentIds' = SegmentIds
  BY ExactStays DEF FlagsExact
<1>2. SegmentIds = 1 .. Len(Segs) /\ Len(Segs) \in Nat
  BY LayoutTyped
<1>3. dropped' = {1}
  BY DEF FlagsExact
<1>4. ASSUME NEW i \in SegmentIds
      PROVE  Flag(flags', i) <=> i = 1
  <2>1. i \in Nat /\ i >= 1
    BY <1>2
  <2>2. DOMAIN flags' = 1 .. 2 /\ flags'[2]
    <3> DEFINE S == 1 .. 2
    <3>1. flags' = [k \in S |-> k = 2 \/ (k \in DOMAIN flags /\ flags[k])]
      BY DEF DropFlag
    <3>2. 2 \in S
      OBVIOUS
    <3> HIDE DEF S
    <3>3. DOMAIN flags' = S /\ flags'[2]
      BY <3>1, <3>2, Zenon
    <3> QED BY <3>3 DEF S
  <2>3. i + 1 \in 1 .. 2 <=> i = 1
    BY <2>1
  <2> QED BY <2>1, <2>2, <2>3 DEF Flag
<1> QED BY <1>1, <1>3, <1>4 DEF FlagsExact

\* Every step keeps the bits exact, resets included.
LEMMA FlagsKept ==
  ASSUME layout \in Layouts, FlagsExact, [Next]_vars
  PROVE  FlagsExact'
<1>0. SegmentIds = 1 .. Len(Segs) /\ Len(Segs) \in Nat
  BY LayoutTyped
<1>1. CASE BootGrow
  BY <1>1, FlagsStay DEF BootGrow
<1>2. CASE BootSegment
  <2>1. CASE UNCHANGED <<layout, flags, dropped>>
    BY <2>1, FlagsStay
  <2>2. CASE ~UNCHANGED <<layout, flags, dropped>>
    <3>1. /\ Segs[boot].active /\ boot \in SegmentIds /\ layout' = layout
          /\ flags' = DropFlag(flags, boot) /\ dropped' = dropped \cup {boot}
      BY <1>2, <2>2 DEF BootSegment
    <3>2. boot = 1
      BY <3>1 DEF FlagsExact, ExactLayout
    <3> QED BY <3>1, <3>2, FirstDropped
  <2> QED BY <2>1, <2>2
<1>3. CASE \/ \E i \in SegmentIds, d, s, n \in Operands : InitSegment(i, d, s, n)
           \/ \E v \in FillValues, d, n \in Operands : Fill(d, v, n)
           \/ \E d, s, n \in Operands : Copy(d, s, n)
           \/ \E v \in FillValues, delta \in Operands : Grow(delta, v)
           \/ UNCHANGED vars
  <2>1. UNCHANGED <<layout, flags, dropped>>
    BY <1>3 DEF InitSegment, Fill, Copy, Grow, Guest, vars
  <2> QED BY <2>1, FlagsStay
<1>4. ASSUME NEW i \in Droppable, Drop(i)
      PROVE  FlagsExact'
  <2>1. i = 1
    BY DEF FlagsExact, ExactLayout
  <2> QED BY <1>4, <2>1, FirstDropped DEF Drop
<1>5. ASSUME NEW keepFlags \in BOOLEAN, StoreReset(keepFlags)
      PROVE  FlagsExact'
  <2>1. layout' = layout
    BY <1>5 DEF StoreReset
  <2>2. CASE UNCHANGED <<flags, dropped>>
    BY <2>1, <2>2, FlagsStay
  <2>3. CASE ~UNCHANGED <<flags, dropped>>
    <3>1. dropped' = {} /\ \A b : ~Flag(flags', b)
      BY <1>5, <2>3 DEF StoreReset, Flag
    <3> QED BY <2>1, <3>1, ExactStays DEF FlagsExact
  <2> QED BY <2>2, <2>3
<1> QED BY <1>1, <1>2, <1>3, <1>4, <1>5 DEF Next

\* No segment has been dropped before the entrypoint runs.
LEMMA InitFlags == Init /\ ExactLayout => FlagsExact
BY DEF Init, FlagsExact, Flag
=============================================================================
