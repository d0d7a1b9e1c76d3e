------------------------------ MODULE Segments ------------------------------
(***************************************************************************)
(* One region of an rwasm store, the linear memory or a table, with the    *)
(* segments that initialise it.  The compiler joins all segments into one  *)
(* section of the module and lowers each bulk instruction to a sequence    *)
(* that checks, charges fuel and then runs one opcode (src/src/isa/        *)
(* memory.rs, table.rs); the store remembers dropped segments in a bit     *)
(* vector (src/src/vm/executor/memory.rs, table.rs).                       *)
(*                                                                         *)
(* A lowered sequence is one step: nothing of the guest runs in between,   *)
(* and each ends in a trap, in OutOfFuel or after its opcode.              *)
(***************************************************************************)
EXTENDS I32Alu, Sequences

CONSTANTS
  Layouts,                \* the regions considered, see Layout
  NoMaximum

VARIABLES
  layout,                 \* the region at hand; it never changes
  cells,                  \* global_memory, or the table's elements
  flags,                  \* empty_data_segments or empty_elem_segments: bit b at b + 1
  dropped,                \* the segments that were dropped; not in the code
  boot,                   \* the entrypoint's next step, Ready once it has ended
  outcome                 \* of the last instruction

vars == <<layout, cells, flags, dropped, boot, outcome>>

\* What the module, the compiler's config and the store say of a region.
Region     == layout.region        \* "memory" or "table"
Segs       == layout.segs          \* the segments in order: [data, active, at]
Droppable  == layout.droppable     \* segments the guest's code drops
Operands   == layout.operands      \* words the guest passes to an instruction
FillValues == layout.fillValues    \* words the guest fills with
Granule    == layout.granule       \* cells of a grow unit: N_BYTES_PER_MEMORY_PAGE, 1 for a table
Initial    == layout.initial       \* units the module declares
Declared   == layout.declared      \* declared maximum in units, or NoMaximum
CompileMax == layout.compileMax    \* max_allowed_memory_pages of the compiler's config
StoreMax   == layout.storeMax      \* max_allowed_memory_pages of the store; N_MAX_TABLE_SIZE
PerFuel    == layout.perFuel       \* MEMORY_BYTES_PER_FUEL, TABLE_ELEMS_PER_FUEL
Metered    == layout.metered       \* consume_fuel_for_bulk_ops and fuel metering

IsMemory == Region = "memory"
SegmentIds == DOMAIN Segs
Ready    == Len(Segs) + 1
Failed   == Ready + 1            \* the entrypoint trapped: there is no instance

\* A cell of a region: a byte, or an element of a table.
CellsOf(region) == IF region = "memory" THEN 0 .. 2^(W \div 4) - 1 ELSE Words

\* What a layout is: Wasm validation, the check of SegmentBuilder::add_memory_pages, and
\* N_MAX_ALLOWED_MEMORY_PAGES, with which a memory fills half the address space at most.
\* A unit of fuel buys few cells, and a page is a whole number of them.
ASSUME LayoutAssumption ==
  /\ NoMaximum \notin Nat
  /\ \A l \in Layouts :
       /\ l.region \in {"memory", "table"}
       /\ l.granule \in 1 .. MaxWord /\ l.perFuel \in 1 .. MaxWord /\ 2 * l.perFuel <= Modulus
       /\ l.operands \subseteq Words /\ l.fillValues \subseteq Words
       /\ l.segs \in Seq([data : Seq(CellsOf(l.region)), active : BOOLEAN, at : Words])
       /\ l.droppable \subseteq DOMAIN l.segs
       /\ l.initial \in Nat /\ l.compileMax \in Nat /\ l.storeMax \in Nat
       /\ l.declared \in Nat \cup {NoMaximum}
       /\ 2 * l.storeMax < Modulus
       /\ l.region = "memory" => 2 * l.storeMax * l.granule <= Modulus
       /\ l.region = "memory" => l.granule % l.perFuel = 0
       /\ l.region = "table" => l.granule = 1
       /\ l.region = "memory" => l.initial < l.compileMax
       /\ l.declared # NoMaximum => l.initial <= l.declared

\* An address of the host is wider than a word (usize): true of every W, but the provers
\* know nothing of exponents.
ASSUME UsizeValues == 2^(2 * W) \in Nat /\ 2^(2 * W) >= 2 * Modulus

\* Of a byte: the same.
ASSUME ByteValues == 2^(W \div 4) \in Nat \ {0}

----------------------------------------------------------------------------
(* What SegmentBuilder collects.                                           *)

SectionUpTo[i \in 0 .. Len(Segs)] ==
  IF i = 0 THEN <<>> ELSE SectionUpTo[i - 1] \o Segs[i].data

Section       == SectionUpTo[Len(Segs)]
DataOffset(i) == Len(SectionUpTo[i - 1])
DataLength(i) == Len(Segs[i].data)

\* The offset kept in memory_sections and element_sections: into the section for a
\* passive segment, but into the region for an active one.
SegmentOffset(i) == IF Segs[i].active THEN Segs[i].at ELSE DataOffset(i)

\* The limit op_memory_grow_checked and op_table_grow_checked compile in.
GrowLimit ==
  IF IsMemory THEN IF Declared # NoMaximum /\ Declared <= CompileMax THEN Declared ELSE CompileMax
              ELSE IF Declared = NoMaximum THEN StoreMax ELSE Declared

----------------------------------------------------------------------------
(* Conversions and bounds checks of the opcodes.                           *)

\* `i32::from(x) as usize` extends the sign; tables take `u32 as usize`.
AsUsize(a) == IF IsMemory /\ Signed(a) < 0 THEN 2^(2 * W) + Signed(a) ELSE a

InRange(length, from, n) == AsUsize(from) + AsUsize(n) <= length

\* Mutant: a byte keeps the bits above it.
CellOfWhole(v) == v

\* u8::from for memory; a table keeps the word.
CellOf(v) == IF IsMemory THEN v % 2^(W \div 4) ELSE v

CellValues == CellsOf(Region)

Written(c, d, values) ==
  [k \in DOMAIN c |-> IF k - d \in DOMAIN values THEN values[k - d] ELSE c[k]]

Ok(c)    == [outcome |-> "ok", cells |-> c]
Trap(c)  == [outcome |-> "trap", cells |-> c]

\* Mutant: a charge rounded down.
ChargeDown(n) == IF Metered THEN n \div PerFuel ELSE 0

\* A charge for n cells, rounded up; the addition wraps.
Charge(n) == IF Metered THEN Wrap(n + PerFuel - 1) \div PerFuel ELSE 0

----------------------------------------------------------------------------
(* The bit vector of dropped segments.                                     *)

\* bits.get(b).unwrap_or(false)
Flag(f, b) == b + 1 \in DOMAIN f /\ f[b + 1]

\* Mutant: the bit of the segment before it.
DropFlagBefore(f, b) == [k \in 1 .. b |-> k = b \/ (k \in DOMAIN f /\ f[k])]

\* resize(b + 1, false) and set(b, true).
DropFlag(f, b) == [k \in 1 .. b + 1 |-> k = b + 1 \/ (k \in DOMAIN f /\ f[k])]

\* visit_memory_init and visit_table_init read the section, or nothing when the
\* bit of the operand is set.
VisibleSection(f, b) == IF Flag(f, b) THEN <<>> ELSE Section

----------------------------------------------------------------------------
(* The opcodes with the sequences that lead to them.                       *)

InitOpcode(c, section, d, s, n) ==
  IF InRange(Len(c), d, n) /\ InRange(Len(section), s, n)
    THEN Ok(Written(c, d, SubSeq(section, s + 1, s + n)))
    ELSE Trap(c)

\* n + s > length, in wrapping signed arithmetic; for an empty data segment the
\* check is not emitted.
LengthExceeded(i, s, n) ==
  /\ IsMemory => DataLength(i) > 0
  /\ Signed(Wrap(n + s)) > Signed(DataLength(i))

RunInit(c, f, i, d, s, n) ==
  IF LengthExceeded(i, s, n) THEN Trap(c)
  ELSE InitOpcode(c, VisibleSection(f, i), d, Wrap(s + SegmentOffset(i)), n)

InitCharge(i, s, n) == IF LengthExceeded(i, s, n) THEN 0 ELSE Charge(n)

RunFill(c, d, v, n) ==
  IF InRange(Len(c), d, n) THEN Ok(Written(c, d, [k \in 1 .. n |-> CellOf(v)]))
                           ELSE Trap(c)

\* Mutant: only the source is checked.
RunCopyUnchecked(c, d, s, n) ==
  IF InRange(Len(c), s, n) THEN Ok(Written(c, d, SubSeq(c, s + 1, s + n))) ELSE Trap(c)

RunCopy(c, d, s, n) ==
  IF InRange(Len(c), s, n) /\ InRange(Len(c), d, n)
    THEN Ok(Written(c, d, SubSeq(c, s + 1, s + n)))
    ELSE Trap(c)

Units(c) == Len(c) \div Granule

\* Mutant: the store's own limit is not enforced.
GrowFitsAnyStore(c, delta) == delta <= (IF IsMemory THEN Modulus \div Granule ELSE MaxWord)

\* GlobalMemory::grow under Pages::new and Pages::checked_add, which refuse more
\* pages than the address space has; TableEntity::grow_untyped.
GrowFits(c, delta) ==
  LET addressable == IF IsMemory THEN Modulus \div Granule ELSE MaxWord IN
  /\ delta <= addressable
  /\ Units(c) + delta <= addressable
  /\ (delta = 0 /\ IsMemory) \/ Units(c) + delta <= StoreMax

Grown(c, delta, value) == c \o [k \in 1 .. delta * Granule |-> value]

\* n + size > limit, in wrapping signed arithmetic.
LimitExceeded(c, delta) == Signed(Wrap(delta + Units(c))) > Signed(GrowLimit)

\* New pages are zero; new table elements are the operand.
GrownCell(v) == IF IsMemory THEN 0 ELSE v

RunGrow(c, delta, v) ==
  IF LimitExceeded(c, delta) \/ ~GrowFits(c, delta) THEN c ELSE Grown(c, delta, GrownCell(v))

\* delta * page / 64, rounded down, for pages.
GrowCharge(c, delta) ==
  IF LimitExceeded(c, delta) THEN 0
  ELSE IF IsMemory THEN IF Metered THEN Wrap(delta * Granule) \div PerFuel ELSE 0
  ELSE Charge(delta)

----------------------------------------------------------------------------
(* The entrypoint: allocate what the module declares, then the active      *)
(* segments in order.                                                      *)

\* add_memory_pages, emit_table_segment: the opcode alone, and its result dropped.
\* The allocator may refuse.
BootGrow ==
  /\ boot = 0
  /\ boot' = 1
  /\ \/ GrowFits(cells, Initial) /\ cells' = Grown(cells, Initial, 0)
     \/ UNCHANGED cells
  /\ outcome' = "ok"
  /\ UNCHANGED <<layout, flags, dropped>>

\* add_active_memory: u32::MAX in place of a length that cannot fit the declared
\* pages, so that the init traps; the sum is checked.
HasMemoryOverflow(i) ==
  LET end == Segs[i].at + DataLength(i) + Granule - 1 IN
  end < Modulus /\ end \div Granule > Initial

ActiveLength(i) == IF IsMemory /\ HasMemoryOverflow(i) THEN MaxWord ELSE DataLength(i)

\* An active segment is read by MemoryInit(0), a bit no drop ever sets, or by
\* TableInit with its own index, and is dropped at once.
BootSegment ==
  /\ boot \in SegmentIds
  /\ LET section == VisibleSection(flags, IF IsMemory THEN 0 ELSE boot)
         run == InitOpcode(cells, section, Segs[boot].at, DataOffset(boot), ActiveLength(boot))
     IN  \/ /\ ~Segs[boot].active
            /\ boot' = boot + 1
            /\ UNCHANGED <<layout, cells, flags, dropped, outcome>>
         \/ /\ Segs[boot].active /\ run.outcome = "ok"
            /\ boot' = boot + 1
            /\ cells' = run.cells
            /\ flags' = DropFlag(flags, boot)
            /\ dropped' = dropped \cup {boot}
            /\ UNCHANGED <<layout, outcome>>
         \/ /\ Segs[boot].active /\ run.outcome = "trap"
            /\ boot' = Failed
            /\ outcome' = "trap"
            /\ UNCHANGED <<layout, cells, flags, dropped>>

----------------------------------------------------------------------------
(* The guest's instructions.                                               *)

OutOfFuel(charge) == charge > 0 /\ outcome' = "OutOfFuel" /\ UNCHANGED cells

Guest(charge, run) ==
  /\ boot = Ready
  /\ OutOfFuel(charge) \/ (cells' = run.cells /\ outcome' = run.outcome)
  /\ UNCHANGED <<layout, flags, dropped, boot>>

InitSegment(i, d, s, n) == Guest(InitCharge(i, s, n), RunInit(cells, flags, i, d, s, n))
Fill(d, v, n)           == Guest(Charge(n), RunFill(cells, d, v, n))
Copy(d, s, n)           == Guest(Charge(n), RunCopy(cells, d, s, n))

\* The allocator may refuse what the limits allow.
Grow(delta, v) ==
  \/ Guest(GrowCharge(cells, delta), Ok(RunGrow(cells, delta, v)))
  \/ Guest(GrowCharge(cells, delta), Ok(cells))

\* visit_data_drop, visit_element_drop.
Drop(i) ==
  /\ boot = Ready
  /\ flags' = DropFlag(flags, i)
  /\ dropped' = dropped \cup {i}
  /\ outcome' = "ok"
  /\ UNCHANGED <<layout, cells, boot>>

\* RwasmStore::reset by the host between runs: segments are armed again unless the
\* flags are kept.  A long bit vector is replaced, a short one is cleared.
StoreReset(keepFlags) ==
  /\ boot \in {Ready, Failed}
  /\ \/ keepFlags /\ UNCHANGED <<flags, dropped>>
     \/ /\ ~keepFlags
        /\ flags' = IF Len(flags) <= 8 THEN [k \in DOMAIN flags |-> FALSE] ELSE <<>>
        /\ dropped' = {}
  /\ UNCHANGED <<layout, cells, boot, outcome>>

Init ==
  /\ layout \in Layouts
  /\ cells = <<>>
  /\ flags = <<>>
  /\ dropped = {}
  /\ boot = 0
  /\ outcome = "ok"

Next ==
  \/ BootGrow
  \/ BootSegment
  \/ \E i \in SegmentIds, d, s, n \in Operands : InitSegment(i, d, s, n)
  \/ \E v \in FillValues, d, n \in Operands : Fill(d, v, n)
  \/ \E d, s, n \in Operands : Copy(d, s, n)
  \/ \E v \in FillValues, delta \in Operands : Grow(delta, v)
  \/ \E i \in Droppable : Drop(i)
  \/ \E keepFlags \in BOOLEAN : StoreReset(keepFlags)

Spec == Init /\ [][Next]_vars

----------------------------------------------------------------------------
Wasm == INSTANCE WasmBulk
Content(i) == IF i \in dropped THEN <<>> ELSE Segs[i].data

TypeOK ==
  /\ layout \in Layouts
  /\ cells \in Seq(CellValues)
  /\ flags \in Seq(BOOLEAN)
  /\ dropped \subseteq SegmentIds
  /\ boot \in 0 .. Failed
  /\ outcome \in {"ok", "trap", "OutOfFuel"}

\* In every state, with whatever operands: the lowered init, with its check in wrapping
\* arithmetic and its one section for all segments, does to the region exactly what the
\* Wasm instruction does, and traps exactly when it does.
InitMatchesWasm ==
  boot = Ready =>
    \A i \in SegmentIds, d, s, n \in Operands :
      RunInit(cells, flags, i, d, s, n) = Wasm!InitFrom(cells, Content(i), d, s, n)

\* The same of fill, copy and grow, whose addresses are extended by their sign and whose
\* limits are compared in wrapping arithmetic.
RegionOpsMatchWasm ==
  boot = Ready =>
    /\ \A v \in FillValues, d, n \in Operands :
         RunFill(cells, d, v, n) = Wasm!FillWith(cells, d, CellOf(v), n)
    /\ \A d, s, n \in Operands : RunCopy(cells, d, s, n) = Wasm!CopyWithin(cells, d, s, n)
    /\ \A v \in FillValues, delta \in Operands :
         Wasm!GrowAllowed(cells, delta * Granule, GrownCell(v), GrowLimit * Granule,
                          RunGrow(cells, delta, v))

\* Work is paid for: an instruction that writes n cells has charged for all of them
\* although the charge is computed in wrapping arithmetic from an unchecked operand
\* ("we can safely multiply the num of pages", isa/memory.rs).
BulkWorkIsPaid ==
  boot = Ready /\ Metered =>
    /\ \A i \in SegmentIds, d, s, n \in Operands :
         RunInit(cells, flags, i, d, s, n).outcome = "ok" => PerFuel * InitCharge(i, s, n) >= n
    /\ \A d, s, n \in Operands :
         RunCopy(cells, d, s, n).outcome = "ok" => PerFuel * Charge(n) >= n
    /\ \A v \in FillValues, delta \in Operands :
         LET added == Len(RunGrow(cells, delta, v)) - Len(cells)
         IN  PerFuel * GrowCharge(cells, delta) >= added

\* However it was grown, by the unchecked entrypoint or by the guest, the region
\* stays within what the module declares and what the store allows.
SizeWithinMaximum ==
  /\ Len(cells) <= StoreMax * Granule
  /\ Declared # NoMaximum => Len(cells) <= Declared * Granule

\* A dropped segment stays dropped for as long as the store is not reset.
DroppedStayDropped == \A i \in dropped : Flag(flags, i)

\* An init that succeeds read cells of its own segment and of no other one.
InitStaysInSegment ==
  boot = Ready =>
    \A i \in SegmentIds, d, s, n \in Operands :
      RunInit(cells, flags, i, d, s, n).outcome = "ok" /\ n > 0 => s + n <= DataLength(i)
=============================================================================
