------------------------------ MODULE WasmOps ------------------------------
(***************************************************************************)
(* The Wasm instructions that the translator lowers by one of its          *)
(* translate_* helpers: their families, operand types and the opcodes      *)
(* their emitters append.  An instruction has the name of the opcode of    *)
(* the same name, or of its emitter when rwasm has no such opcode.         *)
(***************************************************************************)
EXTENDS I64Sequences, FiniteSets

ValTypes  == {"I32", "I64", "F32", "F64", "FuncRef", "ExternRef"}
WideTypes == {"I64", "F64"}

\* Stack slots of a value and of a list of values.
Slots(ty)      == IF ty \in WideTypes THEN 2 ELSE 1
SlotsOf(types) == Len(types) + Cardinality({i \in DOMAIN types : types[i] \in WideTypes})

----------------------------------------------------------------------------
(* Families, by the helper that lowers them and the type they work on.     *)

I32Compares  == {"I32Eq", "I32Ne", "I32LtS", "I32LtU", "I32GtS", "I32GtU",
                 "I32LeS", "I32LeU", "I32GeS", "I32GeU"}
F32Compares  == {"F32Eq", "F32Ne", "F32Lt", "F32Gt", "F32Le", "F32Ge"}
F64Compares  == {"F64Eq", "F64Ne", "F64Lt", "F64Gt", "F64Le", "F64Ge"}
UnaryTests   == {"I32Eqz", "I64Eqz", "RefIsNull"}

I32Unaries   == {"I32Clz", "I32Ctz", "I32Popcnt", "I32Extend8S", "I32Extend16S"}
I64Unaries   == {"I64Clz", "I64Ctz", "I64Popcnt", "I64Extend8S", "I64Extend16S", "I64Extend32S"}
F32Unaries   == {"F32Abs", "F32Neg", "F32Ceil", "F32Floor", "F32Trunc", "F32Nearest", "F32Sqrt"}
F64Unaries   == {"F64Abs", "F64Neg", "F64Ceil", "F64Floor", "F64Trunc", "F64Nearest", "F64Sqrt"}

I32Binaries  == {"I32Add", "I32Sub", "I32Mul", "I32DivS", "I32DivU", "I32RemS", "I32RemU",
                 "I32And", "I32Or", "I32Xor", "I32Shl", "I32ShrS", "I32ShrU", "I32Rotl", "I32Rotr"}
I64Binaries  == {"I64And", "I64Or", "I64Xor"}
F32Binaries  == {"F32Add", "F32Sub", "F32Mul", "F32Div", "F32Min", "F32Max", "F32Copysign"}
F64Binaries  == {"F64Add", "F64Sub", "F64Mul", "F64Div", "F64Min", "F64Max", "F64Copysign"}

\* The i64 instructions a snippet exists for.
I64Compares  == {"I64Eq", "I64Ne", "I64LtS", "I64LtU", "I64GtS", "I64GtU",
                 "I64LeS", "I64LeU", "I64GeS", "I64GeU"}
I64Arithmetic == {"I64Add", "I64Sub", "I64Mul", "I64DivS", "I64DivU", "I64RemS", "I64RemU",
                  "I64Shl", "I64ShrS", "I64ShrU", "I64Rotl", "I64Rotr"}

Compares == I32Compares \cup F32Compares \cup F64Compares
Unaries  == I32Unaries \cup I64Unaries \cup F32Unaries \cup F64Unaries
Binaries == I32Binaries \cup I64Binaries \cup F32Binaries \cup F64Binaries
Snippets == I64Compares \cup I64Arithmetic

\* Input and output of translate_conversion.
IntConversions == [I64ExtendI32S |-> <<"I32", "I64">>, I64ExtendI32U |-> <<"I32", "I64">>]
Truncations ==
  [I32TruncF32S |-> <<"F32", "I32">>, I32TruncF32U |-> <<"F32", "I32">>,
   I32TruncF64S |-> <<"F64", "I32">>, I32TruncF64U |-> <<"F64", "I32">>,
   I64TruncF32S |-> <<"F32", "I64">>, I64TruncF32U |-> <<"F32", "I64">>,
   I64TruncF64S |-> <<"F64", "I64">>, I64TruncF64U |-> <<"F64", "I64">>]
FloatConversions ==
  [F32ConvertI32S |-> <<"I32", "F32">>, F32ConvertI32U |-> <<"I32", "F32">>,
   F32ConvertI64S |-> <<"I64", "F32">>, F32ConvertI64U |-> <<"I64", "F32">>,
   F32DemoteF64 |-> <<"F64", "F32">>,
   F64ConvertI32S |-> <<"I32", "F64">>, F64ConvertI32U |-> <<"I32", "F64">>,
   F64ConvertI64S |-> <<"I64", "F64">>, F64ConvertI64U |-> <<"I64", "F64">>,
   F64PromoteF32 |-> <<"F32", "F64">>]
Saturations ==
  [I32TruncSatF32S |-> <<"F32", "I32">>, I32TruncSatF32U |-> <<"F32", "I32">>,
   I32TruncSatF64S |-> <<"F64", "I32">>, I32TruncSatF64U |-> <<"F64", "I32">>,
   I64TruncSatF32S |-> <<"F32", "I64">>, I64TruncSatF32U |-> <<"F32", "I64">>,
   I64TruncSatF64S |-> <<"F64", "I64">>, I64TruncSatF64U |-> <<"F64", "I64">>]
Conversions == IntConversions @@ Truncations @@ FloatConversions @@ Saturations

\* visit_reinterpret emits nothing.
Reinterprets ==
  [I32ReinterpretF32 |-> <<"F32", "I32">>, I64ReinterpretF64 |-> <<"F64", "I64">>,
   F32ReinterpretI32 |-> <<"I32", "F32">>, F64ReinterpretI64 |-> <<"I64", "F64">>]

\* The type an instruction of these families works on.
OperandType(op) ==
  CASE op \in I32Compares \cup I32Unaries \cup I32Binaries \cup {"I32Eqz"} -> "I32"
    [] op \in Snippets \cup I64Unaries \cup I64Binaries \cup {"I64Eqz"}    -> "I64"
    [] op \in F32Compares \cup F32Unaries \cup F32Binaries -> "F32"
    [] op \in F64Compares \cup F64Unaries \cup F64Binaries -> "F64"
    [] op = "RefIsNull" -> "FuncRef"

----------------------------------------------------------------------------
(* Loads and stores: the type of the value and the opcodes.                *)

LoadTypes ==
  [I32Load |-> "I32", I32Load8S |-> "I32", I32Load8U |-> "I32", I32Load16S |-> "I32",
   I32Load16U |-> "I32", F32Load |-> "F32", F64Load |-> "F64", I64Load |-> "I64",
   I64Load8S |-> "I64", I64Load8U |-> "I64", I64Load16S |-> "I64", I64Load16U |-> "I64",
   I64Load32S |-> "I64", I64Load32U |-> "I64"]
StoreTypes ==
  [I32Store |-> "I32", I32Store8 |-> "I32", I32Store16 |-> "I32", F32Store |-> "F32",
   F64Store |-> "F64", I64Store |-> "I64", I64Store8 |-> "I64", I64Store16 |-> "I64",
   I64Store32 |-> "I64"]

\* Mutant: u32::wrapping_add.
WrappingAdd(a, b) == (a + b) % 2^W

\* u32::saturating_add.
SaturatingAdd(a, b) == IF a + b >= 2^W THEN 2^W - 1 ELSE a + b

op_i64_load(offset) ==
  <<Get(1), Emit("I32Load", SaturatingAdd(offset, 4)), Get(2), Emit("I32Load", offset), Set(2)>>
op_i64_store(offset) ==
  <<Get(3), Get(2), Emit("I32Store", SaturatingAdd(offset, 4)), Drop, Emit("I32Store", offset)>>

\* The narrow i64 accesses: the i32 access, then the high word.
SignedLoad(op, offset)   == <<Emit(op, offset), Get(1), Const(W - 1), ShrS>>
UnsignedLoad(op, offset) == <<Emit(op, offset), Const(0)>>
NarrowStore(op, offset)  == <<Drop, Emit(op, offset)>>

MemoryCode(op, offset) ==
  CASE op = "I64Load"    -> op_i64_load(offset)
    [] op = "I64Load8S"  -> SignedLoad("I32Load8S", offset)
    [] op = "I64Load8U"  -> UnsignedLoad("I32Load8U", offset)
    [] op = "I64Load16S" -> SignedLoad("I32Load16S", offset)
    [] op = "I64Load16U" -> UnsignedLoad("I32Load16U", offset)
    [] op = "I64Load32S" -> SignedLoad("I32Load", offset)
    [] op = "I64Load32U" -> UnsignedLoad("I32Load", offset)
    [] op = "I64Store"   -> op_i64_store(offset)
    [] op = "I64Store8"  -> NarrowStore("I32Store8", offset)
    [] op = "I64Store16" -> NarrowStore("I32Store16", offset)
    [] op = "I64Store32" -> NarrowStore("I32Store", offset)
    [] OTHER -> <<Emit(op, offset)>>

MshMemory ==
  [I64Load |-> 2, I64Load8S |-> 1, I64Load8U |-> 1, I64Load16S |-> 1, I64Load16U |-> 1,
   I64Load32S |-> 1, I64Load32U |-> 1, I64Store |-> 2, I64Store8 |-> 0, I64Store16 |-> 0,
   I64Store32 |-> 0]

\* The opcodes of an instruction without a snippet, and the slots they need on top
\* of the operands (the MSH_* constants; 0 where the translator passes none).
OpcodesOf(op) == IF op \in DOMAIN Msh THEN Emitter[op] ELSE <<Emit(op, 0)>>
HeightOf(op)  == IF op \in DOMAIN Msh THEN Msh[op] ELSE 0
MemoryHeight(op) == IF op \in DOMAIN MshMemory THEN MshMemory[op] ELSE 0

----------------------------------------------------------------------------
(* The *_checked sequences of bulk instructions (isa/memory.rs, table.rs). *)
(* rate and shift are the units a fuel pays for, and their logarithm.      *)

\* (n + rate - 1) >> shift fuel for the n on top of the stack.
ChargeUnits(rate, shift) ==
  <<Get(1), Const(rate - 1), Add, Const(shift), ShrU, Emit("ConsumeFuelStack", 0)>>
ChargePages(page, shift) ==
  <<Get(1), Const(page), Mul, Const(shift), ShrU, Emit("ConsumeFuelStack", 0)>>
When(fuel, code) == IF fuel THEN code ELSE <<>>

op_memory_grow_checked(max, fuel, page, shift) ==
  <<Get(1), Emit("MemorySize", 0), Add, Const(max), GtS, BrEqz(4), Drop, Const(2^W - 1),
    Br(IF fuel THEN 8 ELSE 2)>>
  \o When(fuel, ChargePages(page, shift)) \o <<Emit("MemoryGrow", 0)>>

op_table_grow_checked(table, limit, fuel, rate, shift) ==
  <<Get(1), Emit("TableSize", table), Add, Const(limit), GtS, BrEqz(5), Drop, Drop,
    Const(2^W - 1), Br(IF fuel THEN 8 ELSE 2)>>
  \o When(fuel, ChargeUnits(rate, shift)) \o <<Emit("TableGrow", table)>>

\* n + s > length traps; then s is moved by the segment's offset.
SegmentCheck(length, trap) ==
  <<Get(1), Get(3), Add, Const(length), GtS, BrEqz(2), TrapWith(trap)>>
SegmentMove(offset) == <<Const(offset), Get(3), Add, Set(2)>>

op_memory_init_checked(offset, length, segment, fuel, rate, shift) ==
  When(length > 0, SegmentCheck(length, "MemoryOutOfBounds"))
  \o When(offset > 0, SegmentMove(offset))
  \o When(fuel, ChargeUnits(rate, shift)) \o <<Emit("MemoryInit", segment)>>

op_table_init_checked(segment, table, length, offset, fuel, rate, shift) ==
  SegmentCheck(length, "TableOutOfBounds") \o When(offset > 0, SegmentMove(offset))
  \o When(fuel, ChargeUnits(rate, shift))
  \o <<Emit("TableInit", segment), Emit("TableGet", table)>>

\* memory.fill, memory.copy, table.fill and table.copy: the charge, then the opcode.
FillOrCopy(op, imm, fuel, rate, shift) ==
  When(fuel, ChargeUnits(rate, shift)) \o <<Emit(op, imm)>>
=============================================================================
