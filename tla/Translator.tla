----------------------------- MODULE Translator -----------------------------
(***************************************************************************)
(* InstructionTranslator (src/src/compiler/translator.rs): one function    *)
(* body of a validated Wasm module, operator by operator, to rwasm code.   *)
(*                                                                         *)
(* The translator is a record t, and every visit_* method an operator from *)
(* a translator to the next.  t.status is "ok", "error" once a visitor has *)
(* returned a CompilationError, "panic" once an assertion, debug assertion *)
(* or unwrap has failed.  An instruction is [op, imm, aux]; a block type   *)
(* is an index into FuncTypes (an Empty or Type block has a signature      *)
(* without parameters).  Positions in code count from 0, labels from 1.    *)
(***************************************************************************)
EXTENDS WasmOps, SequencesExt

CONSTANTS
  FuncTypes,             \* the type section: a sequence of [params, results]
  FuncTypeOf,            \* compiled_funcs: the type index of every function
  Intrinsics,            \* functions the intrinsic handler replaces: [kind, code]
  GlobalTypes,           \* types of the globals
  TableTypes,            \* element types of the tables
  TableMaximum,          \* table_type.maximum, or N_MAX_TABLE_SIZE
  BrTables,              \* the targets of every br_table, default last
  DataSections,          \* memory_sections: <<offset, length>> of the data segments
  ElemSections,          \* element_sections: <<offset, length>> of the element segments
  MaxPages,              \* the memory's maximum, capped by max_allowed_memory_pages
  WithConsumeFuel, WithCodeSnippets, ConsumeFuelForBulkOps,
  ConsumeFuelForParamsAndLocals,                       \* CompilationConfig
  FuelCosts,             \* [BASE, CALL, ENTITY, LOAD, STORE]
  FuelForLocals(_),      \* FuelCosts::fuel_for_locals
  ByteRate, ByteShift, ElemRate, ElemShift, PageBytes, \* the bulk instructions' prices
  MaxBlockFuel,          \* u32::MAX
  MaxDropKeep            \* u16::MAX

NoFuel   == -1           \* consume_fuel: None
Unpinned == -1

FuncType(idx) == FuncTypes[idx + 1]

\* resolve_func_type_signature: the first equal type stands for all of them.
Signature(idx) == (CHOOSE j \in DOMAIN FuncTypes :
                     /\ FuncTypes[j] = FuncType(idx)
                     /\ \A k \in 1 .. j - 1 : FuncTypes[k] # FuncType(idx)) - 1

Panic(t) == [t EXCEPT !.status = "panic"]
Error(t) == [t EXCEPT !.status = "error"]
Asserted(t, condition) == IF condition THEN t ELSE Panic(t)

----------------------------------------------------------------------------
(* ValueStackHeight, and the emulated stack of types beside it.            *)

PushN(t, n) ==
  [t EXCEPT !.height = @ + n,
            !.maxHeight = IF t.height + n > @ THEN t.height + n ELSE @]
PopN(t, n) == IF n <= t.height THEN [t EXCEPT !.height = @ - n] ELSE Panic(t)
\* The push_n and pop_n that only raise the maximum.
Peak(t, n) == PopN(PushN(t, n), n)

TypesPopped(t, n) ==
  IF n <= Len(t.types) THEN [t EXCEPT !.types = SubSeq(@, 1, Len(@) - n)] ELSE Panic(t)
TypesPushed(t, types) == [t EXCEPT !.types = @ \o types]

\* The n types on top, "none" where the stack has fewer.
Top(t, n) == [i \in 1 .. n |-> IF Len(t.types) + i - n \in DOMAIN t.types
                                 THEN t.types[Len(t.types) + i - n] ELSE "none"]

\* Mutant: a type is popped for every slot that goes.
ShrunkBySlot(t, height) ==
  IF height > t.height \/ t.height - height > Len(t.types) THEN Panic(t)
  ELSE [TypesPopped(t, t.height - height) EXCEPT !.height = height]

\* shrink_to, with the loop that pops types until their slots add up.
Shrunk(t, height) ==
  LET Covers(k) == SlotsOf(Top(t, k)) >= t.height - height
      counts    == {k \in 0 .. Len(t.types) : Covers(k)}
  IN  IF height > t.height \/ counts = {} THEN Panic(t)
      ELSE [TypesPopped(t, CHOOSE k \in counts : \A j \in counts : k <= j)
              EXCEPT !.height = height]

\* Every value's slots, then its type.
ValuesPushed(t, types) == TypesPushed(PushN(t, SlotsOf(types)), types)

----------------------------------------------------------------------------
(* Code, labels and fuel.                                                  *)

CurrentPc(t)     == Len(t.code)
Emitted(t, code) == [t EXCEPT !.code = @ \o code]

\* LabelRegistry: a label is its position, or Unpinned; users wait for theirs.
NewLabel(t) == [t EXCEPT !.labels = Append(@, Unpinned)]
\* Mutant: the else label of an if with an else is pinned a second time.
TryPinLabelOnce(t, label) ==
  IF t.labels[label] = Unpinned THEN [t EXCEPT !.labels[label] = CurrentPc(t)] ELSE Panic(t)
TryPinLabel(t, label) ==
  IF t.labels[label] = Unpinned THEN [t EXCEPT !.labels[label] = CurrentPc(t)] ELSE t
PinLabel(t, label) ==
  IF t.labels[label] = Unpinned THEN TryPinLabel(t, label) ELSE Panic(t)

\* try_resolve_label_for: the offset, 0 while it is not known ...
OffsetTo(t, label, user) == IF t.labels[label] = Unpinned THEN 0 ELSE t.labels[label] - user
\* ... and the user that finish will patch.
UserAdded(t, label, user) ==
  IF t.labels[label] = Unpinned THEN [t EXCEPT !.users = Append(@, <<label, user>>)] ELSE t
EmitBranch(t, op, label) ==
  UserAdded(Emitted(t, <<Emit(op, OffsetTo(t, label, CurrentPc(t)))>>), label, CurrentPc(t))

\* bump_fuel_consumption: into the last ConsumeFuel of the innermost frame.
BumpFuel(t, delta) ==
  LET pc == Last(t.frames).fuel IN
  CASE pc = NoFuel \/ ~WithConsumeFuel -> t
    [] t.code[pc + 1].imm + delta > MaxBlockFuel -> Error(t)
    [] OTHER -> [t EXCEPT !.code[pc + 1].imm = @ + delta]

\* push_consume_fuel_empty, and the innermost frame uses the new opcode from
\* now on (an unreachable frame has none).
FuelRestarted(t) ==
  IF ~WithConsumeFuel THEN t
  ELSE LET frame == Last(t.frames)
           asked == Asserted(t, ~frame.reach \/ frame.fuel # NoFuel)
       IN  [Emitted(asked, <<Emit("ConsumeFuel", 0)>>)
              EXCEPT !.frames[Len(t.frames)].fuel = IF frame.reach THEN CurrentPc(t) ELSE @]

----------------------------------------------------------------------------
(* Control frames, innermost last.                                         *)

Frame(kind, type, label, elseLabel, height, fuel) ==
  [kind |-> kind, reach |-> TRUE, type |-> type, label |-> label, elseLabel |-> elseLabel,
   height |-> height, fuel |-> fuel]
UnreachableFrame(kind, type) ==
  [Frame(kind, type, 0, 0, 0, NoFuel) EXCEPT !.reach = FALSE]

FramePushed(t, frame) == [t EXCEPT !.frames = Append(@, frame)]
FrameAt(t, depth)     == t.frames[Len(t.frames) - depth]
IsRoot(t, depth)      == depth = Len(t.frames) - 1

\* frame_stack_height: the parameters of the block are not below it.
FrameHeight(t, type) == t.height - SlotsOf(FuncType(type).params)

----------------------------------------------------------------------------
(* DropKeep: what a branch drops under the slots it keeps.                 *)

DropKeepCode(drop, keep) ==
  IF drop = 0 THEN <<>>
  ELSE IF drop >= keep THEN Repeat(keep, Set(drop)) \o <<Emit("BulkDrop", drop - keep)>>
  ELSE [j \in 1 .. 2 * keep |->
          LET i == (j - 1) \div 2
          IN  IF j % 2 = 1 THEN Get(keep - i) ELSE Set(keep + drop - i)]
       \o <<Emit("BulkDrop", drop)>>

\* Mutant: the slot that carries a kept value is not counted.
DropKeepPeakNone(t, dk) == t
DropKeepPeak(t, dk) == IF dk.drop > 0 /\ dk.drop < dk.keep THEN Peak(t, 1) ELSE t
DropKept(t, dk)     == Emitted(DropKeepPeak(t, dk), DropKeepCode(dk.drop, dk.keep))

DropKeepFits(dk) == dk.drop <= MaxDropKeep /\ dk.keep <= MaxDropKeep

\* compute_drop_keep for a frame (of kind "Loop": its parameters are kept).
ComputeDropKeep(t, depth) ==
  LET frame == FrameAt(t, depth)
      type  == FuncType(frame.type)
      keep  == SlotsOf(IF frame.kind = "Loop" THEN type.params ELSE type.results)
  IN  [drop |-> t.height - frame.height - keep, keep |-> keep]

\* Mutant: the parameters are left on the stack.
DropKeepReturnLocals(t) == ComputeDropKeep(t, Len(t.frames) - 1)

\* All locals and parameters go.
DropKeepReturn(t) ==
  LET dk == ComputeDropKeep(t, Len(t.frames) - 1) IN [dk EXCEPT !.drop = @ + t.params]

\* The callee's parameters are kept in the place of the caller's.
DropKeepReturnCall(t, type) ==
  LET keep == SlotsOf(type.params)
  IN  [drop |-> t.height - keep + t.params, keep |-> keep]

\* add_branch and acquire_target.
AcquireTarget(t, depth) ==
  [return |-> IsRoot(t, depth), label |-> FrameAt(t, depth).label,
   dk |-> IF IsRoot(t, depth) THEN DropKeepReturn(t) ELSE ComputeDropKeep(t, depth)]
\* Their assertions, and DropKeep::new.
Acquired(t, depth) ==
  IF ~FrameAt(t, depth).reach \/ ComputeDropKeep(t, depth).drop < 0 THEN Panic(t)
  ELSE IF DropKeepFits(AcquireTarget(t, depth).dk) THEN t ELSE Error(t)

----------------------------------------------------------------------------
(* Structured control.                                                     *)

VisitBlock(t, type) ==
  IF ~t.reachable THEN FramePushed(t, UnreachableFrame("Block", type))
  ELSE LET asked == Asserted(NewLabel(t), FrameHeight(t, type) >= 0)
       IN  FramePushed(asked, Frame("Block", type, Len(asked.labels), 0, FrameHeight(t, type),
                                    Last(t.frames).fuel))

VisitLoop(t, type) ==
  IF ~t.reachable THEN FramePushed(t, UnreachableFrame("Loop", type))
  ELSE LET asked  == Asserted(NewLabel(t), FrameHeight(t, type) >= 0)
           header == PinLabel(asked, Len(asked.labels))
           fuel   == IF WithConsumeFuel THEN CurrentPc(t) ELSE NoFuel
       IN  FramePushed(Emitted(header, When(WithConsumeFuel, <<Emit("ConsumeFuel", 0)>>)),
                       Frame("Loop", type, Len(asked.labels), 0, FrameHeight(t, type), fuel))

VisitIf(t, type) ==
  IF ~t.reachable THEN FramePushed(t, UnreachableFrame("If", type))
  ELSE LET cond   == TypesPopped(PopN(t, 1), 1)
           asked  == Asserted(NewLabel(NewLabel(cond)), FrameHeight(cond, type) >= 0)
           endRef == Len(asked.labels)
           branch == EmitBranch(BumpFuel(asked, FuelCosts.BASE), "BrIfEqz", endRef - 1)
           fuel   == IF WithConsumeFuel THEN CurrentPc(branch) ELSE NoFuel
       IN  FramePushed(Emitted(branch, When(WithConsumeFuel, <<Emit("ConsumeFuel", 0)>>)),
                       Frame("If", type, endRef, endRef - 1, FrameHeight(cond, type), fuel))

\* The stack is as it was at the if, whatever the then branch left.
VisitElse(t) ==
  LET frame == Last(t.frames)
      left  == IF t.reachable THEN EmitBranch(t, "Br", frame.label) ELSE t
      fuel  == FuelRestarted(PinLabel(left, frame.elseLabel))
  IN  IF ~frame.reach THEN Asserted(t, frame.kind = "If")
      ELSE [ValuesPushed(Shrunk(fuel, frame.height), FuncType(frame.type).params)
              EXCEPT !.reachable = TRUE]

VisitReturn(t) ==
  LET asked == Acquired(t, Len(t.frames) - 1)
  IN  IF ~t.reachable THEN t
      ELSE [Emitted(DropKept(asked, DropKeepReturn(t)), <<Emit("Return", 0)>>)
              EXCEPT !.reachable = FALSE]

\* The labels that an end pins.
FramePinned(t, frame) ==
  CASE frame.kind = "Loop"  -> t
    [] frame.kind = "If"    -> PinLabel(TryPinLabel(t, frame.elseLabel), frame.label)
    [] frame.kind = "Block" -> PinLabel(t, frame.label)

\* The results are pushed even if the frame was never reachable.
FrameLeft(t, frame) ==
  ValuesPushed([IF frame.reach THEN Shrunk(t, frame.height) ELSE t EXCEPT !.frames = Front(@)],
               FuncType(frame.type).results)

VisitEnd(t) ==
  LET frame  == Last(t.frames)
      pinned == IF frame.reach THEN FramePinned(t, frame) ELSE t
  IN  IF IsRoot(t, 0) THEN FrameLeft(VisitReturn(pinned), frame)
      ELSE FuelRestarted(FrameLeft([pinned EXCEPT !.reachable = frame.reach], frame))

VisitUnreachable(t) == [Emitted(t, <<Emit("Unreachable", 0)>>) EXCEPT !.reachable = FALSE]

----------------------------------------------------------------------------
(* Branches (in reachable code, like everything below).                    *)

BranchTo(t, target) ==
  [IF target.return THEN VisitReturn(t) ELSE EmitBranch(DropKept(t, target.dk), "Br", target.label)
     EXCEPT !.reachable = FALSE]

\* Mutant: the branch itself costs nothing.
VisitBrFree(t, depth) == BranchTo(Acquired(t, depth), AcquireTarget(t, depth))
VisitBr(t, depth) ==
  BranchTo(BumpFuel(Acquired(t, depth), FuelCosts.BASE), AcquireTarget(t, depth))

\* A branch with slots to drop is jumped over.
BranchIf(t, target) ==
  LET skip  == Len(DropKeepCode(target.dk.drop, target.dk.keep)) + 2
      moved == DropKept(Emitted(t, <<BrEqz(skip)>>), target.dk)
  IN  CASE target.return      -> Emitted(moved, <<Emit("Return", 0)>>)
        [] target.dk.drop = 0 -> EmitBranch(t, "BrIfNez", target.label)
        [] OTHER              -> EmitBranch(moved, "Br", target.label)

VisitBrIf(t, depth) ==
  LET cond == TypesPopped(PopN(t, 1), 1)
  IN  FuelRestarted(BranchIf(BumpFuel(Acquired(cond, depth), FuelCosts.BASE),
                             AcquireTarget(cond, depth)))

\* One target of a br_table: a pair of opcodes in the table, and a trampoline
\* behind it when the branch has slots to drop.  s is [t, pairs, trampolines].
TargetEncoded(s, target, tableLen) ==
  LET base  == CurrentPc(s.t)
      there == Br(tableLen - Len(s.pairs) + Len(s.trampolines))
      moved == s.trampolines \o DropKeepCode(target.dk.drop, target.dk.keep)
      user  == base + IF target.dk.drop = 0 THEN Len(s.pairs) + 1 ELSE tableLen + Len(moved) + 1
      last  == IF target.return THEN Emit("Return", 0) ELSE Br(OffsetTo(s.t, target.label, user))
      noted == IF target.return THEN s.t ELSE UserAdded(s.t, target.label, user)
  IN  IF target.dk.drop = 0
        THEN [s EXCEPT !.t = noted, !.pairs = @ \o <<last, Emit("Return", 0)>>]
        ELSE [t |-> DropKeepPeak(noted, target.dk), pairs |-> s.pairs \o <<there, Emit("Return", 0)>>,
              trampolines |-> Append(moved, last)]
EncodeBrTableTarget(s, depth, tableLen) ==
  TargetEncoded([s EXCEPT !.t = Acquired(@, depth)], AcquireTarget(s.t, depth), tableLen)

TableEmitted(s, targets) ==
  [Emitted(s.t, <<Emit("BrTable", targets)>> \o s.pairs \o s.trampolines)
     EXCEPT !.reachable = FALSE]

VisitBrTable(t, depths) ==
  LET cond == TypesPopped(PopN(BumpFuel(t, FuelCosts.BASE), 1), 1)
      Step(s, depth) == EncodeBrTableTarget(s, depth, 2 * Len(depths))
  IN  TableEmitted(FoldLeft(Step, [t |-> cond, pairs |-> <<>>, trampolines |-> <<>>], depths),
                   Len(depths))

----------------------------------------------------------------------------
(* Calls.                                                                  *)

\* adjust_value_stack_for_call.
Called(t, type) ==
  LET asked == Asserted(t, Top(t, Len(type.params)) = type.params)
      taken == TypesPopped(PopN(asked, SlotsOf(type.params)), Len(type.params))
  IN  ValuesPushed(taken, type.results)

\* emit_function_call: entry 0 is the null reference and the entrypoint.
FunctionCall(op, func) ==
  LET params == FuncType(FuncTypeOf[func + 1]).params
  IN  CASE func \notin DOMAIN Intrinsics      -> <<Emit(op, func + 1)>>
        [] Intrinsics[func].kind = "Replace" -> Intrinsics[func].code
        [] Intrinsics[func].kind = "Remove"  -> Repeat(SlotsOf(params), Drop)

\* A function that is removed has nothing to return, or the emission panics.
RemoveSupported(func) ==
  func \in DOMAIN Intrinsics /\ Intrinsics[func].kind = "Remove" =>
    FuncType(FuncTypeOf[func + 1]).results = <<>>
FunctionCalled(t, func) == IF t.status = "ok" THEN Asserted(t, RemoveSupported(func)) ELSE t

VisitCall(t, func) ==
  FunctionCalled(Emitted(Called(BumpFuel(t, FuelCosts.CALL), FuncType(FuncTypeOf[func + 1])),
                         FunctionCall("CallInternal", func)),
                 func)

VisitCallIndirect(t, type, table) ==
  LET index == TypesPopped(PopN(BumpFuel(t, FuelCosts.CALL), 1), 1)
  IN  Emitted(Called(index, FuncType(type)),
              <<Emit("CallIndirect", Signature(type)), Emit("TableGet", table)>>)

\* index slots on top, the table index of an indirect call, are kept as well.
ReturnCalled(t, dk, index, code) ==
  LET asked == Asserted(t, dk.drop - t.params >= 0)
      kept  == [dk EXCEPT !.keep = @ + index]
  IN  IF ~DropKeepFits(dk) THEN Error(t)
      ELSE [Emitted(DropKept(BumpFuel(asked, FuelCosts.CALL), kept), code)
              EXCEPT !.reachable = FALSE]

VisitReturnCall(t, func) ==
  FunctionCalled(ReturnCalled(t, DropKeepReturnCall(t, FuncType(FuncTypeOf[func + 1])), 0,
                              FunctionCall("ReturnCallInternal", func)),
                 func)

VisitReturnCallIndirect(t, type, table) ==
  LET index == TypesPopped(PopN(t, 1), 1)
  IN  ReturnCalled(index, DropKeepReturnCall(index, FuncType(type)), 1,
                   <<Emit("ReturnCallIndirect", Signature(type)), Emit("TableGet", table)>>)

----------------------------------------------------------------------------
(* Values, locals and globals.                                             *)

\* What the translate_* helpers share: msh more slots while the operands are
\* replaced by the results.
Operate(t, cost, msh, from, to, code) ==
  LET asked == Asserted(BumpFuel(t, cost), Top(t, Len(from)) = from)
      taken == TypesPopped(PopN(PushN(asked, msh), SlotsOf(from)), Len(from))
  IN  Emitted(PopN(ValuesPushed(taken, to), msh), code)

VisitDrop(t) ==
  LET ty == Top(t, 1) IN Operate(t, 0, 0, ty, <<>>, Repeat(SlotsOf(ty), Drop))

SelectCode(ty) ==
  IF ty \in WideTypes THEN <<BrEqz(4), Drop, Drop, Br(3), Set(2), Set(2)>> ELSE <<Select>>

\* visit_select and visit_typed_select: the type left is the first operand's.
VisitSelect(t) ==
  LET ty == Top(t, 3)[2]
      bumped == BumpFuel(t, FuelCosts.BASE)
  IN  Emitted(TypesPopped(PopN(bumped, 1 + Slots(ty)), 2), SelectCode(ty))

\* relative_local_depth and get_expressed_depth.
LocalDepth(t, local) == SlotsOf(SubSeq(t.types, local + 1, Len(t.types)))

VisitLocalGet(t, local) ==
  LET ty == t.types[local + 1]
  IN  ValuesPushed(Emitted(BumpFuel(t, FuelCosts.BASE), Repeat(Slots(ty), Get(LocalDepth(t, local)))),
                   <<ty>>)

\* The depth is the one without the value.
VisitLocalSet(t, local) ==
  LET ty    == Top(t, 1)
      taken == TypesPopped(PopN(BumpFuel(t, FuelCosts.BASE), SlotsOf(ty)), 1)
  IN  Emitted(taken, Repeat(SlotsOf(ty), Set(LocalDepth(taken, local))))

VisitLocalTee(t, local) ==
  LET depth == LocalDepth(t, local)
      wide  == Top(t, 1)[1] \in WideTypes
  IN  IF wide
        THEN Emitted(Peak(BumpFuel(t, FuelCosts.BASE), 1),
                     <<Tee(depth - 1), Get(2), Set(depth)>>)
        ELSE Emitted(BumpFuel(t, FuelCosts.BASE), <<Tee(depth)>>)

\* A global has two words, whatever its type.
VisitGlobalGet(t, global) ==
  LET ty == GlobalTypes[global + 1]
  IN  Operate(t, FuelCosts.ENTITY, 0, <<>>, <<ty>>,
              When(ty \in WideTypes, <<Emit("GlobalGet", 2 * global + 1)>>)
              \o <<Emit("GlobalGet", 2 * global)>>)
VisitGlobalSet(t, global) ==
  LET ty == GlobalTypes[global + 1]
  IN  Operate(t, FuelCosts.ENTITY, 0, <<ty>>, <<>>,
              <<Emit("GlobalSet", 2 * global)>>
              \o When(ty \in WideTypes, <<Emit("GlobalSet", 2 * global + 1)>>))

\* visit_{i32,i64,f32,f64}_const, visit_ref_null and visit_ref_func: a wide
\* constant is its low word, then its high word.
ConstTypes == [I32Const |-> "I32", I64Const |-> "I64", F32Const |-> "F32", F64Const |-> "F64",
               RefNull |-> "FuncRef", RefFunc |-> "FuncRef"]

ConstCode(op, value) ==
  CASE ConstTypes[op] \in WideTypes -> <<Const(value % 2^W), Const(value \div 2^W)>>
    [] op = "RefFunc" -> <<Emit("RefFunc", value + 1)>>
    [] OTHER          -> <<Const(value)>>
VisitConst(t, op, value) ==
  Operate(t, FuelCosts.BASE, 0, <<>>, <<ConstTypes[op]>>, ConstCode(op, value))

----------------------------------------------------------------------------
(* translate_binary and its siblings.                                      *)

\* Operands and results of the instructions of WasmOps.
NumericType(t, op) ==
  LET ty == OperandType(op) IN
  CASE op \in Binaries   -> <<<<ty, ty>>, <<ty>>>>
    [] op \in Compares   -> <<<<ty, ty>>, <<"I32">>>>
    [] op \in Unaries    -> <<<<ty>>, <<ty>>>>
    [] op \in UnaryTests -> <<Top(t, 1), <<"I32">>>>
    [] op = "I32WrapI64" -> <<<<"I64">>, <<"I32">>>>
    [] op \in DOMAIN Conversions  -> <<<<Conversions[op][1]>>, <<Conversions[op][2]>>>>
    [] op \in DOMAIN Reinterprets -> <<<<Reinterprets[op][1]>>, <<Reinterprets[op][2]>>>>

\* visit_ref_is_null is visit_i32_eqz; no height is passed for a wrap.
TranslateNumeric(t, op) ==
  LET type == NumericType(t, op)
      name == IF op = "RefIsNull" THEN "I32Eqz" ELSE op
  IN  Operate(t, FuelCosts.BASE, HeightOf(op), type[1], type[2],
              IF op \in DOMAIN Reinterprets THEN <<>> ELSE OpcodesOf(name))

\* translate_to_snippet_call: a call that emit_snippets resolves later, or the
\* emitter in place, as a binary operator.
TranslateToSnippetCall(t, op) ==
  IF ~WithCodeSnippets
    THEN Operate(t, FuelCosts.BASE, HeightOf(op), <<"I64", "I64">>, <<"I64">>, OpcodesOf(op))
    ELSE [Operate(t, FuelCosts.BASE, 0, <<"I64", "I64">>,
                  <<IF op \in I64Compares THEN "I32" ELSE "I64">>, <<Emit("CallInternal", 0)>>)
            EXCEPT !.snippetCalls = Append(@, [loc |-> CurrentPc(t), snippet |-> op])]

TranslateMemory(t, op, offset) ==
  IF op \in DOMAIN LoadTypes
    THEN Operate(t, FuelCosts.LOAD, MemoryHeight(op), <<"I32">>, <<LoadTypes[op]>>,
                 MemoryCode(op, offset))
    ELSE Operate(t, FuelCosts.STORE, MemoryHeight(op), <<"I32", StoreTypes[op]>>, <<>>,
                 MemoryCode(op, offset))

----------------------------------------------------------------------------
(* Memory and table instructions.                                          *)

InjectFuelCheck == ConsumeFuelForBulkOps /\ WithConsumeFuel

\* Three operands, two slots above them for the checks.
Bulk(t, code) == Operate(Peak(t, 2), FuelCosts.ENTITY, 0, Top(t, 3), <<>>, code)

BulkOps == {"MemoryInit", "MemoryCopy", "MemoryFill", "TableInit", "TableCopy", "TableFill"}
BulkCode(op, imm, aux) ==
  CASE op = "MemoryInit" ->
         op_memory_init_checked(DataSections[imm][1], DataSections[imm][2], imm + 1,
                                InjectFuelCheck, ByteRate, ByteShift)
    [] op = "TableInit" ->
         op_table_init_checked(imm + 1, aux, ElemSections[imm][2], ElemSections[imm][1],
                               InjectFuelCheck, ElemRate, ElemShift)
    [] op \in {"MemoryFill", "MemoryCopy"} ->
         FillOrCopy(op, 0, InjectFuelCheck, ByteRate, ByteShift)
    [] op = "TableFill" -> FillOrCopy(op, imm, InjectFuelCheck, ElemRate, ElemShift)
    [] op = "TableCopy" -> FillOrCopy(op, <<imm, aux>>, InjectFuelCheck, ElemRate, ElemShift)

\* A segment that the module does not have is a compilation error.
VisitBulk(t, op, imm, aux) ==
  IF \/ op = "MemoryInit" /\ imm \notin DOMAIN DataSections
     \/ op = "TableInit" /\ imm \notin DOMAIN ElemSections
    THEN Error(t) ELSE Bulk(t, BulkCode(op, imm, aux))

EntityOps == {"MemorySize", "MemoryGrow", "TableSize", "TableGrow", "TableGet", "TableSet",
              "DataDrop", "ElemDrop"}
VisitEntity(t, op, imm) ==
  LET Entity(from, to, code) == Operate(t, FuelCosts.ENTITY, 0, from, to, code)
  IN  CASE op \in {"MemorySize", "TableSize"} -> Entity(<<>>, <<"I32">>, <<Emit(op, imm)>>)
        [] op \in {"DataDrop", "ElemDrop"}    -> Entity(<<>>, <<>>, <<Emit(op, imm + 1)>>)
        [] op = "TableGet" -> Entity(<<"I32">>, <<TableTypes[imm + 1]>>, <<Emit(op, imm)>>)
        [] op = "TableSet" -> Entity(Top(t, 2), <<>>, <<Emit(op, imm)>>)
        [] op = "MemoryGrow" ->
             Peak(Entity(<<"I32">>, <<"I32">>,
                         op_memory_grow_checked(MaxPages, InjectFuelCheck, PageBytes, ByteShift)), 2)
        [] op = "TableGrow" ->
             Operate(Peak(t, 2), FuelCosts.ENTITY, 0, Top(t, 2), <<"I32">>,
                     op_table_grow_checked(imm, TableMaximum[imm + 1], InjectFuelCheck,
                                           ElemRate, ElemShift))

----------------------------------------------------------------------------
(* The visitor, and the function around it (func_builder.rs).              *)

StructuredOps == {"Block", "Loop", "If", "Else", "End"}

VisitStructured(t, i) ==
  CASE i.op = "Block" -> VisitBlock(t, i.imm)
    [] i.op = "Loop"  -> VisitLoop(t, i.imm)
    [] i.op = "If"    -> VisitIf(t, i.imm)
    [] i.op = "Else"  -> VisitElse(t)
    [] i.op = "End"   -> VisitEnd(t)

VisitReachable(t, i) ==
  CASE i.op = "Nop"                -> t
    [] i.op = "Unreachable"        -> VisitUnreachable(t)
    [] i.op = "Br"                 -> VisitBr(t, i.imm)
    [] i.op = "BrIf"               -> VisitBrIf(t, i.imm)
    [] i.op = "BrTable"            -> VisitBrTable(t, BrTables[i.imm])
    [] i.op = "Return"             -> VisitReturn(t)
    [] i.op = "Call"               -> VisitCall(t, i.imm)
    [] i.op = "CallIndirect"       -> VisitCallIndirect(t, i.imm, i.aux)
    [] i.op = "ReturnCall"         -> VisitReturnCall(t, i.imm)
    [] i.op = "ReturnCallIndirect" -> VisitReturnCallIndirect(t, i.imm, i.aux)
    [] i.op = "Drop"               -> VisitDrop(t)
    [] i.op = "Select"             -> VisitSelect(t)
    [] i.op = "LocalGet"           -> VisitLocalGet(t, i.imm)
    [] i.op = "LocalSet"           -> VisitLocalSet(t, i.imm)
    [] i.op = "LocalTee"           -> VisitLocalTee(t, i.imm)
    [] i.op = "GlobalGet"          -> VisitGlobalGet(t, i.imm)
    [] i.op = "GlobalSet"          -> VisitGlobalSet(t, i.imm)
    [] i.op \in DOMAIN ConstTypes  -> VisitConst(t, i.op, i.imm)
    [] i.op \in Snippets           -> TranslateToSnippetCall(t, i.op)
    [] i.op \in BulkOps            -> VisitBulk(t, i.op, i.imm, i.aux)
    [] i.op \in EntityOps          -> VisitEntity(t, i.op, i.imm)
    [] i.op \in DOMAIN LoadTypes \cup DOMAIN StoreTypes -> TranslateMemory(t, i.op, i.imm)
    [] OTHER                       -> TranslateNumeric(t, i.op)

\* translate_if_reachable is around every visitor but the structured ones.
Translate(t, i) ==
  IF t.status # "ok" THEN t
  ELSE IF i.op \in StructuredOps THEN VisitStructured(t, i)
  ELSE IF t.reachable THEN VisitReachable(t, i) ELSE t

\* prepare, behind the code of the functions before.
Prepare(t, func) ==
  LET type  == FuncType(FuncTypeOf[func + 1])
      slots == SlotsOf(type.params)
      fuel  == IF WithConsumeFuel THEN Len(t.code) + 1 ELSE NoFuel
      fresh == [t EXCEPT !.offsets = Append(@, Len(t.code)), !.reachable = TRUE,
                         !.frames = <<Frame("Block", FuncTypeOf[func + 1], 1, 0, 0, fuel)>>,
                         !.labels = <<Unpinned>>, !.users = <<>>,
                         !.types = type.params, !.height = 0, !.maxHeight = 0, !.params = slots]
      opened == Emitted(fresh, <<Emit("SignatureCheck", Signature(FuncTypeOf[func + 1]))>>
                               \o When(WithConsumeFuel, <<Emit("ConsumeFuel", 0)>>))
  IN  IF ConsumeFuelForParamsAndLocals
        THEN LET bumped == BumpFuel(opened, FuelForLocals(slots))
             IN  Asserted(bumped, bumped.status # "error")
        ELSE opened

\* One declaration of locals: amount values of a type.
LocalsDeclared(t, group) ==
  LET types == [i \in 1 .. group.amount |-> group.type]
  IN  Emitted(ValuesPushed(t, types), <<Emit("BulkConst", SlotsOf(types))>>)

\* translate, up to the operators.  StackCheck waits for finish.
Opened(t, func, groups) ==
  LET prepared == Emitted(BumpFuel(Prepare(t, func), FuelCosts.BASE), <<Emit("StackCheck", 0)>>)
      total    == FoldFunction(LAMBDA g, n : g.amount + n, 0, groups)
      bumped   == IF ConsumeFuelForParamsAndLocals
                    THEN BumpFuel(prepared, FuelForLocals(total)) ELSE prepared
  IN  FoldLeft(LocalsDeclared, bumped, groups)

\* Mutant: the height at the end of the function.
ReservedHeightLast(t) == t.height

\* What StackCheck reserves above the parameters and locals of a function.
ReservedHeight(t) == t.maxHeight

\* finish: the users get their offsets, StackCheck the maximum height.
Finished(t) ==
  LET Patched(code, u) == [code EXCEPT ![u[2] + 1].imm = t.labels[u[1]] - u[2]]
      check == Last(t.offsets) + (IF WithConsumeFuel THEN 3 ELSE 2)
      asked == Asserted(t, \A u \in DOMAIN t.users : t.labels[t.users[u][1]] # Unpinned)
  IN  IF asked.status # "ok" THEN asked
      ELSE [t EXCEPT !.code = [FoldLeft(Patched, @, t.users) EXCEPT ![check].imm = ReservedHeight(t)]]

\* A translator before its first function.
NoTranslation ==
  [code |-> <<>>, offsets |-> <<>>, snippetCalls |-> <<>>, reachable |-> TRUE, frames |-> <<>>,
   labels |-> <<>>, users |-> <<>>, types |-> <<>>, height |-> 0, maxHeight |-> 0,
   params |-> 0, status |-> "ok"]

\* The operators of a body, until one fails.
RECURSIVE TranslateOperators(_, _)
TranslateOperators(t, operators) ==
  IF t.status # "ok" \/ operators = <<>> THEN t
  ELSE TranslateOperators(Translate(t, Head(operators)), Tail(operators))

\* Whole functions: records [func, locals, body].
TranslateFunction(t, f) == Finished(TranslateOperators(Opened(t, f.func, f.locals), f.body))
RECURSIVE TranslateFunctions(_, _)
TranslateFunctions(t, functions) ==
  IF t.status # "ok" \/ functions = <<>> THEN t
  ELSE TranslateFunctions(TranslateFunction(t, Head(functions)), Tail(functions))
=============================================================================
