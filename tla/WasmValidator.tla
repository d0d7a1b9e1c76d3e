--------------------------- MODULE WasmValidator ---------------------------
(***************************************************************************)
(* External: the validator of the wasmparser crate, as FuncBuilder uses it *)
(* (func_builder.rs: every operator is validated, then translated).  The   *)
(* typing rules are those of the Wasm specification.                       *)
(*                                                                         *)
(* v.stack holds the operand types, "Unknown" for those of unreachable     *)
(* code, v.ctrls the control frames, innermost last.                       *)
(***************************************************************************)
EXTENDS Translator

NewValidator(type, locals) ==
  [stack |-> <<>>, locals |-> type.params \o locals, valid |-> TRUE,
   ctrls |-> <<[kind |-> "Block", type |-> type, height |-> 0, dead |-> FALSE]>>]

Invalid(v) == [v EXCEPT !.valid = FALSE]
Inner(v)   == Last(v.ctrls)

\* The operands of a frame: an empty stack in unreachable code has any type.
Available(v)     == Len(v.stack) - Inner(v).height
Matches(a, b)    == a = b \/ a = "Unknown" \/ b = "Unknown"
HasTypes(v, types) ==
  LET n == Len(types)
      k == IF n <= Available(v) THEN n ELSE Available(v)
  IN  /\ k = n \/ Inner(v).dead
      /\ \A j \in 0 .. k - 1 : Matches(v.stack[Len(v.stack) - j], types[n - j])

Replaced(v, from, to) ==
  LET n == Len(from)
      k == IF n <= Available(v) THEN n ELSE Available(v)
  IN  IF v.valid /\ HasTypes(v, from)
        THEN [v EXCEPT !.stack = SubSeq(@, 1, Len(@) - k) \o to] ELSE Invalid(v)

Dead(v) == [v EXCEPT !.stack = SubSeq(@, 1, Inner(v).height),
                     !.ctrls[Len(v.ctrls)].dead = TRUE]

\* The type on top, "Unknown" if it is anyone's.
TopType(v) == IF Available(v) > 0 THEN Last(v.stack) ELSE "Unknown"

\* The types a branch to a frame takes.
LabelTypes(v, depth) ==
  LET ctrl == v.ctrls[Len(v.ctrls) - depth]
  IN  IF ctrl.kind = "Loop" THEN ctrl.type.params ELSE ctrl.type.results
HasLabel(v, depth) == depth < Len(v.ctrls)

Entered(v, kind, type) ==
  LET inside == Replaced(v, type.params, <<>>)
  IN  [inside EXCEPT !.ctrls = Append(@, [kind |-> kind, type |-> type, dead |-> FALSE,
                                          height |-> Len(inside.stack)]),
                     !.stack = @ \o type.params]

\* The results are all there is left in the frame.
Left(v) ==
  LET out == Replaced(v, Inner(v).type.results, <<>>)
  IN  IF Len(out.stack) = Inner(v).height THEN out ELSE Invalid(v)

ValidElse(v) ==
  LET out == Left(v)
  IN  IF Inner(v).kind # "If" THEN Invalid(v)
      ELSE [out EXCEPT !.ctrls[Len(v.ctrls)] = [Inner(v) EXCEPT !.kind = "Else", !.dead = FALSE],
                       !.stack = @ \o Inner(v).type.params]
ValidEnd(v) ==
  LET out == Left(v)
      type == Inner(v).type
  IN  IF Inner(v).kind = "If" /\ type.params # type.results THEN Invalid(v)
      ELSE [out EXCEPT !.ctrls = Front(@), !.stack = @ \o type.results]

ValidBr(v, depth) ==
  IF HasLabel(v, depth) THEN Dead(Replaced(v, LabelTypes(v, depth), <<>>)) ELSE Invalid(v)
ValidBrIf(v, depth) ==
  IF HasLabel(v, depth)
    THEN LET types == LabelTypes(v, depth)
         IN  Replaced(Replaced(v, <<"I32">>, <<>>), types, types)
    ELSE Invalid(v)
ValidBrTable(v, depths) ==
  LET index == Replaced(v, <<"I32">>, <<>>)
  IN  IF /\ \A d \in DOMAIN depths : HasLabel(v, depths[d])
         /\ \A d \in DOMAIN depths :
              /\ Len(LabelTypes(v, depths[d])) = Len(LabelTypes(v, Last(depths)))
              /\ HasTypes(index, LabelTypes(v, depths[d]))
        THEN Dead(index) ELSE Invalid(v)

ResultsOf(v) == v.ctrls[1].type.results

\* Both operands of a select are numbers of one type.
ValidSelect(v) ==
  LET cond == Replaced(v, <<"I32">>, <<>>)
      a    == TopType(cond)
      b    == TopType(Replaced(cond, <<a>>, <<>>))
      ty   == IF a = "Unknown" THEN b ELSE a
  IN  IF {a, b} \cap {"FuncRef", "ExternRef"} # {} THEN Invalid(v)
      ELSE Replaced(cond, <<ty, ty>>, <<ty>>)

\* Operands and results of the other instructions.
Typing(v, i) ==
  LET ty == OperandType(i.op) IN
  CASE i.op \in Binaries \cup I64Arithmetic -> [from |-> <<ty, ty>>, to |-> <<ty>>]
    [] i.op \in Compares \cup I64Compares   -> [from |-> <<ty, ty>>, to |-> <<"I32">>]
    [] i.op \in Unaries                     -> [from |-> <<ty>>, to |-> <<ty>>]
    [] i.op \in UnaryTests                  -> [from |-> <<ty>>, to |-> <<"I32">>]
    [] i.op = "I32WrapI64"                  -> [from |-> <<"I64">>, to |-> <<"I32">>]
    [] i.op \in DOMAIN Conversions ->
         [from |-> <<Conversions[i.op][1]>>, to |-> <<Conversions[i.op][2]>>]
    [] i.op \in DOMAIN Reinterprets ->
         [from |-> <<Reinterprets[i.op][1]>>, to |-> <<Reinterprets[i.op][2]>>]
    [] i.op \in DOMAIN ConstTypes -> [from |-> <<>>, to |-> <<ConstTypes[i.op]>>]
    [] i.op \in DOMAIN LoadTypes  -> [from |-> <<"I32">>, to |-> <<LoadTypes[i.op]>>]
    [] i.op \in DOMAIN StoreTypes -> [from |-> <<"I32", StoreTypes[i.op]>>, to |-> <<>>]
    [] i.op = "LocalGet"   -> [from |-> <<>>, to |-> <<v.locals[i.imm + 1]>>]
    [] i.op = "LocalSet"   -> [from |-> <<v.locals[i.imm + 1]>>, to |-> <<>>]
    [] i.op = "LocalTee"   -> [from |-> <<v.locals[i.imm + 1]>>, to |-> <<v.locals[i.imm + 1]>>]
    [] i.op = "GlobalGet"  -> [from |-> <<>>, to |-> <<GlobalTypes[i.imm + 1]>>]
    [] i.op = "GlobalSet"  -> [from |-> <<GlobalTypes[i.imm + 1]>>, to |-> <<>>]
    [] i.op \in {"MemorySize", "TableSize"} -> [from |-> <<>>, to |-> <<"I32">>]
    [] i.op = "MemoryGrow" -> [from |-> <<"I32">>, to |-> <<"I32">>]
    [] i.op = "TableGrow"  -> [from |-> <<TableTypes[i.imm + 1], "I32">>, to |-> <<"I32">>]
    [] i.op = "TableGet"   -> [from |-> <<"I32">>, to |-> <<TableTypes[i.imm + 1]>>]
    [] i.op = "TableSet"   -> [from |-> <<"I32", TableTypes[i.imm + 1]>>, to |-> <<>>]
    [] i.op = "TableFill"  -> [from |-> <<"I32", TableTypes[i.imm + 1], "I32">>, to |-> <<>>]
    [] i.op \in BulkOps    -> [from |-> <<"I32", "I32", "I32">>, to |-> <<>>]
    [] i.op \in {"DataDrop", "ElemDrop", "Nop"} -> [from |-> <<>>, to |-> <<>>]
    [] i.op = "Call" ->
         [from |-> FuncType(FuncTypeOf[i.imm + 1]).params,
          to   |-> FuncType(FuncTypeOf[i.imm + 1]).results]
    [] i.op = "CallIndirect" ->
         [from |-> Append(FuncType(i.imm).params, "I32"), to |-> FuncType(i.imm).results]

\* A tail call takes the callee's parameters and gives its caller's results.
ValidTailCall(v, type, from) ==
  IF type.results = ResultsOf(v) THEN Dead(Replaced(v, from, <<>>)) ELSE Invalid(v)

Validate(v, i) ==
  CASE v.ctrls = <<>>        -> Invalid(v)
    [] i.op = "Unreachable"  -> Dead(v)
    [] i.op = "Block"        -> Entered(v, "Block", FuncType(i.imm))
    [] i.op = "Loop"         -> Entered(v, "Loop", FuncType(i.imm))
    [] i.op = "If"           -> Entered(Replaced(v, <<"I32">>, <<>>), "If", FuncType(i.imm))
    [] i.op = "Else"         -> ValidElse(v)
    [] i.op = "End"          -> ValidEnd(v)
    [] i.op = "Br"           -> ValidBr(v, i.imm)
    [] i.op = "BrIf"         -> ValidBrIf(v, i.imm)
    [] i.op = "BrTable"      -> ValidBrTable(v, BrTables[i.imm])
    [] i.op = "Return"       -> Dead(Replaced(v, ResultsOf(v), <<>>))
    [] i.op = "ReturnCall"   ->
         LET type == FuncType(FuncTypeOf[i.imm + 1]) IN ValidTailCall(v, type, type.params)
    [] i.op = "ReturnCallIndirect" ->
         ValidTailCall(v, FuncType(i.imm), Append(FuncType(i.imm).params, "I32"))
    [] i.op = "Drop"         -> Replaced(v, <<"Unknown">>, <<>>)
    [] i.op = "Select"       -> ValidSelect(v)
    [] i.op \in {"LocalGet", "LocalSet", "LocalTee"} /\ i.imm >= Len(v.locals) -> Invalid(v)
    [] OTHER                 -> Replaced(v, Typing(v, i).from, Typing(v, i).to)
=============================================================================
