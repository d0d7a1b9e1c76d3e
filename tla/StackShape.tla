----------------------------- MODULE StackShape -----------------------------
(***************************************************************************)
(* What the interpreter's opcodes do to the height of the value stack, and *)
(* what follows for compiled code: the interpreter checks neither pops nor *)
(* pushes, so the translator's arithmetic has to be right on every path.   *)
(***************************************************************************)
EXTENDS WasmValidator

Effect(need, pops, pushes) == [need |-> need, pops |-> pops, pushes |-> pushes]
Moves(pops, pushes) == Effect(pops, pops, pushes)

\* executor/stack.rs, system.rs and control_flow.rs.
StackEffect(c) ==
  CASE c.op = "LocalGet"  -> Effect(c.imm, 0, 1)
    [] c.op = "LocalSet"  -> Effect(c.imm + 1, 1, 0)
    [] c.op = "LocalTee"  -> Effect(c.imm, 0, 0)
    [] c.op = "BulkConst" -> Moves(0, c.imm)
    [] c.op = "BulkDrop"  -> Moves(c.imm, 0)
    [] c.op = "Select"    -> Moves(3, 1)
    [] c.op \in {"I32Const", "RefFunc", "GlobalGet"} -> Moves(0, 1)
    [] c.op \in {"Drop", "GlobalSet", "ConsumeFuelStack", "BrIfEqz", "BrIfNez", "BrTable"} ->
         Moves(1, 0)
    [] c.op \in {"ConsumeFuel", "StackCheck", "SignatureCheck", "Br", "Return", "Unreachable",
                 "Trap"} -> Moves(0, 0)
StackOps == {"LocalGet", "LocalSet", "LocalTee", "BulkConst", "BulkDrop", "Select", "I32Const",
             "RefFunc", "GlobalGet", "Drop", "GlobalSet", "ConsumeFuelStack", "BrIfEqz", "BrIfNez",
             "BrTable", "ConsumeFuel", "StackCheck", "SignatureCheck", "Br", "Return",
             "Unreachable", "Trap"}

\* executor/memory.rs and table.rs.
HeapEffect(op) ==
  CASE op \in {"MemorySize", "TableSize"} -> Moves(0, 1)
    [] op \in {"MemoryGrow", "TableGet"}  -> Moves(1, 1)
    [] op = "TableGrow"                   -> Moves(2, 1)
    [] op = "TableSet"                    -> Moves(2, 0)
    [] op \in {"DataDrop", "ElemDrop"}    -> Moves(0, 0)
    [] op \in BulkOps                     -> Moves(3, 0)
    [] op \in DOMAIN LoadTypes            -> Moves(1, Slots(LoadTypes[op]))
    [] op \in DOMAIN StoreTypes           -> Moves(1 + Slots(StoreTypes[op]), 0)
HeapOps == EntityOps \cup BulkOps \cup DOMAIN LoadTypes \cup DOMAIN StoreTypes

\* executor/alu.rs and fpu.rs: an f64 is two slots, low word first.
NumericEffect(op) ==
  CASE op \in {"I32Add64", "I32Mul64"} -> Moves(2, 2)
    [] op \in DOMAIN Conversions ->
         Moves(Slots(Conversions[op][1]), Slots(Conversions[op][2]))
    [] op \in Binaries   -> Moves(2 * Slots(OperandType(op)), Slots(OperandType(op)))
    [] op \in Compares   -> Moves(2 * Slots(OperandType(op)), 1)
    [] op \in Unaries    -> Moves(Slots(OperandType(op)), Slots(OperandType(op)))
    [] op \in UnaryTests -> Moves(1, 1)

\* A call leaves the callee's results for its parameters; a tail call ends here.
CallEffect(type, index) == Moves(SlotsOf(type.params) + index, SlotsOf(type.results))
SnippetType(op) == [params  |-> <<"I64", "I64">>,
                    results |-> <<IF op \in I64Compares THEN "I32" ELSE "I64">>]

\* The effect of the opcode at pc.  Entry 0 is a snippet that is not placed yet.
EffectAt(t, pc) ==
  LET c == t.code[pc + 1] IN
  CASE c.op \in {"CallInternal", "ReturnCallInternal"} ->
         IF c.imm # 0 THEN CallEffect(FuncType(FuncTypeOf[c.imm]), 0)
         ELSE LET call == CHOOSE s \in DOMAIN t.snippetCalls : t.snippetCalls[s].loc = pc
              IN  CallEffect(SnippetType(t.snippetCalls[call].snippet), 0)
    [] c.op \in {"CallIndirect", "ReturnCallIndirect"} -> CallEffect(FuncType(c.imm), 1)
    [] c.op \in StackOps -> StackEffect(c)
    [] c.op \in HeapOps  -> HeapEffect(c.op)
    [] OTHER             -> NumericEffect(c.op)

\* Where the interpreter goes from pc inside a function.
Successors(t, pc) ==
  LET c == t.code[pc + 1] IN
  CASE c.op \in {"Return", "Unreachable", "Trap", "ReturnCallInternal", "ReturnCallIndirect"} -> {}
    [] c.op = "Br"                         -> {pc + c.imm}
    [] c.op \in {"BrIfEqz", "BrIfNez"}     -> {pc + 1, pc + c.imm}
    [] c.op = "BrTable"                    -> {pc + 1 + 2 * k : k \in 0 .. c.imm - 1}
    [] c.op \in {"CallIndirect", "TableInit"} -> {pc + 2}    \* the payload is not executed
    [] OTHER                               -> {pc + 1}

\* The function translated last.
First(t)    == Last(t.offsets)
InFunc(t, pc) == pc \in First(t) .. Len(t.code) - 1

\* The <<pc, height>> the interpreter can be in, from a pc and a height.
Flow(t, pc, height) ==
  LET After(p) == IF ~InFunc(t, p[1]) THEN {}
                  ELSE LET e == EffectAt(t, p[1])
                       IN  {<<q, p[2] - e.pops + e.pushes>> : q \in Successors(t, p[1])}
      Spread[n \in 0 .. Len(t.code)] ==
        IF n = 0 THEN [seen |-> {<<pc, height>>}, new |-> {<<pc, height>>}]
        ELSE LET prev == Spread[n - 1]
                 next == UNION {After(p) : p \in prev.new} \ prev.seen
             IN  IF prev.new = {} THEN prev ELSE [seen |-> prev.seen \cup next, new |-> next]
  IN  Spread[Len(t.code)].seen

\* All of them, from the function's entry.
FunctionFlow(t) == Flow(t, First(t), t.params)

\* Slots the function may use: its parameters and what its StackCheck reserves.
Reserve(t) == t.params + t.code[First(t) + (IF WithConsumeFuel THEN 3 ELSE 2)].imm

\* The height at which a function hands over: its results, or the callee's parameters.
HandsOver(t, pc, height, results) ==
  LET c == t.code[pc + 1] IN
  /\ c.op = "Return" => height = SlotsOf(results)
  /\ c.op \in {"ReturnCallInternal", "ReturnCallIndirect"} => height = EffectAt(t, pc).pops

SoundAt(t, p, results) ==
  /\ InFunc(t, p[1])
  /\ LET e == EffectAt(t, p[1]) IN e.need <= p[2] /\ e.pops <= p[2]
  /\ HandsOver(t, p[1], p[2], results)

FlowSound(t, flow, results) ==
  /\ \A p \in flow : SoundAt(t, p, results)
  /\ Cardinality({p[1] : p \in flow}) = Cardinality(flow)    \* one height for each pc

FlowCovered(t, flow) ==
  \A p \in flow : InFunc(t, p[1]) =>
    LET e == EffectAt(t, p[1]) IN p[2] - e.pops + e.pushes <= Reserve(t)

\* pc can come back to itself without paying for it.
FreeCycle(t, pc) ==
  LET Free(q) == ~(t.code[q + 1].op = "ConsumeFuel" /\ t.code[q + 1].imm > 0)
      Spread[n \in 0 .. Len(t.code)] ==
        IF n = 0 THEN [seen |-> Successors(t, pc), new |-> Successors(t, pc)]
        ELSE LET prev == Spread[n - 1]
                 next == UNION {Successors(t, q) : q \in {r \in prev.new : Free(r)}} \ prev.seen
             IN  IF prev.new = {} THEN prev ELSE [seen |-> prev.seen \cup next, new |-> next]
  IN  Free(pc) /\ pc \in Spread[Len(t.code)].seen
\* The opcodes that jump back.
BackEdges(t) == {pc \in First(t) .. Len(t.code) - 1 : \E q \in Successors(t, pc) : q <= pc}
=============================================================================
