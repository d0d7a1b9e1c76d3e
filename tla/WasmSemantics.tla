--------------------------- MODULE WasmSemantics ---------------------------
(***************************************************************************)
(* What a Wasm module means: a small interpreter of structured code, after *)
(* the Wasm specification, to compare compiled code with.  It also counts  *)
(* the fuel that the operators it executes cost by the compiler's prices.  *)
(*                                                                         *)
(* An operator is [op, imm, aux, body, other]: blocks hold their operators *)
(* in body, an if its else branch in other.  A value is a natural number   *)
(* below 2^W or, of a wide type, 2^(2W).  The state s of an evaluation has *)
(* the operand stack, locals, globals, the fuel spent, and what to do next *)
(* (s.go: "next", "br" out of s.depth blocks, "return", "trap").           *)
(***************************************************************************)
EXTENDS Integers, Sequences

CONSTANTS
  W, FuncTypes, FuncTypeOf, BrTables, FuelCosts, FuelForLocals(_),
  WithConsumeFuel, ConsumeFuelForParamsAndLocals,
  ImportedFuncs,         \* the number of imported functions
  HostAnswer(_, _),      \* what the host returns for an import and its arguments
  HostPrice(_, _)        \* and the fuel it costs, or -1 if it is too much to count

Narrow == INSTANCE I32Alu
Long   == INSTANCE I32Alu WITH W <- 2 * W

Type(func)   == FuncTypes[FuncTypeOf[func + 1] + 1]
Arity(types) == Len(types)
WideTypes    == {"I64", "F64"}
Slots(types) == Len(types) + Len(SelectSeq(types, LAMBDA ty : ty \in WideTypes))

\* The last n values, and the stack below them.
Args(s, n)  == SubSeq(s.stack, Len(s.stack) - n + 1, Len(s.stack))
Below(s, n) == SubSeq(s.stack, 1, Len(s.stack) - n)
Arg(s, i)   == s.stack[Len(s.stack) - i]
With(s, n, results) == [s EXCEPT !.stack = Below(s, n) \o results]

Halted(s, trap) == [s EXCEPT !.go = "trap", !.trap = trap]
Branch(s, depth) == [s EXCEPT !.go = "br", !.depth = depth]

LongBinary == [I64Add |-> "I32Add", I64Sub |-> "I32Sub", I64Mul |-> "I32Mul",
               I64LtS |-> "I32LtS", I64Eq |-> "I32Eq", I64DivU |-> "I32DivU"]

BinaryOf(s, op) ==
  LET a == Arg(s, 1)
      b == Arg(s, 0)
      trap   == IF op \in DOMAIN LongBinary THEN Long!BinaryTrap(LongBinary[op], a, b)
                                            ELSE Narrow!BinaryTrap(op, a, b)
      result == IF op \in DOMAIN LongBinary THEN Long!Binary(LongBinary[op], a, b)
                                            ELSE Narrow!Binary(op, a, b)
  IN  IF trap # "none" THEN Halted(s, trap) ELSE With(s, 2, <<result>>)

\* The price of an operator by itself.
Price(i) ==
  CASE i.op \in {"Block", "Loop", "Nop", "Unreachable", "Return", "Drop"}         -> 0
    [] i.op \in {"Call", "CallIndirect", "ReturnCall", "ReturnCallIndirect"} -> FuelCosts.CALL
    [] i.op \in {"GlobalGet", "GlobalSet"} -> FuelCosts.ENTITY
    [] OTHER -> FuelCosts.BASE
LocalsPrice(n)  == IF ConsumeFuelForParamsAndLocals THEN FuelForLocals(n) ELSE 0
Paid(s, amount) == IF WithConsumeFuel THEN [s EXCEPT !.fuel = @ + amount] ELSE s

\* The operators that neither branch nor call.
Plain(s, i) ==
  CASE i.op = "Nop"         -> s
    [] i.op = "Unreachable" -> Halted(s, "UnreachableCodeReached")
    [] i.op = "Drop"        -> With(s, 1, <<>>)
    [] i.op = "Select"      -> With(s, 3, <<IF Arg(s, 0) # 0 THEN Arg(s, 2) ELSE Arg(s, 1)>>)
    [] i.op \in {"I32Const", "I64Const"} -> With(s, 0, <<i.imm>>)
    [] i.op = "LocalGet"    -> With(s, 0, <<s.locals[i.imm + 1]>>)
    [] i.op = "LocalSet"    -> [With(s, 1, <<>>) EXCEPT !.locals[i.imm + 1] = Arg(s, 0)]
    [] i.op = "LocalTee"    -> [s EXCEPT !.locals[i.imm + 1] = Arg(s, 0)]
    [] i.op = "GlobalGet"   -> With(s, 0, <<s.globals[i.imm + 1]>>)
    [] i.op = "GlobalSet"   -> [With(s, 1, <<>>) EXCEPT !.globals[i.imm + 1] = Arg(s, 0)]
    [] i.op = "I32Eqz"      -> With(s, 1, <<IF Arg(s, 0) = 0 THEN 1 ELSE 0>>)
    [] i.op = "I32WrapI64"  -> With(s, 1, <<Arg(s, 0) % 2^W>>)
    [] i.op = "I64ExtendI32U" -> s
    [] OTHER                -> BinaryOf(s, i.op)
Control == {"Block", "Loop", "If", "Br", "BrIf", "BrTable", "Return",
            "Call", "CallIndirect", "ReturnCall", "ReturnCallIndirect"}

----------------------------------------------------------------------------
RECURSIVE Run(_, _, _), Step(_, _, _), Iterate(_, _, _), Invoke(_, _, _)

\* m is the module: bodies and locals (all zero) of its functions, its table.
Run(m, s, code) ==
  IF s.go # "next" \/ code = <<>> THEN s ELSE Run(m, Step(m, s, Head(code)), Tail(code))

\* Leave a block that was entered with the stack base: the branch's values are kept.
Leave(s, base, arity) ==
  CASE s.go = "br" /\ s.depth = 0 -> [s EXCEPT !.go = "next", !.stack = base \o Args(s, arity)]
    [] s.go = "br"                -> [s EXCEPT !.depth = @ - 1]
    [] OTHER                      -> s

\* A branch to a loop starts it again with its parameters.
Iterate(m, s, i) ==
  LET type == FuncTypes[i.imm + 1]
      base == Below(s, Arity(type.params))
      once == Run(m, s, i.body)
  IN  IF once.go = "br" /\ once.depth = 0
        THEN Iterate(m, [once EXCEPT !.go = "next", !.stack = base \o Args(once, Arity(type.params))], i)
        ELSE Leave(once, base, 0)

\* The function on top of its arguments: the stack after it, or its trap.
Invoke(m, s, func) ==
  LET type   == Type(func)
      args   == Args(s, Arity(type.params))
      body   == func - ImportedFuncs + 1
      opened == Paid(s, LocalsPrice(Slots(type.params))
                        + IF func < ImportedFuncs THEN 0
                          ELSE FuelCosts.BASE + LocalsPrice(Len(m.locals[body])))
      inside == [opened EXCEPT !.stack = <<>>, !.locals = args \o m.locals[body]]
      left   == Run(m, inside, m.bodies[body])
      result == [left EXCEPT !.stack = Below(s, Len(args)) \o Args(left, Arity(type.results)),
                             !.locals = s.locals, !.go = "next"]
  IN  IF func < ImportedFuncs
        THEN IF HostPrice(func, args) = -1 THEN Halted(opened, "IntegerOverflow")
             ELSE [With(opened, Len(args), HostAnswer(func, args))
                     EXCEPT !.fuel = @ + HostPrice(func, args)]
      ELSE IF left.go = "trap" THEN left ELSE result

\* The function a table entry stands for, 0 is null.
Indirect(m, s, type) ==
  LET index == Arg(s, 0)
      entry == m.table[index + 1]
  IN  CASE index >= Len(m.table) -> Halted(s, "TableOutOfBounds")
        [] entry = 0             -> Halted(s, "IndirectCallToNull")
        [] Type(entry - 1) # FuncTypes[type + 1] -> Halted(s, "BadSignature")
        [] OTHER                 -> Invoke(m, With(s, 1, <<>>), entry - 1)

Returned(s) == IF s.go = "next" THEN [s EXCEPT !.go = "return"] ELSE s

Structured(m, s, i) ==
  CASE i.op = "Block" ->
         LET type == FuncTypes[i.imm + 1]
         IN  Leave(Run(m, s, i.body), Below(s, Arity(type.params)), Arity(type.results))
    [] i.op = "Loop" -> Iterate(m, s, i)
    [] i.op = "If" ->
         LET type  == FuncTypes[i.imm + 1]
             taken == With(s, 1, <<>>)
         IN  Leave(Run(m, taken, IF Arg(s, 0) # 0 THEN i.body ELSE i.other),
                   Below(taken, Arity(type.params)), Arity(type.results))
    [] i.op = "Br"      -> Branch(s, i.imm)
    [] i.op = "BrIf"    -> IF Arg(s, 0) # 0 THEN Branch(With(s, 1, <<>>), i.imm) ELSE With(s, 1, <<>>)
    [] i.op = "BrTable" ->
         LET depths == BrTables[i.imm]
             k      == IF Arg(s, 0) < Len(depths) - 1 THEN Arg(s, 0) + 1 ELSE Len(depths)
         IN  Branch(With(s, 1, <<>>), depths[k])
    [] i.op = "Return"             -> Returned(s)
    [] i.op = "Call"               -> Invoke(m, s, i.imm)
    [] i.op = "CallIndirect"       -> Indirect(m, s, i.imm)
    [] i.op = "ReturnCall"         -> Returned(Invoke(m, s, i.imm))
    [] i.op = "ReturnCallIndirect" -> Returned(Indirect(m, s, i.imm))

Step(m, s, i) ==
  IF i.op \in Control THEN Structured(m, Paid(s, Price(i)), i) ELSE Plain(Paid(s, Price(i)), i)

\* A call from outside: [trap, results, globals, fuel].
Evaluate(m, func, args, globals) ==
  LET end == Invoke(m, [stack |-> args, locals |-> <<>>, globals |-> globals, fuel |-> 0,
                        go |-> "next", depth |-> 0, trap |-> "none"], func)
  IN  [trap |-> end.trap, results |-> IF end.trap = "none" THEN end.stack ELSE <<>>,
       globals |-> end.globals, fuel |-> end.fuel]

\* Nothing happens.
Idle(globals) == [trap |-> "none", results |-> <<>>, globals |-> globals, fuel |-> 0]
=============================================================================
