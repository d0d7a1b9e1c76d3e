----------------------------- MODULE MCCompiled -----------------------------
(***************************************************************************)
(* Compiled runs of a family of modules, with words of four bits.  They    *)
(* share their types, functions' signatures and imports: functions 0 to 2  *)
(* are imported, 3 is under test, the others are there to be called.       *)
(***************************************************************************)
EXTENDS CompiledShapes

Alu == INSTANCE I32Alu

MCWord      == Alu!Words
MCUnaryOps  == Alu!UnaryOpcodes
MCBinaryOps == Alu!BinaryOpcodes
MCWideOps   == Alu!WideOpcodes

\* The integer unit as tables, so that TLC computes each entry once.
UnaryTable  == [op \in MCUnaryOps |-> [a \in MCWord |-> Alu!Unary(op, a)]]
TrapTable   == [op \in MCBinaryOps |-> [a \in MCWord |-> [b \in MCWord |-> Alu!BinaryTrap(op, a, b)]]]
BinaryTable ==
  [op \in MCBinaryOps |-> [a \in MCWord |-> [b \in MCWord |->
     IF Alu!BinaryTrap(op, a, b) = Alu!NoTrap THEN Alu!Binary(op, a, b) ELSE 0]]]

MCUnary(op, a)     == UnaryTable[op][a]
MCBinary(op, a, b) == BinaryTable[op][a][b]
MCTrap(op, a, b)   == TrapTable[op][a][b]
MCWide(op, a, b)   == Alu!Wide(op, a, b)

----------------------------------------------------------------------------
(* What the modules have in common.                                        *)

Signature(params, results) == [params |-> params, results |-> results]
\* The last one is a duplicate of the first.
MCFuncTypes ==
  <<Signature(<<>>, <<>>), Signature(<<"I32">>, <<"I32">>), Signature(<<"I32">>, <<"I64">>),
    Signature(<<"I64">>, <<"I64">>), Signature(<<"I32", "I64">>, <<"I64">>),
    Signature(<<>>, <<"I32">>), Signature(<<>>, <<"I64">>), Signature(<<>>, <<>>)>>
\* Imports: the state, a host function with a linear and one with a quadratic price.
\* Then main, add, short, step and count.
MCFuncTypeOf    == <<5, 1, 4, 4, 4, 6, 7, 1>>
State     == 0
Linear    == 1
Quadratic == 2
Main      == 3
AddOf     == 4
Short     == 5
StepOf    == 6
Count     == 7

MCGlobalTypes   == <<"I32", "I64">>
MCTableTypes    == <<"FuncRef">>
MCTableMaximum  == <<5>>
MCBrTables      == <<<<0, 1>>, <<1, 0>>, <<2, 0, 1>>>>
MCFuelCosts     == [BASE |-> 1, CALL |-> 4, ENTITY |-> 3, LOAD |-> 2, STORE |-> 2]
MCFuelForLocals(n) == (n + 1) \div 2
Nothing == <<>>

Price(kind, base, cost, depth) ==
  [kind |-> kind, base |-> base, cost |-> cost, depth |-> depth, divisor |-> 2, rate |-> 1]
MCImports ==
  <<[sys |-> 1, fuel |-> Price("Const", 2, 0, 0)],
    [sys |-> 2, fuel |-> Price("Linear", 1, 2, 1)],
    [sys |-> 3, fuel |-> Price("Quadratic", 0, 2, 3)]>>
MCSyscalls   == 1 .. 3
MCSysParams  == <<0, 1, 3>>
MCSysResults == <<1, 1, 2>>
MCSysValues  == <<1, 1, 2>>
Answered == 5

\* rwasm-fuel-policy: words of two bytes here.
WordsOf(bytes) == (bytes + WordBytes - 1) \div WordBytes
MCHostAnswer(func, args) ==
  <<IF func = Quadratic THEN Answered + 2^W * Answered ELSE Answered>>
MCHostPrice(func, args) ==
  LET words == WordsOf(args[1]) IN
  CASE func = State     -> 2
    [] func = Linear    -> IF args[1] > FuelMaxLinear THEN -1 ELSE 1 + 2 * words
    [] func = Quadratic -> IF args[1] > FuelMaxQuadratic THEN -1 ELSE 2 * words + (words * words) \div 2

----------------------------------------------------------------------------
(* Structured code.                                                        *)

Do(op, imm)      == [op |-> op, imm |-> imm, aux |-> 0, body |-> <<>>, other |-> <<>>]
It(op)           == Do(op, 0)
Within(op, type, body)    == [Do(op, type) EXCEPT !.body = body]
Either(type, body, other) == [Within("If", type, body) EXCEPT !.other = other]

I32(n) == Do("I32Const", n)
I64(n) == Do("I64Const", n)
LGet(n) == Do("LocalGet", n)
LSet(n) == Do("LocalSet", n)
Drops(n) == [i \in 1 .. n |-> It("Drop")]

\* The functions main may call.  main has an I64 and an I32 of its own.
Locals == <<<<"I64", "I32">>, <<>>, <<"I32">>, <<>>, <<"I32">>>>
AddBody   == <<LGet(1), LGet(0), It("I64ExtendI32U"), It("I64Add")>>
ShortBody == <<I64(77)>>
StepBody  == <<Do("GlobalGet", 0), I32(1), It("I32Add"), Do("GlobalSet", 0)>>
CountBody ==
  <<Within("Block", 0,
      <<Within("Loop", 0,
          <<LGet(0), It("I32Eqz"), Do("BrIf", 1), LGet(0), I32(1), It("I32Sub"), LSet(0),
            LGet(1), I32(2), It("I32Add"), LSet(1), Do("Br", 0)>>)>>),
    LGet(1)>>

Module(main) ==
  [bodies |-> <<main, AddBody, ShortBody, StepBody, CountBody>>, locals |-> Locals,
   globals |-> <<3, 200>>, start |-> NoFunc, entry |-> Main, router |-> NoRouter,
   elements |-> <<AddOf, -1, Linear, Short>>]

----------------------------------------------------------------------------
(* A family of main functions: a block of every shape with a branch of     *)
(* every kind, over values that the branch has to drop.  A member is       *)
(* <<kind, type, under, above, way>>, indices of the choices below.        *)

\* Operands under the block, and values above its parameters at the branch.
Under == <<<<>>, <<I64(90)>>>>
Above == <<<<>>, <<I32(9)>>, <<I64(100)>>, <<I64(100), I32(9)>>>>
ParamsOf(type) == [i \in DOMAIN MCFuncTypes[type + 1].params |-> LGet(i - 1)]
Condition == <<LGet(0), I32(1), It("I32Eq")>>

\* The branch with its arguments, and how many values it leaves if it is not taken.
Way(code, left) == [code |-> code, left |-> left]
Result(type, n) == IF type = 0 THEN <<>> ELSE <<I64(n)>>
Ways(type) ==
  <<Way(<<>>, 0), Way(Result(type, 44) \o <<Do("Br", 0)>>, 0), Way(<<I64(55), Do("Br", 1)>>, 0),
    Way(Result(type, 44) \o Condition \o <<Do("BrIf", 0)>>, Len(Result(type, 44))),
    Way(<<I64(55)>> \o Condition \o <<Do("BrIf", 1)>>, 1),
    Way(<<I64(66), It("Return")>>, 0), Way(<<It("Unreachable")>>, 0),
    Way(<<I32(7), I64(8), Do("ReturnCall", AddOf)>>, 0),
    Way(<<Do("ReturnCall", Short)>>, 0),
    Way(<<I32(7), I64(8), LGet(0), Do("ReturnCallIndirect", 4)>>, 0),
    Way(<<I64(44), LGet(0), Do("BrTable", 1)>>, 0)>>

Inside(type, above, way) ==
  Above[above] \o Ways(type)[way].code
  \o Drops(Ways(type)[way].left + Len(Above[above]) + Len(ParamsOf(type))) \o Result(type, 33)
Otherwise(type) == Drops(Len(ParamsOf(type))) \o Result(type, 22)

Construct(kind, type, inside) ==
  IF kind = "If" THEN <<LGet(0), Either(type, inside, Otherwise(type))>>
                 ELSE <<Within("Block", type, inside)>>
Branching(shape) ==
  LET type == shape[2] IN
  Under[shape[3]] \o ParamsOf(type)
  \o Construct(shape[1], type, Inside(type, shape[4], shape[5]))
  \o (IF type = 0 THEN <<LGet(1)>> ELSE <<>>)
  \o (IF shape[3] = 1 THEN <<>> ELSE <<LSet(2), It("Drop"), LGet(2)>>)

\* A table needs labels of one type.
\* A member calls no function behind short.
Branches(shape) ==
  [Module(Branching(shape)) EXCEPT !.bodies = SubSeq(@, 1, 3), !.locals = SubSeq(@, 1, 3)]

\* The last way needs a value for its branch.
WaysOf(type) == {way \in 1 .. 11 : type = 4 \/ way # 11}
Members(kind, type, under, above) ==
  {<<kind, type>> \o values \o <<way>> : values \in under \X above, way \in WaysOf(type)}
\* A block over every combination of values; an if, which is left the same way, over a
\* value, with as many values as there may be and with none.
Family ==
  UNION {Members("Block", type, DOMAIN Under, DOMAIN Above) \cup Members("If", type, {2}, {1, 4}) :
           type \in {0, 4}}

----------------------------------------------------------------------------
(* Modules of their own.                                                   *)

\* A loop with parameters, left and continued from above values to drop.
Looping ==
  <<LGet(0), LGet(1),
    Within("Loop", 4,
      <<LSet(2), I32(1), It("I32ShrU"), LSet(0), I64(5), LGet(0), LGet(2), I64(3), It("I64Add"),
        LGet(0), Do("BrIf", 0), It("Return")>>)>>

\* Nested blocks and a table with three ways out, two of them over values.
Switching ==
  <<Within("Block", 6,
      <<I32(2),
        Within("Block", 6, <<I64(6), I64(10), LGet(0), Do("BrTable", 3)>>),
        LSet(2), It("Drop"), LGet(2), I64(1), It("I64Add")>>)>>

\* Direct, indirect and host calls; a table entry that is an import.  The largest
\* parameter makes the price of the first host call overflow.
Calling ==
  <<LGet(0), Do("Call", Count), Do("LocalTee", 3), LGet(1), Do("Call", AddOf), LSet(2),
    LGet(3), Do("Call", Linear), LGet(2), Do("Call", Quadratic), LGet(2), It("I64Add"), LSet(2),
    LGet(0), I32(2), Do("CallIndirect", 1), LGet(2), Do("Call", AddOf)>>
\* The table's second entry is null, its last has another type; there is no fifth.
Choosing == <<LGet(0), LGet(1), LGet(0), Do("CallIndirect", 4)>>
Missing  == <<LGet(0), LGet(1), I32(4), Do("CallIndirect", 4)>>

\* Wide and narrow selects and tees, a comparison, and an i64 product and difference.
Selecting ==
  <<LGet(1), I64(17), LGet(0), It("Select"), Do("LocalTee", 2), LGet(2), It("I64LtS"),
    I32(3), LGet(0), Do("LocalTee", 3), LGet(3), It("Select"), It("I32Add"),
    It("I64ExtendI32U"), LGet(2), It("I64Mul"), LGet(2), It("I64Sub")>>

\* Calls itself once for every unit of its first parameter, then divides by zero.
Recursing ==
  <<LGet(0), Either(6, <<LGet(0), I32(1), It("I32Sub"), LGet(1), Do("Call", Main)>>,
                    <<Do("GlobalGet", 1), I32(1), LGet(0), It("I32DivU"), It("Drop")>>)>>
Repeating ==
  <<LGet(0), Either(6, <<LGet(0), I32(1), It("I32Sub"), LGet(1), I64(1), It("I64Add"),
                         Do("ReturnCall", Main)>>,
                    <<LGet(1), Do("GlobalSet", 1), Do("GlobalGet", 1)>>)>>

\* The start function runs before any call.
Starting == [Module(<<Do("GlobalGet", 1)>>) EXCEPT !.start = StepOf]
StartTraps == [Module(<<LGet(1)>>) EXCEPT !.start = StepOf, !.bodies[4] = <<It("Unreachable")>>]

\* Two states, given by the host on top of the parameters, or asked for.
States == <<[value |-> 5, func |-> StepOf], [value |-> 1, func |-> StepOf]>>
Routed(opcode, states) ==
  [Module(<<LGet(1)>>) EXCEPT !.entry = NoFunc, !.router = [opcode |-> opcode, states |-> states]]

Named ==
  [looping |-> Module(Looping), switching |-> Module(Switching), calling |-> Module(Calling),
   choosing |-> Module(Choosing), missing |-> Module(Missing), selecting |-> Module(Selecting),
   recursing |-> Module(Recursing), repeating |-> Module(Repeating),
   starting |-> Starting, startTraps |-> StartTraps,
   router |-> Routed(NoOpcode, States), asking |-> Routed(Operator("Call", 1, 0), States)]

OfTheirOwn == {<<name, 0, 0, 0, 0>> : name \in DOMAIN Named}
MCModules  == Family \cup OfTheirOwn
MCSources  ==
  LET sources == [m \in MCModules |-> IF m \in Family THEN Branches(m) ELSE Named[m[1]]]
  IN  sources

\* Parameters in slots: an I32, an I64.  A router that has no opcode takes the state.
MCParams(source) ==
  IF source.entry # NoFunc THEN {<<i, 5, 2>> : i \in {0, 1, 3}}
  ELSE IF source.router.opcode = NoOpcode THEN {<<s>> : s \in {1, 2, 5}} ELSE {<<>>}
MCParamSets == LET sets == [m \in MCModules |-> MCParams(MCSources[m])] IN sets
MCGlobals   == 0 .. 3

\* A module whose main function is as high as its frame when it calls a priced import.
FullModules == {"full"}
FullSources ==
  LET sources == [m \in FullModules |-> Module(<<LGet(0), LGet(1), Do("Call", Quadratic)>>)]
  IN  sources
FullParamSets == [m \in FullModules |-> {<<1, 5, 2>>}]
=============================================================================
