----------------------------- MODULE Programs -----------------------------
(***************************************************************************)
(* Programs for MCExecutor and MCEngine, as the compiler emits them:        *)
(* an entrypoint at 0, the jump to the main function at source_pc, then    *)
(* functions that open with SignatureCheck, ConsumeFuel and StackCheck.    *)
(***************************************************************************)
EXTENDS Sequences, Integers, TLC

Do(op, imm) == [op |-> op, imm |-> imm]
It(op)      == Do(op, 0)

Prologue(sig, fuel, height) ==
  <<Do("SignatureCheck", sig), Do("ConsumeFuel", fuel), Do("StackCheck", height)>>

\* Syscall 1 maps a word to a word, 2 returns an i64 (one value, two slots), 3 has
\* no results, 4 takes three words.
Syscalls   == 1 .. 4
ProgSysParams  == <<1, 0, 0, 3>>
ProgSysResults == <<1, 2, 0, 0>>
ProgSysValues  == <<1, 1, 0, 3>>

\* A main function that asks the host for a word and calls through a table by its
\* parameter; a callee with a br_table; a tail call through the table.
Dispatch ==
  <<Do("StackCheck", 5), Do("I32Const", 1), Do("GlobalSet", 0), It("Return"),
    Do("ReturnCallInternal", 5)>>
  \o Prologue(0, 2, 2) \o                                                   \* 5: main
  <<Do("LocalGet", 1), Do("Call", 1), Do("LocalGet", 2),
    Do("CallIndirect", 1), Do("TableGet", 0), Do("LocalSet", 1), It("Return")>>
  \o Prologue(1, 1, 3) \o                                                   \* 15: callee
  <<Do("LocalGet", 1), Do("BrTable", 3),
    Do("Br", 6), It("Return"), Do("Br", 9), It("Return"), Do("Br", 17), It("Return"),
    Do("LocalGet", 1), Do("GlobalGet", 0), It("I32DivU"), Do("LocalSet", 1), It("Return"),
    Do("LocalGet", 1), Do("LocalGet", 1), It("I32Mul64"), It("Drop"), Do("I32Const", 0),
    It("I32Eqz"), Do("LocalGet", 3), It("Select"), Do("LocalSet", 1), It("Return"),
    It("Unreachable")>>
  \o Prologue(1, 1, 1) \o                                                   \* 42: tail
  <<Do("I32Const", 0), Do("ReturnCallIndirect", 1), Do("TableGet", 0)>>
  \o Prologue(2, 1, 0) \o                                                   \* 48: other type
  <<It("Return")>>

\* Counts its parameter down; the loop header meters every iteration.
Countdown ==
  <<Do("StackCheck", 5), It("Return"), Do("ReturnCallInternal", 3)>>
  \o Prologue(0, 1, 2) \o
  <<Do("ConsumeFuel", 1), Do("LocalGet", 1), Do("I32Const", 1), It("I32Sub"),
    Do("LocalTee", 2), Do("BrIfNez", -5), Do("BulkDrop", 1), It("Return")>>

\* An endless loop through a br_table whose one target ends the code.
Spin ==
  <<Do("StackCheck", 5), It("Return"), Do("ReturnCallInternal", 3)>>
  \o Prologue(0, 1, 1) \o
  <<Do("ConsumeFuel", 1), Do("I32Const", 3), Do("BrTable", 1), Do("Br", -3), It("Return")>>

\* Calls itself as many times as its parameter says, then the host; not metered.
Recursion ==
  <<Do("StackCheck", 5), It("Return"), Do("ReturnCallInternal", 3),
    Do("SignatureCheck", 0), Do("StackCheck", 2),
    Do("LocalGet", 1), Do("BrIfEqz", 7), Do("LocalGet", 1), Do("I32Const", 1), It("I32Sub"),
    Do("CallInternal", 3), Do("BulkDrop", 1), It("Return"),
    Do("Call", 3), Do("BulkDrop", 1), It("Return")>>

\* Locals, an i64 from the host, fuel charged from the stack, a trapping path.
Wide ==
  <<Do("StackCheck", 5), Do("Call", 3), It("Return"), Do("ReturnCallInternal", 4)>>
  \o Prologue(0, 1, 4) \o
  <<Do("BulkConst", 2), Do("Call", 2), It("I32Add64"), Do("LocalSet", 2), It("ConsumeFuelStack"),
    Do("ReturnCall", 3), Do("LocalGet", 1), Do("BrIfEqz", 2), Do("Trap", "IntegerOverflow"),
    Do("BulkDrop", 2), It("Return")>>

\* Indirect recursion: the callee calls itself through the table.
IndirectRecursion ==
  <<Do("StackCheck", 5), It("Return"), Do("ReturnCallInternal", 3)>>
  \o Prologue(1, 1, 1) \o
  <<Do("I32Const", 0), Do("CallIndirect", 1), Do("TableGet", 0), It("Return")>>

\* At the stack limit: one more frame does not fit, and neither does a syscall
\* whose arguments are already on the stack.
Limit ==
  <<Do("StackCheck", 5), It("Return"), Do("ReturnCallInternal", 3)>>
  \o Prologue(0, 1, 6) \o
  <<Do("BulkConst", 3), Do("LocalGet", 4), Do("BrIfEqz", 5),
    Do("LocalGet", 4), Do("CallInternal", 3), Do("BulkDrop", 4), It("Return"),
    Do("BulkConst", 3), Do("Call", 4), Do("BulkDrop", 4), It("Return")>>

ProgCode ==
  [dispatch |-> Dispatch, countdown |-> Countdown, spin |-> Spin, recursion |-> Recursion,
   wide |-> Wide, indirect |-> IndirectRecursion, limit |-> Limit]

ProgSourcePc == [dispatch |-> 4, countdown |-> 2, spin |-> 2, recursion |-> 2, wide |-> 3,
               indirect |-> 2, limit |-> 2]

NoTable == 0 :> <<>>
ProgTableElems ==
  [dispatch |-> 0 :> <<15, 48, 0, 42>>, countdown |-> NoTable, spin |-> NoTable,
   recursion |-> NoTable, wide |-> NoTable, indirect |-> 0 :> <<3>>, limit |-> NoTable]

Each(S) == {<<w>> : w \in S}
\* The last parameter list of "limit" is longer than the value stack of the runs (7).
ProgParamSets ==
  [dispatch |-> Each({0, 1, 2, 3, 15}), countdown |-> Each({1, 3, 15}), spin |-> {<<>>},
   recursion |-> Each({0, 2, 15}), wide |-> {<<>>}, indirect |-> {<<>>},
   limit |-> Each({0, 1}) \cup {[i \in 1 .. 8 |-> 0]}]

ProgResultLen == [dispatch |-> 1, countdown |-> 0, spin |-> 0, recursion |-> 0, wide |-> 0,
                indirect |-> 0, limit |-> 0]

\* The slots of every signature.
Signature(params, results) == [params |-> params, results |-> results]
Unary == Signature(1, 1)
ProgSignatures ==
  [dispatch |-> 0 :> Unary @@ 1 :> Unary @@ 2 :> Signature(0, 0),
   countdown |-> 0 :> Signature(1, 0), spin |-> 0 :> Signature(0, 0),
   recursion |-> 0 :> Signature(1, 0), wide |-> 0 :> Signature(0, 0),
   indirect |-> 1 :> Signature(0, 0), limit |-> 0 :> Signature(1, 0)]
=============================================================================
