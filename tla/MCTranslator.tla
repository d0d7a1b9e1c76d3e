---------------------------- MODULE MCTranslator ----------------------------
(***************************************************************************)
(* Instances of TranslatorRun: alphabets of operators over one small       *)
(* module.                                                                 *)
(***************************************************************************)
EXTENDS TranslatorRun

Type(params, results) == [params |-> params, results |-> results]
\* The last one is a duplicate of the first.
MCFuncTypes ==
  <<Type(<<>>, <<>>), Type(<<>>, <<"I32">>), Type(<<>>, <<"I64">>),
    Type(<<"I64">>, <<"I64">>), Type(<<"I32", "I64">>, <<"I64">>), Type(<<"I64">>, <<>>),
    Type(<<>>, <<>>), Type(<<>>, <<"F32">>), Type(<<>>, <<"F64">>)>>
MCFuncTypeOf   == <<3, 4, 0, 5, 1, 2, 7, 8>>
\* Calls of function 3 are removed, calls of function 4 replaced by a constant.
MCIntrinsics   == 3 :> [kind |-> "Remove", code |-> <<>>]
                  @@ 4 :> [kind |-> "Replace", code |-> <<Const(7)>>]
MCGlobalTypes  == <<"I32", "F64">>
MCTableTypes   == <<"FuncRef">>
MCTableMaximum == <<5>>
MCBrTables     == <<<<0, 1>>, <<1, 0, 1>>>>
MCDataSections == 0 :> <<0, 3>> @@ 1 :> <<2, 0>>
MCElemSections == 0 :> <<1, 2>>
MCFuelCosts    == [BASE |-> 1, CALL |-> 4, ENTITY |-> 3, LOAD |-> 2, STORE |-> 2]
MCFuelForLocals(n) == (n + 1) \div 2

Op(op)          == [op |-> op, imm |-> 0, aux |-> 0]
OpImm(op, imm)  == [op |-> op, imm |-> imm, aux |-> 0]

Plain(func, scope) == [func |-> func, locals |-> <<>>, scope |-> scope]
Locals(amount, type) == [amount |-> amount, type |-> type]

\* Nested control with parameters and results that are wider than a slot.
MCControl ==
  {OpImm("Block", 0), OpImm("Block", 2), OpImm("Loop", 0), OpImm("Loop", 3), OpImm("If", 3),
   Op("Else"), Op("End"), OpImm("Br", 0), OpImm("Br", 1), OpImm("BrIf", 0), OpImm("BrIf", 1),
   OpImm("BrTable", 1), Op("Return"), Op("Unreachable"), OpImm("I32Const", 1),
   OpImm("LocalGet", 0)}

\* Calls, variables and the values between them.
MCValues ==
  {OpImm("Block", 4), Op("End"), OpImm("Call", 1), OpImm("Call", 3), OpImm("Call", 4), OpImm("CallIndirect", 4),
   OpImm("ReturnCall", 0), OpImm("ReturnCall", 1), OpImm("ReturnCallIndirect", 2),
   OpImm("LocalGet", 0), OpImm("LocalGet", 1), OpImm("LocalSet", 0), OpImm("LocalTee", 1),
   OpImm("GlobalGet", 0), OpImm("GlobalGet", 1), OpImm("GlobalSet", 1), Op("Drop"), Op("Select"),
   Op("I64Add"), Op("I64LtS"), OpImm("BrIf", 0)}

\* A tail call through a table to a callee with more parameters than its caller.
MCTailCall == {Op("End"), OpImm("ReturnCallIndirect", 4), OpImm("LocalGet", 0),
               OpImm("GlobalGet", 0), OpImm("Block", 0), Op("Drop")}
MCTailCallFuncs == {Plain(0, "tailcall")}

\* Every operator that one helper or one emitter lowers, in functions that return
\* what it leaves.
Constants == {OpImm("I32Const", 1), OpImm("I64Const", 300), Op("F32Const"), Op("F64Const"),
              Op("RefNull"), Op("RefFunc")}
MCNumeric ==
  Constants \cup {Op("End"), Op("Nop"), Op("I32WrapI64")}
  \cup {Op(op) : op \in Binaries \cup Compares \cup Unaries \cup UnaryTests \cup Snippets
                        \cup DOMAIN Conversions \cup DOMAIN Reinterprets}

\* The result of an i64 comparison, used as the i32 it is.
MCInline == {OpImm("I64Const", 300), OpImm("I32Const", 1), Op("I64LtS"), Op("I32Add"), Op("End")}
MCInlineFuncs == {Plain(4, "inline")}

\* Memory, tables and segments; segment 1 is empty and there is no segment 2.
MCHeap ==
  (Constants \ {Op("RefFunc")}) \cup {Op("End"), Op("Drop"), OpImm("MemoryInit", 1), OpImm("MemoryInit", 2)}
  \cup {Op(op) : op \in HeapOps}

MCFuncs ==
  {[func |-> 0, locals |-> <<Locals(1, "I32")>>, scope |-> "control"],
   [func |-> 1, locals |-> <<Locals(1, "I64"), Locals(2, "I32")>>, scope |-> "values"],
   Plain(0, "values"), Plain(2, "heap")}
  \cup {Plain(f, "numeric") : f \in 4 .. 7}

MCAlphabet ==
  [control |-> MCControl, values |-> MCValues, heap |-> MCHeap,
   numeric |-> MCNumeric, tailcall |-> MCTailCall, inline |-> MCInline]
MCMaxOperators ==
  [control |-> 8, values |-> 6, heap |-> 5, numeric |-> 4, tailcall |-> 6,
   inline |-> 6]
=============================================================================
