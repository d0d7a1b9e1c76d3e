------------------------------ MODULE Assembly ------------------------------
(***************************************************************************)
(* ModuleParser (src/src/compiler/parser.rs) from the sections of a Wasm   *)
(* module to a rwasm module: a trampoline for every import, the translated *)
(* functions, the snippets they call, and in front of them the entrypoint  *)
(* that initialises the instance, followed by the jump or the router that  *)
(* source_pc points to.                                                    *)
(*                                                                         *)
(* A Wasm module is [functions, globals, start, entry, router, elements]:  *)
(* functions as in Translator, the globals' values, functions by index or  *)
(* NoFunc, a router [opcode, states], table entries by index, -1 if null.  *)
(* The memory and table instructions of the entrypoint are in Segments.    *)
(***************************************************************************)
EXTENDS Translator

CONSTANTS
  Imports,                 \* of every imported function [sys, fuel]
  BuiltinsConsumeFuel, AllowStartSection, AllowMalformedEntrypointFuncType,
  FuelMaxLinear, FuelMaxQuadratic,   \* FUEL_MAX_LINEAR_X, FUEL_MAX_QUADRATIC_X
  WordBytes,               \* 32
  EntrypointHeight,        \* 5
  NoFunc, NoRouter, NoOpcode

----------------------------------------------------------------------------
(* compile_block_params (block_fuel.rs): what a builtin charges, by the    *)
(* kind of its fuel parameters.                                            *)

Overflows(depth, max) ==
  <<Get(depth), Const(max), GtU, BrEqz(2), TrapWith("IntegerOverflow")>>
WordsAt(depth) == <<Get(depth), Const(WordBytes - 1), Add, Const(WordBytes), Emit("I32DivU", 0)>>
Times(n)       == <<Const(n), Mul>>

\* Mutant: the slot of the linear part is not counted.
QuadraticCodeShallow(p) ==
  Overflows(p.depth, FuelMaxQuadratic)
  \o WordsAt(p.depth) \o Times(p.cost)
  \o WordsAt(p.depth + 1) \o WordsAt(p.depth + 1) \o <<Mul, Const(p.divisor), Emit("I32DivU", 0), Add>>
  \o Times(p.rate) \o <<Emit("ConsumeFuelStack", 0)>>

QuadraticCode(p) ==
  Overflows(p.depth, FuelMaxQuadratic)
  \o WordsAt(p.depth) \o Times(p.cost)
  \o WordsAt(p.depth + 1) \o WordsAt(p.depth + 2) \o <<Mul, Const(p.divisor), Emit("I32DivU", 0), Add>>
  \o Times(p.rate) \o <<Emit("ConsumeFuelStack", 0)>>

LinearCode(p) ==
  Overflows(p.depth, FuelMaxLinear)
  \o WordsAt(p.depth) \o Times(p.cost) \o When(p.base # 0, <<Const(p.base), Add>>)
  \o <<Emit("ConsumeFuelStack", 0)>>

BlockParams(p) ==
  CASE p.kind = "None"      -> <<>>
    [] p.kind = "Const"     -> <<Emit("ConsumeFuel", p.base)>>
    [] p.kind = "Linear"    -> LinearCode(p)
    [] p.kind = "Quadratic" -> QuadraticCode(p)

\* process_imports: a function of its own, so that a reference to it works.  finish
\* gives it the maximum height of a function that pushes nothing.
ImportTranslated(t, func) ==
  LET import == Imports[func + 1] IN
  Finished(Emitted(Prepare(t, func),
                   <<Emit("StackCheck", 0)>>
                   \o When(BuiltinsConsumeFuel, BlockParams(import.fuel))
                   \o <<Emit("Call", import.sys), Emit("Return", 0)>>))

----------------------------------------------------------------------------
(* emit_snippets: every snippet that is called, once, behind the functions. *)
(* s is [t, placed], placed the entries of the snippets that have code.     *)

\* Mutant: the callee is the function before the snippet.
SnippetCalledOff(s, call) ==
  [s EXCEPT !.t.code[call.loc + 1].imm = s.placed[call.snippet] - 1]
SnippetCalled(s, call) ==
  [s EXCEPT !.t.code[call.loc + 1].imm = s.placed[call.snippet]]

SnippetPlaced(s, call) ==
  LET code == <<Emit("StackCheck", HeightOf(call.snippet))>> \o OpcodesOf(call.snippet)
              \o <<Emit("Return", 0)>>
      new  == [t |-> [Emitted(s.t, code) EXCEPT !.offsets = Append(@, CurrentPc(s.t))],
               placed |-> call.snippet :> Len(s.t.offsets) + 1 @@ s.placed]
  IN  SnippetCalled(IF call.snippet \in DOMAIN s.placed THEN s ELSE new, call)

EmitSnippets(t) ==
  IF WithCodeSnippets
    THEN FoldLeft(SnippetPlaced, [t |-> t, placed |-> <<>>], t.snippetCalls).t ELSE t

----------------------------------------------------------------------------
(* The entrypoint, in front of the functions.                              *)

\* SegmentBuilder::add_global_variable; the upper word of a wide value is on top.
GlobalCode(global, value) ==
  LET type == GlobalTypes[global + 1]
      set  == Emit("GlobalSet", 2 * global)
  IN  IF type \in WideTypes
        THEN <<Const(value % 2^W), Const(value \div 2^W), set, Emit("GlobalSet", 2 * global + 1)>>
      ELSE IF type \in {"FuncRef", "ExternRef"} THEN <<Emit("RefFunc", value), set>>
      ELSE <<Const(value), set>>

GlobalsCode(values) ==
  FoldLeft(\o, <<>>, [g \in DOMAIN values |-> GlobalCode(g - 1, values[g])])

\* The part that RwasmInstance::new runs.
InitCode(wasm) ==
  <<Emit("StackCheck", EntrypointHeight)>> \o GlobalsCode(wasm.globals)
  \o When(wasm.start # NoFunc, FunctionCall("CallInternal", wasm.start))
  \o <<Emit("Return", 0)>>

\* emit_state_router: a comparison for every state, the function called in place of
\* the router; with no match the state is dropped.
StateCode(state) ==
  <<Get(1), Const(state.value), Eq, BrEqz(3), Drop>>
  \o FunctionCall("ReturnCallInternal", state.func)
RouterCode(router) ==
  When(router.opcode # NoOpcode, <<router.opcode>>)
  \o FoldLeft(\o, <<>>, [i \in DOMAIN router.states |-> StateCode(router.states[i])])
  \o <<Drop>>

\* InstructionSet::finalize.
IsReturn(opcode) ==
  opcode.op \in {"Return", "ReturnCall", "ReturnCallInternal", "ReturnCallIndirect"}
WithReturn(code) == IF IsReturn(Last(code)) THEN code ELSE Append(code, Emit("Return", 0))

EntrypointCode(wasm) ==
  WithReturn(InitCode(wasm)
             \o When(wasm.entry # NoFunc, FunctionCall("ReturnCallInternal", wasm.entry))
             \o When(wasm.router # NoRouter, RouterCode(wasm.router)))

\* The errors of finalize, and the panics of the calls it emits.
FuncEmpty(func) == FuncType(FuncTypeOf[func + 1]) = [params |-> <<>>, results |-> <<>>]
Routed(wasm) ==
  IF wasm.router = NoRouter THEN {}
  ELSE {wasm.router.states[i].func : i \in DOMAIN wasm.router.states}
FinalStatus(wasm) ==
  CASE wasm.start # NoFunc /\ ~AllowStartSection                   -> "error"
    [] wasm.entry = NoFunc /\ wasm.router = NoRouter               -> "error"
    [] wasm.entry # NoFunc /\ ~RemoveSupported(wasm.entry)         -> "panic"
    [] ~AllowMalformedEntrypointFuncType
       /\ \E func \in Routed(wasm) : ~FuncEmpty(func)              -> "error"
    [] \E func \in Routed(wasm) : ~RemoveSupported(func)           -> "panic"
    [] OTHER                                                       -> "ok"

----------------------------------------------------------------------------
\* Mutant: offsets count from the first function.
PlacedUnmoved(t, entry, func) == IF func = 0 THEN 0 ELSE t.offsets[func]

\* Where entry func of the function table is in the merged code; 0 is null.
Placed(t, entry, func) == IF func = 0 THEN 0 ELSE t.offsets[func] + Len(entry)

FunctionRefs == {"CallInternal", "ReturnCallInternal", "RefFunc"}
Relocated(t, entry, opcode) ==
  IF opcode.op \in FunctionRefs THEN [opcode EXCEPT !.imm = Placed(t, entry, @)] ELSE opcode

\* parse and finalize.
Functions(wasm) ==
  TranslateFunctions(FoldLeft(ImportTranslated, NoTranslation, [i \in DOMAIN Imports |-> i - 1]),
                     wasm.functions)

Linked(t, entry, wasm) ==
  LET merged == entry \o t.code IN
  [status |-> IF t.status # "ok" THEN t.status ELSE FinalStatus(wasm),
   code   |-> [pc \in DOMAIN merged |-> Relocated(t, entry, merged[pc])],
   sourcePc |-> Len(InitCode(wasm)),
   table    |-> [i \in DOMAIN wasm.elements |-> Placed(t, entry, wasm.elements[i] + 1)]]

Assemble(wasm) == Linked(EmitSnippets(Functions(wasm)), EntrypointCode(wasm), wasm)
=============================================================================
