---------------------------- MODULE CompiledRuns ----------------------------
(***************************************************************************)
(* Compiler and interpreter together: Wasm modules are compiled by         *)
(* Assembly, instantiated and called by a host, run by Executor, and every *)
(* run is compared with what the module means (WasmSemantics).             *)
(*                                                                         *)
(* The source of a module is [bodies, locals, globals, start, entry,       *)
(* router, elements], with the bodies of its functions as structured code, *)
(* their locals' types, and the rest as in Assembly.                       *)
(***************************************************************************)
EXTENDS Executor, SequencesExt

CONSTANTS
  Sources,               \* the Wasm modules, by name
  Compiled,              \* and what they are compiled to
  \* of WasmOps, Translator and Assembly
  W, FuncTypes, FuncTypeOf, Intrinsics, GlobalTypes, TableTypes, TableMaximum, BrTables,
  DataSections, ElemSections, MaxPages, WithConsumeFuel, WithCodeSnippets,
  ConsumeFuelForBulkOps, ConsumeFuelForParamsAndLocals, FuelCosts, FuelForLocals(_),
  ByteRate, ByteShift, ElemRate, ElemShift, PageBytes, MaxBlockFuel, MaxDropKeep,
  Imports, BuiltinsConsumeFuel, AllowStartSection, AllowMalformedEntrypointFuncType,
  FuelMaxLinear, FuelMaxQuadratic, WordBytes, EntrypointHeight, NoFunc, NoRouter, NoOpcode,
  \* of WasmSemantics
  ImportedFuncs, HostAnswer(_, _), HostPrice(_, _),
  NoRun

VARIABLES
  expected,              \* what the run in progress should come to, or NoRun
  instantiated           \* RwasmInstance::new has returned an instance

Compiler == INSTANCE Assembly
Wasm     == INSTANCE WasmSemantics

----------------------------------------------------------------------------
(* The modules, compiled.                                                  *)

Operator(op, imm, aux) == [op |-> op, imm |-> imm, aux |-> aux]

\* The operators of structured code in their order in the binary.
RECURSIVE Flat(_)
Flat(code) ==
  LET Operators(i) ==
        CASE i.op \in {"Block", "Loop"} ->
               <<Operator(i.op, i.imm, 0)>> \o Flat(i.body) \o <<Operator("End", 0, 0)>>
          [] i.op = "If" ->
               <<Operator("If", i.imm, 0)>> \o Flat(i.body) \o <<Operator("Else", 0, 0)>>
               \o Flat(i.other) \o <<Operator("End", 0, 0)>>
          [] OTHER -> <<Operator(i.op, i.imm, i.aux)>>
  IN  IF code = <<>> THEN <<>> ELSE Operators(Head(code)) \o Flat(Tail(code))

\* What the parser reads: a declaration for every local.
Binary(source) ==
  [functions |-> [f \in DOMAIN source.bodies |->
     [func   |-> ImportedFuncs + f - 1,
      locals |-> [l \in DOMAIN source.locals[f] |-> [amount |-> 1, type |-> source.locals[f][l]]],
      body   |-> Append(Flat(source.bodies[f]), Operator("End", 0, 0))]],
   globals |-> source.globals, start |-> source.start, entry |-> source.entry,
   router  |-> source.router, elements |-> source.elements]

Assembled == [m \in Modules |-> Compiler!Assemble(Binary(Sources[m]))]

CodeOf(all)      == [m \in Modules |-> all[m].code]
SourcePcOf(all)  == [m \in Modules |-> all[m].sourcePc]
TablesOf(all)    == [m \in Modules |-> 0 :> all[m].table]
CompiledModules  == LET all == Assembled IN all
CompiledCode     == CodeOf(Compiled)
CompiledSourcePc == SourcePcOf(Compiled)
CompiledTables   == TablesOf(Compiled)
CompiledResultLen ==
  [m \in Modules |-> IF Sources[m].entry = NoFunc THEN 0
                     ELSE Wasm!Slots(Wasm!Type(Sources[m].entry).results)]

----------------------------------------------------------------------------
(* Values and slots: a wide value is its low word, then its high word.     *)

IsWide(type) == type \in Wasm!WideTypes
SlotsOf(type, value) == IF IsWide(type) THEN <<value % 2^W, value \div 2^W>> ELSE <<value>>

ValuesToSlots(types, values) ==
  FlattenSeq([i \in DOMAIN values |-> SlotsOf(types[i], values[i])])

\* Where the slots of the i-th of some values begin.
FirstSlot(types, i) == Wasm!Slots(SubSeq(types, 1, i - 1)) + 1
SlotsToValues(types, slots) ==
  [i \in DOMAIN types |->
     LET s == FirstSlot(types, i)
     IN  IF IsWide(types[i]) THEN slots[s] + 2^W * slots[s + 1] ELSE slots[s]]

\* The words of a wide global are the other way round.
GlobalValues ==
  [g \in DOMAIN GlobalTypes |->
     IF IsWide(GlobalTypes[g]) THEN globals[2 * g - 1] + 2^W * globals[2 * g - 2]
                               ELSE globals[2 * g - 2]]

----------------------------------------------------------------------------
(* What a run should come to.                                              *)

Meant(source) ==
  [bodies |-> source.bodies,
   locals |-> [f \in DOMAIN source.locals |-> [l \in DOMAIN source.locals[f] |-> 0]],
   table  |-> [i \in DOMAIN source.elements |-> source.elements[i] + 1]]

Called(func, args, values) == Wasm!Evaluate(Meant(Sources[module]), func, args, values)

StartMeans ==
  LET source == Sources[module] IN
  IF source.start = NoFunc THEN Wasm!Idle(source.globals)
  ELSE Called(source.start, <<>>, source.globals)

\* The router calls the function of the state, the word on top of the parameters or
\* the host's answer, and does nothing for a state it does not know.
RoutedMeans(params) ==
  LET router == Sources[module].router
      state  == IF router.opcode = NoOpcode THEN params[Len(params)] ELSE HostAnswer(0, <<>>)[1]
      routes == {i \in DOMAIN router.states : router.states[i].value = state}
  IN  IF routes = {} THEN Wasm!Idle(GlobalValues)
      ELSE Called(router.states[CHOOSE i \in routes : \A j \in routes : i <= j].func,
                  <<>>, GlobalValues)

InvocationMeans(params) ==
  LET source == Sources[module] IN
  IF source.entry = NoFunc THEN RoutedMeans(params)
  ELSE Called(source.entry, SlotsToValues(Wasm!Type(source.entry).params, params), GlobalValues)

----------------------------------------------------------------------------
runsVars == <<vars, expected, instantiated>>

\* RwasmInstance::new: the entrypoint's part before source_pc.
Instantiate ==
  /\ ~instantiated /\ expected = NoRun
  /\ Entrypoint(module)
  /\ expected' = StartMeans
  /\ UNCHANGED instantiated

Invoke(params) ==
  /\ instantiated /\ expected = NoRun
  /\ Execute(module, params)
  /\ expected' = InvocationMeans(params)
  /\ UNCHANGED instantiated

Work   == Visit /\ UNCHANGED <<expected, instantiated>>
Answer == HandlerReturns /\ UNCHANGED <<expected, instantiated>>

\* The host takes the result and resets the store; a failed instantiation may be
\* tried again.
Settle ==
  /\ phase = "idle" /\ expected # NoRun
  /\ StoreReset
  /\ expected' = NoRun
  /\ instantiated' = (instantiated \/ outcome.ok)

RunsInit == Init /\ expected = NoRun /\ instantiated = FALSE

RunsNext ==
  \/ Instantiate \/ (\E params \in ParamSets[module] : Invoke(params))
  \/ Work \/ Answer \/ Settle

RunsSpec == RunsInit /\ [][RunsNext]_runsVars

----------------------------------------------------------------------------
Ended  == phase = "idle" /\ expected # NoRun
Halted == outcome.trap = "ExecutionHalted"
\* The reference has no limits; the fuel limit is the only one the runs reach.
OutOfFuel == outcome.trap = "OutOfFuel"

\* Whatever the compiler emits for a valid module passes RwasmModule::verify, ends in
\* an opcode that goes nowhere else, and has only functions in its table.
CompiledVerifies ==
  phase = "idle" =>
    /\ Compiled[module].status = "ok"
    /\ VerifyModule(module) /\ EndsFinal(module) /\ TablesAtFunctions(module)

\* A compiled module, run by the interpreter, returns what the Wasm module returns,
\* leaves the globals it leaves and traps when and as it traps.
MatchesWasm ==
  Ended /\ ~Halted /\ ~OutOfFuel =>
    /\ outcome.trap = expected.trap
    /\ expected.trap = "none" =>
         /\ outcome.ok
         /\ GlobalValues = expected.globals
         /\ resultLen > 0 =>
              outcome.result = ValuesToSlots(Wasm!Type(Sources[module].entry).results,
                                             expected.results)

\* The fuel of a run that completes is the sum of the prices of the operators it
\* executed: charging whole blocks in advance never charges for a block that was not
\* entered, or forgets one.  A run that traps has paid at least for what it did, and
\* one that runs out of fuel needed more than there was.
FuelIsWork ==
  Ended /\ ~Halted =>
    /\ outcome.trap = "none" => consumedFuel = expected.fuel
    /\ ~OutOfFuel => consumedFuel >= expected.fuel
    /\ OutOfFuel /\ expected.trap = "none" => fuelLimit < expected.fuel
=============================================================================
