------------------------------ MODULE Executor ------------------------------
(***************************************************************************)
(* One run of the rwasm interpreter (src/src/vm/executor.rs and its        *)
(* executor/*.rs files) over the store it was given (src/src/vm/store.rs): *)
(* the value stack, the call stack, the instruction pointer, fuel, the     *)
(* pending signature of an indirect call and the host's syscall handler.   *)
(*                                                                         *)
(* The host's handler is synchronous here: it returns results, a halt or a *)
(* trap.  Handlers that interrupt the run, and ExecutionEngine::resume,    *)
(* are added by module Engine, which is shown to implement this one.       *)
(*                                                                         *)
(* Left to other modules: linear memory, tables and segments.  The tables  *)
(* a program calls through are given by TableElems, as its entrypoint left *)
(* them.  Reading outside the value stack or the code is undefined in the  *)
(* interpreter and has no step here, so a program that does it is stuck.   *)
(***************************************************************************)
EXTENDS Integers, Sequences

CONSTANTS
  Word,                   \* values of a stack slot
  Modules,                \* compiled modules
  Code,                   \* code_section of each module, a sequence of opcodes
  SourcePc,               \* source_pc of each module
  TableElems,             \* tables of each module: functions from table index to entries
  ParamSets,              \* the parameters a host may pass to each module, in slots
  ResultLen,              \* slots of each module's results
  SysFuncs,               \* functions the import linker resolves
  SysParams,              \* slots of a syscall's parameters
  SysResults,             \* slots of a syscall's results
  SysValues,              \* max(params.len(), result.len()) of a syscall, in values
  HandlerWords,           \* words a handler may return
  HandlerTraps,           \* traps a handler may return, but a halt and an interruption
  HandlerFuel,            \* amounts of fuel a handler may charge
  FuelLimits,             \* fuel limits the host may set
  Globals,                \* global words
  N_DEFAULT_STACK_SIZE,
  N_MAX_STACK_SIZE,
  N_MAX_RECURSION_DEPTH,
  N_MAX_TABLES,
  N_MAX_DATA_SEGMENTS,
  N_MAX_ELEM_SEGMENTS,
  MaxFuel,                \* u64::MAX
  NoLimit,                \* fuel_limit: None
  NoSignature,            \* last_signature: None
  UnaryOps, BinaryOps, WideOps,    \* the opcodes of the integer unit
  AluUnary(_, _), AluBinary(_, _, _), AluTrap(_, _, _), AluWide(_, _, _)

VARIABLES
  phase,                  \* "idle", "running", or "syscall" while a handler runs
  module, ip,             \* executor.module, executor.ip as an offset into its code
  stack,                  \* the value stack up to sp
  entries,                \* value_stack.entries.len(): the slots that exist
  callStack,              \* call_stack: return addresses
  syscall,                \* the syscall the handler is running
  resultLen,              \* slots of the host's result buffer
  outcome,                \* what the last run returned to the host
  consumedFuel, fuelLimit, lastSignature, globals        \* the store

runVars   == <<phase, module, ip, stack, entries, callStack, syscall, resultLen, outcome>>
storeVars == <<consumedFuel, fuelLimit, lastSignature, globals>>
vars      == <<runVars, storeVars>>

----------------------------------------------------------------------------
(* The opcodes, by the type of their operand.                              *)

BranchOps   == {"Br", "BrIfEqz", "BrIfNez"}
IndirectOps == {"CallIndirect", "ReturnCallIndirect"}
DirectOps   == {"CallInternal", "ReturnCallInternal"}
LocalOps    == {"LocalGet", "LocalSet", "LocalTee"}
TableOps    == {"TableSize", "TableGrow", "TableFill", "TableGet", "TableSet"}
DataOps     == {"MemoryInit", "DataDrop"}
ElemOps     == {"TableInit", "ElemDrop"}
\* The opcodes after which the next one is not executed.
FinalOps    == {"Return", "Unreachable", "Trap", "Br", "ReturnCallInternal"}

Fetch == Code[module][ip + 1]

\* The opcode at ip is one of ops.
At(ops) == phase = "running" /\ ip \in 0 .. Len(Code[module]) - 1 /\ Fetch.op \in ops

NthBack(n) == stack[Len(stack) - n + 1]
Dropped(n) == SubSeq(stack, 1, Len(stack) - n)

\* The operand of an opcode has the type its Rust variant declares.  Trap carries
\* a trap code; the compiler never emits one that would suspend the run.
TrapCodes == {"UnreachableCodeReached", "MemoryOutOfBounds", "TableOutOfBounds",
              "IndirectCallToNull", "IntegerDivisionByZero", "IntegerOverflow",
              "BadConversionToInteger", "StackOverflow", "BadSignature", "OutOfFuel",
              "UnknownExternalFunction", "IllegalOpcode",
              "ExecutionHalted"}

OperandTyped(opcode) ==
  IF opcode.op = "Trap" THEN opcode.imm \in TrapCodes
  ELSE IF opcode.op = "TableCopy" THEN opcode.imm \in Nat \X Nat
  ELSE /\ opcode.imm \in Int
       /\ opcode.op \notin BranchOps => opcode.imm \in Nat
       /\ opcode.op \in {"I32Const", "RefFunc"} => opcode.imm \in Word
       /\ opcode.op \in {"Call", "ReturnCall"} => opcode.imm \in SysFuncs
       /\ opcode.op \in {"GlobalGet", "GlobalSet"} => opcode.imm \in Globals

ASSUME LimitsAssumption ==
  /\ N_DEFAULT_STACK_SIZE \in Nat /\ N_MAX_STACK_SIZE \in Nat
  /\ N_MAX_RECURSION_DEPTH \in Nat /\ N_MAX_TABLES \in Nat /\ MaxFuel \in Nat
  /\ N_MAX_DATA_SEGMENTS \in Nat /\ N_MAX_ELEM_SEGMENTS \in Nat
  /\ Word \subseteq Nat /\ 0 \in Word /\ HandlerWords \subseteq Word
  /\ NoLimit \notin Nat /\ FuelLimits \subseteq (0 .. MaxFuel) \cup {NoLimit}
  /\ HandlerFuel \subseteq Nat /\ HandlerTraps \subseteq TrapCodes
  /\ NoSignature \notin Nat

ASSUME ModulesAssumption ==
  \A m \in Modules :
    /\ Len(Code[m]) \in Nat /\ DOMAIN Code[m] = 1 .. Len(Code[m])
    /\ \A i \in DOMAIN Code[m] : OperandTyped(Code[m][i])
    /\ SourcePc[m] \in Nat /\ ResultLen[m] \in Nat
    /\ \A params \in ParamSets[m] : params \in Seq(Word)
    /\ \A t \in DOMAIN TableElems[m] : TableElems[m][t] \in Seq(Nat)

ASSUME SyscallAssumption ==
  \A f \in SysFuncs : SysParams[f] \in Nat /\ SysResults[f] \in Nat /\ SysValues[f] \in Nat

\* The integer unit has opcodes of its own and is total on words, where it does
\* not trap.
ASSUME AluAssumption ==
  /\ (UnaryOps \cup BinaryOps \cup WideOps) \cap (FinalOps \cup {"SignatureCheck"}) = {}
  /\ \A a \in Word : \A op \in UnaryOps : AluUnary(op, a) \in Word
  /\ \A a, b \in Word : \A op \in BinaryOps :
       AluTrap(op, a, b) = "none" => AluBinary(op, a, b) \in Word
  /\ \A a, b \in Word : \A op \in WideOps : AluWide(op, a, b) \in Word \X Word

----------------------------------------------------------------------------
(* RwasmModule::verify (src/src/module/verification.rs).                   *)

VerifyBranchTarget(m, pc, offset) ==
  /\ offset # 0
  /\ pc + offset >= 0
  /\ pc + offset < Len(Code[m])

\* Mutant: the last pair of the table is not counted.
VerifyBranchTableShort(m, pc, targets) ==
  /\ targets # 0
  /\ pc + 2 * (targets - 1) < Len(Code[m])

VerifyBranchTable(m, pc, targets) ==
  /\ targets # 0
  /\ pc + 2 * targets < Len(Code[m])

VerifyCodeTarget(m, target) == target < Len(Code[m])

VerifyTableIndex(table) == table < N_MAX_TABLES

VerifyTableIndexPayload(m, pc) ==
  /\ pc + 1 < Len(Code[m])
  /\ Code[m][pc + 2].op = "TableGet"
  /\ VerifyTableIndex(Code[m][pc + 2].imm)

VerifyOpcode(m, pc) ==
  LET opcode == Code[m][pc + 1] IN
  /\ opcode.op \in BranchOps => VerifyBranchTarget(m, pc, opcode.imm)
  /\ opcode.op = "BrTable" => VerifyBranchTable(m, pc, opcode.imm)
  /\ opcode.op \in DirectOps => VerifyCodeTarget(m, opcode.imm)
  /\ opcode.op = "RefFunc" => opcode.imm = 0 \/ VerifyCodeTarget(m, opcode.imm)
  /\ opcode.op \in IndirectOps \cup {"TableInit"} => VerifyTableIndexPayload(m, pc)
  /\ opcode.op \in LocalOps => opcode.imm # 0
  /\ opcode.op \in DataOps => opcode.imm < N_MAX_DATA_SEGMENTS
  /\ opcode.op \in ElemOps => opcode.imm < N_MAX_ELEM_SEGMENTS
  /\ opcode.op \in TableOps => VerifyTableIndex(opcode.imm)
  /\ opcode.op = "TableCopy" =>
       VerifyTableIndex(opcode.imm[1]) /\ VerifyTableIndex(opcode.imm[2])

VerifyModule(m) ==
  /\ Len(Code[m]) # 0
  /\ SourcePc[m] < Len(Code[m])
  /\ \A t \in DOMAIN TableElems[m] : \A i \in DOMAIN TableElems[m][t] :
        TableElems[m][t][i] # 0 => TableElems[m][t][i] < Len(Code[m])
  /\ \A pc \in 0 .. Len(Code[m]) - 1 : VerifyOpcode(m, pc)

\* What the verifier leaves to the compiler: code does not fall off its end, and
\* tables hold entries of functions, which open with their signature.
EndsFinal(m) == Code[m][Len(Code[m])].op \in FinalOps

TablesAtFunctions(m) ==
  \A t \in DOMAIN TableElems[m] : \A i \in DOMAIN TableElems[m][t] :
    LET callee == TableElems[m][t][i] IN
    callee # 0 => callee < Len(Code[m]) /\ Code[m][callee + 1].op = "SignatureCheck"

----------------------------------------------------------------------------
(* ValueStack::reserve: whether n more slots fit under the maximum, and    *)
(* the number of slots that exist afterwards.                              *)

ReserveFits(len, n) == len + n <= N_MAX_STACK_SIZE
\* Mutant: the slots already in use are forgotten.
ReservedFromZero(len, n, slots) == IF n > slots THEN slots + n ELSE slots

Reserved(len, n, slots) == IF len + n > slots THEN slots + len + n ELSE slots

(* RwasmStore::try_consume_fuel: a saturating counter under a limit.       *)
\* Mutants: a counter that wraps at u64::MAX, and one that does not stop there.
ChargedFuelWrapping(delta) == (consumedFuel + delta) % (MaxFuel + 1)
ChargedFuelUnbounded(delta) == consumedFuel + delta

ChargedFuel(delta) == IF consumedFuel + delta > MaxFuel THEN MaxFuel ELSE consumedFuel + delta
\* Mutant: the limit is compared with the fuel consumed before the charge.
FuelSufficesBefore(delta) == fuelLimit # NoLimit => consumedFuel <= fuelLimit

FuelSuffices(delta) == fuelLimit # NoLimit => ChargedFuel(delta) <= fuelLimit

----------------------------------------------------------------------------
(* RwasmExecutor::run before and after the loop.                           *)

\* The run is over: its stacks are dropped with the executor.
Leave(res) ==
  /\ phase' = "idle"
  /\ outcome' = res
  /\ ip' = 0
  /\ entries' = N_DEFAULT_STACK_SIZE
  /\ syscall' = 0
  /\ UNCHANGED <<module, resultLen>>

\* A trap in the loop: both stacks and the pending signature are reset, and
\* a halt is a success.
TrapOut(trap) ==
  /\ Leave([ok |-> trap = "ExecutionHalted", trap |-> trap, result |-> <<>>])
  /\ stack' = <<>>
  /\ callStack' = <<>>
  /\ lastSignature' = NoSignature

Trapped(trap) == TrapOut(trap) /\ UNCHANGED <<consumedFuel, fuelLimit, globals>>

\* run: make room for the parameters and push them.  When they do not fit the
\* function returns before the loop and leaves the store as it is.
Start(m, pc, base, slots, calls, params, results) ==
  /\ module' = m
  /\ resultLen' = results
  /\ UNCHANGED storeVars
  /\ \/ /\ ReserveFits(Len(base), Len(params))
        /\ phase' = "running"
        /\ ip' = pc
        /\ stack' = base \o params
        /\ entries' = Reserved(Len(base), Len(params), slots)
        /\ callStack' = calls
        /\ syscall' = 0
        /\ outcome' = [ok |-> FALSE, trap |-> "none", result |-> <<>>]
     \/ /\ ~ReserveFits(Len(base), Len(params))
        /\ phase' = "idle"
        /\ outcome' = [ok |-> FALSE, trap |-> "StackOverflow", result |-> <<>>]
        /\ ip' = 0
        /\ stack' = <<>>
        /\ entries' = N_DEFAULT_STACK_SIZE
        /\ callStack' = <<>>
        /\ syscall' = 0

\* ExecutionEngineInner::entrypoint, which RwasmInstance::new calls when the
\* module has one.
Entrypoint(m) ==
  /\ phase = "idle"
  /\ SourcePc[m] > 0
  /\ Start(m, 0, <<>>, N_DEFAULT_STACK_SIZE, <<>>, <<>>, 0)

\* ExecutionEngineInner::execute.
Execute(m, params) ==
  /\ phase = "idle"
  /\ Start(m, SourcePc[m], <<>>, N_DEFAULT_STACK_SIZE, <<>>, params, ResultLen[m])

\* RwasmStore::reset, between runs (the segment flags are not modelled here).
StoreReset ==
  /\ phase = "idle"
  /\ consumedFuel' = 0
  /\ lastSignature' = NoSignature
  /\ UNCHANGED <<runVars, fuelLimit, globals>>

\* RwasmStore::reset_fuel, by the host between runs or by a handler.
ResetFuel(limit) ==
  /\ phase \in {"idle", "syscall"}
  /\ limit # NoLimit
  /\ fuelLimit' = limit
  /\ consumedFuel' = 0
  /\ UNCHANGED <<runVars, lastSignature, globals>>

----------------------------------------------------------------------------
(* Opcodes that only touch the value stack: executor/stack.rs, alu.rs.     *)

StackStep(newStack) ==
  /\ stack' = newStack
  /\ ip' = ip + 1
  /\ UNCHANGED <<phase, module, entries, callStack, syscall, resultLen, outcome, storeVars>>

VisitLocalGet ==
  /\ At({"LocalGet"})
  /\ Fetch.imm \in 1 .. Len(stack)
  /\ StackStep(Append(stack, NthBack(Fetch.imm)))

VisitLocalSet ==
  /\ At({"LocalSet"})
  /\ Fetch.imm \in 1 .. Len(stack) - 1
  /\ StackStep([Dropped(1) EXCEPT ![Len(stack) - Fetch.imm] = NthBack(1)])

VisitLocalTee ==
  /\ At({"LocalTee"})
  /\ Fetch.imm \in 1 .. Len(stack)
  /\ StackStep([stack EXCEPT ![Len(stack) - Fetch.imm + 1] = NthBack(1)])

VisitDrop ==
  /\ At({"Drop"})
  /\ Len(stack) >= 1
  /\ StackStep(Dropped(1))

VisitSelect ==
  /\ At({"Select"})
  /\ Len(stack) >= 3
  /\ StackStep(Append(Dropped(3), IF NthBack(1) # 0 THEN NthBack(3) ELSE NthBack(2)))

\* visit_i32_const and visit_ref_func.
VisitConst ==
  /\ At({"I32Const", "RefFunc"})
  /\ StackStep(Append(stack, Fetch.imm))

VisitBulkConst ==
  /\ At({"BulkConst"})
  /\ StackStep(stack \o [i \in 1 .. Fetch.imm |-> 0])

VisitBulkDrop ==
  /\ At({"BulkDrop"})
  /\ Len(stack) >= Fetch.imm
  /\ StackStep(Dropped(Fetch.imm))

VisitUnary ==
  /\ At(UnaryOps)
  /\ Len(stack) >= 1
  /\ StackStep(Append(Dropped(1), AluUnary(Fetch.op, NthBack(1))))

VisitBinary ==
  /\ At(BinaryOps)
  /\ Len(stack) >= 2
  /\ LET trap == AluTrap(Fetch.op, NthBack(2), NthBack(1)) IN
     \/ trap = "none" /\ StackStep(Append(Dropped(2), AluBinary(Fetch.op, NthBack(2), NthBack(1))))
     \/ trap # "none" /\ Trapped(trap)

VisitWide ==
  /\ At(WideOps)
  /\ Len(stack) >= 2
  /\ StackStep(Dropped(2) \o AluWide(Fetch.op, NthBack(2), NthBack(1)))

VisitGlobalGet ==
  /\ At({"GlobalGet"})
  /\ StackStep(Append(stack, globals[Fetch.imm]))

VisitGlobalSet ==
  /\ At({"GlobalSet"})
  /\ Len(stack) >= 1
  /\ globals' = [globals EXCEPT ![Fetch.imm] = NthBack(1)]
  /\ stack' = Dropped(1)
  /\ ip' = ip + 1
  /\ UNCHANGED <<phase, module, entries, callStack, syscall, resultLen, outcome,
                 consumedFuel, fuelLimit, lastSignature>>

----------------------------------------------------------------------------
(* executor/system.rs: fuel, stack and signature checks.                   *)

Charge(delta, newStack) ==
  \/ /\ FuelSuffices(delta)
     /\ consumedFuel' = ChargedFuel(delta)
     /\ stack' = newStack
     /\ ip' = ip + 1
     /\ UNCHANGED <<phase, module, entries, callStack, syscall, resultLen, outcome,
                    fuelLimit, lastSignature, globals>>
  \/ /\ ~FuelSuffices(delta)
     /\ Trapped("OutOfFuel")

\* Mutant: a block is not charged.
VisitConsumeFuelFree == At({"ConsumeFuel"}) /\ Charge(0, stack)

VisitConsumeFuel == At({"ConsumeFuel"}) /\ Charge(Fetch.imm, stack)

\* Mutant: the amount is read without being popped.
VisitConsumeFuelStackPeek ==
  /\ At({"ConsumeFuelStack"})
  /\ Len(stack) >= 1
  /\ Charge(NthBack(1), stack)

VisitConsumeFuelStack ==
  /\ At({"ConsumeFuelStack"})
  /\ Len(stack) >= 1
  /\ Charge(NthBack(1), Dropped(1))

\* Mutant: a signature that matches is read instead of taken.
VisitSignatureCheckKeep ==
  /\ At({"SignatureCheck"})
  /\ \/ /\ lastSignature \in {NoSignature, Fetch.imm}
        /\ ip' = ip + 1
        /\ UNCHANGED <<phase, module, stack, entries, callStack, syscall, resultLen, outcome, storeVars>>
     \/ /\ lastSignature \notin {NoSignature, Fetch.imm}
        /\ Trapped("BadSignature")

\* last_signature is taken whatever the comparison says.
VisitSignatureCheck ==
  /\ At({"SignatureCheck"})
  /\ \/ /\ lastSignature \in {NoSignature, Fetch.imm}
        /\ lastSignature' = NoSignature
        /\ ip' = ip + 1
        /\ UNCHANGED <<phase, module, stack, entries, callStack, syscall, resultLen, outcome,
                       consumedFuel, fuelLimit, globals>>
     \/ /\ lastSignature \notin {NoSignature, Fetch.imm}
        /\ Trapped("BadSignature")

VisitStackCheck ==
  /\ At({"StackCheck"})
  /\ \/ /\ ReserveFits(Len(stack), Fetch.imm)
        /\ entries' = Reserved(Len(stack), Fetch.imm, entries)
        /\ ip' = ip + 1
        /\ UNCHANGED <<phase, module, stack, callStack, syscall, resultLen, outcome, storeVars>>
     \/ /\ ~ReserveFits(Len(stack), Fetch.imm)
        /\ Trapped("StackOverflow")

----------------------------------------------------------------------------
(* executor/control_flow.rs.                                               *)

Jump(target, newStack, calls) ==
  /\ ip' = target
  /\ stack' = newStack
  /\ callStack' = calls
  /\ UNCHANGED <<phase, module, entries, syscall, resultLen, outcome>>

\* visit_unreachable and visit_trap_code.
VisitTrap ==
  \/ At({"Unreachable"}) /\ Trapped("UnreachableCodeReached")
  \/ At({"Trap"}) /\ Trapped(Fetch.imm)

VisitBr ==
  /\ At({"Br"})
  /\ Jump(ip + Fetch.imm, stack, callStack)
  /\ UNCHANGED storeVars

\* visit_br_if jumps on zero, visit_br_if_nez on anything else.
VisitBrIf ==
  /\ At({"BrIfEqz", "BrIfNez"})
  /\ Len(stack) >= 1
  /\ Jump(IF (NthBack(1) = 0) = (Fetch.op = "BrIfEqz") THEN ip + Fetch.imm ELSE ip + 1,
          Dropped(1), callStack)
  /\ UNCHANGED storeVars

\* Mutant: the index is clamped to the number of targets.
VisitBrTableLoose ==
  /\ At({"BrTable"})
  /\ Len(stack) >= 1
  /\ LET index == IF NthBack(1) < Fetch.imm THEN NthBack(1) ELSE Fetch.imm
     IN  Jump(ip + 2 * index + 1, Dropped(1), callStack)
  /\ UNCHANGED storeVars

\* The table's targets are pairs of opcodes; the last one is the default.
VisitBrTable ==
  /\ At({"BrTable"})
  /\ Len(stack) >= 1
  /\ LET index == IF NthBack(1) < Fetch.imm - 1 THEN NthBack(1) ELSE Fetch.imm - 1
     IN  Jump(ip + 2 * index + 1, Dropped(1), callStack)
  /\ UNCHANGED storeVars

\* Return into the caller, or out of the run: the results are popped into the
\* host's buffer and what is left should be an empty stack.
VisitReturn ==
  /\ At({"Return"})
  /\ \/ /\ callStack # <<>>
        /\ Jump(callStack[Len(callStack)], stack, SubSeq(callStack, 1, Len(callStack) - 1))
        /\ UNCHANGED storeVars
     \/ /\ callStack = <<>>
        /\ Len(stack) >= resultLen
        /\ Leave([ok |-> TRUE, trap |-> "none",
                  result |-> SubSeq(stack, Len(stack) - resultLen + 1, Len(stack))])
        /\ stack' = Dropped(resultLen)
        /\ UNCHANGED <<callStack, storeVars>>

\* Mutant: one call too many.
PushCallOneMore(target, ret, newStack) ==
  /\ Len(callStack) <= N_MAX_RECURSION_DEPTH
  /\ Jump(target, newStack, Append(callStack, ret))

\* Push the return address, unless the recursion limit is reached.
PushCall(target, ret, newStack) ==
  /\ Len(callStack) < N_MAX_RECURSION_DEPTH
  /\ Jump(target, newStack, Append(callStack, ret))

\* Mutant: the call itself is the return address.
VisitCallInternalAgain ==
  /\ At({"CallInternal"})
  /\ \/ PushCall(Fetch.imm, ip, stack) /\ UNCHANGED storeVars
     \/ Len(callStack) >= N_MAX_RECURSION_DEPTH /\ Trapped("StackOverflow")

VisitCallInternal ==
  /\ At({"CallInternal"})
  /\ \/ PushCall(Fetch.imm, ip + 1, stack) /\ UNCHANGED storeVars
     \/ Len(callStack) >= N_MAX_RECURSION_DEPTH /\ Trapped("StackOverflow")

VisitReturnCallInternal ==
  /\ At({"ReturnCallInternal"})
  /\ Jump(Fetch.imm, stack, callStack)
  /\ UNCHANGED storeVars

\* The table an indirect call reads is named by the payload opcode that follows it
\* (fetch_table_index); the interpreter panics when there is none.
TableFetched ==
  /\ ip + 2 \in DOMAIN Code[module]
  /\ Code[module][ip + 2].op = "TableGet"
  /\ Code[module][ip + 2].imm \in DOMAIN TableElems[module]
Table == TableElems[module][Code[module][ip + 2].imm]

\* What visit_call_indirect and visit_return_call_indirect share: the callee is
\* popped, the expected signature remembered, the callee looked up.
VisitIndirect ==
  /\ At(IndirectOps)
  /\ TableFetched
  /\ Len(stack) >= 1
  /\ LET index  == NthBack(1)
         callee == Table[index + 1]
     IN  \/ index >= Len(Table) /\ Trapped("TableOutOfBounds")
         \/ index < Len(Table) /\ callee = 0 /\ Trapped("IndirectCallToNull")
         \/ /\ index < Len(Table) /\ callee # 0
            /\ Fetch.op = "CallIndirect"
            /\ Len(callStack) >= N_MAX_RECURSION_DEPTH
            /\ Trapped("StackOverflow")
         \/ /\ index < Len(Table) /\ callee # 0
            /\ IF Fetch.op = "CallIndirect"
                 THEN PushCall(callee, ip + 2, Dropped(1))
                 ELSE Jump(callee, Dropped(1), callStack)
            /\ lastSignature' = Fetch.imm
            /\ UNCHANGED <<consumedFuel, fuelLimit, globals>>

----------------------------------------------------------------------------
(* invoke_syscall: visit_call and visit_return_call advance ip, make room  *)
(* for max(params, results) values, pop the parameters and run the handler.*)

VisitCall ==
  /\ At({"Call", "ReturnCall"})
  /\ LET func == Fetch.imm IN
     \/ /\ ReserveFits(Len(stack), SysValues[func])
        /\ Len(stack) >= SysParams[func]
        /\ phase' = "syscall"
        /\ syscall' = func
        /\ ip' = ip + 1
        /\ entries' = Reserved(Len(stack), SysValues[func], entries)
        /\ stack' = Dropped(SysParams[func])
        /\ UNCHANGED <<module, callStack, resultLen, outcome, storeVars>>
     \/ /\ ~ReserveFits(Len(stack), SysValues[func])
        /\ Trapped("StackOverflow")

\* The handler charges fuel through the caller (RwasmCaller::try_consume_fuel).
HandlerCharges(delta) ==
  /\ phase = "syscall"
  /\ FuelSuffices(delta)
  /\ consumedFuel' = ChargedFuel(delta)
  /\ UNCHANGED <<runVars, fuelLimit, lastSignature, globals>>

\* Mutant: the handler's results are not pushed.
SyscallOkDropped(results) ==
  /\ phase = "syscall"
  /\ phase' = "running"
  /\ syscall' = 0
  /\ UNCHANGED <<module, ip, stack, entries, callStack, resultLen, outcome, storeVars>>

\* Ok(()): the results are pushed and the loop goes on.
SyscallOk(results) ==
  /\ phase = "syscall"
  /\ phase' = "running"
  /\ stack' = stack \o results
  /\ syscall' = 0
  /\ UNCHANGED <<module, ip, entries, callStack, resultLen, outcome, storeVars>>

\* Err(ExecutionHalted) and any other trap end the run.
SyscallTrap(trap) ==
  /\ phase = "syscall"
  /\ Trapped(trap)

----------------------------------------------------------------------------
\* The results a handler may return for a syscall.
SysReturns(func) == [1 .. SysResults[func] -> HandlerWords]

\* run_the_loop, one opcode a step.
VisitStackOp ==
  \/ VisitLocalGet \/ VisitLocalSet \/ VisitLocalTee \/ VisitDrop \/ VisitSelect
  \/ VisitConst \/ VisitBulkConst \/ VisitBulkDrop
  \/ VisitUnary \/ VisitBinary \/ VisitWide
  \/ VisitGlobalGet \/ VisitGlobalSet

VisitSystemOp ==
  \/ VisitConsumeFuel \/ VisitConsumeFuelStack \/ VisitSignatureCheck \/ VisitStackCheck

VisitControlOp ==
  \/ VisitTrap \/ VisitBr \/ VisitBrIf \/ VisitBrTable \/ VisitReturn
  \/ VisitCallInternal \/ VisitReturnCallInternal \/ VisitIndirect

Visit == VisitStackOp \/ VisitSystemOp \/ VisitControlOp \/ VisitCall

HandlerReturns ==
  \/ phase = "syscall" /\ \E results \in SysReturns(syscall) : SyscallOk(results)
  \/ \E trap \in HandlerTraps \cup {"ExecutionHalted"} : SyscallTrap(trap)

Handler ==
  \/ \E delta \in HandlerFuel : HandlerCharges(delta)
  \/ HandlerReturns

Host ==
  \/ \E m \in Modules : Entrypoint(m)
  \/ \E m \in Modules : \E params \in ParamSets[m] : Execute(m, params)
  \/ StoreReset
  \/ \E limit \in FuelLimits : ResetFuel(limit)

Init ==
  /\ phase = "idle"
  /\ module \in Modules
  /\ ip = 0
  /\ stack = <<>>
  /\ entries = N_DEFAULT_STACK_SIZE
  /\ callStack = <<>>
  /\ syscall = 0
  /\ resultLen = 0
  /\ outcome = [ok |-> TRUE, trap |-> "none", result |-> <<>>]
  /\ consumedFuel = 0
  /\ fuelLimit \in FuelLimits
  /\ lastSignature = NoSignature
  /\ globals = [g \in Globals |-> 0]

Next == Visit \/ Handler \/ Host

Spec == Init /\ [][Next]_vars

----------------------------------------------------------------------------
TypeOK ==
  /\ phase \in {"idle", "running", "syscall"}
  /\ module \in Modules
  /\ ip \in Int
  /\ stack \in Seq(Word)
  /\ entries \in Nat
  /\ callStack \in Seq(Nat)
  /\ syscall \in SysFuncs \cup {0}
  /\ phase = "syscall" => syscall \in SysFuncs
  /\ resultLen \in Nat
  /\ consumedFuel \in 0 .. MaxFuel
  /\ fuelLimit \in FuelLimits
  /\ lastSignature \in Nat \cup {NoSignature}
  /\ globals \in [Globals -> Word]

\* The instruction pointer and every return address stay inside the module's
\* code: the interpreter fetches opcodes through raw pointers and never checks.
PcInCode ==
  phase # "idle" =>
    /\ ip \in 0 .. Len(Code[module]) - 1
    /\ \A i \in DOMAIN callStack : callStack[i] < Len(Code[module])

\* Pushes are unchecked writes (ValueStackPtr::push): the slots that reserve made
\* in advance, from the heights the compiler computed, always cover them.
StackInBounds ==
  phase # "idle" => Len(stack) <= entries /\ Len(stack) <= N_MAX_STACK_SIZE

\* Guest recursion, direct or through a table, is bounded.
CallDepthBounded == Len(callStack) <= N_MAX_RECURSION_DEPTH

\* A metered store never records more fuel than its limit, whoever charges it.
FuelWithinLimit == fuelLimit # NoLimit => consumedFuel <= fuelLimit

\* The signature an indirect call leaves in the store is consumed by the callee's
\* check before anything else runs: no later call, run or host sees a stale one.
NoStaleSignature ==
  lastSignature # NoSignature =>
    At({"SignatureCheck"})

\* However a run ends, nothing of it is left: run's own assertion that "after
\* execution the value stack must be empty", and the call stack with it.
CleanExit == phase = "idle" => stack = <<>> /\ callStack = <<>>

\* The interpreter and the host's handlers keep going; the host need not call.
Fairness == WF_vars(Visit) /\ WF_vars(HandlerReturns)

\* Metered code always hands control back, even in an endless loop: it halts, traps
\* or reaches a syscall.  (A limit of u64::MAX is as good as no limit: the counter
\* saturates there and OutOfFuel is never raised.)
MeteredCodeYields ==
  (phase = "running" /\ fuelLimit # NoLimit /\ fuelLimit # MaxFuel) ~> (phase # "running")

\* The fuel left to the guest, as StoreTr::remaining_fuel reports it.
RemainingFuel == IF fuelLimit = NoLimit THEN NoLimit ELSE fuelLimit - consumedFuel

\* Only the host and its handlers can refill the tank: while guest code runs the
\* fuel left never grows.
Meter == INSTANCE FuelMeter
           WITH Budgets <- FuelLimits, Unlimited <- NoLimit,
                remaining <- RemainingFuel, guest <- (phase = "running")
MeteredLikeATank == Meter!Spec
=============================================================================
