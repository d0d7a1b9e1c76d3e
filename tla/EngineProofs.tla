---------------------------- MODULE EngineProofs ----------------------------
(***************************************************************************)
(* Proofs about module Engine: a run that a handler interrupts is saved    *)
(* whole, can be resumed as it stands, and is then the run it would have   *)
(* been had the handler answered at once.                                  *)
(*                                                                         *)
(* The inductive invariant EngineInv is the interpreter's, and for a       *)
(* suspended run the same of the saved context.  Most steps of the engine  *)
(* are steps of the interpreter beside an untouched context (LiveSteps).   *)
(***************************************************************************)
EXTENDS EngineFrames, ShapeProofs

\* What a step of the engine does, but for saving a run and taking it up again: it is a
\* step of the interpreter, and beside a suspended run only the host has any.
LEMMA LiveSteps ==
  ASSUME [EngineNext]_engineVars, ~Interrupt,
         ~\E results \in SysReturns(resumable.func) : Suspended /\ Resume(results)
  PROVE  /\ [Next]_vars /\ resumable' = resumable
         /\ Suspended /\ phase = "idle" =>
              StoreReset \/ (\E limit \in FuelLimits : ResetFuel(limit)) \/ UNCHANGED vars
<1>1. CASE UNCHANGED engineVars
  BY <1>1 DEF engineVars
<1>2. CASE (Visit \/ Handler) /\ UNCHANGED resumable
  <2>1. phase # "idle"
    <3>1. CASE Handler
      BY <3>1 DEF Handler, HandlerCharges, HandlerReturns, SyscallOk, SyscallTrap
    <3>2. CASE VisitStackOp
      BY <3>2 DEF VisitStackOp, VisitLocalGet, VisitLocalSet, VisitLocalTee, VisitDrop,
           VisitSelect, VisitConst, VisitBulkConst, VisitBulkDrop, VisitUnary, VisitBinary,
           VisitWide, VisitGlobalGet, VisitGlobalSet, At
    <3>3. CASE VisitSystemOp \/ VisitCall
      BY <3>3 DEF VisitSystemOp, VisitConsumeFuel, VisitConsumeFuelStack, VisitSignatureCheck,
           VisitStackCheck, VisitCall, At
    <3>4. CASE VisitControlOp
      BY <3>4 DEF VisitControlOp, VisitTrap, VisitBr, VisitBrIf, VisitBrTable, VisitReturn,
           VisitCallInternal, VisitReturnCallInternal, VisitIndirect, At
    <3> QED BY <1>2, <3>1, <3>2, <3>3, <3>4 DEF Visit
  <2> QED BY <1>2, <2>1 DEF Next
<1>3. CASE EngineHost
  <2>1. CASE ~Suspended /\ Host /\ UNCHANGED resumable
    BY <2>1 DEF Next
  <2>2. CASE Suspended /\ (\E limit \in FuelLimits : ResetFuel(limit)) /\ UNCHANGED resumable
    BY <2>2 DEF Next, Host
  <2>3. CASE ResetSuspended /\ UNCHANGED resumable
    BY <2>3 DEF ResetSuspended, Next, Host
  <2> QED BY <1>3, <2>1, <2>2, <2>3 DEF EngineHost
<1> QED BY <1>1, <1>2, <1>3 DEF EngineNext

\* A run is saved with its frames, and leaves nothing behind.
LEMMA InterruptInv ==
  ASSUME Shaped, EngineInv, Interrupt
  PROVE  EngineInv'
<1>0. TypeOK /\ FramesInv /\ CallDepthBounded /\ FuelWithinLimit /\ phase = "syscall"
  BY DEF EngineInv, Interrupt
<1>1. /\ resumable' = [module |-> module, ip |-> ip, stack |-> stack, entries |-> entries,
                        callStack |-> callStack, func |-> syscall]
      /\ phase' = "idle" /\ ip' = 0 /\ entries' = N_DEFAULT_STACK_SIZE /\ syscall' = 0
      /\ stack' = <<>> /\ callStack' = <<>>
      /\ UNCHANGED <<module, resultLen, consumedFuel, fuelLimit, lastSignature, globals>>
  BY DEF Interrupt, Leave, storeVars
<1>2. TypeOK'
  <2>1. <<>> \in Seq(Word) /\ <<>> \in Seq(Nat) /\ N_DEFAULT_STACK_SIZE \in Nat
    BY LimitsAssumption
  <2> QED BY <1>0, <1>1, <2>1 DEF TypeOK
<1>3. lastSignature = NoSignature
  BY <1>0 DEF FramesInv
<1>4. FramesInv'
  BY <1>1, <1>3 DEF FramesInv
<1>5. CallDepthBounded' /\ FuelWithinLimit' /\ Unreported'
  <2>1. Len(<<>>) = 0 /\ N_MAX_RECURSION_DEPTH \in Nat
    BY LimitsAssumption
  <2> QED BY <1>0, <1>1, <2>1 DEF CallDepthBounded, FuelWithinLimit, Unreported
<1>6. ContextFrames'
  <2>1. resumable' \in ReusableContext
    BY <1>0, <1>1 DEF TypeOK, ReusableContext
  <2>2. Len(callStack) <= N_MAX_RECURSION_DEPTH
    BY <1>0 DEF CallDepthBounded
  <2>3. HasFrames(module, ip, Len(stack) + SysResults[syscall], entries, callStack, resultLen,
                  NoSignature)
    BY <1>0, <1>3 DEF FramesInv, Height
  <2> QED BY <1>1, <1>3, <2>1, <2>2, <2>3 DEF ContextFrames
<1> QED BY <1>2, <1>4, <1>5, <1>6 DEF EngineInv

\* The slots of a saved run cover the results it waits for: its answer is pushed without
\* growing the stack.
LEMMA ResumeFits ==
  ASSUME Shaped, ContextFrames, Suspended
  PROVE  /\ resumable \in ReusableContext
         /\ Len(resumable.stack) \in Nat /\ SysResults[resumable.func] \in Nat
         /\ resumable.ip \in Live(resumable.module)
         /\ Len(resumable.stack) + SysResults[resumable.func] <= resumable.entries
         /\ Len(resumable.stack) + SysResults[resumable.func] <= N_MAX_STACK_SIZE
<1> DEFINE h == Len(resumable.stack) + SysResults[resumable.func]
<1>1. /\ resumable \in ReusableContext
      /\ HasFrames(resumable.module, resumable.ip, h, resumable.entries, resumable.callStack,
                   resultLen, NoSignature)
  BY DEF ContextFrames
<1>2. /\ resumable.module \in Modules /\ resumable.callStack \in Seq(Nat)
      /\ resumable.entries \in Nat /\ resumable.stack \in Seq(Word) /\ resumable.func \in SysFuncs
  BY <1>1 DEF ReusableContext
<1>3. Len(resumable.stack) \in Nat /\ SysResults[resumable.func] \in Nat
  BY <1>2, LenProperties, SyscallAssumption
<1>4. h \in Nat
  BY <1>3
<1> HIDE DEF h
<1>5. resumable.ip \in Live(resumable.module) /\ Exist(h, resumable.entries)
  BY <1>1, <1>2, <1>4, FrameOnStack
<1> QED BY <1>1, <1>3, <1>5 DEF Exist, h

\* The answer a host may resume with is as long as the syscall's results.
LEMMA AnswerTyped ==
  ASSUME NEW func \in SysFuncs, NEW results \in SysReturns(func)
  PROVE  results \in Seq(Word) /\ Len(results) = SysResults[func]
<1>1. SysResults[func] \in Nat
  BY SyscallAssumption
<1>2. results \in [1 .. SysResults[func] -> Word]
  BY LimitsAssumption DEF SysReturns
<1> QED BY <1>1, <1>2, FunctionLen

\* The parts of a resumed run: it is running again, with the answer on its stack.
LEMMA Resumed ==
  ASSUME Shaped, EngineInv, Suspended,
         NEW results \in SysReturns(resumable.func), Resume(results)
  PROVE  /\ results \in Seq(Word) /\ Len(results) = SysResults[resumable.func]
         /\ ReserveFits(Len(resumable.stack), Len(results))
         /\ Reserved(Len(resumable.stack), Len(results), resumable.entries) = resumable.entries
         /\ resumable' = NoContext /\ phase = "idle" /\ phase' = "running"
         /\ module' = resumable.module /\ ip' = resumable.ip
         /\ stack' = resumable.stack \o results /\ entries' = resumable.entries
         /\ callStack' = resumable.callStack /\ syscall' = 0
         /\ outcome' = [ok |-> FALSE, trap |-> "none", result |-> <<>>]
         /\ UNCHANGED <<resultLen, consumedFuel, fuelLimit, lastSignature, globals>>
<1>1. /\ Len(resumable.stack) \in Nat /\ SysResults[resumable.func] \in Nat
      /\ resumable.func \in SysFuncs /\ resumable.entries \in Nat /\ N_MAX_STACK_SIZE \in Nat
      /\ Len(resumable.stack) + SysResults[resumable.func] <= resumable.entries
      /\ Len(resumable.stack) + SysResults[resumable.func] <= N_MAX_STACK_SIZE
  BY ResumeFits, LimitsAssumption DEF EngineInv, ReusableContext
<1>2. results \in Seq(Word) /\ Len(results) = SysResults[resumable.func]
  BY <1>1, AnswerTyped
<1>3. ReserveFits(Len(resumable.stack), Len(results))
  BY <1>1, <1>2 DEF ReserveFits
<1>4. Reserved(Len(resumable.stack), Len(results), resumable.entries) = resumable.entries
  BY <1>1, <1>2 DEF Reserved
<1>5. /\ resumable' = NoContext /\ phase = "idle"
      /\ Start(resumable.module, resumable.ip, resumable.stack, resumable.entries,
               resumable.callStack, results, resultLen)
  BY DEF Resume
<1> QED BY <1>2, <1>3, <1>4, <1>5 DEF Start, storeVars

\* A resumed run has the frames that were saved.
LEMMA ResumeInv ==
  ASSUME Shaped, EngineInv, Suspended,
         NEW results \in SysReturns(resumable.func), Resume(results)
  PROVE  EngineInv'
<1>0. TypeOK /\ FramesInv /\ ContextFrames /\ FuelWithinLimit
  BY DEF EngineInv
<1>1. /\ results \in Seq(Word) /\ Len(results) = SysResults[resumable.func]
      /\ ReserveFits(Len(resumable.stack), Len(results))
      /\ Reserved(Len(resumable.stack), Len(results), resumable.entries) = resumable.entries
      /\ resumable' = NoContext /\ phase' = "running"
      /\ callStack' = resumable.callStack
      /\ outcome' = [ok |-> FALSE, trap |-> "none", result |-> <<>>]
      /\ UNCHANGED <<consumedFuel, fuelLimit>>
  BY Resumed
<1>2. Start(resumable.module, resumable.ip, resumable.stack, resumable.entries,
            resumable.callStack, results, resultLen)
  BY DEF Resume
<1>3. /\ resumable.module \in Modules /\ resumable.ip \in Int /\ resumable.stack \in Seq(Word)
      /\ resumable.entries \in Nat /\ resumable.callStack \in Seq(Nat) /\ resultLen \in Nat
  BY <1>0 DEF ContextFrames, ReusableContext, TypeOK
<1>4. /\ lastSignature = NoSignature /\ Len(resumable.callStack) <= N_MAX_RECURSION_DEPTH
      /\ HasFrames(resumable.module, resumable.ip, Len(resumable.stack) + Len(results),
                   resumable.entries, resumable.callStack, resultLen, NoSignature)
  BY <1>0, <1>1 DEF ContextFrames
<1>5. TypeOK'
  BY <1>0, <1>1, <1>2, <1>3, StartTypes
<1>6. FramesInv'
  <2>1. HasFrames(resumable.module, resumable.ip, Len(resumable.stack) + Len(results),
                  Reserved(Len(resumable.stack), Len(results), resumable.entries),
                  resumable.callStack, resultLen, NoSignature)
    BY <1>1, <1>4
  <2> QED BY <1>1, <1>2, <1>3, <1>4, <2>1, StartFrames
<1>7. CallDepthBounded' /\ FuelWithinLimit' /\ Unreported' /\ ContextFrames'
  BY <1>0, <1>1, <1>4
     DEF CallDepthBounded, FuelWithinLimit, Unreported, ContextFrames, Suspended
<1> QED BY <1>5, <1>6, <1>7 DEF EngineInv

\* What the host is told changes when a run ends, and is cleared when one begins.
LEMMA OutcomeSteps ==
  ASSUME [Next]_vars
  PROVE  \/ phase' = "idle"
         \/ phase # "idle" /\ UNCHANGED outcome
         \/ outcome' = [ok |-> FALSE, trap |-> "none", result |-> <<>>]
         \/ UNCHANGED <<phase, outcome>>
<1>1. ASSUME NEW trap, Trapped(trap)
      PROVE  phase' = "idle"
  BY <1>1 DEF Trapped, TrapOut, Leave
<1>2. CASE VisitStackOp
  <2>1. VisitGlobalSet \/ (\E s : StackStep(s)) \/ (\E trap : Trapped(trap))
    BY <1>2 DEF VisitStackOp, VisitLocalGet, VisitLocalSet, VisitLocalTee, VisitDrop,
         VisitSelect, VisitConst, VisitBulkConst, VisitBulkDrop, VisitUnary, VisitBinary,
         VisitWide, VisitGlobalGet
  <2> QED BY <1>1, <2>1 DEF VisitGlobalSet, StackStep
<1>3. CASE VisitSystemOp
  BY <1>1, <1>3 DEF VisitSystemOp, VisitConsumeFuel, VisitConsumeFuelStack, VisitSignatureCheck,
       VisitStackCheck, Charge
<1>4. CASE VisitControlOp
  BY <1>1, <1>4 DEF VisitControlOp, VisitTrap, VisitBr, VisitBrIf, VisitBrTable, VisitReturn,
       VisitCallInternal, VisitReturnCallInternal, VisitIndirect, PushCall, Jump, Leave
<1>5. CASE VisitCall
  BY <1>1, <1>5 DEF VisitCall, At
<1>6. CASE Handler
  BY <1>1, <1>6 DEF Handler, HandlerCharges, HandlerReturns, SyscallOk, SyscallTrap, runVars
<1>7. CASE Host
  BY <1>7 DEF Host, Entrypoint, Execute, Start, StoreReset, ResetFuel, runVars
<1>8. CASE UNCHANGED vars
  BY <1>8 DEF vars, runVars
<1> QED BY <1>2, <1>3, <1>4, <1>5, <1>6, <1>7, <1>8 DEF Next, Visit

\* The interpreter keeps its own invariant, and its host leaves a saved run alone.
LEMMA LiveInv ==
  ASSUME Shaped, EngineInv, [Next]_vars, resumable' = resumable,
         Suspended /\ phase = "idle" =>
           StoreReset \/ (\E limit \in FuelLimits : ResetFuel(limit)) \/ UNCHANGED vars
  PROVE  EngineInv'
<1>1. TypeOK' /\ FramesInv' /\ CallDepthBounded' /\ FuelWithinLimit'
  BY NextTypes, FramesStep, DepthStep, LimitStep DEF EngineInv
<1>2. Unreported'
  BY OutcomeSteps DEF EngineInv, Unreported
<1>3. ContextFrames'
  <2>1. CASE ~Suspended
    BY <2>1 DEF ContextFrames, Suspended
  <2>2. CASE Suspended
    <3>1. ContextFrames /\ phase = "idle"
      BY <2>2 DEF EngineInv, ContextFrames
    <3>2. UNCHANGED <<phase, resultLen>> /\ lastSignature' \in {lastSignature, NoSignature}
      BY <2>2, <3>1 DEF StoreReset, ResetFuel, vars, runVars, storeVars
    <3> QED BY <2>2, <3>1, <3>2 DEF ContextFrames
  <2> QED BY <2>1, <2>2
<1> QED BY <1>1, <1>2, <1>3 DEF EngineInv

\* Every step of the engine keeps its invariant.
LEMMA EngineStep == Shaped /\ EngineInv /\ [EngineNext]_engineVars => EngineInv'
<1> SUFFICES ASSUME Shaped, EngineInv, [EngineNext]_engineVars PROVE EngineInv'
  OBVIOUS
<1>1. CASE Interrupt
  BY <1>1, InterruptInv
<1>2. CASE \E results \in SysReturns(resumable.func) : Suspended /\ Resume(results)
  BY <1>2, ResumeInv
<1>3. CASE /\ ~Interrupt
           /\ ~\E results \in SysReturns(resumable.func) : Suspended /\ Resume(results)
  BY <1>3, LiveSteps, LiveInv
<1> QED BY <1>1, <1>2, <1>3

\* Whatever handlers interrupt and however often the host resets the store, a saved run
\* keeps the frames it was saved with and a live one its own.
THEOREM ContextKept ==
  ASSUME Shaped
  PROVE  EngineSpec => [](EngineInv /\ ContextFrames)
<1>1. EngineInit => EngineInv
  <2> SUFFICES ASSUME EngineInit PROVE EngineInv
    OBVIOUS
  <2>1. TypeOK
    BY InitTypes DEF EngineInit
  <2>2. Len(<<>>) = 0 /\ 0 <= N_MAX_RECURSION_DEPTH
    BY LimitsAssumption
  <2>3. CallDepthBounded /\ FuelWithinLimit
    BY <2>2, LimitsAssumption DEF EngineInit, Init, CallDepthBounded, FuelWithinLimit
  <2> QED BY <2>1, <2>3 DEF EngineInit, Init, EngineInv, Unreported, FramesInv, ContextFrames,
           Suspended
<1>2. EngineInv /\ [EngineNext]_engineVars => EngineInv'
  BY EngineStep
<1>3. EngineInv => ContextFrames
  BY DEF EngineInv
<1> QED BY <1>1, <1>2, <1>3, PTL DEF EngineSpec

\* A suspended run is all in the saved context and can be resumed as it stands: its
\* program counter is in the code, its calls within the limit, and its slots hold the
\* results that resume pushes.
THEOREM SuspensionIsWhole ==
  ASSUME Shaped
  PROVE  EngineSpec => []SuspendedIntact
<1>1. ASSUME EngineInv, Suspended
      PROVE  resumable.ip < Len(Code[resumable.module])
  <2>1. resumable.module \in Modules /\ resumable.ip \in Live(resumable.module)
    BY <1>1, ResumeFits DEF EngineInv, ReusableContext
  <2> QED BY <2>1, ShapeAt
<1>2. EngineInv => SuspendedIntact
  BY <1>1, ResumeFits DEF EngineInv, ContextFrames, SuspendedIntact
<1> QED BY <1>2, ContextKept, PTL

\* The frames of a run are at offsets of its code.
LEMMA FramesInCode == Shaped /\ TypeOK /\ FramesInv => PcInCode
<1> SUFFICES ASSUME Shaped, TypeOK, FramesInv, phase # "idle"
             PROVE  /\ ip \in 0 .. Len(Code[module]) - 1
                    /\ \A i \in DOMAIN callStack : callStack[i] < Len(Code[module])
  BY DEF PcInCode
<1>1. /\ module \in Modules /\ callStack \in Seq(Nat) /\ DOMAIN callStack = 1 .. Len(callStack)
      /\ HasFrames(module, ip, Height, entries, callStack, resultLen, lastSignature)
  BY LenProperties DEF TypeOK, FramesInv
<1>2. ip \in Live(module) /\ \A i \in 1 .. Len(callStack) : callStack[i] \in Live(module)
  BY <1>1 DEF HasFrames, Framed
<1>3. \A pc \in Live(module) : pc \in 0 .. Len(Code[module]) - 1 /\ pc < Len(Code[module])
  BY <1>1, ShapeAt
<1> QED BY <1>1, <1>2, <1>3

\* With interruptions too, the unchecked fetches, pushes and pops stay within the code and
\* the stack, and a signature that is pending is the running function's to check.
THEOREM EngineRunsSafe ==
  ASSUME Shaped
  PROVE  EngineSpec => [](/\ PcInCode /\ StackInBounds /\ OperandsPresent
                          /\ CleanExit /\ NoStaleSignature)
<1>1. EngineInv => PcInCode /\ StackInBounds /\ OperandsPresent
  BY FramesInCode, FramesInBounds, FramesSupply DEF EngineInv
<1>2. EngineInv => CleanExit
  BY DEF EngineInv, FramesInv, CleanExit
<1>3. EngineInv => NoStaleSignature
  <2> SUFFICES ASSUME EngineInv, lastSignature # NoSignature PROVE At({"SignatureCheck"})
    BY DEF NoStaleSignature
  <2>1. phase = "running"
    BY DEF EngineInv, FramesInv, TypeOK
  <2> QED BY <2>1, RunningFrame DEF EngineInv, At
<1> QED BY <1>1, <1>2, <1>3, ContextKept, PTL

\* Fuel stays a tank that guest code only drains: neither an interruption nor a
\* resumption touches it.
THEOREM EngineImplementsMeter ==
  ASSUME Shaped
  PROVE  EngineSpec => MeteredLikeATank
<1>1. EngineInit => Meter!Init
  BY LimitsAssumption DEF EngineInit, Init, Meter!Init, RemainingFuel
<1>2. ASSUME EngineInv, [EngineNext]_engineVars
      PROVE  [Meter!Next]_<<RemainingFuel, phase = "running">>
  <2>1. CASE Interrupt
    BY <2>1 DEF Interrupt, storeVars, RemainingFuel, Meter!Next
  <2>2. CASE \E results \in SysReturns(resumable.func) : Suspended /\ Resume(results)
    BY <2>2 DEF Resume, Start, storeVars, RemainingFuel, Meter!Next
  <2>3. CASE /\ ~Interrupt
             /\ ~\E results \in SysReturns(resumable.func) : Suspended /\ Resume(results)
    BY <1>2, <2>3, LiveSteps, MeterStep DEF EngineInv
  <2> QED BY <2>1, <2>2, <2>3
<1>3. EngineInv /\ [EngineNext]_engineVars => [Meter!Next]_<<RemainingFuel, phase = "running">>
  BY <1>2
<1> QED BY <1>1, <1>3, ContextKept, PTL DEF EngineSpec, MeteredLikeATank, Meter!Spec

----------------------------------------------------------------------------
(* Transparency: the steps of the engine as steps of the interpreter whose *)
(* handler has not returned yet.                                           *)

\* While no run is suspended the mapping is the identity.
LiveMapping ==
  /\ SavedOr("syscall", phase) = phase
  /\ SavedOr(resumable.module, module) = module
  /\ SavedOr(resumable.ip, ip) = ip
  /\ SavedOr(resumable.stack, stack) = stack
  /\ SavedOr(resumable.entries, entries) = entries
  /\ SavedOr(resumable.callStack, callStack) = callStack
  /\ SavedOr(resumable.func, syscall) = syscall
  /\ SavedOr([ok |-> FALSE, trap |-> "none", result |-> <<>>], outcome) = outcome

\* While no run is suspended the mapping shows the interpreter as it is.
LEMMA LiveMapped == ~Suspended => LiveMapping
BY DEF LiveMapping, SavedOr

\* What every opcode is built from is then the same on both sides.
LEMMA LiveReads ==
  ASSUME LiveMapping
  PROVE  /\ Uninterrupted!Fetch = Fetch
         /\ \A ops : Uninterrupted!At(ops) <=> At(ops)
         /\ \A n : Uninterrupted!NthBack(n) = NthBack(n)
         /\ \A n : Uninterrupted!Dropped(n) = Dropped(n)
         /\ \A d : Uninterrupted!FuelSuffices(d) <=> FuelSuffices(d)
         /\ \A d : Uninterrupted!ChargedFuel(d) = ChargedFuel(d)
         /\ \A m, n : Uninterrupted!ReserveFits(m, n) <=> ReserveFits(m, n)
         /\ \A m, n, e : Uninterrupted!Reserved(m, n, e) = Reserved(m, n, e)
BY DEF LiveMapping, Fetch, At, NthBack, Dropped, FuelSuffices, ChargedFuel, ReserveFits, Reserved,
   Uninterrupted!Fetch, Uninterrupted!At, Uninterrupted!NthBack, Uninterrupted!Dropped,
   Uninterrupted!FuelSuffices, Uninterrupted!ChargedFuel, Uninterrupted!ReserveFits,
   Uninterrupted!Reserved

\* And so is what they assign.
LEMMA LiveWrites ==
  ASSUME LiveMapping, LiveMapping'
  PROVE  /\ \A s : StackStep(s) => Uninterrupted!StackStep(s)
         /\ \A trap : Trapped(trap) => Uninterrupted!Trapped(trap)
         /\ \A q, s, c : Jump(q, s, c) => Uninterrupted!Jump(q, s, c)
         /\ \A q, r, s : PushCall(q, r, s) => Uninterrupted!PushCall(q, r, s)
         /\ \A d, s : Charge(d, s) => Uninterrupted!Charge(d, s)
         /\ \A res : Leave(res) => Uninterrupted!Leave(res)
BY LiveReads DEF LiveMapping, StackStep, Trapped, TrapOut, Leave, Jump, PushCall, Charge, storeVars,
   Uninterrupted!StackStep, Uninterrupted!Trapped, Uninterrupted!TrapOut, Uninterrupted!Leave,
   Uninterrupted!Jump, Uninterrupted!PushCall, Uninterrupted!Charge, Uninterrupted!storeVars

\* Opcode by opcode: those that compute on the value stack.
LEMMA LiveStackOps ==
  ASSUME LiveMapping, LiveMapping', VisitStackOp
  PROVE  Uninterrupted!VisitStackOp
<1>1. /\ VisitLocalGet => Uninterrupted!VisitLocalGet
      /\ VisitLocalSet => Uninterrupted!VisitLocalSet
      /\ VisitLocalTee => Uninterrupted!VisitLocalTee
  BY LiveReads, LiveWrites DEF LiveMapping, VisitLocalGet, VisitLocalSet, VisitLocalTee,
       Uninterrupted!VisitLocalGet, Uninterrupted!VisitLocalSet, Uninterrupted!VisitLocalTee
<1>2. /\ VisitDrop => Uninterrupted!VisitDrop
      /\ VisitSelect => Uninterrupted!VisitSelect
      /\ VisitConst => Uninterrupted!VisitConst
      /\ VisitBulkConst => Uninterrupted!VisitBulkConst
      /\ VisitBulkDrop => Uninterrupted!VisitBulkDrop
  BY LiveReads, LiveWrites DEF LiveMapping, VisitDrop, VisitSelect, VisitConst,
       VisitBulkConst, VisitBulkDrop, Uninterrupted!VisitDrop, Uninterrupted!VisitSelect,
       Uninterrupted!VisitConst, Uninterrupted!VisitBulkConst, Uninterrupted!VisitBulkDrop
<1>3. /\ VisitUnary => Uninterrupted!VisitUnary
      /\ VisitBinary => Uninterrupted!VisitBinary
      /\ VisitWide => Uninterrupted!VisitWide
  BY LiveReads, LiveWrites DEF LiveMapping, VisitUnary, VisitBinary, VisitWide,
       Uninterrupted!VisitUnary, Uninterrupted!VisitBinary, Uninterrupted!VisitWide
<1>4. /\ VisitGlobalGet => Uninterrupted!VisitGlobalGet
      /\ VisitGlobalSet => Uninterrupted!VisitGlobalSet
  BY LiveReads, LiveWrites DEF LiveMapping, VisitGlobalGet, VisitGlobalSet,
       Uninterrupted!VisitGlobalGet, Uninterrupted!VisitGlobalSet
<1> QED BY <1>1, <1>2, <1>3, <1>4 DEF VisitStackOp, Uninterrupted!VisitStackOp

\* The checks of fuel, signatures and the stack.
LEMMA LiveSystemOps ==
  ASSUME LiveMapping, LiveMapping', VisitSystemOp
  PROVE  Uninterrupted!VisitSystemOp
<1>1. /\ VisitConsumeFuel => Uninterrupted!VisitConsumeFuel
      /\ VisitConsumeFuelStack => Uninterrupted!VisitConsumeFuelStack
  BY LiveReads, LiveWrites DEF LiveMapping, VisitConsumeFuel, VisitConsumeFuelStack,
       Uninterrupted!VisitConsumeFuel, Uninterrupted!VisitConsumeFuelStack
<1>2. /\ VisitSignatureCheck => Uninterrupted!VisitSignatureCheck
      /\ VisitStackCheck => Uninterrupted!VisitStackCheck
  BY LiveReads, LiveWrites DEF LiveMapping, storeVars, VisitSignatureCheck, VisitStackCheck,
       Uninterrupted!storeVars, Uninterrupted!VisitSignatureCheck,
       Uninterrupted!VisitStackCheck
<1> QED BY <1>1, <1>2 DEF VisitSystemOp, Uninterrupted!VisitSystemOp

\* Branches, calls and returns.
LEMMA LiveControlOps ==
  ASSUME LiveMapping, LiveMapping', VisitControlOp
  PROVE  Uninterrupted!VisitControlOp
<1>1. /\ VisitTrap => Uninterrupted!VisitTrap
      /\ VisitBr => Uninterrupted!VisitBr
      /\ VisitBrIf => Uninterrupted!VisitBrIf
      /\ VisitBrTable => Uninterrupted!VisitBrTable
  BY LiveReads, LiveWrites DEF LiveMapping, storeVars, VisitTrap, VisitBr, VisitBrIf,
       VisitBrTable, Uninterrupted!storeVars, Uninterrupted!VisitTrap,
       Uninterrupted!VisitBr, Uninterrupted!VisitBrIf, Uninterrupted!VisitBrTable
<1>2. VisitReturn => Uninterrupted!VisitReturn
  BY LiveReads, LiveWrites DEF LiveMapping, storeVars, VisitReturn, Uninterrupted!storeVars,
       Uninterrupted!VisitReturn
<1>3. /\ VisitCallInternal => Uninterrupted!VisitCallInternal
      /\ VisitReturnCallInternal => Uninterrupted!VisitReturnCallInternal
  BY LiveReads, LiveWrites DEF LiveMapping, storeVars, VisitCallInternal,
       VisitReturnCallInternal, Uninterrupted!storeVars, Uninterrupted!VisitCallInternal,
       Uninterrupted!VisitReturnCallInternal
<1>4. VisitIndirect => Uninterrupted!VisitIndirect
  BY LiveReads, LiveWrites DEF LiveMapping, IndirectOps, TableFetched, Table, VisitIndirect,
       Uninterrupted!IndirectOps, Uninterrupted!TableFetched, Uninterrupted!Table,
       Uninterrupted!VisitIndirect
<1> QED BY <1>1, <1>2, <1>3, <1>4 DEF VisitControlOp, Uninterrupted!VisitControlOp

\* Syscalls, and what their handlers do.
LEMMA LiveHandlers ==
  ASSUME LiveMapping, LiveMapping', VisitCall \/ Handler
  PROVE  Uninterrupted!VisitCall \/ Uninterrupted!Handler
<1>1. VisitCall => Uninterrupted!VisitCall
  BY LiveReads, LiveWrites DEF LiveMapping, storeVars, VisitCall, Uninterrupted!storeVars,
       Uninterrupted!VisitCall
<1>2. \A delta : HandlerCharges(delta) => Uninterrupted!HandlerCharges(delta)
  BY LiveReads DEF LiveMapping, runVars, HandlerCharges, Uninterrupted!runVars,
       Uninterrupted!HandlerCharges
<1>3. HandlerReturns => Uninterrupted!HandlerReturns
  BY LiveWrites DEF LiveMapping, storeVars, HandlerReturns, SyscallOk, SyscallTrap, SysReturns,
       Uninterrupted!storeVars, Uninterrupted!HandlerReturns, Uninterrupted!SyscallOk,
       Uninterrupted!SyscallTrap, Uninterrupted!SysReturns
<1> QED BY <1>1, <1>2, <1>3 DEF Handler, Uninterrupted!Handler

\* The host, while nothing is suspended.
LEMMA LiveHost ==
  ASSUME LiveMapping, LiveMapping', Host
  PROVE  Uninterrupted!Host
<1>1. ASSUME NEW m, NEW pc, NEW base, NEW slots, NEW calls, NEW params, NEW results,
             Start(m, pc, base, slots, calls, params, results)
      PROVE  Uninterrupted!Start(m, pc, base, slots, calls, params, results)
  <2>1. CASE ReserveFits(Len(base), Len(params))
    BY <1>1, <2>1, LiveReads DEF LiveMapping, storeVars, Start, Uninterrupted!storeVars,
         Uninterrupted!Start
  <2>2. CASE ~ReserveFits(Len(base), Len(params))
    BY <1>1, <2>2, LiveReads DEF LiveMapping, storeVars, Start, Uninterrupted!storeVars,
         Uninterrupted!Start
  <2> QED BY <2>1, <2>2
<1>2. \A m \in Modules : Entrypoint(m) => Uninterrupted!Entrypoint(m)
  BY <1>1 DEF LiveMapping, Entrypoint, Uninterrupted!Entrypoint
<1>3. \A m \in Modules : \A params \in ParamSets[m] :
        Execute(m, params) => Uninterrupted!Execute(m, params)
  BY <1>1 DEF LiveMapping, Execute, Uninterrupted!Execute
<1>4. /\ StoreReset => Uninterrupted!StoreReset
      /\ \A limit : ResetFuel(limit) => Uninterrupted!ResetFuel(limit)
  BY DEF LiveMapping, runVars, StoreReset, ResetFuel, Uninterrupted!runVars,
       Uninterrupted!StoreReset, Uninterrupted!ResetFuel
<1> QED BY <1>2, <1>3, <1>4 DEF Host, Uninterrupted!Host

\* A step of the interpreter is a step of the one it is mapped to.
LEMMA LiveNext ==
  ASSUME LiveMapping, LiveMapping', [Next]_vars
  PROVE  [Uninterrupted!Next]_(Uninterrupted!vars)
<1>1. CASE UNCHANGED vars
  BY <1>1 DEF LiveMapping, vars, runVars, storeVars, Uninterrupted!vars, Uninterrupted!runVars,
       Uninterrupted!storeVars
<1> QED BY <1>1, LiveStackOps, LiveSystemOps, LiveControlOps, LiveHandlers, LiveHost
        DEF Next, Visit, Uninterrupted!Next, Uninterrupted!Visit

\* While a run is suspended the mapping shows the run as it was saved.
LEMMA SavedMapping ==
  ASSUME Suspended
  PROVE  /\ SavedOr("syscall", phase) = "syscall"
         /\ SavedOr(resumable.module, module) = resumable.module
         /\ SavedOr(resumable.ip, ip) = resumable.ip
         /\ SavedOr(resumable.stack, stack) = resumable.stack
         /\ SavedOr(resumable.entries, entries) = resumable.entries
         /\ SavedOr(resumable.callStack, callStack) = resumable.callStack
         /\ SavedOr(resumable.func, syscall) = resumable.func
         /\ SavedOr([ok |-> FALSE, trap |-> "none", result |-> <<>>], outcome)
              = [ok |-> FALSE, trap |-> "none", result |-> <<>>]
BY DEF SavedOr

\* Saving a run is no step of the run: its handler goes on running.
LEMMA InterruptStutters ==
  ASSUME Shaped, EngineInv, ~Suspended, Interrupt
  PROVE  UNCHANGED Uninterrupted!vars
<1>1. EngineInv' /\ LiveMapping
  BY InterruptInv, LiveMapped
<1>2. /\ resumable' = [module |-> module, ip |-> ip, stack |-> stack, entries |-> entries,
                        callStack |-> callStack, func |-> syscall]
      /\ phase = "syscall" /\ TypeOK /\ Unreported
      /\ UNCHANGED <<resultLen, consumedFuel, fuelLimit, lastSignature, globals>>
  BY DEF Interrupt, Leave, storeVars, EngineInv
<1>3. Suspended'
  <2>1. resumable' \in ReusableContext
    BY <1>2 DEF TypeOK, ReusableContext
  <2> QED BY <2>1, ContextAssumption DEF Suspended
<1>4. outcome = [ok |-> FALSE, trap |-> "none", result |-> <<>>]
  BY <1>2 DEF Unreported
<1>5. /\ SavedOr("syscall", phase)' = "syscall"
      /\ SavedOr(resumable.module, module)' = module
      /\ SavedOr(resumable.ip, ip)' = ip
      /\ SavedOr(resumable.stack, stack)' = stack
      /\ SavedOr(resumable.entries, entries)' = entries
      /\ SavedOr(resumable.callStack, callStack)' = callStack
      /\ SavedOr(resumable.func, syscall)' = syscall
      /\ SavedOr([ok |-> FALSE, trap |-> "none", result |-> <<>>], outcome)' = outcome
  BY <1>2, <1>3, <1>4 DEF SavedOr
<1> QED BY <1>1, <1>2, <1>5
        DEF LiveMapping, Uninterrupted!vars, Uninterrupted!runVars, Uninterrupted!storeVars

\* Resuming is the handler's return: the answer lands where the handler would have put it.
LEMMA ResumeReturns ==
  ASSUME Shaped, EngineInv, Suspended,
         NEW results \in SysReturns(resumable.func), Resume(results)
  PROVE  Uninterrupted!Next
<1>1. /\ resumable' = NoContext /\ phase' = "running"
      /\ module' = resumable.module /\ ip' = resumable.ip
      /\ stack' = resumable.stack \o results /\ entries' = resumable.entries
      /\ callStack' = resumable.callStack /\ syscall' = 0
      /\ outcome' = [ok |-> FALSE, trap |-> "none", result |-> <<>>]
      /\ UNCHANGED <<resultLen, consumedFuel, fuelLimit, lastSignature, globals>>
  BY Resumed
<1>2. LiveMapping'
  BY <1>1 DEF LiveMapping, SavedOr, Suspended
<1>3. results \in Uninterrupted!SysReturns(SavedOr(resumable.func, syscall))
  BY SavedMapping DEF SysReturns, Uninterrupted!SysReturns
<1>4. Uninterrupted!SyscallOk(results)
  BY <1>1, <1>2, SavedMapping
     DEF LiveMapping, Uninterrupted!SyscallOk, Uninterrupted!storeVars
<1>5. SavedOr("syscall", phase) = "syscall"
  BY SavedMapping
<1> QED BY <1>3, <1>4, <1>5
        DEF Uninterrupted!Next, Uninterrupted!Handler, Uninterrupted!HandlerReturns

\* What the host may do to the store meanwhile, the handler may do too; but for the reset.
LEMMA SuspendedHost ==
  ASSUME EngineInv, Suspended, resumable' = resumable,
         StoreReset \/ (\E limit \in FuelLimits : ResetFuel(limit)) \/ UNCHANGED vars
  PROVE  [Uninterrupted!Next \/ FuelRefilled]_(Uninterrupted!vars)
<1>1. Suspended' /\ lastSignature = NoSignature
  BY DEF Suspended, EngineInv, ContextFrames
<1>2. /\ SavedOr("syscall", phase)' = "syscall"
      /\ SavedOr(resumable.module, module)' = resumable.module
      /\ SavedOr(resumable.ip, ip)' = resumable.ip
      /\ SavedOr(resumable.stack, stack)' = resumable.stack
      /\ SavedOr(resumable.entries, entries)' = resumable.entries
      /\ SavedOr(resumable.callStack, callStack)' = resumable.callStack
      /\ SavedOr(resumable.func, syscall)' = resumable.func
      /\ SavedOr([ok |-> FALSE, trap |-> "none", result |-> <<>>], outcome)'
           = [ok |-> FALSE, trap |-> "none", result |-> <<>>]
  BY <1>1 DEF SavedOr
<1>3. CASE StoreReset
  BY <1>1, <1>3 DEF StoreReset, FuelRefilled
<1>4. ASSUME NEW limit \in FuelLimits, ResetFuel(limit)
      PROVE  Uninterrupted!Next
  <2>1. Uninterrupted!ResetFuel(limit)
    BY <1>2, <1>4, SavedMapping DEF ResetFuel, runVars, Uninterrupted!ResetFuel,
       Uninterrupted!runVars
  <2> QED BY <2>1 DEF Uninterrupted!Next, Uninterrupted!Host
<1>5. CASE UNCHANGED vars
  BY <1>2, <1>5, SavedMapping DEF vars, runVars, storeVars, Uninterrupted!vars,
     Uninterrupted!runVars, Uninterrupted!storeVars
<1> QED BY <1>3, <1>4, <1>5

\* A run that is interrupted and resumed, any number of times, is a run of the plain
\* interpreter whose handlers just took their time.
THEOREM InterruptionTransparent ==
  ASSUME Shaped
  PROVE  EngineSpec => InterruptionIsTransparent
<1>1. EngineInit => Uninterrupted!Init
  <2> SUFFICES ASSUME EngineInit PROVE Uninterrupted!Init
    OBVIOUS
  <2>1. LiveMapping
    BY LiveMapped DEF EngineInit, Suspended
  <2> QED BY <2>1 DEF LiveMapping, EngineInit, Init, Uninterrupted!Init
<1>2. ASSUME EngineInv, [EngineNext]_engineVars
      PROVE  [Uninterrupted!Next \/ FuelRefilled]_(Uninterrupted!vars)
  <2>1. CASE Interrupt
    <3>1. ~Suspended
      BY <1>2, <2>1 DEF EngineInv, ContextFrames, Interrupt
    <3> QED BY <1>2, <2>1, <3>1, InterruptStutters
  <2>2. CASE \E results \in SysReturns(resumable.func) : Suspended /\ Resume(results)
    BY <1>2, <2>2, ResumeReturns
  <2>3. CASE /\ ~Interrupt
             /\ ~\E results \in SysReturns(resumable.func) : Suspended /\ Resume(results)
    <3>1. /\ [Next]_vars /\ resumable' = resumable
          /\ Suspended /\ phase = "idle" =>
               StoreReset \/ (\E limit \in FuelLimits : ResetFuel(limit)) \/ UNCHANGED vars
      BY <1>2, <2>3, LiveSteps
    <3>2. CASE ~Suspended
      <4>1. LiveMapping /\ LiveMapping'
        BY <3>1, <3>2 DEF LiveMapping, SavedOr, Suspended
      <4> QED BY <3>1, <4>1, LiveNext
    <3>3. CASE Suspended
      <4>1. phase = "idle"
        BY <1>2, <3>3 DEF EngineInv, ContextFrames
      <4> QED BY <1>2, <3>1, <3>3, <4>1, SuspendedHost
    <3> QED BY <3>2, <3>3
  <2> QED BY <2>1, <2>2, <2>3
<1>3. EngineInv /\ [EngineNext]_engineVars
        => [Uninterrupted!Next \/ FuelRefilled]_(Uninterrupted!vars)
  BY <1>2
<1> QED BY <1>1, <1>3, ContextKept, PTL DEF EngineSpec, InterruptionIsTransparent
=============================================================================
