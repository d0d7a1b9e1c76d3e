------------------------------- MODULE Engine -------------------------------
(***************************************************************************)
(* ExecutionEngine (src/src/vm/engine.rs) over the interpreter of module   *)
(* Executor: a handler may also interrupt the run.  The engine then saves  *)
(* the run in the store (ReusableContext) and returns to the host, which   *)
(* gets the answer some other way and calls resume with it.                *)
(*                                                                         *)
(* The host keeps the protocol the engine states: entrypoint and execute   *)
(* assert that no context is pending, resume panics when none is.  It may  *)
(* reset the store while a run is suspended: reset does not know of it.    *)
(***************************************************************************)
EXTENDS Executor

CONSTANT NoContext        \* resumable_context: None

\* A suspended run, and the syscall whose answer it waits for.
ReusableContext == [module: Modules, ip: Int, stack: Seq(Word), entries: Nat,
                    callStack: Seq(Nat), func: SysFuncs]
ASSUME ContextAssumption == NoContext \notin ReusableContext

VARIABLE resumable        \* store.resumable_context

engineVars == <<vars, resumable>>

Suspended == resumable # NoContext

\* Mutant: the value stack is saved without the slots that were reserved.
InterruptShrunk ==
  /\ phase = "syscall"
  /\ resumable' = [module |-> module, ip |-> ip, stack |-> stack,
                   entries |-> N_DEFAULT_STACK_SIZE, callStack |-> callStack, func |-> syscall]
  /\ Leave([ok |-> FALSE, trap |-> "InterruptionCalled", result |-> <<>>])
  /\ stack' = <<>>
  /\ callStack' = <<>>
  /\ UNCHANGED storeVars

\* Mutant: the saved run is at the call, not behind it.
InterruptBefore ==
  /\ phase = "syscall"
  /\ resumable' = [module |-> module, ip |-> ip - 1, stack |-> stack, entries |-> entries,
                   callStack |-> callStack, func |-> syscall]
  /\ Leave([ok |-> FALSE, trap |-> "InterruptionCalled", result |-> <<>>])
  /\ stack' = <<>>
  /\ callStack' = <<>>
  /\ UNCHANGED storeVars

\* Err(InterruptionCalled) from the handler: ip is past the call and the arguments
\* are popped; nothing is pushed.  remember_context saves the run.  The host knows
\* which syscall it has to answer (func).
Interrupt ==
  /\ phase = "syscall"
  /\ resumable' = [module |-> module, ip |-> ip, stack |-> stack, entries |-> entries,
                   callStack |-> callStack, func |-> syscall]
  /\ Leave([ok |-> FALSE, trap |-> "InterruptionCalled", result |-> <<>>])
  /\ stack' = <<>>
  /\ callStack' = <<>>
  /\ UNCHANGED storeVars

\* Mutant: the saved call stack is lost.
ResumeFlat(results) ==
  /\ phase = "idle"
  /\ Suspended
  /\ resumable' = NoContext
  /\ Start(resumable.module, resumable.ip, resumable.stack, resumable.entries,
           <<>>, results, resultLen)

\* ExecutionEngineInner::resume: the context is taken out of the store and the
\* answer is pushed the way parameters are.
Resume(results) ==
  /\ phase = "idle"
  /\ Suspended
  /\ resumable' = NoContext
  /\ Start(resumable.module, resumable.ip, resumable.stack, resumable.entries,
           resumable.callStack, results, resultLen)

\* RwasmStore::reset while a run is suspended: resumable_context stays in place.
ResetSuspended ==
  /\ Suspended
  /\ StoreReset

EngineHost ==
  \/ /\ ~Suspended
     /\ Host
     /\ UNCHANGED resumable
  \/ /\ Suspended
     /\ \E limit \in FuelLimits : ResetFuel(limit)
     /\ UNCHANGED resumable
  \/ ResetSuspended /\ UNCHANGED resumable
  \/ /\ Suspended
     /\ \E results \in SysReturns(resumable.func) : Resume(results)

EngineInit == Init /\ resumable = NoContext

EngineNext ==
  \/ (Visit \/ Handler) /\ UNCHANGED resumable
  \/ Interrupt
  \/ EngineHost

EngineSpec == EngineInit /\ [][EngineNext]_engineVars

\* The host owes a suspended run nothing.
FairEngineSpec == EngineSpec /\ Fairness

----------------------------------------------------------------------------
\* Nothing of a suspended run is left outside the saved context: the store keeps
\* no pending signature, and the context can be resumed as it stands.
SuspendedIntact ==
  Suspended =>
    /\ phase = "idle"
    /\ lastSignature = NoSignature
    /\ resumable.ip < Len(Code[resumable.module])
    /\ Len(resumable.callStack) <= N_MAX_RECURSION_DEPTH
    /\ Len(resumable.stack) + SysResults[resumable.func] <= resumable.entries

\* An interrupted and resumed run cannot be told from one whose handler answered at
\* once: while it is suspended the run is a run whose handler has not returned yet.
\* A host that resets the store meanwhile gives the run its fuel back and changes
\* nothing else the run can see.
SavedOr(saved, live) == IF Suspended THEN saved ELSE live
Uninterrupted ==
  INSTANCE Executor WITH
    phase     <- SavedOr("syscall", phase),
    module    <- SavedOr(resumable.module, module),
    ip        <- SavedOr(resumable.ip, ip),
    stack     <- SavedOr(resumable.stack, stack),
    entries   <- SavedOr(resumable.entries, entries),
    callStack <- SavedOr(resumable.callStack, callStack),
    syscall   <- SavedOr(resumable.func, syscall),
    outcome   <- SavedOr([ok |-> FALSE, trap |-> "none", result |-> <<>>], outcome)
FuelRefilled ==
  /\ Suspended
  /\ consumedFuel' = 0
  /\ UNCHANGED <<runVars, resumable, fuelLimit, lastSignature, globals>>
InterruptionIsTransparent ==
  Uninterrupted!Init /\ [][Uninterrupted!Next \/ FuelRefilled]_(Uninterrupted!vars)
=============================================================================
