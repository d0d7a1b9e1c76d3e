--------------------------- MODULE ExecutorProofs ---------------------------
(***************************************************************************)
(* What module Executor guarantees for every set of modules, every handler *)
(* and every limit.                                                        *)
(***************************************************************************)
EXTENDS Executor, SequenceTheorems, TLAPS

----------------------------------------------------------------------------
\* What the assumptions say of the interpreter's limits and of words.
LEMMA Limits ==
  (\A w \in Word : w \in Nat) /\ N_DEFAULT_STACK_SIZE \in Nat
BY LimitsAssumption

----------------------------------------------------------------------------
(* Facts about the value stack and the opcode that is fetched.             *)

\* ValueStackPtr's nth_back, dec_by and pop: reading and dropping slots that are on
\* the stack yields words and a shorter stack.
LEMMA StackAccess ==
  ASSUME stack \in Seq(Word)
  PROVE  /\ Len(stack) \in Nat
         /\ \A n \in 1 .. Len(stack) : NthBack(n) \in Word /\ NthBack(n) \in Nat
         /\ \A n \in 0 .. Len(stack) : /\ Dropped(n) \in Seq(Word)
                                       /\ Len(Dropped(n)) = Len(stack) - n
<1>1. Len(stack) \in Nat /\ \A i \in 1 .. Len(stack) : stack[i] \in Word
  BY LenProperties, ElementOfSeq
<1>2. \A n \in 1 .. Len(stack) : NthBack(n) \in Word /\ NthBack(n) \in Nat
  BY <1>1, Limits DEF NthBack
<1>3. ASSUME NEW n \in 0 .. Len(stack)
      PROVE  Dropped(n) \in Seq(Word) /\ Len(Dropped(n)) = Len(stack) - n
  <2>1. 1 \in Int /\ Len(stack) - n \in Int /\ \A i \in 1 .. Len(stack) - n : stack[i] \in Word
    BY <1>1
  <2>2. /\ SubSeq(stack, 1, Len(stack) - n) \in Seq(Word)
        /\ Len(SubSeq(stack, 1, Len(stack) - n))
             = IF 1 <= Len(stack) - n THEN Len(stack) - n - 1 + 1 ELSE 0
    BY <2>1, SubSeqProperties
  <2> QED BY <1>1, <2>2 DEF Dropped
<1> QED BY <1>1, <1>2, <1>3

\* Zeroes pushed in bulk, and the two words of a wide result, are words.
LEMMA FunctionSeq ==
  ASSUME NEW S, NEW n \in Nat, NEW f \in [1 .. n -> S]
  PROVE  f \in Seq(S)
OBVIOUS

\* The zeroes that BulkConst pushes are words.
LEMMA ZeroesSeq ==
  ASSUME NEW n \in Nat
  PROVE  [i \in 1 .. n |-> 0] \in Seq(Word)
<1>1. [i \in 1 .. n |-> 0] \in [1 .. n -> Word]
  BY LimitsAssumption
<1> QED BY <1>1, FunctionSeq

\* The two words of a widening operation are a sequence of words.
LEMMA PairSeq ==
  ASSUME NEW S, NEW p \in S \X S
  PROVE  p \in Seq(S)
<1>1. PICK a \in S, b \in S : p = <<a, b>>
  OBVIOUS
<1>2. <<a, b>> \in Seq(S)
  OBVIOUS
<1> QED BY <1>1, <1>2

\* The opcode at ip is one of the module's, so its operand has its type.
LEMMA FetchTyped ==
  ASSUME module \in Modules, NEW ops, At(ops)
  PROVE  OperandTyped(Fetch) /\ Fetch.op \in ops /\ ip \in Nat
<1>1. ip + 1 \in DOMAIN Code[module] /\ ip \in Nat
  BY ModulesAssumption DEF At
<1> QED BY <1>1, ModulesAssumption DEF At, Fetch

\* Every operand but a branch offset, a trap code and a pair of tables is an unsigned number.
LEMMA FetchNat ==
  ASSUME module \in Modules, NEW op, At({op}),
         op \notin BranchOps \cup {"Trap", "TableCopy"}
  PROVE  Fetch.imm \in Nat
<1>1. OperandTyped(Fetch) /\ Fetch.op = op
  BY FetchTyped
<1> QED BY <1>1 DEF OperandTyped

----------------------------------------------------------------------------
(* Type correctness.                                                       *)

\* An opcode that only replaces the value stack keeps the types.
LEMMA StackStepTypes ==
  ASSUME TypeOK, NEW s \in Seq(Word), StackStep(s)
  PROVE  TypeOK'
BY DEF TypeOK, StackStep, storeVars

\* A trap, which clears both stacks and the signature, keeps the types.
LEMMA TrappedTypes ==
  ASSUME TypeOK, NEW trap, Trapped(trap)
  PROVE  TypeOK'
BY LimitsAssumption, EmptySeq DEF TypeOK, Trapped, TrapOut, Leave

\* A jump keeps the types when its target, stack and return addresses have them.
LEMMA JumpTypes ==
  ASSUME TypeOK, NEW target \in Int, NEW s \in Seq(Word), NEW calls \in Seq(Nat),
         Jump(target, s, calls), lastSignature' \in Nat \cup {NoSignature},
         UNCHANGED <<consumedFuel, fuelLimit, globals>>
  PROVE  TypeOK'
BY DEF TypeOK, Jump

\* RwasmExecutor::run keeps the types, whether the parameters fit or not.
LEMMA StartTypes ==
  ASSUME TypeOK, NEW m \in Modules, NEW pc \in Int, NEW base \in Seq(Word), NEW slots \in Nat,
         NEW calls \in Seq(Nat), NEW params \in Seq(Word), NEW results \in Nat,
         Start(m, pc, base, slots, calls, params, results)
  PROVE  TypeOK'
<1>1. base \o params \in Seq(Word) /\ Len(base) \in Nat /\ Len(params) \in Nat
  BY ConcatProperties, LenProperties
<1>2. Reserved(Len(base), Len(params), slots) \in Nat
  BY <1>1 DEF Reserved
<1>3. /\ phase' \in {"idle", "running"} /\ ip' \in Int /\ stack' \in Seq(Word)
      /\ entries' \in Nat /\ callStack' \in Seq(Nat) /\ syscall' = 0
  <2>1. <<>> \in Seq(Word) /\ <<>> \in Seq(Nat) /\ N_DEFAULT_STACK_SIZE \in Nat
    BY LimitsAssumption
  <2>2. CASE ReserveFits(Len(base), Len(params))
    BY <1>1, <1>2, <2>2 DEF Start
  <2>3. CASE ~ReserveFits(Len(base), Len(params))
    <3>1. /\ phase' = "idle" /\ ip' = 0 /\ stack' = <<>>
          /\ entries' = N_DEFAULT_STACK_SIZE /\ callStack' = <<>> /\ syscall' = 0
      BY <2>3 DEF Start
    <3> QED BY <2>1, <3>1
  <2> QED BY <2>2, <2>3
<1>4. module' = m /\ resultLen' = results /\ UNCHANGED storeVars
  BY DEF Start
<1> QED BY <1>3, <1>4 DEF TypeOK, storeVars

\* Charging fuel keeps the types, whether the fuel suffices or not.
LEMMA ChargeTypes ==
  ASSUME TypeOK, NEW delta \in Nat, NEW s \in Seq(Word), Charge(delta, s)
  PROVE  TypeOK'
<1>1. ChargedFuel(delta) \in 0 .. MaxFuel
  BY LimitsAssumption DEF TypeOK, ChargedFuel
<1>2. CASE FuelSuffices(delta)
  BY <1>1, <1>2 DEF Charge, TypeOK
<1>3. CASE ~FuelSuffices(delta)
  BY <1>3, TrappedTypes DEF Charge
<1> QED BY <1>2, <1>3

\* Opcodes that compute on the value stack.
LEMMA StackOpTypes ==
  ASSUME TypeOK, VisitStackOp
  PROVE  TypeOK'
<1> USE DEF TypeOK
<1>0. /\ Len(stack) \in Nat
      /\ \A n \in 1 .. Len(stack) : NthBack(n) \in Word /\ NthBack(n) \in Nat
      /\ \A n \in 0 .. Len(stack) : Dropped(n) \in Seq(Word) /\ Len(Dropped(n)) = Len(stack) - n
  BY StackAccess
<1>1. CASE VisitLocalGet
  <2>1. Append(stack, NthBack(Fetch.imm)) \in Seq(Word)
    BY <1>0, <1>1, AppendProperties DEF VisitLocalGet
  <2> QED BY <1>1, <2>1, StackStepTypes DEF VisitLocalGet
<1>2. CASE VisitLocalSet
  <2>1. Len(stack) - Fetch.imm \in 1 .. Len(Dropped(1)) /\ Dropped(1) \in Seq(Word)
        /\ NthBack(1) \in Word
    BY <1>0, <1>2 DEF VisitLocalSet
  <2>2. [Dropped(1) EXCEPT ![Len(stack) - Fetch.imm] = NthBack(1)] \in Seq(Word)
    BY <2>1, ExceptSeq
  <2> QED BY <1>2, <2>2, StackStepTypes DEF VisitLocalSet
<1>3. CASE VisitLocalTee
  <2>1. Len(stack) - Fetch.imm + 1 \in 1 .. Len(stack) /\ NthBack(1) \in Word
    BY <1>0, <1>3 DEF VisitLocalTee
  <2>2. [stack EXCEPT ![Len(stack) - Fetch.imm + 1] = NthBack(1)] \in Seq(Word)
    BY <2>1, ExceptSeq
  <2> QED BY <1>3, <2>2, StackStepTypes DEF VisitLocalTee
<1>4. CASE VisitDrop
  BY <1>0, <1>4, StackStepTypes DEF VisitDrop
<1>5. CASE VisitSelect
  <2>1. /\ Dropped(3) \in Seq(Word)
        /\ (IF NthBack(1) # 0 THEN NthBack(3) ELSE NthBack(2)) \in Word
    BY <1>0, <1>5 DEF VisitSelect
  <2>2. Append(Dropped(3), IF NthBack(1) # 0 THEN NthBack(3) ELSE NthBack(2)) \in Seq(Word)
    BY <2>1, AppendProperties
  <2> QED BY <1>5, <2>2, StackStepTypes DEF VisitSelect
<1>6. CASE VisitConst
  <2>1. Fetch.imm \in Word
    BY <1>6, FetchTyped DEF VisitConst, OperandTyped
  <2>2. Append(stack, Fetch.imm) \in Seq(Word)
    BY <2>1, AppendProperties
  <2> QED BY <1>6, <2>2, StackStepTypes DEF VisitConst
<1>7. CASE VisitBulkConst
  <2>1. Fetch.imm \in Nat
    BY <1>7, FetchNat DEF VisitBulkConst, BranchOps
  <2>2. [i \in 1 .. Fetch.imm |-> 0] \in Seq(Word)
    BY <2>1, ZeroesSeq
  <2>3. stack \o [i \in 1 .. Fetch.imm |-> 0] \in Seq(Word)
    BY <2>2, ConcatProperties
  <2> QED BY <1>7, <2>3, StackStepTypes DEF VisitBulkConst
<1>8. CASE VisitBulkDrop
  <2>1. Fetch.imm \in Nat /\ Len(stack) >= Fetch.imm
    BY <1>8, FetchNat DEF VisitBulkDrop, BranchOps
  <2> QED BY <1>0, <1>8, <2>1, StackStepTypes DEF VisitBulkDrop
<1>9. CASE VisitUnary
  <2>1. Fetch.op \in UnaryOps /\ NthBack(1) \in Word /\ Dropped(1) \in Seq(Word)
    BY <1>0, <1>9, FetchTyped DEF VisitUnary
  <2>2. AluUnary(Fetch.op, NthBack(1)) \in Word
    BY <2>1, AluAssumption
  <2>3. Append(Dropped(1), AluUnary(Fetch.op, NthBack(1))) \in Seq(Word)
    BY <2>1, <2>2, AppendProperties
  <2> QED BY <1>9, <2>3, StackStepTypes DEF VisitUnary
<1>10. CASE VisitBinary
  <2> DEFINE trap   == AluTrap(Fetch.op, NthBack(2), NthBack(1))
             result == AluBinary(Fetch.op, NthBack(2), NthBack(1))
  <2>1. Fetch.op \in BinaryOps /\ NthBack(1) \in Word /\ NthBack(2) \in Word
        /\ Dropped(2) \in Seq(Word)
    BY <1>0, <1>10, FetchTyped DEF VisitBinary
  <2>2. CASE trap = "none" /\ StackStep(Append(Dropped(2), result))
    <3>1. result \in Word
      BY <2>1, <2>2, AluAssumption
    <3>2. Append(Dropped(2), result) \in Seq(Word)
      BY <2>1, <3>1, AppendProperties
    <3> QED BY <2>2, <3>2, StackStepTypes
  <2>3. CASE Trapped(trap)
    BY <2>3, TrappedTypes
  <2> QED BY <1>10, <2>2, <2>3 DEF VisitBinary
<1>11. CASE VisitWide
  <2> DEFINE result == AluWide(Fetch.op, NthBack(2), NthBack(1))
  <2>1. Fetch.op \in WideOps /\ NthBack(1) \in Word /\ NthBack(2) \in Word
        /\ Dropped(2) \in Seq(Word)
    BY <1>0, <1>11, FetchTyped DEF VisitWide
  <2>2. result \in Word \X Word
    BY <2>1, AluAssumption
  <2>3. result \in Seq(Word)
    BY <2>2, PairSeq
  <2>4. Dropped(2) \o result \in Seq(Word)
    <3> HIDE DEF result
    <3> QED BY <2>1, <2>3, ConcatProperties
  <2> QED BY <1>11, <2>4, StackStepTypes DEF VisitWide
<1>12. CASE VisitGlobalGet
  <2>1. globals[Fetch.imm] \in Word
    BY <1>12, FetchTyped DEF VisitGlobalGet, OperandTyped
  <2>2. Append(stack, globals[Fetch.imm]) \in Seq(Word)
    BY <2>1, AppendProperties
  <2> QED BY <1>12, <2>2, StackStepTypes DEF VisitGlobalGet
<1>13. CASE VisitGlobalSet
  <2>1. NthBack(1) \in Word /\ Dropped(1) \in Seq(Word)
    BY <1>0, <1>13 DEF VisitGlobalSet
  <2>2. Fetch.imm \in Globals
    BY <1>13, FetchTyped DEF VisitGlobalSet, OperandTyped
  <2>3. globals' \in [Globals -> Word]
    BY <1>13, <2>1 DEF VisitGlobalSet
  <2> QED BY <1>13, <2>1, <2>3 DEF VisitGlobalSet
<1> QED BY <1>1, <1>2, <1>3, <1>4, <1>5, <1>6, <1>7, <1>8, <1>9, <1>10, <1>11, <1>12, <1>13
   DEF VisitStackOp

\* Fuel, signature and stack checks.
LEMMA SystemOpTypes ==
  ASSUME TypeOK, VisitSystemOp
  PROVE  TypeOK'
<1> USE DEF TypeOK
<1>0. /\ Len(stack) \in Nat
      /\ \A n \in 1 .. Len(stack) : NthBack(n) \in Word /\ NthBack(n) \in Nat
      /\ \A n \in 0 .. Len(stack) : Dropped(n) \in Seq(Word)
  BY StackAccess
<1>1. CASE VisitConsumeFuel
  <2>1. Fetch.imm \in Nat
    BY <1>1, FetchNat DEF VisitConsumeFuel, BranchOps
  <2> QED BY <1>1, <2>1, ChargeTypes DEF VisitConsumeFuel
<1>2. CASE VisitConsumeFuelStack
  <2>1. NthBack(1) \in Nat /\ Dropped(1) \in Seq(Word)
    BY <1>0, <1>2 DEF VisitConsumeFuelStack
  <2> QED BY <1>2, <2>1, ChargeTypes DEF VisitConsumeFuelStack
<1>3. CASE VisitSignatureCheck
  <2>1. CASE Trapped("BadSignature")
    BY <2>1, TrappedTypes
  <2>2. CASE ~Trapped("BadSignature")
    BY <1>3, <2>2 DEF VisitSignatureCheck
  <2> QED BY <2>1, <2>2
<1>4. CASE VisitStackCheck
  <2>1. CASE Trapped("StackOverflow")
    BY <2>1, TrappedTypes
  <2>2. CASE ~Trapped("StackOverflow")
    <3>1. Fetch.imm \in Nat
      BY <1>4, FetchNat DEF VisitStackCheck, BranchOps
    <3>2. Reserved(Len(stack), Fetch.imm, entries) \in Nat
      BY <1>0, <3>1 DEF Reserved
    <3> QED BY <1>4, <2>2, <3>2 DEF VisitStackCheck, storeVars
  <2> QED BY <2>1, <2>2
<1> QED BY <1>1, <1>2, <1>3, <1>4 DEF VisitSystemOp

\* Branches, calls and returns.
LEMMA ControlOpTypes ==
  ASSUME TypeOK, VisitControlOp
  PROVE  TypeOK'
<1> USE DEF TypeOK
<1>0. /\ Len(stack) \in Nat
      /\ \A n \in 1 .. Len(stack) : NthBack(n) \in Word /\ NthBack(n) \in Nat
      /\ \A n \in 0 .. Len(stack) : Dropped(n) \in Seq(Word)
  BY StackAccess
<1>1. CASE VisitTrap
  BY <1>1, TrappedTypes DEF VisitTrap
<1>2. CASE VisitBr
  <2>1. ip + Fetch.imm \in Int
    BY <1>2, FetchTyped DEF VisitBr, OperandTyped
  <2> QED BY <1>2, <2>1, JumpTypes DEF VisitBr, storeVars
<1>3. CASE VisitBrIf
  <2>1. /\ (IF (NthBack(1) = 0) = (Fetch.op = "BrIfEqz") THEN ip + Fetch.imm ELSE ip + 1) \in Int
        /\ Dropped(1) \in Seq(Word)
    <3>1. At({"BrIfEqz", "BrIfNez"})
      BY <1>3 DEF VisitBrIf
    <3>2. ip \in Nat /\ Fetch.imm \in Int
      <4>1. OperandTyped(Fetch) /\ Fetch.op \in {"BrIfEqz", "BrIfNez"} /\ ip \in Nat
        BY <3>1, FetchTyped
      <4> QED BY <4>1 DEF OperandTyped
    <3>3. Len(stack) >= 1
      BY <1>3 DEF VisitBrIf
    <3> QED BY <1>0, <3>2, <3>3
  <2> QED BY <1>3, <2>1, JumpTypes DEF VisitBrIf, storeVars
<1>4. CASE VisitBrTable
  <2> DEFINE index == IF NthBack(1) < Fetch.imm - 1 THEN NthBack(1) ELSE Fetch.imm - 1
  <2>1. NthBack(1) \in Int /\ Dropped(1) \in Seq(Word)
    BY <1>0, <1>4 DEF VisitBrTable
  <2>2. Fetch.imm \in Int
    BY <1>4, FetchTyped DEF VisitBrTable, OperandTyped
  <2>3. ip + 2 * index + 1 \in Int
    BY <2>1, <2>2
  <2>4. Jump(ip + 2 * index + 1, Dropped(1), callStack) /\ UNCHANGED storeVars
    BY <1>4 DEF VisitBrTable
  <2> HIDE DEF index
  <2> QED BY <2>1, <2>3, <2>4, JumpTypes DEF storeVars
<1>5. CASE VisitReturn
  <2>1. CASE callStack # <<>>
    <3>1. Len(callStack) \in Nat \ {0} /\ \A i \in 1 .. Len(callStack) : callStack[i] \in Nat
      BY <2>1, EmptySeq, ElementOfSeq
    <3>2. SubSeq(callStack, 1, Len(callStack) - 1) \in Seq(Nat)
      BY <3>1, SubSeqProperties
    <3>3. callStack[Len(callStack)] \in Int
      BY <3>1
    <3> QED BY <1>5, <2>1, <3>2, <3>3, JumpTypes DEF VisitReturn, storeVars
  <2>2. CASE callStack = <<>>
    <3>1. Dropped(resultLen) \in Seq(Word)
      BY <1>0, <1>5, <2>2 DEF VisitReturn
    <3>2. /\ phase' = "idle" /\ ip' = 0 /\ entries' = N_DEFAULT_STACK_SIZE /\ syscall' = 0
          /\ stack' = Dropped(resultLen)
          /\ UNCHANGED <<module, resultLen, callStack, storeVars>>
      BY <1>5, <2>2 DEF VisitReturn, Leave
    <3> QED BY <3>1, <3>2, Limits DEF storeVars
  <2> QED BY <2>1, <2>2
<1>6. CASE VisitCallInternal
  <2>1. CASE Trapped("StackOverflow")
    BY <2>1, TrappedTypes
  <2>2. CASE PushCall(Fetch.imm, ip + 1, stack) /\ UNCHANGED storeVars
    <3>1. Fetch.imm \in Int /\ ip + 1 \in Nat
      BY <1>6, FetchTyped DEF VisitCallInternal, OperandTyped
    <3>2. Append(callStack, ip + 1) \in Seq(Nat)
      BY <3>1, AppendProperties
    <3> QED BY <2>2, <3>1, <3>2, JumpTypes DEF PushCall, storeVars
  <2> QED BY <1>6, <2>1, <2>2 DEF VisitCallInternal
<1>7. CASE VisitReturnCallInternal
  <2>1. Fetch.imm \in Int
    BY <1>7, FetchTyped DEF VisitReturnCallInternal, OperandTyped
  <2> QED BY <1>7, <2>1, JumpTypes DEF VisitReturnCallInternal, storeVars
<1>8. CASE VisitIndirect
  <2> DEFINE callee == Table[NthBack(1) + 1]
  <2>1. CASE \E trap : Trapped(trap)
    BY <2>1, TrappedTypes
  <2>2. CASE ~\E trap : Trapped(trap)
    <3>1. /\ TableFetched /\ Len(stack) >= 1 /\ NthBack(1) < Len(Table)
          /\ \/ PushCall(callee, ip + 2, Dropped(1))
             \/ Jump(callee, Dropped(1), callStack)
          /\ lastSignature' = Fetch.imm
          /\ UNCHANGED <<consumedFuel, fuelLimit, globals>>
      BY <1>8, <2>2 DEF VisitIndirect
    <3>2. NthBack(1) \in Nat /\ Dropped(1) \in Seq(Word)
      BY <1>0, <3>1
    <3>3. Fetch.imm \in Nat /\ ip + 2 \in Nat
      <4>1. At({"CallIndirect"}) \/ At({"ReturnCallIndirect"})
        BY <1>8 DEF VisitIndirect, At, IndirectOps
      <4>2. Fetch.imm \in Nat
        BY <4>1, FetchNat DEF BranchOps
      <4> QED BY <1>8, <4>2, FetchTyped DEF VisitIndirect
    <3>4. Table \in Seq(Nat)
      BY <3>1, ModulesAssumption DEF TableFetched, Table
    <3>5. callee \in Int
      BY <3>1, <3>2, <3>4, ElementOfSeq
    <3>6. Append(callStack, ip + 2) \in Seq(Nat)
      BY <3>3, AppendProperties
    <3> HIDE DEF callee
    <3> QED BY <3>1, <3>2, <3>3, <3>5, <3>6, JumpTypes DEF PushCall
  <2> QED BY <2>1, <2>2
<1> QED BY <1>1, <1>2, <1>3, <1>4, <1>5, <1>6, <1>7, <1>8 DEF VisitControlOp

\* The host and its syscall handlers.
LEMMA HostTypes ==
  ASSUME TypeOK, VisitCall \/ Handler \/ Host
  PROVE  TypeOK'
<1> USE DEF TypeOK
<1>1. CASE VisitCall
  <2>1. CASE Trapped("StackOverflow")
    BY <2>1, TrappedTypes
  <2>2. CASE ~Trapped("StackOverflow")
    <3>1. Fetch.imm \in SysFuncs
      BY <1>1, FetchTyped DEF VisitCall, OperandTyped
    <3>2. Len(stack) \in Nat /\ SysParams[Fetch.imm] \in Nat /\ SysValues[Fetch.imm] \in Nat
      BY <3>1, SyscallAssumption, StackAccess
    <3>3. /\ Len(stack) >= SysParams[Fetch.imm]
          /\ phase' = "syscall" /\ syscall' = Fetch.imm /\ ip' = ip + 1
          /\ entries' = Reserved(Len(stack), SysValues[Fetch.imm], entries)
          /\ stack' = Dropped(SysParams[Fetch.imm])
          /\ UNCHANGED <<module, callStack, resultLen, storeVars>>
      BY <1>1, <2>2 DEF VisitCall
    <3>4. Dropped(SysParams[Fetch.imm]) \in Seq(Word)
      BY <3>2, <3>3, StackAccess
    <3>5. Reserved(Len(stack), SysValues[Fetch.imm], entries) \in Nat
      BY <3>2 DEF Reserved
    <3> QED BY <3>1, <3>3, <3>4, <3>5 DEF storeVars
  <2> QED BY <2>1, <2>2
<1>2. ASSUME NEW delta \in HandlerFuel, HandlerCharges(delta)
      PROVE  TypeOK'
  <2>1. ChargedFuel(delta) \in 0 .. MaxFuel
    BY LimitsAssumption DEF ChargedFuel
  <2> QED BY <1>2, <2>1 DEF HandlerCharges, runVars
<1>3. ASSUME phase = "syscall", NEW results \in SysReturns(syscall), SyscallOk(results)
      PROVE  TypeOK'
  <2>1. results \in Seq(Word)
    <3>1. SysResults[syscall] \in Nat /\ HandlerWords \subseteq Word
      BY <1>3, SyscallAssumption, LimitsAssumption
    <3>2. results \in [1 .. SysResults[syscall] -> Word]
      BY <3>1 DEF SysReturns
    <3> QED BY <3>1, <3>2, FunctionSeq
  <2>2. stack \o results \in Seq(Word)
    BY <2>1, ConcatProperties
  <2> QED BY <1>3, <2>2 DEF SyscallOk, storeVars
<1>4. ASSUME NEW trap, SyscallTrap(trap)
      PROVE  TypeOK'
  BY <1>4, TrappedTypes DEF SyscallTrap
<1>5. ASSUME NEW m \in Modules, Entrypoint(m)
      PROVE  TypeOK'
  <2>1. <<>> \in Seq(Word) /\ <<>> \in Seq(Nat)
    OBVIOUS
  <2>2. 0 \in Int /\ 0 \in Nat /\ N_DEFAULT_STACK_SIZE \in Nat
    BY Limits
  <2>3. Start(m, 0, <<>>, N_DEFAULT_STACK_SIZE, <<>>, <<>>, 0)
    BY <1>5 DEF Entrypoint
  <2> QED BY <2>1, <2>2, <2>3, StartTypes
<1>6. ASSUME NEW m \in Modules, NEW params \in ParamSets[m], Execute(m, params)
      PROVE  TypeOK'
  <2>1. <<>> \in Seq(Word) /\ <<>> \in Seq(Nat)
    OBVIOUS
  <2>2. params \in Seq(Word) /\ SourcePc[m] \in Int /\ ResultLen[m] \in Nat
    BY ModulesAssumption
  <2> QED BY <1>6, <2>1, <2>2, Limits, StartTypes DEF Execute
<1>7. CASE StoreReset
  BY <1>7, LimitsAssumption DEF StoreReset, runVars
<1>8. ASSUME NEW limit \in FuelLimits, ResetFuel(limit)
      PROVE  TypeOK'
  BY <1>8, LimitsAssumption DEF ResetFuel, runVars
<1> QED BY <1>1, <1>2, <1>3, <1>4, <1>5, <1>6, <1>7, <1>8 DEF Handler, HandlerReturns, Host

\* A new store and an idle engine have the right types.
LEMMA InitTypes == Init => TypeOK
BY LimitsAssumption DEF Init, TypeOK

\* Every step of the interpreter, a handler or the host keeps the types.
LEMMA NextTypes == TypeOK /\ [Next]_vars => TypeOK'
<1> SUFFICES ASSUME TypeOK, [Next]_vars PROVE TypeOK'
  OBVIOUS
<1>1. CASE UNCHANGED vars
  BY <1>1 DEF TypeOK, vars, runVars, storeVars
<1>2. CASE Visit
  BY <1>2, StackOpTypes, SystemOpTypes, ControlOpTypes, HostTypes DEF Visit
<1>3. CASE Handler \/ Host
  BY <1>3, HostTypes
<1> QED BY <1>1, <1>2, <1>3 DEF Next

\* Whatever program runs and whatever the host does, slots hold words, the fuel
\* counter stays in u64 and a handler only runs for a function of the linker.
THEOREM TypeCorrect == Spec => []TypeOK
<1> QED BY InitTypes, NextTypes, PTL DEF Spec

----------------------------------------------------------------------------
(* Control.  Stack, system and syscall opcodes either trap or go on to the *)
(* next opcode; only a signature check touches the pending signature.      *)

\* Such an opcode traps, or falls through to the next one with the call stack as it
\* was; a signature check leaves no signature behind.
LEMMA PlainSteps ==
  ASSUME VisitStackOp \/ VisitSystemOp \/ VisitCall
  PROVE  \/ \E trap : Trapped(trap)
         \/ /\ At({Fetch.op}) /\ Fetch.op \notin FinalOps
            /\ ip' = ip + 1 /\ UNCHANGED <<module, callStack>>
            /\ lastSignature' = lastSignature \/ lastSignature' = NoSignature
            /\ Fetch.op = "SignatureCheck" => lastSignature' = NoSignature
<1> SUFFICES ASSUME ~\E trap : Trapped(trap)
             PROVE  /\ At({Fetch.op}) /\ Fetch.op \notin FinalOps
                    /\ ip' = ip + 1 /\ UNCHANGED <<module, callStack>>
                    /\ lastSignature' = lastSignature \/ lastSignature' = NoSignature
                    /\ Fetch.op = "SignatureCheck" => lastSignature' = NoSignature
  OBVIOUS
<1>1. CASE VisitStackOp
  <2>1. At({"LocalGet", "LocalSet", "LocalTee", "Drop", "Select", "I32Const", "RefFunc",
            "BulkConst", "BulkDrop", "GlobalGet", "GlobalSet"}
           \cup UnaryOps \cup BinaryOps \cup WideOps)
    BY <1>1 DEF VisitStackOp, At, VisitLocalGet, VisitLocalSet, VisitLocalTee, VisitDrop,
         VisitSelect, VisitConst, VisitBulkConst, VisitBulkDrop, VisitUnary, VisitBinary,
         VisitWide, VisitGlobalGet, VisitGlobalSet
  <2>2. Fetch.op \notin FinalOps /\ Fetch.op # "SignatureCheck" /\ At({Fetch.op})
    BY <2>1, AluAssumption DEF At, FinalOps
  <2>3. VisitGlobalSet \/ \E s : StackStep(s)
    BY <1>1 DEF VisitStackOp, VisitLocalGet, VisitLocalSet, VisitLocalTee, VisitDrop,
         VisitSelect, VisitConst, VisitBulkConst, VisitBulkDrop, VisitUnary, VisitBinary,
         VisitWide, VisitGlobalGet
  <2>4. ip' = ip + 1 /\ UNCHANGED <<module, callStack, lastSignature>>
    BY <2>3 DEF VisitGlobalSet, StackStep, storeVars
  <2> QED BY <2>2, <2>4
<1>2. CASE VisitSystemOp \/ VisitCall
  <2>1. At({"ConsumeFuel", "ConsumeFuelStack", "SignatureCheck", "StackCheck", "Call", "ReturnCall"})
    BY <1>2 DEF VisitSystemOp, At, VisitConsumeFuel, VisitConsumeFuelStack,
         VisitSignatureCheck, VisitStackCheck, VisitCall
  <2>2. Fetch.op \notin FinalOps /\ At({Fetch.op})
    BY <2>1 DEF At, FinalOps
  <2>3. CASE VisitSignatureCheck
    BY <2>2, <2>3 DEF VisitSignatureCheck
  <2>4. CASE ~VisitSignatureCheck
    <3>1. Fetch.op # "SignatureCheck"
      BY <1>2, <2>4 DEF VisitSystemOp, At, VisitConsumeFuel, VisitConsumeFuelStack,
           VisitStackCheck, VisitCall
    <3>2. ip' = ip + 1 /\ UNCHANGED <<module, callStack, lastSignature>>
      BY <1>2, <2>4 DEF VisitSystemOp, VisitConsumeFuel, VisitConsumeFuelStack,
           VisitStackCheck, VisitCall, Charge, storeVars
    <3> QED BY <2>2, <3>1, <3>2
  <2> QED BY <2>3, <2>4
<1> QED BY <1>1, <1>2

\* The host never touches a call stack: it starts with an empty one.
LEMMA HostSteps ==
  ASSUME Handler \/ Host
  PROVE  \/ \E trap : Trapped(trap)
         \/ phase' = "idle" /\ callStack' = <<>> /\ UNCHANGED lastSignature
         \/ UNCHANGED <<module, ip, callStack, lastSignature>> /\ phase = "syscall"
         \/ UNCHANGED <<phase, callStack>> /\ phase = "idle"
              /\ lastSignature' \in {lastSignature, NoSignature}
         \/ /\ phase = "idle" /\ phase' = "running" /\ callStack' = <<>>
            /\ UNCHANGED lastSignature
            /\ \E m \in Modules : module' = m /\ ip' \in {0, SourcePc[m]}
<1>1. CASE Handler
  BY <1>1 DEF Handler, HandlerCharges, HandlerReturns, SyscallOk, SyscallTrap, runVars, storeVars
<1>2. ASSUME NEW m \in Modules, NEW pc \in {0, SourcePc[m]}, NEW params, NEW results,
             phase = "idle", Start(m, pc, <<>>, N_DEFAULT_STACK_SIZE, <<>>, params, results)
      PROVE  \/ phase' = "idle" /\ callStack' = <<>> /\ UNCHANGED lastSignature
             \/ /\ phase' = "running" /\ callStack' = <<>>
                /\ UNCHANGED lastSignature
                /\ \E n \in Modules : module' = n /\ ip' \in {0, SourcePc[n]}
  BY <1>2 DEF Start, storeVars
<1>3. CASE \E m \in Modules : Entrypoint(m)
  BY <1>2, <1>3 DEF Entrypoint
<1>4. CASE \E m \in Modules : \E params \in ParamSets[m] : Execute(m, params)
  BY <1>2, <1>4 DEF Execute
<1>5. CASE StoreReset \/ \E limit \in FuelLimits : ResetFuel(limit)
  BY <1>5 DEF StoreReset, ResetFuel, runVars
<1> QED BY <1>1, <1>3, <1>4, <1>5 DEF Host

----------------------------------------------------------------------------
(* Recursion is bounded.                                                   *)

\* No step pushes a return address beyond the recursion limit.
LEMMA DepthStep ==
  ASSUME TypeOK, CallDepthBounded, [Next]_vars
  PROVE  CallDepthBounded'
<1> USE DEF CallDepthBounded
<1>1. Len(callStack) \in Nat /\ N_MAX_RECURSION_DEPTH \in Nat
  BY LenProperties, LimitsAssumption DEF TypeOK
<1>2. ASSUME callStack' = callStack \/ callStack' = <<>>
      PROVE  CallDepthBounded'
  BY <1>1, <1>2
<1>3. ASSUME NEW trap, Trapped(trap)
      PROVE  CallDepthBounded'
  BY <1>2, <1>3 DEF Trapped, TrapOut
<1>4. CASE VisitStackOp \/ VisitSystemOp \/ VisitCall
  BY <1>2, <1>3, <1>4, PlainSteps
<1>5. CASE Handler \/ Host
  BY <1>2, <1>3, <1>5, HostSteps
<1>6. CASE UNCHANGED vars
  BY <1>2, <1>6 DEF vars, runVars
<1>7. ASSUME NEW target, NEW ret \in Nat, NEW s, PushCall(target, ret, s)
      PROVE  CallDepthBounded'
  <2>1. Len(Append(callStack, ret)) = Len(callStack) + 1
    BY AppendProperties DEF TypeOK
  <2> QED BY <1>1, <1>7, <2>1 DEF PushCall, Jump
<1>8. CASE VisitReturn
  <2>1. CASE callStack # <<>>
    <3>1. Len(callStack) \in Nat \ {0} /\ \A i \in 1 .. Len(callStack) : callStack[i] \in Nat
      BY <2>1, EmptySeq, ElementOfSeq DEF TypeOK
    <3>2. Len(SubSeq(callStack, 1, Len(callStack) - 1)) <= Len(callStack)
      BY <3>1, SubSeqProperties
    <3> QED BY <1>1, <1>8, <2>1, <3>1, <3>2 DEF VisitReturn, Jump
  <2>2. CASE callStack = <<>>
    BY <1>2, <1>8, <2>2 DEF VisitReturn
  <2> QED BY <2>1, <2>2
<1>9. CASE VisitCallInternal
  <2>1. ip + 1 \in Nat
    BY <1>9, FetchTyped DEF VisitCallInternal, TypeOK
  <2> QED BY <1>3, <1>7, <1>9, <2>1 DEF VisitCallInternal
<1>10. CASE VisitIndirect
  <2>1. ip + 2 \in Nat
    BY <1>10, FetchTyped DEF VisitIndirect, TypeOK
  <2> QED BY <1>2, <1>3, <1>7, <1>10, <2>1 DEF VisitIndirect, Jump
<1>11. CASE VisitTrap \/ VisitBr \/ VisitBrIf \/ VisitBrTable \/ VisitReturnCallInternal
  BY <1>2, <1>3, <1>11 DEF VisitTrap, VisitBr, VisitBrIf, VisitBrTable, VisitReturnCallInternal, Jump
<1> QED BY <1>4, <1>5, <1>6, <1>8, <1>9, <1>10, <1>11 DEF Next, Visit, VisitControlOp

\* N_MAX_RECURSION_DEPTH bounds the call stack in every run of every program, by
\* direct calls and by calls through tables.
THEOREM RecursionBounded == Spec => []CallDepthBounded
<1>1. Init => CallDepthBounded
  BY LimitsAssumption DEF Init, CallDepthBounded
<1>2. TypeOK /\ CallDepthBounded /\ [Next]_vars => CallDepthBounded'
  BY DepthStep
<1> QED BY <1>1, <1>2, TypeCorrect, PTL DEF Spec

----------------------------------------------------------------------------
(* Fuel.                                                                   *)

\* Fuel is charged under its limit, or refilled by the host; nothing else moves it.
LEMMA FuelSteps ==
  ASSUME TypeOK, [Next]_vars
  PROVE  \/ UNCHANGED <<consumedFuel, fuelLimit>>
         \/ \E delta \in Nat : /\ FuelSuffices(delta) /\ consumedFuel' = ChargedFuel(delta)
                               /\ fuelLimit' = fuelLimit
         \/ phase # "running" /\ consumedFuel' = 0 /\ fuelLimit' \in FuelLimits
<1> DEFINE Quiet  == UNCHANGED <<consumedFuel, fuelLimit>>
           Burn   == \E delta \in Nat : /\ FuelSuffices(delta)
                                        /\ consumedFuel' = ChargedFuel(delta)
                                        /\ fuelLimit' = fuelLimit
           Refill == phase # "running" /\ consumedFuel' = 0 /\ fuelLimit' \in FuelLimits
<1>1. ASSUME NEW trap, Trapped(trap)
      PROVE  Quiet
  BY <1>1 DEF Trapped
<1>2. CASE VisitStackOp
  <2>1. VisitGlobalSet \/ (\E s : StackStep(s)) \/ (\E trap : Trapped(trap))
    BY <1>2 DEF VisitStackOp, VisitLocalGet, VisitLocalSet, VisitLocalTee, VisitDrop,
         VisitSelect, VisitConst, VisitBulkConst, VisitBulkDrop, VisitUnary, VisitBinary,
         VisitWide, VisitGlobalGet
  <2> QED BY <1>1, <2>1 DEF VisitGlobalSet, StackStep, storeVars
<1>3. CASE VisitControlOp
  BY <1>1, <1>3 DEF VisitControlOp, VisitTrap, VisitBr, VisitBrIf, VisitBrTable, VisitReturn,
       VisitCallInternal, VisitReturnCallInternal, VisitIndirect, storeVars
<1>4. CASE VisitSignatureCheck \/ VisitStackCheck \/ VisitCall
  BY <1>1, <1>4 DEF VisitSignatureCheck, VisitStackCheck, VisitCall, storeVars
<1>5. ASSUME NEW delta \in Nat, NEW s, Charge(delta, s)
      PROVE  Quiet \/ Burn
  BY <1>1, <1>5 DEF Charge
<1>6. CASE VisitConsumeFuel
  <2>1. Fetch.imm \in Nat
    BY <1>6, FetchNat DEF VisitConsumeFuel, BranchOps, TypeOK
  <2> QED BY <1>5, <1>6, <2>1 DEF VisitConsumeFuel
<1>7. CASE VisitConsumeFuelStack
  <2>1. NthBack(1) \in Nat
    BY <1>7, StackAccess DEF VisitConsumeFuelStack, TypeOK
  <2> QED BY <1>5, <1>7, <2>1 DEF VisitConsumeFuelStack
<1>8. CASE Handler
  <2>1. \A delta \in HandlerFuel : delta \in Nat
    BY LimitsAssumption
  <2> QED BY <1>1, <1>8, <2>1 DEF Handler, HandlerCharges, HandlerReturns, SyscallOk,
            SyscallTrap, storeVars
<1>9. CASE Host
  BY <1>9 DEF Host, Entrypoint, Execute, Start, StoreReset, ResetFuel, storeVars, TypeOK
<1>10. CASE UNCHANGED vars
  BY <1>10 DEF vars, storeVars
<1> QED BY <1>2, <1>3, <1>4, <1>6, <1>7, <1>8, <1>9, <1>10 DEF Next, Visit, VisitSystemOp

\* A fuel limit that is set is a number the saturating counter can reach.
LEMMA LimitValues ==
  ASSUME TypeOK
  PROVE  /\ fuelLimit = NoLimit \/ fuelLimit \in 0 .. MaxFuel
         /\ consumedFuel \in 0 .. MaxFuel /\ MaxFuel \in Nat /\ NoLimit \notin Nat
BY LimitsAssumption DEF TypeOK

\* No step lets the fuel consumed pass the limit.
LEMMA LimitStep ==
  ASSUME TypeOK, FuelWithinLimit, [Next]_vars
  PROVE  FuelWithinLimit'
<1>1. CASE UNCHANGED <<consumedFuel, fuelLimit>>
  BY <1>1 DEF FuelWithinLimit
<1>2. ASSUME NEW delta \in Nat, FuelSuffices(delta), consumedFuel' = ChargedFuel(delta),
             fuelLimit' = fuelLimit
      PROVE  FuelWithinLimit'
  BY <1>2 DEF FuelWithinLimit, FuelSuffices
<1>3. CASE consumedFuel' = 0 /\ fuelLimit' \in FuelLimits
  BY <1>3, LimitsAssumption DEF FuelWithinLimit
<1> QED BY <1>1, <1>2, <1>3, FuelSteps

\* Whoever charges fuel, a metered store never records more than its limit.
THEOREM FuelBounded == Spec => []FuelWithinLimit
<1>1. Init => FuelWithinLimit
  BY LimitsAssumption DEF Init, FuelWithinLimit
<1>2. TypeOK /\ FuelWithinLimit /\ [Next]_vars => FuelWithinLimit'
  BY LimitStep
<1> QED BY <1>1, <1>2, TypeCorrect, PTL DEF Spec

\* Consuming more under a limit leaves less, and never less than nothing.
LEMMA Remainder ==
  ASSUME NEW limit \in Nat, NEW before \in Nat, NEW after \in Nat,
         before <= after, after <= limit
  PROVE  limit - before \in Nat /\ limit - after \in 0 .. (limit - before)
OBVIOUS

\* A step that keeps the limit drains or fills the tank, or leaves it alone.
LEMMA MeterStep ==
  ASSUME TypeOK, FuelWithinLimit, [Next]_vars
  PROVE  [Meter!Next]_<<RemainingFuel, phase = "running">>
<1> USE DEF Meter!Next
<1>0. /\ fuelLimit = NoLimit \/ fuelLimit \in 0 .. MaxFuel
      /\ consumedFuel \in 0 .. MaxFuel /\ MaxFuel \in Nat /\ NoLimit \notin Nat
  BY LimitValues
<1>1. CASE UNCHANGED <<consumedFuel, fuelLimit>>
  BY <1>1 DEF RemainingFuel
<1>2. ASSUME NEW delta \in Nat, FuelSuffices(delta), consumedFuel' = ChargedFuel(delta),
             fuelLimit' = fuelLimit
      PROVE  Meter!Next
  <2>1. CASE fuelLimit = NoLimit
    BY <1>2, <2>1 DEF RemainingFuel
  <2>2. CASE fuelLimit # NoLimit
    <3>1. /\ fuelLimit \in Nat /\ consumedFuel \in Nat
          /\ consumedFuel' \in Nat /\ consumedFuel' >= consumedFuel /\ consumedFuel' <= fuelLimit
      BY <1>0, <1>2, <2>2 DEF ChargedFuel, FuelSuffices
    <3>2. RemainingFuel = fuelLimit - consumedFuel /\ RemainingFuel' = fuelLimit - consumedFuel'
      BY <1>2, <2>2 DEF RemainingFuel
    <3>3. RemainingFuel \in Nat /\ RemainingFuel' \in 0 .. RemainingFuel
      <4>1. /\ fuelLimit - consumedFuel \in Nat
            /\ fuelLimit - consumedFuel' \in 0 .. (fuelLimit - consumedFuel)
        BY <3>1, Remainder
      <4> QED BY <3>2, <4>1, Zenon
    <3>4. RemainingFuel # NoLimit
      BY <1>0, <3>3
    <3> QED BY <3>3, <3>4 DEF Meter!Drain
  <2> QED BY <2>1, <2>2
<1>3. CASE phase # "running" /\ consumedFuel' = 0 /\ fuelLimit' \in FuelLimits
  <2>1. RemainingFuel' \in FuelLimits
    BY <1>3, LimitsAssumption DEF RemainingFuel
  <2> QED BY <1>3, <2>1 DEF Meter!Fill
<1> QED BY <1>1, <1>2, <1>3, FuelSteps

\* The interpreter's fuel implements the abstract tank: guest code only drains it.
THEOREM ImplementsMeter == Spec => MeteredLikeATank
<1>1. Init => Meter!Init
  BY LimitsAssumption DEF Init, Meter!Init, RemainingFuel
<1>2. TypeOK /\ FuelWithinLimit /\ [Next]_vars => [Meter!Next]_<<RemainingFuel, phase = "running">>
  BY MeterStep
<1> QED BY <1>1, <1>2, TypeCorrect, FuelBounded, PTL DEF Spec, MeteredLikeATank, Meter!Spec

----------------------------------------------------------------------------
(* The program counter.                                                    *)

\* What the compiler and the verifier establish of every module that is loaded.
CodeVerified == \A m \in Modules : VerifyModule(m) /\ EndsFinal(m)

\* Verified code does not fall off its end.
LEMMA FallsThrough ==
  ASSUME CodeVerified, module \in Modules, At({Fetch.op}), Fetch.op \notin FinalOps
  PROVE  ip + 1 \in 0 .. Len(Code[module]) - 1
<1>1. ip \in 0 .. Len(Code[module]) - 1 /\ Len(Code[module]) \in Nat
  BY ModulesAssumption DEF At
<1>2. ip + 1 # Len(Code[module])
  BY DEF CodeVerified, EndsFinal, Fetch
<1> QED BY <1>1, <1>2

\* Every opcode the verifier accepts satisfies its rule.
LEMMA FetchVerified ==
  ASSUME CodeVerified, module \in Modules, NEW ops, At(ops)
  PROVE  /\ VerifyOpcode(module, ip) /\ Fetch.op \in ops
         /\ ip \in 0 .. Len(Code[module]) - 1 /\ Len(Code[module]) \in Nat
BY ModulesAssumption DEF CodeVerified, VerifyModule, At

\* A step of verified code leaves ip and the return addresses inside the code.
LEMMA PcStep ==
  ASSUME CodeVerified, TypeOK, PcInCode, [Next]_vars
  PROVE  PcInCode'
<1> USE DEF PcInCode
<1> DEFINE here == 0 .. Len(Code[module]) - 1
<1>0. module \in Modules /\ Len(Code[module]) \in Nat /\ callStack \in Seq(Nat)
  BY ModulesAssumption DEF TypeOK
<1>1. ASSUME NEW trap, Trapped(trap)
      PROVE  PcInCode'
  BY <1>1 DEF Trapped, TrapOut, Leave
<1>2. ASSUME phase # "idle", ip' \in here, UNCHANGED <<module, callStack>>
      PROVE  PcInCode'
  BY <1>2
<1>3. CASE VisitStackOp \/ VisitSystemOp \/ VisitCall
  <2>1. CASE \E trap : Trapped(trap)
    BY <1>1, <2>1
  <2>2. CASE /\ At({Fetch.op}) /\ Fetch.op \notin FinalOps
             /\ ip' = ip + 1 /\ UNCHANGED <<module, callStack>>
    <3>1. ip + 1 \in here /\ phase # "idle"
      BY <1>0, <2>2, FallsThrough DEF At
    <3> QED BY <1>2, <2>2, <3>1
  <2> QED BY <1>3, <2>1, <2>2, PlainSteps
<1>4. CASE Handler \/ Host
  <2>1. ASSUME NEW m \in Modules
        PROVE  0 \in 0 .. Len(Code[m]) - 1 /\ SourcePc[m] \in 0 .. Len(Code[m]) - 1
    BY ModulesAssumption DEF CodeVerified, VerifyModule
  <2>2. CASE \E m \in Modules : module' = m /\ ip' \in {0, SourcePc[m]} /\ callStack' = <<>>
    BY <2>1, <2>2
  <2>3. CASE UNCHANGED <<module, ip, callStack>> /\ phase = "syscall"
    BY <2>3
  <2> QED BY <1>1, <1>4, <2>2, <2>3, HostSteps
<1>5. CASE UNCHANGED vars
  BY <1>5 DEF vars, runVars
<1>6. CASE VisitTrap
  BY <1>1, <1>6 DEF VisitTrap
<1>7. CASE VisitBr
  <2>1. ip + Fetch.imm \in here
    BY <1>0, <1>7, FetchVerified, FetchTyped DEF VisitBr, VerifyOpcode, VerifyBranchTarget,
         Fetch, BranchOps, OperandTyped
  <2> QED BY <1>2, <1>7, <2>1 DEF VisitBr, Jump, At
<1>8. CASE VisitBrIf
  <2>1. At({Fetch.op}) /\ Fetch.op \in {"BrIfEqz", "BrIfNez"} /\ Fetch.op \notin FinalOps
    BY <1>8 DEF VisitBrIf, At, FinalOps
  <2>2. ip + Fetch.imm \in here
    BY <1>0, <1>8, <2>1, FetchVerified, FetchTyped DEF VerifyOpcode, VerifyBranchTarget,
         Fetch, BranchOps, OperandTyped
  <2>3. ip + 1 \in here
    BY <1>0, <2>1, FallsThrough
  <2> QED BY <1>2, <1>8, <2>2, <2>3 DEF VisitBrIf, Jump, At
<1>9. CASE VisitBrTable
  <2> DEFINE index == IF NthBack(1) < Fetch.imm - 1 THEN NthBack(1) ELSE Fetch.imm - 1
  <2>0. Fetch.imm \in Nat
    BY <1>0, <1>9, FetchNat DEF VisitBrTable, BranchOps
  <2>1. NthBack(1) \in Nat
    BY <1>9, StackAccess DEF VisitBrTable, TypeOK
  <2>2. Fetch.imm # 0 /\ ip + 2 * Fetch.imm < Len(Code[module]) /\ ip \in Nat
    BY <1>0, <1>9, FetchVerified DEF VisitBrTable, VerifyOpcode, VerifyBranchTable, Fetch
  <2>3. ip + 2 * index + 1 \in here
    <3>1. index \in Nat /\ index <= Fetch.imm - 1
      BY <2>0, <2>1, <2>2
    <3> HIDE DEF index
    <3> QED BY <1>0, <2>0, <2>2, <3>1
  <2>4. Jump(ip + 2 * index + 1, Dropped(1), callStack) /\ phase # "idle"
    BY <1>9 DEF VisitBrTable, At
  <2> HIDE DEF index
  <2> QED BY <1>2, <2>3, <2>4 DEF Jump
<1>10. CASE VisitReturn
  <2>1. CASE callStack # <<>>
    <3>1. Len(callStack) \in Nat \ {0} /\ DOMAIN callStack = 1 .. Len(callStack)
          /\ \A i \in 1 .. Len(callStack) : callStack[i] \in Nat
      BY <1>0, <2>1, EmptySeq, LenProperties, ElementOfSeq
    <3>2. phase # "idle" /\ \A i \in DOMAIN callStack : callStack[i] \in here
      BY <1>0, <1>10, <3>1 DEF VisitReturn, At
    <3>3. /\ DOMAIN SubSeq(callStack, 1, Len(callStack) - 1) = 1 .. Len(callStack) - 1
          /\ \A i \in 1 .. Len(callStack) - 1 :
               SubSeq(callStack, 1, Len(callStack) - 1)[i] = callStack[i]
      BY <3>1
    <3>4. callStack[Len(callStack)] \in here
      BY <3>1, <3>2
    <3>5. /\ ip' = callStack[Len(callStack)] /\ UNCHANGED <<phase, module>>
          /\ callStack' = SubSeq(callStack, 1, Len(callStack) - 1)
      BY <1>10, <2>1 DEF VisitReturn, Jump
    <3>6. \A i \in DOMAIN callStack' : callStack'[i] < Len(Code[module])
      BY <1>0, <3>1, <3>2, <3>3, <3>5
    <3> QED BY <3>4, <3>5, <3>6
  <2>2. CASE callStack = <<>>
    BY <1>10, <2>2 DEF VisitReturn, Leave
  <2> QED BY <2>1, <2>2
<1>11. ASSUME NEW target \in here, NEW ret \in here, NEW s, PushCall(target, ret, s),
              phase # "idle"
       PROVE  PcInCode'
  <2>1. ret \in Nat /\ callStack \in Seq(Nat)
    BY <1>0
  <2>2. /\ DOMAIN Append(callStack, ret) = 1 .. Len(callStack) + 1
        /\ Append(callStack, ret)[Len(callStack) + 1] = ret
        /\ \A i \in 1 .. Len(callStack) : Append(callStack, ret)[i] = callStack[i]
        /\ DOMAIN callStack = 1 .. Len(callStack) /\ Len(callStack) \in Nat
    BY <2>1, AppendProperties, LenProperties
  <2>3. \A i \in DOMAIN Append(callStack, ret) : Append(callStack, ret)[i] < Len(Code[module])
    BY <1>0, <1>11, <2>2
  <2> QED BY <1>11, <2>3 DEF PushCall, Jump
<1>12. CASE VisitCallInternal
  <2>1. At({Fetch.op}) /\ Fetch.op = "CallInternal" /\ Fetch.op \notin FinalOps
    BY <1>12 DEF VisitCallInternal, At, FinalOps
  <2>2. Fetch.imm \in here
    <3>1. Fetch.imm \in Nat
      BY <1>0, <2>1, FetchNat DEF BranchOps
    <3>2. VerifyOpcode(module, ip)
      BY <1>0, <2>1, FetchVerified
    <3>3. Fetch.imm < Len(Code[module])
      BY <2>1, <3>2 DEF VerifyOpcode, VerifyCodeTarget, DirectOps, Fetch
    <3> QED BY <1>0, <3>1, <3>3
  <2>3. ip + 1 \in here /\ phase # "idle"
    BY <1>0, <2>1, FallsThrough DEF At
  <2> QED BY <1>1, <1>11, <1>12, <2>2, <2>3 DEF VisitCallInternal
<1>13. CASE VisitReturnCallInternal
  <2>1. At({"ReturnCallInternal"}) /\ Fetch.op = "ReturnCallInternal"
    BY <1>13 DEF VisitReturnCallInternal, At
  <2>2. Fetch.imm \in here
    <3>1. Fetch.imm \in Nat
      BY <1>0, <2>1, FetchNat DEF BranchOps
    <3>2. VerifyOpcode(module, ip)
      BY <1>0, <2>1, FetchVerified
    <3>3. Fetch.imm < Len(Code[module])
      BY <2>1, <3>2 DEF VerifyOpcode, VerifyCodeTarget, DirectOps, Fetch
    <3> QED BY <1>0, <3>1, <3>3
  <2> QED BY <1>2, <1>13, <2>2 DEF VisitReturnCallInternal, Jump, At
<1>14. CASE VisitIndirect
  <2>1. CASE \E trap : Trapped(trap)
    BY <1>1, <2>1
  <2>2. CASE ~\E trap : Trapped(trap)
    <3> DEFINE callee == Table[NthBack(1) + 1]
    <3>1. /\ At(IndirectOps) /\ TableFetched /\ Len(stack) >= 1 /\ NthBack(1) < Len(Table)
          /\ callee # 0
          /\ \/ PushCall(callee, ip + 2, Dropped(1))
             \/ Jump(callee, Dropped(1), callStack)
      BY <1>14, <2>2 DEF VisitIndirect
    <3>2. NthBack(1) \in Nat
      BY <3>1, StackAccess DEF TypeOK
    <3>3. Table \in Seq(Nat)
      BY <1>0, <3>1, ModulesAssumption DEF TableFetched, Table
    <3>4. NthBack(1) + 1 \in 1 .. Len(Table) /\ DOMAIN Table = 1 .. Len(Table) /\ callee \in Nat
      BY <3>1, <3>2, <3>3, LenProperties, ElementOfSeq
    <3>5. callee < Len(Code[module])
      BY <1>0, <3>1, <3>4 DEF CodeVerified, VerifyModule, TableFetched, Table
    <3>6. ip + 2 \in here
      <4>1. ip \in Nat /\ ip + 2 \in 1 .. Len(Code[module])
        BY <1>0, <3>1, FetchTyped, ModulesAssumption DEF TableFetched
      <4>2. Code[module][ip + 2].op \notin FinalOps
        BY <3>1 DEF TableFetched, FinalOps
      <4>3. ip + 2 # Len(Code[module])
        BY <1>0, <4>2 DEF CodeVerified, EndsFinal
      <4> QED BY <1>0, <4>1, <4>3
    <3>7. callee \in here /\ phase # "idle"
      BY <1>0, <3>1, <3>4, <3>5 DEF At
    <3> HIDE DEF callee
    <3> QED BY <1>2, <1>11, <3>1, <3>6, <3>7 DEF Jump
  <2> QED BY <2>1, <2>2
<1> QED BY <1>3, <1>4, <1>5, <1>6, <1>7, <1>8, <1>9, <1>10, <1>12, <1>13, <1>14
        DEF Next, Visit, VisitControlOp

\* The interpreter fetches through raw pointers: for code that the verifier accepts
\* and that does not fall off its end, every fetch and every return is in bounds.
THEOREM VerifiedCodeStaysInCode ==
  ASSUME CodeVerified
  PROVE  Spec => []PcInCode
<1>1. Init => PcInCode
  BY DEF Init, PcInCode
<1>2. TypeOK /\ PcInCode /\ [Next]_vars => PcInCode'
  BY PcStep
<1> QED BY <1>1, <1>2, TypeCorrect, PTL DEF Spec

----------------------------------------------------------------------------
(* The pending signature.                                                  *)

\* When tables hold entries of functions, the signature an indirect call leaves is
\* taken by the callee's check at once: no run ends, traps or suspends with one.
THEOREM SignatureIsTaken ==
  ASSUME \A m \in Modules : TablesAtFunctions(m)
  PROVE  Spec => []NoStaleSignature
<1>1. Init => NoStaleSignature
  BY DEF Init, NoStaleSignature
<1>2. ASSUME TypeOK, NoStaleSignature, [Next]_vars
      PROVE  NoStaleSignature'
  <2> USE DEF NoStaleSignature
  <2>1. ASSUME lastSignature' = NoSignature
        PROVE  NoStaleSignature'
    BY <2>1
  <2>2. ASSUME NEW trap, Trapped(trap)
        PROVE  NoStaleSignature'
    BY <2>1, <2>2 DEF Trapped, TrapOut
  <2>3. CASE VisitStackOp \/ VisitSystemOp \/ VisitCall
    BY <1>2, <2>1, <2>2, <2>3, PlainSteps DEF At
  <2>4. CASE Handler \/ Host
    <3>1. phase # "running" \/ \E trap : Trapped(trap)
      BY <2>4 DEF Handler, HandlerCharges, HandlerReturns, SyscallOk, SyscallTrap, Host,
           Entrypoint, Execute, StoreReset, ResetFuel
    <3>2. CASE phase # "running"
      BY <1>2, <2>1, <2>2, <2>4, <3>2, HostSteps DEF At
    <3> QED BY <2>2, <3>1, <3>2
  <2>5. CASE UNCHANGED vars
    BY <1>2, <2>5 DEF vars, runVars, storeVars, At, Fetch
  <2>6. CASE VisitTrap
    BY <2>2, <2>6 DEF VisitTrap
  <2>7. CASE VisitBr \/ VisitBrIf \/ VisitBrTable \/ VisitReturn \/ VisitReturnCallInternal
    <3>1. lastSignature = NoSignature
      BY <1>2, <2>7 DEF VisitBr, VisitBrIf, VisitBrTable, VisitReturn, VisitReturnCallInternal, At
    <3>2. lastSignature' = lastSignature
      BY <2>7 DEF VisitBr, VisitBrIf, VisitBrTable, VisitReturn, VisitReturnCallInternal, storeVars
    <3> QED BY <2>1, <3>1, <3>2
  <2>8. CASE VisitCallInternal
    <3>1. lastSignature = NoSignature
      BY <1>2, <2>8 DEF VisitCallInternal, At
    <3> QED BY <2>1, <2>2, <2>8, <3>1 DEF VisitCallInternal, storeVars
  <2>9. CASE VisitIndirect
    <3>1. CASE \E trap : Trapped(trap)
      BY <2>2, <3>1
    <3>2. CASE ~\E trap : Trapped(trap)
      <4> DEFINE callee == Table[NthBack(1) + 1]
      <4>1. /\ At(IndirectOps) /\ TableFetched /\ Len(stack) >= 1 /\ NthBack(1) < Len(Table)
            /\ callee # 0 /\ ip' = callee /\ UNCHANGED <<phase, module>>
        BY <2>9, <3>2 DEF VisitIndirect, PushCall, Jump
      <4>2. NthBack(1) \in Nat
        BY <1>2, <4>1, StackAccess DEF TypeOK
      <4>3. Table \in Seq(Nat) /\ module \in Modules
        BY <1>2, <4>1, ModulesAssumption DEF TypeOK, TableFetched, Table
      <4>4. NthBack(1) + 1 \in DOMAIN Table /\ callee \in Nat
        BY <4>1, <4>2, <4>3, LenProperties, ElementOfSeq
      <4>5. callee < Len(Code[module]) /\ Code[module][callee + 1].op = "SignatureCheck"
        BY <4>1, <4>3, <4>4 DEF TablesAtFunctions, TableFetched, Table
      <4>6. Len(Code[module]) \in Nat
        BY <4>3, ModulesAssumption
      <4> HIDE DEF callee
      <4> QED BY <4>1, <4>4, <4>5, <4>6 DEF At, Fetch
    <3> QED BY <3>1, <3>2
  <2> QED BY <1>2, <2>3, <2>4, <2>5, <2>6, <2>7, <2>8, <2>9 DEF Next, Visit, VisitControlOp
<1>3. TypeOK /\ NoStaleSignature /\ [Next]_vars => NoStaleSignature'
  BY <1>2
<1> QED BY <1>1, <1>3, TypeCorrect, PTL DEF Spec
=============================================================================
