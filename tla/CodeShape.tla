------------------------------ MODULE CodeShape ------------------------------
(***************************************************************************)
(* Code whose stack heights are known.  The interpreter pushes and pops    *)
(* through a raw pointer and relies on the compiler (src/src/vm/           *)
(* value_stack.rs: "guaranteed by Wasm validation and rwasm codegen to     *)
(* never run out of valid bounds").  A shape says for every offset that is *)
(* executed how high the running function's frame is there, how many slots *)
(* of it are known to exist and how many the function returns.  Shaped     *)
(* lists what each opcode then owes to the next one: it is a condition on  *)
(* the code alone, which a compiler establishes function by function.      *)
(***************************************************************************)
EXTENDS Executor

CONSTANT Shape            \* of each module [at, sigs]: offsets to points, signatures to slots

Live(m)       == DOMAIN Shape[m].at
Depth(m, pc)  == Shape[m].at[pc].depth     \* slots of the frame, parameters included
Top(m, pc)    == Shape[m].at[pc].top       \* slots of the frame that exist
Ret(m, pc)    == Shape[m].at[pc].ret       \* slots the function returns
Signatures(m) == DOMAIN Shape[m].sigs
Params(m, s)  == Shape[m].sigs[s].params   \* slots of a signature's parameters
Results(m, s) == Shape[m].sigs[s].results  \* and of its results

ShapeTyped(m) ==
  /\ Live(m) \subseteq 0 .. Len(Code[m]) - 1
  /\ \A pc \in Live(m) :
       /\ Depth(m, pc) \in Nat /\ Top(m, pc) \in Nat /\ Ret(m, pc) \in Nat
       /\ Depth(m, pc) <= Top(m, pc)
  /\ \A s \in Signatures(m) : Params(m, s) \in Nat /\ Results(m, s) \in Nat

----------------------------------------------------------------------------
(* What an opcode owes to the next one.                                    *)

\* Control may go from pc to q, in the same function, with a frame of d slots of
\* which t exist.
Reaches(m, pc, q, d, t) ==
  q \in Live(m) /\ Depth(m, q) = d /\ Top(m, q) <= t /\ Ret(m, q) = Ret(m, pc)

\* On to the next opcode with d slots, and nothing reserved.
Falls(m, pc, d) == Reaches(m, pc, pc + 1, d, Top(m, pc))

\* A call may enter e: only the parameters are known to have slots.
Entered(m, e, params, results) ==
  e \in Live(m) /\ Depth(m, e) = params /\ Top(m, e) <= params /\ Ret(m, e) = results

ShapedStackOp(m, pc) ==
  LET c == Code[m][pc + 1]
      d == Depth(m, pc)
  IN  /\ c.op = "LocalGet"  => c.imm <= d /\ Falls(m, pc, d + 1)
      /\ c.op = "LocalSet"  => c.imm + 1 <= d /\ Falls(m, pc, d - 1)
      /\ c.op = "LocalTee"  => c.imm <= d /\ Falls(m, pc, d)
      /\ c.op = "Select"    => 3 <= d /\ Falls(m, pc, d - 2)
      /\ c.op = "BulkConst" => Falls(m, pc, d + c.imm)
      /\ c.op = "BulkDrop"  => c.imm <= d /\ Falls(m, pc, d - c.imm)
      /\ c.op \in {"Drop", "GlobalSet"} => 1 <= d /\ Falls(m, pc, d - 1)
      /\ c.op \in {"I32Const", "RefFunc", "GlobalGet"} => Falls(m, pc, d + 1)
      /\ c.op \in UnaryOps  => 1 <= d /\ Falls(m, pc, d)
      /\ c.op \in BinaryOps => 2 <= d /\ Falls(m, pc, d - 1)
      /\ c.op \in WideOps   => 2 <= d /\ Falls(m, pc, d)

\* StackCheck and a syscall reserve slots above what the frame has.
ShapedSystemOp(m, pc) ==
  LET c == Code[m][pc + 1]
      d == Depth(m, pc)
      Above(n) == IF d + n > Top(m, pc) THEN d + n ELSE Top(m, pc)
  IN  /\ c.op = "ConsumeFuel"      => Falls(m, pc, d)
      /\ c.op = "ConsumeFuelStack" => 1 <= d /\ Falls(m, pc, d - 1)
      /\ c.op = "StackCheck"       => Reaches(m, pc, pc + 1, d, Above(c.imm))
      /\ c.op = "SignatureCheck"   =>
           /\ c.imm \in Signatures(m)
           /\ Params(m, c.imm) = d /\ Results(m, c.imm) = Ret(m, pc)
           /\ Falls(m, pc, d)
      /\ c.op \in {"Call", "ReturnCall"} =>
           /\ SysParams[c.imm] <= d
           /\ Reaches(m, pc, pc + 1, d - SysParams[c.imm] + SysResults[c.imm],
                      Above(SysValues[c.imm]))

\* A call takes the parameters off the frame and leaves the results; a tail call
\* hands over a frame that holds the parameters and nothing else.
ShapedControlOp(m, pc) ==
  LET c == Code[m][pc + 1]
      d == Depth(m, pc)
      Goes(q, n) == Reaches(m, pc, q, n, Top(m, pc))
  IN  /\ c.op = "Br"      => Goes(pc + c.imm, d)
      /\ c.op \in {"BrIfEqz", "BrIfNez"} =>
           1 <= d /\ Goes(pc + c.imm, d - 1) /\ Goes(pc + 1, d - 1)
      /\ c.op = "BrTable" =>
           1 <= d /\ c.imm > 0 /\ \A i \in 0 .. c.imm - 1 : Goes(pc + 2 * i + 1, d - 1)
      /\ c.op = "Return"  => d = Ret(m, pc)
      /\ c.op = "CallInternal" =>
           /\ c.imm \in Live(m) /\ Depth(m, c.imm) <= d
           /\ Entered(m, c.imm, Depth(m, c.imm), Ret(m, c.imm))
           /\ Goes(pc + 1, d - Depth(m, c.imm) + Ret(m, c.imm))
      /\ c.op = "ReturnCallInternal" => Entered(m, c.imm, d, Ret(m, pc))
      /\ c.op = "CallIndirect" =>
           /\ c.imm \in Signatures(m) /\ 1 + Params(m, c.imm) <= d
           /\ Goes(pc + 2, d - 1 - Params(m, c.imm) + Results(m, c.imm))
      /\ c.op = "ReturnCallIndirect" =>
           /\ c.imm \in Signatures(m) /\ 1 + Params(m, c.imm) = d
           /\ Results(m, c.imm) = Ret(m, pc)

\* A run starts at pc with n slots; the default stack is there already.
StartsAt(m, pc, n, results) ==
  /\ pc \in Live(m) /\ Depth(m, pc) = n /\ Ret(m, pc) = results
  /\ Top(m, pc) <= N_MAX_STACK_SIZE
  /\ Top(m, pc) <= n \/ Top(m, pc) <= N_DEFAULT_STACK_SIZE

\* Where the host starts runs, and where calls through tables end up.
ShapedEntries(m) ==
  /\ SourcePc[m] > 0 => StartsAt(m, 0, 0, 0)
  /\ \A params \in ParamSets[m] :
       ReserveFits(0, Len(params)) => StartsAt(m, SourcePc[m], Len(params), ResultLen[m])
  /\ \A t \in DOMAIN TableElems[m] : \A i \in DOMAIN TableElems[m][t] :
       LET callee == TableElems[m][t][i] IN
       callee # 0 =>
         /\ callee \in Live(m) /\ Code[m][callee + 1].op = "SignatureCheck"
         /\ Top(m, callee) <= Depth(m, callee)

ShapedModule(m) ==
  /\ ShapeTyped(m) /\ ShapedEntries(m)
  /\ \A pc \in Live(m) : ShapedStackOp(m, pc) /\ ShapedSystemOp(m, pc) /\ ShapedControlOp(m, pc)

Shaped == \A m \in Modules : ShapedModule(m)

----------------------------------------------------------------------------
(* What the shape then says of a run: a frame for the running function and *)
(* one for every return address, with the slot it begins at and the slots  *)
(* its function returns.                                                   *)

\* Between a call through a table and the callee's check only the signature says what
\* the frame is.
DepthAt(m, pc, sig) == IF sig = NoSignature THEN Depth(m, pc) ELSE Params(m, sig)
TopAt(m, pc, sig)   == IF sig = NoSignature THEN Top(m, pc) ELSE Params(m, sig)
RetAt(m, pc, sig)   == IF sig = NoSignature THEN Ret(m, pc) ELSE Results(m, sig)

Exist(n, slots) == n <= slots /\ n <= N_MAX_STACK_SIZE

\* The slots that frame i of a run at pc with the return addresses calls returns.
FrameRet(m, pc, calls, sig, i) ==
  IF i <= Len(calls) THEN Ret(m, calls[i]) ELSE RetAt(m, pc, sig)

\* A stack of height h, of which slots exist, is the frames' of a run at pc with the
\* return addresses calls: frame i begins at base[i], the first one returns to the host.
Framed(m, pc, h, slots, calls, results, sig, base) ==
  LET n == Len(calls) IN
  /\ base[1] = 0 /\ base[n + 1] + DepthAt(m, pc, sig) = h
  /\ pc \in Live(m)
  /\ sig # NoSignature =>
       /\ sig \in Signatures(m) /\ Code[m][pc + 1].op = "SignatureCheck"
       /\ Top(m, pc) <= Depth(m, pc)
  /\ FrameRet(m, pc, calls, sig, 1) = results
  /\ Exist(base[n + 1] + TopAt(m, pc, sig), slots)
  /\ \A i \in 1 .. n :
       /\ calls[i] \in Live(m)
       /\ Exist(base[i] + Top(m, calls[i]), slots)
       /\ base[i + 1] + FrameRet(m, pc, calls, sig, i + 1) = base[i] + Depth(m, calls[i])

HasFrames(m, pc, h, slots, calls, results, sig) ==
  \E base \in [1 .. Len(calls) + 1 -> 0 .. N_MAX_STACK_SIZE] :
    Framed(m, pc, h, slots, calls, results, sig, base)

\* The stack with the results a handler still owes.
Height == Len(stack) + (IF phase = "syscall" THEN SysResults[syscall] ELSE 0)

FramesInv ==
  /\ phase = "idle" => stack = <<>> /\ callStack = <<>> /\ lastSignature = NoSignature
  /\ phase = "syscall" => lastSignature = NoSignature
  /\ phase # "idle" =>
       HasFrames(module, ip, Height, entries, callStack, resultLen, lastSignature)

----------------------------------------------------------------------------
\* The slots an opcode reads or pops are among the h slots of the stack.
Supplied(c, h) ==
  /\ c.op \in {"LocalGet", "LocalTee", "BulkDrop"} => c.imm <= h
  /\ c.op = "LocalSet" => c.imm + 1 <= h
  /\ c.op = "Select" => 3 <= h
  /\ c.op \in {"Drop", "GlobalSet", "ConsumeFuelStack", "BrIfEqz", "BrIfNez", "BrTable"} => 1 <= h
  /\ c.op \in IndirectOps \cup UnaryOps => 1 <= h
  /\ c.op \in BinaryOps \cup WideOps => 2 <= h
  /\ c.op \in {"Call", "ReturnCall"} => SysParams[c.imm] <= h
  /\ c.op = "Return" /\ callStack = <<>> => resultLen <= h

\* Pops are unchecked reads (ValueStackPtr::pop, nth_back): whatever an opcode takes is
\* on the stack, in every call of every function, and so are the results of a run that
\* returns to the host.
OperandsPresent ==
  phase = "running" => ip \in 0 .. Len(Code[module]) - 1 /\ Supplied(Fetch, Len(stack))
=============================================================================
