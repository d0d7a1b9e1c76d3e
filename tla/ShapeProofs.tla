----------------------------- MODULE ShapeProofs -----------------------------
(***************************************************************************)
(* What the interpreter guarantees of code that has a shape: the frames of *)
(* the pending calls tile the value stack, so it stays in bounds, holds    *)
(* the operands of every opcode and is empty when the run is over.         *)
(***************************************************************************)
EXTENDS CodeShape, ExecutorProofs

----------------------------------------------------------------------------
(* The shape at one offset.                                                *)

\* The offsets with a shape are in the code, and their numbers are numbers.
LEMMA ShapeAt ==
  ASSUME Shaped, NEW m \in Modules, NEW pc \in Live(m)
  PROVE  /\ pc \in 0 .. Len(Code[m]) - 1 /\ Len(Code[m]) \in Nat
         /\ Depth(m, pc) \in Nat /\ Top(m, pc) \in Nat /\ Ret(m, pc) \in Nat
         /\ Depth(m, pc) <= Top(m, pc)
         /\ \A s \in Signatures(m) : Params(m, s) \in Nat /\ Results(m, s) \in Nat
         /\ ShapedStackOp(m, pc) /\ ShapedSystemOp(m, pc) /\ ShapedControlOp(m, pc)
BY ModulesAssumption DEF Shaped, ShapedModule, ShapeTyped

\* The frame at an offset, whether its function's signature is still to be checked or not.
LEMMA FrameAt ==
  ASSUME Shaped, NEW m \in Modules, NEW pc \in Live(m), NEW sig,
         sig # NoSignature => sig \in Signatures(m)
  PROVE  /\ DepthAt(m, pc, sig) \in Nat /\ TopAt(m, pc, sig) \in Nat /\ RetAt(m, pc, sig) \in Nat
         /\ DepthAt(m, pc, sig) <= TopAt(m, pc, sig)
BY ShapeAt DEF DepthAt, TopAt, RetAt

----------------------------------------------------------------------------
(* Frames, apart from any state: what happens to them when control moves   *)
(* on, enters a call or returns from one.                                  *)

\* Slots that exist go on existing when the stack grows.
LEMMA ExistMore ==
  ASSUME NEW n \in Nat, NEW slots \in Nat, NEW more \in Nat, slots <= more, Exist(n, slots)
  PROVE  Exist(n, more)
BY DEF Exist

\* The frames of the callers are the same whatever the running function does in its own.
LEMMA FramedMove ==
  ASSUME Shaped, NEW m \in Modules, NEW calls \in Seq(Nat), NEW results,
         NEW base \in [1 .. Len(calls) + 1 -> 0 .. N_MAX_STACK_SIZE],
         NEW pc, NEW h, NEW slots \in Nat, NEW sig,
         Framed(m, pc, h, slots, calls, results, sig, base),
         NEW q \in Live(m), NEW g, NEW more \in Nat, slots <= more, NEW new,
         new # NoSignature =>
           /\ new \in Signatures(m) /\ Code[m][q + 1].op = "SignatureCheck"
           /\ Top(m, q) <= Depth(m, q),
         g = base[Len(calls) + 1] + DepthAt(m, q, new),
         Exist(base[Len(calls) + 1] + TopAt(m, q, new), more),
         RetAt(m, q, new) = RetAt(m, pc, sig)
  PROVE  Framed(m, q, g, more, calls, results, new, base)
<1> DEFINE n == Len(calls)
<1>0. n \in Nat /\ N_MAX_STACK_SIZE \in Nat
  BY LenProperties, LimitsAssumption
<1>1. \A i \in 1 .. n + 1 : FrameRet(m, q, calls, new, i) = FrameRet(m, pc, calls, sig, i)
  BY DEF FrameRet
<1>2. ASSUME NEW i \in 1 .. n
      PROVE  /\ calls[i] \in Live(m)
             /\ Exist(base[i] + Top(m, calls[i]), more)
             /\ base[i + 1] + FrameRet(m, q, calls, new, i + 1) = base[i] + Depth(m, calls[i])
  <2>1. /\ calls[i] \in Live(m) /\ Exist(base[i] + Top(m, calls[i]), slots)
        /\ base[i + 1] + FrameRet(m, pc, calls, sig, i + 1) = base[i] + Depth(m, calls[i])
    BY DEF Framed
  <2>2. base[i] \in Nat /\ Top(m, calls[i]) \in Nat
    <3>1. base[i] \in Nat
      BY <1>0
    <3>2. Top(m, calls[i]) \in Nat
      BY <2>1, ShapeAt
    <3> QED BY <3>1, <3>2
  <2>3. Exist(base[i] + Top(m, calls[i]), more)
    BY <2>1, <2>2, ExistMore
  <2>4. i + 1 \in 1 .. n + 1
    BY <1>0
  <2> QED BY <1>1, <2>1, <2>3, <2>4
<1>3. base[1] = 0 /\ FrameRet(m, q, calls, new, 1) = results
  BY <1>0, <1>1 DEF Framed
<1> QED BY <1>2, <1>3 DEF Framed

\* A call leaves a frame behind, with the slots above it that are not its parameters
\* gone, and begins another.
LEMMA FramedCall ==
  ASSUME Shaped, NEW m \in Modules, NEW calls \in Seq(Nat), NEW results,
         NEW base \in [1 .. Len(calls) + 1 -> 0 .. N_MAX_STACK_SIZE],
         NEW pc, NEW h \in Nat, NEW slots \in Nat,
         Framed(m, pc, h, slots, calls, results, NoSignature, base),
         NEW back \in Live(m), Ret(m, back) = Ret(m, pc), Top(m, back) <= Top(m, pc),
         back \in Nat,
         NEW q \in Live(m), NEW g \in Nat, g <= h, NEW new,
         new # NoSignature =>
           /\ new \in Signatures(m) /\ Code[m][q + 1].op = "SignatureCheck"
           /\ Top(m, q) <= Depth(m, q),
         TopAt(m, q, new) <= DepthAt(m, q, new),
         DepthAt(m, q, new) <= g,
         h - Depth(m, pc) + Depth(m, back) = g - DepthAt(m, q, new) + RetAt(m, q, new)
  PROVE  HasFrames(m, q, g, slots, Append(calls, back), results, new)
<1> DEFINE n     == Len(calls)
           after == Append(calls, back)
           start == g - DepthAt(m, q, new)
           bases == [i \in 1 .. n + 2 |-> IF i <= n + 1 THEN base[i] ELSE start]
<1>0. /\ n \in Nat /\ N_MAX_STACK_SIZE \in Nat /\ Len(after) = n + 1 /\ after[n + 1] = back
      /\ \A i \in 1 .. n : after[i] = calls[i]
  BY LenProperties, LimitsAssumption, AppendProperties
<1>1. pc \in Live(m) /\ base[n + 1] + Depth(m, pc) = h /\ Exist(base[n + 1] + Top(m, pc), slots)
  BY DEF Framed, DepthAt, TopAt
<1>2. /\ Depth(m, pc) \in Nat /\ Top(m, pc) \in Nat /\ Depth(m, pc) <= Top(m, pc)
      /\ Depth(m, back) \in Nat /\ Top(m, back) \in Nat
  BY <1>1, ShapeAt
<1>12. DepthAt(m, q, new) \in Nat /\ TopAt(m, q, new) \in Nat /\ RetAt(m, q, new) \in Nat
  BY FrameAt
<1>11. base[n + 1] \in Nat
  BY <1>0
<1>3. Exist(h, slots) /\ Exist(base[n + 1] + Top(m, back), slots)
  BY <1>0, <1>1, <1>2, <1>11, SMTT(20) DEF Exist
<1>4. start \in 0 .. N_MAX_STACK_SIZE
  BY <1>0, <1>3, <1>12 DEF Exist
<1>5. /\ bases \in [1 .. Len(after) + 1 -> 0 .. N_MAX_STACK_SIZE]
      /\ bases[n + 2] = start /\ \A i \in 1 .. n + 1 : bases[i] = base[i]
  BY <1>0, <1>4
<1>6. /\ FrameRet(m, q, after, new, n + 2) = RetAt(m, q, new)
      /\ \A i \in 1 .. n + 1 :
           FrameRet(m, q, after, new, i) = FrameRet(m, pc, calls, NoSignature, i)
  BY <1>0 DEF FrameRet, RetAt
<1> HIDE DEF bases, after
<1>7. ASSUME NEW i \in 1 .. n + 1
      PROVE  /\ after[i] \in Live(m)
             /\ Exist(bases[i] + Top(m, after[i]), slots)
             /\ bases[i + 1] + FrameRet(m, q, after, new, i + 1) = bases[i] + Depth(m, after[i])
  <2>1. CASE i = n + 1
    <3>1. after[i] = back /\ bases[i] = base[n + 1] /\ bases[i + 1] = start
          /\ FrameRet(m, q, after, new, i + 1) = RetAt(m, q, new)
      BY <1>0, <1>5, <1>6, <2>1, SMTT(20)
    <3>2. start + RetAt(m, q, new) = base[n + 1] + Depth(m, back)
      BY <1>1, <1>2, <1>11, <1>12, SMTT(20)
    <3> QED BY <1>3, <3>1, <3>2
  <2>2. CASE i # n + 1
    <3>1. i \in 1 .. n /\ i + 1 \in 1 .. n + 1
      BY <1>0, <2>2
    <3> QED BY <1>0, <1>5, <1>6, <3>1 DEF Framed
  <2> QED BY <2>1, <2>2
<1>8. bases[1] = 0 /\ FrameRet(m, q, after, new, 1) = results
  BY <1>0, <1>5, <1>6 DEF Framed
<1>9. bases[n + 2] + DepthAt(m, q, new) = g /\ Exist(bases[n + 2] + TopAt(m, q, new), slots)
  BY <1>0, <1>3, <1>5, <1>12 DEF Exist
<1>10. Framed(m, q, g, slots, after, results, new, bases)
  BY <1>0, <1>7, <1>8, <1>9 DEF Framed
<1> QED BY <1>0, <1>5, <1>10 DEF HasFrames, after

\* A return gives the caller its frame back, with the results on it.
LEMMA FramedReturn ==
  ASSUME Shaped, NEW m \in Modules, NEW calls \in Seq(Nat), calls # <<>>, NEW results,
         NEW pc, NEW h, NEW slots \in Nat,
         HasFrames(m, pc, h, slots, calls, results, NoSignature),
         Depth(m, pc) = Ret(m, pc)
  PROVE  HasFrames(m, calls[Len(calls)], h, slots, SubSeq(calls, 1, Len(calls) - 1), results,
                   NoSignature)
<1> DEFINE n     == Len(calls)
           after == SubSeq(calls, 1, n - 1)
<1>0. /\ n \in Nat \ {0} /\ Len(after) = n - 1
      /\ \A i \in 1 .. n - 1 : after[i] = calls[i]
  <2>1. n \in Nat \ {0} /\ \A i \in 1 .. n : calls[i] \in Nat
    BY EmptySeq, LenProperties, ElementOfSeq
  <2>2. DOMAIN after = 1 .. n - 1 /\ \A i \in 1 .. n - 1 : after[i] = calls[i]
    BY <2>1
  <2>3. Len(after) = n - 1
    <3>1. 1 \in Int /\ n - 1 \in Int /\ \A i \in 1 .. n - 1 : calls[i] \in Nat
      BY <2>1
    <3>2. Len(after) = IF 1 <= n - 1 THEN n - 1 - 1 + 1 ELSE 0
      BY <3>1, SubSeqProperties
    <3> HIDE DEF after
    <3>3. n \in Nat \ {0}
      BY <2>1
    <3> HIDE DEF n
    <3> QED BY <3>2, <3>3
  <2> QED BY <2>1, <2>2, <2>3
<1>1. PICK base \in [1 .. n + 1 -> 0 .. N_MAX_STACK_SIZE] :
             Framed(m, pc, h, slots, calls, results, NoSignature, base)
  BY DEF HasFrames
<1> DEFINE bases == [i \in 1 .. n |-> base[i]]
<1>2. bases \in [1 .. Len(after) + 1 -> 0 .. N_MAX_STACK_SIZE] /\ \A i \in 1 .. n : bases[i] = base[i]
  BY <1>0
<1> HIDE DEF bases, after
<1>3. \A i \in 1 .. n : FrameRet(m, calls[n], after, NoSignature, i)
                          = FrameRet(m, pc, calls, NoSignature, i)
  BY <1>0 DEF FrameRet, RetAt
<1>4. /\ calls[n] \in Live(m) /\ Exist(bases[n] + Top(m, calls[n]), slots)
      /\ bases[n] + Depth(m, calls[n]) = h
  <2>1. n \in 1 .. n /\ ~(n + 1 <= n)
    BY <1>0
  <2>2. /\ calls[n] \in Live(m) /\ Exist(base[n] + Top(m, calls[n]), slots)
        /\ base[n + 1] + FrameRet(m, pc, calls, NoSignature, n + 1) = base[n] + Depth(m, calls[n])
        /\ base[n + 1] + Depth(m, pc) = h
    BY <1>1, <2>1 DEF Framed, DepthAt
  <2>3. FrameRet(m, pc, calls, NoSignature, n + 1) = Ret(m, pc)
    BY <2>1 DEF FrameRet, RetAt
  <2> QED BY <1>2, <2>1, <2>2, <2>3
<1>5. ASSUME NEW i \in 1 .. n - 1
      PROVE  /\ after[i] \in Live(m)
             /\ Exist(bases[i] + Top(m, after[i]), slots)
             /\ bases[i + 1] + FrameRet(m, calls[n], after, NoSignature, i + 1)
                  = bases[i] + Depth(m, after[i])
  <2>1. i \in 1 .. n /\ i + 1 \in 1 .. n
    BY <1>0
  <2> QED BY <1>0, <1>1, <1>2, <1>3, <2>1 DEF Framed
<1>6. bases[1] = 0 /\ FrameRet(m, calls[n], after, NoSignature, 1) = results
  BY <1>0, <1>1, <1>2, <1>3 DEF Framed
<1>7. Framed(m, calls[n], h, slots, after, results, NoSignature, bases)
  BY <1>0, <1>4, <1>5, <1>6 DEF Framed, DepthAt, TopAt
<1> QED BY <1>0, <1>2, <1>7 DEF HasFrames, after

\* Moving on within a function: the frame is as high as the shape says, and its slots
\* exist because they did before or because they were reserved.
LEMMA FramesMove ==
  ASSUME Shaped, NEW m \in Modules, NEW calls \in Seq(Nat), NEW results,
         NEW pc, NEW h \in Nat, NEW slots \in Nat,
         HasFrames(m, pc, h, slots, calls, results, NoSignature),
         NEW more \in Nat, slots <= more,
         NEW q, NEW d \in Int, NEW t \in Nat, Reaches(m, pc, q, d, t),
         t = Top(m, pc) \/ Exist(h - Depth(m, pc) + t, more)
  PROVE  HasFrames(m, q, h - Depth(m, pc) + d, more, calls, results, NoSignature)
<1> DEFINE n == Len(calls)
<1>0. n \in Nat /\ N_MAX_STACK_SIZE \in Nat
  BY LenProperties, LimitsAssumption
<1>1. PICK base \in [1 .. n + 1 -> 0 .. N_MAX_STACK_SIZE] :
             Framed(m, pc, h, slots, calls, results, NoSignature, base)
  BY DEF HasFrames
<1>2. /\ pc \in Live(m) /\ base[n + 1] + Depth(m, pc) = h
      /\ Exist(base[n + 1] + Top(m, pc), slots)
  BY <1>1 DEF Framed, DepthAt, TopAt
<1>3. base[n + 1] \in Nat
  BY <1>0
<1>4. q \in Live(m) /\ Depth(m, q) = d /\ Top(m, q) <= t /\ Ret(m, q) = Ret(m, pc)
  BY DEF Reaches
<1>5. Depth(m, pc) \in Nat /\ Top(m, pc) \in Nat /\ Top(m, q) \in Nat
  BY <1>2, <1>4, ShapeAt
<1>6. Exist(base[n + 1] + t, more)
  BY <1>2, <1>3, <1>5 DEF Exist
<1>7. Exist(base[n + 1] + Top(m, q), more)
  BY <1>0, <1>3, <1>4, <1>5, <1>6 DEF Exist
<1>8. h - Depth(m, pc) + d = base[n + 1] + Depth(m, q)
  BY <1>2, <1>3, <1>4, <1>5
<1>9. Framed(m, q, h - Depth(m, pc) + d, more, calls, results, NoSignature, base)
  <2>1. /\ DepthAt(m, q, NoSignature) = Depth(m, q) /\ TopAt(m, q, NoSignature) = Top(m, q)
        /\ RetAt(m, q, NoSignature) = RetAt(m, pc, NoSignature)
    BY <1>4 DEF DepthAt, TopAt, RetAt
  <2> HIDE DEF n
  <2> QED BY <1>1, <1>4, <1>7, <1>8, <2>1, FramedMove DEF n
<1> QED BY <1>9 DEF HasFrames

\* The running frame is on the stack, and the whole stack exists.
LEMMA FrameOnStack ==
  ASSUME Shaped, NEW m \in Modules, NEW calls \in Seq(Nat), NEW results,
         NEW pc, NEW h \in Nat, NEW slots \in Nat, NEW sig,
         HasFrames(m, pc, h, slots, calls, results, sig)
  PROVE  /\ pc \in Live(m) /\ DepthAt(m, pc, sig) <= h /\ Exist(h, slots)
         /\ sig # NoSignature =>
              /\ sig \in Signatures(m) /\ Code[m][pc + 1].op = "SignatureCheck"
              /\ Top(m, pc) <= Depth(m, pc)
<1> DEFINE n == Len(calls)
<1>0. n \in Nat /\ N_MAX_STACK_SIZE \in Nat
  BY LenProperties, LimitsAssumption
<1>1. PICK base \in [1 .. n + 1 -> 0 .. N_MAX_STACK_SIZE] :
             Framed(m, pc, h, slots, calls, results, sig, base)
  BY DEF HasFrames
<1>2. /\ pc \in Live(m) /\ base[n + 1] + DepthAt(m, pc, sig) = h
      /\ Exist(base[n + 1] + TopAt(m, pc, sig), slots)
      /\ sig # NoSignature =>
           /\ sig \in Signatures(m) /\ Code[m][pc + 1].op = "SignatureCheck"
           /\ Top(m, pc) <= Depth(m, pc)
  BY <1>1 DEF Framed
<1>3. base[n + 1] \in Nat
  BY <1>0
<1>4. /\ DepthAt(m, pc, sig) \in Nat /\ TopAt(m, pc, sig) \in Nat
      /\ DepthAt(m, pc, sig) <= TopAt(m, pc, sig)
  BY <1>2, FrameAt
<1>5. Exist(h, slots)
  BY <1>0, <1>2, <1>3, <1>4 DEF Exist
<1> QED BY <1>2, <1>3, <1>4, <1>5

----------------------------------------------------------------------------
(* The frames of a run.                                                    *)

\* What the invariant says while guest code runs.
LEMMA RunningFrame ==
  ASSUME Shaped, TypeOK, FramesInv, phase = "running"
  PROVE  /\ module \in Modules /\ callStack \in Seq(Nat) /\ Len(stack) \in Nat /\ entries \in Nat
         /\ HasFrames(module, ip, Len(stack), entries, callStack, resultLen, lastSignature)
         /\ ip \in Live(module) /\ ip \in 0 .. Len(Code[module]) - 1
         /\ Len(stack) <= entries /\ Len(stack) <= N_MAX_STACK_SIZE
         /\ DepthAt(module, ip, lastSignature) <= Len(stack)
         /\ lastSignature # NoSignature => Fetch.op = "SignatureCheck"
<1>1. module \in Modules /\ callStack \in Seq(Nat) /\ Len(stack) \in Nat /\ entries \in Nat
  BY LenProperties DEF TypeOK
<1>2. Height = Len(stack)
  BY <1>1 DEF Height
<1>3. HasFrames(module, ip, Len(stack), entries, callStack, resultLen, lastSignature)
  BY <1>2 DEF FramesInv
<1>4. /\ ip \in Live(module) /\ DepthAt(module, ip, lastSignature) <= Len(stack)
      /\ Exist(Len(stack), entries)
      /\ lastSignature # NoSignature => Fetch.op = "SignatureCheck"
  BY <1>1, <1>3, FrameOnStack DEF Fetch
<1> QED BY <1>1, <1>3, <1>4, ShapeAt DEF Exist

\* An opcode that is no signature check runs with no signature pending, in a frame as
\* high as its offset says.
LEMMA PlainFrame ==
  ASSUME Shaped, TypeOK, FramesInv, NEW ops, At(ops), "SignatureCheck" \notin ops
  PROVE  /\ phase = "running" /\ lastSignature = NoSignature /\ Fetch.op \in ops
         /\ Depth(module, ip) \in Nat /\ Top(module, ip) \in Nat /\ Ret(module, ip) \in Nat
         /\ Depth(module, ip) <= Len(stack)
         /\ ShapedStackOp(module, ip) /\ ShapedSystemOp(module, ip) /\ ShapedControlOp(module, ip)
<1>1. phase = "running" /\ Fetch.op \in ops
  BY DEF At
<1>2. lastSignature = NoSignature
  BY <1>1, RunningFrame
<1>3. Depth(module, ip) <= Len(stack)
  BY <1>1, <1>2, RunningFrame DEF DepthAt
<1> QED BY <1>1, <1>2, <1>3, RunningFrame, ShapeAt

\* Both stacks are dropped with a trap, and the signature.
LEMMA TrappedFrames ==
  ASSUME NEW trap, Trapped(trap)
  PROVE  FramesInv'
BY DEF Trapped, TrapOut, Leave, FramesInv

\* A step within a function leaves the frame the shape expects at the next offset.
LEMMA FlowFrames ==
  ASSUME Shaped, TypeOK, FramesInv, phase = "running", lastSignature = NoSignature,
         UNCHANGED <<module, callStack, resultLen, lastSignature>>,
         phase' \in {"running", "syscall"}, entries' \in Nat, entries <= entries',
         NEW d \in Int, NEW t \in Nat, Reaches(module, ip, ip', d, t),
         t = Top(module, ip) \/ Exist(Len(stack) - Depth(module, ip) + t, entries'),
         Height' = Len(stack) - Depth(module, ip) + d
  PROVE  FramesInv'
<1>1. /\ module \in Modules /\ callStack \in Seq(Nat) /\ Len(stack) \in Nat /\ entries \in Nat
      /\ HasFrames(module, ip, Len(stack), entries, callStack, resultLen, NoSignature)
  BY RunningFrame
<1>2. HasFrames(module, ip', Height', entries', callStack, resultLen, NoSignature)
  BY <1>1, FramesMove
<1> QED BY <1>2 DEF FramesInv

\* An opcode that only replaces the value stack.
LEMMA StackStepFrames ==
  ASSUME Shaped, TypeOK, FramesInv, NEW ops, At(ops), "SignatureCheck" \notin ops,
         NEW d \in Int, Falls(module, ip, d),
         NEW s, Len(s) = Len(stack) - Depth(module, ip) + d, StackStep(s)
  PROVE  FramesInv'
<1>1. phase = "running" /\ lastSignature = NoSignature /\ Top(module, ip) \in Nat
  BY PlainFrame
<1>2. /\ UNCHANGED <<phase, module, callStack, resultLen, lastSignature, entries>>
      /\ ip' = ip + 1 /\ stack' = s
  BY DEF StackStep, storeVars
<1>3. Height' = Len(stack) - Depth(module, ip) + d
  BY <1>1, <1>2, RunningFrame, PlainFrame DEF Height
<1>4. entries \in Nat
  BY DEF TypeOK
<1> QED BY <1>1, <1>2, <1>3, <1>4, FlowFrames DEF Falls

\* A function from 1 .. n is a sequence of n elements.
LEMMA FunctionLen ==
  ASSUME NEW S, NEW n \in Nat, NEW f \in [1 .. n -> S]
  PROVE  f \in Seq(S) /\ Len(f) = n
<1>1. f \in Seq(S)
  BY FunctionSeq
<1>2. Len(f) \in Nat /\ 1 .. Len(f) = 1 .. n
  BY <1>1, LenProperties
<1>3. ~(Len(f) < n) /\ ~(n < Len(f))
  BY <1>2
<1> QED BY <1>1, <1>2, <1>3

\* The zeroes that BulkConst pushes are words.
LEMMA Zero == 0 \in Word
BY LimitsAssumption

\* The heights of stacks: appending, concatenating and replacing a slot.
LEMMA Heights ==
  ASSUME NEW s \in Seq(Word)
  PROVE  /\ Len(s) \in Nat
         /\ \A w \in Word : Len(Append(s, w)) = Len(s) + 1
         /\ \A t \in Seq(Word) : Len(s \o t) = Len(s) + Len(t)
         /\ \A i \in 1 .. Len(s) : \A w \in Word : Len([s EXCEPT ![i] = w]) = Len(s)
BY LenProperties, AppendProperties, ConcatProperties, ExceptSeq

\* Opcodes that compute on the value stack push and pop what their shape says.
LEMMA StackOpFrames ==
  ASSUME Shaped, TypeOK, FramesInv, VisitStackOp
  PROVE  FramesInv'
<1> DEFINE d == Depth(module, ip)
<1>0. /\ stack \in Seq(Word) /\ Len(stack) \in Nat
      /\ \A n \in 1 .. Len(stack) : NthBack(n) \in Word
      /\ \A n \in 0 .. Len(stack) : Dropped(n) \in Seq(Word) /\ Len(Dropped(n)) = Len(stack) - n
      /\ module \in Modules
  BY StackAccess DEF TypeOK
<1>1. CASE VisitLocalGet
  <2>1. At({"LocalGet"}) /\ Fetch.op = "LocalGet" /\ d \in Nat /\ Falls(module, ip, d + 1)
    BY <1>1, PlainFrame DEF VisitLocalGet, ShapedStackOp, Fetch
  <2>2. Len(Append(stack, NthBack(Fetch.imm))) = Len(stack) - d + (d + 1)
    BY <1>0, <1>1, <2>1, Heights DEF VisitLocalGet
  <2>3. StackStep(Append(stack, NthBack(Fetch.imm))) /\ d + 1 \in Int /\ "SignatureCheck" \notin {"LocalGet"}
    BY <1>1, <2>1 DEF VisitLocalGet
  <2> QED BY <2>1, <2>2, <2>3, StackStepFrames
<1>2. CASE VisitLocalSet
  <2>1. At({"LocalSet"}) /\ Fetch.op = "LocalSet" /\ d \in Nat /\ Falls(module, ip, d - 1)
    BY <1>2, PlainFrame DEF VisitLocalSet, ShapedStackOp, Fetch
  <2>2. /\ Len(stack) - Fetch.imm \in 1 .. Len(Dropped(1)) /\ Dropped(1) \in Seq(Word)
        /\ NthBack(1) \in Word /\ Len(Dropped(1)) = Len(stack) - 1
    BY <1>0, <1>2 DEF VisitLocalSet
  <2>3. Len([Dropped(1) EXCEPT ![Len(stack) - Fetch.imm] = NthBack(1)]) = Len(stack) - d + (d - 1)
    BY <1>0, <2>1, <2>2, Heights
  <2>4. /\ StackStep([Dropped(1) EXCEPT ![Len(stack) - Fetch.imm] = NthBack(1)])
        /\ d - 1 \in Int /\ "SignatureCheck" \notin {"LocalSet"}
    BY <1>2, <2>1 DEF VisitLocalSet
  <2> QED BY <2>1, <2>3, <2>4, StackStepFrames
<1>3. CASE VisitLocalTee
  <2>1. At({"LocalTee"}) /\ Fetch.op = "LocalTee" /\ d \in Nat /\ Falls(module, ip, d)
    BY <1>3, PlainFrame DEF VisitLocalTee, ShapedStackOp, Fetch
  <2>2. Len(stack) - Fetch.imm + 1 \in 1 .. Len(stack) /\ NthBack(1) \in Word
    BY <1>0, <1>3 DEF VisitLocalTee
  <2>3. Len([stack EXCEPT ![Len(stack) - Fetch.imm + 1] = NthBack(1)]) = Len(stack) - d + d
    BY <1>0, <2>1, <2>2, Heights
  <2>4. /\ StackStep([stack EXCEPT ![Len(stack) - Fetch.imm + 1] = NthBack(1)])
        /\ d \in Int /\ "SignatureCheck" \notin {"LocalTee"}
    BY <1>3, <2>1 DEF VisitLocalTee
  <2> QED BY <2>1, <2>3, <2>4, StackStepFrames
<1>4. CASE VisitDrop
  <2>1. At({"Drop"}) /\ Fetch.op = "Drop" /\ d \in Nat /\ Falls(module, ip, d - 1)
    BY <1>4, PlainFrame DEF VisitDrop, ShapedStackOp, Fetch
  <2>2. Len(Dropped(1)) = Len(stack) - d + (d - 1)
    BY <1>0, <1>4, <2>1 DEF VisitDrop
  <2>3. StackStep(Dropped(1)) /\ d - 1 \in Int /\ "SignatureCheck" \notin {"Drop"}
    BY <1>4, <2>1 DEF VisitDrop
  <2> QED BY <2>1, <2>2, <2>3, StackStepFrames
<1>5. CASE VisitSelect
  <2> DEFINE chosen == IF NthBack(1) # 0 THEN NthBack(3) ELSE NthBack(2)
  <2>1. At({"Select"}) /\ Fetch.op = "Select" /\ d \in Nat /\ Falls(module, ip, d - 2)
    BY <1>5, PlainFrame DEF VisitSelect, ShapedStackOp, Fetch
  <2>2. Dropped(3) \in Seq(Word) /\ Len(Dropped(3)) = Len(stack) - 3 /\ chosen \in Word
    BY <1>0, <1>5 DEF VisitSelect
  <2>3. Len(Append(Dropped(3), chosen)) = Len(stack) - d + (d - 2)
    <3> HIDE DEF chosen
    <3> QED BY <1>0, <2>1, <2>2, Heights
  <2>4. StackStep(Append(Dropped(3), chosen)) /\ d - 2 \in Int /\ "SignatureCheck" \notin {"Select"}
    BY <1>5, <2>1 DEF VisitSelect
  <2> HIDE DEF chosen
  <2> QED BY <2>1, <2>3, <2>4, StackStepFrames
<1>6. CASE VisitConst
  <2>1. /\ At({"I32Const", "RefFunc"}) /\ d \in Nat /\ Falls(module, ip, d + 1)
    BY <1>6, PlainFrame DEF VisitConst, ShapedStackOp, Fetch
  <2>2. Fetch.imm \in Word
    <3>1. OperandTyped(Fetch) /\ Fetch.op \in {"I32Const", "RefFunc"}
      BY <1>0, <2>1, FetchTyped
    <3> QED BY <3>1 DEF OperandTyped
  <2>3. Len(Append(stack, Fetch.imm)) = Len(stack) - d + (d + 1)
    BY <1>0, <2>1, <2>2, Heights
  <2>4. /\ StackStep(Append(stack, Fetch.imm)) /\ d + 1 \in Int
        /\ "SignatureCheck" \notin {"I32Const", "RefFunc"}
    BY <1>6, <2>1 DEF VisitConst
  <2> QED BY <2>1, <2>3, <2>4, StackStepFrames
<1>7. CASE VisitBulkConst
  <2> DEFINE zeroes == [i \in 1 .. Fetch.imm |-> 0]
  <2>1. At({"BulkConst"}) /\ Fetch.op = "BulkConst" /\ d \in Nat /\ Falls(module, ip, d + Fetch.imm)
    BY <1>7, PlainFrame DEF VisitBulkConst, ShapedStackOp, Fetch
  <2>2. Fetch.imm \in Nat
    BY <1>0, <2>1, FetchNat DEF BranchOps
  <2>3. zeroes \in Seq(Word) /\ Len(zeroes) = Fetch.imm
    <3>1. zeroes \in [1 .. Fetch.imm -> Word]
      BY Zero
    <3> HIDE DEF zeroes
    <3> QED BY <2>2, <3>1, FunctionLen
  <2>4. Len(stack \o zeroes) = Len(stack) - d + (d + Fetch.imm)
    <3> HIDE DEF zeroes
    <3>1. Len(stack \o zeroes) = Len(stack) + Len(zeroes)
      BY <1>0, <2>3, Heights
    <3> QED BY <1>0, <2>1, <2>2, <2>3, <3>1
  <2>5. StackStep(stack \o zeroes) /\ d + Fetch.imm \in Int /\ "SignatureCheck" \notin {"BulkConst"}
    BY <1>7, <2>1, <2>2 DEF VisitBulkConst
  <2> HIDE DEF zeroes
  <2> QED BY <2>1, <2>4, <2>5, StackStepFrames
<1>8. CASE VisitBulkDrop
  <2>1. At({"BulkDrop"}) /\ Fetch.op = "BulkDrop" /\ d \in Nat /\ Falls(module, ip, d - Fetch.imm)
    BY <1>8, PlainFrame DEF VisitBulkDrop, ShapedStackOp, Fetch
  <2>2. Fetch.imm \in Nat
    BY <1>0, <2>1, FetchNat DEF BranchOps
  <2>3. Len(Dropped(Fetch.imm)) = Len(stack) - d + (d - Fetch.imm)
    BY <1>0, <1>8, <2>1, <2>2 DEF VisitBulkDrop
  <2>4. /\ StackStep(Dropped(Fetch.imm)) /\ d - Fetch.imm \in Int
        /\ "SignatureCheck" \notin {"BulkDrop"}
    BY <1>8, <2>1, <2>2 DEF VisitBulkDrop
  <2> QED BY <2>1, <2>3, <2>4, StackStepFrames
<1>9. CASE VisitUnary
  <2>1. At(UnaryOps) /\ Fetch.op \in UnaryOps /\ "SignatureCheck" \notin UnaryOps
    BY <1>9, AluAssumption DEF VisitUnary, At
  <2>2. d \in Nat /\ Falls(module, ip, d)
    BY <2>1, PlainFrame DEF ShapedStackOp, Fetch
  <2>3. /\ Dropped(1) \in Seq(Word) /\ Len(Dropped(1)) = Len(stack) - 1
        /\ AluUnary(Fetch.op, NthBack(1)) \in Word
    BY <1>0, <1>9, <2>1, AluAssumption DEF VisitUnary
  <2>4. Len(Append(Dropped(1), AluUnary(Fetch.op, NthBack(1)))) = Len(stack) - d + d
    BY <1>0, <2>2, <2>3, Heights
  <2>5. StackStep(Append(Dropped(1), AluUnary(Fetch.op, NthBack(1)))) /\ d \in Int
    BY <1>9, <2>2 DEF VisitUnary
  <2> QED BY <2>1, <2>2, <2>4, <2>5, StackStepFrames
<1>10. CASE VisitBinary
  <2> DEFINE trap   == AluTrap(Fetch.op, NthBack(2), NthBack(1))
             result == AluBinary(Fetch.op, NthBack(2), NthBack(1))
  <2>1. At(BinaryOps) /\ Fetch.op \in BinaryOps /\ "SignatureCheck" \notin BinaryOps
    BY <1>10, AluAssumption DEF VisitBinary, At
  <2>2. d \in Nat /\ Falls(module, ip, d - 1)
    BY <2>1, PlainFrame DEF ShapedStackOp, Fetch
  <2>3. CASE trap = "none" /\ StackStep(Append(Dropped(2), result))
    <3>1. /\ Dropped(2) \in Seq(Word) /\ Len(Dropped(2)) = Len(stack) - 2
          /\ NthBack(1) \in Word /\ NthBack(2) \in Word
      BY <1>0, <1>10 DEF VisitBinary
    <3>2. result \in Word
      BY <2>1, <2>3, <3>1, AluAssumption
    <3> HIDE DEF result
    <3>3. Len(Append(Dropped(2), result)) = Len(stack) - d + (d - 1)
      BY <1>0, <2>2, <3>1, <3>2, Heights
    <3>4. d - 1 \in Int
      BY <2>2
    <3> QED BY <2>1, <2>2, <2>3, <3>3, <3>4, StackStepFrames
  <2>4. CASE Trapped(trap)
    BY <2>4, TrappedFrames
  <2> QED BY <1>10, <2>3, <2>4 DEF VisitBinary
<1>11. CASE VisitWide
  <2> DEFINE result == AluWide(Fetch.op, NthBack(2), NthBack(1))
  <2>1. At(WideOps) /\ Fetch.op \in WideOps /\ "SignatureCheck" \notin WideOps
    BY <1>11, AluAssumption DEF VisitWide, At
  <2>2. d \in Nat /\ Falls(module, ip, d)
    BY <2>1, PlainFrame DEF ShapedStackOp, Fetch
  <2>3. /\ Dropped(2) \in Seq(Word) /\ Len(Dropped(2)) = Len(stack) - 2
        /\ NthBack(1) \in Word /\ NthBack(2) \in Word
    BY <1>0, <1>11 DEF VisitWide
  <2>7. result \in Word \X Word
    BY <2>1, <2>3, AluAssumption
  <2>4. StackStep(Dropped(2) \o result)
    BY <1>11 DEF VisitWide
  <2> HIDE DEF result
  <2>5. result \in Seq(Word) /\ Len(result) = 2
    BY <2>7, PairSeq
  <2>6. Len(Dropped(2) \o result) = Len(stack) - d + d
    <3>1. Len(Dropped(2) \o result) = Len(Dropped(2)) + Len(result)
      BY <2>3, <2>5, Heights
    <3> QED BY <1>0, <2>2, <2>3, <2>5, <3>1
  <2>8. d \in Int
    BY <2>2
  <2> QED BY <2>1, <2>2, <2>4, <2>6, <2>8, StackStepFrames
<1>12. CASE VisitGlobalGet
  <2>1. At({"GlobalGet"}) /\ Fetch.op = "GlobalGet" /\ d \in Nat /\ Falls(module, ip, d + 1)
    BY <1>12, PlainFrame DEF VisitGlobalGet, ShapedStackOp, Fetch
  <2>2. globals[Fetch.imm] \in Word
    BY <1>0, <2>1, FetchTyped DEF OperandTyped, TypeOK
  <2>3. Len(Append(stack, globals[Fetch.imm])) = Len(stack) - d + (d + 1)
    BY <1>0, <2>1, <2>2, Heights
  <2>4. /\ StackStep(Append(stack, globals[Fetch.imm])) /\ d + 1 \in Int
        /\ "SignatureCheck" \notin {"GlobalGet"}
    BY <1>12, <2>1 DEF VisitGlobalGet
  <2> QED BY <2>1, <2>3, <2>4, StackStepFrames
<1>13. CASE VisitGlobalSet
  <2>1. At({"GlobalSet"}) /\ Fetch.op = "GlobalSet" /\ d \in Nat /\ Falls(module, ip, d - 1)
    BY <1>13, PlainFrame DEF VisitGlobalSet, ShapedStackOp, Fetch
  <2>2. /\ phase = "running" /\ lastSignature = NoSignature /\ Top(module, ip) \in Nat
        /\ entries \in Nat
    BY <2>1, PlainFrame DEF TypeOK
  <2>3. Height' = Len(stack) - d + (d - 1)
    BY <1>0, <1>13, <2>1, <2>2 DEF VisitGlobalSet, Height
  <2>4. /\ UNCHANGED <<phase, module, callStack, resultLen, lastSignature, entries>>
        /\ ip' = ip + 1 /\ Reaches(module, ip, ip', d - 1, Top(module, ip))
        /\ d - 1 \in Int /\ entries \in Nat
    BY <1>13, <2>1 DEF VisitGlobalSet, Falls, TypeOK
  <2> QED BY <2>2, <2>3, <2>4, FlowFrames
<1> QED BY <1>1, <1>2, <1>3, <1>4, <1>5, <1>6, <1>7, <1>8, <1>9, <1>10, <1>11, <1>12, <1>13
   DEF VisitStackOp

\* The callee's check takes the pending signature: when it is the function's own, the
\* frame the call set up is the one the function expects.
LEMMA FramesChecked ==
  ASSUME Shaped, NEW m \in Modules, NEW calls \in Seq(Nat), NEW results,
         NEW pc, NEW h \in Nat, NEW slots \in Nat, NEW sig,
         HasFrames(m, pc, h, slots, calls, results, sig), sig # NoSignature,
         Params(m, sig) = Depth(m, pc), Results(m, sig) = Ret(m, pc)
  PROVE  HasFrames(m, pc, h, slots, calls, results, NoSignature)
<1> DEFINE n == Len(calls)
<1>0. n \in Nat /\ N_MAX_STACK_SIZE \in Nat
  BY LenProperties, LimitsAssumption
<1>1. PICK base \in [1 .. n + 1 -> 0 .. N_MAX_STACK_SIZE] :
             Framed(m, pc, h, slots, calls, results, sig, base)
  BY DEF HasFrames
<1>2. /\ pc \in Live(m) /\ base[n + 1] + Depth(m, pc) = h
      /\ Exist(base[n + 1] + Depth(m, pc), slots) /\ Top(m, pc) <= Depth(m, pc)
  BY <1>1 DEF Framed, DepthAt, TopAt
<1>3. Top(m, pc) = Depth(m, pc)
  BY <1>2, ShapeAt
<1>4. /\ DepthAt(m, pc, NoSignature) = Depth(m, pc) /\ TopAt(m, pc, NoSignature) = Depth(m, pc)
      /\ RetAt(m, pc, NoSignature) = RetAt(m, pc, sig)
  BY <1>3 DEF DepthAt, TopAt, RetAt
<1>5. Framed(m, pc, h, slots, calls, results, NoSignature, base)
  <2>1. base[n + 1] \in Nat
    BY <1>0
  <2> HIDE DEF n
  <2> QED BY <1>1, <1>2, <1>4, <2>1, FramedMove DEF n
<1> QED BY <1>5 DEF HasFrames

\* Fuel, signature and stack checks.
LEMMA SystemOpFrames ==
  ASSUME Shaped, TypeOK, FramesInv, VisitSystemOp
  PROVE  FramesInv'
<1> DEFINE d == Depth(module, ip)
<1>0. /\ stack \in Seq(Word) /\ Len(stack) \in Nat /\ entries \in Nat
      /\ \A n \in 0 .. Len(stack) : Dropped(n) \in Seq(Word) /\ Len(Dropped(n)) = Len(stack) - n
      /\ module \in Modules
  BY StackAccess DEF TypeOK
<1>1. ASSUME NEW ops, At(ops), "SignatureCheck" \notin ops, NEW k \in {0, 1}, NEW s,
             Falls(module, ip, d - k), Len(s) = Len(stack) - k, NEW delta, Charge(delta, s)
      PROVE  FramesInv'
  <2>1. CASE Trapped("OutOfFuel")
    BY <2>1, TrappedFrames
  <2>2. CASE ~Trapped("OutOfFuel")
    <3>1. /\ phase = "running" /\ lastSignature = NoSignature /\ d \in Nat
          /\ Top(module, ip) \in Nat
      BY <1>1, PlainFrame
    <3>2. /\ UNCHANGED <<phase, module, callStack, resultLen, lastSignature, entries>>
          /\ ip' = ip + 1 /\ stack' = s
      BY <1>1, <2>2 DEF Charge
    <3>3. Height' = Len(stack) - d + (d - k)
      BY <1>0, <1>1, <3>1, <3>2 DEF Height
    <3>4. Reaches(module, ip, ip', d - k, Top(module, ip)) /\ d - k \in Int
      BY <1>1, <3>1, <3>2 DEF Falls
    <3> QED BY <1>0, <3>1, <3>2, <3>3, <3>4, FlowFrames
  <2> QED BY <2>1, <2>2
<1>2. CASE VisitConsumeFuel
  <2>1. At({"ConsumeFuel"}) /\ Fetch.op = "ConsumeFuel" /\ d \in Nat /\ Falls(module, ip, d)
    BY <1>2, PlainFrame DEF VisitConsumeFuel, ShapedSystemOp, Fetch
  <2>2. Charge(Fetch.imm, stack) /\ Falls(module, ip, d - 0) /\ Len(stack) = Len(stack) - 0
    BY <1>0, <1>2, <2>1 DEF VisitConsumeFuel
  <2> QED BY <1>1, <2>1, <2>2
<1>3. CASE VisitConsumeFuelStack
  <2>1. /\ At({"ConsumeFuelStack"}) /\ Fetch.op = "ConsumeFuelStack" /\ d \in Nat
        /\ Falls(module, ip, d - 1)
    BY <1>3, PlainFrame DEF VisitConsumeFuelStack, ShapedSystemOp, Fetch
  <2>2. Charge(NthBack(1), Dropped(1)) /\ Len(Dropped(1)) = Len(stack) - 1
    BY <1>0, <1>3 DEF VisitConsumeFuelStack
  <2> QED BY <1>1, <2>1, <2>2
<1>4. CASE VisitSignatureCheck
  <2>1. CASE Trapped("BadSignature")
    BY <2>1, TrappedFrames
  <2>2. CASE ~Trapped("BadSignature")
    <3>1. /\ phase = "running" /\ Fetch.op = "SignatureCheck"
          /\ lastSignature \in {NoSignature, Fetch.imm} /\ lastSignature' = NoSignature
          /\ ip' = ip + 1 /\ UNCHANGED <<phase, module, stack, entries, callStack, resultLen>>
      BY <1>4, <2>2 DEF VisitSignatureCheck, At
    <3>2. /\ callStack \in Seq(Nat) /\ ip \in Live(module)
          /\ HasFrames(module, ip, Len(stack), entries, callStack, resultLen, lastSignature)
      BY <3>1, RunningFrame
    <3>3. /\ d \in Nat /\ Top(module, ip) \in Nat
          /\ Params(module, Fetch.imm) = d /\ Results(module, Fetch.imm) = Ret(module, ip)
          /\ Reaches(module, ip, ip + 1, d, Top(module, ip))
      BY <1>0, <3>1, <3>2, ShapeAt DEF ShapedSystemOp, Falls, Fetch
    <3>4. HasFrames(module, ip, Len(stack), entries, callStack, resultLen, NoSignature)
      BY <1>0, <3>1, <3>2, <3>3, FramesChecked
    <3>5. HasFrames(module, ip + 1, Len(stack) - d + d, entries, callStack, resultLen, NoSignature)
      BY <1>0, <3>2, <3>3, <3>4, FramesMove
    <3>6. Len(stack) - d + d = Len(stack) /\ Height' = Len(stack)
      BY <1>0, <3>1, <3>3 DEF Height
    <3> QED BY <3>1, <3>5, <3>6 DEF FramesInv
  <2> QED BY <2>1, <2>2
<1>5. CASE VisitStackCheck
  <2>1. CASE Trapped("StackOverflow")
    BY <2>1, TrappedFrames
  <2>2. CASE ~Trapped("StackOverflow")
    <3> DEFINE t == IF d + Fetch.imm > Top(module, ip) THEN d + Fetch.imm ELSE Top(module, ip)
    <3>1. /\ At({"StackCheck"}) /\ phase = "running" /\ Fetch.op = "StackCheck"
          /\ lastSignature = NoSignature /\ d \in Nat /\ Top(module, ip) \in Nat
          /\ Reaches(module, ip, ip + 1, d, t)
      BY <1>5, PlainFrame DEF VisitStackCheck, ShapedSystemOp, Fetch
    <3>2. Fetch.imm \in Nat
      BY <1>0, <3>1, FetchNat DEF BranchOps
    <3>3. /\ ReserveFits(Len(stack), Fetch.imm)
          /\ entries' = Reserved(Len(stack), Fetch.imm, entries) /\ ip' = ip + 1
          /\ UNCHANGED <<phase, module, stack, callStack, resultLen, lastSignature>>
      BY <1>5, <2>2 DEF VisitStackCheck, storeVars
    <3>4. /\ entries' \in Nat /\ entries <= entries' /\ t \in Nat
          /\ t = Top(module, ip) \/ Exist(Len(stack) - d + t, entries')
      BY <1>0, <3>1, <3>2, <3>3, SMTT(20) DEF ReserveFits, Reserved, Exist
    <3>5. Height' = Len(stack) - d + d
      BY <1>0, <3>1, <3>3 DEF Height
    <3> HIDE DEF t
    <3> QED BY <3>1, <3>3, <3>4, <3>5, FlowFrames
  <2> QED BY <2>1, <2>2
<1> QED BY <1>2, <1>3, <1>4, <1>5 DEF VisitSystemOp

\* A syscall takes its parameters, and its frame is the one its results will complete.
LEMMA CallFrames ==
  ASSUME Shaped, TypeOK, FramesInv, VisitCall
  PROVE  FramesInv'
<1> DEFINE d    == Depth(module, ip)
           func == Fetch.imm
           t    == IF d + SysValues[func] > Top(module, ip) THEN d + SysValues[func]
                   ELSE Top(module, ip)
<1>0. /\ stack \in Seq(Word) /\ Len(stack) \in Nat /\ entries \in Nat
      /\ \A n \in 0 .. Len(stack) : Dropped(n) \in Seq(Word) /\ Len(Dropped(n)) = Len(stack) - n
      /\ module \in Modules
  BY StackAccess DEF TypeOK
<1>1. CASE Trapped("StackOverflow")
  BY <1>1, TrappedFrames
<1>2. CASE ~Trapped("StackOverflow")
  <2>1. /\ At({"Call", "ReturnCall"}) /\ phase = "running" /\ Fetch.op \in {"Call", "ReturnCall"}
        /\ lastSignature = NoSignature /\ d \in Nat /\ Top(module, ip) \in Nat
        /\ Reaches(module, ip, ip + 1, d - SysParams[func] + SysResults[func], t)
    BY PlainFrame DEF VisitCall, ShapedSystemOp, Fetch
  <2>2. func \in SysFuncs
    <3>1. OperandTyped(Fetch) /\ Fetch.op \in {"Call", "ReturnCall"}
      BY <1>0, <2>1, FetchTyped
    <3> QED BY <3>1 DEF OperandTyped
  <2>3. SysParams[func] \in Nat /\ SysResults[func] \in Nat /\ SysValues[func] \in Nat
    BY <2>2, SyscallAssumption
  <2>4. /\ ReserveFits(Len(stack), SysValues[func]) /\ Len(stack) >= SysParams[func]
        /\ phase' = "syscall" /\ syscall' = func /\ ip' = ip + 1
        /\ entries' = Reserved(Len(stack), SysValues[func], entries)
        /\ stack' = Dropped(SysParams[func])
        /\ UNCHANGED <<module, callStack, resultLen, lastSignature>>
    BY <1>2 DEF VisitCall, storeVars
  <2>5. /\ entries' \in Nat /\ entries <= entries' /\ t \in Nat
        /\ t = Top(module, ip) \/ Exist(Len(stack) - d + t, entries')
    <3>1. SysValues[func] \in Nat /\ N_MAX_STACK_SIZE \in Nat
      BY <2>3, LimitsAssumption
    <3> HIDE DEF func
    <3> QED BY <1>0, <2>1, <2>4, <3>1, SMTT(20) DEF ReserveFits, Reserved, Exist
  <2>6. Height' = Len(stack) - d + (d - SysParams[func] + SysResults[func])
    <3>1. Height' = Len(Dropped(SysParams[func])) + SysResults[func]
      BY <2>4 DEF Height
    <3>2. Len(Dropped(SysParams[func])) = Len(stack) - SysParams[func]
      BY <1>0, <2>3, <2>4
    <3> HIDE DEF func
    <3>3. Height' = Len(stack) - SysParams[func] + SysResults[func]
      BY <3>1, <3>2
    <3> HIDE DEF d
    <3> QED BY <1>0, <2>1, <2>3, <3>3
  <2>7. d - SysParams[func] + SysResults[func] \in Int
    BY <2>1, <2>3
  <2> HIDE DEF t
  <2> QED BY <2>1, <2>4, <2>5, <2>6, <2>7, FlowFrames
<1> QED BY <1>1, <1>2

\* A jump within a function leaves the frame its target expects.
LEMMA JumpFrames ==
  ASSUME Shaped, TypeOK, FramesInv, phase = "running", lastSignature = NoSignature,
         NEW d \in Int, NEW target, Reaches(module, ip, target, d, Top(module, ip)),
         NEW s, Len(s) = Len(stack) - Depth(module, ip) + d,
         Jump(target, s, callStack), UNCHANGED storeVars
  PROVE  FramesInv'
<1>1. /\ UNCHANGED <<phase, module, callStack, resultLen, lastSignature, entries>>
      /\ ip' = target /\ stack' = s
  BY DEF Jump, storeVars
<1>2. entries \in Nat /\ Top(module, ip) \in Nat /\ Len(stack) \in Nat
  BY RunningFrame, ShapeAt
<1>3. Height' = Len(stack) - Depth(module, ip) + d
  <2>1. Depth(module, ip) \in Nat
    BY RunningFrame, ShapeAt
  <2>2. Height' = Len(s)
    BY <1>1, <1>2, <2>1 DEF Height
  <2> QED BY <2>2
<1> QED BY <1>1, <1>2, <1>3, FlowFrames

\* Branches go where the shape says, whatever the condition or the index.
LEMMA BranchFrames ==
  ASSUME Shaped, TypeOK, FramesInv, VisitTrap \/ VisitBr \/ VisitBrIf \/ VisitBrTable
  PROVE  FramesInv'
<1> DEFINE d == Depth(module, ip)
<1>0. /\ Len(stack) \in Nat /\ module \in Modules
      /\ \A n \in 1 .. Len(stack) : NthBack(n) \in Nat
      /\ \A n \in 0 .. Len(stack) : Len(Dropped(n)) = Len(stack) - n
  BY StackAccess DEF TypeOK
<1>1. CASE VisitTrap
  BY <1>1, TrappedFrames DEF VisitTrap
<1>2. CASE VisitBr
  <2>1. At({"Br"}) /\ Jump(ip + Fetch.imm, stack, callStack) /\ UNCHANGED storeVars
    BY <1>2 DEF VisitBr
  <2>2. /\ phase = "running" /\ lastSignature = NoSignature /\ d \in Nat
        /\ Reaches(module, ip, ip + Fetch.imm, d, Top(module, ip))
    BY <2>1, PlainFrame DEF ShapedControlOp, Fetch
  <2>3. Len(stack) = Len(stack) - d + d /\ d \in Int
    BY <1>0, <2>2
  <2> QED BY <2>1, <2>2, <2>3, JumpFrames
<1>3. CASE VisitBrIf
  <2> DEFINE target == IF (NthBack(1) = 0) = (Fetch.op = "BrIfEqz") THEN ip + Fetch.imm ELSE ip + 1
  <2>1. /\ At({"BrIfEqz", "BrIfNez"}) /\ Jump(target, Dropped(1), callStack)
        /\ UNCHANGED storeVars /\ Len(stack) >= 1
    BY <1>3 DEF VisitBrIf
  <2>2. /\ phase = "running" /\ lastSignature = NoSignature /\ d \in Nat
        /\ Reaches(module, ip, ip + Fetch.imm, d - 1, Top(module, ip))
        /\ Reaches(module, ip, ip + 1, d - 1, Top(module, ip))
    BY <2>1, PlainFrame DEF ShapedControlOp, Fetch
  <2>3. Len(Dropped(1)) = Len(stack) - d + (d - 1) /\ d - 1 \in Int
    BY <1>0, <2>1, <2>2
  <2>4. Reaches(module, ip, target, d - 1, Top(module, ip))
    BY <2>2
  <2> HIDE DEF target
  <2> QED BY <2>1, <2>2, <2>3, <2>4, JumpFrames
<1>4. CASE VisitBrTable
  <2> DEFINE index == IF NthBack(1) < Fetch.imm - 1 THEN NthBack(1) ELSE Fetch.imm - 1
  <2>1. /\ At({"BrTable"}) /\ Jump(ip + 2 * index + 1, Dropped(1), callStack)
        /\ UNCHANGED storeVars /\ Len(stack) >= 1
    BY <1>4 DEF VisitBrTable
  <2>2. /\ phase = "running" /\ lastSignature = NoSignature /\ d \in Nat /\ Fetch.imm > 0
        /\ \A i \in 0 .. Fetch.imm - 1 :
             Reaches(module, ip, ip + 2 * i + 1, d - 1, Top(module, ip))
    BY <2>1, PlainFrame DEF ShapedControlOp, Fetch
  <2>3. index \in 0 .. Fetch.imm - 1
    <3>1. Fetch.imm \in Nat
      BY <1>0, <2>1, FetchNat DEF BranchOps
    <3>2. NthBack(1) \in Nat
      BY <1>0, <2>1
    <3> QED BY <2>2, <3>1, <3>2
  <2>4. Len(Dropped(1)) = Len(stack) - d + (d - 1) /\ d - 1 \in Int
    BY <1>0, <2>1, <2>2
  <2> HIDE DEF index
  <2>5. Reaches(module, ip, ip + 2 * index + 1, d - 1, Top(module, ip))
    BY <2>2, <2>3
  <2> QED BY <2>1, <2>2, <2>4, <2>5, JumpFrames
<1> QED BY <1>1, <1>2, <1>3, <1>4

\* The last return leaves the host the results it asked for, and nothing else.
LEMMA LastFrame ==
  ASSUME Shaped, NEW m \in Modules, NEW results, NEW pc, NEW h \in Nat, NEW slots \in Nat,
         HasFrames(m, pc, h, slots, <<>>, results, NoSignature), Depth(m, pc) = Ret(m, pc)
  PROVE  h = results
<1>1. Len(<<>>) = 0 /\ ~(1 <= 0)
  OBVIOUS
<1>2. PICK base \in [1 .. 0 + 1 -> 0 .. N_MAX_STACK_SIZE] :
             Framed(m, pc, h, slots, <<>>, results, NoSignature, base)
  BY <1>1 DEF HasFrames
<1>3. /\ pc \in Live(m) /\ base[1] = 0 /\ base[0 + 1] + Depth(m, pc) = h
      /\ FrameRet(m, pc, <<>>, NoSignature, 1) = results
  BY <1>1, <1>2 DEF Framed, DepthAt
<1>4. Ret(m, pc) = results /\ Depth(m, pc) \in Nat
  BY <1>1, <1>3, ShapeAt DEF FrameRet, RetAt
<1> QED BY <1>3, <1>4

\* A return goes back to a frame that has the results on it, or leaves the run with an
\* empty stack.
LEMMA ReturnFrames ==
  ASSUME Shaped, TypeOK, FramesInv, VisitReturn
  PROVE  FramesInv'
<1>1. At({"Return"})
  BY DEF VisitReturn
<1>2. /\ phase = "running" /\ lastSignature = NoSignature /\ Depth(module, ip) = Ret(module, ip)
  BY <1>1, PlainFrame DEF ShapedControlOp, Fetch
<1>3. /\ module \in Modules /\ callStack \in Seq(Nat) /\ Len(stack) \in Nat /\ entries \in Nat
      /\ HasFrames(module, ip, Len(stack), entries, callStack, resultLen, NoSignature)
  BY <1>2, RunningFrame
<1>4. CASE callStack # <<>>
  <2>1. /\ ip' = callStack[Len(callStack)] /\ stack' = stack
        /\ callStack' = SubSeq(callStack, 1, Len(callStack) - 1)
        /\ UNCHANGED <<phase, module, entries, resultLen, lastSignature>>
    BY <1>4 DEF VisitReturn, Jump, storeVars
  <2>2. HasFrames(module, callStack[Len(callStack)], Len(stack), entries,
                  SubSeq(callStack, 1, Len(callStack) - 1), resultLen, NoSignature)
    BY <1>2, <1>3, <1>4, FramedReturn
  <2>3. Height' = Len(stack)
    BY <1>2, <1>3, <2>1 DEF Height
  <2> QED BY <1>2, <2>1, <2>2, <2>3 DEF FramesInv
<1>5. CASE callStack = <<>>
  <2>1. /\ phase' = "idle" /\ stack' = Dropped(resultLen) /\ UNCHANGED <<callStack, lastSignature>>
    BY <1>5 DEF VisitReturn, Leave, storeVars
  <2>2. HasFrames(module, ip, Len(stack), entries, <<>>, resultLen, NoSignature)
    BY <1>3, <1>5
  <2>3. Len(stack) = resultLen
    BY <1>2, <1>3, <2>2, LastFrame
  <2>4. Dropped(resultLen) \in Seq(Word) /\ Len(Dropped(resultLen)) = 0
    BY <1>3, <2>3, StackAccess DEF TypeOK
  <2>5. Dropped(resultLen) = <<>>
    BY <2>4, EmptySeq
  <2> QED BY <1>2, <1>5, <2>1, <2>5 DEF FramesInv
<1> QED BY <1>4, <1>5

\* A direct call leaves a frame that the callee's results will complete; a direct tail
\* call turns its own frame into the callee's.
LEMMA DirectCallFrames ==
  ASSUME Shaped, TypeOK, FramesInv, VisitCallInternal \/ VisitReturnCallInternal
  PROVE  FramesInv'
<1> DEFINE d == Depth(module, ip)
           e == Fetch.imm
<1>0. At({"CallInternal", "ReturnCallInternal"})
  BY DEF VisitCallInternal, VisitReturnCallInternal, At
<1>1. /\ phase = "running" /\ lastSignature = NoSignature
      /\ d \in Nat /\ Top(module, ip) \in Nat /\ d <= Len(stack) /\ ShapedControlOp(module, ip)
  BY <1>0, PlainFrame
<1>2. /\ module \in Modules /\ callStack \in Seq(Nat) /\ Len(stack) \in Nat /\ entries \in Nat
      /\ HasFrames(module, ip, Len(stack), entries, callStack, resultLen, NoSignature)
      /\ ip \in Live(module) /\ ip \in Nat
  BY <1>1, RunningFrame
<1>3. CASE Trapped("StackOverflow")
  BY <1>3, TrappedFrames
<1>4. CASE VisitCallInternal /\ ~Trapped("StackOverflow")
  <2>1. /\ At({"CallInternal"}) /\ Fetch.op = "CallInternal"
        /\ ip' = e /\ stack' = stack /\ callStack' = Append(callStack, ip + 1)
        /\ UNCHANGED <<phase, module, entries, resultLen, lastSignature>>
    BY <1>4 DEF VisitCallInternal, PushCall, Jump, storeVars, At
  <2>2. /\ e \in Live(module) /\ Depth(module, e) <= d /\ Top(module, e) <= Depth(module, e)
        /\ ip + 1 \in Live(module) /\ Depth(module, ip + 1) = d - Depth(module, e) + Ret(module, e)
        /\ Top(module, ip + 1) <= Top(module, ip) /\ Ret(module, ip + 1) = Ret(module, ip)
    BY <1>1, <2>1 DEF ShapedControlOp, Entered, Reaches, Fetch
  <2>3. Depth(module, e) \in Nat /\ Ret(module, e) \in Nat
    BY <1>2, <2>2, ShapeAt
  <2>4. /\ TopAt(module, e, NoSignature) <= DepthAt(module, e, NoSignature)
        /\ DepthAt(module, e, NoSignature) <= Len(stack)
        /\ Len(stack) - d + Depth(module, ip + 1)
             = Len(stack) - DepthAt(module, e, NoSignature) + RetAt(module, e, NoSignature)
    BY <1>1, <1>2, <2>2, <2>3 DEF TopAt, DepthAt, RetAt
  <2>5. PICK base \in [1 .. Len(callStack) + 1 -> 0 .. N_MAX_STACK_SIZE] :
               Framed(module, ip, Len(stack), entries, callStack, resultLen, NoSignature, base)
    BY <1>2 DEF HasFrames
  <2>6. ip + 1 \in Nat /\ Len(stack) <= Len(stack)
    BY <1>2
  <2> HIDE DEF e
  <2>7. HasFrames(module, e, Len(stack), entries, Append(callStack, ip + 1), resultLen, NoSignature)
    BY <1>2, <2>2, <2>4, <2>5, <2>6, FramedCall
  <2>8. Height' = Len(stack)
    BY <1>1, <1>2, <2>1 DEF Height
  <2> QED BY <1>1, <2>1, <2>7, <2>8 DEF FramesInv
<1>5. CASE VisitReturnCallInternal
  <2>1. At({"ReturnCallInternal"}) /\ Jump(e, stack, callStack) /\ UNCHANGED storeVars
    BY <1>5 DEF VisitReturnCallInternal
  <2>2. e \in Live(module) /\ Depth(module, e) = d /\ Top(module, e) <= d /\ Ret(module, e) = Ret(module, ip)
    BY <1>1, <2>1 DEF ShapedControlOp, Entered, At, Fetch
  <2>3. Reaches(module, ip, e, d, Top(module, ip))
    <3>1. Top(module, e) \in Nat /\ d <= Top(module, ip)
      BY <1>2, <2>2, ShapeAt
    <3> QED BY <1>1, <2>2, <3>1 DEF Reaches
  <2>4. Len(stack) = Len(stack) - d + d /\ d \in Int
    BY <1>1, <1>2
  <2> HIDE DEF e
  <2> QED BY <1>1, <2>1, <2>3, <2>4, JumpFrames
<1> QED BY <1>3, <1>4, <1>5

\* A tail call through a table: the frame it leaves holds the callee's parameters, which
\* the signature it remembers counts.
LEMMA FramesTail ==
  ASSUME Shaped, NEW m \in Modules, NEW calls \in Seq(Nat), NEW results,
         NEW pc, NEW h \in Nat, NEW slots \in Nat,
         HasFrames(m, pc, h, slots, calls, results, NoSignature),
         NEW q \in Live(m), Code[m][q + 1].op = "SignatureCheck", Top(m, q) <= Depth(m, q),
         NEW sig \in Signatures(m), sig # NoSignature,
         1 + Params(m, sig) = Depth(m, pc), Results(m, sig) = Ret(m, pc)
  PROVE  HasFrames(m, q, h - 1, slots, calls, results, sig)
<1> DEFINE n == Len(calls)
<1>0. n \in Nat /\ N_MAX_STACK_SIZE \in Nat
  BY LenProperties, LimitsAssumption
<1>1. PICK base \in [1 .. n + 1 -> 0 .. N_MAX_STACK_SIZE] :
             Framed(m, pc, h, slots, calls, results, NoSignature, base)
  BY DEF HasFrames
<1>2. /\ pc \in Live(m) /\ base[n + 1] + Depth(m, pc) = h
      /\ Exist(base[n + 1] + Top(m, pc), slots)
  BY <1>1 DEF Framed, DepthAt, TopAt
<1>3. base[n + 1] \in Nat
  BY <1>0
<1>4. /\ Depth(m, pc) \in Nat /\ Top(m, pc) \in Nat /\ Depth(m, pc) <= Top(m, pc)
      /\ Params(m, sig) \in Nat
  BY <1>2, ShapeAt
<1>5. /\ DepthAt(m, q, sig) = Params(m, sig) /\ TopAt(m, q, sig) = Params(m, sig)
      /\ RetAt(m, q, sig) = RetAt(m, pc, NoSignature)
  BY DEF DepthAt, TopAt, RetAt
<1>6. h - 1 = base[n + 1] + Params(m, sig) /\ Exist(base[n + 1] + Params(m, sig), slots)
  <2>1. h - 1 = base[n + 1] + Params(m, sig)
    BY <1>2, <1>3, <1>4
  <2>2. Params(m, sig) <= Top(m, pc)
    BY <1>4
  <2> HIDE DEF n
  <2>3. Exist(base[n + 1] + Params(m, sig), slots)
    BY <1>0, <1>2, <1>3, <1>4, <2>2 DEF Exist
  <2> QED BY <2>1, <2>3
<1>7. Framed(m, q, h - 1, slots, calls, results, sig, base)
  <2> HIDE DEF n
  <2> QED BY <1>1, <1>5, <1>6, FramedMove DEF n
<1> QED BY <1>7 DEF HasFrames

\* A call through a table: whatever function the table holds, until its check has run the
\* frame is the one the caller's signature describes.
LEMMA IndirectFrames ==
  ASSUME Shaped, TypeOK, FramesInv, VisitIndirect
  PROVE  FramesInv'
<1> DEFINE d == Depth(module, ip)
           callee == Table[NthBack(1) + 1]
           sig == Fetch.imm
<1>1. CASE \E trap : Trapped(trap)
  BY <1>1, TrappedFrames
<1>2. CASE ~\E trap : Trapped(trap)
  <2>0. /\ At(IndirectOps) /\ TableFetched /\ Len(stack) >= 1 /\ NthBack(1) < Len(Table)
        /\ callee # 0
        /\ \/ Fetch.op = "CallIndirect" /\ PushCall(callee, ip + 2, Dropped(1))
           \/ Fetch.op = "ReturnCallIndirect" /\ Jump(callee, Dropped(1), callStack)
        /\ lastSignature' = sig
    BY <1>2 DEF VisitIndirect, At, IndirectOps
  <2>1. /\ phase = "running" /\ lastSignature = NoSignature
        /\ d \in Nat /\ Top(module, ip) \in Nat /\ d <= Len(stack) /\ ShapedControlOp(module, ip)
    BY <2>0, PlainFrame DEF IndirectOps
  <2>2. /\ module \in Modules /\ callStack \in Seq(Nat) /\ Len(stack) \in Nat /\ entries \in Nat
        /\ HasFrames(module, ip, Len(stack), entries, callStack, resultLen, NoSignature)
        /\ ip \in Live(module) /\ ip \in Nat
    BY <2>1, RunningFrame
  <2>3. NthBack(1) \in Nat /\ Len(Dropped(1)) = Len(stack) - 1
    BY <2>0, <2>2, StackAccess DEF TypeOK
  <2>4. Table \in Seq(Nat)
    BY <2>0, <2>2, ModulesAssumption DEF TableFetched, Table
  <2>5. NthBack(1) + 1 \in DOMAIN Table
    BY <2>0, <2>3, <2>4, LenProperties
  <2>6. /\ callee \in Live(module) /\ Code[module][callee + 1].op = "SignatureCheck"
        /\ Top(module, callee) <= Depth(module, callee)
    <3>1. ShapedEntries(module)
      BY <2>2 DEF Shaped, ShapedModule
    <3> QED BY <2>0, <2>5, <3>1 DEF ShapedEntries, TableFetched, Table
  <2>7. sig \in Nat /\ sig # NoSignature
    <3>1. At({"CallIndirect"}) \/ At({"ReturnCallIndirect"})
      BY <2>0 DEF At, IndirectOps
    <3>2. sig \in Nat
      BY <2>2, <3>1, FetchNat DEF BranchOps
    <3> QED BY <3>2, LimitsAssumption
  <2>8. Height' = Len(stack) - 1
    BY <2>0, <2>1, <2>3 DEF PushCall, Jump, Height
  <2>9. CASE Fetch.op = "CallIndirect"
    <3>1. /\ ip' = callee /\ stack' = Dropped(1) /\ callStack' = Append(callStack, ip + 2)
          /\ UNCHANGED <<phase, module, entries, resultLen>>
      BY <2>0, <2>9 DEF PushCall, Jump
    <3>2. /\ sig \in Signatures(module) /\ 1 + Params(module, sig) <= d
          /\ ip + 2 \in Live(module)
          /\ Depth(module, ip + 2) = d - 1 - Params(module, sig) + Results(module, sig)
          /\ Top(module, ip + 2) <= Top(module, ip) /\ Ret(module, ip + 2) = Ret(module, ip)
      BY <2>1, <2>9 DEF ShapedControlOp, Reaches, Fetch
    <3>3. Params(module, sig) \in Nat /\ Results(module, sig) \in Nat
      BY <2>2, <3>2, ShapeAt
    <3>4. /\ DepthAt(module, callee, sig) = Params(module, sig)
          /\ TopAt(module, callee, sig) = Params(module, sig)
          /\ RetAt(module, callee, sig) = Results(module, sig)
      BY <2>7 DEF DepthAt, TopAt, RetAt
    <3>5. PICK base \in [1 .. Len(callStack) + 1 -> 0 .. N_MAX_STACK_SIZE] :
                 Framed(module, ip, Len(stack), entries, callStack, resultLen, NoSignature, base)
      BY <2>2 DEF HasFrames
    <3> HIDE DEF callee, sig
    <3>6. /\ TopAt(module, callee, sig) <= DepthAt(module, callee, sig)
          /\ DepthAt(module, callee, sig) <= Len(stack) - 1
          /\ Len(stack) - d + Depth(module, ip + 2)
               = Len(stack) - 1 - DepthAt(module, callee, sig) + RetAt(module, callee, sig)
          /\ Len(stack) - 1 \in Nat /\ Len(stack) - 1 <= Len(stack) /\ ip + 2 \in Nat
      BY <2>0, <2>1, <2>2, <3>2, <3>3, <3>4, SMTT(20)
    <3>7. HasFrames(module, callee, Len(stack) - 1, entries, Append(callStack, ip + 2), resultLen,
                    sig)
      BY <2>2, <2>6, <3>2, <3>5, <3>6, FramedCall
    <3> QED BY <2>0, <2>1, <2>8, <3>1, <3>7 DEF FramesInv
  <2>10. CASE Fetch.op = "ReturnCallIndirect"
    <3>1. /\ ip' = callee /\ stack' = Dropped(1) /\ UNCHANGED callStack
          /\ UNCHANGED <<phase, module, entries, resultLen>>
      BY <2>0, <2>10 DEF Jump
    <3>2. /\ sig \in Signatures(module) /\ 1 + Params(module, sig) = d
          /\ Results(module, sig) = Ret(module, ip)
      BY <2>1, <2>10 DEF ShapedControlOp, Fetch
    <3> HIDE DEF callee, sig
    <3>3. HasFrames(module, callee, Len(stack) - 1, entries, callStack, resultLen, sig)
      BY <2>2, <2>6, <2>7, <3>2, FramesTail
    <3> QED BY <2>0, <2>1, <2>8, <3>1, <3>3 DEF FramesInv
  <2> QED BY <2>0, <2>9, <2>10
<1> QED BY <1>1, <1>2

\* RwasmExecutor::run begins with the frame it is given and the values that complete it,
\* or does not begin.
LEMMA StartFrames ==
  ASSUME lastSignature = NoSignature,
         NEW m, NEW pc, NEW base \in Seq(Word), NEW slots, NEW calls, NEW params \in Seq(Word),
         NEW results, Start(m, pc, base, slots, calls, params, results),
         ReserveFits(Len(base), Len(params)) =>
           HasFrames(m, pc, Len(base) + Len(params), Reserved(Len(base), Len(params), slots),
                     calls, results, NoSignature)
  PROVE  FramesInv'
<1>1. UNCHANGED storeVars /\ module' = m /\ resultLen' = results
  BY DEF Start
<1>2. lastSignature' = NoSignature
  BY <1>1 DEF storeVars
<1>3. CASE ReserveFits(Len(base), Len(params))
  <2>1. /\ phase' = "running" /\ ip' = pc /\ stack' = base \o params /\ callStack' = calls
        /\ entries' = Reserved(Len(base), Len(params), slots)
    BY <1>3 DEF Start
  <2>2. Len(base \o params) = Len(base) + Len(params) /\ Len(base) + Len(params) \in Nat
    BY ConcatProperties, LenProperties
  <2>3. Height' = Len(base) + Len(params)
    BY <2>1, <2>2 DEF Height
  <2> QED BY <1>1, <1>2, <1>3, <2>1, <2>3 DEF FramesInv
<1>4. CASE ~ReserveFits(Len(base), Len(params))
  BY <1>2, <1>4 DEF Start, FramesInv
<1> QED BY <1>3, <1>4

\* A fresh run has one frame, the function's that the host calls.
LEMMA FirstFrame ==
  ASSUME Shaped, NEW m \in Modules, NEW pc, NEW n \in Nat, NEW results,
         StartsAt(m, pc, n, results), ReserveFits(0, n)
  PROVE  HasFrames(m, pc, n, Reserved(0, n, N_DEFAULT_STACK_SIZE), <<>>, results, NoSignature)
<1> DEFINE base  == [i \in 1 .. 1 |-> 0]
           slots == Reserved(0, n, N_DEFAULT_STACK_SIZE)
<1>0. N_DEFAULT_STACK_SIZE \in Nat /\ N_MAX_STACK_SIZE \in Nat /\ Len(<<>>) = 0
  BY LimitsAssumption
<1>1. /\ pc \in Live(m) /\ Depth(m, pc) = n /\ Ret(m, pc) = results
      /\ Top(m, pc) <= N_MAX_STACK_SIZE
      /\ Top(m, pc) <= n \/ Top(m, pc) <= N_DEFAULT_STACK_SIZE
  BY DEF StartsAt
<1>2. Top(m, pc) \in Nat
  BY <1>1, ShapeAt
<1>3. slots \in Nat /\ n <= slots /\ N_DEFAULT_STACK_SIZE <= slots
  BY <1>0 DEF Reserved
<1>4. base \in [1 .. Len(<<>>) + 1 -> 0 .. N_MAX_STACK_SIZE] /\ base[1] = 0
  BY <1>0
<1> HIDE DEF slots, base
<1>5. Exist(0 + Top(m, pc), slots)
  BY <1>0, <1>1, <1>2, <1>3 DEF Exist
<1>6. /\ DepthAt(m, pc, NoSignature) = n /\ TopAt(m, pc, NoSignature) = Top(m, pc)
      /\ FrameRet(m, pc, <<>>, NoSignature, 1) = results
  BY <1>0, <1>1 DEF DepthAt, TopAt, FrameRet, RetAt
<1>7. Framed(m, pc, n, slots, <<>>, results, NoSignature, base)
  BY <1>0, <1>1, <1>4, <1>5, <1>6 DEF Framed
<1> QED BY <1>4, <1>7 DEF HasFrames, slots

\* The entrypoint and execute start in functions of the shape.
LEMMA HostFrames ==
  ASSUME Shaped, TypeOK, FramesInv, Host
  PROVE  FramesInv'
<1>0. phase = "idle" => stack = <<>> /\ callStack = <<>> /\ lastSignature = NoSignature
  BY DEF FramesInv
<1>1. ASSUME NEW m \in Modules, Entrypoint(m)
      PROVE  FramesInv'
  <2>1. /\ phase = "idle" /\ SourcePc[m] > 0
        /\ Start(m, 0, <<>>, N_DEFAULT_STACK_SIZE, <<>>, <<>>, 0)
    BY <1>1 DEF Entrypoint
  <2>2. StartsAt(m, 0, 0, 0)
    BY <2>1 DEF Shaped, ShapedModule, ShapedEntries
  <2>3. <<>> \in Seq(Word) /\ Len(<<>>) = 0 /\ 0 + 0 = 0
    OBVIOUS
  <2>4. ReserveFits(0, 0) =>
          HasFrames(m, 0, 0, Reserved(0, 0, N_DEFAULT_STACK_SIZE), <<>>, 0, NoSignature)
    BY <2>2, FirstFrame
  <2> QED BY <1>0, <2>1, <2>3, <2>4, StartFrames
<1>2. ASSUME NEW m \in Modules, NEW params \in ParamSets[m], Execute(m, params)
      PROVE  FramesInv'
  <2>1. /\ phase = "idle"
        /\ Start(m, SourcePc[m], <<>>, N_DEFAULT_STACK_SIZE, <<>>, params, ResultLen[m])
    BY <1>2 DEF Execute
  <2>2. params \in Seq(Word) /\ Len(params) \in Nat
    BY ModulesAssumption, LenProperties
  <2>3. <<>> \in Seq(Word) /\ Len(<<>>) = 0 /\ 0 + Len(params) = Len(params)
    BY <2>2
  <2>4. ReserveFits(0, Len(params)) => StartsAt(m, SourcePc[m], Len(params), ResultLen[m])
    BY DEF Shaped, ShapedModule, ShapedEntries
  <2>5. ReserveFits(0, Len(params)) =>
          HasFrames(m, SourcePc[m], Len(params), Reserved(0, Len(params), N_DEFAULT_STACK_SIZE),
                    <<>>, ResultLen[m], NoSignature)
    BY <2>2, <2>4, FirstFrame
  <2> QED BY <1>0, <2>1, <2>2, <2>3, <2>5, StartFrames
<1>3. CASE StoreReset
  BY <1>0, <1>3 DEF StoreReset, runVars, FramesInv
<1>4. ASSUME NEW limit \in FuelLimits, ResetFuel(limit)
      PROVE  FramesInv'
  BY <1>4 DEF ResetFuel, runVars, FramesInv, Height
<1> QED BY <1>1, <1>2, <1>3, <1>4 DEF Host

\* The handler leaves the frames alone until its results complete the running one.
LEMMA HandlerFrames ==
  ASSUME Shaped, TypeOK, FramesInv, Handler
  PROVE  FramesInv'
<1>1. ASSUME NEW delta \in HandlerFuel, HandlerCharges(delta)
      PROVE  FramesInv'
  BY <1>1 DEF HandlerCharges, runVars, FramesInv, Height
<1>2. ASSUME phase = "syscall", NEW results \in SysReturns(syscall), SyscallOk(results)
      PROVE  FramesInv'
  <2>1. results \in Seq(Word) /\ Len(results) = SysResults[syscall]
    <3>1. SysResults[syscall] \in Nat
      BY <1>2, SyscallAssumption DEF TypeOK
    <3>2. results \in [1 .. SysResults[syscall] -> Word]
      BY <1>2, LimitsAssumption DEF SysReturns
    <3> QED BY <3>1, <3>2, FunctionLen
  <2>2. Len(stack \o results) = Len(stack) + SysResults[syscall] /\ Len(stack) \in Nat
        /\ SysResults[syscall] \in Nat
    BY <2>1, ConcatProperties, LenProperties DEF TypeOK
  <2>3. /\ phase' = "running" /\ stack' = stack \o results
        /\ UNCHANGED <<module, ip, entries, callStack, resultLen, lastSignature>>
    BY <1>2 DEF SyscallOk, storeVars
  <2>4. Height' = Height
    BY <1>2, <2>2, <2>3 DEF Height
  <2>5. /\ HasFrames(module, ip, Height, entries, callStack, resultLen, lastSignature)
        /\ lastSignature = NoSignature
    BY <1>2 DEF FramesInv
  <2> QED BY <2>3, <2>4, <2>5 DEF FramesInv
<1>3. ASSUME NEW trap, SyscallTrap(trap)
      PROVE  FramesInv'
  BY <1>3, TrappedFrames DEF SyscallTrap
<1> QED BY <1>1, <1>2, <1>3 DEF Handler, HandlerReturns

----------------------------------------------------------------------------
\* Every step of shaped code, of a handler and of the host keeps the frames.
LEMMA FramesStep == Shaped /\ TypeOK /\ FramesInv /\ [Next]_vars => FramesInv'
<1> SUFFICES ASSUME Shaped, TypeOK, FramesInv, [Next]_vars PROVE FramesInv'
  OBVIOUS
<1>1. CASE UNCHANGED vars
  BY <1>1 DEF vars, runVars, storeVars, FramesInv, Height
<1>2. CASE VisitControlOp
  BY <1>2, BranchFrames, ReturnFrames, DirectCallFrames, IndirectFrames DEF VisitControlOp
<1> QED BY <1>1, <1>2, StackOpFrames, SystemOpFrames, CallFrames, HandlerFrames, HostFrames
        DEF Next, Visit

\* In shaped code the frames of the pending calls tile the value stack at every step of
\* every run: a return always finds its caller's frame and leaves it the results.
THEOREM FramesKept ==
  ASSUME Shaped
  PROVE  Spec => []FramesInv
<1>1. Init => FramesInv
  BY DEF Init, FramesInv
<1>2. TypeOK /\ FramesInv /\ [Next]_vars => FramesInv'
  BY FramesStep
<1> QED BY <1>1, <1>2, TypeCorrect, PTL DEF Spec

\* The results a handler owes come on top of what is on the stack.
LEMMA HeightTyped ==
  ASSUME Len(stack) \in Nat, phase = "syscall" => SysResults[syscall] \in Nat
  PROVE  Height \in Nat /\ Len(stack) <= Height
<1>1. CASE phase = "syscall"
  <2>1. Height = Len(stack) + SysResults[syscall]
    BY <1>1 DEF Height
  <2> QED BY <1>1, <2>1
<1>2. CASE phase # "syscall"
  <2>1. Height = Len(stack) + 0
    BY <1>2 DEF Height
  <2> QED BY <2>1
<1> QED BY <1>1, <1>2

\* The frames end within the slots that exist, and so does the stack.
LEMMA FramesInBounds == TypeOK /\ FramesInv /\ Shaped => StackInBounds
<1> SUFFICES ASSUME TypeOK, FramesInv, Shaped PROVE StackInBounds
  OBVIOUS
<1>1. CASE phase = "idle"
  BY <1>1 DEF StackInBounds
<1>2. CASE phase # "idle"
  <2>1. /\ module \in Modules /\ callStack \in Seq(Nat) /\ Len(stack) \in Nat /\ entries \in Nat
        /\ HasFrames(module, ip, Height, entries, callStack, resultLen, lastSignature)
    BY <1>2, LenProperties DEF TypeOK, FramesInv
  <2>2. phase = "syscall" => SysResults[syscall] \in Nat
    BY SyscallAssumption DEF TypeOK
  <2>3. Height \in Nat /\ Len(stack) <= Height
    BY <2>1, <2>2, HeightTyped
  <2>4. module \in Modules /\ callStack \in Seq(Nat) /\ entries \in Nat
    BY <2>1
  <2>5. Exist(Height, entries)
    BY <2>1, <2>3, <2>4, FrameOnStack
  <2>6. Height <= entries /\ Height <= N_MAX_STACK_SIZE /\ N_MAX_STACK_SIZE \in Nat
    BY <2>5, LimitsAssumption DEF Exist
  <2> QED BY <2>1, <2>3, <2>6 DEF StackInBounds
<1> QED BY <1>1, <1>2

\* The unchecked pushes of shaped code are covered by the slots reserved in advance, up
\* to the results a handler still owes.
THEOREM StackSafe ==
  ASSUME Shaped
  PROVE  Spec => []StackInBounds
<1>1. TypeOK /\ FramesInv => StackInBounds
  BY FramesInBounds
<1> QED BY <1>1, TypeCorrect, FramesKept, PTL

\* However a run of shaped code ends, its stacks are empty: the last return pops the
\* results the host asked for and there is nothing below them.
THEOREM ExitsClean ==
  ASSUME Shaped
  PROVE  Spec => []CleanExit
<1>1. FramesInv => CleanExit
  BY DEF FramesInv, CleanExit
<1> QED BY <1>1, FramesKept, PTL

\* What an opcode takes is part of the running function's frame.
LEMMA FrameSupplies ==
  ASSUME Shaped, TypeOK, FramesInv, phase = "running", Fetch.op # "SignatureCheck"
  PROVE  Supplied(Fetch, Len(stack))
<1> DEFINE c == Fetch
           d == Depth(module, ip)
           h == Len(stack)
<1>1. ip \in 0 .. Len(Code[module]) - 1 /\ c = Code[module][ip + 1] /\ h \in Nat
  BY RunningFrame DEF Fetch
<1>2. At({c.op})
  BY <1>1 DEF At
<1>3. /\ lastSignature = NoSignature /\ d \in Nat /\ d <= h
      /\ ShapedStackOp(module, ip) /\ ShapedSystemOp(module, ip) /\ ShapedControlOp(module, ip)
  BY <1>2, PlainFrame
<1>4. c.op \in {"LocalGet", "LocalSet", "LocalTee", "BulkDrop"} => c.imm \in Nat
  BY <1>2, RunningFrame, FetchTyped DEF OperandTyped, BranchOps
<1>5. c.op \in {"Call", "ReturnCall"} => SysParams[c.imm] \in Nat
  BY <1>2, RunningFrame, FetchTyped, SyscallAssumption DEF OperandTyped
<1>6. c.op \in IndirectOps => Params(module, c.imm) \in Nat /\ 1 + Params(module, c.imm) <= d
  BY <1>1, <1>3, RunningFrame, ShapeAt DEF ShapedControlOp, IndirectOps
<1>7. c.op = "Return" /\ callStack = <<>> => resultLen = h
  <2> SUFFICES ASSUME c.op = "Return", callStack = <<>> PROVE resultLen = h
    OBVIOUS
  <2>1. HasFrames(module, ip, h, entries, <<>>, resultLen, NoSignature) /\ module \in Modules
        /\ entries \in Nat
    BY <1>3, RunningFrame
  <2>2. d = Ret(module, ip)
    BY <1>1, <1>3 DEF ShapedControlOp
  <2> HIDE DEF h
  <2> QED BY <1>1, <2>1, <2>2, LastFrame
<1>8. /\ c.op \in {"LocalGet", "LocalTee", "BulkDrop"} => c.imm <= d
      /\ c.op = "LocalSet" => c.imm + 1 <= d
      /\ c.op = "Select" => 3 <= d
      /\ c.op \in {"Drop", "GlobalSet"} \cup UnaryOps => 1 <= d
      /\ c.op \in BinaryOps \cup WideOps => 2 <= d
  BY <1>1, <1>3 DEF ShapedStackOp
<1>9. /\ c.op = "ConsumeFuelStack" => 1 <= d
      /\ c.op \in {"Call", "ReturnCall"} => SysParams[c.imm] <= d
  BY <1>1, <1>3 DEF ShapedSystemOp
<1>10. c.op \in {"BrIfEqz", "BrIfNez", "BrTable"} => 1 <= d
  BY <1>1, <1>3 DEF ShapedControlOp
<1> HIDE DEF c, d, h
<1>11. /\ c.op \in {"LocalGet", "LocalTee", "BulkDrop"} => c.imm <= h
       /\ c.op = "LocalSet" => c.imm + 1 <= h
       /\ c.op = "Select" => 3 <= h
  BY <1>1, <1>3, <1>4, <1>8
<1>12. /\ c.op \in {"Drop", "GlobalSet", "ConsumeFuelStack", "BrIfEqz", "BrIfNez", "BrTable"} => 1 <= h
       /\ c.op \in UnaryOps => 1 <= h
       /\ c.op \in BinaryOps \cup WideOps => 2 <= h
  BY <1>1, <1>3, <1>8, <1>9, <1>10
<1>13. c.op \in IndirectOps => 1 <= h
  BY <1>1, <1>3, <1>6
<1>14. c.op \in {"Call", "ReturnCall"} => SysParams[c.imm] <= h
  BY <1>1, <1>3, <1>5, <1>9
<1>15. c.op = "Return" /\ callStack = <<>> => resultLen <= h
  BY <1>1, <1>7
<1> QED BY <1>11, <1>12, <1>13, <1>14, <1>15 DEF Supplied, c, h

\* So is what every opcode takes: a signature check takes nothing.
LEMMA FramesSupply == TypeOK /\ FramesInv /\ Shaped => OperandsPresent
<1> SUFFICES ASSUME TypeOK, FramesInv, Shaped PROVE OperandsPresent
  OBVIOUS
<1>1. ASSUME Fetch.op = "SignatureCheck"
      PROVE  Supplied(Fetch, Len(stack))
  BY <1>1, AluAssumption DEF Supplied, IndirectOps
<1> QED BY <1>1, FrameSupplies, RunningFrame DEF OperandsPresent

\* No opcode of shaped code ever pops below its function's frame: the unchecked pops read
\* operands, never the caller's slots or what lies under the stack.
THEOREM OperandsFound ==
  ASSUME Shaped
  PROVE  Spec => []OperandsPresent
<1>1. TypeOK /\ FramesInv => OperandsPresent
  BY FramesSupply
<1> QED BY <1>1, TypeCorrect, FramesKept, PTL
=============================================================================
