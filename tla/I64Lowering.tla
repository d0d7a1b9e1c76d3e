---------------------------- MODULE I64Lowering ----------------------------
(***************************************************************************)
(* The i64 sequences run by the interpreter: for every instruction a       *)
(* module whose code is the snippet the compiler emits for it, a           *)
(* StackCheck of its declared height, the sequence, a Return.  The host    *)
(* calls it with any operands and compares the outcome with arithmetic on  *)
(* words of 2W bits.                                                       *)
(***************************************************************************)
EXTENDS Executor, I64Sequences

\* The modules are the instructions under test.
CONSTANT Limbs            \* the words each limb of an instruction's operands is one of

ASSUME LoweringAssumption == Modules \subseteq DOMAIN Emitter /\ Limbs \in [Modules -> [1 .. 4 -> SUBSET Word]]

\* A word has a power of two of bits, so that a shift's amount is in its low limb; and what
\* is true of the powers of two for every W, for the provers, which know no exponents.
ASSUME WordBits ==
  /\ W \in Nat \ {0} /\ 2^W % (2 * W) = 0
  /\ 2^0 = 1 /\ 2^1 = 2
  /\ \A m \in 0 .. 2 * W : 2^m \in Nat \ {0}
  /\ \A m, n \in 0 .. W : 2^(m + n) = 2^m * 2^n

VARIABLE operands         \* what the run in progress was called with

Long == INSTANCE I32Alu WITH W <- 2 * W
Snip == INSTANCE I64Snippets

\* Operands in slots; unary instructions take one i64, an extension one i32.
UnaryLongs == {"I32WrapI64", "I64Extend8S", "I64Extend16S", "I64Extend32S", "I64Eqz",
               "I64Clz", "I64Ctz", "I64Popcnt"}
Extensions == {"I64ExtendI32S", "I64ExtendI32U"}
Arity(op)  == IF op \in Extensions THEN 1 ELSE IF op \in UnaryLongs THEN 2 ELSE 4

\* Comparisons, eqz and wrap leave one word, everything else an i64.
OneWord == {"I32WrapI64", "I64Eqz", "I64Eq", "I64Ne", "I64LtS", "I64LtU", "I64GtS", "I64GtU",
            "I64LeS", "I64LeU", "I64GeS", "I64GeU"}

\* emit_snippets: the function the compiler adds to the module for a snippet, or
\* the same sequence inlined after the StackCheck of the function it is part of.
SnippetCode(op) == <<Emit("StackCheck", Msh[op])>> \o Emitter[op] \o <<Emit("Return", 0)>>

OpCode      == LET code == [op \in Modules |-> SnippetCode(op)] IN code
OpSourcePc  == [op \in Modules |-> 0]
OpTables    == [op \in Modules |-> <<>>]
OpParamSets ==
  [op \in Modules |-> {v \in [1 .. Arity(op) -> UNION {Limbs[op][i] : i \in 1 .. 4}] :
     \A i \in DOMAIN v : v[i] \in Limbs[op][i]}]
OpResultLen == [op \in Modules |-> IF op \in OneWord THEN 1 ELSE 2]

----------------------------------------------------------------------------
(* What the instruction should return: the same instruction on 2W bits.    *)

LongOf(lo, hi) == lo + 2^W * hi
Split(a)       == <<a % 2^W, a \div 2^W>>

\* The 2W-bit instruction of each two-operand sequence.
WideName ==
  [I64Add |-> "I32Add", I64Sub |-> "I32Sub", I64Mul |-> "I32Mul", I64Eq |-> "I32Eq",
   I64Ne |-> "I32Ne", I64LtS |-> "I32LtS", I64LtU |-> "I32LtU", I64GtS |-> "I32GtS",
   I64GtU |-> "I32GtU", I64LeS |-> "I32LeS", I64LeU |-> "I32LeU", I64GeS |-> "I32GeS",
   I64GeU |-> "I32GeU", I64And |-> "I32And", I64Or |-> "I32Or", I64Xor |-> "I32Xor",
   I64Shl |-> "I32Shl", I64ShrS |-> "I32ShrS", I64ShrU |-> "I32ShrU", I64Rotl |-> "I32Rotl",
   I64Rotr |-> "I32Rotr", I64DivU |-> "I32DivU", I64DivS |-> "I32DivS", I64RemU |-> "I32RemU",
   I64RemS |-> "I32RemS"]

UnaryResult(op, a) ==
  CASE op = "I32WrapI64"    -> <<a % 2^W>>
    [] op = "I64Eqz"        -> <<Long!FromBool(a = 0)>>
    [] op = "I64Clz"        -> Split(Long!Clz(a))
    [] op = "I64Ctz"        -> Split(Long!Ctz(a))
    [] op = "I64Popcnt"     -> Split(Long!Popcnt(a))
    [] op = "I64Extend8S"   -> Split(Long!SignExtend(a, W \div 4))
    [] op = "I64Extend16S"  -> Split(Long!SignExtend(a, W \div 2))
    [] op \in {"I64Extend32S", "I64ExtendI32S"} -> Split(Long!SignExtend(a, W))
    [] op = "I64ExtendI32U" -> Split(a)

ExpectedTrap(op, v) ==
  IF op \in DOMAIN WideName
    THEN Long!BinaryTrap(WideName[op], LongOf(v[1], v[2]), LongOf(v[3], v[4]))
    ELSE "none"

ExpectedResult(op, v) ==
  IF op \in DOMAIN WideName
    THEN LET res == Long!Binary(WideName[op], LongOf(v[1], v[2]), LongOf(v[3], v[4]))
         IN  IF op \in OneWord THEN <<res>> ELSE Split(res)
    ELSE UnaryResult(op, IF Len(v) = 1 THEN v[1] ELSE LongOf(v[1], v[2]))

----------------------------------------------------------------------------
LowVars == <<vars, operands>>

LowInit == Init /\ operands = <<>>

\* The instruction under test is the module the behaviour starts with.
Callable == IF operands = <<>> THEN ParamSets[module] ELSE {}
Call(v) ==
  /\ operands = <<>>
  /\ Execute(module, v)
  /\ operands' = v

Work == Visit /\ UNCHANGED operands

\* The host takes the result and may call again.
TakeResult ==
  /\ phase = "idle" /\ operands # <<>>
  /\ operands' = <<>>
  /\ outcome' = [ok |-> TRUE, trap |-> "none", result |-> <<>>]
  /\ resultLen' = 0
  /\ UNCHANGED <<phase, module, ip, stack, entries, callStack, syscall, storeVars>>

LowNext ==
  \/ \E v \in Callable : Call(v)
  \/ Work
  \/ TakeResult

LowSpec == LowInit /\ [][LowNext]_LowVars

----------------------------------------------------------------------------
\* A run has ended and its result is there to see.
Finished == phase = "idle" /\ operands # <<>>

\* Every i64 sequence computes on two words what Wasm's instruction computes on an
\* i64, and traps exactly when it does, with the same trap code.
LoweringCorrect ==
  Finished =>
    IF ExpectedTrap(module, operands) = "none"
      THEN outcome.ok /\ outcome.result = ExpectedResult(module, operands)
      ELSE ~outcome.ok /\ outcome.trap = ExpectedTrap(module, operands)

\* The sequences extracted from src/snippets still compute what the Rust functions
\* there compute.
SequenceMatchesSnippet ==
  (Finished /\ outcome.ok /\ module \in Snip!SnippetOps) =>
    outcome.result = Snip!Snippet(module, operands[1], operands[2], operands[3], operands[4])

\* The Rust functions themselves compute what Wasm's instruction does on an i64, carries,
\* lost bits and the fast path of a division included.
SnippetMatchesWasm ==
  (Finished /\ module \in Snip!SnippetOps /\ ExpectedTrap(module, operands) = "none") =>
    Snip!Snippet(module, operands[1], operands[2], operands[3], operands[4])
      = ExpectedResult(module, operands)

\* (A sequence that read below its operands, which belong to the code around it, would
\* have no next step: the runs check that there is none.)
\* A sequence never needs more slots than the MSH_* constant declares: the check at
\* the function's start reserves no more than that, and pushes are not checked.
HeightCovered == phase = "running" => Len(stack) <= Len(operands) + Msh[module]
=============================================================================
