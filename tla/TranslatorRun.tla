---------------------------- MODULE TranslatorRun ----------------------------
(***************************************************************************)
(* FuncBuilder (src/src/compiler/func_builder.rs) on every function body   *)
(* the validator accepts: operators of an alphabet are read one by one,    *)
(* validated and translated, until the body ends.                          *)
(***************************************************************************)
EXTENDS StackShape

CONSTANTS
  TranslatedFuncs,       \* the functions to translate: records [func, locals, scope]
  Alphabet,              \* the operators a body of each scope is made of
  MaxOperators           \* and how many

VARIABLES
  function,              \* the function being translated
  v,                     \* its validator
  t,                     \* its translator
  count,                 \* operators read
  done                   \* finish has run

vars == <<function, v, t, count, done>>

LocalTypes(groups) ==
  FoldLeft(LAMBDA ts, g : ts \o [i \in 1 .. g.amount |-> g.type], <<>>, groups)
TypeOfFunction(f) == FuncType(FuncTypeOf[f.func + 1])

\* validate_then_translate.  The operators left suffice to close the frames.
Visit(i) ==
  LET valid == Validate(v, i) IN
  /\ ~done /\ t.status = "ok" /\ v.ctrls # <<>>
  /\ valid.valid
  /\ count + 1 + Len(valid.ctrls) <= MaxOperators[function.scope]
  /\ v' = valid
  /\ t' = Translate(t, i)
  /\ count' = count + 1
  /\ UNCHANGED <<function, done>>

BranchOps  == {"Br", "BrIf", "BrTable", "Return", "Unreachable"}
CallOps    == {"Call", "CallIndirect", "ReturnCall", "ReturnCallIndirect"}
VariableOps == {"LocalGet", "LocalSet", "LocalTee", "GlobalGet", "GlobalSet"}

Of(ops) == {i \in Alphabet[function.scope] : i.op \in ops}
VisitControl  == \E i \in Of(StructuredOps) : Visit(i)
VisitBranch   == \E i \in Of(BranchOps) : Visit(i)
VisitCalls    == \E i \in Of(CallOps) : Visit(i)
VisitVariable == \E i \in Of(VariableOps) : Visit(i)
VisitHeap     == \E i \in Of(HeapOps) : Visit(i)
VisitOther    ==
  LET named == StructuredOps \cup BranchOps \cup CallOps \cup VariableOps \cup HeapOps
  IN  \E i \in Alphabet[function.scope] : i.op \notin named /\ Visit(i)

\* validator.finish and translator.finish.
FinishFunction ==
  /\ ~done /\ t.status = "ok" /\ v.ctrls = <<>>
  /\ t' = Finished(t)
  /\ done' = TRUE
  /\ UNCHANGED <<function, v, count>>

Init ==
  /\ function \in TranslatedFuncs
  /\ v = NewValidator(TypeOfFunction(function), LocalTypes(function.locals))
  /\ t = Opened(NoTranslation, function.func, function.locals)
  /\ count = 0
  /\ done = FALSE

Next ==
  \/ VisitControl \/ VisitBranch \/ VisitCalls \/ VisitVariable \/ VisitHeap \/ VisitOther
  \/ FinishFunction

Spec == Init /\ [][Next]_vars

----------------------------------------------------------------------------
\* No body that passes validation makes the translator panic: its assertions on
\* the emulated stack, on labels and on frames ("This should not happen since we
\* have already validated the input Wasm prior").
NoPanic == t.status # "panic"

\* In reachable code the translator's emulated stack is the validator's: the same
\* types above the locals, and a height that counts their slots.  It keeps both
\* up to date in every visitor on its own, and unreachable code skips most of them.
EmulatedStackExact ==
  t.status = "ok" /\ v.ctrls # <<>> =>
    /\ t.reachable = \A c \in DOMAIN v.ctrls : ~v.ctrls[c].dead
    /\ t.reachable =>
         /\ t.types = v.locals \o v.stack
         /\ t.params + t.height = SlotsOf(t.types)

\* Compiled code is sound for an interpreter that checks nothing: on every path the
\* stack has one height at each opcode, covers what the opcode reads, holds exactly
\* the results at a Return and the callee's parameters at a tail call, and no
\* branch leaves the function.
CodeSound ==
  done /\ t.status = "ok" =>
    FlowSound(t, FunctionFlow(t), TypeOfFunction(function).results)

\* The height StackCheck reserves, the maximum the translator has seen
\* (ValueStackHeight::max_stack_height), covers every push of the code it emitted.
StackCheckCovers == done /\ t.status = "ok" => FlowCovered(t, FunctionFlow(t))

\* Metered code cannot loop for free: every cycle passes a ConsumeFuel that charges.
\* The charge of a loop is spread over the blocks it was split into, and the one
\* at its header may well be zero.
LoopsMetered ==
  done /\ t.status = "ok" /\ WithConsumeFuel => \A pc \in BackEdges(t) : ~FreeCycle(t, pc)
=============================================================================
