--------------------------- MODULE CompiledShapes ---------------------------
(***************************************************************************)
(* What the compiler promises the interpreter about the value stack: the   *)
(* code of a compiled module has a shape (module CodeShape), from which    *)
(* the theorems of ShapeProofs follow for every run of it.  A trampoline   *)
(* that computes a price has none: it pushes words that nobody reserved.   *)
(***************************************************************************)
EXTENDS CompiledRuns, ShapeFinder

CONSTANT CompiledUnpriced   \* the modules, compiled for a linker that does not price imports

Unpriced         == INSTANCE Assembly WITH BuiltinsConsumeFuel <- FALSE
UnpricedModules  ==
  LET all == [m \in Modules |-> Unpriced!Assemble(Binary(Sources[m]))] IN all
UnpricedCode     == CodeOf(CompiledUnpriced)
UnpricedSourcePc == SourcePcOf(CompiledUnpriced)
UnpricedTables   == TablesOf(CompiledUnpriced)

\* A snippet takes two values of two slots and is only reached by calls.
SnippetBodies ==
  LET bodies == [s \in Compiler!Snippets |->
        <<Compiler!Emit("StackCheck", Compiler!HeightOf(s))>> \o Compiler!OpcodesOf(s)
        \o <<Compiler!Emit("Return", 0)>>]
  IN  bodies
SnippetEntry(code, callee) ==
  LET Begins(body) == SubSeq(code, callee + 1, callee + Len(body)) = body
      snippet  == CHOOSE s \in DOMAIN SnippetBodies : Begins(SnippetBodies[s])
  IN  At0(callee, 4, 4, IF snippet \in Compiler!I64Compares THEN 1 ELSE 2)
SnippetEntries(code) ==
  {SnippetEntry(code, callee) :
     callee \in {code[i].imm : i \in {i \in DOMAIN code :
       code[i].op = "CallInternal" /\ code[code[i].imm + 1].op # "SignatureCheck"}}}

\* The slots of the function types.
SignatureSlots ==
  [s \in 0 .. Len(FuncTypes) - 1 |->
     [params  |-> Wasm!Slots(FuncTypes[s + 1].params),
      results |-> Wasm!Slots(FuncTypes[s + 1].results)]]

\* The entrypoint and the code behind source_pc run on the default stack.
HostEntry(pc, params, results) == At0(pc, params, Higher(params, N_DEFAULT_STACK_SIZE), results)
CompiledEntries(m) ==
  {HostEntry(0, 0, 0)}
    \cup {HostEntry(UnpricedSourcePc[m], Len(params), ResultLen[m]) : params \in ParamSets[m]}
    \cup FunctionEntries(UnpricedCode[m], SignatureSlots)
    \cup SnippetEntries(UnpricedCode[m])

ShapeOfCompiled(m) == FoundShape(UnpricedCode[m], SignatureSlots, CompiledEntries(m))

HasShape(m, shape) ==
  INSTANCE CodeShape WITH Shape <- m :> shape, Code <- UnpricedCode,
                          SourcePc <- UnpricedSourcePc, TableElems <- UnpricedTables

\* The code the compiler emits for unpriced imports has a shape: "guaranteed by Wasm
\* validation and rwasm codegen to never run out of valid bounds" (value_stack.rs).
CompiledShaped ==
  \A m \in Modules :
    m = module /\ phase = "idle" /\ ~instantiated =>
      HasShape(m, ShapeOfCompiled(m))!ShapedModule(m)
=============================================================================
