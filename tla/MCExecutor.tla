----------------------------- MODULE MCExecutor -----------------------------
(***************************************************************************)
(* Executor on the programs of Programs, with words of four bits.  The     *)
(* programs have shapes, so what is proved of shaped code is about them.   *)
(***************************************************************************)
EXTENDS CodeShape, ShapeFinder, Programs

Alu == INSTANCE I32Alu WITH W <- 4

MCWord      == Alu!Words
MCUnaryOps  == Alu!UnaryOpcodes
MCBinaryOps == Alu!BinaryOpcodes
MCWideOps   == Alu!WideOpcodes
MCUnary(op, a)     == Alu!Unary(op, a)
MCBinary(op, a, b) == Alu!Binary(op, a, b)
MCTrap(op, a, b)   == Alu!BinaryTrap(op, a, b)
MCWide(op, a, b)   == Alu!Wide(op, a, b)

MCModules == DOMAIN ProgCode
MCGlobals == {0}

\* The entrypoint at 0, the main function behind source_pc, and the functions.
MCEntries(m) ==
  {At0(0, 0, 0, 0)}
    \cup {At0(SourcePc[m], Len(params), Len(params), ResultLen[m]) :
            params \in {p \in ParamSets[m] : ReserveFits(0, Len(p))}}
    \cup FunctionEntries(Code[m], ProgSignatures[m])
ShapeOf(m) == FoundShape(Code[m], ProgSignatures[m], MCEntries(m))
ProgShape ==
  [dispatch |-> ShapeOf("dispatch"), countdown |-> ShapeOf("countdown"), spin |-> ShapeOf("spin"),
   recursion |-> ShapeOf("recursion"), wide |-> ShapeOf("wide"),
   indirect |-> ShapeOf("indirect"), limit |-> ShapeOf("limit")]
MCShape == ProgShape

ASSUME ProgramsShaped == Shaped
=============================================================================
