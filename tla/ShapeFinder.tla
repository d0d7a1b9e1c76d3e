----------------------------- MODULE ShapeFinder -----------------------------
(***************************************************************************)
(* The shape of a module's code, found by following control from the       *)
(* functions and from the host's entries; where two paths meet, the slots  *)
(* that exist are those of the smaller frame.  Whether it is a shape is    *)
(* for CodeShape!Shaped to say.                                            *)
(***************************************************************************)
EXTENDS Executor, FiniteSetsExt, TLC

\* A point of the code: the frame's slots there, those that exist, those returned.
At0(pc, d, t, r) == [pc |-> pc, depth |-> d, top |-> t, ret |-> r]

Higher(a, b) == IF a > b THEN a ELSE b

\* The points that control reaches from p; sigs gives the slots of each signature,
\* entry the point of each function.
Successors(code, sigs, entry, p) ==
  LET c     == code[p.pc + 1]
      d     == p.depth
      To(q, n, t) == {At0(q, n, t, p.ret)}
      Goes(q, n)  == To(q, n, p.top)
      Falls(n)    == Goes(p.pc + 1, n)
      Callee(e)   == CHOOSE q \in entry : q.pc = e
  IN  CASE c.op \in {"LocalGet", "I32Const", "RefFunc", "GlobalGet"} -> Falls(d + 1)
        [] c.op \in {"LocalSet", "Drop", "GlobalSet", "ConsumeFuelStack"} \cup BinaryOps -> Falls(d - 1)
        [] c.op \in {"LocalTee", "ConsumeFuel", "SignatureCheck"} \cup UnaryOps \cup WideOps -> Falls(d)
        [] c.op = "Select"     -> Falls(d - 2)
        [] c.op = "BulkConst"  -> Falls(d + c.imm)
        [] c.op = "BulkDrop"   -> Falls(d - c.imm)
        [] c.op = "StackCheck" -> To(p.pc + 1, d, Higher(p.top, d + c.imm))
        [] c.op \in {"Call", "ReturnCall"} ->
             To(p.pc + 1, d - SysParams[c.imm] + SysResults[c.imm], Higher(p.top, d + SysValues[c.imm]))
        [] c.op = "Br" -> Goes(p.pc + c.imm, d)
        [] c.op \in {"BrIfEqz", "BrIfNez"} -> Goes(p.pc + c.imm, d - 1) \cup Falls(d - 1)
        [] c.op = "BrTable" -> UNION {Goes(p.pc + 2 * i + 1, d - 1) : i \in 0 .. c.imm - 1}
        [] c.op = "CallInternal" -> Falls(d - Callee(c.imm).depth + Callee(c.imm).ret)
        [] c.op = "CallIndirect" -> Goes(p.pc + 2, d - 1 - sigs[c.imm].params + sigs[c.imm].results)
        [] OTHER -> {}

\* The function that takes the offset of every point to the point.
ByOffset(points) == FoldSet(LAMBDA p, found : (p.pc :> p) @@ found, <<>>, points)

\* Points at new offsets, or with a smaller frame than the one found there.
News(found, points) ==
  LET new == {p \in points : p.pc \notin DOMAIN found \/ p.top < found[p.pc].top}
  IN  {p \in new : \A q \in new : q.pc = p.pc => p.top <= q.top}

\* Every point that control reaches from the last ones that were found.
RECURSIVE Follow(_, _, _, _, _)
Follow(code, sigs, entry, found, last) ==
  IF last = {} THEN found
  ELSE LET new == News(found, UNION {Successors(code, sigs, entry, p) : p \in last})
       IN  Follow(code, sigs, entry, ByOffset(new) @@ found, new)

\* sigs: the slots of each signature; entry: the points where functions and runs begin.
FoundShape(code, sigs, entry) ==
  [at |-> Follow(code, sigs, entry, ByOffset(entry), entry), sigs |-> sigs]

\* A function opens with the check of its signature.
FunctionEntries(code, sigs) ==
  {At0(i - 1, sigs[code[i].imm].params, sigs[code[i].imm].params, sigs[code[i].imm].results) :
     i \in {i \in DOMAIN code : code[i].op = "SignatureCheck"}}
=============================================================================
