------------------------------ MODULE WasmBulk ------------------------------
(***************************************************************************)
(* What WebAssembly says the bulk instructions, loads and stores do to a   *)
(* linear memory or to a table: the reference definitions modules Segments *)
(* and RegionAccess are compared with.                                     *)
(* Numbers are unbounded here; nothing knows of rwasm's single section,    *)
(* of words or of fuel.  A region is a sequence of cells.                  *)
(***************************************************************************)
EXTENDS Integers, Sequences

Done(cells) == [outcome |-> "ok", cells |-> cells]
Trap(cells) == [outcome |-> "trap", cells |-> cells]

\* The region with values written at offset d.
Overwritten(cells, d, values) ==
  [k \in DOMAIN cells |-> IF k - d \in DOMAIN values THEN values[k - d] ELSE cells[k]]

\* n cells of source at offset s are written at offset d, if both ranges exist.
Moved(cells, source, d, s, n) ==
  IF s + n <= Len(source) /\ d + n <= Len(cells)
    THEN Done(Overwritten(cells, d, SubSeq(source, s + 1, s + n)))
    ELSE Trap(cells)

\* memory.init, table.init: a segment that was dropped has no content.
InitFrom(cells, content, d, s, n) == Moved(cells, content, d, s, n)

\* memory.copy, table.copy within one table: the ranges may overlap.
CopyWithin(cells, d, s, n) == Moved(cells, cells, d, s, n)

FillWith(cells, d, value, n) ==
  IF d + n <= Len(cells) THEN Done(Overwritten(cells, d, [k \in 1 .. n |-> value]))
                         ELSE Trap(cells)

\* memory.grow, table.grow: all or nothing, never beyond the limit; it may always
\* fail.  A grow by nothing is a way to ask for the size.
GrowAllowed(cells, added, value, limit, new) ==
  \/ new = cells
  \/ /\ Len(cells) + added <= limit
     /\ new = cells \o [k \in 1 .. added |-> value]

----------------------------------------------------------------------------
(* Loads and stores, in a memory whose words have bits of four bytes each. *)

\* Bytes an instruction accesses.
BytesOf(op) ==
  CASE op \in {"I32Load8S", "I32Load8U", "I64Load8S", "I64Load8U", "I32Store8", "I64Store8"} -> 1
    [] op \in {"I32Load16S", "I32Load16U", "I64Load16S", "I64Load16U", "I32Store16",
               "I64Store16"} -> 2
    [] op \in {"I64Load", "F64Load", "I64Store", "F64Store"} -> 8
    [] OTHER -> 4

SignedLoads == {"I32Load8S", "I32Load16S", "I64Load8S", "I64Load16S", "I64Load32S"}

Exists(cells, at, n) == at + n <= Len(cells)

\* The number that n bytes are, the lowest first.
Number(cells, at, n, byte) ==
  LET first[k \in 0 .. n] == IF k = 0 THEN 0 ELSE first[k - 1] + cells[at + k] * byte^(k - 1)
  IN  first[n]

\* What a load leaves, in words: extended by its sign, or by zeros.
LoadFrom(cells, op, at, bits, wide) ==
  LET n      == BytesOf(op)
      byte   == 2^(bits \div 4)
      number == Number(cells, at, n, byte)
      v      == IF op \in SignedLoads /\ 2 * number >= byte^n THEN number - byte^n ELSE number
      full   == v % 2^(2 * bits)
  IN  IF wide THEN <<full % 2^bits, full \div 2^bits>> ELSE <<full % 2^bits>>

StoreAt(cells, op, at, v, bits) ==
  LET n    == BytesOf(op)
      byte == 2^(bits \div 4)
  IN  IF Exists(cells, at, n)
        THEN Done(Overwritten(cells, at, [k \in 1 .. n |-> (v % byte^k) \div byte^(k - 1)]))
        ELSE Trap(cells)
=============================================================================
