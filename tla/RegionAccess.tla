---------------------------- MODULE RegionAccess ----------------------------
(***************************************************************************)
(* Single accesses to the region of module Segments: loads and stores, the *)
(* writes of a handler, table.set.  rwasm has loads and stores of a word   *)
(* or less (and of an f64); an i64 access is a sequence of two (src/src/   *)
(* isa/memory.rs), each of which checks its own address.  A byte has W / 4 *)
(* bits, so that a word is four bytes.                                     *)
(***************************************************************************)
EXTENDS Segments

Ops == INSTANCE WasmOps

Offsets == layout.offsets      \* static offsets of the guest's loads and stores
Stored  == layout.stored       \* values it stores: <<low word, high word>>

ASSUME AccessAssumption ==
  \A l \in Layouts : l.offsets \subseteq Words /\ l.stored \subseteq Words \X Words

Byte == 2^(W \div 4)

\* A word is four bytes, and the rest is true of every W: the provers know nothing of
\* exponents.
ASSUME FourBytes == W % 4 = 0
ASSUME Powers ==
  /\ 2^0 = 1 /\ 2^1 = 2 /\ Byte^0 = 1
  /\ \A m \in 0 .. 2 * W : 2^m \in Nat \ {0}
  /\ \A m, n \in 0 .. W : 2^(m + n) = 2^m * 2^n
  /\ \A k \in 0 .. 7 : Byte^(k + 1) = Byte^k * Byte

----------------------------------------------------------------------------
(* The opcodes.                                                            *)

\* Bytes of the type an opcode reads or writes.
Size(op) ==
  CASE op \in {"I32Load8S", "I32Load8U", "I32Store8"}    -> 1
    [] op \in {"I32Load16S", "I32Load16U", "I32Store16"} -> 2
    [] op \in {"F64Load", "F64Store"}                    -> 8
    [] OTHER                                             -> 4

NoAddress == Modulus      \* the Err of effective_address; not a word

\* Mutant: wrapping_add.
WrappedAddress(a, offset) == Wrap(a + offset)

\* effective_address: a checked sum of two words.
EffectiveAddress(a, offset) == IF a + offset < Modulus THEN a + offset ELSE NoAddress

Accessible(c, at, n) == at # NoAddress /\ at + n <= Len(c)

\* from_le_bytes and to_le_bytes.
FromBytes(bytes) ==
  LET last[k \in 0 .. Len(bytes)] ==
        IF k = 0 THEN 0 ELSE bytes[Len(bytes) + 1 - k] + Byte * last[k - 1]
  IN  last[Len(bytes)]
ToBytes(v, n)    == [k \in 1 .. n |-> (v \div Byte^(k - 1)) % Byte]

\* What a load pushes: one word, or the two of an f64.
Pushed(op, v) ==
  CASE op = "F64Load"   -> <<v % Modulus, v \div Modulus>>
    [] op = "I32Load8S" -> <<SignExtend(v, W \div 4)>>
    [] op = "I32Load16S" -> <<SignExtend(v, W \div 2)>>
    [] OTHER            -> <<v>>

\* A machine has a stack with its top at the end, cells and an outcome.
Machine(stack, c) == [stack |-> stack, cells |-> c, outcome |-> "ok"]
Trapped(m)     == [m EXCEPT !.outcome = "trap"]
Below(m, n)    == SubSeq(m.stack, 1, Len(m.stack) - n)
Slot(m, depth) == m.stack[Len(m.stack) + 1 - depth]

VisitLoad(m, op, offset) ==
  LET at == EffectiveAddress(Slot(m, 1), offset)
      n  == Size(op)
  IN  IF ~Accessible(m.cells, at, n) THEN Trapped(m)
      ELSE Machine(Below(m, 1) \o Pushed(op, FromBytes(SubSeq(m.cells, at + 1, at + n))),
                   m.cells)

\* The value is wrapped to the bytes that are stored.
VisitStore(m, op, offset) ==
  LET slots == IF op = "F64Store" THEN 3 ELSE 2
      at    == EffectiveAddress(Slot(m, slots), offset)
      v     == IF slots = 3 THEN Slot(m, 2) + Modulus * Slot(m, 1) ELSE Slot(m, 1)
      n     == Size(op)
  IN  IF ~Accessible(m.cells, at, n) THEN Trapped(m)
      ELSE Machine(Below(m, slots), Written(m.cells, at, ToBytes(v, n)))

\* The opcodes that occur in the sequences beside loads and stores.
VisitLocalGet(m, depth) == Machine(Append(m.stack, Slot(m, depth)), m.cells)
VisitLocalSet(m, depth) ==
  Machine([Below(m, 1) EXCEPT ![Len(m.stack) - depth] = Slot(m, 1)], m.cells)
VisitDrop(m)     == Machine(Below(m, 1), m.cells)
VisitConst(m, v) == Machine(Append(m.stack, v), m.cells)
VisitShrS(m) ==
  Machine(Append(Below(m, 2), Binary("I32ShrS", Slot(m, 2), Slot(m, 1))), m.cells)

VisitOpcode(m, e) ==
  IF m.outcome = "trap" THEN m
  ELSE CASE e.op \in DOMAIN Ops!LoadTypes  -> VisitLoad(m, e.op, e.imm)
         [] e.op \in DOMAIN Ops!StoreTypes -> VisitStore(m, e.op, e.imm)
         [] e.op = "LocalGet" -> VisitLocalGet(m, e.imm)
         [] e.op = "LocalSet" -> VisitLocalSet(m, e.imm)
         [] e.op = "Drop"     -> VisitDrop(m)
         [] e.op = "I32Const" -> VisitConst(m, e.imm)
         [] e.op = "I32ShrS"  -> VisitShrS(m)

\* The sequence of an instruction, with its operands on the stack.
RunAccess(c, op, offset, operands) ==
  LET code == Ops!MemoryCode(op, offset)
      after[k \in 0 .. Len(code)] ==
        IF k = 0 THEN Machine(operands, c)
                 ELSE VisitOpcode(after[k - 1], code[k])
  IN  after[Len(code)]

----------------------------------------------------------------------------
(* Steps: a load changes nothing but the stack.                            *)

Words64(op, v) == IF Ops!StoreTypes[op] \in Ops!WideTypes THEN v ELSE <<v[1]>>

RunStore(c, op, a, offset, v) == RunAccess(c, op, offset, <<a>> \o Words64(op, v))

StoreTo(op, a, offset, v) == IsMemory /\ Guest(0, RunStore(cells, op, a, offset, v))

\* GlobalMemory::write by a handler or between runs: a checked sum of two usize.
HostWrite(at, bytes) ==
  /\ IsMemory
  /\ Guest(0, IF at + Len(bytes) < 2^(2 * W) /\ at + Len(bytes) <= Len(cells)
                THEN Ok(Written(cells, at, bytes)) ELSE Trap(cells))

TableSet(i, v) ==
  /\ ~IsMemory
  /\ Guest(0, IF i < Len(cells) THEN Ok(Written(cells, i, <<v>>)) ELSE Trap(cells))

AccessNext ==
  \/ Next
  \/ \E op \in DOMAIN Ops!StoreTypes, a \in Operands, offset \in Offsets, v \in Stored :
       StoreTo(op, a, offset, v)
  \/ \E at \in Operands \cup {2^(2 * W) - 1}, v \in Stored : HostWrite(at, ToBytes(v[1], 4))
  \/ \E i \in Operands, v \in FillValues : TableSet(i, v)

AccessSpec == Init /\ [][AccessNext]_vars

----------------------------------------------------------------------------
\* In every state, from every address: a load finds the bytes Wasm says, extended to the
\* type it says and split into the words rwasm keeps, and traps exactly when Wasm does:
\* also when the second half of an i64 begins where a word's arithmetic ends.
LoadsMatchWasm ==
  boot = Ready /\ IsMemory =>
    \A op \in DOMAIN Ops!LoadTypes, a \in Words, offset \in Offsets :
      LET run == RunAccess(cells, op, offset, <<a>>)
      IN  IF Wasm!Exists(cells, a + offset, Wasm!BytesOf(op))
            THEN LET wide == Ops!LoadTypes[op] \in Ops!WideTypes
                     v    == Wasm!LoadFrom(cells, op, a + offset, W, wide)
                 IN  run = Machine(v, cells)
            ELSE run.outcome = "trap" /\ run.cells = cells

\* A store writes the bytes Wasm says, or traps exactly when Wasm does and has then
\* written nothing, although an i64 is written in two stores.
StoresMatchWasm ==
  boot = Ready /\ IsMemory =>
    \A op \in DOMAIN Ops!StoreTypes, a \in Words, offset \in Offsets, v \in Stored :
      LET run == RunStore(cells, op, a, offset, v)
      IN  /\ [outcome |-> run.outcome, cells |-> run.cells]
               = Wasm!StoreAt(cells, op, a + offset, v[1] + Modulus * v[2], W)
          /\ run.outcome = "ok" => run.stack = <<>>
=============================================================================
