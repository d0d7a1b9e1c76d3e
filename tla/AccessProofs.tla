---------------------------- MODULE AccessProofs ----------------------------
(***************************************************************************)
(* Proofs about module RegionAccess: its stores and loads, which rwasm     *)
(* runs as sequences of opcodes of a word or less, are Wasm's, and with    *)
(* them the region keeps what SegmentsProofs and SectionProofs say of it.  *)
(***************************************************************************)
EXTENDS RegionAccess, SectionProofs

----------------------------------------------------------------------------
(* The run of a sequence.                                                  *)

\* The opcodes run on a machine one after the other.
RunsUpTo(f, m, code, n) ==
  f = [k \in 0 .. n |-> IF k = 0 THEN m ELSE VisitOpcode(f[k - 1], code[k])]

\* There is a run of every number of opcodes.
LEMMA RunExists ==
  ASSUME NEW m, NEW code
  PROVE  \A n \in Nat : \E f : RunsUpTo(f, m, code, n)
<1> DEFINE S == {n \in Nat : \E f : RunsUpTo(f, m, code, n)}
<1>1. 0 \in S
  <2> DEFINE f == [k \in 0 .. 0 |-> m]
  <2>1. RunsUpTo(f, m, code, 0)
    BY DEF RunsUpTo
  <2> QED BY <2>1
<1>2. ASSUME NEW n \in Nat, n \in S
      PROVE  n + 1 \in S
  <2>1. PICK f : RunsUpTo(f, m, code, n)
    BY <1>2
  <2> DEFINE g == [k \in 0 .. n + 1 |-> IF k = n + 1 THEN VisitOpcode(f[n], code[n + 1]) ELSE f[k]]
  <2>2. ASSUME NEW k \in 0 .. n + 1
        PROVE  g[k] = IF k = 0 THEN m ELSE VisitOpcode(g[k - 1], code[k])
    <3>1. CASE k = n + 1
      <4>1. k # 0 /\ k - 1 = n /\ n \in 0 .. n + 1 /\ n # n + 1
        BY <3>1
      <4>2. g[k] = VisitOpcode(f[n], code[k]) /\ g[n] = f[n]
        BY <3>1, <4>1
      <4> QED BY <4>1, <4>2
    <3>2. CASE k \in 0 .. n
      <4>1. f[k] = IF k = 0 THEN m ELSE VisitOpcode(f[k - 1], code[k])
        BY <2>1, <3>2 DEF RunsUpTo
      <4>2. g[k] = f[k] /\ (k # 0 => g[k - 1] = f[k - 1])
        BY <3>2
      <4> QED BY <4>1, <4>2
    <3> QED BY <3>1, <3>2
  <2>3. RunsUpTo(g, m, code, n + 1)
    <3> HIDE DEF g
    <3>1. g = [k \in 0 .. n + 1 |-> g[k]]
      BY DEF g
    <3> QED BY <2>2, <3>1 DEF RunsUpTo
  <2> QED BY <2>3
<1> HIDE DEF S
<1>3. Nat \subseteq S
  BY <1>1, <1>2, SetInduction
<1> QED BY <1>3 DEF S

\* An access is the run of its sequence.
LEMMA AccessUnfolds ==
  ASSUME NEW c, NEW op, NEW offset, NEW operands, Len(Ops!MemoryCode(op, offset)) \in Nat
  PROVE  \E f : /\ f[0] = Machine(operands, c)
                /\ \A k \in 1 .. Len(Ops!MemoryCode(op, offset)) :
                     f[k] = VisitOpcode(f[k - 1], Ops!MemoryCode(op, offset)[k])
                /\ RunAccess(c, op, offset, operands) = f[Len(Ops!MemoryCode(op, offset))]
<1> DEFINE code == Ops!MemoryCode(op, offset)
           m    == Machine(operands, c)
           F    == CHOOSE f : f = [k \in 0 .. Len(code) |->
                                     IF k = 0 THEN m ELSE VisitOpcode(f[k - 1], code[k])]
<1>1. RunAccess(c, op, offset, operands) = F[Len(code)]
  BY DEF RunAccess, Machine
<1>2. Len(code) \in Nat
  OBVIOUS
<1> HIDE DEF code, m
<1>3. \E f : f = [k \in 0 .. Len(code) |-> IF k = 0 THEN m ELSE VisitOpcode(f[k - 1], code[k])]
  <2>1. \E f : RunsUpTo(f, m, code, Len(code))
    BY <1>2, RunExists
  <2> QED BY <2>1 DEF RunsUpTo
<1>4. F = [k \in 0 .. Len(code) |-> IF k = 0 THEN m ELSE VisitOpcode(F[k - 1], code[k])]
  BY <1>3
<1> HIDE DEF F
<1>5. /\ F[0] = m
      /\ \A k \in 1 .. Len(code) : F[k] = VisitOpcode(F[k - 1], code[k])
  BY <1>2, <1>4
<1> QED BY <1>1, <1>5 DEF code, m

\* The sequences are short: each run is a few opcodes, one after the other.
LEMMA ShortRuns ==
  ASSUME NEW c, NEW op, NEW offset, NEW operands
  PROVE  LET code == Ops!MemoryCode(op, offset)
             m    == Machine(operands, c)
             run  == RunAccess(c, op, offset, operands)
         IN  /\ Len(code) = 1 => run = VisitOpcode(m, code[1])
             /\ Len(code) = 2 => run = VisitOpcode(VisitOpcode(m, code[1]), code[2])
             /\ Len(code) = 4 =>
                  run = VisitOpcode(VisitOpcode(VisitOpcode(VisitOpcode(
                          m, code[1]), code[2]), code[3]), code[4])
             /\ Len(code) = 5 =>
                  run = VisitOpcode(VisitOpcode(VisitOpcode(VisitOpcode(VisitOpcode(
                          m, code[1]), code[2]), code[3]), code[4]), code[5])
<1> DEFINE code == Ops!MemoryCode(op, offset)
           m    == Machine(operands, c)
           run  == RunAccess(c, op, offset, operands)
<1>1. ASSUME Len(code) \in Nat
      PROVE  \E f : /\ f[0] = m
                    /\ \A k \in 1 .. Len(code) : f[k] = VisitOpcode(f[k - 1], code[k])
                    /\ run = f[Len(code)]
  BY <1>1, AccessUnfolds
<1> HIDE DEF code, m, run
<1>2. CASE Len(code) = 1
  <2>1. PICK f : f[0] = m /\ run = f[1]
                 /\ \A k \in 1 .. 1 : f[k] = VisitOpcode(f[k - 1], code[k])
    BY <1>1, <1>2
  <2>2. f[1] = VisitOpcode(f[0], code[1])
    BY <2>1
  <2> QED BY <1>2, <2>1, <2>2 DEF code, m, run
<1>3. CASE Len(code) = 2
  <2>1. PICK f : f[0] = m /\ run = f[2]
                 /\ \A k \in 1 .. 2 : f[k] = VisitOpcode(f[k - 1], code[k])
    BY <1>1, <1>3
  <2>2. f[1] = VisitOpcode(f[0], code[1]) /\ f[2] = VisitOpcode(f[1], code[2])
    BY <2>1
  <2> QED BY <1>3, <2>1, <2>2 DEF code, m, run
<1>4. CASE Len(code) = 4
  <2>1. PICK f : f[0] = m /\ run = f[4]
                 /\ \A k \in 1 .. 4 : f[k] = VisitOpcode(f[k - 1], code[k])
    BY <1>1, <1>4
  <2>2. /\ f[1] = VisitOpcode(f[0], code[1]) /\ f[2] = VisitOpcode(f[1], code[2])
        /\ f[3] = VisitOpcode(f[2], code[3]) /\ f[4] = VisitOpcode(f[3], code[4])
    BY <2>1
  <2> QED BY <1>4, <2>1, <2>2 DEF code, m, run
<1>5. CASE Len(code) = 5
  <2>1. PICK f : f[0] = m /\ run = f[5]
                 /\ \A k \in 1 .. 5 : f[k] = VisitOpcode(f[k - 1], code[k])
    BY <1>1, <1>5
  <2>2. /\ f[1] = VisitOpcode(f[0], code[1]) /\ f[2] = VisitOpcode(f[1], code[2])
        /\ f[3] = VisitOpcode(f[2], code[3]) /\ f[4] = VisitOpcode(f[3], code[4])
        /\ f[5] = VisitOpcode(f[4], code[5])
    BY <2>1
  <2> QED BY <1>5, <2>1, <2>2 DEF code, m, run
<1> QED BY <1>2, <1>3, <1>4, <1>5 DEF code, m, run

----------------------------------------------------------------------------
(* The opcodes of the sequences, one by one.                               *)

\* The bottom of a stack.
LEMMA Cut ==
  ASSUME NEW S, NEW s \in Seq(S), NEW t \in Seq(S), Len(t) <= Len(s),
         \A k \in 1 .. Len(t) : s[k] = t[k]
  PROVE  SubSeq(s, 1, Len(t)) = t
<1> DEFINE n == Len(t)
           b == SubSeq(s, 1, n)
<1>1. n \in Nat /\ \A i \in 1 .. n : s[i] \in S
  <2>1. \A i \in 1 .. n : t[i] \in S
    BY ElementOfSeq
  <2> QED BY <2>1
<1> HIDE DEF n
<1>2. /\ b \in Seq(S) /\ Len(b) = IF 1 <= n THEN n - 1 + 1 ELSE 0
      /\ \A i \in 1 .. n - 1 + 1 : b[i] = s[1 + i - 1]
  BY <1>1, SubSeqProperties
<1>3. Len(b) = n /\ \A i \in 1 .. n : b[i] = s[i]
  BY <1>1, <1>2
<1> HIDE DEF b
<1>4. b = t
  BY <1>1, <1>2, <1>3, SeqEqual DEF n
<1> QED BY <1>4 DEF b, n

\* A stack with one slot more.
LEMMA Extended ==
  ASSUME NEW S, NEW s \in Seq(S), NEW e \in S, NEW t \in Seq(S), Len(t) = Len(s) + 1,
         \A k \in 1 .. Len(s) : t[k] = s[k], t[Len(s) + 1] = e
  PROVE  Append(s, e) = t
<1>1. /\ Append(s, e) \in Seq(S) /\ Len(Append(s, e)) = Len(s) + 1
      /\ \A i \in 1 .. Len(s) : Append(s, e)[i] = s[i]
      /\ Append(s, e)[Len(s) + 1] = e
  BY AppendProperties
<1>2. \A i \in 1 .. Len(s) + 1 : Append(s, e)[i] = t[i]
  BY <1>1
<1> QED BY <1>1, <1>2, SeqEqual

\* The opcodes that read memory, and those that write it.
LoadOps  == {"I32Load", "I32Load8S", "I32Load8U", "I32Load16S", "I32Load16U", "F32Load", "F64Load"}
StoreOps == {"I32Store", "I32Store8", "I32Store16", "F32Store", "F64Store"}

\* They are among the instructions of those names; no other opcode of a sequence is.
LEMMA OpcodeNames ==
  /\ LoadOps \subseteq DOMAIN Ops!LoadTypes /\ StoreOps \subseteq DOMAIN Ops!StoreTypes
  /\ DOMAIN Ops!LoadTypes \cap DOMAIN Ops!StoreTypes = {}
  /\ \A op \in {"LocalGet", "LocalSet", "Drop", "I32Const", "I32ShrS"} :
       op \notin DOMAIN Ops!LoadTypes /\ op \notin DOMAIN Ops!StoreTypes
BY DEF LoadOps, StoreOps, Ops!LoadTypes, Ops!StoreTypes

\* What each opcode does.
LEMMA Visits ==
  ASSUME NEW m, NEW e, m.outcome = "ok"
  PROVE  /\ e.op \in LoadOps  => VisitOpcode(m, e) = VisitLoad(m, e.op, e.imm)
         /\ e.op \in StoreOps => VisitOpcode(m, e) = VisitStore(m, e.op, e.imm)
         /\ e.op = "LocalGet" => VisitOpcode(m, e) = VisitLocalGet(m, e.imm)
         /\ e.op = "LocalSet" => VisitOpcode(m, e) = VisitLocalSet(m, e.imm)
         /\ e.op = "Drop"     => VisitOpcode(m, e) = VisitDrop(m)
         /\ e.op = "I32Const" => VisitOpcode(m, e) = VisitConst(m, e.imm)
         /\ e.op = "I32ShrS"  => VisitOpcode(m, e) = VisitShrS(m)
<1>1. CASE e.op \in LoadOps \cup StoreOps
  BY <1>1, OpcodeNames, ZenonT(30) DEF VisitOpcode, LoadOps, StoreOps
<1>2. CASE e.op \notin LoadOps \cup StoreOps
  BY <1>2, OpcodeNames, ZenonT(30) DEF VisitOpcode
<1> QED BY <1>1, <1>2

\* local.get: the slot at a depth is on the top once more.
LEMMA GetOp ==
  ASSUME NEW S, NEW st \in Seq(S), NEW n \in 1 .. Len(st), NEW t \in Seq(S), NEW c,
         Len(t) = Len(st) + 1, \A k \in 1 .. Len(st) : t[k] = st[k],
         t[Len(st) + 1] = st[Len(st) + 1 - n]
  PROVE  VisitOpcode(Machine(st, c), Ops!Get(n)) = Machine(t, c)
<1>1. st[Len(st) + 1 - n] \in S
  <2>1. Len(st) \in Nat /\ Len(st) + 1 - n \in 1 .. Len(st)
    OBVIOUS
  <2> QED BY <2>1, ElementOfSeq
<1> DEFINE m == Machine(st, c)
           e == Ops!Get(n)
<1>2. Append(st, st[Len(st) + 1 - n]) = t
  BY <1>1, Extended
<1>3. m.outcome = "ok" /\ m.stack = st /\ m.cells = c /\ e.op = "LocalGet" /\ e.imm = n
  BY DEF Machine, Ops!Get, Ops!Emit
<1> HIDE DEF m, e
<1>4. VisitOpcode(m, e) = Machine(t, c)
  BY <1>2, <1>3, Visits DEF VisitLocalGet, Slot
<1> QED BY <1>4 DEF m, e

\* drop.
LEMMA DropOp ==
  ASSUME NEW S, NEW st \in Seq(S), NEW t \in Seq(S), NEW c,
         Len(st) = Len(t) + 1, \A k \in 1 .. Len(t) : t[k] = st[k]
  PROVE  VisitOpcode(Machine(st, c), Ops!Drop) = Machine(t, c)
<1> DEFINE m == Machine(st, c)
           e == Ops!Drop
<1>1. SubSeq(st, 1, Len(t)) = t /\ Len(st) - 1 = Len(t)
  BY Cut
<1>2. m.outcome = "ok" /\ m.stack = st /\ m.cells = c /\ e.op = "Drop"
  BY DEF Machine, Ops!Drop, Ops!Emit
<1> HIDE DEF m, e
<1>3. VisitOpcode(m, e) = Machine(t, c)
  BY <1>1, <1>2, Visits DEF VisitDrop, Below
<1> QED BY <1>3 DEF m, e

\* A store of a word or less: the address is below the value.
LEMMA StoreOp ==
  ASSUME NEW S, NEW st \in Seq(S), NEW t \in Seq(S), NEW c, NEW offset,
         NEW op \in {"I32Store", "I32Store8", "I32Store16", "F32Store"},
         Len(st) = Len(t) + 2, \A k \in 1 .. Len(t) : t[k] = st[k]
  PROVE  LET at == EffectiveAddress(st[Len(st) - 1], offset)
             n  == Size(op)
         IN  VisitOpcode(Machine(st, c), Ops!Emit(op, offset))
               = IF Accessible(c, at, n) THEN Machine(t, Written(c, at, ToBytes(st[Len(st)], n)))
                                         ELSE Trapped(Machine(st, c))
<1> DEFINE m  == Machine(st, c)
           e  == Ops!Emit(op, offset)
           at == EffectiveAddress(st[Len(st) - 1], offset)
           n  == Size(op)
<1>1. SubSeq(st, 1, Len(t)) = t /\ Len(st) - 2 = Len(t) /\ Len(st) + 1 - 2 = Len(st) - 1
      /\ Len(st) + 1 - 1 = Len(st)
  BY Cut
<1>2. m.outcome = "ok" /\ m.stack = st /\ m.cells = c /\ e.op = op /\ e.imm = offset
  BY DEF Machine, Ops!Emit
<1>3. op \in StoreOps /\ op # "F64Store"
  BY DEF StoreOps
<1> HIDE DEF m, e
<1>4. VisitOpcode(m, e) = VisitStore(m, op, offset)
  BY <1>2, <1>3, Visits
<1>5. Slot(m, 2) = st[Len(st) - 1] /\ Slot(m, 1) = st[Len(st)] /\ Below(m, 2) = t
  BY <1>1, <1>2 DEF Slot, Below
<1>6. VisitStore(m, op, offset)
        = IF ~Accessible(c, at, n) THEN Trapped(m)
          ELSE Machine(t, Written(c, at, ToBytes(st[Len(st)], n)))
  BY <1>2, <1>3, <1>5 DEF VisitStore
<1> QED BY <1>4, <1>6 DEF m, e

\* An operand in front of a stack.
LEMMA Above ==
  ASSUME NEW S, NEW a \in S, NEW u \in Seq(S), NEW t \in Seq(S), Len(t) = Len(u) + 1,
         t[1] = a, \A k \in 1 .. Len(u) : t[k + 1] = u[k]
  PROVE  <<a>> \o u = t
<1> DEFINE b == <<a>>
<1>1. b \in Seq(S) /\ Len(b) = 1 /\ b[1] = a
  OBVIOUS
<1> HIDE DEF b
<1>2. /\ b \o u \in Seq(S) /\ Len(b \o u) = Len(b) + Len(u)
      /\ \A i \in 1 .. Len(b) + Len(u) :
           (b \o u)[i] = IF i <= Len(b) THEN b[i] ELSE u[i - Len(b)]
  BY <1>1, ConcatProperties
<1>3. ASSUME NEW i \in 1 .. Len(t)
      PROVE  (b \o u)[i] = t[i]
  <2>1. Len(u) \in Nat
    OBVIOUS
  <2>2. CASE i = 1
    BY <1>1, <1>2, <2>1, <2>2
  <2>3. CASE i # 1
    <3>1. i - 1 \in 1 .. Len(u) /\ (i - 1) + 1 = i /\ ~(i <= 1)
      BY <2>1, <2>3
    <3>2. (b \o u)[i] = u[i - 1]
      BY <1>1, <1>2, <2>1, <3>1
    <3>3. t[(i - 1) + 1] = u[i - 1]
      BY <3>1
    <3> QED BY <3>1, <3>2, <3>3
  <2> QED BY <2>2, <2>3
<1>4. Len(b \o u) = Len(t)
  BY <1>1, <1>2
<1>5. b \o u = t
  BY <1>2, <1>3, <1>4, SeqEqual
<1> QED BY <1>5 DEF b

\* The operands of a store: an address and the words of the value.
LEMMA OperandStack ==
  ASSUME NEW a \in Words, NEW v \in Words \X Words
  PROVE  /\ v[1] \in Words /\ v[2] \in Words
         /\ <<a>> \o v = <<a, v[1], v[2]>>
         /\ <<a>> \o <<v[1]>> = <<a, v[1]>>
         /\ <<a, v[1], v[2]>> \in Seq(Words) /\ <<a, v[1]>> \in Seq(Words) /\ <<a>> \in Seq(Words)
         /\ <<>> \in Seq(Words)
<1>1. /\ v[1] \in Words /\ v[2] \in Words /\ v = <<v[1], v[2]>>
  OBVIOUS
<1>2. /\ <<v[1]>> \in Seq(Words) /\ <<a>> \in Seq(Words)
      /\ <<a, v[1], v[2]>> \in Seq(Words) /\ <<a, v[1]>> \in Seq(Words)
  BY <1>1
<1>3. <<a>> \o v = <<a, v[1], v[2]>>
  <2> DEFINE u == <<v[1], v[2]>>
             t == <<a, v[1], v[2]>>
  <2>1. /\ u \in Seq(Words) /\ Len(t) = Len(u) + 1 /\ t[1] = a
        /\ \A k \in 1 .. Len(u) : t[k + 1] = u[k]
    BY <1>1
  <2>2. u = v /\ t \in Seq(Words)
    BY <1>1, <1>2
  <2> HIDE DEF u, t
  <2>3. <<a>> \o u = t
    BY <2>1, <2>2, Above
  <2> QED BY <2>2, <2>3 DEF t
<1>4. <<a>> \o <<v[1]>> = <<a, v[1]>>
  <2> DEFINE u == <<v[1]>>
             t == <<a, v[1]>>
  <2>1. /\ u \in Seq(Words) /\ Len(t) = Len(u) + 1 /\ t[1] = a
        /\ \A k \in 1 .. Len(u) : t[k + 1] = u[k]
    BY <1>1
  <2>2. t \in Seq(Words)
    BY <1>2
  <2> HIDE DEF u, t
  <2>3. <<a>> \o u = t
    BY <2>1, <2>2, Above
  <2> QED BY <2>3 DEF t, u
<1> QED BY <1>1, <1>2, <1>3, <1>4

\* What a machine has left when it has stored n bytes of a value, or could not.
Leaves(run, c, at, n, v) ==
  IF Accessible(c, at, n) THEN run = Machine(<<>>, Written(c, at, ToBytes(v, n)))
                          ELSE run.outcome = "trap" /\ run.cells = c

\* A store of a word or less is one store of the low word.
LEMMA NarrowStores ==
  ASSUME NEW c, NEW a \in Words, NEW offset, NEW v \in Words \X Words,
         NEW op \in {"I32Store", "I32Store8", "I32Store16", "F32Store",
                     "I64Store8", "I64Store16", "I64Store32"}
  PROVE  Leaves(RunStore(c, op, a, offset, v), c, EffectiveAddress(a, offset),
                Wasm!BytesOf(op), v[1])
<1> DEFINE st  == <<a, v[1]>>
           at  == EffectiveAddress(a, offset)
           n   == Wasm!BytesOf(op)
<1>1. /\ st \in Seq(Words) /\ Len(st) = 2 /\ st[1] = a /\ st[2] = v[1]
      /\ <<>> \in Seq(Words) /\ Len(<<>>) = 0
  BY OperandStack
<1>2. Trapped(Machine(st, c)).outcome = "trap" /\ Trapped(Machine(st, c)).cells = c
  BY DEF Trapped, Machine
<1>4. ASSUME NEW o \in {"I32Store", "I32Store8", "I32Store16", "F32Store"}, Size(o) = n
      PROVE  Leaves(VisitOpcode(Machine(st, c), Ops!Emit(o, offset)), c, at, n, v[1])
  <2> DEFINE run == VisitOpcode(Machine(st, c), Ops!Emit(o, offset))
  <2>1. run = IF Accessible(c, EffectiveAddress(st[Len(st) - 1], offset), Size(o))
                THEN Machine(<<>>, Written(c, EffectiveAddress(st[Len(st) - 1], offset),
                                           ToBytes(st[Len(st)], Size(o))))
                ELSE Trapped(Machine(st, c))
    <3> DEFINE t == <<>>
    <3>1. t \in Seq(Words) /\ Len(st) = Len(t) + 2 /\ \A k \in 1 .. Len(t) : t[k] = st[k]
      BY <1>1
    <3>3. st \in Seq(Words) /\ o \in {"I32Store", "I32Store8", "I32Store16", "F32Store"}
      BY <1>1, <1>4
    <3> HIDE DEF st, t
    <3>2. VisitOpcode(Machine(st, c), Ops!Emit(o, offset))
            = IF Accessible(c, EffectiveAddress(st[Len(st) - 1], offset), Size(o))
                THEN Machine(t, Written(c, EffectiveAddress(st[Len(st) - 1], offset),
                                        ToBytes(st[Len(st)], Size(o))))
                ELSE Trapped(Machine(st, c))
      BY <3>1, <3>3, StoreOp, SMTT(20)
    <3> QED BY <3>2 DEF t
  <2>2. st[Len(st) - 1] = a /\ st[Len(st)] = v[1]
    BY <1>1
  <2> HIDE DEF run, st, n, at
  <2>3. run = IF Accessible(c, at, n) THEN Machine(<<>>, Written(c, at, ToBytes(v[1], n)))
                                      ELSE Trapped(Machine(st, c))
    BY <2>1, <2>2, <1>4 DEF at
  <2> QED BY <1>2, <2>3 DEF Leaves, run
<1>5. CASE op \in {"I32Store", "I32Store8", "I32Store16", "F32Store"}
  <2>1. Size(op) = n
    BY <1>5 DEF Size, Wasm!BytesOf
  <2>2. <<a>> \o Words64(op, v) = st
    <3>1. Words64(op, v) = <<v[1]>>
      BY <1>5 DEF Words64, Ops!StoreTypes, Ops!WideTypes
    <3> QED BY <3>1, OperandStack
  <2>3. Ops!MemoryCode(op, offset) = <<Ops!Emit(op, offset)>>
    BY <1>5 DEF Ops!MemoryCode
  <2>4. RunStore(c, op, a, offset, v) = VisitOpcode(Machine(st, c), Ops!Emit(op, offset))
    <3> DEFINE e == Ops!Emit(op, offset)
    <3> HIDE DEF e, st
    <3>1. Len(<<e>>) = 1 /\ <<e>>[1] = e
      OBVIOUS
    <3>2. Ops!MemoryCode(op, offset) = <<e>>
      BY <2>3 DEF e
    <3>3. RunAccess(c, op, offset, st) = VisitOpcode(Machine(st, c), e)
      BY <3>1, <3>2, ShortRuns
    <3> QED BY <2>2, <3>3 DEF RunStore, e
  <2> QED BY <1>4, <1>5, <2>1, <2>4
<1>6. CASE op \in {"I64Store8", "I64Store16", "I64Store32"}
  <2> DEFINE o    == IF op = "I64Store8" THEN "I32Store8"
                     ELSE IF op = "I64Store16" THEN "I32Store16" ELSE "I32Store"
             full == <<a, v[1], v[2]>>
  <2>1. Size(o) = n /\ o \in {"I32Store", "I32Store8", "I32Store16", "F32Store"}
    BY <1>6 DEF Size, Wasm!BytesOf
  <2>2. <<a>> \o Words64(op, v) = full
    <3>1. Words64(op, v) = v
      BY <1>6 DEF Words64, Ops!StoreTypes, Ops!WideTypes
    <3> QED BY <3>1, OperandStack
  <2>3. Ops!MemoryCode(op, offset) = <<Ops!Drop, Ops!Emit(o, offset)>>
    BY <1>6 DEF Ops!MemoryCode, Ops!NarrowStore
  <2>4. VisitOpcode(Machine(full, c), Ops!Drop) = Machine(st, c)
    <3>1. /\ full \in Seq(Words) /\ Len(full) = Len(st) + 1
          /\ \A k \in 1 .. Len(st) : st[k] = full[k]
      BY OperandStack
    <3>2. st \in Seq(Words) /\ \A k \in 1 .. Len(st) : st[k] = full[k]
      BY <1>1, <3>1
    <3> HIDE DEF full, st
    <3> QED BY <3>1, <3>2, DropOp, Zenon
  <2>5. RunStore(c, op, a, offset, v) = VisitOpcode(Machine(st, c), Ops!Emit(o, offset))
    <3> DEFINE e == Ops!Emit(o, offset)
               d == Ops!Drop
    <3> HIDE DEF e, d, st, full
    <3>1. Len(<<d, e>>) = 2 /\ <<d, e>>[1] = d /\ <<d, e>>[2] = e
      OBVIOUS
    <3>2. Ops!MemoryCode(op, offset) = <<d, e>>
      BY <2>3 DEF d, e
    <3>3. RunAccess(c, op, offset, full) = VisitOpcode(VisitOpcode(Machine(full, c), d), e)
      BY <3>1, <3>2, ShortRuns
    <3>4. VisitOpcode(Machine(full, c), d) = Machine(st, c)
      BY <2>4 DEF d
    <3> QED BY <2>2, <3>3, <3>4 DEF RunStore, e
  <2> HIDE DEF o, st, n, at
  <2> QED BY <1>4, <2>1, <2>5 DEF n, at
<1> QED BY <1>5, <1>6

\* A machine that has trapped does nothing any more.
LEMMA TrapStays ==
  ASSUME NEW stack, NEW c
  PROVE  /\ \A e : VisitOpcode(Trapped(Machine(stack, c)), e) = Trapped(Machine(stack, c))
         /\ Trapped(Machine(stack, c)).outcome = "trap"
         /\ Trapped(Machine(stack, c)).cells = c
<1> DEFINE m == Trapped(Machine(stack, c))
<1>1. m.outcome = "trap" /\ m.cells = c
  BY DEF Trapped, Machine
<1> HIDE DEF m
<1>2. \A e : VisitOpcode(m, e) = m
  BY <1>1, ZenonT(30) DEF VisitOpcode
<1> QED BY <1>1, <1>2 DEF m

\* An f64 is stored by one opcode, from the number its two words are.
LEMMA FloatStore ==
  ASSUME NEW c, NEW a \in Words, NEW offset, NEW v \in Words \X Words
  PROVE  Leaves(RunStore(c, "F64Store", a, offset, v), c, EffectiveAddress(a, offset), 8,
                v[1] + Modulus * v[2])
<1> DEFINE st == <<a, v[1], v[2]>>
           e  == Ops!Emit("F64Store", offset)
           m  == Machine(st, c)
           at == EffectiveAddress(a, offset)
           x  == v[1] + Modulus * v[2]
           t  == <<>>
<1>1. RunStore(c, "F64Store", a, offset, v) = VisitOpcode(m, e)
  <2>1. <<a>> \o Words64("F64Store", v) = st
    <3>1. Words64("F64Store", v) = v
      BY DEF Words64, Ops!StoreTypes, Ops!WideTypes
    <3> QED BY <3>1, OperandStack
  <2>2. Ops!MemoryCode("F64Store", offset) = <<e>>
    BY DEF Ops!MemoryCode
  <2>3. Len(<<e>>) = 1 /\ <<e>>[1] = e
    OBVIOUS
  <2> HIDE DEF e, st
  <2>4. RunAccess(c, "F64Store", offset, st) = VisitOpcode(m, e)
    BY <2>2, <2>3, ShortRuns
  <2> QED BY <2>1, <2>4 DEF RunStore
<1>2. m.outcome = "ok" /\ m.stack = st /\ m.cells = c /\ e.op = "F64Store" /\ e.imm = offset
  BY DEF Machine, Ops!Emit
<1>3. st \in Seq(Words) /\ Len(st) = 3 /\ st[1] = a /\ st[2] = v[1] /\ st[3] = v[2]
      /\ t \in Seq(Words) /\ Len(t) = 0
  BY OperandStack
<1>4. SubSeq(st, 1, 0) = t
  <2> HIDE DEF st, t
  <2> QED BY <1>3, Cut
<1> HIDE DEF m, e, st, t
<1>5. VisitOpcode(m, e) = VisitStore(m, "F64Store", offset)
  BY <1>2, Visits DEF StoreOps
<1>6. Slot(m, 3) = a /\ Slot(m, 2) = v[1] /\ Slot(m, 1) = v[2] /\ Below(m, 3) = t
  BY <1>2, <1>3, <1>4 DEF Slot, Below
<1>7. Size("F64Store") = 8
  BY DEF Size
<1> HIDE DEF at, x
<1>8. VisitStore(m, "F64Store", offset)
        = IF ~Accessible(c, at, 8) THEN Trapped(m) ELSE Machine(t, Written(c, at, ToBytes(x, 8)))
  BY <1>2, <1>6, <1>7 DEF VisitStore, at, x
<1>9. Trapped(m).outcome = "trap" /\ Trapped(m).cells = c
  BY TrapStays DEF m
<1> QED BY <1>1, <1>5, <1>8, <1>9 DEF Leaves, at, x, t

\* An i64 is stored in two halves, the high one first: if that is refused, nothing of the low
\* one is written.
LEMMA LongStore ==
  ASSUME NEW c, NEW a \in Words, NEW offset, NEW v \in Words \X Words
  PROVE  LET run == RunStore(c, "I64Store", a, offset, v)
             hi  == EffectiveAddress(a, Ops!SaturatingAdd(offset, 4))
         IN  IF Accessible(c, hi, 4)
               THEN Leaves(run, Written(c, hi, ToBytes(v[2], 4)), EffectiveAddress(a, offset), 4,
                           v[1])
               ELSE run.outcome = "trap" /\ run.cells = c
<1> DEFINE run  == RunStore(c, "I64Store", a, offset, v)
           top  == Ops!SaturatingAdd(offset, 4)
           hi   == EffectiveAddress(a, top)
           lo   == EffectiveAddress(a, offset)
           half == Written(c, hi, ToBytes(v[2], 4))
           st   == <<a, v[1], v[2]>>
           get3 == Ops!Get(3)
           get2 == Ops!Get(2)
           high == Ops!Emit("I32Store", top)
           drop == Ops!Drop
           low  == Ops!Emit("I32Store", offset)
           s3   == <<a, v[1], v[2], a>>
           s2   == <<a, v[1], v[2], a, v[2]>>
           sl   == <<a, v[1]>>
           t    == <<>>
<1>1. /\ st \in Seq(Words) /\ s3 \in Seq(Words) /\ s2 \in Seq(Words) /\ sl \in Seq(Words)
      /\ t \in Seq(Words) /\ v[1] \in Words /\ v[2] \in Words
  BY OperandStack
<1>2. run = VisitOpcode(VisitOpcode(VisitOpcode(VisitOpcode(VisitOpcode(
              Machine(st, c), get3), get2), high), drop), low)
  <2>1. <<a>> \o Words64("I64Store", v) = st
    <3>1. Words64("I64Store", v) = v
      BY DEF Words64, Ops!StoreTypes, Ops!WideTypes
    <3> QED BY <3>1, OperandStack
  <2>2. Ops!MemoryCode("I64Store", offset) = <<get3, get2, high, drop, low>>
    BY DEF Ops!MemoryCode, Ops!op_i64_store
  <2> DEFINE code == <<get3, get2, high, drop, low>>
  <2>3. /\ Len(code) = 5 /\ code[1] = get3 /\ code[2] = get2 /\ code[3] = high /\ code[4] = drop
        /\ code[5] = low
    OBVIOUS
  <2>4. Ops!MemoryCode("I64Store", offset) = code
    BY <2>2
  <2> HIDE DEF code, st, get3, get2, high, drop, low
  <2>5. RunAccess(c, "I64Store", offset, st)
          = VisitOpcode(VisitOpcode(VisitOpcode(VisitOpcode(VisitOpcode(
              Machine(st, c), get3), get2), high), drop), low)
    BY <2>3, <2>4, ShortRuns
  <2> QED BY <2>1, <2>5 DEF RunStore
<1>3. VisitOpcode(Machine(st, c), get3) = Machine(s3, c)
  <2>1. /\ 3 \in 1 .. Len(st) /\ Len(s3) = Len(st) + 1 /\ \A k \in 1 .. Len(st) : s3[k] = st[k]
        /\ s3[Len(st) + 1] = st[Len(st) + 1 - 3]
    BY <1>1
  <2> HIDE DEF st, s3
  <2>2. VisitOpcode(Machine(st, c), Ops!Get(3)) = Machine(s3, c)
    BY <1>1, <2>1, GetOp, SMTT(20)
  <2> QED BY <2>2
<1>4. VisitOpcode(Machine(s3, c), get2) = Machine(s2, c)
  <2>1. /\ 2 \in 1 .. Len(s3) /\ Len(s2) = Len(s3) + 1 /\ \A k \in 1 .. Len(s3) : s2[k] = s3[k]
        /\ s2[Len(s3) + 1] = s3[Len(s3) + 1 - 2]
    BY <1>1
  <2> HIDE DEF s3, s2
  <2>2. VisitOpcode(Machine(s3, c), Ops!Get(2)) = Machine(s2, c)
    BY <1>1, <2>1, GetOp, SMTT(20)
  <2> QED BY <2>2
<1>5. Size("I32Store") = 4
  BY DEF Size
<1>6. VisitOpcode(Machine(s2, c), high)
        = IF Accessible(c, hi, 4) THEN Machine(st, half) ELSE Trapped(Machine(s2, c))
  <2>1. /\ Len(s2) = Len(st) + 2 /\ \A k \in 1 .. Len(st) : st[k] = s2[k]
        /\ s2[Len(s2) - 1] = a /\ s2[Len(s2)] = v[2]
    BY <1>1
  <2> HIDE DEF s2, st, top
  <2>2. VisitOpcode(Machine(s2, c), Ops!Emit("I32Store", top))
          = IF Accessible(c, EffectiveAddress(s2[Len(s2) - 1], top), Size("I32Store"))
              THEN Machine(st, Written(c, EffectiveAddress(s2[Len(s2) - 1], top),
                                       ToBytes(s2[Len(s2)], Size("I32Store"))))
              ELSE Trapped(Machine(s2, c))
    BY <1>1, <2>1, StoreOp, SMTT(20)
  <2> QED BY <1>5, <2>1, <2>2
<1>7. VisitOpcode(Machine(st, half), drop) = Machine(sl, half)
  <2>1. Len(st) = Len(sl) + 1 /\ \A k \in 1 .. Len(sl) : sl[k] = st[k]
    BY <1>1
  <2> HIDE DEF st, sl, half
  <2> QED BY <1>1, <2>1, DropOp, SMTT(20)
<1>8. VisitOpcode(Machine(sl, half), low)
        = IF Accessible(half, lo, 4) THEN Machine(t, Written(half, lo, ToBytes(v[1], 4)))
                                     ELSE Trapped(Machine(sl, half))
  <2>1. /\ Len(sl) = Len(t) + 2 /\ \A k \in 1 .. Len(t) : t[k] = sl[k]
        /\ sl[Len(sl) - 1] = a /\ sl[Len(sl)] = v[1]
    BY <1>1
  <2> HIDE DEF sl, t, half
  <2>2. VisitOpcode(Machine(sl, half), Ops!Emit("I32Store", offset))
          = IF Accessible(half, EffectiveAddress(sl[Len(sl) - 1], offset), Size("I32Store"))
              THEN Machine(t, Written(half, EffectiveAddress(sl[Len(sl) - 1], offset),
                                      ToBytes(sl[Len(sl)], Size("I32Store"))))
              ELSE Trapped(Machine(sl, half))
    BY <1>1, <2>1, StoreOp, SMTT(20)
  <2> QED BY <1>5, <2>1, <2>2
<1> HIDE DEF run, hi, lo, half, st, s3, s2, sl, get3, get2, high, drop, low
<1>9. CASE Accessible(c, hi, 4)
  <2>1. run = IF Accessible(half, lo, 4) THEN Machine(t, Written(half, lo, ToBytes(v[1], 4)))
                                         ELSE Trapped(Machine(sl, half))
    BY <1>2, <1>3, <1>4, <1>6, <1>7, <1>8, <1>9
  <2>2. Trapped(Machine(sl, half)).outcome = "trap" /\ Trapped(Machine(sl, half)).cells = half
    BY TrapStays
  <2>3. Leaves(run, half, lo, 4, v[1])
    BY <2>1, <2>2 DEF Leaves
  <2> QED BY <1>9, <2>3 DEF run, hi, half, lo
<1>10. CASE ~Accessible(c, hi, 4)
  <2>1. run = Trapped(Machine(s2, c))
    BY <1>2, <1>3, <1>4, <1>6, <1>10, TrapStays
  <2>2. run.outcome = "trap" /\ run.cells = c
    BY <2>1, TrapStays
  <2> QED BY <1>10, <2>2 DEF run, hi
<1> QED BY <1>9, <1>10

----------------------------------------------------------------------------
(* Numbers and their bytes.                                                *)

\* The products the powers of a byte are.
LEMMA BytePowers ==
  /\ Byte \in Nat \ {0}
  /\ Byte^0 = 1 /\ Byte^1 = Byte /\ Byte^2 = Byte * Byte /\ Byte^3 = Byte^2 * Byte
  /\ Byte^4 = Byte^3 * Byte /\ Byte^5 = Byte^4 * Byte /\ Byte^6 = Byte^5 * Byte
  /\ Byte^7 = Byte^6 * Byte /\ Byte^8 = Byte^7 * Byte
  /\ \A k \in 0 .. 8 : Byte^k \in Nat \ {0}
<1>1. Byte \in Nat \ {0}
  BY ByteValues DEF Byte
<1> HIDE DEF Byte
<1>2. Byte^0 = 1 /\ \A k \in 0 .. 7 : Byte^(k + 1) = Byte^k * Byte
  BY Powers
<1>3. /\ Byte^(0 + 1) = Byte^0 * Byte /\ Byte^(1 + 1) = Byte^1 * Byte
      /\ Byte^(2 + 1) = Byte^2 * Byte /\ Byte^(3 + 1) = Byte^3 * Byte
      /\ Byte^(4 + 1) = Byte^4 * Byte /\ Byte^(5 + 1) = Byte^5 * Byte
      /\ Byte^(6 + 1) = Byte^6 * Byte /\ Byte^(7 + 1) = Byte^7 * Byte
  BY <1>2
<1>4. /\ 0 + 1 = 1 /\ 1 + 1 = 2 /\ 2 + 1 = 3 /\ 3 + 1 = 4 /\ 4 + 1 = 5 /\ 5 + 1 = 6
      /\ 6 + 1 = 7 /\ 7 + 1 = 8
  OBVIOUS
<1>5. Byte^1 = Byte
  BY <1>1, <1>2, <1>3, <1>4
<1>6. ASSUME NEW k \in 0 .. 7, Byte^k \in Nat \ {0}
      PROVE  Byte^(k + 1) \in Nat \ {0}
  <2> DEFINE p == Byte^k
  <2>1. p * Byte \in Nat \ {0}
    <3>1. p \in Nat \ {0}
      BY <1>6
    <3> HIDE DEF p
    <3> QED BY <1>1, <3>1
  <2> QED BY <1>2, <2>1
<1>7. /\ Byte^0 \in Nat \ {0} /\ Byte^1 \in Nat \ {0} /\ Byte^2 \in Nat \ {0}
      /\ Byte^3 \in Nat \ {0} /\ Byte^4 \in Nat \ {0} /\ Byte^5 \in Nat \ {0}
      /\ Byte^6 \in Nat \ {0} /\ Byte^7 \in Nat \ {0} /\ Byte^8 \in Nat \ {0}
  <2>1. Byte^0 \in Nat \ {0}
    BY <1>2
  <2>2. Byte^1 \in Nat \ {0}
    BY <1>1, <1>5
  <2>3. Byte^2 \in Nat \ {0}
    BY <2>2, <1>4, <1>6
  <2>4. Byte^3 \in Nat \ {0}
    BY <2>3, <1>4, <1>6
  <2>5. Byte^4 \in Nat \ {0}
    BY <2>4, <1>4, <1>6
  <2>6. Byte^5 \in Nat \ {0}
    BY <2>5, <1>4, <1>6
  <2>7. Byte^6 \in Nat \ {0}
    BY <2>6, <1>4, <1>6
  <2>8. Byte^7 \in Nat \ {0}
    BY <2>7, <1>4, <1>6
  <2>9. Byte^8 \in Nat \ {0}
    BY <2>8, <1>4, <1>6
  <2> QED BY <2>1, <2>2, <2>3, <2>4, <2>5, <2>6, <2>7, <2>8, <2>9
<1>8. \A k \in 0 .. 8 : Byte^k \in Nat \ {0}
  BY <1>7
<1> QED BY <1>1, <1>2, <1>3, <1>4, <1>5, <1>8

\* A word is four bytes.
LEMMA WordBytes == Modulus = Byte^4
<1> DEFINE q == W \div 4
           b == 2^q
<1>1. W \in Nat \ {0} /\ q \in Nat /\ W = 4 * q
  BY WordWidth, FourBytes
<1>2. Byte = b
  BY DEF Byte
<1> HIDE DEF q
<1>3. /\ q \in 0 .. W /\ q + q \in 0 .. W /\ W = (q + q) + (q + q)
  BY <1>1
<1>4. 2^(q + q) = 2^q * 2^q /\ 2^((q + q) + (q + q)) = 2^(q + q) * 2^(q + q)
  BY <1>3, Powers
<1>5. b \in Nat \ {0} /\ Byte^4 = b * b * b * b
  BY <1>2, BytePowers
<1> HIDE DEF b
<1>6. 2^q * 2^q = b * b /\ (b * b) * (b * b) = b * b * b * b
  BY <1>5 DEF b
<1> QED BY <1>3, <1>4, <1>5, <1>6 DEF Modulus

\* Each power of a byte below a word divides it.
LEMMA ByteDivides ==
  ASSUME NEW k \in 0 .. 3
  PROVE  /\ \E r \in Nat \ {0} : Modulus = Byte^k * Byte * r
         /\ Byte^(k + 4) = Modulus * Byte^k
<1> DEFINE b == Byte
<1>1. b \in Nat \ {0} /\ Byte^0 = 1 /\ Byte^1 = b /\ Byte^2 = b * b /\ Byte^3 = b * b * b
      /\ Modulus = b * b * b * b
      /\ Byte^5 = (b * b * b * b) * b /\ Byte^6 = (b * b * b * b) * b * b
      /\ Byte^7 = (b * b * b * b) * b * b * b /\ Byte^4 = b * b * b * b
  BY BytePowers, WordBytes
<1> HIDE DEF b
<1>2. b * b * b \in Nat \ {0} /\ b * b \in Nat \ {0}
  <2>1. b * b \in Nat \ {0}
    BY <1>1
  <2> DEFINE d == b * b
  <2>2. d * b \in Nat \ {0}
    <3> HIDE DEF d
    <3> QED BY <1>1, <2>1 DEF d
  <2> QED BY <2>1, <2>2
<1>3. CASE k = 0
  <2>1. b * b * b * b = 1 * b * (b * b * b) /\ (b * b * b * b) = (b * b * b * b) * 1
    BY <1>1
  <2>2. k + 4 = 4
    BY <1>3
  <2> QED BY <1>1, <1>2, <1>3, <2>1, <2>2 DEF b
<1>4. CASE k = 1
  <2>1. b * b * b * b = b * b * (b * b)
    BY <1>1
  <2>2. k + 4 = 5
    BY <1>4
  <2> QED BY <1>1, <1>2, <1>4, <2>1, <2>2 DEF b
<1>5. CASE k = 2
  <2>1. b * b * b * b = (b * b) * b * b /\ (b * b * b * b) * b * b = (b * b * b * b) * (b * b)
    BY <1>1
  <2>2. k + 4 = 6
    BY <1>5
  <2> QED BY <1>1, <1>2, <1>5, <2>1, <2>2 DEF b
<1>6. CASE k = 3
  <2>1. b * b * b * b = (b * b * b) * b * 1
        /\ (b * b * b * b) * b * b * b = (b * b * b * b) * (b * b * b)
    BY <1>1
  <2>2. k + 4 = 7
    BY <1>6
  <2> QED BY <1>1, <1>2, <1>6, <2>1, <2>2 DEF b
<1> QED BY <1>3, <1>4, <1>5, <1>6

\* A byte of a number is the same however it is cut out.
LEMMA ByteOf ==
  ASSUME NEW k \in 1 .. 8, NEW x \in Int
  PROVE  (x % Byte^k) \div Byte^(k - 1) = (x \div Byte^(k - 1)) % Byte
<1> DEFINE p == Byte^(k - 1)
<1>1. Byte \in Nat \ {0} /\ p \in Nat \ {0} /\ Byte^k = p * Byte
  <2>1. k - 1 \in 0 .. 7 /\ (k - 1) + 1 = k
    OBVIOUS
  <2>2. Byte^((k - 1) + 1) = Byte^(k - 1) * Byte
    BY <2>1, Powers
  <2> QED BY <2>1, <2>2, BytePowers
<1> HIDE DEF p
<1>2. (x % (p * Byte)) \div p = (x \div p) % Byte
  BY <1>1, Digit
<1> QED BY <1>1, <1>2 DEF p

\* The bytes of two words are those of the first and then those of the second.
LEMMA BytesOfWords ==
  ASSUME NEW k \in 0 .. 3, NEW low \in Words, NEW high \in Words
  PROVE  /\ ((low + Modulus * high) \div Byte^k) % Byte = (low \div Byte^k) % Byte
         /\ ((low + Modulus * high) \div Byte^(k + 4)) % Byte = (high \div Byte^k) % Byte
<1> DEFINE p == Byte^k
           b == Byte
           M == Modulus
           x == low + M * high
<1>1. b \in Nat \ {0} /\ p \in Nat \ {0} /\ M \in Nat \ {0} /\ Byte^(k + 4) = M * p
      /\ low \in Nat /\ low < M /\ high \in Nat
  BY BytePowers, ByteDivides, WordValues DEF Words
<1>2. PICK r \in Nat \ {0} : M = p * b * r
  BY ByteDivides
<1>5. p \in Nat \ {0} /\ low \in Int /\ high \in Int
  BY <1>1
<1>6. b \in Nat \ {0}
  BY <1>1
<1> HIDE DEF p, b, M
<1>3. (x \div p) % b = (low \div p) % b
  <2> DEFINE q == low \div p
             m == low % p
             h == q \div b
             d == q % b
             z == r * high
  <2>7. q \in Int /\ m \in 0 .. p - 1 /\ low = p * q + m /\ (low \in Nat => q \in Nat)
    BY <1>5, Divided
  <2>1. q \in Nat /\ m \in 0 .. p - 1 /\ low = p * q + m
    BY <1>1, <2>7
  <2> HIDE DEF q, m
  <2>8. q \in Int
    BY <2>1
  <2>2. h \in Int /\ d \in 0 .. b - 1 /\ q = b * h + d
    BY <1>6, <2>8, Divided
  <2> HIDE DEF h, d
  <2>3. z \in Nat /\ M * high = p * (b * z)
    BY <1>1, <1>2
  <2> HIDE DEF z
  <2>4. x = p * (q + b * z) + m
    <3> DEFINE y == b * z
    <3>1. y \in Nat
      BY <1>1, <2>3
    <3>2. M * high = p * y
      BY <2>3
    <3> HIDE DEF y
    <3>3. p * (q + y) = p * q + p * y
      BY <1>1, <2>1, <3>1
    <3>4. x = (p * q + m) + p * y
      BY <2>1, <3>2
    <3> DEFINE pq == p * q
               py == p * y
    <3>5. pq \in Nat /\ py \in Nat
      BY <1>1, <2>1, <3>1
    <3> HIDE DEF pq, py
    <3>6. x = (pq + py) + m
      BY <2>1, <3>4, <3>5 DEF pq, py
    <3> QED BY <3>3, <3>6 DEF pq, py, y
  <2>5. x \div p = q + b * z
    <3> DEFINE y == q + b * z
    <3>1. y \in Int /\ x \in Int
      BY <1>1, <2>1, <2>3
    <3>2. x = p * y + m
      BY <2>4
    <3> HIDE DEF y, x
    <3>4. m \in Nat /\ m < p
      BY <1>1, <2>1
    <3>3. x \div p = y
      BY <1>5, <3>1, <3>2, <3>4, Unique
    <3> QED BY <3>3 DEF y, x
  <2>6. (q + b * z) % b = d
    <3> DEFINE y == q + b * z
    <3>1. y = b * (h + z) + d /\ y \in Int /\ h + z \in Int
      BY <1>1, <2>1, <2>2, <2>3
    <3> HIDE DEF y
    <3>2. y % b = d
      BY <1>1, <2>2, <3>1, Unique
    <3> QED BY <3>2 DEF y
  <2> HIDE DEF x
  <2> QED BY <2>5, <2>6 DEF q, d
<1>4. x \div (M * p) = high \div p
  <2> DEFINE q == high \div p
             m == high % p
             n == M * p
             y == M * m
  <2>7. q \in Int /\ m \in 0 .. p - 1 /\ high = p * q + m /\ (high \in Nat => q \in Nat)
    BY <1>5, Divided
  <2>1. q \in Nat /\ m \in 0 .. p - 1 /\ high = p * q + m
    BY <1>1, <2>7
  <2> HIDE DEF q, m
  <2>2. y \in Nat /\ y + M <= n
    <3>1. m + 1 <= p
      BY <1>1, <2>1
    <3>2. M * (m + 1) <= M * p
      BY <1>1, <2>1, <3>1
    <3> QED BY <1>1, <2>1, <3>2
  <2>3. x = n * q + (y + low)
    <3>1. M * (p * q + m) = (M * p) * q + M * m
      BY <1>1, <2>1
    <3> DEFINE nq == (M * p) * q
    <3>2. nq \in Nat
      BY <1>1, <2>1
    <3>3. M * high = nq + y
      BY <2>1, <3>1
    <3> HIDE DEF nq, y
    <3>4. x = nq + (y + low)
      BY <1>1, <2>2, <3>2, <3>3
    <3> QED BY <3>4 DEF nq
  <2>4. n \in Nat \ {0} /\ x \in Int
    BY <1>1
  <2> HIDE DEF n, x, y
  <2>5. y + low \in Nat /\ y + low < n
    BY <1>1, <2>2, <2>4
  <2>6. x \div n = q
    BY <2>1, <2>3, <2>4, <2>5, Unique
  <2> QED BY <2>6 DEF n, q
<1> HIDE DEF x
<1> QED BY <1>1, <1>3, <1>4 DEF x, p, b, M

----------------------------------------------------------------------------
(* Stores.                                                                 *)

\* An address beyond the words is beyond the region, and any other one is its sum.
LEMMA AddressExists ==
  ASSUME NEW c, Len(c) \in Nat, 2 * Len(c) <= Modulus,
         NEW a \in Words, NEW offset \in Words, NEW n \in 1 .. 8
  PROVE  /\ Accessible(c, EffectiveAddress(a, offset), n) <=> Wasm!Exists(c, a + offset, n)
         /\ Wasm!Exists(c, a + offset, n) => EffectiveAddress(a, offset) = a + offset
<1> DEFINE M == Modulus
           L == Len(c)
<1>1. M \in Nat \ {0} /\ a \in Nat /\ offset \in Nat /\ L \in Nat /\ 2 * L <= M
  BY WordValues DEF Words
<1> HIDE DEF M, L
<1>2. CASE a + offset < M
  <2>1. EffectiveAddress(a, offset) = a + offset /\ a + offset # M
    BY <1>1, <1>2 DEF EffectiveAddress, M
  <2> QED BY <2>1 DEF Accessible, NoAddress, Wasm!Exists, M
<1>3. CASE ~(a + offset < M)
  <2>1. EffectiveAddress(a, offset) = M
    BY <1>3 DEF EffectiveAddress, NoAddress, M
  <2>2. ~(a + offset + n <= L)
    BY <1>1, <1>3
  <2> QED BY <2>1, <2>2 DEF Accessible, NoAddress, Wasm!Exists, M, L
<1> QED BY <1>2, <1>3

\* The second half of eight bytes is there exactly when all of them are, although its offset
\* is a saturated sum.
LEMMA HighHalf ==
  ASSUME NEW c, Len(c) \in Nat, 2 * Len(c) <= Modulus, NEW a \in Words, NEW offset \in Words
  PROVE  LET hi == EffectiveAddress(a, Ops!SaturatingAdd(offset, 4))
         IN  /\ Accessible(c, hi, 4) <=> Wasm!Exists(c, a + offset, 8)
             /\ Accessible(c, hi, 4) =>
                  /\ hi = a + offset + 4
                  /\ Accessible(c, EffectiveAddress(a, offset), 4)
                  /\ EffectiveAddress(a, offset) = a + offset
<1> DEFINE M  == Modulus
           L  == Len(c)
           s  == Ops!SaturatingAdd(offset, 4)
           hi == EffectiveAddress(a, s)
<1>1. M \in Nat \ {0} /\ a \in Nat /\ offset \in Nat /\ offset < M /\ L \in Nat /\ 2 * L <= M
  BY WordValues DEF Words
<1>2. s = IF offset + 4 >= M THEN M - 1 ELSE offset + 4
  BY DEF Ops!SaturatingAdd, Modulus
<1> HIDE DEF M, s
<1>3. s \in Words /\ s \in Nat
  BY <1>1, <1>2 DEF Words, M
<1>4. Accessible(c, hi, 4) <=> a + s + 4 <= L
  <2>1. Accessible(c, hi, 4) <=> Wasm!Exists(c, a + s, 4)
    BY <1>3, AddressExists
  <2> QED BY <2>1 DEF Wasm!Exists
<1>5. Accessible(c, hi, 4) => hi = a + s
  <2>1. Wasm!Exists(c, a + s, 4) => hi = a + s
    BY <1>3, AddressExists
  <2> QED BY <1>4, <2>1 DEF Wasm!Exists
<1>6. a + s + 4 <= L <=> a + offset + 8 <= L
  <2> HIDE DEF L
  <2> QED BY <1>1, <1>2
<1>7. a + s + 4 <= L => s = offset + 4
  <2> HIDE DEF L
  <2> QED BY <1>1, <1>2
<1>8. Accessible(c, EffectiveAddress(a, offset), 4) <=> Wasm!Exists(c, a + offset, 4)
  BY AddressExists
<1>9. Wasm!Exists(c, a + offset, 4) => EffectiveAddress(a, offset) = a + offset
  BY AddressExists
<1>10. a + offset + 8 <= L => a + offset + 4 <= L
  <2> HIDE DEF L
  <2> QED BY <1>1
<1>11. a + (offset + 4) = a + offset + 4
  BY <1>1
<1> HIDE DEF hi, L
<1>12. /\ Accessible(c, hi, 4) <=> a + offset + 8 <= L
       /\ Accessible(c, hi, 4) =>
            /\ hi = a + offset + 4
            /\ Accessible(c, EffectiveAddress(a, offset), 4)
            /\ EffectiveAddress(a, offset) = a + offset
  BY <1>4, <1>5, <1>6, <1>7, <1>8, <1>9, <1>10, <1>11 DEF Wasm!Exists, L
<1> QED BY <1>12 DEF hi, s, L, Wasm!Exists

\* The bytes Wasm writes are those the code writes.
LEMMA SameBytes ==
  ASSUME NEW n \in 0 .. 8, NEW x \in Int
  PROVE  [k \in 1 .. n |-> (x % Byte^k) \div Byte^(k - 1)] = ToBytes(x, n)
<1>1. \A k \in 1 .. n : (x % Byte^k) \div Byte^(k - 1) = (x \div Byte^(k - 1)) % Byte
  BY ByteOf
<1> QED BY <1>1 DEF ToBytes

\* The first word of a value has its first four bytes, and the second the others.
LEMMA SplitBytes ==
  ASSUME NEW low \in Words, NEW high \in Words
  PROVE  LET x == low + Modulus * high
         IN  /\ \A n \in 0 .. 4 : ToBytes(x, n) = ToBytes(low, n)
             /\ \A k \in 1 .. 4 : ToBytes(x, 8)[k] = ToBytes(low, 4)[k]
             /\ \A k \in 5 .. 8 : ToBytes(x, 8)[k] = ToBytes(high, 4)[k - 4]
<1> DEFINE x == low + Modulus * high
<1>1. ASSUME NEW k \in 1 .. 4
      PROVE  (x \div Byte^(k - 1)) % Byte = (low \div Byte^(k - 1)) % Byte
  <2>1. k - 1 \in 0 .. 3
    OBVIOUS
  <2> QED BY <2>1, BytesOfWords
<1>2. ASSUME NEW k \in 5 .. 8
      PROVE  (x \div Byte^(k - 1)) % Byte = (high \div Byte^((k - 4) - 1)) % Byte
  <2> DEFINE j == k - 5
  <2>1. j \in 0 .. 3 /\ j + 4 = k - 1 /\ j = (k - 4) - 1
    OBVIOUS
  <2> HIDE DEF j
  <2>2. (x \div Byte^(j + 4)) % Byte = (high \div Byte^j) % Byte
    BY <2>1, BytesOfWords
  <2> QED BY <2>1, <2>2
<1> HIDE DEF x
<1>3. \A n \in 0 .. 4 : ToBytes(x, n) = ToBytes(low, n)
  BY <1>1 DEF ToBytes
<1>4. \A k \in 1 .. 4 : ToBytes(x, 8)[k] = ToBytes(low, 4)[k]
  BY <1>1 DEF ToBytes
<1>5. \A k \in 5 .. 8 : ToBytes(x, 8)[k] = ToBytes(high, 4)[k - 4]
  BY <1>2 DEF ToBytes
<1> QED BY <1>3, <1>4, <1>5 DEF x

\* Two halves written one after the other are the whole.
LEMMA TwoHalves ==
  ASSUME NEW S, NEW c \in Seq(S), NEW at \in Int, NEW low \in Words, NEW high \in Words
  PROVE  Written(Written(c, at + 4, ToBytes(high, 4)), at, ToBytes(low, 4))
           = Written(c, at, ToBytes(low + Modulus * high, 8))
<1> DEFINE l == ToBytes(low, 4)
           h == ToBytes(high, 4)
           x == ToBytes(low + Modulus * high, 8)
<1>1. DOMAIN l = 1 .. 4 /\ DOMAIN h = 1 .. 4 /\ DOMAIN x = 1 .. 8
  BY DEF ToBytes
<1>2. (\A k \in 1 .. 4 : x[k] = l[k]) /\ (\A k \in 5 .. 8 : x[k] = h[k - 4])
  BY SplitBytes
<1>3. DOMAIN c \subseteq Int
  OBVIOUS
<1> HIDE DEF l, h, x
<1>4. ASSUME NEW k \in DOMAIN c
      PROVE  Written(Written(c, at + 4, h), at, l)[k] = Written(c, at, x)[k]
  <2>1. k \in Int
    BY <1>3
  <2>2. CASE k - at \in 1 .. 4
    <3>1. k - at \in 1 .. 8
      BY <2>2
    <3> QED BY <1>1, <1>2, <2>2, <3>1 DEF Written
  <2>3. CASE k - at \in 5 .. 8
    <3>1. k - at \in 1 .. 8 /\ k - at \notin 1 .. 4 /\ k - (at + 4) \in 1 .. 4
          /\ k - (at + 4) = (k - at) - 4
      BY <2>1, <2>3
    <3> QED BY <1>1, <1>2, <2>3, <3>1 DEF Written
  <2>4. CASE k - at \notin 1 .. 8
    <3>1. k - at \notin 1 .. 4 /\ k - (at + 4) \notin 1 .. 4
      BY <2>1, <2>4
    <3> QED BY <1>1, <2>4, <3>1 DEF Written
  <2> QED BY <2>1, <2>2, <2>3, <2>4
<1>5. Written(Written(c, at + 4, h), at, l) = Written(c, at, x)
  BY <1>4 DEF Written
<1> QED BY <1>5 DEF l, h, x

\* A run as the outcome Wasm compares.
Effect(run) == [outcome |-> run.outcome, cells |-> run.cells]

\* What Wasm's store does, in the terms of the code.
LEMMA WasmStores ==
  ASSUME NEW c, NEW op, NEW at, NEW x \in Int, Wasm!BytesOf(op) \in 0 .. 8
  PROVE  LET n == Wasm!BytesOf(op)
         IN  Wasm!StoreAt(c, op, at, x, W)
               = IF Wasm!Exists(c, at, n)
                   THEN [outcome |-> "ok", cells |-> Written(c, at, ToBytes(x, n))]
                   ELSE [outcome |-> "trap", cells |-> c]
<1> DEFINE n     == Wasm!BytesOf(op)
           bytes == [k \in 1 .. n |-> (x % Byte^k) \div Byte^(k - 1)]
<1>1. bytes = ToBytes(x, n)
  <2> HIDE DEF n
  <2> QED BY SameBytes DEF n
<1>2. Wasm!StoreAt(c, op, at, x, W)
        = IF Wasm!Exists(c, at, n) THEN Wasm!Done(Wasm!Overwritten(c, at, bytes))
                                   ELSE Wasm!Trap(c)
  BY DEF Wasm!StoreAt, Byte
<1>3. Wasm!Overwritten(c, at, ToBytes(x, n)) = Written(c, at, ToBytes(x, n))
  BY DEF Wasm!Overwritten, Written
<1> HIDE DEF bytes, n
<1>4. Wasm!StoreAt(c, op, at, x, W)
        = IF Wasm!Exists(c, at, n)
            THEN [outcome |-> "ok", cells |-> Written(c, at, ToBytes(x, n))]
            ELSE [outcome |-> "trap", cells |-> c]
  BY <1>1, <1>2, <1>3 DEF Wasm!Done, Wasm!Trap
<1> QED BY <1>4 DEF n

\* A store does what Wasm's store does, and leaves nothing on the stack.
LEMMA StoreMatches ==
  ASSUME NEW S, NEW c \in Seq(S), 2 * Len(c) <= Modulus,
         NEW op \in DOMAIN Ops!StoreTypes, NEW a \in Words, NEW offset \in Words,
         NEW v \in Words \X Words
  PROVE  LET run == RunStore(c, op, a, offset, v)
         IN  /\ Effect(run) = Wasm!StoreAt(c, op, a + offset, v[1] + Modulus * v[2], W)
             /\ run.outcome = "ok" => run.stack = <<>>
<1> DEFINE run == RunStore(c, op, a, offset, v)
           x   == v[1] + Modulus * v[2]
           n   == Wasm!BytesOf(op)
           at  == EffectiveAddress(a, offset)
           sum == a + offset
<1>1. /\ v[1] \in Words /\ v[2] \in Words /\ v[1] \in Nat /\ x \in Int /\ sum \in Nat
      /\ Len(c) \in Nat
  BY WordValues DEF Words
<1>2. op \in {"I32Store", "I32Store8", "I32Store16", "F32Store", "I64Store8", "I64Store16",
              "I64Store32", "F64Store", "I64Store"}
  BY DEF Ops!StoreTypes
<1>3. n \in 1 .. 8
  BY <1>2 DEF Wasm!BytesOf
<1>4. Wasm!StoreAt(c, op, sum, x, W)
        = IF Wasm!Exists(c, sum, n)
            THEN [outcome |-> "ok", cells |-> Written(c, sum, ToBytes(x, n))]
            ELSE [outcome |-> "trap", cells |-> c]
  <2> HIDE DEF sum, x
  <2>1. n \in 0 .. 8
    BY <1>3
  <2> QED BY <1>1, <2>1, WasmStores
<1>5. /\ Accessible(c, at, n) <=> Wasm!Exists(c, sum, n)
      /\ Wasm!Exists(c, sum, n) => at = sum
  <2> HIDE DEF n
  <2> QED BY <1>1, <1>3, AddressExists
<1>6. ASSUME NEW y, ToBytes(y, n) = ToBytes(x, n), Leaves(run, c, at, n, y)
      PROVE  /\ Effect(run) = Wasm!StoreAt(c, op, sum, x, W)
             /\ run.outcome = "ok" => run.stack = <<>>
  <2> HIDE DEF run, x, n, at, sum
  <2>1. CASE Accessible(c, at, n)
    <3>1. run = Machine(<<>>, Written(c, at, ToBytes(x, n)))
      BY <1>6, <2>1 DEF Leaves
    <3>2. /\ run.outcome = "ok" /\ run.cells = Written(c, at, ToBytes(x, n))
          /\ run.stack = <<>>
      BY <3>1 DEF Machine
    <3> QED BY <1>4, <1>5, <2>1, <3>2 DEF Effect
  <2>2. CASE ~Accessible(c, at, n)
    <3>1. run.outcome = "trap" /\ run.cells = c
      BY <1>6, <2>2 DEF Leaves
    <3> QED BY <1>4, <1>5, <2>2, <3>1 DEF Effect
  <2> QED BY <2>1, <2>2
<1>7. CASE op \in {"I32Store", "I32Store8", "I32Store16", "F32Store", "I64Store8",
                   "I64Store16", "I64Store32"}
  <2>1. n \in 0 .. 4
    BY <1>7 DEF Wasm!BytesOf
  <2>2. ToBytes(v[1], n) = ToBytes(x, n)
    <3> HIDE DEF n
    <3> QED BY <1>1, <2>1, SplitBytes
  <2>3. Leaves(run, c, at, n, v[1])
    BY <1>7, NarrowStores
  <2> HIDE DEF run, x, n, at, sum
  <2> QED BY <1>6, <2>2, <2>3 DEF run, x, sum
<1>8. CASE op = "F64Store"
  <2>1. n = 8
    BY <1>8 DEF Wasm!BytesOf
  <2>2. Leaves(run, c, at, n, x)
    BY <1>8, <2>1, FloatStore
  <2> HIDE DEF run, x, n, at, sum
  <2> QED BY <1>6, <2>2 DEF run, x, sum
<1>9. CASE op = "I64Store"
  <2> DEFINE hi   == EffectiveAddress(a, Ops!SaturatingAdd(offset, 4))
             half == Written(c, hi, ToBytes(v[2], 4))
  <2>1. n = 8
    BY <1>9 DEF Wasm!BytesOf
  <2>2. IF Accessible(c, hi, 4) THEN Leaves(run, half, at, 4, v[1])
                                ELSE run.outcome = "trap" /\ run.cells = c
    BY <1>9, LongStore
  <2>3. /\ Accessible(c, hi, 4) <=> Wasm!Exists(c, sum, 8)
        /\ Accessible(c, hi, 4) => hi = sum + 4 /\ Accessible(c, at, 4) /\ at = sum
    BY <1>1, HighHalf
  <2>4. CASE Accessible(c, hi, 4)
    <3>1. Len(half) = Len(c)
      BY WrittenSize
    <3>2. Accessible(half, at, 4)
      BY <2>3, <2>4, <3>1 DEF Accessible
    <3>3. Written(half, at, ToBytes(v[1], 4)) = Written(c, at, ToBytes(x, 8))
      <4>1. at \in Int /\ hi = at + 4
        BY <1>1, <2>3, <2>4
      <4> HIDE DEF at, hi, x
      <4>2. Written(Written(c, at + 4, ToBytes(v[2], 4)), at, ToBytes(v[1], 4))
              = Written(c, at, ToBytes(v[1] + Modulus * v[2], 8))
        BY <1>1, <4>1, TwoHalves
      <4> QED BY <4>1, <4>2 DEF x
    <3>4. run = Machine(<<>>, Written(c, at, ToBytes(x, n)))
      <4> HIDE DEF half, at, x, run, n, hi
      <4> QED BY <2>1, <2>2, <2>4, <3>2, <3>3 DEF Leaves
    <3>5. Accessible(c, at, n)
      BY <1>5, <2>1, <2>3, <2>4
    <3>6. Leaves(run, c, at, n, x)
      BY <3>4, <3>5 DEF Leaves
    <3> HIDE DEF run, x, n, at, sum
    <3> QED BY <1>6, <3>6 DEF run, x, sum
  <2>5. CASE ~Accessible(c, hi, 4)
    <3>1. ~Accessible(c, at, n)
      BY <1>5, <2>1, <2>3, <2>5
    <3>2. Leaves(run, c, at, n, x)
      BY <2>2, <2>5, <3>1 DEF Leaves
    <3> HIDE DEF run, x, n, at, sum
    <3> QED BY <1>6, <3>2 DEF run, x, sum
  <2> QED BY <2>4, <2>5
<1> QED BY <1>2, <1>7, <1>8, <1>9

\* The state property.
LEMMA InvStoresMatch ==
  ASSUME TypeOK, SizeInv
  PROVE  StoresMatchWasm
<1>1. layout \in Layouts /\ cells \in Seq(CellValues) /\ 2 * Len(cells) <= Modulus
  BY HalfSpace DEF TypeOK
<1>2. Offsets \subseteq Words /\ Stored \subseteq Words \X Words
  BY <1>1, AccessAssumption DEF Offsets, Stored
<1>3. ASSUME NEW op \in DOMAIN Ops!StoreTypes, NEW a \in Words, NEW offset \in Offsets,
             NEW v \in Stored
      PROVE  LET run == RunStore(cells, op, a, offset, v)
             IN  /\ [outcome |-> run.outcome, cells |-> run.cells]
                      = Wasm!StoreAt(cells, op, a + offset, v[1] + Modulus * v[2], W)
                 /\ run.outcome = "ok" => run.stack = <<>>
  <2>1. offset \in Words /\ v \in Words \X Words
    BY <1>2
  <2> DEFINE S == CellValues
  <2>2. cells \in Seq(S)
    BY <1>1
  <2> HIDE DEF S
  <2>3. LET run == RunStore(cells, op, a, offset, v)
        IN  /\ Effect(run) = Wasm!StoreAt(cells, op, a + offset, v[1] + Modulus * v[2], W)
            /\ run.outcome = "ok" => run.stack = <<>>
    BY <1>1, <2>1, <2>2, StoreMatches
  <2> QED BY <2>3 DEF Effect
<1> QED BY <1>3 DEF StoresMatchWasm

----------------------------------------------------------------------------
(* What an access leaves of the invariants.                                *)

\* Bytes are cells of a memory.
LEMMA BytesTyped ==
  ASSUME layout \in Layouts, IsMemory, NEW x \in Int, NEW n \in 0 .. 8
  PROVE  \A k \in DOMAIN ToBytes(x, n) : ToBytes(x, n)[k] \in CellValues
<1>1. CellValues = 0 .. Byte - 1
  BY DEF CellValues, CellsOf, IsMemory, Byte
<1>2. ASSUME NEW k \in 1 .. n
      PROVE  (x \div Byte^(k - 1)) % Byte \in 0 .. Byte - 1
  <2> DEFINE p == Byte^(k - 1)
             q == x \div p
  <2>1. Byte \in Nat \ {0} /\ p \in Nat \ {0}
    <3>1. k - 1 \in 0 .. 8
      OBVIOUS
    <3> QED BY <3>1, BytePowers
  <2> HIDE DEF p
  <2>2. q \in Int
    BY <2>1, Divided
  <2> HIDE DEF q
  <2>3. q % Byte \in 0 .. Byte - 1
    BY <2>1, <2>2, Divided
  <2> QED BY <2>3 DEF p, q
<1> QED BY <1>1, <1>2 DEF ToBytes

\* The run of a store ends or traps, in a region of cells of the same size.
LEMMA StoreTyped ==
  ASSUME TypeOK, SizeInv, IsMemory, NEW op \in DOMAIN Ops!StoreTypes, NEW a \in Words,
         NEW offset \in Words, NEW v \in Words \X Words
  PROVE  LET run == RunStore(cells, op, a, offset, v)
         IN  /\ run.cells \in Seq(CellValues) /\ Len(run.cells) = Len(cells)
             /\ run.outcome \in {"ok", "trap"}
<1> DEFINE run == RunStore(cells, op, a, offset, v)
           x   == v[1] + Modulus * v[2]
           n   == Wasm!BytesOf(op)
           S   == CellValues
           sum == a + offset
<1>1. cells \in Seq(S) /\ layout \in Layouts
  BY DEF TypeOK
<1>2. x \in Int
  BY WordValues DEF Words
<1>3. n \in 0 .. 8
  BY DEF Wasm!BytesOf
<1>4. Effect(run) = Wasm!StoreAt(cells, op, sum, x, W)
  <2> HIDE DEF S
  <2> QED BY <1>1, HalfSpace, StoreMatches
<1>5. Wasm!StoreAt(cells, op, sum, x, W)
        = IF Wasm!Exists(cells, sum, n)
            THEN [outcome |-> "ok", cells |-> Written(cells, sum, ToBytes(x, n))]
            ELSE [outcome |-> "trap", cells |-> cells]
  <2> HIDE DEF x, sum
  <2> QED BY <1>2, <1>3, WasmStores
<1>6. \A k \in DOMAIN ToBytes(x, n) : ToBytes(x, n)[k] \in S
  <2> HIDE DEF x, n
  <2> QED BY <1>1, <1>2, <1>3, BytesTyped
<1> HIDE DEF S, run, x, n, sum
<1>7. Written(cells, sum, ToBytes(x, n)) \in Seq(S)
      /\ Len(Written(cells, sum, ToBytes(x, n))) = Len(cells)
  <2> DEFINE b == ToBytes(x, n)
  <2> HIDE DEF b
  <2> QED BY <1>1, <1>6, WrittenTyped, WrittenSize DEF b
<1>8. run.outcome = Effect(run).outcome /\ run.cells = Effect(run).cells
  BY DEF Effect
<1>9. /\ run.cells \in Seq(S) /\ Len(run.cells) = Len(cells) /\ run.outcome \in {"ok", "trap"}
  BY <1>1, <1>4, <1>5, <1>7, <1>8
<1> QED BY <1>9 DEF S, run

\* A step that is not one of Segments: an access by the guest or by a handler.
Access ==
  \/ \E op \in DOMAIN Ops!StoreTypes, a \in Operands, offset \in Offsets, v \in Stored :
       StoreTo(op, a, offset, v)
  \/ \E at \in Operands \cup {2^(2 * W) - 1}, v \in Stored : HostWrite(at, ToBytes(v[1], 4))
  \/ \E i \in Operands, v \in FillValues : TableSet(i, v)

\* Each access is a guest's step without a charge, which writes cells or traps.
LEMMA AccessWrites ==
  ASSUME TypeOK, SizeInv, Access
  PROVE  \E run : /\ Guest(0, run)
                  /\ run.cells \in Seq(CellValues) /\ Len(run.cells) = Len(cells)
                  /\ run.outcome \in {"ok", "trap"}
<1> DEFINE Good(run) == /\ Guest(0, run)
                        /\ run.cells \in Seq(CellValues) /\ Len(run.cells) = Len(cells)
                        /\ run.outcome \in {"ok", "trap"}
<1>1. /\ layout \in Layouts /\ cells \in Seq(CellValues)
      /\ Operands \subseteq Words /\ FillValues \subseteq Words
      /\ Offsets \subseteq Words /\ Stored \subseteq Words \X Words
  <2>1. layout \in Layouts /\ cells \in Seq(CellValues)
    BY DEF TypeOK
  <2> QED BY <2>1, LayoutAssumption, AccessAssumption
        DEF Operands, FillValues, Offsets, Stored
<1>2. CASE \E op \in DOMAIN Ops!StoreTypes, a \in Operands, offset \in Offsets, v \in Stored :
             StoreTo(op, a, offset, v)
  <2>1. PICK op \in DOMAIN Ops!StoreTypes, a \in Operands, offset \in Offsets, v \in Stored :
          StoreTo(op, a, offset, v)
    BY <1>2
  <2>2. a \in Words /\ offset \in Words /\ v \in Words \X Words
    BY <1>1
  <2>3. IsMemory /\ Guest(0, RunStore(cells, op, a, offset, v))
    BY <2>1 DEF StoreTo
  <2>4. Good(RunStore(cells, op, a, offset, v))
    BY <2>2, <2>3, StoreTyped
  <2> QED BY <2>4
<1>3. ASSUME NEW S, S = CellValues, NEW d, NEW values, \A k \in DOMAIN values : values[k] \in S
      PROVE  /\ Written(cells, d, values) \in Seq(S)
             /\ Len(Written(cells, d, values)) = Len(cells)
  <2>1. cells \in Seq(S)
    BY <1>1, <1>3
  <2> QED BY <1>3, <2>1, WrittenTyped, WrittenSize
<1>4. ASSUME NEW d, NEW values, \A k \in DOMAIN values : values[k] \in CellValues,
             NEW Fits,
             Guest(0, IF Fits THEN Ok(Written(cells, d, values)) ELSE Trap(cells))
      PROVE  \E run : Good(run)
  <2> DEFINE run == IF Fits THEN Ok(Written(cells, d, values)) ELSE Trap(cells)
  <2>1. Written(cells, d, values) \in Seq(CellValues)
        /\ Len(Written(cells, d, values)) = Len(cells)
    <3> DEFINE S == CellValues
    <3>1. \A k \in DOMAIN values : values[k] \in S
      BY <1>4
    <3> HIDE DEF S
    <3>2. S = CellValues => Written(cells, d, values) \in Seq(S)
                            /\ Len(Written(cells, d, values)) = Len(cells)
      BY <1>3, <3>1
    <3> QED BY <3>2 DEF S
  <2>2. /\ run.cells \in Seq(CellValues) /\ Len(run.cells) = Len(cells)
        /\ run.outcome \in {"ok", "trap"}
    BY <1>1, <2>1 DEF Ok, Trap
  <2> HIDE DEF run
  <2>3. Guest(0, run)
    BY <1>4 DEF run
  <2> QED BY <2>2, <2>3
<1>5. CASE \E at \in Operands \cup {2^(2 * W) - 1}, v \in Stored : HostWrite(at, ToBytes(v[1], 4))
  <2>1. PICK at \in Operands \cup {2^(2 * W) - 1}, v \in Stored : HostWrite(at, ToBytes(v[1], 4))
    BY <1>5
  <2>2. v[1] \in Int
    <3>1. v \in Words \X Words
      BY <1>1
    <3> QED BY <3>1 DEF Words
  <2> DEFINE bytes == ToBytes(v[1], 4)
             Fits  == at + Len(bytes) < 2^(2 * W) /\ at + Len(bytes) <= Len(cells)
  <2>3. IsMemory /\ Guest(0, IF Fits THEN Ok(Written(cells, at, bytes)) ELSE Trap(cells))
    BY <2>1 DEF HostWrite
  <2>4. \A k \in DOMAIN bytes : bytes[k] \in CellValues
    BY <1>1, <2>2, <2>3, BytesTyped
  <2> HIDE DEF bytes, Fits
  <2> QED BY <1>4, <2>3, <2>4
<1>6. CASE \E i \in Operands, v \in FillValues : TableSet(i, v)
  <2>1. PICK i \in Operands, v \in FillValues : TableSet(i, v)
    BY <1>6
  <2> DEFINE one  == <<v>>
             Fits == i < Len(cells)
  <2>2. ~IsMemory /\ Guest(0, IF Fits THEN Ok(Written(cells, i, one)) ELSE Trap(cells))
    BY <2>1 DEF TableSet
  <2>3. v \in CellValues
    BY <1>1, <2>2 DEF CellValues, CellsOf, IsMemory
  <2>4. \A k \in DOMAIN one : one[k] \in CellValues
    BY <2>3
  <2> HIDE DEF one, Fits
  <2> QED BY <1>4, <2>2, <2>4
<1> QED BY <1>2, <1>5, <1>6 DEF Access

\* Accesses keep the invariants.
LEMMA AccessKeeps ==
  ASSUME TypeOK, SizeInv, Access
  PROVE  TypeOK' /\ SizeInv' /\ UNCHANGED <<layout, flags, dropped>>
<1>1. PICK run : /\ Guest(0, run)
                 /\ run.cells \in Seq(CellValues) /\ Len(run.cells) = Len(cells)
                 /\ run.outcome \in {"ok", "trap"}
  BY AccessWrites
<1>2. TypeOK'
  BY <1>1, GuestTypes
<1>3. SizeInv'
  <2>1. SameSize(run.cells)
    <3> DEFINE S == CellValues
    <3>1. run.cells \in Seq(S)
      BY <1>1
    <3> HIDE DEF S
    <3>2. run.cells \in Seq({run.cells[k] : k \in DOMAIN run.cells})
      BY <3>1, OwnValues
    <3> QED BY <1>1, <3>2 DEF SameSize
  <2> QED BY <1>1, <2>1, GuestSize
<1>4. UNCHANGED <<layout, flags, dropped>>
  BY <1>1 DEF Guest
<1> QED BY <1>2, <1>3, <1>4

\* Every step is one of Segments or an access.
LEMMA Steps == [AccessNext]_vars <=> [Next]_vars \/ Access
BY DEF AccessNext, Access

\* The inductive invariant of the region with all its accesses: its types and its size.
RegionInv == TypeOK /\ SizeInv

\* It is there before the entrypoint runs.
LEMMA InitRegion == Init => RegionInv
BY InitTypes, InitSize DEF RegionInv

\* Every step keeps it.
LEMMA StepsRegion == RegionInv /\ [AccessNext]_vars => RegionInv'
<1> SUFFICES ASSUME TypeOK, SizeInv, [AccessNext]_vars
             PROVE  TypeOK' /\ SizeInv'
  BY DEF RegionInv
<1>1. CASE [Next]_vars
  BY <1>1, NextTypes, NextSize
<1>2. CASE Access
  BY <1>2, AccessKeeps
<1> QED BY <1>1, <1>2, Steps

----------------------------------------------------------------------------
(* Theorems of the region with all its accesses.                           *)

\* In every run the invariant holds.
LEMMA RegionKept == AccessSpec => []RegionInv
<1>1. Init => RegionInv
  BY InitRegion
<1>2. RegionInv /\ [AccessNext]_vars => RegionInv'
  BY StepsRegion
<1> QED BY <1>1, <1>2, PTL DEF AccessSpec

\* The state of a region is always one the store can hold: every cell is a byte of a memory
\* or an element of a table, also after a write that cuts its value.
THEOREM RegionTyped == AccessSpec => []TypeOK
<1>1. RegionInv => TypeOK
  BY DEF RegionInv
<1> QED BY <1>1, RegionKept, PTL

\* Whatever grows the region, the unchecked entrypoint or the guest, and whatever stores and
\* handlers write: it stays within what the module declares and the store allows.
THEOREM RegionBounded == AccessSpec => []SizeWithinMaximum
<1>1. RegionInv => SizeWithinMaximum
  BY InvBoundsSize DEF RegionInv
<1> QED BY <1>1, RegionKept, PTL

\* In every such state a bulk instruction that writes n cells has charged for all of them,
\* although the charge is computed in wrapping arithmetic.
THEOREM RegionWorkPaid == AccessSpec => []BulkWorkIsPaid
<1>1. RegionInv => BulkWorkIsPaid
  BY InvPaysWork DEF RegionInv
<1> QED BY <1>1, RegionKept, PTL

\* Every store, also an i64 that is written in two checked halves of which the second has a
\* saturated offset, writes the bytes Wasm says or traps exactly when Wasm does and has then
\* written nothing: for every width of a word, every size of the region and every offset.
THEOREM StoresMatch == AccessSpec => []StoresMatchWasm
<1>1. RegionInv => StoresMatchWasm
  BY InvStoresMatch DEF RegionInv
<1> QED BY <1>1, RegionKept, PTL

\* Fill, copy and grow do what Wasm's do, in regions of which the guest does not address the
\* middle of the address space when the memory may fill half of it.
THEOREM RegionOpsMatchAccessed ==
  ASSUME \A l \in Layouts : ShortOf(l)
  PROVE  AccessSpec => []RegionOpsMatchWasm
<1>1. RegionInv => RegionOpsMatchWasm
  <2> SUFFICES ASSUME TypeOK, SizeInv
               PROVE  RegionOpsMatchWasm
    BY DEF RegionInv
  <2>1. ShortOf(layout)
    BY DEF TypeOK
  <2> QED BY <2>1, InvMatchesWasm
<1> QED BY <1>1, RegionKept, PTL

\* Where each segment's offset is where its data are and the bits end with the one segment
\* that is dropped, the bits stay exact.
LEMMA FlagsStayExact == AccessSpec /\ ExactLayout => [](RegionInv /\ FlagsExact)
<1> DEFINE Inv == RegionInv /\ FlagsExact
<1>1. Init /\ ExactLayout => Inv
  BY InitRegion, InitFlags
<1>2. Inv /\ [AccessNext]_vars => Inv'
  <2> SUFFICES ASSUME TypeOK, SizeInv, FlagsExact, [AccessNext]_vars
               PROVE  FlagsExact'
    BY StepsRegion DEF RegionInv
  <2>1. layout \in Layouts
    BY DEF TypeOK
  <2>2. CASE [Next]_vars
    BY <2>1, <2>2, FlagsKept
  <2>3. CASE Access
    <3>1. UNCHANGED <<layout, flags, dropped>>
      BY <2>3, AccessKeeps
    <3> QED BY <3>1, FlagsStay
  <2> QED BY <2>2, <2>3, Steps
<1> QED BY <1>1, <1>2, PTL DEF AccessSpec

\* In such a layout an init does exactly what Wasm's does, with its check in wrapping
\* arithmetic and its one section for all segments.
THEOREM InitsMatch ==
  ASSUME \A l \in Layouts : ShortOf(l)
  PROVE  AccessSpec /\ ExactLayout => []InitMatchesWasm
<1>1. RegionInv /\ FlagsExact => InitMatchesWasm
  <2> SUFFICES ASSUME TypeOK, SizeInv, FlagsExact
               PROVE  InitMatchesWasm
    BY DEF RegionInv
  <2>1. ShortOf(layout)
    BY DEF TypeOK
  <2> QED BY <2>1, InvInitMatches
<1> QED BY <1>1, FlagsStayExact, PTL

\* In such a layout an init that succeeds has read its own segment, which a source that wraps
\* escapes elsewhere.
THEOREM InitsStay ==
  ASSUME \A l \in Layouts : ShortOf(l)
  PROVE  AccessSpec /\ ExactLayout => []InitStaysInSegment
<1>1. RegionInv /\ FlagsExact => InitStaysInSegment
  <2> SUFFICES ASSUME TypeOK, SizeInv, FlagsExact, boot = Ready,
                      NEW i \in SegmentIds, NEW d \in Operands, NEW s \in Operands,
                      NEW n \in Operands,
                      RunInit(cells, flags, i, d, s, n).outcome = "ok", n > 0
               PROVE  s + n <= DataLength(i)
    BY DEF RegionInv, InitStaysInSegment
  <2>1. layout \in Layouts /\ ShortOf(layout)
    BY DEF TypeOK
  <2>2. RunInit(cells, flags, i, d, s, n) = Wasm!InitFrom(cells, Content(i), d, s, n)
    BY <2>1, InvInitMatches DEF InitMatchesWasm
  <2>3. s \in Nat /\ n \in Nat
    BY <2>1, LayoutTyped
  <2>4. s + n <= Len(Content(i))
    <3> DEFINE source == Content(i)
    <3> HIDE DEF source
    <3>1. Wasm!Moved(cells, source, d, s, n).outcome = "ok"
      BY <2>2 DEF Wasm!InitFrom, source
    <3>2. CASE ~(s + n <= Len(source) /\ d + n <= Len(cells))
      BY <3>1, <3>2 DEF Wasm!Moved, Wasm!Trap
    <3> QED BY <3>2 DEF source
  <2>5. CASE i \in dropped
    <3>1. Len(Content(i)) = 0
      BY <2>5 DEF Content
    <3> QED BY <2>3, <2>4, <3>1
  <2>6. CASE i \notin dropped
    BY <2>4, <2>6 DEF Content, DataLength
  <2> QED BY <2>5, <2>6
<1> QED BY <1>1, FlagsStayExact, PTL

----------------------------------------------------------------------------
(* The bits of dropped segments, in every layout and after any drops.      *)

\* After resize and set: the segment dropped, and of the others those before it.
LEMMA DropFlagIs ==
  ASSUME NEW f, NEW b \in Nat, NEW j \in Nat
  PROVE  Flag(DropFlag(f, b), j) <=> j = b \/ (j < b /\ Flag(f, j))
<1> DEFINE S == 1 .. b + 1
           g == [k \in S |-> k = b + 1 \/ (k \in DOMAIN f /\ f[k])]
           k == j + 1
<1>1. DropFlag(f, b) = g
  BY DEF DropFlag
<1>2. k \in S <=> j <= b
  OBVIOUS
<1>3. k = b + 1 <=> j = b
  OBVIOUS
<1>4. DOMAIN g = S
  OBVIOUS
<1>5. k \in S => (g[k] <=> k = b + 1 \/ (k \in DOMAIN f /\ f[k]))
  <2> HIDE DEF S, k
  <2> QED BY Zenon
<1>6. j <= b <=> j = b \/ j < b
  OBVIOUS
<1>7. ~(j = b /\ j < b)
  OBVIOUS
<1> HIDE DEF S, g, k
<1>8. k \in DOMAIN g /\ g[k] <=> j = b \/ (j < b /\ k \in DOMAIN f /\ f[k])
  BY <1>2, <1>3, <1>4, <1>5, <1>6, <1>7, Zenon
<1> QED BY <1>1, <1>8, Zenon DEF Flag, k

\* Segments are numbered from 1, in the order of the entrypoint's steps.
LEMMA SegmentsNumbered ==
  ASSUME TypeOK
  PROVE  /\ SegmentIds = 1 .. Len(Segs) /\ Len(Segs) \in Nat
         /\ dropped \subseteq SegmentIds /\ Droppable \subseteq SegmentIds
         /\ boot \in 0 .. Failed /\ Failed = Len(Segs) + 2
<1>1. layout \in Layouts /\ dropped \subseteq SegmentIds /\ boot \in 0 .. Failed
  BY DEF TypeOK
<1>2. SegmentIds = 1 .. Len(Segs) /\ Len(Segs) \in Nat
  BY <1>1, LayoutTyped
<1>3. Droppable \subseteq SegmentIds
  BY <1>1, LayoutAssumption DEF Droppable, SegmentIds, Segs
<1>4. Failed = Len(Segs) + 2
  BY <1>2 DEF Failed, Ready
<1> QED BY <1>1, <1>2, <1>3, <1>4

\* Segments before the entrypoint's next one are the only ones dropped while it runs.
BootAscends == boot \in 0 .. Len(Segs) => \A j \in dropped : j < boot

\* A drop takes no other segment with it.
OthersStayArmed == \A i \in SegmentIds : Flag(flags, i) => i \in dropped

\* The steps, by what they do to the bits: nothing, an active segment's drop, a reset; the
\* fourth is the guest's Drop.
BitsKept    == UNCHANGED <<layout, flags, dropped>> /\ boot' \in {boot, boot + 1, Failed}
BootDrop    == /\ boot \in SegmentIds /\ boot' = boot + 1 /\ layout' = layout
               /\ flags' = DropFlag(flags, boot) /\ dropped' = dropped \cup {boot}
BitsCleared == /\ boot \notin 0 .. Len(Segs) /\ UNCHANGED <<layout, boot>>
               /\ dropped' = {} /\ \A b : ~Flag(flags', b)

\* Every step of the region is one of them.
LEMMA BitSteps ==
  ASSUME TypeOK, SizeInv, [AccessNext]_vars
  PROVE  BitsKept \/ BootDrop \/ BitsCleared \/ \E i \in Droppable : Drop(i)
<1>0. Len(Segs) \in Nat
  BY LayoutTyped DEF TypeOK
<1>1. CASE BootGrow
  BY <1>1 DEF BootGrow, BitsKept
<1>2. CASE BootSegment
  <2>1. CASE boot' = Failed
    BY <1>2, <1>0, <2>1 DEF BootSegment, BitsKept, BootDrop
  <2>2. CASE boot' # Failed
    BY <1>2, <2>2 DEF BootSegment, BitsKept, BootDrop
  <2> QED BY <2>1, <2>2
<1>3. CASE \/ \E i \in SegmentIds, d, s, n \in Operands : InitSegment(i, d, s, n)
           \/ \E v \in FillValues, d, n \in Operands : Fill(d, v, n)
           \/ \E d, s, n \in Operands : Copy(d, s, n)
           \/ \E v \in FillValues, delta \in Operands : Grow(delta, v)
           \/ UNCHANGED vars
  BY <1>3 DEF InitSegment, Fill, Copy, Grow, Guest, vars, BitsKept
<1>4. CASE \E keepFlags \in BOOLEAN : StoreReset(keepFlags)
  <2>1. PICK keepFlags \in BOOLEAN : StoreReset(keepFlags)
    BY <1>4
  <2>2. CASE UNCHANGED <<flags, dropped>>
    BY <2>1, <2>2 DEF StoreReset, BitsKept
  <2>3. CASE ~UNCHANGED <<flags, dropped>>
    <3>1. dropped' = {} /\ \A b : ~Flag(flags', b)
      BY <2>1, <2>3 DEF StoreReset, Flag
    <3>2. boot \notin 0 .. Len(Segs) /\ UNCHANGED <<layout, boot>>
      BY <1>0, <2>1 DEF StoreReset, Ready, Failed
    <3> QED BY <3>1, <3>2 DEF BitsCleared
  <2> QED BY <2>2, <2>3
<1>5. CASE Access
  <2>1. UNCHANGED <<layout, flags, dropped>>
    BY <1>5, AccessKeeps
  <2>2. boot' = boot
    BY <1>5, AccessWrites DEF Guest
  <2> QED BY <2>1, <2>2 DEF BitsKept
<1> QED BY <1>1, <1>2, <1>3, <1>4, <1>5, Steps DEF Next

\* What the theorems below have in common.
BitsInv == RegionInv /\ BootAscends /\ OthersStayArmed

\* Nothing has been dropped before the entrypoint runs.
LEMMA InitBits == Init => BitsInv /\ DroppedStayDropped
<1> SUFFICES ASSUME Init
             PROVE  BitsInv /\ DroppedStayDropped
  OBVIOUS
<1>1. RegionInv
  BY InitRegion
<1>2. dropped = {} /\ \A i : ~Flag(flags, i)
  BY DEF Init, Flag
<1> QED BY <1>1, <1>2 DEF BitsInv, BootAscends, OthersStayArmed, DroppedStayDropped

\* Every step keeps it.
LEMMA StepsBits == BitsInv /\ [AccessNext]_vars => BitsInv'
<1> SUFFICES ASSUME BitsInv, [AccessNext]_vars
             PROVE  BitsInv'
  OBVIOUS
<1>0. TypeOK /\ SizeInv /\ BootAscends /\ OthersStayArmed
  BY DEF BitsInv, RegionInv
<1>1. RegionInv'
  BY StepsRegion DEF BitsInv
<1>2. /\ SegmentIds = 1 .. Len(Segs) /\ Len(Segs) \in Nat
      /\ dropped \subseteq SegmentIds /\ boot \in 0 .. Failed /\ Failed = Len(Segs) + 2
      /\ Droppable \subseteq SegmentIds
  BY <1>0, SegmentsNumbered
<1>3. CASE BitsKept
  <2>1. Segs' = Segs /\ SegmentIds' = SegmentIds /\ flags' = flags /\ dropped' = dropped
    BY <1>3 DEF BitsKept, Segs, SegmentIds
  <2>2. OthersStayArmed'
    BY <1>0, <2>1 DEF OthersStayArmed, Flag
  <2>3. BootAscends'
    BY <1>0, <1>2, <1>3, <2>1 DEF BitsKept, BootAscends
  <2> QED BY <1>1, <2>2, <2>3 DEF BitsInv
<1>4. CASE BitsCleared
  <2>1. BootAscends' /\ OthersStayArmed'
    BY <1>4 DEF BitsCleared, BootAscends, OthersStayArmed
  <2> QED BY <1>1, <2>1 DEF BitsInv
<1>5. ASSUME NEW b \in SegmentIds, layout' = layout, flags' = DropFlag(flags, b),
             dropped' = dropped \cup {b}
      PROVE  OthersStayArmed'
  <2>1. SegmentIds' = SegmentIds
    BY <1>5 DEF Segs, SegmentIds
  <2>2. ASSUME NEW i \in SegmentIds, Flag(flags', i)
        PROVE  i \in dropped'
    <3>1. i \in Nat /\ b \in Nat
      BY <1>2
    <3>2. i = b \/ Flag(flags, i)
      BY <1>5, <2>2, <3>1, DropFlagIs
    <3> QED BY <1>0, <1>5, <3>2 DEF OthersStayArmed
  <2> QED BY <2>1, <2>2 DEF OthersStayArmed
<1>6. CASE BootDrop
  <2>1. Segs' = Segs
    BY <1>6 DEF BootDrop, Segs
  <2>2. BootAscends'
    BY <1>0, <1>2, <1>6, <2>1 DEF BootDrop, BootAscends
  <2>3. OthersStayArmed'
    BY <1>5, <1>6 DEF BootDrop
  <2> QED BY <1>1, <2>2, <2>3 DEF BitsInv
<1>7. ASSUME NEW i \in Droppable, Drop(i)
      PROVE  BitsInv'
  <2>1. Segs' = Segs /\ boot' \notin 0 .. Len(Segs)
    BY <1>2, <1>7 DEF Drop, Segs, Ready
  <2>2. BootAscends'
    BY <2>1 DEF BootAscends
  <2>3. OthersStayArmed'
    BY <1>2, <1>5, <1>7 DEF Drop
  <2> QED BY <1>1, <2>2, <2>3 DEF BitsInv
<1> QED BY <1>0, <1>3, <1>4, <1>6, <1>7, BitSteps

\* In every run it holds.
LEMMA BitsHold == AccessSpec => []BitsInv
<1>1. Init => BitsInv
  BY InitBits
<1> QED BY <1>1, StepsBits, PTL DEF AccessSpec

\* The guest drops no segment that is before one it has dropped.
DropsAscend == \A i \in Droppable : Drop(i) => \A j \in dropped : j <= i

\* Where the guest drops its segments in ascending order, however many there are, active ones
\* before them and resets in between: the bits say exactly which segments are dropped.  The
\* order is needed: see OnlyLowerDropsLose and finding 1.
THEOREM DropsStay ==
  AccessSpec /\ [][DropsAscend]_vars => [](DroppedStayDropped /\ OthersStayArmed)
<1> DEFINE Inv == BitsInv /\ DroppedStayDropped
<1>1. Init => Inv
  BY InitBits
<1>2. Inv /\ [AccessNext]_vars /\ [DropsAscend]_vars => Inv'
  <2> SUFFICES ASSUME BitsInv, DroppedStayDropped, [AccessNext]_vars, [DropsAscend]_vars
               PROVE  DroppedStayDropped'
    BY StepsBits
  <2>0. TypeOK /\ SizeInv /\ BootAscends
    BY DEF BitsInv, RegionInv
  <2>1. /\ SegmentIds = 1 .. Len(Segs) /\ Len(Segs) \in Nat
        /\ dropped \subseteq SegmentIds /\ Droppable \subseteq SegmentIds
    BY <2>0, SegmentsNumbered
  <2>2. CASE BitsKept
    BY <2>2 DEF BitsKept, DroppedStayDropped, Flag
  <2>3. CASE BitsCleared
    BY <2>3 DEF BitsCleared, DroppedStayDropped
  <2>4. ASSUME NEW b \in SegmentIds, flags' = DropFlag(flags, b), dropped' = dropped \cup {b},
               \A j \in dropped : j <= b
        PROVE  DroppedStayDropped'
    <3>1. ASSUME NEW j \in dropped'
          PROVE  Flag(flags', j)
      <4>1. j \in Nat /\ b \in Nat
        BY <2>1, <2>4
      <4>2. j = b \/ (j < b /\ Flag(flags, j))
        BY <2>4, <4>1 DEF DroppedStayDropped
      <4> QED BY <2>4, <4>1, <4>2, DropFlagIs
    <3> QED BY <3>1 DEF DroppedStayDropped
  <2>5. CASE BootDrop
    <3>1. \A j \in dropped : j <= boot
      BY <2>0, <2>1, <2>5 DEF BootDrop, BootAscends
    <3> QED BY <2>4, <2>5, <3>1 DEF BootDrop
  <2>6. ASSUME NEW i \in Droppable, Drop(i)
        PROVE  DroppedStayDropped'
    <3>1. CASE UNCHANGED vars
      BY <3>1 DEF vars, DroppedStayDropped, Flag
    <3>2. CASE DropsAscend
      BY <2>1, <2>4, <2>6, <3>2 DEF DropsAscend, Drop
    <3> QED BY <3>1, <3>2
  <2> QED BY <2>0, <2>2, <2>3, <2>5, <2>6, BitSteps
<1>3. Inv => DroppedStayDropped /\ OthersStayArmed
  BY DEF BitsInv
<1> HIDE DEF Inv
<1> QED BY <1>1, <1>2, <1>3, PTL DEF AccessSpec

\* A dropped segment comes back exactly when the guest drops one before it: a later resize
\* cuts its bit.  No active segment of the entrypoint, no access and no reset does that.
OnlyLowerDropsLose ==
  [][\A j \in dropped \cap dropped' :
       Flag(flags, j) => (~Flag(flags', j) <=> \E i \in Droppable : i < j /\ Drop(i))]_vars

\* In every layout and after any sequence of drops, accesses and resets: what a step does to
\* the bits of dropped segments.
THEOREM DropsLose == AccessSpec => OnlyLowerDropsLose
<1> DEFINE Lost == \A j \in dropped \cap dropped' :
             Flag(flags, j) => (~Flag(flags', j) <=> \E i \in Droppable : i < j /\ Drop(i))
<1>1. BitsInv /\ [AccessNext]_vars => [Lost]_vars
  <2> SUFFICES ASSUME BitsInv, [AccessNext]_vars, NEW j \in dropped, j \in dropped',
                      Flag(flags, j)
               PROVE  ~Flag(flags', j) <=> \E i \in Droppable : i < j /\ Drop(i)
    OBVIOUS
  <2>0. TypeOK /\ SizeInv /\ BootAscends
    BY DEF BitsInv, RegionInv
  <2>1. /\ SegmentIds = 1 .. Len(Segs) /\ Len(Segs) \in Nat
        /\ dropped \subseteq SegmentIds /\ Droppable \subseteq SegmentIds
    BY <2>0, SegmentsNumbered
  <2>2. j \in Nat /\ \A i \in SegmentIds : i \in Nat
    BY <2>1
  <2>3. ASSUME NEW i \in Droppable, Drop(i)
        PROVE  ~Flag(flags', j) <=> i < j
    <3>1. i \in Nat /\ flags' = DropFlag(flags, i)
      BY <2>1, <2>2, <2>3 DEF Drop
    <3>2. Flag(flags', j) <=> j = i \/ j < i
      BY <2>2, <3>1, DropFlagIs
    <3> QED BY <2>2, <3>1, <3>2
  <2>4. ASSUME NEW i \in Droppable, i < j, Drop(i)
        PROVE  ~Flag(flags', j)
    BY <2>3, <2>4
  <2>5. ASSUME ~Flag(flags', j)
        PROVE  \E i \in Droppable : i < j /\ Drop(i)
    <3>1. CASE BitsKept
      BY <2>5, <3>1 DEF BitsKept, Flag
    <3>2. CASE BitsCleared
      BY <3>2 DEF BitsCleared
    <3>3. CASE BootDrop
      <4>1. boot \in Nat /\ j < boot /\ flags' = DropFlag(flags, boot)
        BY <2>0, <2>1, <3>3 DEF BootDrop, BootAscends
      <4>2. Flag(flags', j)
        BY <2>2, <4>1, DropFlagIs
      <4> QED BY <2>5, <4>2
    <3>4. CASE \E i \in Droppable : Drop(i)
      BY <2>3, <2>5, <3>4
    <3> QED BY <2>0, <3>1, <3>2, <3>3, <3>4, BitSteps
  <2> QED BY <2>4, <2>5
<1> QED BY <1>1, BitsHold, PTL DEF AccessSpec, OnlyLowerDropsLose

----------------------------------------------------------------------------
(* The number that bytes are, from the first to the last and back.         *)

\* The sums of the first bytes, and Horner's scheme from the last.
SumsUpTo(f, c, at, n) ==
  f = [k \in 0 .. n |-> IF k = 0 THEN 0 ELSE f[k - 1] + c[at + k] * Byte^(k - 1)]
HornerUpTo(g, bytes, n) ==
  g = [k \in 0 .. n |-> IF k = 0 THEN 0 ELSE bytes[Len(bytes) + 1 - k] + Byte * g[k - 1]]

\* There are such sums of every length.
LEMMA SumsExist ==
  ASSUME NEW c, NEW at
  PROVE  \A n \in Nat : \E f : SumsUpTo(f, c, at, n)
<1> DEFINE S == {n \in Nat : \E f : SumsUpTo(f, c, at, n)}
<1>1. 0 \in S
  <2> DEFINE f == [k \in 0 .. 0 |-> 0]
  <2>1. SumsUpTo(f, c, at, 0)
    BY DEF SumsUpTo
  <2> QED BY <2>1
<1>2. ASSUME NEW n \in Nat, n \in S
      PROVE  n + 1 \in S
  <2>1. PICK f : SumsUpTo(f, c, at, n)
    BY <1>2
  <2> DEFINE g == [k \in 0 .. n + 1 |->
                     IF k = n + 1 THEN f[n] + c[at + (n + 1)] * Byte^n ELSE f[k]]
  <2>2. ASSUME NEW k \in 0 .. n + 1
        PROVE  g[k] = IF k = 0 THEN 0 ELSE g[k - 1] + c[at + k] * Byte^(k - 1)
    <3>1. CASE k = n + 1
      <4>1. k # 0 /\ k - 1 = n /\ n \in 0 .. n + 1 /\ n # n + 1
        BY <3>1
      <4>2. g[k] = f[n] + c[at + k] * Byte^n /\ g[n] = f[n]
        BY <3>1, <4>1
      <4> QED BY <4>1, <4>2
    <3>2. CASE k \in 0 .. n
      <4>1. f[k] = IF k = 0 THEN 0 ELSE f[k - 1] + c[at + k] * Byte^(k - 1)
        BY <2>1, <3>2 DEF SumsUpTo
      <4>2. g[k] = f[k] /\ (k # 0 => g[k - 1] = f[k - 1])
        BY <3>2
      <4> QED BY <4>1, <4>2
    <3> QED BY <3>1, <3>2
  <2>3. SumsUpTo(g, c, at, n + 1)
    <3> HIDE DEF g
    <3>1. g = [k \in 0 .. n + 1 |-> g[k]]
      BY DEF g
    <3> QED BY <2>2, <3>1 DEF SumsUpTo
  <2> QED BY <2>3
<1> HIDE DEF S
<1>3. Nat \subseteq S
  BY <1>1, <1>2, SetInduction
<1> QED BY <1>3 DEF S

\* The same of Horner's scheme.
LEMMA HornerExists ==
  ASSUME NEW bytes
  PROVE  \A n \in Nat : \E g : HornerUpTo(g, bytes, n)
<1> DEFINE S == {n \in Nat : \E g : HornerUpTo(g, bytes, n)}
<1>1. 0 \in S
  <2> DEFINE f == [k \in 0 .. 0 |-> 0]
  <2>1. HornerUpTo(f, bytes, 0)
    BY DEF HornerUpTo
  <2> QED BY <2>1
<1>2. ASSUME NEW n \in Nat, n \in S
      PROVE  n + 1 \in S
  <2>1. PICK f : HornerUpTo(f, bytes, n)
    BY <1>2
  <2> DEFINE g == [k \in 0 .. n + 1 |->
                     IF k = n + 1 THEN bytes[Len(bytes) + 1 - (n + 1)] + Byte * f[n] ELSE f[k]]
  <2>2. ASSUME NEW k \in 0 .. n + 1
        PROVE  g[k] = IF k = 0 THEN 0 ELSE bytes[Len(bytes) + 1 - k] + Byte * g[k - 1]
    <3>1. CASE k = n + 1
      <4>1. k # 0 /\ k - 1 = n /\ n \in 0 .. n + 1 /\ n # n + 1
        BY <3>1
      <4>2. g[k] = bytes[Len(bytes) + 1 - k] + Byte * f[n] /\ g[n] = f[n]
        BY <3>1, <4>1
      <4> QED BY <4>1, <4>2
    <3>2. CASE k \in 0 .. n
      <4>1. f[k] = IF k = 0 THEN 0 ELSE bytes[Len(bytes) + 1 - k] + Byte * f[k - 1]
        BY <2>1, <3>2 DEF HornerUpTo
      <4>2. g[k] = f[k] /\ (k # 0 => g[k - 1] = f[k - 1])
        BY <3>2
      <4> QED BY <4>1, <4>2
    <3> QED BY <3>1, <3>2
  <2>3. HornerUpTo(g, bytes, n + 1)
    <3> HIDE DEF g
    <3>1. g = [k \in 0 .. n + 1 |-> g[k]]
      BY DEF g
    <3> QED BY <2>2, <3>1 DEF HornerUpTo
  <2> QED BY <2>3
<1> HIDE DEF S
<1>3. Nat \subseteq S
  BY <1>1, <1>2, SetInduction
<1> QED BY <1>3 DEF S

\* Their values, one by one.
Sums(f, c, at, n) ==
  /\ f[0] = 0
  /\ \A k \in 1 .. n : f[k] = f[k - 1] + c[at + k] * Byte^(k - 1)
Horner(g, bytes, n) ==
  /\ g[0] = 0
  /\ \A k \in 1 .. n : g[k] = bytes[n + 1 - k] + Byte * g[k - 1]

\* Wasm's number is the last of the sums.
LEMMA NumberUnfolds ==
  ASSUME NEW c, NEW at, NEW n \in Nat
  PROVE  \E f : Sums(f, c, at, n) /\ Wasm!Number(c, at, n, Byte) = f[n]
<1> DEFINE F == CHOOSE f : f = [k \in 0 .. n |->
                                  IF k = 0 THEN 0 ELSE f[k - 1] + c[at + k] * Byte^(k - 1)]
<1>1. Wasm!Number(c, at, n, Byte) = F[n]
  BY DEF Wasm!Number
<1>2. \E f : f = [k \in 0 .. n |-> IF k = 0 THEN 0 ELSE f[k - 1] + c[at + k] * Byte^(k - 1)]
  <2>1. \E f : SumsUpTo(f, c, at, n)
    BY SumsExist
  <2> QED BY <2>1 DEF SumsUpTo
<1>3. F = [k \in 0 .. n |-> IF k = 0 THEN 0 ELSE F[k - 1] + c[at + k] * Byte^(k - 1)]
  BY <1>2
<1> HIDE DEF F
<1>4. F[0] = 0 /\ \A k \in 1 .. n : F[k] = F[k - 1] + c[at + k] * Byte^(k - 1)
  BY <1>3
<1>5. Sums(F, c, at, n)
  BY <1>4 DEF Sums
<1> QED BY <1>1, <1>5

\* What from_le_bytes makes of a string of bytes is the last of Horner's values.
LEMMA FromBytesUnfolds ==
  ASSUME NEW bytes, Len(bytes) \in Nat
  PROVE  \E g : Horner(g, bytes, Len(bytes)) /\ FromBytes(bytes) = g[Len(bytes)]
<1> DEFINE n == Len(bytes)
           F == CHOOSE g : g = [k \in 0 .. n |->
                                  IF k = 0 THEN 0 ELSE bytes[n + 1 - k] + Byte * g[k - 1]]
<1>1. FromBytes(bytes) = F[n]
  BY DEF FromBytes
<1>2. n \in Nat
  OBVIOUS
<1>3. \E g : g = [k \in 0 .. n |-> IF k = 0 THEN 0 ELSE bytes[n + 1 - k] + Byte * g[k - 1]]
  <2>1. \E g : HornerUpTo(g, bytes, n)
    BY <1>2, HornerExists
  <2> QED BY <2>1 DEF HornerUpTo
<1>4. F = [k \in 0 .. n |-> IF k = 0 THEN 0 ELSE bytes[n + 1 - k] + Byte * F[k - 1]]
  BY <1>3
<1> HIDE DEF F, n
<1>5. F[0] = 0 /\ \A k \in 1 .. n : F[k] = bytes[n + 1 - k] + Byte * F[k - 1]
  BY <1>2, <1>4
<1>6. Horner(F, bytes, n)
  BY <1>5 DEF Horner
<1> QED BY <1>1, <1>6 DEF n

\* The cells of a memory.
Memory(c) == c \in Seq(0 .. Byte - 1)

\* A sum of bytes is a number of that many bytes.
LEMMA SumsBounded ==
  ASSUME NEW c, NEW at \in Nat, NEW n \in 0 .. 8, Memory(c), at + n <= Len(c),
         NEW f, f[0] = 0, \A k \in 1 .. n : f[k] = f[k - 1] + c[at + k] * Byte^(k - 1)
  PROVE  \A k \in 0 .. n : f[k] \in Nat /\ f[k] < Byte^k
<1> DEFINE S == {k \in Nat : k <= n => f[k] \in Nat /\ f[k] < Byte^k}
<1>1. 0 \in S
  BY BytePowers
<1>2. ASSUME NEW k \in Nat, k \in S
      PROVE  k + 1 \in S
  <2> SUFFICES ASSUME k + 1 <= n
               PROVE  f[k + 1] \in Nat /\ f[k + 1] < Byte^(k + 1)
    OBVIOUS
  <2> DEFINE b == Byte
             p == Byte^k
             x == f[k]
             d == c[at + (k + 1)]
  <2>1. x \in Nat /\ x < p
    BY <1>2
  <2>2. b \in Nat \ {0} /\ p \in Nat \ {0} /\ Byte^(k + 1) = p * b
    <3>1. k \in 0 .. 7 /\ k \in 0 .. 8
      OBVIOUS
    <3> QED BY <3>1, BytePowers, Powers
  <2>3. d \in 0 .. b - 1
    <3>1. Len(c) \in Nat /\ at + (k + 1) \in 1 .. Len(c)
      BY DEF Memory
    <3> QED BY <3>1, ElementOfSeq DEF Memory
  <2>4. f[k + 1] = x + d * p
    <3>1. k + 1 \in 1 .. n /\ (k + 1) - 1 = k
      OBVIOUS
    <3> QED BY <3>1
  <2> HIDE DEF b, p, x, d, S
  <2>5. d * p + p <= p * b /\ d * p \in Nat
    <3>1. d + 1 <= b /\ d \in Nat
      BY <2>2, <2>3
    <3>2. p * (d + 1) <= p * b
      BY <2>2, <3>1
    <3> QED BY <2>2, <3>1, <3>2
  <2> DEFINE y == d * p
             z == p * b
  <2>6. y \in Nat /\ y + p <= z
    BY <2>5
  <2>9. z \in Nat
    BY <2>2
  <2> HIDE DEF y, z
  <2>7. x + y \in Nat /\ x + y < z
    BY <2>1, <2>2, <2>6, <2>9
  <2> QED BY <2>2, <2>4, <2>7 DEF y, z
<1> HIDE DEF S
<1>3. Nat \subseteq S
  BY <1>1, <1>2, SetInduction
<1> QED BY <1>3 DEF S

\* The number is the same from both ends.
LEMMA SameNumber ==
  ASSUME NEW c, NEW at \in Nat, NEW n \in 0 .. 8, Memory(c), at + n <= Len(c)
  PROVE  /\ FromBytes(SubSeq(c, at + 1, at + n)) = Wasm!Number(c, at, n, Byte)
         /\ Wasm!Number(c, at, n, Byte) \in Nat /\ Wasm!Number(c, at, n, Byte) < Byte^n
<1> DEFINE bytes == SubSeq(c, at + 1, at + n)
<1>1. Len(bytes) = n /\ \A k \in 1 .. n : bytes[k] = c[at + k]
  BY PartTyped, SMTT(20) DEF Memory
<1> HIDE DEF bytes
<1>12. n \in Nat
  OBVIOUS
<1>10. PICK f : Sums(f, c, at, n) /\ Wasm!Number(c, at, n, Byte) = f[n]
  BY <1>12, NumberUnfolds
<1>2. /\ f[0] = 0
      /\ \A k \in 1 .. n : f[k] = f[k - 1] + c[at + k] * Byte^(k - 1)
      /\ Wasm!Number(c, at, n, Byte) = f[n]
  BY <1>10 DEF Sums
<1>11. PICK g : Horner(g, bytes, n) /\ FromBytes(bytes) = g[n]
  BY <1>1, FromBytesUnfolds
<1>3. /\ g[0] = 0
      /\ \A k \in 1 .. n : g[k] = bytes[n + 1 - k] + Byte * g[k - 1]
      /\ FromBytes(bytes) = g[n]
  BY <1>11 DEF Horner
<1>4. \A k \in 0 .. n : f[k] \in Nat /\ f[k] < Byte^k
  BY <1>2, SumsBounded
<1> DEFINE S == {k \in Nat : k <= n => g[k] \in Nat /\ f[n - k] + Byte^(n - k) * g[k] = f[n]}
<1>5. 0 \in S
  <2>1. n - 0 = n /\ f[n] \in Nat /\ Byte^n \in Nat
    BY <1>4, BytePowers
  <2>2. Byte^n * 0 = 0
    BY <2>1
  <2> QED BY <1>3, <2>1, <2>2
<1>6. ASSUME NEW k \in Nat, k \in S
      PROVE  k + 1 \in S
  <2> SUFFICES ASSUME k + 1 <= n
               PROVE  g[k + 1] \in Nat /\ f[n - (k + 1)] + Byte^(n - (k + 1)) * g[k + 1] = f[n]
    OBVIOUS
  <2> DEFINE b == Byte
             j == n - (k + 1)
             p == Byte^j
             d == c[at + (j + 1)]
             x == f[j]
             y == g[k]
  <2>1. j \in 0 .. 7 /\ j \in 0 .. n /\ j + 1 = n - k /\ j + 1 \in 1 .. n /\ (j + 1) - 1 = j
        /\ n + 1 - (k + 1) = j + 1 /\ k + 1 \in 1 .. n /\ (k + 1) - 1 = k
    OBVIOUS
  <2> HIDE DEF j
  <2>2. b \in Nat \ {0} /\ p \in Nat \ {0} /\ Byte^(j + 1) = p * b
    <3>1. j \in 0 .. 8
      BY <2>1
    <3> QED BY <2>1, <3>1, BytePowers, Powers
  <2>3. d \in Nat
    <3>1. Len(c) \in Nat /\ at + (j + 1) \in 1 .. Len(c)
      BY <2>1 DEF Memory
    <3>2. d \in 0 .. Byte - 1
      BY <3>1, ElementOfSeq DEF Memory
    <3> QED BY <3>2
  <2>4. x \in Nat
    BY <1>4, <2>1
  <2>5. y \in Nat /\ f[j + 1] + Byte^(j + 1) * y = f[n]
    BY <1>6, <2>1
  <2>6. f[j + 1] = x + d * p
    BY <1>2, <2>1
  <2>7. g[k + 1] = d + b * y
    <3>1. g[k + 1] = bytes[n + 1 - (k + 1)] + Byte * g[(k + 1) - 1]
      BY <1>3, <2>1
    <3>2. bytes[j + 1] = d
      BY <1>1, <2>1
    <3> QED BY <2>1, <3>1, <3>2
  <2> HIDE DEF b, p, d, x, y, S
  <2>8. g[k + 1] \in Nat /\ x + p * g[k + 1] = (x + d * p) + (p * b) * y
    <3> DEFINE e == b * y
    <3>1. e \in Nat /\ (p * b) * y = p * e
      BY <2>2, <2>5
    <3> HIDE DEF e
    <3>2. p * (d + e) = d * p + p * e
      BY <2>2, <2>3, <3>1
    <3>3. d * p \in Nat /\ p * e \in Nat
      BY <2>2, <2>3, <3>1
    <3>4. g[k + 1] = d + e
      BY <2>7 DEF e
    <3> DEFINE u == d * p
               w == p * e
    <3>5. u \in Nat /\ w \in Nat /\ p * g[k + 1] = u + w
      BY <3>2, <3>3, <3>4
    <3> HIDE DEF u, w
    <3>6. x + p * g[k + 1] = (x + u) + w
      BY <2>4, <3>5
    <3> QED BY <2>3, <3>1, <3>4, <3>6 DEF u, w
  <2>9. x + p * g[k + 1] = f[n]
    BY <2>2, <2>5, <2>6, <2>8
  <2> QED BY <2>8, <2>9 DEF p, x, j
<1> HIDE DEF S
<1>7. Nat \subseteq S
  BY <1>5, <1>6, SetInduction
<1>8. g[n] \in Nat /\ f[0] + Byte^0 * g[n] = f[n]
  <2>1. n \in Nat /\ n - n = 0
    OBVIOUS
  <2> QED BY <1>7, <2>1 DEF S
<1>9. g[n] = f[n]
  BY <1>2, <1>8, BytePowers
<1> QED BY <1>2, <1>3, <1>4, <1>9 DEF bytes

\* Eight bytes are two words.
LEMMA NumberSplits ==
  ASSUME NEW c, NEW at \in Nat, Memory(c), at + 8 <= Len(c)
  PROVE  Wasm!Number(c, at, 8, Byte)
           = Wasm!Number(c, at, 4, Byte) + Modulus * Wasm!Number(c, at + 4, 4, Byte)
<1>12. PICK f : Sums(f, c, at, 8) /\ Wasm!Number(c, at, 8, Byte) = f[8]
  BY NumberUnfolds
<1>1. /\ f[0] = 0
      /\ \A k \in 1 .. 8 : f[k] = f[k - 1] + c[at + k] * Byte^(k - 1)
      /\ Wasm!Number(c, at, 8, Byte) = f[8]
  BY <1>12 DEF Sums
<1>22. PICK l : Sums(l, c, at, 4) /\ Wasm!Number(c, at, 4, Byte) = l[4]
  BY NumberUnfolds
<1>2. /\ l[0] = 0
      /\ \A k \in 1 .. 4 : l[k] = l[k - 1] + c[at + k] * Byte^(k - 1)
      /\ Wasm!Number(c, at, 4, Byte) = l[4]
  BY <1>22 DEF Sums
<1>32. PICK h : Sums(h, c, at + 4, 4) /\ Wasm!Number(c, at + 4, 4, Byte) = h[4]
  BY NumberUnfolds
<1>3. /\ h[0] = 0
      /\ \A k \in 1 .. 4 : h[k] = h[k - 1] + c[(at + 4) + k] * Byte^(k - 1)
      /\ Wasm!Number(c, at + 4, 4, Byte) = h[4]
  BY <1>32 DEF Sums
<1>4. Len(c) \in Nat
  BY DEF Memory
<1>5. \A k \in 0 .. 4 : h[k] \in Nat
  <2>1. at + 4 \in Nat /\ (at + 4) + 4 <= Len(c)
    BY <1>4
  <2> QED BY <1>3, <2>1, SumsBounded
<1>6. f[4] = l[4]
  <2>1. f[1] = l[1]
    BY <1>1, <1>2
  <2>2. f[2] = l[2]
    BY <1>1, <1>2, <2>1
  <2>3. f[3] = l[3]
    BY <1>1, <1>2, <2>2
  <2> QED BY <1>1, <1>2, <2>3
<1>7. l[4] \in Nat
  <2>1. at + 4 <= Len(c)
    BY <1>4
  <2> QED BY <1>2, <2>1, SumsBounded
<1> DEFINE S == {k \in Nat : k <= 4 => f[k + 4] = l[4] + Modulus * h[k]}
<1>8. 0 \in S
  <2>1. Modulus * h[0] = 0 /\ 0 + 4 = 4
    BY <1>3, WordValues
  <2> QED BY <1>6, <1>7, <2>1
<1>9. ASSUME NEW k \in Nat, k \in S
      PROVE  k + 1 \in S
  <2> SUFFICES ASSUME k + 1 <= 4
               PROVE  f[(k + 1) + 4] = l[4] + Modulus * h[k + 1]
    OBVIOUS
  <2> DEFINE d == c[(at + 4) + (k + 1)]
             p == Byte^k
             M == Modulus
             x == h[k]
             y == l[4]
  <2>1. k \in 0 .. 3 /\ k \in 0 .. 8 /\ k + 1 \in 1 .. 4 /\ (k + 1) - 1 = k
        /\ (k + 1) + 4 \in 1 .. 8 /\ ((k + 1) + 4) - 1 = k + 4
        /\ at + ((k + 1) + 4) = (at + 4) + (k + 1)
    OBVIOUS
  <2>2. p \in Nat \ {0} /\ M \in Nat \ {0} /\ Byte^(k + 4) = M * p
    BY <2>1, BytePowers, ByteDivides, WordValues
  <2>3. d \in Nat
    <3>1. (at + 4) + (k + 1) \in 1 .. Len(c)
      BY <1>4, <2>1
    <3>2. d \in 0 .. Byte - 1
      BY <3>1, ElementOfSeq DEF Memory
    <3> QED BY <3>2
  <2>4. x \in Nat /\ y \in Nat /\ f[k + 4] = y + M * x
    <3>1. k <= 4
      BY <2>1
    <3> QED BY <1>5, <1>7, <1>9, <2>1, <3>1
  <2>5. h[k + 1] = x + d * p
    BY <1>3, <2>1
  <2>6. f[(k + 1) + 4] = f[k + 4] + d * (M * p)
    <3>1. f[(k + 1) + 4] = f[((k + 1) + 4) - 1] + c[at + ((k + 1) + 4)] * Byte^(((k + 1) + 4) - 1)
      BY <1>1, <2>1
    <3> QED BY <2>1, <2>2, <3>1
  <2> HIDE DEF d, p, M, x, y, S
  <2>7. M * (x + d * p) = M * x + d * (M * p)
    BY <2>2, <2>3, <2>4
  <2> DEFINE u == M * x
             w == d * (M * p)
  <2>8. u \in Nat /\ w \in Nat
    BY <2>2, <2>3, <2>4
  <2> HIDE DEF u, w
  <2>9. f[(k + 1) + 4] = y + (u + w)
    BY <2>4, <2>6, <2>8 DEF u, w
  <2> QED BY <2>5, <2>7, <2>9 DEF u, w, M, y
<1> HIDE DEF S
<1>10. Nat \subseteq S
  BY <1>8, <1>9, SetInduction
<1>11. f[4 + 4] = l[4] + Modulus * h[4]
  BY <1>10 DEF S
<1> QED BY <1>1, <1>2, <1>3, <1>11

----------------------------------------------------------------------------
(* The loads of the code.                                                  *)

\* A stack with one more slot, as a concatenation.
LEMMA OnTop ==
  ASSUME NEW S, NEW s \in Seq(S), NEW e \in S, NEW t \in Seq(S), Len(t) = Len(s) + 1,
         \A k \in 1 .. Len(s) : t[k] = s[k], t[Len(s) + 1] = e
  PROVE  s \o <<e>> = t
<1> DEFINE u == <<e>>
<1>1. u \in Seq(S) /\ Len(u) = 1 /\ u[1] = e
  OBVIOUS
<1> HIDE DEF u
<1>2. /\ s \o u \in Seq(S) /\ Len(s \o u) = Len(s) + Len(u)
      /\ \A i \in 1 .. Len(s) + Len(u) :
           (s \o u)[i] = IF i <= Len(s) THEN s[i] ELSE u[i - Len(s)]
  BY <1>1, ConcatProperties
<1>3. ASSUME NEW i \in 1 .. Len(t)
      PROVE  (s \o u)[i] = t[i]
  <2>1. Len(s) \in Nat
    OBVIOUS
  <2>2. CASE i <= Len(s)
    BY <1>1, <1>2, <2>1, <2>2
  <2>3. CASE ~(i <= Len(s))
    <3>1. i = Len(s) + 1 /\ i - Len(s) = 1 /\ i \in 1 .. Len(s) + Len(u)
      BY <1>1, <2>1, <2>3
    <3>2. (s \o u)[i] = u[1]
      BY <1>2, <2>3, <3>1
    <3> QED BY <1>1, <3>1, <3>2
  <2> QED BY <2>2, <2>3
<1>4. Len(s \o u) = Len(t)
  BY <1>1, <1>2
<1>5. s \o u = t
  BY <1>2, <1>3, <1>4, SeqEqual
<1> QED BY <1>5 DEF u

\* The word an opcode pushes for the number it has read.
Word(op, x) ==
  IF op = "I32Load8S" THEN SignExtend(x, W \div 4)
  ELSE IF op = "I32Load16S" THEN SignExtend(x, W \div 2) ELSE x

WordLoads == {"I32Load", "I32Load8S", "I32Load8U", "I32Load16S", "I32Load16U", "F32Load"}

\* What an opcode reads at an address.
Read(c, at, n) == FromBytes(SubSeq(c, at + 1, at + n))

\* A load of a word or less: the address gives way to the word.
LEMMA LoadOp ==
  ASSUME NEW S, NEW st \in Seq(S), NEW t \in Seq(S), NEW c, NEW offset, NEW op \in WordLoads,
         Len(st) = Len(t) + 1, \A k \in 1 .. Len(t) : t[k] = st[k]
  PROVE  LET at == EffectiveAddress(st[Len(st)], offset)
             n  == Size(op)
         IN  VisitOpcode(Machine(st, c), Ops!Emit(op, offset))
               = IF Accessible(c, at, n) THEN Machine(t \o <<Word(op, Read(c, at, n))>>, c)
                                         ELSE Trapped(Machine(st, c))
<1> DEFINE m  == Machine(st, c)
           e  == Ops!Emit(op, offset)
           at == EffectiveAddress(st[Len(st)], offset)
           n  == Size(op)
<1>1. SubSeq(st, 1, Len(t)) = t /\ Len(st) - 1 = Len(t) /\ Len(st) + 1 - 1 = Len(st)
  BY Cut
<1>2. m.outcome = "ok" /\ m.stack = st /\ m.cells = c /\ e.op = op /\ e.imm = offset
  BY DEF Machine, Ops!Emit
<1>3. op \in LoadOps
  BY DEF LoadOps, WordLoads
<1>4. \A x : Pushed(op, x) = <<Word(op, x)>>
  BY DEF WordLoads, Pushed, Word
<1> HIDE DEF m, e
<1>5. VisitOpcode(m, e) = VisitLoad(m, op, offset)
  BY <1>2, <1>3, Visits
<1>6. Slot(m, 1) = st[Len(st)] /\ Below(m, 1) = t
  BY <1>1, <1>2 DEF Slot, Below
<1>7. VisitLoad(m, op, offset)
        = IF ~Accessible(c, at, n) THEN Trapped(m)
          ELSE Machine(t \o <<Word(op, Read(c, at, n))>>, c)
  BY <1>2, <1>4, <1>6 DEF VisitLoad, Read
<1> QED BY <1>5, <1>7 DEF m, e

\* A constant.
LEMMA ConstOp ==
  ASSUME NEW S, NEW st \in Seq(S), NEW x \in S, NEW t \in Seq(S), NEW c,
         Len(t) = Len(st) + 1, \A k \in 1 .. Len(st) : t[k] = st[k], t[Len(st) + 1] = x
  PROVE  VisitOpcode(Machine(st, c), Ops!Const(x)) = Machine(t, c)
<1> DEFINE m == Machine(st, c)
           e == Ops!Const(x)
<1>1. Append(st, x) = t
  BY Extended
<1>2. m.outcome = "ok" /\ m.stack = st /\ m.cells = c /\ e.op = "I32Const" /\ e.imm = x
  BY DEF Machine, Ops!Const, Ops!Emit
<1> HIDE DEF m, e
<1>3. VisitOpcode(m, e) = VisitConst(m, x)
  BY <1>2, Visits
<1>4. VisitConst(m, x) = Machine(t, c)
  BY <1>1, <1>2 DEF VisitConst
<1> QED BY <1>3, <1>4 DEF m, e

\* The arithmetic shift of the second slot by the first.
LEMMA ShrSOp ==
  ASSUME NEW S, NEW st \in Seq(S), NEW b \in Seq(S), NEW t \in Seq(S), NEW c,
         Len(st) = Len(b) + 2, \A k \in 1 .. Len(b) : b[k] = st[k],
         Binary("I32ShrS", st[Len(st) - 1], st[Len(st)]) \in S,
         Len(t) = Len(b) + 1, \A k \in 1 .. Len(b) : t[k] = b[k],
         t[Len(b) + 1] = Binary("I32ShrS", st[Len(st) - 1], st[Len(st)])
  PROVE  VisitOpcode(Machine(st, c), Ops!ShrS) = Machine(t, c)
<1> DEFINE m == Machine(st, c)
           e == Ops!ShrS
           x == Binary("I32ShrS", st[Len(st) - 1], st[Len(st)])
<1>1. SubSeq(st, 1, Len(b)) = b /\ Len(st) - 2 = Len(b) /\ Len(st) + 1 - 2 = Len(st) - 1
      /\ Len(st) + 1 - 1 = Len(st)
  BY Cut
<1>2. m.outcome = "ok" /\ m.stack = st /\ m.cells = c /\ e.op = "I32ShrS"
  BY DEF Machine, Ops!ShrS, Ops!Emit
<1>3. Append(b, x) = t
  <2> HIDE DEF x
  <2>1. x \in S /\ t[Len(b) + 1] = x
    BY DEF x
  <2> QED BY <2>1, Extended
<1> HIDE DEF m, e
<1>4. Slot(m, 2) = st[Len(st) - 1] /\ Slot(m, 1) = st[Len(st)] /\ Below(m, 2) = b
  BY <1>1, <1>2 DEF Slot, Below
<1>5. VisitShrS(m) = Machine(Append(b, x), c)
  BY <1>2, <1>4 DEF VisitShrS
<1>6. VisitOpcode(m, e) = Machine(t, c)
  BY <1>2, <1>3, <1>5, Visits
<1> QED BY <1>6 DEF m, e

----------------------------------------------------------------------------
(* Extensions by the sign.                                                 *)

\* Two words, and half a word.
LEMMA WordPowers ==
  /\ 2^(2 * W) = Modulus * Modulus
  /\ 2^(W - 1) \in Nat \ {0} /\ Modulus = 2 * 2^(W - 1) /\ Shift(W - 1) = W - 1
<1>1. W \in Nat \ {0} /\ W \in 0 .. W /\ 1 \in 0 .. W /\ W - 1 \in 0 .. W /\ W - 1 \in 0 .. 2 * W
      /\ 2 * W = W + W /\ 1 + (W - 1) = W
  BY WordWidth
<1>2. 2^(W + W) = 2^W * 2^W
  BY <1>1, Powers
<1>3. 2^(1 + (W - 1)) = 2^1 * 2^(W - 1)
  BY <1>1, Powers
<1>4. 2^1 = 2 /\ 2^(W - 1) \in Nat \ {0}
  BY <1>1, Powers
<1>5. (W - 1) % W = W - 1
  <2>1. W \in Nat \ {0} /\ 0 \in Int /\ W - 1 \in Nat /\ W - 1 < W /\ W - 1 \in Int
        /\ W - 1 = W * 0 + (W - 1)
    BY <1>1
  <2> DEFINE y == W - 1
  <2> HIDE DEF y
  <2>2. y \in Nat /\ y < W /\ y \in Int /\ y = W * 0 + y
    BY <2>1 DEF y
  <2>3. y % W = y
    BY <2>1, <2>2, Unique
  <2> QED BY <2>3 DEF y
<1> QED BY <1>1, <1>2, <1>3, <1>4, <1>5 DEF Modulus, Shift

\* The sign bit of k bits.
LEMMA SignBit ==
  ASSUME NEW k \in 1 .. W, NEW x \in Nat, x < 2^k
  PROVE  SignExtend(x, k) = Wrap(IF 2 * x >= 2^k THEN x - 2^k ELSE x)
<1> DEFINE p == 2^k
           h == 2^(k - 1)
           r == 2^(W - k)
           M == Modulus
<1>1. W \in Nat \ {0} /\ k \in 0 .. W /\ k - 1 \in 0 .. W /\ 1 \in 0 .. W /\ W - k \in 0 .. W
      /\ k \in 0 .. 2 * W /\ k - 1 \in 0 .. 2 * W /\ W - k \in 0 .. 2 * W
      /\ 1 + (k - 1) = k /\ k + (W - k) = W
  BY WordWidth
<1>2. p \in Nat \ {0} /\ h \in Nat \ {0} /\ r \in Nat \ {0} /\ M \in Nat \ {0}
  BY <1>1, Powers, WordValues
<1>3. p = 2 * h
  <2>1. 2^(1 + (k - 1)) = 2^1 * 2^(k - 1) /\ 2^1 = 2
    BY <1>1, Powers
  <2> QED BY <1>1, <2>1
<1>4. M = p * r
  <2>1. 2^(k + (W - k)) = 2^k * 2^(W - k)
    BY <1>1, Powers
  <2> QED BY <1>1, <2>1 DEF Modulus
<1>5. x < p
  OBVIOUS
<1> HIDE DEF p, h, r, M
<1>6. p <= M
  BY <1>2, <1>4
<1>7. x % p = x
  BY <1>2, <1>5, Small
<1>8. x % M = x
  <2>1. x < M
    BY <1>2, <1>5, <1>6
  <2> QED BY <1>2, <2>1, Small
<1>9. (x \div h) % 2 = IF 2 * x >= p THEN 1 ELSE 0
  <2>1. CASE 2 * x >= p
    <3>1. x - h \in Nat /\ x - h < h /\ x = h * 1 + (x - h)
      BY <1>2, <1>3, <1>5, <2>1
    <3> DEFINE y == x - h
    <3>2. y \in Nat /\ y < h /\ x = h * 1 + y /\ x \in Int /\ 1 \in Int
      BY <3>1
    <3> HIDE DEF y
    <3>3. x \div h = 1
      BY <1>2, <3>2, Unique
    <3> QED BY <2>1, <3>3
  <2>2. CASE ~(2 * x >= p)
    <3>1. x < h
      BY <1>2, <1>3, <2>2
    <3>2. x \div h = 0
      BY <1>2, <3>1, Small
    <3> QED BY <2>2, <3>2
  <2> QED BY <2>1, <2>2
<1>10. SignExtend(x, k) = IF Bit(x % p, k - 1) = 1 THEN Wrap((x % p) - p) ELSE x % p
  BY DEF SignExtend, p
<1>11. Bit(x, k - 1) = (x \div h) % 2
  BY DEF Bit, h
<1>12. Bit(x, k - 1) = 1 <=> 2 * x >= p
  <2> DEFINE y == Bit(x, k - 1)
  <2>1. y = IF 2 * x >= p THEN 1 ELSE 0
    BY <1>9, <1>11
  <2> HIDE DEF y
  <2>2. y = 1 <=> 2 * x >= p
    BY <2>1
  <2> QED BY <2>2 DEF y
<1>13. SignExtend(x, k) = IF 2 * x >= p THEN Wrap(x - p) ELSE x
  BY <1>7, <1>10, <1>12
<1>14. SignExtend(x, k) = Wrap(IF 2 * x >= p THEN x - p ELSE x)
  BY <1>8, <1>13 DEF Wrap, M
<1> QED BY <1>14 DEF p

\* A number of one word, extended to two by its sign: the words of it, and the word the shift
\* of the lower one by all but one of its bits is.
LEMMA Extends ==
  ASSUME NEW v \in Int, 0 - Modulus <= 2 * v, v < Modulus
  PROVE  LET full == v % 2^(2 * W)
             high == IF v < 0 THEN MaxWord ELSE 0
         IN  /\ full % Modulus = v % Modulus /\ full \div Modulus = high
             /\ v % Modulus \in Words
             /\ 2 * v < Modulus => Binary("I32ShrS", v % Modulus, W - 1) = high
<1> DEFINE M == Modulus
           n == M * M
           w == v % M
           high == IF v < 0 THEN M - 1 ELSE 0
           h == 2^(W - 1)
<1>1. M \in Nat \ {0} /\ 2^(2 * W) = n /\ h \in Nat \ {0} /\ M = 2 * h /\ Shift(W - 1) = W - 1
  BY WordPowers, WordValues
<1>2. 0 - M <= 2 * v /\ v < M
  OBVIOUS
<1> HIDE DEF M, h
<1>3. n \in Nat \ {0} /\ n >= M
  BY <1>1
<1>4. w = (IF v < 0 THEN v + M ELSE v) /\ w \in 0 .. M - 1
  <2>1. CASE v < 0
    <3> DEFINE y == v + M
    <3>1. /\ y \in Nat /\ y < M /\ v = M * (0 - 1) + y /\ 0 - 1 \in Int
          /\ M \in Nat \ {0} /\ v \in Int
      BY <1>1, <1>2, <2>1
    <3> HIDE DEF y
    <3>2. v % M = y
      BY ONLY <3>1, Unique
    <3>3. w = y
      BY <3>2
    <3> HIDE DEF w
    <3>4. w = v + M
      BY <3>3 DEF y
    <3>5. w \in 0 .. M - 1
      BY <1>1, <3>1, <3>3
    <3> QED BY <2>1, <3>4, <3>5
  <2>2. CASE ~(v < 0)
    <3>1. v \in Nat
      BY <2>2
    <3>2. v % M = v
      BY <1>1, <1>2, <3>1, Small
    <3> QED BY <1>1, <1>2, <2>2, <3>1, <3>2
  <2> QED BY <2>1, <2>2
<1> HIDE DEF w
<1>5. v % n = M * high + w
  <2>1. CASE v < 0
    <3> DEFINE y == v + n
    <3>1. y \in Nat /\ y < n /\ v = n * (0 - 1) + y /\ 0 - 1 \in Int
      BY <1>1, <1>2, <1>3, <2>1
    <3>2. y = M * (M - 1) + (v + M)
      BY <1>1, <1>3
    <3> HIDE DEF y, n
    <3>3. v % n = y
      BY <1>3, <3>1, Unique
    <3> QED BY <1>4, <2>1, <3>2, <3>3
  <2>2. CASE ~(v < 0)
    <3>1. v \in Nat /\ v < n
      BY <1>1, <1>2, <1>3, <2>2
    <3> HIDE DEF n
    <3>2. v % n = v
      BY <1>3, <3>1, Small
    <3>3. M * 0 + v = v
      BY <1>1
    <3> QED BY <1>4, <2>2, <3>2, <3>3
  <2> QED BY <2>1, <2>2
<1>6. (v % n) % M = w /\ (v % n) \div M = high
  <2> DEFINE f == v % n
  <2>1. high \in Int /\ w \in Nat /\ w < M
    BY <1>1, <1>4
  <2>2. f = M * high + w /\ f \in Int
    BY <1>1, <1>5, <2>1
  <2> HIDE DEF f, high
  <2>3. f % M = w /\ f \div M = high
    BY <1>1, <2>1, <2>2, Unique
  <2> QED BY <2>3 DEF f
<1>7. ASSUME 2 * v < M
      PROVE  Binary("I32ShrS", w, W - 1) = high
  <2>1. Binary("I32ShrS", w, W - 1) = Wrap(Signed(w) \div h)
    <3>1. Binary("I32ShrS", w, W - 1) = Wrap(Signed(w) \div 2^Shift(W - 1))
      BY DEF Binary, FallibleOps, Infallible
    <3> QED BY <1>1, <3>1 DEF h
  <2>2. Signed(w) = v
    <3>1. CASE v < 0
      BY <1>1, <1>2, <1>4, <3>1 DEF Signed, M
    <3>2. CASE ~(v < 0)
      BY <1>1, <1>4, <1>7, <3>2 DEF Signed, M
    <3> QED BY <3>1, <3>2
  <2>3. v \div h = IF v < 0 THEN 0 - 1 ELSE 0
    <3>1. CASE v < 0
      <4> DEFINE y == v + h
      <4>1. y \in Nat /\ y < h /\ v = h * (0 - 1) + y /\ 0 - 1 \in Int
        BY <1>1, <1>2, <3>1
      <4> HIDE DEF y
      <4>2. v \div h = 0 - 1
        BY <1>1, <4>1, Unique
      <4> QED BY <3>1, <4>2
    <3>2. CASE ~(v < 0)
      <4>1. v \in Nat /\ v < h
        BY <1>1, <1>7, <3>2
      <4>2. v \div h = 0
        BY <1>1, <4>1, Small
      <4> QED BY <3>2, <4>2
    <3> QED BY <3>1, <3>2
  <2>4. (0 - 1) % M = M - 1 /\ 0 % M = 0
    <3> DEFINE y == M - 1
    <3>1. y \in Nat /\ y < M /\ 0 - 1 = M * (0 - 1) + y /\ 0 - 1 \in Int /\ 0 < M
      BY <1>1
    <3> HIDE DEF y
    <3>2. (0 - 1) % M = y
      BY <1>1, <3>1, Unique
    <3>3. 0 % M = 0
      BY <1>1, <3>1, Small
    <3> QED BY <3>2, <3>3 DEF y
  <2> QED BY <2>1, <2>2, <2>3, <2>4 DEF Wrap, M
<1>8. w \in Words /\ MaxWord = M - 1
  BY <1>4 DEF Words, MaxWord, M
<1> HIDE DEF n
<1>9. /\ (v % n) % M = w /\ (v % n) \div M = high /\ w \in Words
      /\ 2 * v < M => Binary("I32ShrS", w, W - 1) = high
  BY <1>6, <1>7, <1>8
<1> QED BY <1>1, <1>8, <1>9 DEF w, M

\* The number that n bytes are, signed or not.
Value(signed, x, n) == IF signed /\ 2 * x >= Byte^n THEN x - Byte^n ELSE x

\* A value of a word or less fits in a word.
LEMMA ValueFits ==
  ASSUME NEW n \in {1, 2, 4}, NEW x \in Nat, x < Byte^n, NEW signed \in BOOLEAN
  PROVE  LET v == Value(signed, x, n)
         IN  /\ v \in Int /\ 0 - Modulus <= 2 * v /\ v < Modulus
             /\ signed => 2 * v < Modulus
             /\ ~signed => v = x
<1> DEFINE p == Byte^n
           M == Modulus
           v == Value(signed, x, n)
<1>1. p \in Nat \ {0} /\ M \in Nat \ {0}
  BY BytePowers, WordValues
<1>2. p <= M
  <2>1. \A k \in 0 .. 3 : Byte^k * Byte <= M
    <3> TAKE k \in 0 .. 3
    <3> DEFINE y == Byte^k * Byte
    <3>1. PICK r \in Nat \ {0} : M = y * r
      BY ByteDivides
    <3>2. y \in Nat
      <4>1. Byte^k \in Nat /\ Byte \in Nat
        <5>1. k \in 0 .. 8
          OBVIOUS
        <5> QED BY <5>1, BytePowers
      <4> QED BY <4>1
    <3> HIDE DEF y, M
    <3>3. y <= M
      BY <3>1, <3>2
    <3> QED BY <3>3 DEF y
  <2>2. Byte^0 * Byte = Byte^1 /\ Byte^1 * Byte = Byte^2 /\ Byte^3 * Byte = Byte^4
    <3>1. 0 \in 0 .. 7 /\ 1 \in 0 .. 7 /\ 3 \in 0 .. 7 /\ 0 + 1 = 1 /\ 1 + 1 = 2 /\ 3 + 1 = 4
      OBVIOUS
    <3>2. Byte^(0 + 1) = Byte^0 * Byte /\ Byte^(1 + 1) = Byte^1 * Byte
          /\ Byte^(3 + 1) = Byte^3 * Byte
      BY <3>1, Powers
    <3> QED BY <3>1, <3>2
  <2>3. Byte^0 * Byte <= M /\ Byte^1 * Byte <= M /\ Byte^3 * Byte <= M
    <3>1. 0 \in 0 .. 3 /\ 1 \in 0 .. 3 /\ 3 \in 0 .. 3
      OBVIOUS
    <3> QED BY <2>1, <3>1
  <2>4. n = 1 \/ n = 2 \/ n = 4
    OBVIOUS
  <2> HIDE DEF M
  <2>5. Byte^1 <= M /\ Byte^2 <= M /\ Byte^4 <= M
    BY <2>2, <2>3
  <2> QED BY <2>4, <2>5
<1>3. v = IF signed /\ 2 * x >= p THEN x - p ELSE x
  BY DEF Value
<1>4. x < p
  OBVIOUS
<1> HIDE DEF p, M, v
<1>5. /\ v \in Int /\ 0 - M <= 2 * v /\ v < M
      /\ signed => 2 * v < M
      /\ ~signed => v = x
  <2>1. CASE signed /\ 2 * x >= p
    <3>1. v = x - p
      BY <1>3, <2>1
    <3> QED BY <1>1, <1>2, <1>4, <2>1, <3>1
  <2>2. CASE ~(signed /\ 2 * x >= p)
    <3>1. v = x
      BY <1>3, <2>2
    <3>2. signed => 2 * x < p
      BY <1>1, <2>2
    <3> QED BY <1>1, <1>2, <1>4, <3>1, <3>2
  <2> QED BY <2>1, <2>2
<1> QED BY <1>5 DEF M, v

\* The opcodes that extend what they read by its sign.
SignedOpcodes == {"I32Load8S", "I32Load16S"}

\* The word an opcode pushes is the value of what it has read, wrapped.
LEMMA WordIsValue ==
  ASSUME NEW op \in WordLoads, NEW x \in Nat, x < Byte^Size(op)
  PROVE  /\ Size(op) \in {1, 2, 4}
         /\ Word(op, x) = Value(op \in SignedOpcodes, x, Size(op)) % Modulus
         /\ Word(op, x) \in Words
<1> DEFINE n == Size(op)
           v == Value(op \in SignedOpcodes, x, n)
           q == W \div 4
<1>1. n \in {1, 2, 4} /\ (op = "I32Load8S" => n = 1) /\ (op = "I32Load16S" => n = 2)
  BY DEF WordLoads, Size
<1>2. W \in Nat \ {0} /\ W = 4 * q /\ q \in Nat /\ W \div 2 = 2 * q
  BY WordWidth, FourBytes
<1>3. v \in Int /\ 0 - Modulus <= 2 * v /\ v < Modulus /\ (op \notin SignedOpcodes => v = x)
  <2> DEFINE signed == op \in SignedOpcodes
  <2>1. signed \in BOOLEAN /\ x < Byte^n
    OBVIOUS
  <2> HIDE DEF n, signed
  <2>2. LET y == Value(signed, x, n)
        IN  y \in Int /\ 0 - Modulus <= 2 * y /\ y < Modulus /\ (~signed => y = x)
    BY <1>1, <2>1, ValueFits
  <2> QED BY <2>2 DEF n, signed
<1>4. v % Modulus \in Words
  <2> HIDE DEF v
  <2> QED BY <1>3, Extends
<1>5. CASE op = "I32Load8S"
  <2> DEFINE k == W \div 4
  <2>1. k \in 1 .. W
    BY <1>2
  <2>2. 2^k = Byte^n
    BY <1>1, <1>5, BytePowers DEF Byte
  <2>3. v = IF 2 * x >= Byte^n THEN x - Byte^n ELSE x
    BY <1>5 DEF Value, SignedOpcodes
  <2>4. Word(op, x) = SignExtend(x, k)
    BY <1>5 DEF Word
  <2> HIDE DEF k, n, v
  <2>5. SignExtend(x, k) = Wrap(IF 2 * x >= 2^k THEN x - 2^k ELSE x)
    <3>1. x < 2^k
      BY <2>2 DEF n
    <3> QED BY <2>1, <3>1, SignBit
  <2>6. Word(op, x) = v % Modulus
    BY <2>2, <2>3, <2>4, <2>5 DEF Wrap
  <2> QED BY <1>1, <1>4, <2>6 DEF n, v
<1>6. CASE op = "I32Load16S"
  <2> DEFINE k == W \div 2
  <2>1. k \in 1 .. W /\ k = q + q /\ q \in 0 .. W
    BY <1>2
  <2>2. 2^k = Byte^n
    <3>1. 2^(q + q) = 2^q * 2^q
      BY <2>1, Powers
    <3>2. Byte^2 = Byte * Byte
      BY BytePowers
    <3> QED BY <1>1, <1>6, <2>1, <3>1, <3>2 DEF Byte
  <2>3. v = IF 2 * x >= Byte^n THEN x - Byte^n ELSE x
    BY <1>6 DEF Value, SignedOpcodes
  <2>4. Word(op, x) = SignExtend(x, k)
    BY <1>6 DEF Word
  <2> HIDE DEF k, n, v
  <2>5. SignExtend(x, k) = Wrap(IF 2 * x >= 2^k THEN x - 2^k ELSE x)
    <3>1. x < 2^k
      BY <2>2 DEF n
    <3> QED BY <2>1, <3>1, SignBit
  <2>6. Word(op, x) = v % Modulus
    BY <2>2, <2>3, <2>4, <2>5 DEF Wrap
  <2> QED BY <1>1, <1>4, <2>6 DEF n, v
<1>7. CASE op \notin SignedOpcodes
  <2>1. Word(op, x) = x
    BY <1>7 DEF Word, SignedOpcodes
  <2>2. x % Modulus = x
    BY <1>3, <1>7, WordValues, Small
  <2>3. v = x
    BY <1>3, <1>7
  <2> HIDE DEF v
  <2>4. Word(op, x) = v % Modulus
    BY <2>1, <2>2, <2>3
  <2> QED BY <1>1, <1>4, <2>4 DEF v
<1> QED BY <1>5, <1>6, <1>7 DEF SignedOpcodes

\* What Wasm's load leaves.
LEMMA WasmLoads ==
  ASSUME NEW c, NEW op, NEW at, NEW wide \in BOOLEAN
  PROVE  LET n    == Wasm!BytesOf(op)
             v    == Value(op \in Wasm!SignedLoads, Wasm!Number(c, at, n, Byte), n)
             full == v % 2^(2 * W)
         IN  Wasm!LoadFrom(c, op, at, W, wide)
               = IF wide THEN <<full % Modulus, full \div Modulus>> ELSE <<full % Modulus>>
BY DEF Wasm!LoadFrom, Value, Byte, Modulus

----------------------------------------------------------------------------
(* The runs of loads.                                                      *)

\* What a run leaves that finds its bytes, or does not.
Loads(run, c, found, stack) ==
  IF found THEN run = Machine(stack, c) ELSE run.outcome = "trap" /\ run.cells = c

\* The first opcode of most loads.
LEMMA FirstLoad ==
  ASSUME NEW c, NEW a \in Words, NEW offset, NEW op \in WordLoads
  PROVE  LET at  == EffectiveAddress(a, offset)
             n   == Size(op)
             w   == Word(op, Read(c, at, n))
             run == VisitOpcode(Machine(<<a>>, c), Ops!Emit(op, offset))
         IN  /\ Accessible(c, at, n) /\ w \in Int => run = Machine(<<w>>, c)
             /\ ~Accessible(c, at, n) =>
                  \E stack : run = Trapped(Machine(stack, c))
<1> DEFINE st  == <<a>>
           t   == <<>>
           at  == EffectiveAddress(a, offset)
           n   == Size(op)
           w   == Word(op, Read(c, at, n))
           run == VisitOpcode(Machine(st, c), Ops!Emit(op, offset))
<1>1. /\ st \in Seq(Int) /\ t \in Seq(Int) /\ Len(st) = Len(t) + 1 /\ Len(t) = 0
      /\ \A k \in 1 .. Len(t) : t[k] = st[k]
      /\ st[Len(st)] = a
  BY DEF Words
<1> HIDE DEF st, t
<1>2. run = IF Accessible(c, EffectiveAddress(st[Len(st)], offset), Size(op))
              THEN Machine(t \o <<Word(op, Read(c, EffectiveAddress(st[Len(st)], offset),
                                                Size(op)))>>, c)
              ELSE Trapped(Machine(st, c))
  BY <1>1, LoadOp, ZenonT(60)
<1> HIDE DEF at, n, w, run
<1>3. run = IF Accessible(c, at, n) THEN Machine(t \o <<w>>, c) ELSE Trapped(Machine(st, c))
  BY <1>1, <1>2 DEF at, n, w
<1>4. ASSUME w \in Int
      PROVE  t \o <<w>> = <<w>>
  <2> DEFINE u == <<w>>
  <2>1. u \in Seq(Int) /\ Len(u) = Len(t) + 1 /\ (\A k \in 1 .. Len(t) : u[k] = t[k])
        /\ u[Len(t) + 1] = w
    BY <1>1, <1>4
  <2> HIDE DEF u
  <2>2. t \o <<w>> = u
    BY <1>1, <1>4, <2>1, OnTop
  <2> QED BY <2>2 DEF u
<1>5. Accessible(c, at, n) /\ w \in Int => run = Machine(<<w>>, c)
  BY <1>3, <1>4
<1>6. ~Accessible(c, at, n) => \E stack : run = Trapped(Machine(stack, c))
  BY <1>3
<1> QED BY <1>5, <1>6 DEF st, at, n, w, run

\* The loads of one opcode.
LEMMA PlainLoads ==
  ASSUME NEW c, NEW a \in Words, NEW offset, NEW op \in WordLoads,
         LET at == EffectiveAddress(a, offset)
         IN  Accessible(c, at, Size(op)) => Word(op, Read(c, at, Size(op))) \in Int
  PROVE  LET at == EffectiveAddress(a, offset)
         IN  Loads(RunAccess(c, op, offset, <<a>>), c, Accessible(c, at, Size(op)),
                   <<Word(op, Read(c, at, Size(op)))>>)
<1> DEFINE e   == Ops!Emit(op, offset)
           at  == EffectiveAddress(a, offset)
           n   == Size(op)
           w   == Word(op, Read(c, at, n))
           run == VisitOpcode(Machine(<<a>>, c), e)
<1>1. RunAccess(c, op, offset, <<a>>) = run
  <2>1. Ops!MemoryCode(op, offset) = <<e>>
    BY DEF Ops!MemoryCode, WordLoads
  <2>2. Len(<<e>>) = 1 /\ <<e>>[1] = e
    OBVIOUS
  <2> HIDE DEF e
  <2> QED BY <2>1, <2>2, ShortRuns
<1>2. /\ Accessible(c, at, n) /\ w \in Int => run = Machine(<<w>>, c)
      /\ ~Accessible(c, at, n) => \E stack : run = Trapped(Machine(stack, c))
  BY FirstLoad
<1>3. Accessible(c, at, n) => w \in Int
  OBVIOUS
<1> HIDE DEF e, at, n, w, run
<1>4. Loads(run, c, Accessible(c, at, n), <<w>>)
  BY <1>2, <1>3, TrapStays DEF Loads
<1> QED BY <1>1, <1>4 DEF at, n, w

\* The loads that extend a word by zeros: two opcodes.
LEMMA ZeroLoads ==
  ASSUME NEW c, NEW a \in Words, NEW offset,
         NEW op \in {"I64Load8U", "I64Load16U", "I64Load32U"}, NEW o,
         o = IF op = "I64Load8U" THEN "I32Load8U"
             ELSE IF op = "I64Load16U" THEN "I32Load16U" ELSE "I32Load",
         LET at == EffectiveAddress(a, offset)
         IN  Accessible(c, at, Size(o)) => Word(o, Read(c, at, Size(o))) \in Int
  PROVE  LET at == EffectiveAddress(a, offset)
         IN  Loads(RunAccess(c, op, offset, <<a>>), c, Accessible(c, at, Size(o)),
                   <<Word(o, Read(c, at, Size(o))), 0>>)
<1> DEFINE e   == Ops!Emit(o, offset)
           d   == Ops!Const(0)
           at  == EffectiveAddress(a, offset)
           n   == Size(o)
           w   == Word(o, Read(c, at, n))
           one == VisitOpcode(Machine(<<a>>, c), e)
           run == RunAccess(c, op, offset, <<a>>)
<1>1. o \in WordLoads
  BY DEF WordLoads
<1>2. run = VisitOpcode(one, d)
  <2>1. Ops!MemoryCode(op, offset) = <<e, d>>
    BY DEF Ops!MemoryCode, Ops!UnsignedLoad
  <2>2. Len(<<e, d>>) = 2 /\ <<e, d>>[1] = e /\ <<e, d>>[2] = d
    OBVIOUS
  <2> HIDE DEF e, d
  <2> QED BY <2>1, <2>2, ShortRuns
<1>3. /\ Accessible(c, at, n) /\ w \in Int => one = Machine(<<w>>, c)
      /\ ~Accessible(c, at, n) => \E stack : one = Trapped(Machine(stack, c))
  BY <1>1, FirstLoad
<1>4. Accessible(c, at, n) => w \in Int
  OBVIOUS
<1> HIDE DEF e, at, n, w, one, run
<1>5. ASSUME w \in Int
      PROVE  VisitOpcode(Machine(<<w>>, c), d) = Machine(<<w, 0>>, c)
  <2> DEFINE st == <<w>>
             t  == <<w, 0>>
  <2>1. /\ st \in Seq(Int) /\ t \in Seq(Int) /\ Len(t) = Len(st) + 1
        /\ (\A k \in 1 .. Len(st) : t[k] = st[k]) /\ t[Len(st) + 1] = 0
    BY <1>5
  <2> HIDE DEF st, t
  <2>2. VisitOpcode(Machine(st, c), Ops!Const(0)) = Machine(t, c)
    BY <2>1, ConstOp, SMTT(20)
  <2> QED BY <2>2 DEF st, t
<1> HIDE DEF d
<1>6. Loads(run, c, Accessible(c, at, n), <<w, 0>>)
  BY <1>2, <1>3, <1>4, <1>5, TrapStays DEF Loads
<1> QED BY <1>6 DEF at, n, w, run

\* The loads that extend a word by its sign: four opcodes.
LEMMA SignLoads ==
  ASSUME NEW c, NEW a \in Words, NEW offset,
         NEW op \in {"I64Load8S", "I64Load16S", "I64Load32S"}, NEW o,
         o = IF op = "I64Load8S" THEN "I32Load8S"
             ELSE IF op = "I64Load16S" THEN "I32Load16S" ELSE "I32Load",
         LET at == EffectiveAddress(a, offset)
             w  == Word(o, Read(c, at, Size(o)))
         IN  Accessible(c, at, Size(o)) =>
               w \in Int /\ Binary("I32ShrS", w, W - 1) \in Int
  PROVE  LET at == EffectiveAddress(a, offset)
             w  == Word(o, Read(c, at, Size(o)))
         IN  Loads(RunAccess(c, op, offset, <<a>>), c, Accessible(c, at, Size(o)),
                   <<w, Binary("I32ShrS", w, W - 1)>>)
<1> DEFINE e   == Ops!Emit(o, offset)
           g   == Ops!Get(1)
           d   == Ops!Const(W - 1)
           f   == Ops!ShrS
           at  == EffectiveAddress(a, offset)
           n   == Size(o)
           w   == Word(o, Read(c, at, n))
           h   == Binary("I32ShrS", w, W - 1)
           one == VisitOpcode(Machine(<<a>>, c), e)
           run == RunAccess(c, op, offset, <<a>>)
<1>1. o \in WordLoads
  BY DEF WordLoads
<1>2. run = VisitOpcode(VisitOpcode(VisitOpcode(one, g), d), f)
  <2> DEFINE code == <<e, g, d, f>>
  <2>1. Ops!MemoryCode(op, offset) = code
    BY DEF Ops!MemoryCode, Ops!SignedLoad
  <2>2. Len(code) = 4 /\ code[1] = e /\ code[2] = g /\ code[3] = d /\ code[4] = f
    OBVIOUS
  <2> HIDE DEF e, g, d, f, code
  <2> QED BY <2>1, <2>2, ShortRuns
<1>3. /\ Accessible(c, at, n) /\ w \in Int => one = Machine(<<w>>, c)
      /\ ~Accessible(c, at, n) => \E stack : one = Trapped(Machine(stack, c))
  BY <1>1, FirstLoad
<1>4. Accessible(c, at, n) => w \in Int /\ h \in Int
  OBVIOUS
<1> HIDE DEF e, at, n, w, one, run
<1>5. ASSUME w \in Int, h \in Int
      PROVE  VisitOpcode(VisitOpcode(VisitOpcode(Machine(<<w>>, c), g), d), f)
               = Machine(<<w, h>>, c)
  <2> DEFINE s1 == <<w>>
             s2 == <<w, w>>
             s3 == <<w, w, W - 1>>
             t  == <<w, h>>
  <2>1. s1 \in Seq(Int) /\ s2 \in Seq(Int) /\ s3 \in Seq(Int)
    BY <1>5, WordWidth
  <2>2. VisitOpcode(Machine(s1, c), g) = Machine(s2, c)
    <3>1. /\ 1 \in 1 .. Len(s1) /\ Len(s2) = Len(s1) + 1
          /\ (\A k \in 1 .. Len(s1) : s2[k] = s1[k]) /\ s2[Len(s1) + 1] = s1[Len(s1) + 1 - 1]
      BY <1>5
    <3> HIDE DEF s1, s2
    <3>2. VisitOpcode(Machine(s1, c), Ops!Get(1)) = Machine(s2, c)
      BY <2>1, <3>1, GetOp, SMTT(20)
    <3> QED BY <3>2
  <2>3. VisitOpcode(Machine(s2, c), d) = Machine(s3, c)
    <3>1. /\ W - 1 \in Int /\ Len(s3) = Len(s2) + 1
          /\ (\A k \in 1 .. Len(s2) : s3[k] = s2[k]) /\ s3[Len(s2) + 1] = W - 1
      BY <1>5, WordWidth
    <3> HIDE DEF s2, s3
    <3>2. VisitOpcode(Machine(s2, c), Ops!Const(W - 1)) = Machine(s3, c)
      BY <2>1, <3>1, ConstOp, SMTT(20)
    <3> QED BY <3>2
  <2>4. VisitOpcode(Machine(s3, c), f) = Machine(t, c)
    <3>1. /\ Len(s3) = Len(s1) + 2 /\ (\A k \in 1 .. Len(s1) : s1[k] = s3[k])
          /\ s3[Len(s3) - 1] = w /\ s3[Len(s3)] = W - 1
      BY <1>5
    <3> HIDE DEF h
    <3>2. /\ t \in Seq(Int) /\ Len(t) = Len(s1) + 1 /\ (\A k \in 1 .. Len(s1) : t[k] = s1[k])
          /\ t[Len(s1) + 1] = h
      BY <1>5
    <3> HIDE DEF s1, s3, t
    <3>3. /\ Binary("I32ShrS", s3[Len(s3) - 1], s3[Len(s3)]) \in Int
          /\ t[Len(s1) + 1] = Binary("I32ShrS", s3[Len(s3) - 1], s3[Len(s3)])
      BY <1>5, <3>1, <3>2 DEF h
    <3>4. VisitOpcode(Machine(s3, c), Ops!ShrS) = Machine(t, c)
      BY <2>1, <3>1, <3>2, <3>3, ShrSOp, SMTT(20)
    <3> QED BY <3>4
  <2> HIDE DEF h, g, d, f
  <2> QED BY <2>2, <2>3, <2>4
<1> HIDE DEF d, f, g, h
<1>6. Loads(run, c, Accessible(c, at, n), <<w, h>>)
  BY <1>2, <1>3, <1>4, <1>5, TrapStays DEF Loads
<1> QED BY <1>6 DEF at, n, w, run, h

\* An f64 is loaded by one opcode, and split into its words.
LEMMA FloatLoad ==
  ASSUME NEW c, NEW a \in Words, NEW offset,
         LET at == EffectiveAddress(a, offset)
         IN  Accessible(c, at, 8) => Read(c, at, 8) \in Nat
  PROVE  LET at == EffectiveAddress(a, offset)
             x  == Read(c, at, 8)
         IN  Loads(RunAccess(c, "F64Load", offset, <<a>>), c, Accessible(c, at, 8),
                   <<x % Modulus, x \div Modulus>>)
<1> DEFINE st  == <<a>>
           t   == <<>>
           e   == Ops!Emit("F64Load", offset)
           m   == Machine(st, c)
           at  == EffectiveAddress(a, offset)
           x   == Read(c, at, 8)
           p   == <<x % Modulus, x \div Modulus>>
           run == RunAccess(c, "F64Load", offset, st)
<1>1. run = VisitOpcode(m, e)
  <2>1. Ops!MemoryCode("F64Load", offset) = <<e>>
    BY DEF Ops!MemoryCode
  <2>2. Len(<<e>>) = 1 /\ <<e>>[1] = e
    OBVIOUS
  <2> HIDE DEF e, st
  <2> QED BY <2>1, <2>2, ShortRuns
<1>2. m.outcome = "ok" /\ m.stack = st /\ m.cells = c /\ e.op = "F64Load" /\ e.imm = offset
  BY DEF Machine, Ops!Emit
<1>3. st \in Seq(Int) /\ Len(st) = 1 /\ st[1] = a /\ t \in Seq(Int) /\ Len(t) = 0
  BY DEF Words
<1>4. SubSeq(st, 1, 0) = t
  <2> HIDE DEF st, t
  <2> QED BY <1>3, Cut
<1>5. Accessible(c, at, 8) => x \in Nat
  OBVIOUS
<1>6. ASSUME x \in Nat
      PROVE  t \o p = p
  <2>1. x % Modulus \in Int /\ x \div Modulus \in Int
    <3> DEFINE M == Modulus
    <3>1. M \in Nat \ {0}
      BY WordValues
    <3> HIDE DEF M, x
    <3>2. x % M \in Int /\ x \div M \in Int
      BY <1>6, <3>1
    <3> QED BY <3>2 DEF M
  <2>2. p \in Seq(Int)
    <3> DEFINE y == x % Modulus
               z == x \div Modulus
    <3> HIDE DEF y, z
    <3>1. y \in Int /\ z \in Int
      BY <2>1 DEF y, z
    <3>2. <<y, z>> \in Seq(Int)
      BY <3>1
    <3> QED BY <3>2 DEF y, z
  <2> HIDE DEF p, t
  <2>3. /\ t \o p \in Seq(Int) /\ Len(t \o p) = Len(t) + Len(p)
        /\ \A i \in 1 .. Len(t) + Len(p) :
             (t \o p)[i] = IF i <= Len(t) THEN t[i] ELSE p[i - Len(t)]
    BY <1>3, <2>2, ConcatProperties
  <2>4. Len(p) \in Nat
    BY <2>2
  <2>5. Len(t \o p) = Len(p) /\ \A i \in 1 .. Len(p) : (t \o p)[i] = p[i]
    BY <1>3, <2>3, <2>4
  <2> QED BY <2>2, <2>3, <2>5, SeqEqual
<1>7. Size("F64Load") = 8 /\ Pushed("F64Load", x) = p
  BY DEF Size, Pushed
<1> HIDE DEF m, e, st, t, at, x, p
<1>8. VisitOpcode(m, e) = VisitLoad(m, "F64Load", offset)
  BY <1>2, Visits DEF LoadOps
<1>9. Slot(m, 1) = a /\ Below(m, 1) = t
  BY <1>2, <1>3, <1>4 DEF Slot, Below
<1>10. VisitLoad(m, "F64Load", offset)
         = IF ~Accessible(c, at, 8) THEN Trapped(m) ELSE Machine(t \o p, c)
  BY <1>2, <1>7, <1>9 DEF VisitLoad, Read, at, x
<1>11. Trapped(m).outcome = "trap" /\ Trapped(m).cells = c
  BY TrapStays DEF m
<1> HIDE DEF run
<1>12. Loads(run, c, Accessible(c, at, 8), p)
  BY <1>1, <1>5, <1>6, <1>8, <1>10, <1>11 DEF Loads
<1> QED BY <1>12 DEF run, st, at, x, p

\* An i64 is loaded in two halves, the high one first; the low one then takes the place of
\* the address.
LEMMA LongLoad ==
  ASSUME NEW c, NEW a \in Words, NEW offset,
         LET hi == EffectiveAddress(a, Ops!SaturatingAdd(offset, 4))
             lo == EffectiveAddress(a, offset)
         IN  /\ Accessible(c, hi, 4) => Read(c, hi, 4) \in Int /\ Accessible(c, lo, 4)
             /\ Accessible(c, lo, 4) => Read(c, lo, 4) \in Int
  PROVE  LET hi == EffectiveAddress(a, Ops!SaturatingAdd(offset, 4))
             lo == EffectiveAddress(a, offset)
         IN  Loads(RunAccess(c, "I64Load", offset, <<a>>), c, Accessible(c, hi, 4),
                   <<Read(c, lo, 4), Read(c, hi, 4)>>)
<1> DEFINE top  == Ops!SaturatingAdd(offset, 4)
           hi   == EffectiveAddress(a, top)
           lo   == EffectiveAddress(a, offset)
           h    == Read(c, hi, 4)
           l    == Read(c, lo, 4)
           get1 == Ops!Get(1)
           high == Ops!Emit("I32Load", top)
           get2 == Ops!Get(2)
           low  == Ops!Emit("I32Load", offset)
           set2 == Ops!Set(2)
           s1   == <<a>>
           s2   == <<a, a>>
           s3   == <<a, h>>
           s4   == <<a, h, a>>
           s5   == <<a, h, l>>
           t    == <<l, h>>
           run  == RunAccess(c, "I64Load", offset, s1)
<1>1. s1 \in Seq(Int) /\ s2 \in Seq(Int) /\ a \in Int
  BY DEF Words
<1>2. run = VisitOpcode(VisitOpcode(VisitOpcode(VisitOpcode(VisitOpcode(
              Machine(s1, c), get1), high), get2), low), set2)
  <2> DEFINE code == <<get1, high, get2, low, set2>>
  <2>1. Ops!MemoryCode("I64Load", offset) = code
    BY DEF Ops!MemoryCode, Ops!op_i64_load
  <2>2. /\ Len(code) = 5 /\ code[1] = get1 /\ code[2] = high /\ code[3] = get2
        /\ code[4] = low /\ code[5] = set2
    OBVIOUS
  <2> HIDE DEF code, s1, get1, high, get2, low, set2
  <2> QED BY <2>1, <2>2, ShortRuns
<1>3. VisitOpcode(Machine(s1, c), get1) = Machine(s2, c)
  <2>1. /\ 1 \in 1 .. Len(s1) /\ Len(s2) = Len(s1) + 1
        /\ (\A k \in 1 .. Len(s1) : s2[k] = s1[k]) /\ s2[Len(s1) + 1] = s1[Len(s1) + 1 - 1]
    BY <1>1
  <2> HIDE DEF s1, s2
  <2>2. VisitOpcode(Machine(s1, c), Ops!Get(1)) = Machine(s2, c)
    BY <1>1, <2>1, GetOp, SMTT(20)
  <2> QED BY <2>2
<1>4. Size("I32Load") = 4 /\ "I32Load" \in WordLoads /\ \A x : Word("I32Load", x) = x
  BY DEF Size, WordLoads, Word
<1>5. VisitOpcode(Machine(s2, c), high)
        = IF Accessible(c, hi, 4) THEN Machine(s1 \o <<h>>, c) ELSE Trapped(Machine(s2, c))
  <2>1. /\ Len(s2) = Len(s1) + 1 /\ (\A k \in 1 .. Len(s1) : s1[k] = s2[k]) /\ s2[Len(s2)] = a
    BY <1>1
  <2> HIDE DEF s1, s2, h, hi, top
  <2>2. VisitOpcode(Machine(s2, c), Ops!Emit("I32Load", top))
          = IF Accessible(c, EffectiveAddress(s2[Len(s2)], top), Size("I32Load"))
              THEN Machine(s1 \o <<Word("I32Load", Read(c, EffectiveAddress(s2[Len(s2)], top),
                                                        Size("I32Load")))>>, c)
              ELSE Trapped(Machine(s2, c))
    BY <1>1, <1>4, <2>1, LoadOp, ZenonT(60)
  <2> QED BY <1>4, <2>1, <2>2 DEF h, hi
<1>6. Accessible(c, hi, 4) => h \in Int /\ l \in Int
  OBVIOUS
<1>7. Accessible(c, hi, 4) => Accessible(c, lo, 4)
  OBVIOUS
<1> HIDE DEF h, l, hi, lo, top
<1>8. CASE Accessible(c, hi, 4)
  <2>1. /\ h \in Int /\ l \in Int /\ s3 \in Seq(Int) /\ s4 \in Seq(Int) /\ s5 \in Seq(Int)
        /\ t \in Seq(Int)
    BY <1>1, <1>6, <1>8
  <2>2. s1 \o <<h>> = s3
    <3>1. Len(s3) = Len(s1) + 1 /\ (\A k \in 1 .. Len(s1) : s3[k] = s1[k]) /\ s3[Len(s1) + 1] = h
      BY <1>1, <2>1
    <3> HIDE DEF s1, s3
    <3> QED BY <1>1, <2>1, <3>1, OnTop
  <2>3. VisitOpcode(Machine(s3, c), get2) = Machine(s4, c)
    <3>1. /\ 2 \in 1 .. Len(s3) /\ Len(s4) = Len(s3) + 1
          /\ (\A k \in 1 .. Len(s3) : s4[k] = s3[k]) /\ s4[Len(s3) + 1] = s3[Len(s3) + 1 - 2]
      BY <2>1
    <3> HIDE DEF s3, s4
    <3>2. VisitOpcode(Machine(s3, c), Ops!Get(2)) = Machine(s4, c)
      BY <2>1, <3>1, GetOp, SMTT(40)
    <3> QED BY <3>2
  <2>4. VisitOpcode(Machine(s4, c), low) = Machine(s3 \o <<l>>, c)
    <3>1. /\ Len(s4) = Len(s3) + 1 /\ (\A k \in 1 .. Len(s3) : s3[k] = s4[k]) /\ s4[Len(s4)] = a
      BY <2>1
    <3> HIDE DEF s3, s4
    <3>2. VisitOpcode(Machine(s4, c), Ops!Emit("I32Load", offset))
            = IF Accessible(c, EffectiveAddress(s4[Len(s4)], offset), Size("I32Load"))
                THEN Machine(s3 \o <<Word("I32Load",
                                          Read(c, EffectiveAddress(s4[Len(s4)], offset),
                                               Size("I32Load")))>>, c)
                ELSE Trapped(Machine(s4, c))
      BY <1>4, <2>1, <3>1, LoadOp, ZenonT(60)
    <3> QED BY <1>4, <1>7, <1>8, <3>1, <3>2 DEF l, lo
  <2>5. s3 \o <<l>> = s5
    <3>1. Len(s5) = Len(s3) + 1 /\ (\A k \in 1 .. Len(s3) : s5[k] = s3[k]) /\ s5[Len(s3) + 1] = l
      BY <2>1
    <3> HIDE DEF s3, s5
    <3> QED BY <2>1, <3>1, OnTop
  <2>6. VisitOpcode(Machine(s5, c), set2) = Machine(t, c)
    <3> DEFINE m == Machine(s5, c)
               e == Ops!Set(2)
    <3>1. m.outcome = "ok" /\ m.stack = s5 /\ m.cells = c /\ e.op = "LocalSet" /\ e.imm = 2
      BY DEF Machine, Ops!Set, Ops!Emit
    <3>2. SubSeq(s5, 1, 2) = s3
      <4>1. Len(s3) = 2 /\ Len(s3) <= Len(s5) /\ \A k \in 1 .. Len(s3) : s5[k] = s3[k]
        BY <2>1
      <4> HIDE DEF s3, s5
      <4>2. SubSeq(s5, 1, Len(s3)) = s3
        BY <2>1, <4>1, Cut
      <4> QED BY <4>1, <4>2
    <3>3. Len(s5) = 3 /\ s5[3] = l /\ 3 - 1 = 2 /\ 3 + 1 - 1 = 3 /\ 3 - 2 = 1
      BY <2>1
    <3>4. [s3 EXCEPT ![1] = l] = t
      BY <2>1
    <3> HIDE DEF m, e, s5, s3, t
    <3>5. Slot(m, 1) = l /\ Below(m, 1) = s3
      BY <3>1, <3>2, <3>3 DEF Slot, Below
    <3>6. VisitLocalSet(m, 2) = Machine(t, c)
      BY <3>1, <3>3, <3>4, <3>5 DEF VisitLocalSet
    <3>7. VisitOpcode(m, e) = VisitLocalSet(m, 2)
      BY <3>1, Visits
    <3> QED BY <3>6, <3>7 DEF m, e
  <2> HIDE DEF s1, s2, s3, s4, s5, t, get1, high, get2, low, set2, run
  <2>7. run = Machine(t, c)
    BY <1>2, <1>3, <1>5, <1>8, <2>2, <2>3, <2>4, <2>5, <2>6
  <2>8. Loads(run, c, Accessible(c, hi, 4), t)
    BY <1>8, <2>7 DEF Loads
  <2> QED BY <2>8 DEF run, s1, t, hi, lo, h, l, top
<1>9. CASE ~Accessible(c, hi, 4)
  <2> HIDE DEF s1, s2, t, get1, high, get2, low, set2, run
  <2>1. run = Trapped(Machine(s2, c))
    BY <1>2, <1>3, <1>5, <1>9, TrapStays
  <2>2. Loads(run, c, Accessible(c, hi, 4), t)
    BY <1>9, <2>1, TrapStays DEF Loads
  <2> QED BY <2>2 DEF run, s1, t, hi, lo, h, l, top
<1> QED BY <1>8, <1>9

----------------------------------------------------------------------------
(* Loads.                                                                  *)

\* The words of a value of a word or less, extended to two words by its sign or by zeros.
LEMMA TwoWords ==
  ASSUME NEW n \in {1, 2, 4}, NEW x \in Nat, x < Byte^n, NEW signed \in BOOLEAN
  PROVE  LET v    == Value(signed, x, n)
             full == v % 2^(2 * W)
             w    == v % Modulus
         IN  /\ w \in Words /\ full % Modulus = w
             /\ signed => full \div Modulus = Binary("I32ShrS", w, W - 1) /\ full \div Modulus \in Int
             /\ ~signed => full \div Modulus = 0
<1> DEFINE v    == Value(signed, x, n)
           full == v % 2^(2 * W)
           w    == v % Modulus
<1>1. /\ v \in Int /\ 0 - Modulus <= 2 * v /\ v < Modulus
      /\ signed => 2 * v < Modulus
      /\ ~signed => v = x
  BY ValueFits
<1> HIDE DEF v
<1>2. /\ full % Modulus = w /\ full \div Modulus = (IF v < 0 THEN MaxWord ELSE 0)
      /\ w \in Words
      /\ 2 * v < Modulus => Binary("I32ShrS", w, W - 1) = (IF v < 0 THEN MaxWord ELSE 0)
  BY <1>1, Extends
<1>3. MaxWord \in Int
  BY WordValues DEF MaxWord
<1> HIDE DEF full, w
<1>4. signed => full \div Modulus = Binary("I32ShrS", w, W - 1) /\ full \div Modulus \in Int
  BY <1>1, <1>2, <1>3
<1>5. ~signed => full \div Modulus = 0
  BY <1>1, <1>2
<1> QED BY <1>2, <1>4, <1>5 DEF v, full, w

\* Eight bytes are a number of two words.
LEMMA EightBytes ==
  ASSUME NEW x \in Nat, x < Byte^8
  PROVE  x % 2^(2 * W) = x
<1> DEFINE p == 2^(2 * W)
<1>1. Byte^8 = p
  <2>1. Byte^8 = Byte^7 * Byte /\ Byte^4 = Byte^3 * Byte /\ Byte^(3 + 4) = Modulus * Byte^3
    BY BytePowers, ByteDivides
  <2>2. Byte \in Nat /\ Byte^3 \in Nat /\ Modulus \in Nat /\ Byte^7 = Modulus * Byte^3
    BY <2>1, BytePowers, WordValues
  <2> DEFINE b == Byte
             t == Byte^3
             M == Modulus
  <2>3. (M * t) * b = M * (t * b)
    <3>1. b \in Nat /\ t \in Nat /\ M \in Nat
      BY <2>2
    <3> HIDE DEF b, t, M
    <3> QED BY <3>1
  <2> QED BY <2>1, <2>2, <2>3, WordBytes, WordPowers
<1>2. p \in Nat \ {0}
  BY <1>1, BytePowers
<1>3. x < p
  BY <1>1
<1> HIDE DEF p
<1>4. x % p = x
  BY <1>2, <1>3, Small
<1> QED BY <1>4 DEF p

\* What is read where the bytes exist.
LEMMA ReadIsNumber ==
  ASSUME NEW c, Memory(c), NEW at \in Nat, NEW n \in {1, 2, 4, 8}, Wasm!Exists(c, at, n)
  PROVE  /\ Read(c, at, n) = Wasm!Number(c, at, n, Byte)
         /\ Wasm!Number(c, at, n, Byte) \in Nat /\ Wasm!Number(c, at, n, Byte) < Byte^n
<1>1. n \in 0 .. 8 /\ at + n <= Len(c)
  BY DEF Wasm!Exists
<1> QED BY <1>1, SameNumber DEF Read

\* A load leaves what Wasm's load leaves, and traps exactly when it does.
LEMMA LoadMatches ==
  ASSUME NEW c, Memory(c), 2 * Len(c) <= Modulus,
         NEW op \in DOMAIN Ops!LoadTypes, NEW a \in Words, NEW offset \in Words
  PROVE  Loads(RunAccess(c, op, offset, <<a>>), c,
               Wasm!Exists(c, a + offset, Wasm!BytesOf(op)),
               Wasm!LoadFrom(c, op, a + offset, W, Ops!LoadTypes[op] \in Ops!WideTypes))
<1> DEFINE run    == RunAccess(c, op, offset, <<a>>)
           n      == Wasm!BytesOf(op)
           at     == EffectiveAddress(a, offset)
           sum    == a + offset
           x      == Wasm!Number(c, sum, n, Byte)
           signed == op \in Wasm!SignedLoads
           wide   == Ops!LoadTypes[op] \in Ops!WideTypes
           full   == Value(signed, x, n) % 2^(2 * W)
           there  == Wasm!Exists(c, sum, n)
           left   == Wasm!LoadFrom(c, op, sum, W, wide)
<1>1. sum \in Nat /\ Len(c) \in Nat /\ wide \in BOOLEAN /\ signed \in BOOLEAN
  BY DEF Words, Memory
<1>2. /\ op \in WordLoads \cup {"I64Load8U", "I64Load16U", "I64Load32U", "I64Load8S",
                                "I64Load16S", "I64Load32S", "F64Load", "I64Load"}
      /\ wide <=> op \notin WordLoads
  BY DEF Ops!LoadTypes, WordLoads, Ops!WideTypes
<1>3. n \in {1, 2, 4, 8} /\ n \in 1 .. 8
  BY DEF Wasm!BytesOf
<1>4. left = IF wide THEN <<full % Modulus, full \div Modulus>> ELSE <<full % Modulus>>
  <2> HIDE DEF sum, wide
  <2> QED BY <1>1, WasmLoads
<1>5. there => Read(c, sum, n) = x /\ x \in Nat /\ x < Byte^n
  <2> HIDE DEF sum, n
  <2> QED BY <1>1, <1>3, ReadIsNumber
<1>6. /\ Accessible(c, at, n) <=> there
      /\ there => at = sum
  <2> HIDE DEF n
  <2> QED BY <1>1, <1>3, AddressExists
<1>7. there => Read(c, at, n) = x
  BY <1>5, <1>6
<1>8. ASSUME there, n # 8
      PROVE  LET w == Value(signed, x, n) % Modulus
             IN  /\ w \in Words /\ full % Modulus = w
                 /\ signed => full \div Modulus = Binary("I32ShrS", w, W - 1)
                              /\ full \div Modulus \in Int
                 /\ ~signed => full \div Modulus = 0
  <2> HIDE DEF n, x, there, signed
  <2>1. n \in {1, 2, 4} /\ x \in Nat /\ x < Byte^n
    BY <1>3, <1>5, <1>8
  <2> QED BY <1>1, <2>1, TwoWords
<1>9. CASE op \in WordLoads
  <2>1. Size(op) = n /\ (signed <=> op \in SignedOpcodes)
    BY <1>9 DEF Size, Wasm!BytesOf, WordLoads, Wasm!SignedLoads, SignedOpcodes
  <2>2. ASSUME there
        PROVE  /\ Word(op, Read(c, at, n)) = Value(signed, x, n) % Modulus
               /\ Word(op, Read(c, at, n)) \in Words /\ n # 8
    <3> DEFINE y == Value(signed, x, n) % Modulus
    <3>1. x \in Nat /\ x < Byte^Size(op)
      BY <1>5, <2>1, <2>2
    <3> HIDE DEF x, there, at, n
    <3>2. /\ Size(op) \in {1, 2, 4} /\ Word(op, x) \in Words
          /\ Word(op, x) = Value(op \in SignedOpcodes, x, Size(op)) % Modulus
      BY <1>9, <3>1, WordIsValue
    <3>3. (op \in SignedOpcodes) = signed
      BY <2>1
    <3> QED BY <1>7, <2>1, <2>2, <3>2, <3>3
  <2>3. Accessible(c, at, Size(op)) => Word(op, Read(c, at, Size(op))) \in Int
    BY <1>6, <2>1, <2>2 DEF Words
  <2>4. Loads(run, c, Accessible(c, at, Size(op)), <<Word(op, Read(c, at, Size(op)))>>)
    <3> HIDE DEF there, x
    <3> QED BY <1>9, <2>3, PlainLoads
  <2>5. there => left = <<Word(op, Read(c, at, n))>>
    <3> HIDE DEF there, x, at, n, full, left, signed, wide
    <3> QED BY <1>2, <1>4, <1>8, <1>9, <2>2
  <2> HIDE DEF run, there, left, at, n, x
  <2>6. Loads(run, c, there, left)
    BY <1>6, <2>1, <2>4, <2>5 DEF Loads
  <2> QED BY <2>6 DEF run, there, left, sum, wide, n
<1>10. CASE op \in {"I64Load8U", "I64Load16U", "I64Load32U"}
  <2> DEFINE o == IF op = "I64Load8U" THEN "I32Load8U"
                  ELSE IF op = "I64Load16U" THEN "I32Load16U" ELSE "I32Load"
             w == Word(o, Read(c, at, n))
  <2>1. /\ Size(o) = n /\ n # 8 /\ ~signed /\ wide /\ o \in WordLoads
        /\ \A y : Word(o, y) = y
    BY <1>2, <1>10 DEF Size, Wasm!BytesOf, WordLoads, Wasm!SignedLoads, Word
  <2>2. there => w = Value(signed, x, n) % Modulus
    <3>1. ASSUME there
          PROVE  w = Value(signed, x, n) % Modulus
      <4>1. x \in Nat /\ x < Byte^Size(o)
        BY <1>5, <2>1, <3>1
      <4>2. (o \in SignedOpcodes) = signed
        BY <1>10, <2>1 DEF SignedOpcodes
      <4> HIDE DEF x, there, at, n, o
      <4>3. Word(o, x) = Value(o \in SignedOpcodes, x, Size(o)) % Modulus
        BY <2>1, <4>1, WordIsValue
      <4> QED BY <1>7, <2>1, <3>1, <4>2, <4>3
    <3> QED BY <3>1
  <2>3. there => left = <<w, 0>> /\ w \in Int
    <3> HIDE DEF there, x, at, n, full, left, signed, wide, w
    <3> QED BY <1>4, <1>8, <2>1, <2>2 DEF Words
  <2>4. Loads(run, c, Accessible(c, at, Size(o)), <<Word(o, Read(c, at, Size(o))), 0>>)
    <3>1. Accessible(c, at, Size(o)) => Word(o, Read(c, at, Size(o))) \in Int
      <4> HIDE DEF there, at, n, o
      <4> QED BY <1>6, <2>1, <2>3
    <3>2. o = IF op = "I64Load8U" THEN "I32Load8U"
              ELSE IF op = "I64Load16U" THEN "I32Load16U" ELSE "I32Load"
      OBVIOUS
    <3> HIDE DEF there, x, o
    <3> QED BY <1>10, <3>1, <3>2, ZeroLoads
  <2> HIDE DEF run, there, left, at, n, x, o
  <2>5. Loads(run, c, there, left)
    BY <1>6, <2>1, <2>3, <2>4 DEF Loads
  <2> QED BY <2>5 DEF run, there, left, sum, wide, n
<1>11. CASE op \in {"I64Load8S", "I64Load16S", "I64Load32S"}
  <2> DEFINE o == IF op = "I64Load8S" THEN "I32Load8S"
                  ELSE IF op = "I64Load16S" THEN "I32Load16S" ELSE "I32Load"
             w == Word(o, Read(c, at, n))
             h == Binary("I32ShrS", w, W - 1)
  <2>1. Size(o) = n /\ n # 8 /\ signed /\ wide /\ o \in WordLoads
    BY <1>2, <1>11 DEF Size, Wasm!BytesOf, WordLoads, Wasm!SignedLoads
  <2>2. ASSUME there
        PROVE  w = Value(signed, x, n) % Modulus
    <3>1. x \in Nat /\ x < Byte^Size(o)
      BY <1>5, <2>1, <2>2
    <3>2. CASE op # "I64Load32S"
      <4>1. (o \in SignedOpcodes) = signed
        BY <1>11, <2>1, <3>2 DEF SignedOpcodes
      <4> HIDE DEF x, there, at, n, o
      <4>2. Word(o, x) = Value(o \in SignedOpcodes, x, Size(o)) % Modulus
        BY <2>1, <3>1, WordIsValue
      <4> QED BY <1>7, <2>1, <2>2, <4>1, <4>2
    <3>3. CASE op = "I64Load32S"
      <4>1. n = 4 /\ w = x
        <5>1. n = 4 /\ o = "I32Load"
          BY <3>3 DEF Wasm!BytesOf
        <5>2. w = Read(c, at, n)
          BY <5>1 DEF Word
        <5> HIDE DEF n, w, x, there, at
        <5> QED BY <1>7, <2>2, <5>1, <5>2
      <4> DEFINE M == Modulus
                 v == Value(signed, x, n)
      <4>2. v = (IF 2 * x >= M THEN x - M ELSE x)
        <5> HIDE DEF x, signed, n, M
        <5> QED BY <2>1, <4>1, WordBytes DEF Value, M
      <4>3. x \in Nat /\ x < M /\ M \in Nat \ {0}
        BY <2>1, <3>1, <4>1, WordBytes, WordValues
      <4> HIDE DEF x, M, v, n, signed, w
      <4>4. v % M = x
        <5>1. CASE 2 * x >= M
          <6>1. v \in Int /\ v = M * (0 - 1) + x /\ 0 - 1 \in Int
            BY <4>2, <4>3, <5>1
          <6> QED BY <4>3, <6>1, Unique
        <5>2. CASE ~(2 * x >= M)
          BY <4>2, <4>3, <5>2, Small
        <5> QED BY <5>1, <5>2
      <4> QED BY <4>1, <4>4 DEF v, M
    <3> QED BY <3>2, <3>3
  <2>3. there => left = <<w, h>> /\ w \in Int /\ h \in Int
    <3> DEFINE y  == Value(signed, x, n) % Modulus
               up == full \div Modulus
    <3>1. ASSUME there
          PROVE  /\ w = y /\ y \in Words /\ full % Modulus = y
                 /\ up = Binary("I32ShrS", y, W - 1) /\ up \in Int
      <4> HIDE DEF there, x, n, signed, full, w
      <4> QED BY <1>8, <2>1, <2>2, <3>1
    <3> HIDE DEF there, x, at, n, full, left, signed, wide, w, y
    <3>2. there => h = up /\ w = full % Modulus /\ w \in Int
      BY <3>1 DEF Words
    <3> QED BY <1>4, <2>1, <3>1, <3>2
  <2>4. LET z == Word(o, Read(c, at, Size(o)))
        IN  Loads(run, c, Accessible(c, at, Size(o)), <<z, Binary("I32ShrS", z, W - 1)>>)
    <3>1. LET z == Word(o, Read(c, at, Size(o)))
          IN  Accessible(c, at, Size(o)) => z \in Int /\ Binary("I32ShrS", z, W - 1) \in Int
      <4> HIDE DEF there, at, n, o
      <4> QED BY <1>6, <2>1, <2>3
    <3>2. o = IF op = "I64Load8S" THEN "I32Load8S"
              ELSE IF op = "I64Load16S" THEN "I32Load16S" ELSE "I32Load"
      OBVIOUS
    <3> HIDE DEF there, x, o
    <3> QED BY <1>11, <3>1, <3>2, SignLoads
  <2> HIDE DEF run, there, left, at, n, x, o
  <2>5. Loads(run, c, there, left)
    BY <1>6, <2>1, <2>3, <2>4 DEF Loads
  <2> QED BY <2>5 DEF run, there, left, sum, wide, n
<1>12. ASSUME n = 8, ~signed, wide
       PROVE  there => left = <<x % Modulus, x \div Modulus>>
  <2>1. Value(signed, x, n) = x
    BY <1>12 DEF Value
  <2>2. there => full = x
    <3> HIDE DEF there, x, n, signed
    <3> QED BY <1>5, <1>12, <2>1, EightBytes
  <2> HIDE DEF there, x, n, signed, full, left, wide
  <2> QED BY <1>4, <1>12, <2>2
<1>13. CASE op = "F64Load"
  <2>1. n = 8 /\ ~signed /\ wide
    BY <1>2, <1>13 DEF Wasm!BytesOf, Wasm!SignedLoads, WordLoads
  <2>2. there => left = <<x % Modulus, x \div Modulus>>
    BY <1>12, <2>1
  <2>3. LET y == Read(c, at, 8)
        IN  Loads(run, c, Accessible(c, at, 8), <<y % Modulus, y \div Modulus>>)
    <3>1. Accessible(c, at, 8) => Read(c, at, 8) \in Nat
      <4> HIDE DEF there, at, n, x
      <4> QED BY <1>5, <1>6, <2>1
    <3> HIDE DEF there, x
    <3> QED BY <1>13, <3>1, FloatLoad
  <2> HIDE DEF run, there, left, at, n, x
  <2>4. Loads(run, c, there, left)
    BY <1>6, <1>7, <2>1, <2>2, <2>3 DEF Loads
  <2> QED BY <2>4 DEF run, there, left, sum, wide, n
<1>14. CASE op = "I64Load"
  <2> DEFINE hi == EffectiveAddress(a, Ops!SaturatingAdd(offset, 4))
             h  == Read(c, hi, 4)
             l  == Read(c, at, 4)
             M  == Modulus
  <2>1. n = 8 /\ ~signed /\ wide
    BY <1>2, <1>14 DEF Wasm!BytesOf, Wasm!SignedLoads, WordLoads
  <2>2. there => left = <<x % Modulus, x \div Modulus>>
    BY <1>12, <2>1
  <2>3. /\ Accessible(c, hi, 4) <=> Wasm!Exists(c, sum, 8)
        /\ Accessible(c, hi, 4) => hi = sum + 4 /\ Accessible(c, at, 4) /\ at = sum
    BY <1>1, HighHalf
  <2>4. ASSUME there
        PROVE  x = l + M * h /\ l \in 0 .. M - 1 /\ h \in 0 .. M - 1
    <3>1. sum + 8 <= Len(c) /\ hi = sum + 4 /\ at = sum
      BY <2>1, <2>3, <2>4 DEF Wasm!Exists
    <3> HIDE DEF sum, hi, at
    <3>2. sum + 4 \in Nat /\ Wasm!Exists(c, sum, 4) /\ Wasm!Exists(c, sum + 4, 4)
      BY <1>1, <3>1 DEF Wasm!Exists
    <3>3. /\ Read(c, sum, 4) = Wasm!Number(c, sum, 4, Byte)
          /\ Wasm!Number(c, sum, 4, Byte) \in Nat /\ Wasm!Number(c, sum, 4, Byte) < Byte^4
      BY <1>1, <3>2, ReadIsNumber
    <3>4. /\ Read(c, sum + 4, 4) = Wasm!Number(c, sum + 4, 4, Byte)
          /\ Wasm!Number(c, sum + 4, 4, Byte) \in Nat
          /\ Wasm!Number(c, sum + 4, 4, Byte) < Byte^4
      BY <3>2, ReadIsNumber
    <3>5. Wasm!Number(c, sum, 8, Byte)
            = Wasm!Number(c, sum, 4, Byte) + Modulus * Wasm!Number(c, sum + 4, 4, Byte)
      BY <1>1, <3>1, NumberSplits
    <3>6. l = Wasm!Number(c, sum, 4, Byte) /\ h = Wasm!Number(c, sum + 4, 4, Byte)
      BY <3>1, <3>3, <3>4
    <3>7. x = Wasm!Number(c, sum, 8, Byte)
      BY <2>1
    <3> HIDE DEF l, h, x, M
    <3>8. M \in Nat \ {0} /\ Byte^4 = M
      BY WordBytes, WordValues DEF M
    <3> QED BY <3>3, <3>4, <3>5, <3>6, <3>7, <3>8 DEF M
  <2>5. there => left = <<l, h>>
    <3> HIDE DEF there, x, l, h, M, left
    <3>1. M \in Nat \ {0}
      BY WordValues DEF M
    <3>2. ASSUME there
          PROVE  x % M = l /\ x \div M = h
      <4>1. l \in Nat /\ l < M /\ h \in Int /\ x \in Int /\ x = M * h + l
        BY <2>4, <3>1, <3>2
      <4> QED BY <3>1, <4>1, Unique
    <3> QED BY <2>2, <3>2 DEF M
  <2>6. Loads(run, c, Accessible(c, hi, 4), <<l, h>>)
    <3>1. /\ Accessible(c, hi, 4) => Read(c, hi, 4) \in Int /\ Accessible(c, at, 4)
          /\ Accessible(c, at, 4) => Read(c, at, 4) \in Int
      <4>1. Accessible(c, hi, 4) => h \in Int
        <5> HIDE DEF h, l, x, M, n
        <5>1. M \in Nat
          BY WordValues DEF M
        <5>2. Accessible(c, hi, 4) => there
          BY <2>1, <2>3
        <5> QED BY <2>4, <5>1, <5>2
      <4>2. Accessible(c, at, 4) => l \in Int
        <5>1. Accessible(c, at, 4) <=> Wasm!Exists(c, sum, 4)
          BY <1>1, AddressExists
        <5>2. Wasm!Exists(c, sum, 4) => at = sum
          BY <1>1, AddressExists
        <5> HIDE DEF at, sum
        <5> QED BY <1>1, <5>1, <5>2, ReadIsNumber
      <4> QED BY <2>3, <4>1, <4>2
    <3> HIDE DEF there, x
    <3> QED BY <1>14, <3>1, LongLoad
  <2> HIDE DEF run, there, left, at, n, x, h, l, hi
  <2>7. Loads(run, c, there, left)
    <3>1. Accessible(c, hi, 4) <=> there
      BY <2>1, <2>3 DEF there
    <3> QED BY <2>5, <2>6, <3>1 DEF Loads
  <2> QED BY <2>7 DEF run, there, left, sum, wide, n
<1> QED BY <1>2, <1>9, <1>10, <1>11, <1>13, <1>14

\* The state property.
LEMMA InvLoadsMatch ==
  ASSUME TypeOK, SizeInv
  PROVE  LoadsMatchWasm
<1>1. layout \in Layouts /\ cells \in Seq(CellValues) /\ 2 * Len(cells) <= Modulus
  BY HalfSpace DEF TypeOK
<1>2. Offsets \subseteq Words
  BY <1>1, AccessAssumption DEF Offsets
<1>3. ASSUME IsMemory
      PROVE  Memory(cells)
  BY <1>1, <1>3 DEF Memory, CellValues, CellsOf, IsMemory, Byte
<1>4. ASSUME IsMemory, NEW op \in DOMAIN Ops!LoadTypes, NEW a \in Words, NEW offset \in Offsets
      PROVE  LET run == RunAccess(cells, op, offset, <<a>>)
             IN  IF Wasm!Exists(cells, a + offset, Wasm!BytesOf(op))
                   THEN LET wide == Ops!LoadTypes[op] \in Ops!WideTypes
                            v    == Wasm!LoadFrom(cells, op, a + offset, W, wide)
                        IN  run = Machine(v, cells)
                   ELSE run.outcome = "trap" /\ run.cells = cells
  <2>1. offset \in Words /\ Memory(cells)
    BY <1>2, <1>3, <1>4
  <2>2. Loads(RunAccess(cells, op, offset, <<a>>), cells,
              Wasm!Exists(cells, a + offset, Wasm!BytesOf(op)),
              Wasm!LoadFrom(cells, op, a + offset, W, Ops!LoadTypes[op] \in Ops!WideTypes))
    BY <1>1, <2>1, LoadMatches
  <2> QED BY <2>2 DEF Loads
<1> QED BY <1>4 DEF LoadsMatchWasm

\* In every run, from every address: a load, also an i64 in its two halves and a sign or
\* zero extension of a few opcodes, leaves the words Wasm's load leaves, and traps exactly
\* when it does.
THEOREM LoadsMatch == AccessSpec => []LoadsMatchWasm
<1>1. RegionInv => LoadsMatchWasm
  BY InvLoadsMatch DEF RegionInv
<1> QED BY <1>1, RegionKept, PTL
=============================================================================
