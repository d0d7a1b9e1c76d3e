------------------------------- MODULE MCI64 -------------------------------
(***************************************************************************)
(* I64Lowering with words of four bits, the fewest that hold the constants *)
(* of the division sequences.                                              *)
(***************************************************************************)
EXTENDS I64Lowering

Alu == INSTANCE I32Alu

MCWord      == Alu!Words
MCUnaryOps  == Alu!UnaryOpcodes
MCBinaryOps == Alu!BinaryOpcodes
MCWideOps   == Alu!WideOpcodes

\* The integer unit as tables, so that TLC computes each entry once.
UnaryTable  == [op \in MCUnaryOps |-> [a \in MCWord |-> Alu!Unary(op, a)]]
TrapTable   == [op \in MCBinaryOps |-> [a \in MCWord |-> [b \in MCWord |-> Alu!BinaryTrap(op, a, b)]]]
BinaryTable ==
  [op \in MCBinaryOps |-> [a \in MCWord |-> [b \in MCWord |->
     IF Alu!BinaryTrap(op, a, b) = Alu!NoTrap THEN Alu!Binary(op, a, b) ELSE 0]]]

MCUnary(op, a)     == UnaryTable[op][a]
MCBinary(op, a, b) == BinaryTable[op][a][b]
MCTrap(op, a, b)   == TrapTable[op][a][b]
MCWide(op, a, b)   == Alu!Wide(op, a, b)

AllOps == DOMAIN Msh

Divisions == {"I64DivU", "I64DivS", "I64RemU", "I64RemS"}
Shifts    == {"I64Shl", "I64ShrS", "I64ShrU", "I64Rotl", "I64Rotr"}

\* Words around zero, the sign and the end, low limbs first; a division takes hundreds of
\* steps, and a shift's amount is in its low limb.
MCLimbs ==
  [op \in AllOps |->
     CASE op \in Divisions -> <<{0, 3, 8, 15}, {0, 8, 15}, {0, 3, 8, 15}, {0, 8, 15}>>
       [] op \in Shifts    -> <<{0, 1, 8, 15}, {0, 1, 8, 15}, {0, 1, 3, 4, 8, 15}, {0, 15}>>
       [] OTHER -> [limb \in 1 .. 4 |-> {0, 1, 8, 15}]]
=============================================================================
