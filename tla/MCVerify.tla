------------------------------ MODULE MCVerify ------------------------------
(***************************************************************************)
(* Executor on every module of at most CodeBound opcodes that              *)
(* RwasmModule::verify accepts and whose last opcode does not fall         *)
(* through: what the verifier alone guarantees, whoever wrote the code.    *)
(* A module is a record of its code, its source_pc and its one table.      *)
(***************************************************************************)
EXTENDS Executor, TLC

CONSTANT CodeBound        \* longest code section

ASSUME CodeBoundAssumption == CodeBound \in Nat \ {0}

MCOpcodes ==
  [op : {"Br", "BrIfNez"}, imm : {-1, 0, 1, 2}]
  \cup [op : {"CallInternal"}, imm : {0, 2}]
  \cup [op : {"BrTable"}, imm : {0, 1, 2}]
  \cup [op : {"CallIndirect", "ReturnCallIndirect", "TableGet", "Return"}, imm : {0}]

Candidates ==
  [code : UNION {[1 .. n -> MCOpcodes] : n \in 1 .. CodeBound},
   pc : {0, CodeBound - 1}, elems : {<<1>>, <<2>>}]

MCCode       == [m \in Candidates |-> m.code]
MCSourcePc   == [m \in Candidates |-> m.pc]
MCTableElems == [m \in Candidates |-> 0 :> m.elems]
MCParamSets  == [m \in Candidates |-> {<<0, 1>>}]
MCResultLen  == [m \in Candidates |-> 0]

MCModules == {m \in Candidates : VerifyModule(m) /\ EndsFinal(m)}

MCWord == {0, 1}
NoUnary(op, a)     == a
NoBinary(op, a, b) == a
NoTrap(op, a, b)   == "none"
NoWide(op, a, b)   == <<a, b>>
=============================================================================
