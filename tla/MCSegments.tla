----------------------------- MODULE MCSegments -----------------------------
(***************************************************************************)
(* Segments with words of four bits: bytes of one bit, pages of two bytes, *)
(* an address space of eight pages.                                        *)
(***************************************************************************)
EXTENDS RegionAccess

Passive(data)    == [data |-> data, active |-> FALSE, at |-> 0]
Active(data, at) == [data |-> data, active |-> TRUE, at |-> at]

NotNegative == {a \in Words : Signed(a) >= 0}

\* A memory with one passive segment: every operand word.
OnePassive ==
  [region |-> "memory", segs |-> <<Passive(<<1, 0, 1>>)>>, droppable |-> {1}, operands |-> Words,
   fillValues |-> {0, 1, 3}, granule |-> 2, initial |-> 1, declared |-> NoMaximum,
   compileMax |-> 2, storeMax |-> 2, perFuel |-> 2, metered |-> TRUE,
   offsets |-> {}, stored |-> {}]

\* An active segment that fits, and one that does not.
Initialised ==
  [OnePassive EXCEPT !.segs = <<Active(<<1>>, 0)>>, !.droppable = {}, !.operands = {0, 1, 2, 15},
                     !.declared = 2, !.storeMax = 4, !.metered = FALSE]
Overflowing == [Initialised EXCEPT !.segs = <<Active(<<1, 1>>, 1)>>]

\* A table with an active and a passive segment, operands that are not negative.
ActiveThenPassive ==
  [region |-> "table", segs |-> <<Active(<<3, 9>>, 0), Passive(<<5, 7, 2>>)>>, droppable |-> {},
   operands |-> NotNegative, fillValues |-> {0, 9}, granule |-> 1, initial |-> 2, declared |-> 3,
   compileMax |-> 3, storeMax |-> 4, perFuel |-> 2, metered |-> TRUE, offsets |-> {}, stored |-> {}]

\* A memory that grows to half the address space, with loads and stores.
Accessed ==
  [OnePassive EXCEPT !.segs = <<>>, !.droppable = {}, !.operands = {0, 1, 9}, !.fillValues = {0},
                     !.granule = 4, !.compileMax = 2, !.storeMax = 2, !.offsets = {0, 1, 4, 12, 15},
                     !.stored = {<<0, 0>>, <<6, 9>>}]

MCLayouts == {OnePassive, Initialised, Overflowing, ActiveThenPassive, Accessed}

\* Two passive segments, with and without drops.
TwoPassive   == [OnePassive EXCEPT !.segs = <<Passive(<<1>>), Passive(<<0, 0>>)>>,
                                   !.droppable = {1, 2}]
MCDropped    == {TwoPassive}
MCNeighbour  == {[TwoPassive EXCEPT !.droppable = {}]}
=============================================================================
