-------------------------- MODULE MCCapacityController --------------------------
(***************************************************************************)
(* A small fleet for model checking: the sizes of the instances in the     *)
(* order of their launch, and what a tick takes them for: their true sizes *)
(* or, when the status has none, one pair each.                            *)
(***************************************************************************)
EXTENDS CapacityController

MixedFleet == [i \in Instances |-> IF i % 2 = 1 THEN 3 ELSE 2]

SizedOrNot == {MixedFleet, [i \in Instances |-> PairCpu]}
=============================================================================
