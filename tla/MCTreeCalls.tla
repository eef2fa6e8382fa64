---------------------------- MODULE MCTreeCalls ----------------------------
(* Instances of TreeCalls for TLC: the elements and their keys.            *)
EXTENDS TreeCalls

FourInSource == 1..4
TwoBefore    == 5..6
SixNodes     == 1..6
OwnNumber    == [n \in Nat |-> n]
-----------------------------------------------------------------------------
(* check() of bstree_algorithms, "check left&right header pointers": the   *)
(* right link of the header leads to the last element of the tree.  It     *)
(* does not hold for a copy.                                               *)
HeaderFindsTheLast == call = "clone" => Clone!HeaderFindsTheLast
=============================================================================
