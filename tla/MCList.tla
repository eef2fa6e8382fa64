------------------------------- MODULE MCList -------------------------------
(* Instances of List for TLC.                                              *)
EXTENDS List

(* The hook's swap_nodes called with any two elements that have been in a  *)
(* list before, whether or not they are in one now.                        *)
swap_nodes_of_any(a, b) ==
  /\ Junk \notin {heap.next[a], heap.next[b]}
  /\ heap' = swap_nodes(heap, a, b)
  /\ UNCHANGED size
  /\ Exchange(a, b)

SwapSpec == Init /\ [][Next \/ \E a, b \in Nodes : swap_nodes_of_any(a, b)]_vars

(* The documentation of swap_nodes in list_hook.hpp: "If one element is    *)
(* not in a container, then after the swap-operation the other element is  *)
(* not in a container", without a word on the link mode.  Exchange edits   *)
(* elems so; with normal_link hooks, which keep the links of the list they *)
(* were erased from, the lists do not follow.                              *)
SwapsWithAnOutsider == Spells(heap, elems)
=============================================================================
