---------------------------- MODULE TreeTeardown ----------------------------
(***************************************************************************)
(* bstree::unlink_leftmost_without_rebalance (bstree.hpp), called again    *)
(* and again until it returns null: the "step by step controlled           *)
(* destruction" of a tree.  Each call breaks the tree a little more.       *)
(***************************************************************************)
EXTENDS TreeExchange, SequencesExt

CONSTANTS Nodes, This, Safe

VARIABLES t, size,
          sorted,       \* history: the elements of the tree at the beginning
          unlinked,     \* history: what the calls have returned, in order
          done          \* a call has returned null

vars == <<t, size, sorted, unlinked, done>>

Init ==
  /\ \E S \in SUBSET Nodes : \E o \in Orders(S) :
       t = Grown(NewTrees(Nodes, {This}), This, o)
  /\ sorted = InOrder(t, t.parent[This], Cardinality(Nodes))
  /\ size = Len(sorted)
  /\ unlinked = <<>>
  /\ done = FALSE

unlink_leftmost ==
  LET n == t.left[This]
      u == unlink_leftmost_without_rebalance(t, This)
  IN  /\ n # This
      /\ t' = IF Safe THEN init(u, n) ELSE u
      /\ size' = size - 1
      /\ unlinked' = Append(unlinked, n)
      /\ UNCHANGED <<sorted, done>>

returns_null == /\ t.left[This] = This
                /\ ~done
                /\ done' = TRUE
                /\ UNCHANGED <<t, size, sorted, unlinked>>

Next == unlink_leftmost \/ returns_null

\* The owner goes on until there is nothing left to destroy.
Spec == Init /\ [][Next]_vars /\ WF_vars(Next)
-----------------------------------------------------------------------------
(* Although the links below the root go stale (a right child is hung under *)
(* the root instead of its grandparent), each call unlinks the smallest    *)
(* element that is left, and the header leads to the next.                 *)
UnlinksInOrder == /\ IsPrefix(unlinked, sorted)
                  /\ size = Len(sorted) - Len(unlinked)
                  /\ size > 0 => t.left[This] = sorted[Len(unlinked) + 1]

(* When there is nothing left the tree is a valid empty one, and in the    *)
(* safe modes no hook is still linked.                                     *)
LeavesNothing == done => /\ unlinked = sorted
                         /\ t.parent[This] = Null /\ t.right[This] = This
                         /\ Safe => \A n \in Nodes : inited(t, n)

(* The destruction comes to its end.                                       *)
Terminates == <>done
=============================================================================
