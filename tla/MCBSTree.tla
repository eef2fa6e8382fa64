------------------------------ MODULE MCBSTree ------------------------------
(* Instances of BSTree for TLC: the keys and priorities, and the kinds.  *)
EXTENDS BSTree

CONSTANTS h1, h2

AllKeys == <<1, 2, 3, 4, 5, 6, 7, 8, 1, 2, 9,  2, 1, 3, 4, 5, 6, 7, 8, 9>>
Priorities == <<3, 1, 2, 4, 2, 1, 5, 3, 2, 1, 4,  1, 1, 1, 1, 1, 1, 1, 1, 1>>

\* Two trees with elements of equal keys; one that is large enough for every
\* case of the balancing, where searching is nothing new and the elements come
\* and go one by one; elements of which nobody resets the hook; nine elements
\* of which all but the first two make up a line.
Kind(algo, link, nodes, trees, asked, plain) ==
  [algo |-> algo, link |-> link, nodes |-> nodes, trees |-> trees,
   asked |-> asked, plain |-> plain, in_order |-> FALSE]
Small(algo)   == Kind(algo, "safe", {1, 9, 2, 10}, {h1, h2}, 0..3, FALSE)
Two(algo, link, nodes) == Kind(algo, link, nodes, {h1, h2}, {}, FALSE)
Large(algo, nodes) == Kind(algo, "auto", nodes, {h1}, {}, TRUE)
Unreset(algo) == Kind(algo, "normal", {1, 2, 10}, {h1, h2}, {}, FALSE)
Line(algo)    == [Kind(algo, "safe", 12..20, {h1}, {}, TRUE) EXCEPT !.in_order = TRUE]

Five == {1, 2, 10, 3, 4}

AllKinds == {Small("bstree"), Unreset("bstree"),
             Two("rbtree", "safe", Five), Large("rbtree", (1..8) \cup {11}),
             Two("avltree", "safe", Five), Large("avltree", 1..7),
             Small("splaytree"), Two("splaytree", "auto", {1, 2, 10, 3}),
             Two("treap", "safe", Five), Large("treap", 1..8),
             Two("sgtree", "safe", {1, 2, 10, 3}), Line("sgtree")}
=============================================================================
