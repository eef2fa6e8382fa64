------------------------------ MODULE AVLTree ------------------------------
(***************************************************************************)
(* avltree_algorithms (include/boost/intrusive/avltree_algorithms.hpp):    *)
(* what an AVL tree does after bstree_algorithms has linked or unlinked a  *)
(* node.  The tag of a node is its balance, the side on which its subtree  *)
(* is higher; the header's is zero.                                        *)
(***************************************************************************)
EXTENDS TreeNodes

lean(side) == IF side = "left" THEN "negative" ELSE "positive"

\* avl_rotate_left and avl_rotate_right of x, whose higher child is on this
\* side.
avl_rotate(u, side, x, child, h) ==
  LET u1   == rotate(u, other(side), x, child, h)
      even == u1.tag[child] = lean(side)
  IN  set_tag(set_tag(u1, x, IF even THEN "zero" ELSE lean(side)),
              child, IF even THEN "zero" ELSE lean(other(side)))

\* Also with its two arguments exchanged: c was on the other side of b.
left_right_balancing(u, side, a, b, c) ==
  LET bal == u.tag[c]
      u1  == set_tag(u, a, IF bal = lean(side) THEN lean(other(side)) ELSE "zero")
      u2  == set_tag(u1, b, IF bal = lean(other(side)) THEN lean(side) ELSE "zero")
  IN  set_tag(u2, c, "zero")

\* avl_rotate_left_right and avl_rotate_right_left: c comes up over a and b.
avl_rotate_twice(u, side, a, b, h) ==
  LET c  == u[other(side)][b]
      u1 == rotate_no_parent_fix(u, side, b, c)
  IN  left_right_balancing(rotate(u1, other(side), a, c, h), side, a, b, c)
-----------------------------------------------------------------------------
RECURSIVE rebalance_above(_, _, _), avl_restore_invariants(_, _, _, _)

\* One round of the loop of rebalance_after_insertion: x has become higher.
rebalance_above(u, h, x) ==
  LET xp   == u.parent[x]
      side == IF x = u.left[xp] THEN "left" ELSE "right"
  IN  IF x = u.parent[h] THEN u
      ELSE IF u.tag[xp] = "zero" THEN rebalance_above(set_tag(u, xp, lean(side)), h, xp)
      ELSE IF u.tag[xp] = lean(other(side)) THEN set_tag(u, xp, "zero")
      ELSE IF u.tag[x] = lean(other(side)) THEN avl_rotate_twice(u, side, xp, x, h)
      ELSE avl_rotate(u, side, xp, x, h)

avl_rebalance_after_insertion(u, h, x) == rebalance_above(set_tag(u, x, "zero"), h, x)

\* One round: the subtree x, below xp, has become lower.
avl_restore_invariants(u, h, x, xp) ==
  LET high  == IF u.tag[xp] = "negative" THEN "left" ELSE "right"
      w     == u[high][xp]
      twice == u.tag[w] = lean(other(high))
      top   == IF twice THEN u[other(high)][w] ELSE w
      u1    == IF twice THEN avl_rotate_twice(u, high, xp, w, h)
                        ELSE avl_rotate(u, high, xp, w, h)
  IN  IF x = u.parent[h] THEN u
      ELSE IF u.tag[xp] = "zero"
      THEN set_tag(u, xp, IF x = u.right[xp] THEN "negative" ELSE "positive")
      ELSE IF x = w THEN avl_restore_invariants(set_tag(u, xp, "zero"), h, xp, u.parent[xp])
      ELSE IF u1.tag[top] = lean(other(high)) THEN u1
      ELSE avl_restore_invariants(u1, h, top, u1.parent[top])

avl_rebalance_after_erasure(u, h, z, info) ==
  LET u1 == IF info.y # z THEN set_tag(u, info.y, u.tag[z]) ELSE u
  IN  avl_restore_invariants(u1, h, info.x, info.x_parent)
-----------------------------------------------------------------------------
(* What the checker of avltree_algorithms asserts of every node: the       *)
(* heights of its subtrees differ as its balance says, by one at most.     *)

height(u, x) ==
  LET high[n \in Pointers(u)] ==
        IF n = Null THEN 0
        ELSE LET l == high[u.left[n]] r == high[u.right[n]]
             IN  1 + IF l > r THEN l ELSE r
  IN  high[x]

avl_checked(u, h, n) ==
  LET l == height(u, u.left[n])
      r == height(u, u.right[n])
  IN  \/ u.tag[n] = "negative" /\ l = r + 1
      \/ u.tag[n] = "zero" /\ l = r
      \/ u.tag[n] = "positive" /\ r = l + 1
=============================================================================
