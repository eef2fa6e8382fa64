------------------------------- MODULE RBTree -------------------------------
(***************************************************************************)
(* rbtree_algorithms (include/boost/intrusive/rbtree_algorithms.hpp): what *)
(* a red-black tree does after bstree_algorithms has linked or unlinked a  *)
(* node.  The tag of a node is its colour; the header is red.              *)
(***************************************************************************)
EXTENDS TreeNodes

red(u, x)     == x # Null /\ u.tag[x] = "red"
blacken(u, x) == IF x = Null THEN u ELSE set_tag(u, x, "black")
-----------------------------------------------------------------------------
RECURSIVE colours_climb(_, _, _), rb_restore_invariants(_, _, _, _)

\* One round of rebalance_after_insertion at the red node p.
colours_climb(u, h, p) ==
  LET pp    == u.parent[p]
      g     == u.parent[pp]
      side  == IF pp = u.left[g] THEN "left" ELSE "right"
      uncle == u[other(side)][g]
      u1    == set_tag(u, g, "red")
      inner == p # u[side][pp]
      u2    == IF inner THEN rotate_no_parent_fix(u1, side, pp, p) ELSE u1
      top   == IF inner THEN p ELSE pp
  IN  IF pp = h \/ u.tag[pp] = "black" \/ g = h THEN u
      ELSE IF red(u, uncle) THEN colours_climb(blacken(blacken(u1, uncle), pp), h, g)
      ELSE blacken(rotate(u2, other(side), g, top, h), top)

\* Mutant: the root is not painted black in the end.
rb_rebalance_below_root(u, h, p) == colours_climb(set_tag(u, p, "red"), h, p)

rb_rebalance_after_insertion(u, h, p) ==
  LET u1 == colours_climb(set_tag(u, p, "red"), h, p)
  IN  set_tag(u1, u1.parent[h], "black")

\* One round of the loop: the paths through x, below xp, lack a black node.
rb_restore_invariants(u, h, x, xp) ==
  LET side == IF x = u.left[xp] THEN "left" ELSE "right"
      far  == other(side)
      w0   == u[far][xp]
      u1   == IF red(u, w0)
              THEN rotate(set_tag(blacken(u, w0), xp, "red"), side, xp, w0, h) ELSE u
      w    == u1[far][xp]
      u2   == IF red(u1, u1[far][w]) THEN u1
              ELSE rotate(set_tag(blacken(u1, u1[side][w]), w, "red"),
                          far, w, u1[side][w], h)
      v    == u2[far][xp]
      u3   == blacken(set_tag(u2, v, u2.tag[xp]), xp)
  IN  IF xp = h \/ red(u, x) THEN blacken(u, x)
      ELSE IF ~red(u1, u1[side][w]) /\ ~red(u1, u1[far][w])
      THEN rb_restore_invariants(set_tag(u1, w, "red"), h, xp, u1.parent[xp])
      ELSE blacken(rotate(blacken(u3, u3[far][v]), side, xp, v, h), x)

\* The successor y of z has taken its colour along with its place.
rb_rebalance_after_erasure(u, h, z, info) ==
  LET lost == u.tag[info.y]
      u1   == IF info.y # z THEN set_tag(u, info.y, u.tag[z]) ELSE u
  IN  IF lost = "red" THEN u1 ELSE rb_restore_invariants(u1, h, info.x, info.x_parent)
-----------------------------------------------------------------------------
(* What the checker of rbtree_algorithms asserts of every node: a red one  *)
(* has black children and is not the root, and every path down from it     *)
(* passes the same number of black nodes.                                  *)

black_counts(u, x) ==
  LET blacks[n \in Pointers(u)] ==
        IF n = Null THEN {0}
        ELSE {k + (IF u.tag[n] = "black" THEN 1 ELSE 0) :
                k \in blacks[u.left[n]] \cup blacks[u.right[n]]}
  IN  blacks[x]

rb_checked(u, h, n) ==
  /\ \A j, k \in black_counts(u, n) : j = k
  /\ red(u, n) => ~red(u, u.left[n]) /\ ~red(u, u.right[n]) /\ u.parent[h] # n
=============================================================================
