----------------------------- MODULE SplayTree -----------------------------
(***************************************************************************)
(* splaytree_algorithms (include/boost/intrusive/splaytree_algorithms.hpp) *)
(* with its simple splaying, the one the library instantiates: how a node  *)
(* is brought to the root from below and a key from above.                 *)
(***************************************************************************)
EXTENDS TreeNodes

RECURSIVE splayed_up(_, _, _), splaying(_, _, _)

\* rotate(n): n goes up over its parent.
splay_rotate(u, n) ==
  LET p  == u.parent[n]
      g  == u.parent[p]
      u1 == set_parent(IF u.left[p] = n THEN rotate_right_no_parent_fix(u, p, n)
                                        ELSE rotate_left_no_parent_fix(u, p, n), n, g)
  IN  IF is_header(u, g)
      THEN IF u1.parent[g] = p THEN set_parent(u1, g, n) ELSE set_right(u1, g, n)
      ELSE IF u1.left[g] = p THEN set_left(u1, g, n) ELSE set_right(u1, g, n)

\* Mutant: the last round, when the grandparent is the header, is missed.
splayed_up_near(u, h, n) ==
  LET p == u.parent[n]
      g == u.parent[p]
      straight == \E side \in {"left", "right"} : u[side][p] = n /\ u[side][g] = p
  IN  IF p = h \/ g = h THEN u
      ELSE splayed_up(splay_rotate(IF straight THEN splay_rotate(u, p) ELSE u, n), h, n)

\* The rounds of priv_splay_up: zig, zig-zig and zig-zag.
splayed_up(u, h, n) ==
  LET p == u.parent[n]
      g == u.parent[p]
      straight == \E side \in {"left", "right"} : u[side][p] = n /\ u[side][g] = p
  IN  IF p = h THEN u
      ELSE IF g # h /\ straight THEN splayed_up(splay_rotate(splay_rotate(u, p), n), h, n)
      ELSE splayed_up(splay_rotate(u, n), h, n)

\* For the header it is the last node that comes up.
splay_up(u, h, n) ==
  LET m == IF n = h THEN u.right[h] ELSE n
  IN  IF m = h THEN u ELSE splayed_up(u, h, m)
-----------------------------------------------------------------------------
(* The tree is taken apart on the way down: x is the root of what is left  *)
(* of it, l the greatest node of a tree of smaller and r the least node of *)
(* one of greater elements, both of which hang on the header.              *)

\* link_right on the way to the left, link_left on the way to the right.
link_side(s, side) ==
  LET end == IF side = "left" THEN "r" ELSE "l"
  IN  [s EXCEPT !.u[side][s[end]] = s.x, !.u.parent[s.x] = s[end],
                ![end] = s.x, !.x = s.u[side][s.x]]

\* The loop of priv_splay_down, of which a comparison stops round rounds + 1
\* at the latest by throwing; no round changes a link before its comparisons.
splaying(s, key, rounds) ==
  LET side   == IF key < Key[s.x] THEN "left" ELSE "right"
      child  == s.u[side][s.x]
      beyond == IF side = "left" THEN key < Key[child] ELSE Key[child] < key
      turned == [s EXCEPT !.u = rotate_no_parent_fix(s.u, other(side), s.x, child),
                          !.x = child]
  IN  IF rounds = 0 \/ key = Key[s.x] \/ child = Null THEN s
      ELSE IF ~beyond THEN splaying(link_side(s, side), key, rounds - 1)
      ELSE IF turned.u[side][child] = Null THEN turned
      ELSE splaying(link_side(turned, side), key, rounds - 1)

\* assemble: the children of x go below l and r, and the two trees below x.
assemble(s, h) ==
  LET xl == s.u.left[s.x]
      xr == s.u.right[s.x]
      u1 == adopt(adopt(set_left(set_right(s.u, s.l, xl), s.r, xr), xl, s.l), xr, s.r)
      smaller == u1.right[h]
      greater == u1.left[h]
  IN  adopt(adopt(set_right(set_left(u1, s.x, smaller), s.x, greater), smaller, s.x),
            greater, s.x)

\* The destructor of splaydown_assemble_and_fix_header, for a key that was
\* found, one that is missing and a comparison that threw alike.
splay_down(u, h, key, rounds) ==
  LET s == splaying([u |-> set_right(set_left(u, h, Null), h, Null),
                     x |-> u.parent[h], l |-> h, r |-> h], key, rounds)
      v == set_parent(set_parent(assemble(s, h), h, s.x), s.x, h)
  IN  IF u.left[h] = u.right[h] THEN u
      ELSE set_right(set_left(v, h, u.left[h]), h, u.right[h])

\* erase brings up the node before z first.
splay_before_erasure(u, h, z) == IF u.left[z] = Null THEN u
                                 ELSE splay_up(u, h, prev_node(u, z))
=============================================================================
