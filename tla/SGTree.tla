------------------------------- MODULE SGTree -------------------------------
(***************************************************************************)
(* Rebuilding a subtree as bstree_algorithms does, and sgtree_algorithms   *)
(* (include/boost/intrusive/sgtree_algorithms.hpp), which rebuilds a       *)
(* subtree or the whole tree when an insertion has gone too deep, and the  *)
(* whole tree when too many elements have gone, with the heights and sizes *)
(* of sgtree.hpp for floating_point<false>: alpha is 1/sqrt(2).  Besides   *)
(* its links a tree has u.max_tree_size, of every header.                  *)
(***************************************************************************)
EXTENDS TreeNodes

RECURSIVE subtree_to_vine(_, _, _, _), compress_subtree(_, _, _),
          compressed(_, _, _), parents_updated(_, _, _), scapegoat(_, _, _, _, _)

floor_log2(n) == CHOOSE k \in 0..n : 2^k <= n /\ n < 2^(k + 1)

\* Right rotations from the tail on; the parents are left to the last pass.
subtree_to_vine(u, tail, rest, len) ==
  LET l == u.left[rest]
  IN  IF rest = Null THEN [u |-> u, size |-> len]
      ELSE IF l = Null THEN subtree_to_vine(u, rest, u.right[rest], len + 1)
      ELSE subtree_to_vine([u EXCEPT !.left[rest] = u.right[l], !.right[l] = rest,
                                     !.right[tail] = l], tail, l, len)

compress_subtree(u, scanner, count) ==
  LET child == u.right[scanner]
      next  == u.right[child]
      inner_child == u.left[next]
      u1 == [u EXCEPT !.right[scanner] = next, !.right[child] = inner_child]
  IN  IF count = 0 THEN u
      ELSE compress_subtree(set_parent(set_left(adopt(u1, inner_child, child), next, child),
                                       child, next), next, count - 1)

\* while(vine_nodes > 1)
compressed(u, top, nodes) ==
  IF nodes <= 1 THEN u
  ELSE compressed(compress_subtree(u, top, nodes \div 2), top, nodes \div 2)

parents_updated(u, q, p) ==
  IF p = Null THEN u ELSE parents_updated(set_parent(u, p, q), p, u.right[p])

vine_to_subtree(u, top, count) ==
  LET leaves == count + 1 - 2^floor_log2(count + 1)
      u1 == compressed(compress_subtree(u, top, leaves), top, count - leaves)
  IN  parents_updated(u1, top, u1.right[top])

\* The subtree is rebuilt as the right one of its parent, whatever it is.
rebalance_subtree(u, root) ==
  LET top  == u.parent[root]
      vine == subtree_to_vine(set_right(u, top, root), top, root, 0)
      v    == vine_to_subtree(vine.u, top, vine.size)
      new_root == v.right[top]
  IN  IF u.parent[top] = root THEN set_parent(set_right(v, top, u.right[top]), top, new_root)
      ELSE IF u.right[top] = root THEN v
      ELSE set_left(set_right(v, top, u.right[top]), top, new_root)

rebalance(u, h) == IF u.parent[h] = Null THEN u ELSE rebalance_subtree(u, u.parent[h])
-----------------------------------------------------------------------------
\* The number of edges above n: the root is the grandparent of itself.
depth(u, n) ==
  LET edges[x \in Addresses(u)] == IF u.parent[u.parent[x]] = x THEN 0
                                   ELSE 1 + edges[u.parent[x]]
  IN  edges[n]

subtree_size(u, x) ==
  LET nodes[y \in Pointers(u)] == IF y = Null THEN 0
                                  ELSE nodes[u.left[y]] + 1 + nodes[u.right[y]]
  IN  nodes[x]

\* The least number that is greater than the power of sqrt(2).
sqrt2_pow_2xplus1(x) ==
  CHOOSE k \in 1..2^(x + 1) : k * k > 2^(2 * x + 1) /\ (k - 1) * (k - 1) <= 2^(2 * x + 1)

h_alpha(n) == 2 * floor_log2(n) +
              (IF n >= sqrt2_pow_2xplus1(floor_log2(n)) THEN 1 ELSE 0)

alpha_by_maxsize(n) == (n * 3) \div 4

\* The ancestor to rebuild, from s upwards: the first with a node too far
\* below it, the root if there is none on the way.
scapegoat(u, s, size, ancestor, deep) ==
  LET p == u.parent[s]
      sibling == IF u.left[p] = s THEN u.right[p] ELSE u.left[p]
      larger == size + 1 + subtree_size(u, sibling)
  IN  IF ancestor = deep \/ ancestor > h_alpha(larger) THEN p
      ELSE scapegoat(u, p, larger, ancestor + 1, deep)

\* The tree has now size elements, the new one x among them.
sg_rebalance_after_insertion(u, h, x, size) ==
  LET u1 == [u EXCEPT !.max_tree_size[h] = IF size > @ THEN size ELSE @]
      s  == scapegoat(u1, x, 1, 1, depth(u1, x))
  IN  IF size <= 2 \/ depth(u1, x) <= h_alpha(size) THEN u1
      ELSE rebalance_subtree([u1 EXCEPT !.max_tree_size[h] = IF s = u1.parent[h] THEN size
                                                             ELSE @], s)

sg_rebalance_after_erasure(u, h, size) ==
  IF size > 0 /\ size < alpha_by_maxsize(u.max_tree_size[h])
  THEN [rebalance(u, h) EXCEPT !.max_tree_size[h] = size] ELSE u

\* What the algorithm relies on: size has not fallen too far below the
\* maximum, and no element is deeper than the maximum allows.
sg_checked(u, h, size, n) ==
  /\ size <= u.max_tree_size[h] /\ size >= alpha_by_maxsize(u.max_tree_size[h])
  /\ depth(u, n) <= h_alpha(u.max_tree_size[h])
=============================================================================
