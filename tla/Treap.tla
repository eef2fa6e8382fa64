------------------------------- MODULE Treap -------------------------------
(***************************************************************************)
(* treap_algorithms (include/boost/intrusive/treap_algorithms.hpp): the    *)
(* rotations by which a treap keeps the elements of higher priority above  *)
(* the others.  The comparison of priorities, which puts the higher one    *)
(* first, may throw.                                                       *)
(***************************************************************************)
EXTENDS TreeNodes

CONSTANT Priority            \* the priority of every element, 1 the highest

pcomp(a, b) == Priority[a] < Priority[b]

RECURSIVE rotate_up_n(_, _, _, _), rebalance_for_erasure(_, _, _, _)

\* rebalance_after_insertion_check: how many nodes from up on the element n
\* has to pass.
num_rotations(u, h, up, n) ==
  LET count[x \in Addresses(u)] == IF x = h \/ ~pcomp(n, x) THEN 0
                                   ELSE 1 + count[u.parent[x]]
  IN  count[up]

rotate_up_n(u, h, p, n) ==
  LET q == u.parent[p]
  IN  IF n = 0 THEN u
      ELSE rotate_up_n(rotate(u, IF p = u.left[q] THEN "right" ELSE "left", q, p, h),
                       h, p, n - 1)

treap_rebalance_after_insertion(u, h, n) ==
  rotate_up_n(u, h, n, num_rotations(u, h, u.parent[n], n))

\* At most n rounds of the loop: z goes down below its higher child.
rebalance_for_erasure(u, h, z, n) ==
  LET l == u.left[z]
      r == u.right[z]
  IN  IF n = 0 \/ (l = Null /\ r = Null) THEN u
      ELSE IF r = Null \/ (l # Null /\ pcomp(l, r))
      THEN rebalance_for_erasure(rotate(u, "right", z, l, h), h, z, n - 1)
      ELSE rebalance_for_erasure(rotate(u, "left", z, r, h), h, z, n - 1)

\* Mutant: the last rotation has not been counted when the comparison throws.
rerotated_short(u, h, z, n) ==
  rotate_up_n(rebalance_for_erasure(u, h, z, n), h, z, IF n = 0 THEN 0 ELSE n - 1)

\* rerotate_on_destroy: the comparison after n rotations has thrown.
rerotated(u, h, z, n) == rotate_up_n(rebalance_for_erasure(u, h, z, n), h, z, n)

\* The numbers of rotations, up to a limit, after which priorities are compared.
comparisons(u, h, z, limit) ==
  {n \in 0..limit : LET v == rebalance_for_erasure(u, h, z, n)
                    IN  v.left[z] # Null /\ v.right[z] # Null}

\* treap_node_extra_checker: no child is higher.
treap_checked(u, x) ==
  \A side \in {"left", "right"} : u[side][x] = Null \/ ~pcomp(u[side][x], x)
=============================================================================
