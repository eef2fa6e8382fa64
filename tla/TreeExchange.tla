---------------------------- MODULE TreeExchange ----------------------------
(***************************************************************************)
(* The algorithms of bstree_algorithms (bstree_algorithms.hpp) that        *)
(* exchange nodes or trees without comparing anything, on the heaps of     *)
(* TreeNodes.  The tag goes with the place in the tree, as in              *)
(* rbtree_algorithms and avltree_algorithms.                               *)
(***************************************************************************)
EXTENDS TreeNodes

LOCAL INSTANCE FiniteSets
LOCAL INSTANCE SequencesExt

Links == {"parent", "left", "right"}

\* if(a == get_f(h)) set_f(h, b), for one link f, and for all of them.
redirect(t, f, h, a, b)  == IF t[f][h] = a THEN [t EXCEPT ![f][h] = b] ELSE t
redirect_all(t, h, a, b) ==
  redirect(redirect(redirect(t, "left", h, a, b), "right", h, a, b), "parent", h, a, b)

\* In one tree each link of the header leads to at most one of the two.
redirect_both(t, f, h, a, b) ==
  IF t[f][h] = a THEN redirect(t, f, h, a, b) ELSE redirect(t, f, h, b, a)

\* p is the parent of c: both get a link to themselves, which the exchange
\* of all links turns into one to each other.
knot(t, p, c) ==
  LET t1 == set_parent(t, c, c)
  IN  IF t.right[p] = c THEN set_right(t1, p, p) ELSE set_left(t1, p, p)

exchange(t, f, a, b) == [t EXCEPT ![f][a] = t[f][b], ![f][b] = t[f][a]]

adopt_children(t, n) == LET t1 == adopt(t, t.left[n], n) IN adopt(t1, t1.right[n], n)

\* The parent of a node new in its place forgets the one it replaces; a
\* header has been taken care of before.
replace_child(t, old, new, header) ==
  LET p == t.parent[new]
  IN  IF p = Null \/ p = header THEN t
      ELSE redirect(redirect(t, "left", p, old, new), "right", p, old, new)

swap_nodes(t, a, h1, b, h2) ==
  LET t1 == IF h1 # h2 THEN redirect_all(redirect_all(t, h1, a, b), h2, b, a)
            ELSE redirect_both(redirect_both(redirect_both(t, "left", h1, a, b),
                                             "right", h1, a, b), "parent", h1, a, b)
      t2 == IF h1 # h2 THEN t1
            ELSE IF t1.parent[b] = a THEN knot(t1, a, b)
            ELSE IF t1.parent[a] = b THEN knot(t1, b, a) ELSE t1
      t3 == exchange(exchange(exchange(t2, "left", a, b), "right", a, b), "parent", a, b)
      t4 == adopt_children(adopt_children(t3, a), b)
      p  == t4.parent[a]
      t5 == IF p = t4.parent[b]
            THEN [t4 EXCEPT !.left[p] = t4.right[p], !.right[p] = t4.left[p]]
            ELSE replace_child(replace_child(t4, b, a, h2), a, b, h1)
  IN  IF a = b THEN t ELSE exchange(t5, "tag", a, b)

replace_node(t, old, h, new) ==
  LET t1 == redirect_all(t, h, old, new)
      t2 == [t1 EXCEPT !.left[new] = t1.left[old], !.right[new] = t1.right[old],
                       !.parent[new] = t1.parent[old]]
  IN  set_tag(replace_child(adopt_children(t2, new), old, new, h), new, t.tag[old])

\* Mutant: the header of an empty tree keeps the first and last it was given.
own_root_only(t, h) == IF t.parent[h] # Null THEN set_parent(t, t.parent[h], h) ELSE t

\* A header of an empty tree is its own first and last node.
own(t, h) == IF t.parent[h] # Null THEN set_parent(t, t.parent[h], h)
             ELSE set_right(set_left(t, h, h), h, h)

swap_tree(t, h1, h2) ==
  IF h1 = h2 THEN t
  ELSE own(own(exchange(exchange(exchange(t, "parent", h1, h2), "left", h1, h2),
                        "right", h1, h2), h1), h2)

\* Mutant: the right child is taken for the next element.
unlink_leftmost_for_child(t, h) ==
  LET n == t.left[h]
      p == t.parent[n]
      r == t.right[n]
      t1 == set_left(set_parent(t, r, p), h, r)
  IN  IF r # Null THEN IF p = h THEN set_parent(t1, h, r)
                                ELSE set_left(t1, t1.parent[h], r)
      ELSE IF p = h THEN init_header(t, h)
      ELSE set_left(set_left(t, p, Null), h, p)

\* Returns the heap; the node that is unlinked is the first one.  Below the
\* root only the links that the next call reads are kept right.
unlink_leftmost_without_rebalance(t, h) ==
  LET n == t.left[h]
      p == t.parent[n]
      r == t.right[n]
      t1 == set_left(set_parent(t, r, p), h, minimum(t, r))
  IN  IF r # Null THEN IF p = h THEN set_parent(t1, h, r)
                                ELSE set_left(t1, t1.parent[h], r)
      ELSE IF p = h THEN init_header(t, h)
      ELSE set_left(set_left(t, p, Null), h, p)
-----------------------------------------------------------------------------
(* Trees in every shape that insertions can give them, as the starting     *)
(* points of the modules about one call on a tree.                         *)

Orders(S) == {o \in [1..Cardinality(S) -> S] : IsInjective(o)}

\* Hooks in the default state and headers of empty trees.
NewTrees(nodes, headers) ==
  LET At(x) == [n \in nodes \cup headers |-> IF n \in headers THEN n ELSE x]
  IN  [parent |-> [n \in nodes \cup headers |-> Null], left |-> At(Null),
       right |-> At(Null), tag |-> [n \in nodes \cup headers |-> "none"]]

\* insert_equal of a range of elements.
Grown(t, h, order) ==
  FoldLeft(LAMBDA u, n : insert_commit(u, h, n, insert_equal_upper_bound_check(u, h, n)),
           t, order)

\* The elements below x in the order of the tree, at most limit levels deep.
InOrder(t, x, limit) ==
  LET below[n \in Pointers(t), d \in Nat] ==
        IF n = Null \/ d = 0 THEN <<>>
        ELSE below[t.left[n], d - 1] \o <<n>> \o below[t.right[n], d - 1]
  IN  below[x, limit]
=============================================================================
