----------------------------- MODULE TreeNodes -----------------------------
(***************************************************************************)
(* The algorithms of bstree_algorithms_base and bstree_algorithms          *)
(* (include/boost/intrusive/detail/bstree_algorithms_base.hpp and          *)
(* bstree_algorithms.hpp) as operators on a heap t, a record of functions: *)
(* t.parent, t.left and t.right are the links of every node and header,    *)
(* t.tag is what a balanced tree adds to a node (a colour, a balance).     *)
(* The header's parent is the root, its left and right are the first and   *)
(* the last node.  A loop is a recursive function of its variables.        *)
(***************************************************************************)
EXTENDS Naturals, Sequences

CONSTANTS Null,        \* node_ptr()
          Key          \* the key of every element, which the comparison reads

set_parent(t, n, v) == [t EXCEPT !.parent[n] = v]
set_left(t, n, v)   == [t EXCEPT !.left[n] = v]
set_right(t, n, v)  == [t EXCEPT !.right[n] = v]
set_tag(t, n, v)    == [t EXCEPT !.tag[n] = v]

\* if(x) set_parent(x, p)
adopt(t, x, p) == IF x = Null THEN t ELSE set_parent(t, x, p)

init(t, n)        == set_right(set_left(set_parent(t, n, Null), n, Null), n, Null)
inited(t, n)      == t.parent[n] = Null /\ t.left[n] = Null /\ t.right[n] = Null
init_header(t, h) == set_right(set_left(set_parent(t, h, Null), h, h), h, h)
unique(t, n)      == t.parent[n] = Null

Addresses(t) == DOMAIN t.parent
Pointers(t)  == Addresses(t) \cup {Null}
-----------------------------------------------------------------------------
(* Navigation.                                                             *)

minimum(t, n) ==
  LET down[m \in Addresses(t)] == IF t.left[m] = Null THEN m ELSE down[t.left[m]]
  IN  down[n]

maximum(t, n) ==
  LET down[m \in Addresses(t)] == IF t.right[m] = Null THEN m ELSE down[t.right[m]]
  IN  down[n]

\* Mutant: a header whose only element is both its first and last is missed.
is_header_by_parents(t, p) ==
  LET l == t.left[p]
      r == t.right[p]
  IN  \/ t.parent[p] = Null
      \/ l # Null /\ r # Null /\ (t.parent[l] # p \/ t.parent[r] # p)

\* A header is known by its links alone.
is_header(t, p) ==
  LET l == t.left[p]
      r == t.right[p]
  IN  \/ t.parent[p] = Null
      \/ /\ l # Null /\ r # Null
         /\ l = r \/ t.parent[l] # p \/ t.parent[r] # p

next_node(t, n) ==
  LET climb[m \in Addresses(t)] == IF t.right[t.parent[m]] = m
                                   THEN climb[t.parent[m]] ELSE m
      top == climb[n]
  IN  IF t.right[n] # Null THEN minimum(t, t.right[n])
      ELSE IF t.right[top] # t.parent[top] THEN t.parent[top] ELSE top

prev_node(t, n) ==
  LET climb[m \in Addresses(t)] == IF t.left[t.parent[m]] = m
                                   THEN climb[t.parent[m]] ELSE t.parent[m]
  IN  IF is_header(t, n) THEN t.right[n]
      ELSE IF t.left[n] # Null THEN maximum(t, t.left[n]) ELSE climb[n]

\* The root is the node whose grandparent it is itself; so is the header.
get_header(t, n) ==
  LET up[m \in Addresses(t)] == IF t.parent[t.parent[m]] = m THEN t.parent[m]
                                ELSE up[t.parent[m]]
      p == t.parent[n]
  IN  IF p = Null THEN n
      ELSE IF t.parent[p] # n THEN up[p]
      ELSE IF is_header(t, n) THEN n ELSE p
-----------------------------------------------------------------------------
(* Searching.  bound follows lower_bound_loop and upper_bound_loop, which  *)
(* differ in the nodes that send the search to the right.                  *)

bound(t, x0, y0, right(_)) ==
  LET loop[x \in Pointers(t), y \in Addresses(t)] ==
        IF x = Null THEN y
        ELSE IF right(x) THEN loop[t.right[x], y] ELSE loop[t.left[x], x]
  IN  loop[x0, y0]

\* Mutant: an equal key sends the search to the right.
lower_bound_loop_strict(t, x, y, key) == bound(t, x, y, LAMBDA n : ~(key < Key[n]))

lower_bound_loop(t, x, y, key) == bound(t, x, y, LAMBDA n : Key[n] < key)
upper_bound_loop(t, x, y, key) == bound(t, x, y, LAMBDA n : ~(key < Key[n]))

lower_bound(t, h, key) == lower_bound_loop(t, t.parent[h], h, key)
upper_bound(t, h, key) == upper_bound_loop(t, t.parent[h], h, key)

find(t, h, key) == LET y == lower_bound(t, h, key)
                   IN  IF y = h \/ key < Key[y] THEN h ELSE y

bounded_range(t, h, lower, upper, left_closed, right_closed) ==
  LET loop[x \in Pointers(t), y \in Addresses(t)] ==
        IF x = Null THEN <<y, y>>
        ELSE IF Key[x] < lower THEN loop[t.right[x], y]
        ELSE IF upper < Key[x] THEN loop[t.left[x], x]
        ELSE << IF left_closed THEN lower_bound_loop(t, t.left[x], x, lower)
                               ELSE upper_bound_loop(t, x, y, lower),
                IF right_closed THEN upper_bound_loop(t, t.right[x], y, upper)
                                ELSE lower_bound_loop(t, x, y, upper) >>
  IN  loop[t.parent[h], h]

equal_range(t, h, key) == bounded_range(t, h, key, key, TRUE, TRUE)
-----------------------------------------------------------------------------
(* Where an element goes: insert_commit_data.                              *)

commit_data(node, link_left) == [node |-> node, link_left |-> link_left]

\* The node under which a search ends that goes left at the nodes for which
\* left holds; the header if the tree is empty.
leaf(t, h, left(_)) ==
  LET loop[x \in Pointers(t), y \in Addresses(t)] ==
        IF x = Null THEN y
        ELSE loop[IF left(x) THEN t.left[x] ELSE t.right[x], x]
  IN  loop[t.parent[h], h]

insert_equal_upper_bound_check(t, h, n) ==
  LET y == leaf(t, h, LAMBDA x : Key[n] < Key[x])
  IN  commit_data(y, y = h \/ Key[n] < Key[y])

insert_equal_lower_bound_check(t, h, n) ==
  LET y == leaf(t, h, LAMBDA x : ~(Key[x] < Key[n]))
  IN  commit_data(y, y = h \/ ~(Key[y] < Key[n]))

\* In front of pos.
insert_before_check(t, h, pos) ==
  LET prev == IF pos # t.left[h] THEN prev_node(t, pos) ELSE pos
      link_left == unique(t, h) \/ t.left[pos] = Null
  IN  commit_data(IF link_left THEN pos ELSE prev, link_left)

insert_equal_check(t, h, hint, n) ==
  IF hint = h \/ ~(Key[hint] < Key[n])
  THEN IF hint = t.left[h] \/ ~(Key[n] < Key[prev_node(t, hint)])
       THEN insert_before_check(t, h, hint)
       ELSE insert_equal_upper_bound_check(t, h, n)
  ELSE insert_equal_lower_bound_check(t, h, n)

\* The pair the code returns and the commit data: not_present, prev, commit.
insert_unique_check(t, h, key) ==
  LET loop[x \in Pointers(t), prev \in Pointers(t)] ==
        IF x = Null THEN prev
        ELSE IF key < Key[x] THEN loop[t.left[x], prev] ELSE loop[t.right[x], x]
      prev == loop[t.parent[h], Null]
      y == leaf(t, h, LAMBDA x : key < Key[x])
  IN  [prev |-> prev,
       not_present |-> prev = Null \/ Key[prev] < key,
       commit |-> commit_data(y, y = h \/ key < Key[y])]

insert_unique_hint_check(t, h, hint, key) ==
  IF /\ hint = h \/ key < Key[hint]
     /\ hint = t.left[h] \/ Key[prev_node(t, hint)] < key
  THEN [prev |-> Null, not_present |-> TRUE,
        commit |-> insert_before_check(t, h, hint)]
  ELSE insert_unique_check(t, h, key)

push_back_check(t, h)  == commit_data(t.right[h], FALSE)
push_front_check(t, h) == commit_data(t.left[h], TRUE)

insert_commit(t, h, n, commit) ==
  LET p == commit.node
      linked ==
        IF p = h THEN set_left(set_right(set_parent(t, h, n), h, n), h, n)
        ELSE IF commit.link_left
        THEN LET t1 == set_left(t, p, n)
             IN  IF p = t1.left[h] THEN set_left(t1, h, n) ELSE t1
        ELSE LET t1 == set_right(t, p, n)
             IN  IF p = t1.right[h] THEN set_right(t1, h, n) ELSE t1
  IN  set_left(set_right(set_parent(linked, n, p), n, Null), n, Null)
-----------------------------------------------------------------------------
(* Rotation and erasure.                                                   *)

set_child(t, h, child, p, link_left) ==
  IF p = h THEN set_parent(t, h, child)
  ELSE IF link_left THEN set_left(t, p, child) ELSE set_right(t, p, child)

rotate_left_no_parent_fix(t, p, p_right) ==
  LET middle == t.left[p_right]
      t1 == adopt(set_right(t, p, middle), middle, p)
  IN  set_parent(set_left(t1, p_right, p), p, p_right)

rotate_right_no_parent_fix(t, p, p_left) ==
  LET middle == t.right[p_left]
      t1 == adopt(set_left(t, p, middle), middle, p)
  IN  set_parent(set_right(t1, p_left, p), p, p_left)

rotate_left(t, p, p_right, p_parent, h) ==
  LET t1 == rotate_left_no_parent_fix(t, p, p_right)
  IN  set_child(set_parent(t1, p_right, p_parent), h, p_right, p_parent,
                t.left[p_parent] = p)

rotate_right(t, p, p_left, p_parent, h) ==
  LET t1 == rotate_right_no_parent_fix(t, p, p_left)
  IN  set_child(set_parent(t1, p_left, p_parent), h, p_left, p_parent,
                t.left[p_parent] = p)

\* z has two children: its successor y takes its place, and x that of y.
erase_inner(t, h, z) ==
  LET y == minimum(t, t.right[z])
      x == t.right[y]
      p == t.parent[z]
      near == y = t.right[z]
      x_parent == IF near THEN y ELSE t.parent[y]
      t1 == set_left(set_parent(t, t.left[z], y), y, t.left[z])
      t2 == set_parent(set_right(t1, y, t.right[z]), t.right[z], y)
      t3 == IF near THEN t1 ELSE set_left(adopt(t2, x, x_parent), x_parent, x)
  IN  [x |-> x, x_parent |-> x_parent, y |-> y,
       t |-> set_child(set_parent(t3, y, p), h, y, p, t.left[p] = z)]

\* z has at most one child x, which takes its place; z may be first or last.
erase_outer(t, h, z) ==
  LET x  == IF t.left[z] = Null THEN t.right[z] ELSE t.left[z]
      p  == t.parent[z]
      t1 == set_child(adopt(t, x, p), h, x, p, t.left[p] = z)
      first == IF t.right[z] = Null THEN p ELSE minimum(t1, t.right[z])
      last  == IF t.left[z] = Null THEN p ELSE maximum(t1, t.left[z])
      t2 == IF t1.left[h] = z THEN set_left(t1, h, first) ELSE t1
  IN  [x |-> x, x_parent |-> p, y |-> z,
       t |-> IF t2.right[h] = z THEN set_right(t2, h, last) ELSE t2]

\* The heap after the erasure, and the data_for_rebalance.
erase_node(t, h, z) == IF t.left[z] # Null /\ t.right[z] # Null
                       THEN erase_inner(t, h, z) ELSE erase_outer(t, h, z)
-----------------------------------------------------------------------------
(* The balancing algorithms write each case twice, "same as above, with    *)
(* right_ <-> left_".  Here a side is the name of a link: p goes down to   *)
(* this side of its child on the other side.                               *)

other(side) == IF side = "left" THEN "right" ELSE "left"

rotate(t, side, p, child, h) ==
  IF side = "left" THEN rotate_left(t, p, child, t.parent[p], h)
                   ELSE rotate_right(t, p, child, t.parent[p], h)

rotate_no_parent_fix(t, side, p, child) ==
  IF side = "left" THEN rotate_left_no_parent_fix(t, p, child)
                   ELSE rotate_right_no_parent_fix(t, p, child)
=============================================================================
