---------------------------- MODULE CircularList ----------------------------
(***************************************************************************)
(* The loop-free algorithms of circular_list_algorithms<NodeTraits>        *)
(* (include/boost/intrusive/circular_list_algorithms.hpp) as operators on  *)
(* a heap h, a record of two functions: h.next[n] and h.prev[n] are the    *)
(* next_ and prev_ members of node n.  An operator that the code declares  *)
(* void returns the heap after the call.  Every read the code makes is     *)
(* made from the heap of the moment of the read, so that the aliasing      *)
(* cases (neighbouring nodes, empty lists) are the code's own.             *)
(***************************************************************************)
EXTENDS Naturals, NodePtr

get_next(h, n)     == h.next[n]
get_previous(h, n) == h.prev[n]

set_next(h, n, v)     == [next |-> [h.next EXCEPT ![n] = v], prev |-> h.prev]
set_previous(h, n, v) == [next |-> h.next, prev |-> [h.prev EXCEPT ![n] = v]]

init(h, n)        == set_previous(set_next(h, n, Null), n, Null)
inited(h, n)      == get_next(h, n) = Null
init_header(h, n) == set_previous(set_next(h, n, n), n, n)
unique(h, n)      == get_next(h, n) \in {Null, n}

-----------------------------------------------------------------------------
(* Traversals: how many nodes a circle holds, and how many steps lead from *)
(* f to l.                                                                 *)

count(h, n) ==
  LET from[p \in DOMAIN h.next] ==
        1 + IF h.next[p] = n THEN 0 ELSE from[h.next[p]]
  IN  from[n]

distance(h, f, l) ==
  LET from[p \in DOMAIN h.next] == IF p = l THEN 0 ELSE 1 + from[h.next[p]]
  IN  from[f]

-----------------------------------------------------------------------------
(* Linking and unlinking.                                                  *)

unlink(h, n) ==
  LET next == get_next(h, n)
      prev == get_previous(h, n)
  IN  set_previous(set_next(h, prev, next), next, prev)

\* unlink(b, e): cuts [b, e) out, leaving the pointers inside it untouched.
unlink_range(h, b, e) ==
  IF b = e THEN h
  ELSE LET prevb == get_previous(h, b)
       IN  set_next(set_previous(h, e, prevb), prevb, e)

link_before(h, nxt, n) ==
  LET prev == get_previous(h, nxt)
      h1   == set_next(set_previous(h, n, prev), n, nxt)
  IN  set_next(set_previous(h1, nxt, n), prev, n)

link_after(h, prv, n) ==
  LET next == get_next(h, prv)
      h1   == set_next(set_previous(h, n, prv), n, next)
  IN  set_previous(set_next(h1, prv, n), next, n)

swap_next(h, a, b) ==
  set_next(set_next(h, a, get_next(h, b)), b, get_next(h, a))
swap_prev(h, a, b) ==
  set_previous(set_previous(h, a, get_previous(h, b)), b, get_previous(h, a))

\* The swap of two different nodes that are both in some circle.
swap_linked(h, a, b) ==
  LET h1 == swap_prev(h, get_next(h, a), get_next(h, b))
      h2 == swap_next(h1, get_previous(h, a), get_previous(h, b))
  IN  swap_prev(swap_next(h2, a, b), a, b)

\* A node in the default state first becomes a circle of its own, and the
\* node that ends up in that circle is put back into the default state.
swap_nodes(h, a, b) ==
  LET h1 == IF inited(h, a) THEN init_header(h, a) ELSE h
      h2 == IF inited(h, b) THEN init_header(h1, b) ELSE h1
      h3 == swap_linked(h2, a, b)
      h4 == IF inited(h, a) THEN init(h3, b) ELSE h3
  IN  IF a = b THEN h ELSE IF inited(h, b) THEN init(h4, a) ELSE h4

-----------------------------------------------------------------------------
(* Moving a range, or one node, in front of p.                             *)

\* Mutant: without the early return for a range that is in place already.
transfer_always(h, p, b, e) ==
  LET prev_p == get_previous(h, p)
      prev_b == get_previous(h, b)
      prev_e == get_previous(h, e)
      h1 == set_previous(set_next(h, prev_e, p), p, prev_e)
      h2 == set_previous(set_next(h1, prev_b, e), e, prev_b)
  IN  IF b = e THEN h ELSE set_previous(set_next(h2, prev_p, b), b, prev_p)

transfer(h, p, b, e) ==
  IF b = e \/ p = b \/ p = e THEN h
  ELSE LET prev_p == get_previous(h, p)
           prev_b == get_previous(h, b)
           prev_e == get_previous(h, e)
           h1 == set_previous(set_next(h, prev_e, p), p, prev_e)
           h2 == set_previous(set_next(h1, prev_b, e), e, prev_b)
       IN  set_previous(set_next(h2, prev_p, b), b, prev_p)

transfer_one(h, p, i) ==
  LET n == get_next(h, i)
      prev_p == get_previous(h, p)
      prev_i == get_previous(h, i)
      h1 == set_previous(set_next(h, prev_p, i), i, prev_p)
      h2 == set_previous(set_next(h1, i, p), p, i)
  IN  IF n = p \/ i = p THEN h
      ELSE set_next(set_previous(h2, n, prev_i), prev_i, n)
=============================================================================
