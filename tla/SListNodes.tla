----------------------------- MODULE SListNodes -----------------------------
(***************************************************************************)
(* The loop-free algorithms of circular_slist_algorithms and               *)
(* linear_slist_algorithms (both derived from common_slist_algorithms) as  *)
(* operators on a heap h, whose only field h.next maps every node to its   *)
(* next_.  The last node of a circular list points to the header, the last *)
(* node of a linear one to nothing.                                        *)
(***************************************************************************)
EXTENDS Naturals, Sequences, NodePtr

CONSTANT Linear        \* which of the two algorithms the list uses

get_next(h, n)    == h.next[n]
set_next(h, n, v) == [next |-> [h.next EXCEPT ![n] = v]]

init(h, n)        == set_next(h, n, Null)
inited(h, n)      == get_next(h, n) = Null
end_node(p)       == IF Linear THEN Null ELSE p
init_header(h, p) == set_next(h, p, end_node(p))
is_empty(h, p)    == get_next(h, p) = end_node(p)
-----------------------------------------------------------------------------
(* Traversals.                                                             *)

\* The node before n, looked for from p on.
get_previous_node(h, p, n) ==
  LET from[q \in DOMAIN h.next] ==
        IF get_next(h, q) = n THEN q ELSE from[get_next(h, q)]
  IN  from[p]

\* The nodes of [b, e), in order.
between(h, b, e) ==
  LET from[q \in DOMAIN h.next \cup {Null}] ==
        IF q = e THEN <<>> ELSE <<q>> \o from[get_next(h, q)]
  IN  from[b]

distance(h, f, l) == Len(between(h, f, l))
count(h, p)       == 1 + Len(between(h, get_next(h, p), end_node(p)))
-----------------------------------------------------------------------------
(* Linking and unlinking.                                                  *)

\* unlink_after(p, l) cuts everything between p and l out.
unlink_range_after(h, p, l) == set_next(h, p, l)
unlink_after(h, p) == unlink_range_after(h, p, get_next(h, get_next(h, p)))

link_after(h, p, n) == set_next(set_next(h, n, get_next(h, p)), p, n)

incorporate_after(h, bp, b, be) ==
  set_next(set_next(h, bp, b), be, get_next(h, bp))

\* (bb, be] goes behind bp.
transfer_after(h, bp, bb, be) ==
  LET h1 == set_next(h, bb, get_next(h, be))
      h2 == set_next(h1, be, get_next(h, bp))
  IN  IF bp # bb /\ bp # be /\ bb # be
      THEN set_next(h2, bp, get_next(h, bb)) ELSE h

\* circular_slist_algorithms::unlink, which looks for the predecessor.
unlink(h, n) ==
  IF inited(h, n) THEN h ELSE unlink_after(h, get_previous_node(h, n, n))

\* circular_slist_algorithms::swap_nodes.
swap_nodes(h, a, b) ==
  LET an == get_next(h, a)
      bn == get_next(h, b)
      h1 == IF bn \in {Null, b} THEN h
            ELSE set_next(h, IF an = b THEN b ELSE get_previous_node(h, b, b), a)
      h2 == IF an \in {Null, a} THEN h1
            ELSE set_next(h1, IF bn = a THEN a ELSE get_previous_node(h1, a, a), b)
      h3 == set_next(h2, a, IF bn = b THEN a ELSE IF bn = a THEN b ELSE bn)
  IN  IF a = b THEN h
      ELSE set_next(h3, b, IF an = a THEN b ELSE IF an = b THEN a ELSE an)

\* linear_slist_algorithms::swap_trailing_nodes.
swap_trailing_nodes(h, a, b) ==
  set_next(set_next(h, a, get_next(h, b)), b, get_next(h, a))

=============================================================================
