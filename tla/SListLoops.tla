----------------------------- MODULE SListLoops -----------------------------
(***************************************************************************)
(* The operations of slist.hpp that follow a chain of links, added to      *)
(* those of SList: whatever needs the node before another one, erases a    *)
(* range hook by hook, reverses, rotates, fills, constructs or destroys a  *)
(* list, and the operations of the hooks themselves.                       *)
(***************************************************************************)
EXTENDS SList, SequencesExt

CONSTANT MaxShift            \* bounds the argument of shift_forward and -backwards
-----------------------------------------------------------------------------
\* The node before n; in front of end() it is the cached one.
previous(l, n) == IF CacheLast /\ n = end_node(l) THEN last[l]
                  ELSE get_previous_node(heap, l, n)

insert(l, k, n) == Insert(l, k, n) /\ link_element(l, previous(l, at(l, k)), n)

erase(l, k) ==
  /\ erase_node_after(l, previous(l, at(l, k)))
  /\ EraseRange(l, k, k + 1)

\* Disposes of the nodes ns, one by one.
reset_all(h, ns) == FoldLeft(reset, h, ns)

\* erase_after_and_dispose(before_f, l).
erase_walked(l, i, j) ==
  LET range == between(heap, get_next(heap, at(l, i)), at(l, j))
  IN  /\ heap' = reset_all(unlink_range_after(heap, at(l, i), at(l, j)), range)
      /\ size' = decrease(size, l, Len(range))
      /\ last' = IF get_next(heap', at(l, i)) = end_node(l)
                 THEN set_last_node(last, l, at(l, i)) ELSE last
      /\ EraseRange(l, i + 1, j)

nodes(h, l)   == between(h, get_next(h, l), end_node(l))
cleared(h, l) == IF safemode_or_autounlink
                 THEN init_header(reset_all(h, nodes(h, l)), l)
                 ELSE init_header(h, l)

clear_hooks(l) ==
  /\ safemode_or_autounlink
  /\ heap' = cleared(heap, l)
  /\ last' = set_last_node(last, l, l)
  /\ size' = set_size(size, l, 0)
  /\ Empty(l)

splice_all_looking(l, k, m) ==
  ~CacheLast /\ splice_all_to(l, k, m, get_previous_node(heap, m, end_node(m)))

swap_any(h, la, l, m) == IF Linear \/ CacheLast THEN swapped(h, la, l, m)
                         ELSE [heap |-> swap_nodes(h, l, m), last |-> la]

swap_looking(l, m) ==
  /\ ~Linear /\ ~CacheLast
  /\ heap' = swap_nodes(heap, l, m)
  /\ size' = swap_size(size, l, m)
  /\ SwapLists(l, m)
  /\ UNCHANGED last
-----------------------------------------------------------------------------
(* Reversal.                                                               *)

RECURSIVE reverse_circle(_, _, _), reverse_chain(_, _, _, _)

reverse_circle(h, e, i) ==
  IF get_next(h, i) = e THEN h
  ELSE reverse_circle(transfer_after(h, e, i, get_next(h, i)), e, i)

\* The nodes from p on, first being those already turned; then l gets them.
reverse_chain(h, l, p, first) ==
  LET i == get_next(h, p)
  IN  IF i = Null THEN set_next(h, l, first)
      ELSE reverse_chain(set_next(unlink_after(h, p), i, first), l, p, i)

reversed(h, l) == IF ~Linear THEN reverse_circle(h, l, get_next(h, l))
                  ELSE IF is_empty(h, l) THEN h
                  ELSE reverse_chain(h, l, get_next(h, l), get_next(h, l))

reverse(l) ==
  /\ heap' = reversed(heap, l)
  /\ last' = IF empty(l) THEN last ELSE set_last_node(last, l, get_next(heap, l))
  /\ Turn(l)
  /\ UNCHANGED size
-----------------------------------------------------------------------------
(* Rotation.  Both move_backwards and move_first_n_backwards walk n nodes  *)
(* from the first node b on, starting again at the end e; the result is    *)
(* the new last node, or nothing if the rotation changes nothing.          *)

RECURSIVE walk_round(_, _, _, _, _, _)
walk_round(h, b, e, n, i, first) ==
  LET next == get_next(h, first)
  IN  CASE next # e /\ i < n  -> walk_round(h, b, e, n, i + 1, next)
        [] next # e /\ i >= n -> first
        [] next = e /\ n % i = 0 -> Null
        [] next = e /\ n % i # 0 -> walk_round(h, b, e, n % i, 1, b)

\* move_forward and move_first_n_forward count the nodes first.
\* Mutant: a rotation by more than the length is not reduced to the rest.
walk_ahead_once(h, b, e, n) ==
  LET ns  == between(h, b, e)
      pos == Len(ns) - n
  IN  IF pos <= 0 THEN Null ELSE ns[pos]

walk_ahead(h, b, e, n) ==
  LET ns  == between(h, b, e)
      len == Len(ns)
      pos == IF n < len THEN len - n ELSE (len - (n % len)) % len
  IN  IF pos = 0 THEN Null ELSE ns[pos]

\* The node new_last becomes the last one: in a circle the header moves.
rotated(h, l, new_last) ==
  LET first    == get_next(h, l)
      old_last == get_previous_node(h, first, end_node(l))
      h1       == set_next(h, l, get_next(h, new_last))
  IN  IF Linear THEN set_next(set_next(h1, old_last, first), new_last, Null)
      ELSE link_after(unlink_after(h, old_last), new_last, l)

shift(l, n, walk(_, _, _, _)) ==
  LET first    == get_next(heap, l)
      trivial  == n = 0 \/ empty(l) \/ get_next(heap, first) = end_node(l)
      new_last == IF trivial THEN Null ELSE walk(heap, first, end_node(l), n)
  IN  /\ IF new_last = Null THEN UNCHANGED <<heap, last>>
         ELSE /\ heap' = rotated(heap, l, new_last)
              /\ last' = set_last_node(last, l, new_last)
      /\ UNCHANGED size

shift_forward(l, n) ==
  /\ shift(l, n, LAMBDA h, b, e, k : walk_round(h, b, e, k, 1, b))
  /\ IF elems[l] = <<>> THEN UNCHANGED elems ELSE Rotate(l, n % Len(elems[l]))

shift_backwards(l, n) ==
  /\ shift(l, n, walk_ahead)
  /\ IF elems[l] = <<>> THEN UNCHANGED elems
     ELSE Rotate(l, Len(elems[l]) - (n % Len(elems[l])))
-----------------------------------------------------------------------------
(* Ranges of the caller's, construction and destruction.                   *)

\* insert_after(prev, f, l): the heap afterwards.
inserted(h, prev, range) ==
  FoldLeft(LAMBDA g, i : link_after(g, IF i = 1 THEN prev ELSE range[i - 1], range[i]),
           h, [i \in DOMAIN range |-> i])

range_linked(h, la, l, prev, range) ==
  /\ heap' = inserted(h, prev, range)
  /\ last' = IF la[l] # prev \/ range = <<>> THEN la
             ELSE set_last_node(la, l, range[Len(range)])

insert_after_range(l, k, range) ==
  /\ InsertRange(l, k + 1, range)
  /\ range_linked(heap, last, l, at(l, k), range)
  /\ size' = increase(size, l, Len(range))

assign(l, range) ==
  /\ Assign(l, range)
  /\ range_linked(cleared(heap, l), set_last_node(last, l, l), l, l, range)
  /\ size' = increase(set_size(size, l, 0), l, Len(range))

\* ~slist_impl, and a new list in the same place.
destroyed(h, l) == IF safemode_or_autounlink THEN init(cleared(h, l), l) ELSE h

construct(l) ==
  /\ heap' = init_header(destroyed(heap, l), l)
  /\ last' = set_last_node(last, l, l)
  /\ size' = set_size(size, l, 0)
  /\ Empty(l)

construct_from_range(l, range) ==
  /\ Assign(l, range)
  /\ range_linked(init_header(destroyed(heap, l), l), set_last_node(last, l, l), l, l, range)
  /\ size' = increase(set_size(size, l, 0), l, Len(range))

\* The constructor that takes over the chain from range[1] to the last node.
construct_from_nodes(l, range) ==
  LET h     == chained(destroyed(heap, l), range)
      after == range[Len(range)]
  IN  /\ range # <<>>
      /\ Assign(l, range)
      /\ heap' = set_next(set_next(h, l, range[1]), after, end_node(l))
      /\ last' = set_last_node(last, l, after)
      /\ size' = set_size(size, l, Len(range))

move_construct(l, x) ==
  LET s == swap_any(init_header(destroyed(heap, l), l), set_last_node(last, l, l), l, x)
  IN  /\ TakeOver(l, x)
      /\ heap' = s.heap
      /\ last' = s.last
      /\ size' = swap_size(set_size(size, l, 0), l, x)
-----------------------------------------------------------------------------
(* The hooks, whose algorithms are always the circular ones and know no    *)
(* cached node.                                                            *)

hook_unlink(n) ==
  /\ LinkMode = "auto"
  /\ UNCHANGED <<last, size>>
  /\ heap' = IF inited(heap, n) THEN heap ELSE init(unlink(heap, n), n)
  /\ IF Detached(n) THEN UNCHANGED elems
     ELSE \E l \in Lists : \E i \in Positions(l) :
            elems[l][i] = n /\ EraseRange(l, i, i + 1)

hook_swap_nodes(a, b) ==
  /\ ~Linear /\ ~CacheLast
  /\ ~safemode_or_autounlink => ~Detached(a) /\ ~Detached(b)
  /\ heap' = swap_nodes(heap, a, b)
  /\ UNCHANGED <<last, size>>
  /\ Exchange(a, b)

\* swap_nodes looks for the second predecessor after it has redirected the
\* first one, which goes wrong if both nodes are in one list, unless b is
\* just before a (SwapsInOneList).
misplaces(a, b) == /\ a # b /\ get_next(heap, b) # a
                   /\ \E l \in Lists : {a, b} \subseteq ToSet(elems[l])
-----------------------------------------------------------------------------
LoopsNext ==
  \/ \E l \in Lists :
       \/ reverse(l)
       \/ clear_hooks(l)
       \/ construct(l)
       \/ \E n \in 0..MaxShift : shift_forward(l, n) \/ shift_backwards(l, n)
       \/ \E k \in EndPositions(l), n \in Nodes : insert(l, k, n)
       \/ \E k \in Positions(l) : erase(l, k)
       \/ \E i, j \in EndPositions(l) : i <= j /\ erase_walked(l, i - 1, j)
       \/ \E range \in Ranges :
            \/ \E k \in EndPositions(l) : insert_after_range(l, k - 1, range)
            \/ assign(l, range)
            \/ construct_from_range(l, range)
            \/ construct_from_nodes(l, range)
       \/ \E x \in Lists :
            \/ move_construct(l, x)
            \/ swap_looking(l, x)
            \/ \E k \in EndPositions(l) : splice_all_looking(l, k - 1, x)
  \/ \E n \in Nodes : hook_unlink(n)
  \/ \E a, b \in Nodes : ~misplaces(a, b) /\ hook_swap_nodes(a, b)

LoopsSpec == Init /\ [][Next \/ LoopsNext]_vars
-----------------------------------------------------------------------------
(* slist_impl::check(), as written: the links end at the header or at      *)
(* nothing, on the cached node, after as many nodes as are counted.  It is *)
(* never called here for an empty linear list, whose null link it asserts  *)
(* not to be.                                                              *)
CheckAccepts(l) ==
  LET visited == <<l>> \o nodes(heap, l)
      failing == \/ CacheLast /\ last[l] # visited[Len(visited)]
                 \/ ConstantTimeSize /\ size[l] # Counted(Len(visited) - 1)
  IN  failing => Linear /\ empty(l)

reported(l) == IF ConstantTimeSize THEN size[l] ELSE count(heap, l) - 1

(* What a caller reads with size() and empty() is what its calls made, and *)
(* check() accepts the list.                                               *)
ObserversAgree ==
  \A l \in Lists : /\ empty(l) <=> elems[l] = <<>>
                   /\ reported(l) = IF ConstantTimeSize THEN Len(elems[l]) % SizeMod
                                    ELSE Len(elems[l])
                   /\ CheckAccepts(l)
-----------------------------------------------------------------------------
\* Elements trade places through their hooks, in one list or in two.
SwapSpec == Init /\ [][InsertNext \/ \E a, b \in Nodes : hook_swap_nodes(a, b)]_vars

(* The documentation of swap_nodes in slist_hook.hpp: "if the node this is *)
(* part of the element e1, the node x is part of the element e2 and both   *)
(* elements are included in the containers s1 and s2, then after the       *)
(* swap-operation e1 is in s2 at the position of e2 and e2 is in s1 at the *)
(* position of e1", "in one or two containers".  Exchange edits elems so;  *)
(* the links do not follow if both elements are in one list.               *)
SwapsInOneList == Spells(heap, elems)
=============================================================================
