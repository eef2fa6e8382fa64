------------------------------- MODULE SList -------------------------------
(***************************************************************************)
(* boost::intrusive::slist (include/boost/intrusive/slist.hpp): the        *)
(* operations that follow no chain of links, for several lists that share  *)
(* their elements, circular or linear, with or without a cached last node. *)
(* SListLoops has the others.                                              *)
(*                                                                         *)
(* As in List, elems is what the callers know: the sequences their calls   *)
(* have built.  An iterator is a position, 0 being before_begin(); the     *)
(* code never reads elems.                                                 *)
(***************************************************************************)
EXTENDS SListNodes, ListOptions

CONSTANT CacheLast           \* the cache_last option

VARIABLES heap,              \* the next_ of every hook and header
          last,              \* the cached last node of every list
          size               \* the size_holder of every list

vars == <<heap, last, size, elems>>
-----------------------------------------------------------------------------
At(es, l, i) == IF i \in 1..Len(es[l]) THEN es[l][i]
                ELSE IF i = 0 THEN l ELSE end_node(l)
at(l, i)     == At(elems, l, i)

set_last_node(la, l, n) == IF CacheLast THEN [la EXCEPT ![l] = n] ELSE la

empty(l) == is_empty(heap, l)

\* What an erasing operation does to the hook of the erased element.
reset(h, n) == IF safemode_or_autounlink THEN init(h, n) ELSE h
-----------------------------------------------------------------------------
\* The header holder's last_ is nothing at all without cache_last.
Init ==
  LET fresh == IF safemode_or_autounlink THEN Null ELSE Junk
  IN  /\ heap = [next |-> [n \in Addresses |-> IF n \in Lists THEN end_node(n) ELSE fresh]]
      /\ last = [l \in Lists |-> IF CacheLast THEN l ELSE Null]
      /\ size = [l \in Lists |-> 0]
      /\ AInit

(* Insertion.                                                              *)

push_front(l, n) ==
  /\ Insert(l, 1, n)
  /\ last' = IF empty(l) THEN set_last_node(last, l, n) ELSE last
  /\ heap' = link_after(heap, l, n)
  /\ size' = increase(size, l, 1)

push_back(l, n) ==
  /\ CacheLast
  /\ Insert(l, Len(elems[l]) + 1, n)
  /\ heap' = link_after(heap, last[l], n)
  /\ last' = set_last_node(last, l, n)
  /\ size' = increase(size, l, 1)

link_element(l, prev, n) ==
  /\ heap' = link_after(heap, prev, n)
  /\ last' = IF last[l] = prev THEN set_last_node(last, l, n) ELSE last
  /\ size' = increase(size, l, 1)

insert_after(l, k, n) == Insert(l, k + 1, n) /\ link_element(l, at(l, k), n)

\* The nodes of range, already linked to each other by the caller, are taken
\* into the list behind position k.
chained(h, range) ==
  [next |-> [n \in DOMAIN h.next |->
     IF \E i \in 1..(Len(range) - 1) : range[i] = n
     THEN range[1 + CHOOSE i \in DOMAIN range : range[i] = n]
     ELSE get_next(h, n)]]

incorporate_range(l, k, range) ==
  LET prev == at(l, k)
      to   == range[Len(range)]
  IN  /\ range # <<>>
      /\ InsertRange(l, k + 1, range)
      /\ last' = IF last[l] = prev THEN set_last_node(last, l, to) ELSE last
      /\ heap' = incorporate_after(chained(heap, range), prev, range[1], to)
      /\ size' = increase(size, l, Len(range))

(* Erasure.                                                                *)

pop_front(l) ==
  /\ elems[l] # <<>>
  /\ heap' = reset(unlink_after(heap, l), get_next(heap, l))
  /\ last' = IF is_empty(heap', l) THEN set_last_node(last, l, l) ELSE last
  /\ size' = decrease(size, l, 1)
  /\ EraseRange(l, 1, 2)

\* Mutant: the cached node is left alone unless the list has become empty.
erase_node_after_unless_empty(l, prev) ==
  /\ heap' = reset(unlink_after(heap, prev), get_next(heap, prev))
  /\ last' = IF is_empty(heap', l) THEN set_last_node(last, l, prev) ELSE last
  /\ size' = decrease(size, l, 1)

erase_node_after(l, prev) ==
  LET to_erase == get_next(heap, prev)
  IN  /\ heap' = reset(unlink_after(heap, prev), to_erase)
      /\ last' = IF to_erase = last[l] THEN set_last_node(last, l, prev) ELSE last
      /\ size' = decrease(size, l, 1)

erase_after(l, k) == erase_node_after(l, at(l, k)) /\ EraseRange(l, k + 1, k + 2)

\* erase_after(before_f, l) and erase_after(before_f, l, n), where no hook
\* has to be reset: the range is not walked.
erase_unwalked(l, i, j) ==
  /\ ~safemode_or_autounlink
  /\ last' = IF at(l, j) = end_node(l) THEN set_last_node(last, l, at(l, i)) ELSE last
  /\ heap' = unlink_range_after(heap, at(l, i), at(l, j))
  /\ size' = decrease(size, l, j - i - 1)
  /\ EraseRange(l, i + 1, j)

clear(l) ==
  /\ ~safemode_or_autounlink
  /\ heap' = init_header(heap, l)
  /\ last' = set_last_node(last, l, l)
  /\ size' = set_size(size, l, 0)
  /\ Empty(l)
-----------------------------------------------------------------------------
(* Exchanges and transfers.                                                *)

\* priv_swap_cache_last, t being a list that is not empty: the nodes of t go
\* behind the header of o, then those o had behind the header of t.
swap_cache_last(h, la, t, o) ==
  LET h1 == transfer_after(h, o, t, la[t])
  IN  IF is_empty(h, o)
      THEN [heap |-> h1, last |-> [la EXCEPT ![o] = la[t], ![t] = t]]
      ELSE [heap |-> transfer_after(h1, t, la[t], la[o]),
            last |-> [la EXCEPT ![o] = la[t], ![t] = la[o]]]

\* A swap of linear lists or of lists with cached last nodes.
swapped(h, la, l, m) ==
  IF ~CacheLast THEN [heap |-> swap_trailing_nodes(h, l, m), last |-> la]
  ELSE IF ~is_empty(h, l) THEN swap_cache_last(h, la, l, m)
  ELSE IF ~is_empty(h, m) THEN swap_cache_last(h, la, m, l)
  ELSE [heap |-> h, last |-> la]

swap(l, m) ==
  LET s == swapped(heap, last, l, m)
  IN  /\ Linear \/ CacheLast
      /\ heap' = s.heap
      /\ last' = s.last
      /\ size' = swap_size(size, l, m)
      /\ SwapLists(l, m)

\* splice_after(prev, x), whose last node is last_x.
splice_all_to(l, k, m, last_x) ==
  LET prev == at(l, k)
      s    == swapped(heap, last, l, m)
      la   == set_last_node(last, m, m)
  IN  /\ l # m
      /\ IF empty(m) THEN UNCHANGED <<heap, last, size>>
         ELSE IF Linear /\ empty(l)
         THEN heap' = s.heap /\ last' = s.last /\ size' = swap_size(size, l, m)
         ELSE /\ last' = IF get_next(heap, prev) = end_node(l)
                         THEN set_last_node(la, l, last_x) ELSE la
              /\ heap' = transfer_after(heap, prev, m, last_x)
              /\ size' = set_size(increase(size, l, size[m]), m, 0)
      /\ Move(l, k + 1, m, 1, Len(elems[m]) + 1)

splice_all(l, k, m) == CacheLast /\ splice_all_to(l, k, m, last[m])

\* splice_after(prev, x, before_f, before_l, n), before_f and before_l at the
\* positions i and j of m; splice_after(prev, x, prev_ele) has j = i + 1.
splice_range(l, k, m, i, j) ==
  LET prev == at(l, k)
      f    == at(m, i)
      t    == at(m, j)
      la   == IF last[l] = prev THEN set_last_node(last, l, t) ELSE last
      ends == l # m /\ get_next(heap, t) = end_node(m)
  IN  /\ last' = IF f = t THEN last
                 ELSE IF ends THEN set_last_node(la, m, f) ELSE la
      /\ heap' = transfer_after(heap, prev, f, t)
      /\ size' = decrease(increase(size, l, j - i), m, j - i)
      /\ Move(l, k + 1, m, i + 1, j + 1)

\* A range from the end of a list put further to the front of that list:
\* the one splice after which the cached node is not the last one.
recedes(l, k, m, i, j) ==
  CacheLast /\ l = m /\ k < i /\ i < j /\ j = Len(elems[m])
-----------------------------------------------------------------------------
\* The ranges of at most two elements are enough to be in the wrong order.
Ranges == {<<>>} \cup {<<n>> : n \in Nodes} \cup {r \in Nodes \X Nodes : r[1] # r[2]}

InsertNext ==
  \E l \in Lists :
    \/ \E n \in Nodes :
         \/ push_front(l, n)
         \/ push_back(l, n)
         \/ \E k \in EndPositions(l) : insert_after(l, k - 1, n)
    \/ \E k \in EndPositions(l), range \in Ranges : incorporate_range(l, k - 1, range)

EraseNext ==
  \E l \in Lists :
    \/ pop_front(l)
    \/ clear(l)
    \/ \E k \in Positions(l) : erase_after(l, k - 1)
    \/ \E i, j \in EndPositions(l) : i <= j /\ erase_unwalked(l, i - 1, j)

TransferNext ==
  \E l, m \in Lists :
    \/ swap(l, m)
    \/ \E k \in EndPositions(l) : splice_all(l, k - 1, m)
    \/ \E k \in EndPositions(l), i \in Positions(m), j \in EndPositions(m) :
         /\ i <= j
         /\ ~recedes(l, k - 1, m, i - 1, j - 1)
         /\ splice_range(l, k - 1, m, i - 1, j - 1)

Next == InsertNext \/ EraseNext \/ TransferNext

Spec == Init /\ [][Next]_vars
-----------------------------------------------------------------------------
TypeOK ==
  /\ heap \in [next : [Addresses -> Pointers]]
  /\ last \in [Lists -> Pointers]
  /\ size \in [Lists -> 0..(SizeMod - 1)]
  /\ elems \in [Lists -> Seq(Nodes)]

Spells(h, es) ==
  \A l \in Lists : \A i \in 0..Len(es[l]) : h.next[At(es, l, i)] = At(es, l, i + 1)

(* Whatever ran on whichever lists, the next_ pointers lead from every     *)
(* header through the elements the callers put there, in their order, to   *)
(* the header or to nothing, and no element is in two places.              *)
Represented == Disjoint(elems) /\ Spells(heap, elems)

(* push_back, previous(end()) and every splice rely on the cached node: it *)
(* is the last element, or the header of an empty list, after every        *)
(* operation that touched the end of any list.                             *)
LastIsCached == CacheLast => \A l \in Lists : last[l] = at(l, Len(elems[l]))

(* is_linked() of a resetting hook tells whether the element is in a list, *)
(* except for the last element of a linear list, whose link is null.       *)
EndsALinearList(n) ==
  Linear /\ \E l \in Lists : elems[l] # <<>> /\ n = at(l, Len(elems[l]))
HooksTellMembership ==
  safemode_or_autounlink =>
    \A n \in Nodes : inited(heap, n) <=> Detached(n) \/ EndsALinearList(n)

(* The counter of a list is the number of its elements, through every      *)
(* transfer between two lists.                                             *)
SizeCounts == \A l \in Lists : size[l] = Counted(Len(elems[l]))

=============================================================================
