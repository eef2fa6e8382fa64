----------------------------- MODULE ListLoops -----------------------------
(***************************************************************************)
(* The operations of list.hpp that run a loop but call nobody back, added  *)
(* to those of List: reversal, rotation, insertion of a range, clearing    *)
(* hook by hook, and the construction and destruction of lists.            *)
(***************************************************************************)
EXTENDS List, SequencesExt

CONSTANT MaxShift            \* bounds the argument of shift_forward and -backwards
-----------------------------------------------------------------------------
(* The loops of circular_list_algorithms.                                  *)

RECURSIVE reverse_from(_, _, _, _), ahead(_, _, _), behind(_, _, _)

reverse_from(h, f, i, e) ==
  IF i = e THEN h
  ELSE reverse_from(transfer(h, f, i, get_next(h, i)), i, get_next(h, i), e)

reverse_nodes(h, p) ==
  LET f == get_next(h, p) IN reverse_from(h, f, get_next(h, f), p)

ahead(h, n, steps)  == IF steps = 0 THEN n ELSE ahead(h, get_next(h, n), steps - 1)
behind(h, n, steps) == IF steps = 0 THEN n ELSE behind(h, get_previous(h, n), steps - 1)

\* A circle of at most two nodes, header included, looks the same rotated.
rotates(h, p, n) == n # 0 /\ get_next(h, p) # get_previous(h, p)

move_backwards(h, p, n) ==
  LET h1 == unlink(h, p)
  IN  IF rotates(h, p, n) THEN link_before(h1, ahead(h1, get_next(h, p), n), p) ELSE h

\* Mutant: the header is linked on the wrong side of its new neighbour.
move_forward_short(h, p, n) ==
  LET h1 == unlink(h, p)
  IN  IF rotates(h, p, n) THEN link_before(h1, behind(h1, get_previous(h, p), n), p) ELSE h

move_forward(h, p, n) ==
  LET h1 == unlink(h, p)
  IN  IF rotates(h, p, n) THEN link_after(h1, behind(h1, get_previous(h, p), n), p) ELSE h

\* clear_and_dispose, whose disposer does nothing here (ListClone has it).
RECURSIVE init_until(_, _, _)
init_until(h, it, end) ==
  IF it = end THEN init_header(h, end)
  ELSE init_until(reset(h, it), get_next(h, it), end)

\* Mutant: the hooks of the elements are not reset.
cleared_header_only(h, l) == init_header(h, l)

cleared(h, l) == IF safemode_or_autounlink THEN init_until(h, get_next(h, l), l)
                 ELSE init_header(h, l)

inserted(h, p, range) == FoldLeft(LAMBDA g, n : link_before(g, p, n), h, range)
-----------------------------------------------------------------------------
reverse(l) ==
  /\ heap' = reverse_nodes(heap, l)
  /\ Turn(l)
  /\ UNCHANGED size

shift_forward(l, n) ==
  /\ heap' = move_backwards(heap, l, n)
  /\ IF elems[l] = <<>> THEN UNCHANGED elems ELSE Rotate(l, n % Len(elems[l]))
  /\ UNCHANGED size

shift_backwards(l, n) ==
  /\ heap' = move_forward(heap, l, n)
  /\ IF elems[l] = <<>> THEN UNCHANGED elems
     ELSE Rotate(l, Len(elems[l]) - (n % Len(elems[l])))
  /\ UNCHANGED size

\* The range is an array of the caller's.
insert_range(l, k, range) ==
  /\ InsertRange(l, k, range)
  /\ heap' = inserted(heap, at(l, k), range)
  /\ size' = increase(size, l, Len(range))

\* clear() where the hooks must be reset.
clear_hooks(l) ==
  /\ safemode_or_autounlink
  /\ heap' = cleared(heap, l)
  /\ size' = set_size(size, l, 0)
  /\ Empty(l)

assign(l, range) ==
  /\ Assign(l, range)
  /\ heap' = inserted(cleared(heap, l), l, range)
  /\ size' = increase(set_size(size, l, 0), l, Len(range))

(* ~list_impl, and a new list in the same place.  Without safe hooks the   *)
(* destructor does nothing: the old elements keep their pointers.          *)

destroyed(h, l) == IF safemode_or_autounlink THEN init(cleared(h, l), l) ELSE h

construct(l) ==
  /\ heap' = init_header(destroyed(heap, l), l)
  /\ size' = set_size(size, l, 0)
  /\ Empty(l)

construct_from_range(l, range) ==
  /\ Assign(l, range)
  /\ heap' = inserted(init_header(destroyed(heap, l), l), l, range)
  /\ size' = increase(set_size(size, l, 0), l, Len(range))

move_construct(l, x) ==
  /\ TakeOver(l, x)
  /\ heap' = swap_nodes(init_header(destroyed(heap, l), l), l, x)
  /\ size' = swap_size(set_size(size, l, 0), l, x)
-----------------------------------------------------------------------------
\* The ranges of at most two elements are enough to be in the wrong order.
Ranges == {s \in BoundedSeq(Nodes, 2) : IsInjective(s)}

LoopsNext ==
  \E l \in Lists :
    \/ reverse(l)
    \/ \E n \in 0..MaxShift : shift_forward(l, n) \/ shift_backwards(l, n)
    \/ \E range \in Ranges :
         \/ \E k \in EndPositions(l) : insert_range(l, k, range)
         \/ assign(l, range)
         \/ construct_from_range(l, range)
    \/ clear_hooks(l)
    \/ construct(l)
    \/ \E x \in Lists : move_construct(l, x)

LoopsSpec == Init /\ [][Next \/ LoopsNext]_vars
-----------------------------------------------------------------------------
(* list_impl::check(), as written: null pointers, both header pointers or  *)
(* none at the header, every link mirrored, the nodes counted.  It accepts *)
(* every list the operations can build.                                    *)
Mirrored(l) == \A i \in Positions(l) \cup {0} :
                 LET next == ahead(heap, l, i + 1)
                 IN  next # Null /\ get_previous(heap, next) = ahead(heap, l, i)
CheckAccepts ==
  \A l \in Lists :
    /\ Null \notin {get_next(heap, l), get_previous(heap, l)}
    /\ get_next(heap, l) = l <=> get_previous(heap, l) = l
    /\ Mirrored(l)
    /\ ConstantTimeSize => size[l] = Counted(count(heap, l) - 1)
=============================================================================
