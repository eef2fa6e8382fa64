-------------------------------- MODULE List --------------------------------
(***************************************************************************)
(* boost::intrusive::list (include/boost/intrusive/list.hpp): the          *)
(* operations that contain no loop, for several lists that share the same  *)
(* elements.  The program state is the heap of hooks and header nodes and  *)
(* the size counter of every list.                                         *)
(*                                                                         *)
(* elems is a history variable: what the callers know, the sequence of     *)
(* elements their calls have built in each list.  It picks the legal       *)
(* arguments of a call (an iterator is a position of elems) and is edited  *)
(* by the promise of AbstractList; the code never reads it.                *)
(***************************************************************************)
EXTENDS CircularList, ListOptions

VARIABLES heap,              \* the next_ and prev_ of every hook and header
          size               \* the size_holder of every list

vars == <<heap, size, elems>>
-----------------------------------------------------------------------------
(* Iterators: at(l, i) is the node at position i, the header being end()   *)
(* and, as predecessor of the first element, position 0.                   *)

At(es, l, i) == IF i \in 1..Len(es[l]) THEN es[l][i] ELSE l
at(l, i)     == At(elems, l, i)

(* What an erasing operation does to the hook of the erased element.       *)

\* Mutant: only safe_link hooks are reset, auto_unlink hooks are forgotten.
reset_safe_only(h, n) == IF LinkMode = "safe" THEN init(h, n) ELSE h
reset(h, n) == IF safemode_or_autounlink THEN init(h, n) ELSE h

empty(l)    == unique(heap, l)
reported(l) == IF ConstantTimeSize THEN size[l] ELSE count(heap, l) - 1
-----------------------------------------------------------------------------
Init ==
  LET fresh == IF safemode_or_autounlink THEN Null ELSE Junk
      self  == [n \in Addresses |-> IF n \in Lists THEN n ELSE fresh]
  IN  /\ heap = [next |-> self, prev |-> self]
      /\ size = [l \in Lists |-> 0]
      /\ AInit

(* Insertion: the element must not be in a list of this hook.              *)

insert(l, k, n) ==
  /\ Insert(l, k, n)
  /\ heap' = link_before(heap, at(l, k), n)
  /\ size' = increase(size, l, 1)

push_back(l, n) ==
  /\ Insert(l, Len(elems[l]) + 1, n)
  /\ heap' = link_before(heap, l, n)
  /\ size' = increase(size, l, 1)

push_front(l, n) ==
  /\ Insert(l, 1, n)
  /\ heap' = link_before(heap, get_next(heap, l), n)
  /\ size' = increase(size, l, 1)

(* Erasure.                                                                *)

erase(l, i) ==
  /\ heap' = reset(unlink(heap, at(l, i)), at(l, i))
  /\ size' = decrease(size, l, 1)
  /\ EraseRange(l, i, i + 1)

pop_back(l) ==
  LET to_erase == get_previous(heap, l)
  IN  /\ elems[l] # <<>>
      /\ heap' = reset(unlink(heap, to_erase), to_erase)
      /\ size' = decrease(size, l, 1)
      /\ EraseRange(l, Len(elems[l]), Len(elems[l]) + 1)

pop_front(l) ==
  LET to_erase == get_next(heap, l)
  IN  /\ elems[l] # <<>>
      /\ heap' = reset(unlink(heap, to_erase), to_erase)
      /\ size' = decrease(size, l, 1)
      /\ EraseRange(l, 1, 2)

\* erase(b, e, n), and erase(b, e) of a list that does not count: only
\* normal_link does it without walking the range.
erase_range(l, i, j) ==
  /\ ~safemode_or_autounlink
  /\ heap' = unlink_range(heap, at(l, i), at(l, j))
  /\ size' = decrease(size, l, j - i)
  /\ EraseRange(l, i, j)

clear(l) ==
  /\ ~safemode_or_autounlink
  /\ heap' = init_header(heap, l)
  /\ size' = set_size(size, l, 0)
  /\ Empty(l)

\* generic_hook::unlink, which is also what the destructor of an auto_unlink
\* hook does, at any time and without the list.
hook_unlink(n) ==
  /\ LinkMode = "auto"
  /\ UNCHANGED size
  /\ IF inited(heap, n) THEN UNCHANGED heap
     ELSE heap' = init(unlink(heap, n), n)
  /\ IF Detached(n) THEN UNCHANGED elems
     ELSE \E l \in Lists : \E i \in Positions(l) :
            elems[l][i] = n /\ EraseRange(l, i, i + 1)

(* Transfers between lists and inside one.                                 *)

splice_all(l, k, m) ==
  /\ l # m
  /\ IF empty(m)
     THEN UNCHANGED <<heap, size>>
     ELSE /\ heap' = transfer(heap, at(l, k), get_next(heap, m), m)
          /\ size' = set_size(increase(size, l, size[m]), m, 0)
  /\ Move(l, k, m, 1, Len(elems[m]) + 1)

splice_one(l, k, m, i) ==
  /\ heap' = transfer_one(heap, at(l, k), at(m, i))
  /\ size' = increase(decrease(size, m, 1), l, 1)
  /\ Move(l, k, m, i, i + 1)

\* splice(p, x, f, e): the distance is counted only when it is needed, and
\* it is passed on as a size_type, which the caller has chosen wide enough.
splice_range(l, k, m, i, j) ==
  LET n == IF ConstantTimeSize THEN (j - i) % SizeMod ELSE 1
  IN  /\ j - i < SizeMod
      /\ IF n = 0
         THEN UNCHANGED <<heap, size>>
         ELSE /\ heap' = transfer(heap, at(l, k), at(m, i), at(m, j))
              /\ size' = decrease(increase(size, l, n), m, n)
      /\ Move(l, k, m, i, j)

swap(l, m) ==
  /\ heap' = swap_nodes(heap, l, m)
  /\ size' = swap_size(size, l, m)
  /\ SwapLists(l, m)

\* generic_hook::swap_nodes.  A normal_link hook outside every list is not
\* initialised: there both elements must be in a list.
hook_swap_nodes(a, b) ==
  /\ ~safemode_or_autounlink => ~Detached(a) /\ ~Detached(b)
  /\ heap' = swap_nodes(heap, a, b)
  /\ UNCHANGED size
  /\ Exchange(a, b)
-----------------------------------------------------------------------------
InsertNext ==
  \E l \in Lists, n \in Nodes :
    \/ push_back(l, n)
    \/ push_front(l, n)
    \/ \E k \in EndPositions(l) : insert(l, k, n)

EraseNext ==
  \/ \E l \in Lists :
       \/ pop_back(l)
       \/ pop_front(l)
       \/ clear(l)
       \/ \E i \in Positions(l) : erase(l, i)
       \/ \E i, j \in EndPositions(l) : i <= j /\ erase_range(l, i, j)
  \/ \E n \in Nodes : hook_unlink(n)

TransferNext ==
  \/ \E l, m \in Lists :
       \/ swap(l, m)
       \/ \E k \in EndPositions(l) : splice_all(l, k, m)
       \/ \E k \in EndPositions(l), i \in Positions(m) : splice_one(l, k, m, i)
       \/ \E k \in EndPositions(l), i, j \in EndPositions(m) :
            i <= j /\ splice_range(l, k, m, i, j)
  \/ \E a, b \in Nodes : hook_swap_nodes(a, b)

Next == InsertNext \/ EraseNext \/ TransferNext

Spec == Init /\ [][Next]_vars
-----------------------------------------------------------------------------
TypeOK ==
  /\ heap \in [next : [Addresses -> Pointers], prev : [Addresses -> Pointers]]
  /\ size \in [Lists -> 0..(SizeMod - 1)]
  /\ elems \in [Lists -> Seq(Nodes)]

(* The pointers of h spell es: from the header of every list the next_     *)
(* pointers visit its elements in order and come back to the header, and   *)
(* the prev_ pointers do so in reverse.                                    *)
Spells(h, es) ==
  \A l \in Lists : \A i \in 0..Len(es[l]) :
    /\ h.next[At(es, l, i)] = At(es, l, i + 1)
    /\ h.prev[At(es, l, i + 1)] = At(es, l, i)

(* Whatever sequence of operations ran on whichever lists, the hooks and   *)
(* headers form exactly the sequences the callers built: splice, swap and  *)
(* swap_nodes lose, duplicate or reorder nothing, also where the nodes     *)
(* they touch are neighbours, in one list, or a list is empty.             *)
Represented == Disjoint(elems) /\ Spells(heap, elems)

(* In the safe and auto-unlink modes a hook outside every list is in the   *)
(* default state and a linked one is not, so that the assertion of the     *)
(* next insertion, is_linked() and auto-unlink decide rightly.             *)
HooksTellMembership ==
  safemode_or_autounlink =>
    \A n \in Nodes : /\ inited(heap, n) <=> Detached(n)
                     /\ Detached(n) => get_previous(heap, n) = Null

(* The counter of a list is the number of its elements (in the arithmetic  *)
(* of size_type), through every transfer that splits it between two lists. *)
SizeCounts == \A l \in Lists : size[l] = Counted(Len(elems[l]))

(* What a caller reads with size() and empty() is what its calls made.     *)
ObserversAgree ==
  \A l \in Lists : /\ empty(l) <=> elems[l] = <<>>
                   /\ reported(l) = IF ConstantTimeSize
                                    THEN Len(elems[l]) % SizeMod
                                    ELSE Len(elems[l])
=============================================================================
