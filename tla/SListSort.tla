----------------------------- MODULE SListSort -----------------------------
(***************************************************************************)
(* slist::merge and slist::sort (slist.hpp).  One action of a merge is the *)
(* code up to the next comparison, which may throw; sort merges its carry  *)
(* list and its counters that way.  Other than in list::sort, carry is     *)
(* appended through the place of the last insertion, from where the last   *)
(* node is looked for if it is not cached.                                 *)
(***************************************************************************)
EXTENDS SListNodes, SequencesExt

CONSTANTS Nodes, Keys,       \* the elements, and the numbers p compares
          This, X,           \* the headers of *this, and of x or of carry
          MergeLen,          \* bounds the lists that are merged
          Counters           \* the number of counters, 64 in the code

VARIABLES heap, last, size, pc,
          cached,            \* cache_last
          sorting,           \* the call is sort, or else merge
          into, from,        \* *this and x of the running merge
          bb, ibx, n,        \* the variables of merge
          last_inserted,     \* what l points to
          i, fill,           \* the variables of sort
          key,               \* the key of every element
          given              \* history: the two lists at the call

vars == <<heap, last, size, pc, cached, sorting, into, from, bb, ibx, n,
          last_inserted, i, fill, key, given>>

Circles == INSTANCE Circles

Carry     == X
Headers   == 0..(Counters - 1)       \* of the counters
Temps     == {Carry} \cup Headers
Lists     == {This} \cup Temps
Addresses == Nodes \cup Lists
-----------------------------------------------------------------------------
less(p, q) == key[p] < key[q]

\* The state of the lists as a record, for what a step does to several.
lists == [heap |-> heap, last |-> last, size |-> size]
become(s) == heap' = s.heap /\ last' = s.last /\ size' = s.size

empty(s, l) == is_empty(s.heap, l)
set_last(s, l, p) == IF cached THEN [s EXCEPT !.last[l] = p] ELSE s

\* previous(from_n, end()).
last_of(s, l, from_n) == IF cached THEN s.last[l]
                         ELSE get_previous_node(s.heap, from_n, end_node(l))

\* l.splice_after(prev, x, x.before_begin(), t, k), l and x being two lists.
spliced(s, l, prev, x, t, k) ==
  LET s1 == IF s.last[l] = prev THEN set_last(s, l, t) ELSE s
      s2 == IF get_next(s.heap, t) = end_node(x) THEN set_last(s1, x, x) ELSE s1
  IN  [s2 EXCEPT !.heap = transfer_after(@, prev, x, t),
                 !.size[l] = @ + k, !.size[x] = @ - k]

\* l.swap(x).
swapped(s, l, x) ==
  LET h1 == transfer_after(s.heap, x, l, s.last[l])
      la == [s.last EXCEPT ![l] = IF empty(s, x) THEN l ELSE s.last[x],
                           ![x] = IF empty(s, l) THEN x ELSE s.last[l]]
  IN  [heap |-> IF ~cached THEN IF Linear THEN swap_trailing_nodes(s.heap, l, x)
                                ELSE swap_nodes(s.heap, l, x)
                ELSE IF empty(s, l) THEN transfer_after(s.heap, l, x, s.last[x])
                ELSE IF empty(s, x) THEN h1
                ELSE transfer_after(h1, l, s.last[l], s.last[x]),
       last |-> IF cached THEN la ELSE s.last,
       size |-> [s.size EXCEPT ![l] = s.size[x], ![x] = s.size[l]]]

linked(h, l, s) ==
  FoldLeft(LAMBDA g, k : link_after(g, IF k = 1 THEN l ELSE s[k - 1], s[k]),
           init_header(h, l), [k \in DOMAIN s |-> k])
-----------------------------------------------------------------------------
Pool == SetToSeq(Nodes)      \* elements differ by their keys only

\* At the end counter[fill - 1] is merged with what is below it, which is
\* nothing if the number of elements is a power of two; then l is end(), and
\* from there a linear list is not found again.
loses_the_end == sorting /\ Linear /\ ~cached /\ \E k \in 1..Counters : size[This] = 2^k

\* merge with sorted lists, or sort; a linear list that is sorted is not empty.
Call ==
  /\ sorting \in BOOLEAN /\ cached \in BOOLEAN
  /\ \E j \in 0..(IF sorting THEN Len(Pool) ELSE MergeLen),
        k \in 0..(IF sorting THEN 0 ELSE MergeLen) :
       /\ j + k <= Len(Pool)
       /\ given = [l \in {This, X} |-> IF l = This THEN SubSeq(Pool, 1, j)
                                                   ELSE SubSeq(Pool, j + 1, j + k)]
       /\ key \in [{Pool[p] : p \in 1..(j + k)} -> Keys]
       /\ sorting /\ Linear => j > 0
       /\ ~sorting => \A l \in {This, X} : \A p, q \in DOMAIN given[l] :
            p < q => key[given[l][p]] <= key[given[l][q]]
  /\ heap = LET h == [next |-> [a \in Addresses |->
                        IF a \in Headers THEN end_node(a) ELSE Null]]
            IN  linked(linked(h, This, given[This]), X, given[X])
  /\ last = [l \in Lists |-> IF ~cached THEN Null
                             ELSE IF l \in Headers THEN l ELSE Last(<<l>> \o given[l])]
  /\ size = [l \in Lists |-> IF l \in Headers THEN 0 ELSE Len(given[l])]
  /\ pc = IF ~sorting THEN "find"
          ELSE IF get_next(heap, get_next(heap, This)) = This THEN "done" ELSE "take"
  /\ into = This /\ from = X
  /\ bb = This /\ ibx = X /\ n = 0
  /\ last_inserted = Null
  /\ i = 0 /\ fill = 0

Init == Call /\ ~loses_the_end
-----------------------------------------------------------------------------
(* merge: bb_next is the node behind bb, ibx_next the one behind ibx.      *)

bb_next  == get_next(heap, bb)
ibx_next == get_next(heap, ibx)
fixed    == UNCHANGED <<cached, sorting, into, from, key, given>>

\* Where sort goes on after a merge.
return == IF ~sorting THEN "done" ELSE IF into = Carry THEN "carry" ELSE "collect"

finding == pc = "find" /\ ~empty(lists, from) /\ bb_next # end_node(into)

skips ==
  /\ finding /\ ~less(ibx_next, bb_next)
  /\ bb' = bb_next
  /\ UNCHANGED <<heap, last, size, pc, ibx, n, last_inserted, i, fill>>
  /\ fixed

finds ==
  /\ finding /\ less(ibx_next, bb_next)
  /\ ibx' = ibx_next
  /\ n' = 1
  /\ pc' = "range"
  /\ UNCHANGED <<heap, last, size, bb, last_inserted, i, fill>>
  /\ fixed

extending == pc = "range" /\ ibx_next # end_node(from)

extends ==
  /\ extending /\ less(ibx_next, bb_next)
  /\ ibx' = ibx_next
  /\ n' = n + 1
  /\ UNCHANGED <<heap, last, size, pc, bb, last_inserted, i, fill>>
  /\ fixed

\* splice_after(bb, x, x.before_begin(), ibx, n), and the next round.
range_ends ==
  /\ pc = "range"
  /\ extending => ~less(ibx_next, bb_next)
  /\ become(spliced(lists, into, bb, from, ibx, n))
  /\ last_inserted' = ibx
  /\ ibx' = from
  /\ n' = 0
  /\ pc' = "find"
  /\ UNCHANGED <<bb, i, fill>>
  /\ fixed

\* splice_after(bb, x, l), which swaps if *this is linear and empty.
moves_rest ==
  LET last_x == last_of(lists, from, from)
      s      == set_last(set_last(lists, from, from), into, last_x)
      all    == [s EXCEPT !.heap = transfer_after(@, bb, from, last_x),
                          !.size[into] = @ + size[from], !.size[from] = 0]
  IN  /\ pc = "find" /\ ~empty(lists, from) /\ bb_next = end_node(into)
      /\ become(IF Linear /\ empty(lists, into) THEN swapped(lists, into, from) ELSE all)
      /\ last_inserted' = last_x
      /\ pc' = return
      /\ UNCHANGED <<bb, ibx, n, i, fill>>
      /\ fixed

merge_returns ==
  /\ pc = "find" /\ empty(lists, from)
  /\ pc' = return
  /\ UNCHANGED <<heap, last, size, bb, ibx, n, last_inserted, i, fill>>
  /\ fixed

\* l.merge(x, p, &last_inserted) begins, l and x being as s has them.
merging(s, l, x) ==
  /\ become(s)
  /\ into' = l /\ from' = x
  /\ bb' = l /\ ibx' = x /\ n' = 0
  /\ last_inserted' = end_node(l)
  /\ pc' = "find"
  /\ UNCHANGED <<fill, cached, sorting, key, given>>
-----------------------------------------------------------------------------
(* sort.                                                                   *)

\* carry.splice_after(carry.cbefore_begin(), *this, this->cbefore_begin())
takes ==
  LET first == get_next(heap, This)
  IN  /\ pc = "take" /\ ~empty(lists, This)
      /\ become(spliced(lists, Carry, Carry, This, first, 1))
      /\ last_inserted' = first
      /\ i' = 0
      /\ pc' = "carry"
      /\ UNCHANGED <<bb, ibx, n, fill>>
      /\ fixed

\* carry.swap(counter[i]); carry.merge(counter[i++], p, &last_inserted)
merges_carry ==
  /\ pc = "carry" /\ i < fill /\ ~empty(lists, i)
  /\ merging(swapped(lists, Carry, i), Carry, i)
  /\ i' = i + 1

\* counter[i].splice_after(..., carry, ..., last_element, carry.size())
stores_carry ==
  /\ pc = "carry" /\ (i < fill => empty(lists, i))
  /\ become(spliced(lists, i, i, Carry, last_of(lists, Carry, last_inserted), size[Carry]))
  /\ fill' = IF i = fill THEN fill + 1 ELSE fill
  /\ pc' = "take"
  /\ UNCHANGED <<bb, ibx, n, last_inserted, i>>
  /\ fixed

all_taken ==
  /\ pc = "take" /\ empty(lists, This)
  /\ i' = 1
  /\ pc' = "collect"
  /\ UNCHANGED <<heap, last, size, bb, ibx, n, last_inserted, fill>>
  /\ fixed

\* counter[i].merge(counter[i-1], p, &last_inserted)
collects ==
  /\ pc = "collect" /\ i < fill
  /\ merging(lists, i, i - 1)
  /\ i' = i + 1

\* previous(last_inserted, end()) where last_inserted is null and must not be.
starts_at_null == ~cached /\ last_inserted = Null

\* splice_after(cbefore_begin(), counter[fill], ..., last_element, ...)
sort_returns ==
  LET top == fill - 1
  IN  /\ pc = "collect" /\ i >= fill /\ ~starts_at_null
      /\ become(spliced(lists, This, This, top, last_of(lists, top, last_inserted), size[top]))
      /\ fill' = top
      /\ pc' = "done"
      /\ UNCHANGED <<bb, ibx, n, last_inserted, i>>
      /\ fixed

\* The call loads next_ of a null pointer.
follows_null ==
  /\ pc = "collect" /\ i >= fill /\ starts_at_null
  /\ pc' = "crashed"
  /\ UNCHANGED <<heap, last, size, bb, ibx, n, last_inserted, i, fill>>
  /\ fixed

nodes(h, l) == LET from_n[p \in Addresses \cup {Null}] ==
                     IF p = end_node(l) THEN <<>> ELSE <<p>> \o from_n[get_next(h, p)]
               IN  from_n[get_next(h, l)]

\* The destructors of carry and the counters, with safe_link hooks.
detached(h) ==
  LET gone == UNION {ToSet(nodes(h, l)) : l \in Temps}
  IN  [next |-> [a \in Addresses |-> IF a \in gone THEN Null
                                     ELSE IF a \in Temps THEN end_node(a) ELSE h.next[a]]]

throws ==
  /\ finding \/ extending
  /\ IF sorting
     THEN /\ heap' = detached(heap)
          /\ last' = [l \in Lists |-> IF cached /\ l \in Temps THEN l ELSE last[l]]
          /\ size' = [l \in Lists |-> IF l \in Temps THEN 0 ELSE size[l]]
     ELSE UNCHANGED <<heap, last, size>>
  /\ pc' = "thrown"
  /\ UNCHANGED <<bb, ibx, n, last_inserted, i, fill>>
  /\ fixed
-----------------------------------------------------------------------------
Next == \/ skips \/ finds \/ extends \/ range_ends \/ moves_rest \/ merge_returns
        \/ takes \/ merges_carry \/ stores_carry \/ all_taken \/ collects
        \/ sort_returns \/ throws

Spec == Init /\ [][Next]_vars
-----------------------------------------------------------------------------
TypeOK ==
  /\ heap \in [next : [Addresses -> Addresses \cup {Null}]]
  /\ last \in [Lists -> Addresses \cup {Null}]
  /\ size \in [Lists -> 0..Cardinality(Nodes)]
  /\ {bb, ibx} \subseteq Addresses /\ last_inserted \in Addresses \cup {Null}
  /\ i \in 0..Counters /\ fill \in 0..Counters /\ n \in 0..Cardinality(Nodes)
  /\ pc \in {"find", "range", "take", "carry", "collect", "done", "thrown"}

\* The list holds exactly s, and its counter and its cached node say so.
Whole(l, s) ==
  LET line == <<l>> \o s \o <<end_node(l)>>
  IN  /\ \A j \in 1..(Len(line) - 1) : heap.next[line[j]] = line[j + 1]
      /\ size[l] = Len(s)
      /\ cached => last[l] = Last(<<l>> \o s)

(* merge: at every comparison, also one that throws, the first elements of *)
(* x are merged into *this and both lists are whole; in the end all are.   *)
MergesStably ==
  ~sorting =>
    \E moved \in 0..Len(given[X]) :
      /\ Whole(This, Circles!StableMerge(given[This], SubSeq(given[X], 1, moved), key))
      /\ Whole(X, SubSeq(given[X], moved + 1, Len(given[X])))
      /\ pc = "done" => moved = Len(given[X])

rank(p) == CHOOSE j \in DOMAIN given[This] : given[This][j] = p

(* sort: at every comparison and between the merges all lists are whole,   *)
(* with the right last nodes; each is sorted, equal elements as they came, *)
(* and no element is lost.  The result is the stable sort; an exception    *)
(* leaves a rest of the list, and the other elements can be inserted again.*)
SortsStably ==
  sorting =>
    LET s == [l \in Lists |-> nodes(heap, l)]
    IN  /\ \A l \in Lists : Whole(l, s[l])
        /\ s[This] = CASE pc = "done" -> Circles!StableMerge(given[This], <<>>, key)
                       [] OTHER -> SubSeq(given[This], Len(given[This]) - Len(s[This]) + 1,
                                          Len(given[This]))
        /\ \A l \in Temps : \A p, q \in DOMAIN s[l] : p < q =>
             \/ less(s[l][p], s[l][q])
             \/ key[s[l][p]] = key[s[l][q]] /\ rank(s[l][p]) < rank(s[l][q])
        /\ LET held == UNION {ToSet(s[l]) : l \in Lists}
           IN  IF pc = "thrown" THEN \A p \in Nodes \ held : inited(heap, p)
               ELSE held = ToSet(given[This])
        /\ pc = "done" => \A l \in Temps : empty(lists, l)
=============================================================================
