----------------------------- MODULE ListMerge -----------------------------
(***************************************************************************)
(* list::merge(x, p) (list.hpp): the elements of x move, in the largest    *)
(* ranges that fit, in front of the elements of *this they are less than.  *)
(* One action is one call of the comparison, which may throw, with the     *)
(* code up to the next call.  p compares the keys of two elements: any     *)
(* strict weak ordering of few elements has this form.                     *)
(***************************************************************************)
EXTENDS Circles

CONSTANTS Nodes, Keys,       \* the elements, and the numbers p compares
          This, X,           \* the headers of *this and of x
          MaxLen             \* bounds the length of each list

VARIABLES heap, size, pc,
          b, ix, n,          \* the variables of merge
          key,               \* the key of every element
          given,             \* history: the two lists that are merged
          compared           \* history: the number of calls of p

vars == <<heap, size, pc, b, ix, n, key, given, compared>>

Addresses == Nodes \cup {This, X}
-----------------------------------------------------------------------------
\* Mutant: the arguments of the comparison exchanged and its answer negated.
less_or_equal(i, j) == ~(key[j] < key[i])
less(i, j) == key[i] < key[j]
Sorted(s)  == \A i, j \in DOMAIN s : i < j => key[s[i]] <= key[s[j]]

\* Both lists are sorted and they share no element.
Init ==
  /\ key \in [Nodes -> Keys]
  /\ given \in [{This, X} -> {s \in Arrangements(Nodes, MaxLen) : Sorted(s)}]
  /\ ToSet(given[This]) \cap ToSet(given[X]) = {}
  /\ heap = PushedBack(PushedBack(NewHooks(Addresses), This, given[This]),
                       X, given[X])
  /\ size = [l \in {This, X} |-> Len(given[l])]
  /\ pc = "find"
  /\ b = get_next(heap, This)
  /\ ix = get_next(heap, X)
  /\ n = 0
  /\ compared = 0

compares == /\ compared' = compared + 1
            /\ UNCHANGED <<key, given>>

(* The first loop looks for the element of *this before which the first    *)
(* element of x belongs.                                                   *)

skips ==
  /\ pc = "find" /\ ~unique(heap, X) /\ b # This /\ ~less(ix, b)
  /\ compares
  /\ b' = get_next(heap, b)
  /\ UNCHANGED <<heap, size, pc, ix, n>>

finds ==
  /\ pc = "find" /\ ~unique(heap, X) /\ b # This /\ less(ix, b)
  /\ compares
  /\ ix' = get_next(heap, ix)
  /\ n' = 1
  /\ pc' = "range"
  /\ UNCHANGED <<heap, size, b>>

(* The second loop extends the range of x that goes there.                 *)

extends ==
  /\ pc = "range" /\ ix # X /\ less(ix, b)
  /\ compares
  /\ ix' = get_next(heap, ix)
  /\ n' = n + 1
  /\ UNCHANGED <<heap, size, pc, b>>

\* splice(b, x, x.begin(), ix, n), and the next round.
moves_range ==
  /\ heap' = transfer(heap, b, get_next(heap, X), ix)
  /\ size' = [size EXCEPT ![This] = @ + n, ![X] = @ - n]
  /\ ix' = get_next(heap', X)
  /\ n' = 0
  /\ pc' = "find"
  /\ UNCHANGED b

range_ends ==
  /\ pc = "range" /\ ix # X /\ ~less(ix, b)
  /\ compares
  /\ moves_range

x_ends ==
  /\ pc = "range" /\ ix = X
  /\ moves_range
  /\ UNCHANGED <<key, given, compared>>

\* splice(e, x): what is left of x is not less than anything in *this.
moves_rest ==
  /\ pc = "find" /\ ~unique(heap, X) /\ b = This
  /\ heap' = transfer(heap, This, get_next(heap, X), X)
  /\ size' = [size EXCEPT ![This] = @ + size[X], ![X] = 0]
  /\ pc' = "done"
  /\ UNCHANGED <<b, ix, n, key, given, compared>>

returns ==
  /\ pc = "find" /\ unique(heap, X)
  /\ pc' = "done"
  /\ UNCHANGED <<heap, size, b, ix, n, key, given, compared>>

throws ==
  /\ \/ pc = "find" /\ ~unique(heap, X) /\ b # This
     \/ pc = "range" /\ ix # X
  /\ compares
  /\ pc' = "thrown"
  /\ UNCHANGED <<heap, size, b, ix, n>>

Next == \/ skips \/ finds \/ extends \/ range_ends \/ x_ends
        \/ moves_rest \/ returns \/ throws

(* The thread that made the call goes on until the call has returned.      *)
Spec == Init /\ [][Next]_vars /\ WF_vars(Next)
-----------------------------------------------------------------------------
TypeOK ==
  /\ heap \in [next : [Addresses -> Addresses \cup {Null}],
               prev : [Addresses -> Addresses \cup {Null}]]
  /\ size \in [{This, X} -> 0..Cardinality(Nodes)]
  /\ b \in Addresses /\ ix \in Addresses /\ n \in 0..MaxLen
  /\ pc \in {"find", "range", "done", "thrown"}

(* At every call of the comparison, and when it throws, the first moved    *)
(* elements of x are merged into *this and the others are still in x, both *)
(* lists are whole, and both sizes are right.                              *)
MergedSoFar ==
  \E moved \in 0..Len(given[X]) :
    LET now == StableMerge(given[This], SubSeq(given[X], 1, moved), key)
    IN  /\ Circle(heap, This, now)
        /\ Circle(heap, X, SubSeq(given[X], moved + 1, Len(given[X])))
        /\ size = [l \in {This, X} |-> IF l = X THEN Len(given[X]) - moved
                                                ELSE Len(now)]

(* The range the second loop counts is the range that is moved: ix is n    *)
(* nodes behind the beginning of x, and all n elements belong before b.    *)
CountsTheRange ==
  pc = "range" => /\ n >= 1
                  /\ distance(heap, get_next(heap, X), ix) = n
                  /\ \A i \in 1..n : less(given[X][Len(given[X]) - size[X] + i], b)

(* The result is the stable merge of both lists, and x is empty.           *)
MergesStably ==
  pc = "done" => /\ Circle(heap, This, StableMerge(given[This], given[X], key))
                 /\ Circle(heap, X, <<>>)
                 /\ size[X] = 0 /\ size[This] = Len(given[This]) + Len(given[X])

(* Each element of *this is skipped once; each of x is compared as the     *)
(* next of a range, and it may be compared as the first of the next too.   *)
LinearInBoth ==
  compared <= IF Len(given[This]) = 0 \/ Len(given[X]) = 0 THEN 0
              ELSE Len(given[This]) + 2 * Len(given[X]) - 1

(* The call returns.                                                       *)
Terminates == <>(pc \in {"done", "thrown"})
=============================================================================
