----------------------------- MODULE ListRemove -----------------------------
(***************************************************************************)
(* list::remove_if and remove_and_dispose_if (list.hpp), step by step:     *)
(* stable_partition brings the elements that satisfy the predicate to the  *)
(* front of the list, and the range they form is erased.  One action is    *)
(* the code between two calls of the predicate or of the disposer.  The    *)
(* predicate answers anything, and it may throw.                           *)
(***************************************************************************)
EXTENDS Circles

CONSTANTS Nodes, Root,       \* the elements and the header
          MaxLen             \* bounds the length of the list

VARIABLES heap, size,
          safe,              \* safemode_or_autounlink, fixed by the hook's type
          disposing,         \* remove_and_dispose_if, or else remove_if
          pc,                \* where the operation stands
          bcur, cur, new_f, last_to_remove,    \* variables of stable_partition
          num1,                                \* num_1st_partition
          bp,                \* the loop variable of erase_and_dispose
          given,             \* history: the list the operation was called on
          answers,           \* history: what the predicate said, in order
          disposed           \* history: the elements given to the disposer

partition == <<bcur, cur, new_f, last_to_remove, num1>>
history   == <<given, answers, disposed>>
vars      == <<heap, size, safe, disposing, pc, partition, bp, history>>

Addresses == Nodes \cup {Root}
-----------------------------------------------------------------------------
Init ==
  /\ given \in Arrangements(Nodes, MaxLen)
  /\ heap = PushedBack(NewHooks(Addresses), Root, given)
  /\ size = Len(given)
  /\ safe \in BOOLEAN
  /\ disposing \in BOOLEAN
  /\ pc = "first"
  /\ bcur = Root
  /\ cur = get_next(heap, Root)
  /\ new_f = Root
  /\ last_to_remove = Root
  /\ num1 = 0
  /\ bp = Root
  /\ answers = <<>>
  /\ disposed = <<>>

says(answer) == /\ cur # Root
                /\ answers' = Append(answers, answer)
                /\ UNCHANGED <<size, safe, disposing, bp, given, disposed>>

(* The outer loop: a prefix of elements that all satisfy the predicate,    *)
(* and the first one that does not.                                        *)

first_true ==
  /\ pc = "first"
  /\ says("true")
  /\ num1' = num1 + 1
  /\ bcur' = cur
  /\ cur' = get_next(heap, cur)
  /\ UNCHANGED <<heap, pc, new_f, last_to_remove>>

first_false ==
  /\ pc = "first"
  /\ says("false")
  /\ last_to_remove' = bcur
  /\ new_f' = cur
  /\ bcur' = cur
  /\ cur' = get_next(heap, cur)
  /\ pc' = "main"
  /\ UNCHANGED <<heap, num1>>

first_throws ==
  /\ pc = "first"
  /\ says("throws")
  /\ pc' = "thrown"
  /\ UNCHANGED <<heap, partition>>

(* The main loop: cur leaves the second part of the list and is appended   *)
(* to the first.  The node before the second part is repaired at the end.  *)

main_true ==
  LET h1  == set_previous(set_next(heap, last_to_remove, cur), cur, last_to_remove)
      nxt == get_next(h1, cur)
  IN  /\ pc = "main"
      /\ says("true")
      /\ num1' = num1 + 1
      /\ heap' = set_previous(set_next(h1, bcur, nxt), nxt, bcur)
      /\ last_to_remove' = cur
      /\ cur' = nxt
      /\ UNCHANGED <<pc, bcur, new_f>>

main_false ==
  /\ pc = "main"
  /\ says("false")
  /\ bcur' = cur
  /\ cur' = get_next(heap, cur)
  /\ UNCHANGED <<heap, pc, new_f, last_to_remove, num1>>

joined == set_previous(set_next(heap, last_to_remove, new_f), new_f, last_to_remove)

\* Mutant: no catch block puts the two parts together again.
main_throws_apart ==
  /\ pc = "main"
  /\ says("throws")
  /\ pc' = "thrown"
  /\ UNCHANGED <<heap, partition>>

main_throws ==
  /\ pc = "main"
  /\ says("throws")
  /\ heap' = joined
  /\ pc' = "thrown"
  /\ UNCHANGED partition

(* The erasure of the first num1 elements: erase(b, e, n) when nothing has *)
(* to be done with the elements, else erase_and_dispose(b, e, disposer).   *)

\* Mutant: the elements are counted by the loop and before it.
erase_counting_twice(h) ==
  LET b == get_next(h, Root)
  IN  /\ heap' = unlink_range(h, b, new_f)
      /\ bp' = IF disposing \/ safe THEN b ELSE new_f
      /\ pc' = IF disposing \/ safe THEN "erase" ELSE "done"
      /\ size' = size - num1
      /\ UNCHANGED <<safe, disposing, partition, history>>

erase(h) ==
  LET b == get_next(h, Root)
  IN  /\ heap' = unlink_range(h, b, new_f)
      /\ IF disposing \/ safe
         THEN bp' = b /\ pc' = "erase" /\ UNCHANGED size
         ELSE bp' = new_f /\ pc' = "done" /\ size' = size - num1
      /\ UNCHANGED <<safe, disposing, partition, history>>

first_end == pc = "first" /\ cur = Root /\ erase(heap)
main_end  == pc = "main" /\ cur = Root /\ erase(joined)

erase_one ==
  /\ pc = "erase"
  /\ bp # new_f
  /\ bp' = get_next(heap, bp)
  /\ heap' = IF safe THEN init(heap, bp) ELSE heap
  /\ disposed' = IF disposing THEN Append(disposed, bp) ELSE disposed
  /\ size' = size - 1
  /\ UNCHANGED <<safe, disposing, pc, partition, given, answers>>

erase_end ==
  /\ pc = "erase"
  /\ bp = new_f
  /\ pc' = "done"
  /\ UNCHANGED <<heap, size, safe, disposing, partition, bp, history>>
-----------------------------------------------------------------------------
returned == pc \in {"done", "thrown"}

Next == \/ first_true \/ first_false \/ first_throws \/ first_end
        \/ main_true \/ main_false \/ main_throws \/ main_end
        \/ erase_one \/ erase_end

(* The thread that made the call goes on until the call has returned.      *)
Spec == Init /\ [][Next]_vars /\ WF_vars(Next)
-----------------------------------------------------------------------------
(* What the answers say of the elements of the list.                       *)

asked == Len(answers)
Answered(answer) ==
  LET places == SelectSeq([x \in 1..asked |-> x], LAMBDA x : answers[x] = answer)
  IN  [i \in DOMAIN places |-> given[places[i]]]
Removed == Answered("true")
Kept    == Answered("false")
Rest(i) == SubSeq(given, i, Len(given))

TypeOK ==
  /\ heap \in [next : [Addresses -> Addresses \cup {Null}],
               prev : [Addresses -> Addresses \cup {Null}]]
  /\ size \in 0..MaxLen /\ num1 \in 0..MaxLen
  /\ {bcur, cur, new_f, last_to_remove, bp} \subseteq Addresses
  /\ pc \in {"first", "main", "erase", "done", "thrown"}

(* Between two calls of the predicate in the main loop the list is in      *)
(* three pieces, none of them lost: the header and the elements that will  *)
(* be removed, the elements that will stay, and from bcur on, those that   *)
(* were not looked at.                                                     *)
PiecesKept ==
  pc = "main" =>
    /\ Chain(heap, <<Root>> \o Removed)
    /\ Last(<<Root>> \o Removed) = last_to_remove
    /\ Chain(heap, Kept \o Rest(asked + 1) \o <<Root>>)
    /\ Head(Kept) = new_f /\ Last(Kept) = bcur

(* When the predicate throws, no element is lost and every link is right:  *)
(* those found so far come first, the others follow in their order.        *)
ThrowKeepsAll ==
  pc = "thrown" => /\ Circle(heap, Root, Removed \o Kept \o Rest(asked))
                   /\ size = Len(given)

(* While the disposer runs, the list already is the list that stays, each  *)
(* removed element comes by exactly once and in the order of the list, and *)
(* only the size still counts the elements to come.                        *)
DisposerSeesTheKept ==
  pc = "erase" => /\ Circle(heap, Root, Kept)
                  /\ disposing => IsPrefix(disposed, Removed)
                  /\ disposing => size = Len(given) - Len(disposed)

(* The result: the elements that did not satisfy the predicate, in their   *)
(* order; the others disposed of, and with safe hooks in the default       *)
(* state; one call of the predicate per element, the number returned.      *)
RemovesExactly ==
  pc = "done" => /\ Circle(heap, Root, Kept)
                 /\ size = Len(Kept)
                 /\ num1 = Len(Removed) /\ asked = Len(given)
                 /\ disposed = IF disposing THEN Removed ELSE <<>>
                 /\ safe => \A n \in ToSet(Removed) : inited(heap, n)

(* The call returns.                                                       *)
Terminates == <>returned
=============================================================================
