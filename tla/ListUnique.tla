----------------------------- MODULE ListUnique -----------------------------
(***************************************************************************)
(* list::unique_and_dispose (list.hpp), to which all forms of unique lead: *)
(* two neighbouring iterators walk down the list, and an element for which *)
(* the predicate accepts the pair is erased and disposed of.  One action   *)
(* is one call of the predicate, which answers anything and may throw.     *)
(***************************************************************************)
EXTENDS Circles

CONSTANTS Nodes, Root,       \* the elements and the header
          Safe,              \* safemode_or_autounlink
          MaxLen             \* bounds the length of the list

VARIABLES heap, size, pc,
          cur, after,        \* the two iterators
          n,                 \* the number of erased elements
          given,             \* history: the list the operation was called on
          calls,             \* history: the calls of the predicate, in order
          disposed           \* history: the elements given to the disposer

vars == <<heap, size, pc, cur, after, n, given, calls, disposed>>
-----------------------------------------------------------------------------
Init ==
  /\ given \in Arrangements(Nodes, MaxLen)
  /\ heap = PushedBack(NewHooks(Nodes \cup {Root}), Root, given)
  /\ size = Len(given)
  /\ pc = "loop"
  /\ cur = get_next(heap, Root)
  /\ after = get_next(heap, cur)
  /\ n = 0
  /\ calls = <<>>
  /\ disposed = <<>>

compares(answer) ==
  /\ pc = "loop"
  /\ cur # Root /\ after # Root
  /\ calls' = Append(calls, [left |-> cur, right |-> after, says |-> answer])
  /\ UNCHANGED given

\* erase_and_dispose(after, disposer).  The count goes down before the
\* disposer runs.
erases ==
  LET h == unlink(heap, after)
  IN  /\ compares("equal")
      /\ heap' = IF Safe THEN init(h, after) ELSE h
      /\ size' = size - 1
      /\ disposed' = Append(disposed, after)
      /\ after' = get_next(heap, after)
      /\ n' = n + 1
      /\ UNCHANGED <<pc, cur>>

\* Mutant: the left iterator stays where it is.
advances_right_only ==
  /\ compares("different")
  /\ after' = get_next(heap, after)
  /\ UNCHANGED <<heap, size, pc, cur, n, disposed>>

advances ==
  /\ compares("different")
  /\ cur' = after
  /\ after' = get_next(heap, after)
  /\ UNCHANGED <<heap, size, pc, n, disposed>>

throws ==
  /\ compares("throws")
  /\ pc' = "thrown"
  /\ UNCHANGED <<heap, size, cur, after, n, disposed>>

returns ==
  /\ pc = "loop"
  /\ cur = Root \/ after = Root
  /\ pc' = "done"
  /\ UNCHANGED <<heap, size, cur, after, n, given, calls, disposed>>

Next == erases \/ advances \/ throws \/ returns

(* The thread that made the call goes on until the call has returned.      *)
Spec == Init /\ [][Next]_vars /\ WF_vars(Next)
-----------------------------------------------------------------------------
TypeOK ==
  /\ heap.next \in [Nodes \cup {Root} -> Nodes \cup {Root, Null}]
  /\ heap.prev \in [Nodes \cup {Root} -> Nodes \cup {Root, Null}]
  /\ size \in 0..MaxLen /\ n \in 0..MaxLen
  /\ {cur, after} \subseteq Nodes \cup {Root}
  /\ pc \in {"loop", "done", "thrown"}

erasing == SelectSeq(calls, LAMBDA c : c.says = "equal")
Left    == SelectSeq(given, LAMBDA x : \A i \in DOMAIN erasing : erasing[i].right # x)

(* At every call of the predicate, and when it throws, the list is whole:  *)
(* it holds the elements the predicate has not condemned, in their order,  *)
(* it counts them, and each erased one was disposed of once.               *)
ListStaysWhole ==
  /\ Circle(heap, Root, Left)
  /\ size = Len(Left) /\ n = Len(given) - Len(Left)
  /\ disposed = [i \in DOMAIN erasing |-> erasing[i].right]
  /\ Safe => \A x \in ToSet(disposed) : inited(heap, x)

(* The predicate is asked about neighbours of the current list, the left   *)
(* one being the last element that stays, and no erased element is ever    *)
(* looked at again.                                                        *)
Compared ==
  \A c \in {calls'[i] : i \in (Len(calls) + 1)..Len(calls')} :
    /\ \E i \in 1..(Len(Left) - 1) : c.left = Left[i] /\ c.right = Left[i + 1]
    /\ {c.left, c.right} \cap ToSet(disposed) = {}
ComparesNeighbours == [][Compared]_vars

(* The result has no neighbours that the predicate called equal: every     *)
(* pair of neighbours was compared and found different, with one call for  *)
(* each element after the first.                                           *)
NoEqualNeighbours ==
  pc = "done" =>
    /\ Len(calls) = IF given = <<>> THEN 0 ELSE Len(given) - 1
    /\ \A i \in 1..(Len(Left) - 1) : \E j \in DOMAIN calls :
         calls[j] = [left |-> Left[i], right |-> Left[i + 1], says |-> "different"]

(* The call returns.                                                       *)
Terminates == <>(pc \in {"done", "thrown"})
=============================================================================
