----------------------------- MODULE SListCalls -----------------------------
(***************************************************************************)
(* The calls of slist.hpp that run callbacks without comparing two lists:  *)
(* remove_if and remove_and_dispose_if, unique_and_dispose and clone_from. *)
(* One action is the code between two callbacks.  The loops are not those  *)
(* of list: a node is unlinked from its predecessor, which the loop must   *)
(* keep, the end of a linear list is a null pointer, and the cached last   *)
(* node is set by hand.                                                    *)
(***************************************************************************)
EXTENDS SListNodes, SequencesExt

CONSTANTS Nodes, This, Src,  \* the elements, the headers of *this and of src
          MaxLen, CloneLen   \* bound the length of *this, of both lists to clone

VARIABLES heap, last, size,
          op,                \* the call
          safe, cached,      \* safemode_or_autounlink and cache_last
          disposing,         \* remove_and_dispose_if, or else remove_if
          pc,
          bcur, cur, new_f, last_to_remove, num1,  \* stable_partition; unique
          it,                \* fp of erase_after_and_dispose, i of detach_and_dispose
          prev, b,           \* clone_from
          given,             \* history: the two lists at the call
          answers,           \* history: what the predicate said, and of what
          clones, disposed   \* history: what was cloned and disposed of, in order

options   == <<op, safe, cached, disposing>>
partition == <<bcur, cur, new_f, last_to_remove, num1>>
vars == <<heap, last, size, options, pc, partition, it, prev, b,
          given, answers, clones, disposed>>

Addresses == Nodes \cup {This, Src}
End       == end_node(This)

set_last_node(l, n) == IF cached THEN [last EXCEPT ![l] = n] ELSE last
reset(h, n)         == IF safe THEN init(h, n) ELSE h
-----------------------------------------------------------------------------
\* The heap in which the elements of s have been inserted into an empty list.
linked(h, l, s) ==
  FoldLeft(LAMBDA g, i : link_after(g, IF i = 1 THEN l ELSE s[i - 1], s[i]),
           init_header(h, l), [i \in DOMAIN s |-> i])

\* All elements are alike: a list is any number of them in a fixed order.
Pool == SetToSeq(Nodes)

Init ==
  /\ op \in {"remove", "unique", "clone"}
  /\ safe \in BOOLEAN /\ cached \in BOOLEAN
  /\ disposing \in (IF op = "remove" THEN BOOLEAN ELSE {TRUE})
  /\ \E i \in 0..(IF op = "clone" THEN CloneLen ELSE MaxLen),
        j \in 0..(IF op = "clone" THEN CloneLen ELSE 0) :
       /\ i + j <= Len(Pool)
       /\ given = [l \in {This, Src} |-> IF l = This THEN SubSeq(Pool, 1, i)
                                                     ELSE SubSeq(Pool, i + 1, i + j)]
  /\ heap = linked(linked([next |-> [a \in Addresses |-> Null]], This, given[This]),
                   Src, given[Src])
  /\ last = [l \in {This, Src} |-> IF cached THEN Last(<<l>> \o given[l]) ELSE Null]
  /\ size = [l \in {This, Src} |-> Len(given[l])]
  /\ pc = CASE op = "remove" -> "first" [] op = "unique" -> "loop" [] op = "clone" -> "clear"
  /\ bcur = IF op = "unique" THEN get_next(heap, This) ELSE This
  /\ cur = IF op = "unique" /\ bcur = End THEN End ELSE get_next(heap, bcur)
  /\ new_f = End
  /\ last_to_remove = This
  /\ num1 = 0
  /\ it = get_next(heap, This)
  /\ prev = This
  /\ b = End
  /\ answers = <<>> /\ clones = <<>> /\ disposed = <<>>
-----------------------------------------------------------------------------
(* stable_partition of common_slist_algorithms.                            *)

says(answer) == /\ cur # End
                /\ answers' = Append(answers, [left |-> bcur, right |-> cur, says |-> answer])
                /\ UNCHANGED <<size, options, it, prev, b, given, clones>>

first_true ==
  /\ pc = "first"
  /\ says("yes")
  /\ num1' = num1 + 1
  /\ bcur' = cur
  /\ cur' = get_next(heap, cur)
  /\ UNCHANGED <<heap, last, pc, new_f, last_to_remove, disposed>>

first_false ==
  /\ pc = "first"
  /\ says("no")
  /\ last_to_remove' = bcur
  /\ new_f' = cur
  /\ bcur' = cur
  /\ cur' = get_next(heap, cur)
  /\ pc' = "main"
  /\ UNCHANGED <<heap, last, num1, disposed>>

main_true ==
  LET nxt == get_next(heap, cur)
  IN  /\ pc = "main"
      /\ says("yes")
      /\ num1' = num1 + 1
      /\ heap' = set_next(set_next(heap, last_to_remove, cur), bcur, nxt)
      /\ last_to_remove' = cur
      /\ cur' = nxt
      /\ UNCHANGED <<last, pc, bcur, new_f, disposed>>

main_false ==
  /\ pc = "main"
  /\ says("no")
  /\ bcur' = cur
  /\ cur' = get_next(heap, cur)
  /\ UNCHANGED <<heap, last, pc, new_f, last_to_remove, num1, disposed>>

joined == IF pc = "main" THEN set_next(heap, last_to_remove, new_f) ELSE heap

partition_throws ==
  /\ pc \in {"first", "main"}
  /\ says("throws")
  /\ heap' = joined
  /\ pc' = "thrown"
  /\ UNCHANGED <<last, partition, disposed>>

(* remove_if and remove_and_dispose_if set the last node and erase the     *)
(* first part: hook by hook if there is something to do with each.         *)

partition_ends ==
  LET walked == disposing \/ safe
  IN  /\ pc \in {"first", "main"}
      /\ cur = End
      /\ heap' = unlink_range_after(joined, This, new_f)
      /\ last' = set_last_node(This, IF ~walked /\ new_f = End THEN This ELSE bcur)
      /\ it' = get_next(joined, This)
      /\ pc' = IF walked THEN "erase" ELSE "done"
      /\ size' = [size EXCEPT ![This] = IF walked THEN @ ELSE @ - num1]
      /\ UNCHANGED <<options, partition, prev, b, given, answers, clones, disposed>>

erase_one ==
  /\ pc = "erase"
  /\ it # new_f
  /\ it' = get_next(heap, it)
  /\ heap' = reset(heap, it)
  /\ disposed' = IF disposing THEN Append(disposed, it) ELSE disposed
  /\ size' = [size EXCEPT ![This] = @ - 1]
  /\ UNCHANGED <<last, options, pc, partition, prev, b, given, answers, clones>>

erase_end ==
  /\ pc = "erase"
  /\ it = new_f
  /\ last' = IF is_empty(heap, This) THEN set_last_node(This, This) ELSE last
  /\ pc' = "done"
  /\ UNCHANGED <<heap, size, options, partition, it, prev, b, given, answers,
                 clones, disposed>>
-----------------------------------------------------------------------------
(* unique_and_dispose: bcur and cur are neighbours.                        *)

\* cur = erase_after_and_dispose(bcur, disposer); the last node follows.
unique_erases ==
  /\ pc = "loop"
  /\ cur # End
  /\ answers' = Append(answers, [left |-> bcur, right |-> cur, says |-> "yes"])
  /\ heap' = reset(unlink_after(heap, bcur), cur)
  /\ last' = IF cur = last[This] THEN set_last_node(This, bcur) ELSE last
  /\ size' = [size EXCEPT ![This] = @ - 1]
  /\ disposed' = Append(disposed, cur)
  /\ cur' = get_next(heap, cur)
  /\ num1' = num1 + 1
  /\ UNCHANGED <<options, pc, bcur, new_f, last_to_remove, it, prev, b, given, clones>>

unique_advances ==
  /\ pc = "loop"
  /\ says("no")
  /\ bcur' = cur
  /\ cur' = get_next(heap, cur)
  /\ UNCHANGED <<heap, last, pc, new_f, last_to_remove, num1, disposed>>

unique_throws ==
  /\ pc = "loop"
  /\ says("throws")
  /\ pc' = "thrown"
  /\ UNCHANGED <<heap, last, partition, disposed>>

unique_returns ==
  /\ pc = "loop"
  /\ cur = End
  /\ last' = IF bcur = End THEN last ELSE set_last_node(This, bcur)
  /\ pc' = "done"
  /\ UNCHANGED <<heap, size, options, partition, it, prev, b, given, answers,
                 clones, disposed>>
-----------------------------------------------------------------------------
(* clear_and_dispose, before the cloning and in the guard.                 *)

dispose ==
  /\ pc \in {"clear", "rollback"}
  /\ it # End
  /\ it' = get_next(heap, it)
  /\ heap' = reset(heap, it)
  /\ disposed' = Append(disposed, it)
  /\ UNCHANGED <<last, size, options, pc, partition, prev, b, given, answers, clones>>

cleared ==
  /\ pc \in {"clear", "rollback"}
  /\ it = End
  /\ heap' = init_header(heap, This)
  /\ last' = set_last_node(This, This)
  /\ size' = [size EXCEPT ![This] = 0]
  /\ IF pc = "clear" THEN pc' = "clone" /\ b' = get_next(heap, Src)
                     ELSE pc' = "thrown" /\ UNCHANGED b
  /\ prev' = This
  /\ UNCHANGED <<options, partition, it, given, answers, clones, disposed>>

SrcEnd == end_node(Src)

\* prev = insert_after(prev, *cloner(*b)), any element that is in no list.
clone ==
  /\ pc = "clone"
  /\ b # SrcEnd
  /\ \E c \in Nodes \ (ToSet(given[Src]) \cup ToSet(clones)) :
       /\ heap' = link_after(heap, prev, c)
       /\ last' = IF last[This] = prev THEN set_last_node(This, c) ELSE last
       /\ prev' = c
       /\ clones' = Append(clones, c)
  /\ size' = [size EXCEPT ![This] = @ + 1]
  /\ b' = get_next(heap, b)
  /\ UNCHANGED <<options, pc, partition, it, given, answers, disposed>>

cloner_throws ==
  /\ pc = "clone"
  /\ b # SrcEnd
  /\ pc' = "rollback"
  /\ it' = get_next(heap, This)
  /\ UNCHANGED <<heap, last, size, options, partition, prev, b, given, answers,
                 clones, disposed>>

clone_returns ==
  /\ pc = "clone"
  /\ b = SrcEnd
  /\ pc' = "done"
  /\ UNCHANGED <<heap, last, size, options, partition, it, prev, b, given, answers,
                 clones, disposed>>
-----------------------------------------------------------------------------
Next == \/ first_true \/ first_false \/ main_true \/ main_false
        \/ partition_throws \/ partition_ends \/ erase_one \/ erase_end
        \/ unique_erases \/ unique_advances \/ unique_throws \/ unique_returns
        \/ dispose \/ cleared \/ clone \/ cloner_throws \/ clone_returns
-----------------------------------------------------------------------------
Chain(s) == \A i \in 1..(Len(s) - 1) : heap.next[s[i]] = s[i + 1]

\* The list holds exactly s, and its counter and its cached node say so.
Whole(l, s) == /\ Chain(<<l>> \o s \o <<end_node(l)>>)
               /\ size[l] = Len(s)
               /\ cached => last[l] = Last(<<l>> \o s)

asked == Len(answers)
Answered(answer) ==
  LET found == SelectSeq(answers, LAMBDA a : a.says = answer)
  IN  [i \in DOMAIN found |-> found[i].right]
Rest(i) == SubSeq(given[This], i, Len(given[This]))
Resets  == safe => \A n \in ToSet(disposed) : n \in ToSet(clones) \/ inited(heap, n)

TypeOK ==
  /\ heap \in [next : [Addresses -> Addresses \cup {Null}]]
  /\ last \in [{This, Src} -> Addresses \cup {Null}]
  /\ size \in [{This, Src} -> 0..Cardinality(Nodes)]
  /\ {bcur, cur, new_f, last_to_remove, it, prev, b} \subseteq Addresses \cup {Null}

(* remove_if: no element is lost in the two pieces of the partition, the   *)
(* handler joins them, the disposer sees the list of those that stay, and  *)
(* these are the result, with the right last node.                         *)
RemovesExactly ==
  op = "remove" =>
    LET gone == Answered("yes")
        kept == Answered("no")
    IN  /\ \A i \in 1..asked : answers[i].right = given[This][i]
        /\ pc = "main" => /\ Chain(<<This>> \o gone)
                          /\ Last(<<This>> \o gone) = last_to_remove
                          /\ Chain(kept \o Rest(asked + 1) \o <<End>>)
                          /\ Head(kept) = new_f /\ Last(kept) = bcur
        /\ pc = "thrown" => Whole(This, gone \o kept \o Rest(asked))
        /\ pc = "erase" => /\ Chain(<<This>> \o kept \o <<End>>)
                           /\ disposing => size[This] = Len(given[This]) - Len(disposed)
        /\ pc = "done" => /\ Whole(This, kept)
                          /\ num1 = Len(gone) /\ asked = Len(given[This])
                          /\ disposed = IF disposing THEN gone ELSE <<>>
                          /\ safe => \A n \in ToSet(gone) : inited(heap, n)
        /\ Resets

(* unique: at every question the list is whole, with its last node, and    *)
(* the question is about neighbours; the last ones found equal are gone.   *)
UniqueKeepsOneOfEach ==
  op = "unique" =>
    LET gone == Answered("yes")
        left == SelectSeq(given[This], LAMBDA x : x \notin ToSet(gone))
    IN  /\ Whole(This, left)
        /\ disposed = gone /\ num1 = Len(gone)
        /\ Resets
        /\ pc = "loop" /\ cur # End =>
             \E i \in 1..(Len(left) - 1) : bcur = left[i] /\ cur = left[i + 1]
        /\ pc = "done" =>
             /\ asked = IF given[This] = <<>> THEN 0 ELSE Len(given[This]) - 1
             /\ \A i \in 1..(Len(left) - 1) : \E j \in 1..asked :
                  answers[j] = [left |-> left[i], right |-> left[i + 1], says |-> "no"]

(* clone_from: the old elements are disposed of before the first clone,    *)
(* src is cloned in order, behind the last clone; if the cloner throws,    *)
(* every clone is disposed of once and the list is empty again.            *)
ClonesOrRollsBack ==
  op = "clone" =>
    LET doomed == IF pc \in {"rollback", "thrown"} THEN given[This] \o clones
                  ELSE given[This]
        rest   == SubSeq(doomed, Len(disposed) + 1, Len(doomed))
    IN  /\ IsPrefix(disposed, doomed)
        /\ pc \in {"clear", "rollback"} => /\ Chain(rest \o <<End>>)
                                           /\ it = Head(rest \o <<End>>)
        /\ pc \in {"clone", "done", "thrown"} => rest = <<>>
        /\ Whole(Src, given[Src])
        /\ pc \in {"clone", "done"} => Whole(This, clones)
        /\ pc = "done" => Len(clones) = Len(given[Src])
        /\ pc = "thrown" => /\ Whole(This, <<>>)
                            /\ safe => \A n \in Nodes \ ToSet(given[Src]) : inited(heap, n)
=============================================================================
