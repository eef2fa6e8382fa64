----------------------------- MODULE ListClone -----------------------------
(***************************************************************************)
(* list::clone_from(src, cloner, disposer) (list.hpp), with the guard      *)
(* exception_disposer (detail/exception_disposer.hpp) that clears the list *)
(* again when the cloner throws, and clear_and_dispose, which runs before  *)
(* the cloning and in that guard.  One action is the code around one call  *)
(* of the disposer or of the cloner.  A disposed element may be used by    *)
(* the cloner again, as a pool would.                                      *)
(***************************************************************************)
EXTENDS Circles

CONSTANTS Nodes, This, Src,  \* the elements, the headers of *this and of src
          Safe,              \* safemode_or_autounlink
          MaxLen             \* bounds the length of each list

VARIABLES heap, size, pc,
          it,                \* the iterator of clear_and_dispose
          b,                 \* the iterator of clone_from in src
          given,             \* history: the two lists at the call
          clones,            \* history: the clones made, in order
          disposed           \* history: the elements disposed of, in order

vars == <<heap, size, pc, it, b, given, clones, disposed>>

Addresses == Nodes \cup {This, Src}
-----------------------------------------------------------------------------
Init ==
  /\ given \in [{This, Src} -> Arrangements(Nodes, MaxLen)]
  /\ ToSet(given[This]) \cap ToSet(given[Src]) = {}
  /\ heap = PushedBack(PushedBack(NewHooks(Addresses), This, given[This]),
                       Src, given[Src])
  /\ size = [l \in {This, Src} |-> Len(given[l])]
  /\ pc = "clear"
  /\ it = get_next(heap, This)
  /\ b = Src
  /\ clones = <<>>
  /\ disposed = <<>>

(* clear_and_dispose: the hooks are reset one by one, each before its      *)
(* disposer runs; the header and the size only after all of them.          *)

dispose ==
  /\ pc \in {"clear", "rollback"}
  /\ it # This
  /\ it' = get_next(heap, it)
  /\ heap' = IF Safe THEN init(heap, it) ELSE heap
  /\ disposed' = Append(disposed, it)
  /\ UNCHANGED <<size, pc, b, given, clones>>

cleared == /\ it = This
           /\ heap' = init_header(heap, This)
           /\ size' = [size EXCEPT ![This] = 0]
           /\ UNCHANGED <<it, given, clones, disposed>>

clear_ends == /\ pc = "clear"
              /\ cleared
              /\ pc' = "clone"
              /\ b' = get_next(heap, Src)

rollback_ends == /\ pc = "rollback"
                 /\ cleared
                 /\ pc' = "thrown"
                 /\ UNCHANGED b

(* The cloner yields an element that is in no list.                        *)

clone ==
  \E c \in Nodes \ (ToSet(given[Src]) \cup ToSet(clones)) :
    /\ pc = "clone"
    /\ b # Src
    /\ heap' = link_before(heap, This, c)
    /\ size' = [size EXCEPT ![This] = @ + 1]
    /\ b' = get_next(heap, b)
    /\ clones' = Append(clones, c)
    /\ UNCHANGED <<pc, it, given, disposed>>

\* Mutant: clone_from has no guard.
cloner_throws_unguarded ==
  /\ pc = "clone"
  /\ b # Src
  /\ pc' = "thrown"
  /\ UNCHANGED <<heap, size, it, b, given, clones, disposed>>

cloner_throws ==
  /\ pc = "clone"
  /\ b # Src
  /\ pc' = "rollback"
  /\ it' = get_next(heap, This)
  /\ UNCHANGED <<heap, size, b, given, clones, disposed>>

returns ==
  /\ pc = "clone"
  /\ b = Src
  /\ pc' = "done"
  /\ UNCHANGED <<heap, size, it, b, given, clones, disposed>>

Next == \/ dispose \/ clear_ends \/ rollback_ends
        \/ clone \/ cloner_throws \/ returns

(* The thread that made the call goes on until the call has returned.      *)
Spec == Init /\ [][Next]_vars /\ WF_vars(Next)
-----------------------------------------------------------------------------
TypeOK ==
  /\ heap \in [next : [Addresses -> Addresses \cup {Null}],
               prev : [Addresses -> Addresses \cup {Null}]]
  /\ size \in [{This, Src} -> 0..Cardinality(Nodes)]
  /\ {it, b} \subseteq Addresses
  /\ pc \in {"clear", "clone", "rollback", "done", "thrown"}

(* Every old element is disposed of once and in order before the first     *)
(* clone is made, every clone only when the cloner has thrown, and nothing *)
(* else is: what was disposed of and what is still to come, reachable from *)
(* the iterator although the hooks behind it are gone, are the old list.   *)
DisposesEachOnce ==
  LET doomed == CASE pc = "clear" -> given[This]
                  [] pc \in {"clone", "done"} -> given[This]
                  [] pc \in {"rollback", "thrown"} -> given[This] \o clones
      rest == SubSeq(doomed, Len(disposed) + 1, Len(doomed))
  IN  /\ IsPrefix(disposed, doomed)
      /\ IF pc \in {"clear", "rollback"}
         THEN Chain(heap, rest \o <<This>>) /\ it = Head(rest \o <<This>>)
         ELSE rest = <<>>

(* The list holds the clones made so far, one for each element of src that *)
(* the loop has passed, and src is as it was.                              *)
ClonesInOrder ==
  /\ Circle(heap, Src, given[Src]) /\ size[Src] = Len(given[Src])
  /\ pc \in {"clone", "done"} =>
       /\ Circle(heap, This, clones) /\ size[This] = Len(clones)
       /\ b = (given[Src] \o <<Src>>)[Len(clones) + 1]
       /\ pc = "done" => Len(clones) = Len(given[Src])

(* A throwing cloner leaves an empty list; and no hook keeps a trace: in   *)
(* the safe modes each element outside both lists can be inserted again.   *)
RollsBack ==
  /\ pc = "thrown" => Circle(heap, This, <<>>) /\ size[This] = 0
  /\ Safe /\ pc \in {"clone", "done", "thrown"} =>
       \A n \in Nodes \ ToSet(given[Src]) :
         inited(heap, n) <=> (pc = "thrown" \/ n \notin ToSet(clones))

(* The call returns.                                                       *)
Terminates == <>(pc \in {"done", "thrown"})
=============================================================================
