----------------------------- MODULE TreeCalls -----------------------------
(***************************************************************************)
(* One call of clone_from, or the calls that take a tree apart step by     *)
(* step.  What happens is chosen first and then runs alone, since a tree   *)
(* has no lock and no other call may touch it meanwhile.                   *)
(***************************************************************************)
EXTENDS Naturals, FiniteSets

CONSTANTS Null, Key, This, Src,
          SrcNodes, OldNodes,          \* of clone_from
          TornNodes                    \* of the tree that is taken apart

\* Elements are numbers, so that clones can be told by theirs.
ASSUME NodeAssumption ==
  /\ SrcNodes \cup OldNodes = 1..Cardinality(SrcNodes \cup OldNodes)
  /\ SrcNodes \cap OldNodes = {}
  /\ This # Src /\ Null \notin {This, Src} /\ {Null, This, Src} \cap Nat = {}
  /\ TornNodes \subseteq Nat

VARIABLES call, t, size,
          pc, x, current, insertion_point, target_sub_root, leftmost, rightmost,
          src0, made, disposed,
          sorted, unlinked, done

Clone    == INSTANCE TreeClone
Teardown == INSTANCE TreeTeardown WITH Nodes <- TornNodes, Safe <- TRUE

unused == "unused"
only_clone    == <<pc, x, current, insertion_point, target_sub_root, leftmost,
                   rightmost, src0, made, disposed>>
only_teardown == <<sorted, unlinked, done>>
vars == <<call, t, size, only_clone, only_teardown>>
-----------------------------------------------------------------------------
NoClone == /\ pc = unused /\ x = unused /\ current = unused
           /\ insertion_point = unused /\ target_sub_root = unused
           /\ leftmost = unused /\ rightmost = unused
           /\ src0 = unused /\ made = unused /\ disposed = unused
NoTeardown == sorted = unused /\ unlinked = unused /\ done = unused

Init == \/ call = "clone" /\ Clone!Init /\ NoTeardown
        \/ call = "teardown" /\ Teardown!Init /\ NoClone

Next == \/ call = "clone" /\ Clone!Next /\ UNCHANGED <<call, only_teardown>>
        \/ call = "teardown" /\ Teardown!Next /\ UNCHANGED <<call, only_clone>>

\* The calling thread goes on until the last call has returned.
Spec == Init /\ [][Next]_vars /\ WF_vars(Next)
-----------------------------------------------------------------------------
TypeOK == call = "clone" => Clone!TypeOK

(* clone_from: whatever throws when, every old element is disposed of      *)
(* once, every clone once if the call fails, and nothing of src; then      *)
(* *this is empty and no hook but those of src is linked.                  *)
ClonesOrRollsBack == call = "clone" => Clone!DisposesEachOnce /\ Clone!RollsBack

(* The copy mirrors src link for link, its first element and its size.     *)
Mirrors == call = "clone" => Clone!Mirrors

(* The header of the copy leads to its last element, unless a right child  *)
(* lies in the left subtree of the last element.                           *)
LastIsFound == call = "clone" => Clone!LastIsFound

(* Repeated calls of unlink_leftmost_without_rebalance return the elements *)
(* in their order, although each leaves stale links behind, and in the end *)
(* a valid empty tree and no linked hook.                                  *)
UnlinksInOrder == call = "teardown" => Teardown!UnlinksInOrder /\ Teardown!LeavesNothing

(* Every call returns or throws.                                           *)
Terminates == <>(IF call = "clone" THEN Clone!Returned \/ Clone!Thrown ELSE done)
=============================================================================
