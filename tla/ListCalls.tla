----------------------------- MODULE ListCalls -----------------------------
(***************************************************************************)
(* One call of one of the operations of list.hpp or slist.hpp that call    *)
(* back: remove, unique, merge, clone_from or sort.  They have modules of  *)
(* their own; here the call is chosen first and then runs alone, since a   *)
(* list has no lock and no other call may touch it meanwhile.  The modules *)
(* share the names of what they have in common; the variables of the       *)
(* others stay unused.                                                     *)
(***************************************************************************)
EXTENDS Naturals, Sequences

CONSTANTS Null, This, That,            \* the headers of *this and the argument
          Nodes, CloneNodes, Keys,
          MaxLen, MergeLen, CloneLen, SortLen,    \* bounds of the lists
          Counters                     \* of sort

ASSUME HeaderAssumption == /\ This # That /\ Null \notin {This, That}
                           /\ {This, That, Null} \cap (Nodes \cup CloneNodes) = {}

\* 2^64 elements do not fit into memory: the 64 counters never run out.
ASSUME CountersSuffice == Keys \subseteq Nat /\ SortLen < 2^Counters

VARIABLES call, heap, size, pc, given, disposed,
          safe, disposing, bcur, cur, new_f, last_to_remove, num1, bp, answers,
          after, n, calls,
          b, ix, key, compared,
          it, clones,
          this, carry, counter, i, fill,
          last, cached, op, prev,
          sorting, into, from, bb, ibx, last_inserted

Remove == INSTANCE ListRemove WITH Root <- This
Unique == INSTANCE ListUnique WITH Root <- This, Safe <- TRUE
Merge  == INSTANCE ListMerge WITH X <- That, MaxLen <- MergeLen
Clone  == INSTANCE ListClone WITH Src <- That, Safe <- TRUE, MaxLen <- CloneLen,
                                  Nodes <- CloneNodes
Sort   == INSTANCE ListSort WITH MaxLen <- SortLen

Single       == INSTANCE SListCalls WITH Src <- That, Nodes <- CloneNodes, Linear <- FALSE
SingleLinear == INSTANCE SListCalls WITH Src <- That, Nodes <- CloneNodes, Linear <- TRUE
SingleSort   == INSTANCE SListSort WITH X <- That, Nodes <- CloneNodes, Linear <- FALSE
LinearSort   == INSTANCE SListSort WITH X <- That, Nodes <- CloneNodes, Linear <- TRUE

unused == "unused"
of_partition == <<safe, disposing, bcur, new_f, last_to_remove, num1, answers>>
of_unique    == <<after, calls>>
of_merge     == <<ix, compared>>
of_clone     == <<it, clones>>
of_sort      == <<this, carry, counter>>
of_both      == <<i, fill>>
of_slist     == <<last, cached>>
of_scalls    == <<op, prev>>
of_ssort     == <<sorting, into, from, bb, ibx, last_inserted>>
no_slist     == <<of_slist, of_scalls, of_ssort>>
vars == <<call, heap, size, pc, given, disposed, cur, n, b, key, bp, of_partition,
          of_unique, of_merge, of_clone, of_sort, of_both, no_slist>>
-----------------------------------------------------------------------------
NoPartition == /\ safe = unused /\ disposing = unused /\ bcur = unused /\ new_f = unused
               /\ last_to_remove = unused /\ num1 = unused /\ answers = unused
NoUnique == after = unused /\ calls = unused
NoMerge  == ix = unused /\ compared = unused
NoClone  == it = unused /\ clones = unused
NoSort   == this = unused /\ carry = unused /\ counter = unused
NoFill   == i = unused /\ fill = unused
NoSCalls == op = unused /\ prev = unused
NoSSort  == /\ sorting = unused /\ into = unused /\ from = unused
            /\ bb = unused /\ ibx = unused /\ last_inserted = unused
NoSList  == last = unused /\ cached = unused /\ NoSCalls /\ NoSSort

Init ==
  \/ /\ call = "remove" /\ Remove!Init
     /\ NoUnique /\ NoMerge /\ NoClone /\ NoSort /\ NoFill /\ NoSList
     /\ n = unused /\ b = unused /\ key = unused
  \/ /\ call = "unique" /\ Unique!Init
     /\ NoPartition /\ NoMerge /\ NoClone /\ NoSort /\ NoFill /\ NoSList
     /\ bp = unused /\ b = unused /\ key = unused
  \/ /\ call = "merge" /\ Merge!Init
     /\ NoPartition /\ NoUnique /\ NoClone /\ NoSort /\ NoFill /\ NoSList
     /\ bp = unused /\ cur = unused /\ disposed = unused
  \/ /\ call = "clone" /\ Clone!Init
     /\ NoPartition /\ NoUnique /\ NoMerge /\ NoSort /\ NoFill /\ NoSList
     /\ bp = unused /\ cur = unused /\ n = unused /\ key = unused
  \/ /\ call = "sort" /\ Sort!Init
     /\ NoPartition /\ NoUnique /\ NoMerge /\ NoClone /\ NoSList
     /\ heap = unused /\ size = unused /\ given = unused /\ disposed = unused
     /\ bp = unused /\ cur = unused /\ n = unused /\ b = unused
  \/ /\ \/ call = "slist" /\ Single!Init
        \/ call = "linear slist" /\ SingleLinear!Init
     /\ NoUnique /\ NoMerge /\ NoSort /\ NoFill /\ NoSSort
     /\ bp = unused /\ n = unused /\ key = unused
  \/ /\ \/ call = "slist sort" /\ SingleSort!Init
        \/ call = "linear slist sort" /\ LinearSort!Init
     /\ NoPartition /\ NoUnique /\ NoMerge /\ NoClone /\ NoSort /\ NoSCalls
     /\ disposed = unused /\ bp = unused /\ cur = unused /\ b = unused

Next ==
  /\ UNCHANGED call
  /\ \/ /\ call = "remove" /\ Remove!Next
        /\ UNCHANGED <<n, b, key, of_unique, of_merge, of_clone, of_sort, of_both, no_slist>>
     \/ /\ call = "unique" /\ Unique!Next
        /\ UNCHANGED <<bp, b, key, of_partition, of_merge, of_clone, of_sort, of_both, no_slist>>
     \/ /\ call = "merge" /\ Merge!Next
        /\ UNCHANGED <<bp, cur, disposed, of_partition, of_unique, of_clone, of_sort,
                       of_both, no_slist>>
     \/ /\ call = "clone" /\ Clone!Next
        /\ UNCHANGED <<bp, cur, n, key, of_partition, of_unique, of_merge, of_sort,
                       of_both, no_slist>>
     \/ /\ call = "sort" /\ Sort!Next
        /\ UNCHANGED <<heap, size, given, disposed, bp, cur, n, b,
                       of_partition, of_unique, of_merge, of_clone, no_slist>>
     \/ /\ \/ call = "slist" /\ Single!Next
           \/ call = "linear slist" /\ SingleLinear!Next
        /\ UNCHANGED <<bp, n, key, of_unique, of_merge, of_sort, of_both, of_ssort>>
     \/ /\ \/ call = "slist sort" /\ SingleSort!Next
           \/ call = "linear slist sort" /\ LinearSort!Next
        /\ UNCHANGED <<disposed, bp, cur, b, of_partition, of_unique, of_merge, of_clone,
                       of_sort, of_scalls>>

\* The thread that made the call goes on until the call has returned.
Spec == Init /\ [][Next]_vars /\ WF_vars(Next)
-----------------------------------------------------------------------------
TypeOK == CASE call = "remove" -> Remove!TypeOK
            [] call = "unique" -> Unique!TypeOK
            [] call = "merge"  -> Merge!TypeOK
            [] call = "clone"  -> Clone!TypeOK
            [] call = "sort"   -> Sort!TypeOK
            [] call = "slist"             -> Single!TypeOK
            [] call = "linear slist"      -> SingleLinear!TypeOK
            [] call = "slist sort"        -> SingleSort!TypeOK
            [] call = "linear slist sort" -> LinearSort!TypeOK

(* remove_if loses nothing: between two calls of the predicate every       *)
(* element is in one of the three pieces of the list, and when the         *)
(* predicate throws they are one list again, of all the elements.  In the  *)
(* end exactly the elements the predicate chose are out, in order, and     *)
(* while the disposer sees them the list already is the one that stays.    *)
(* The same of slist, with its last node.                                  *)
RemovesExactly ==
  /\ call = "remove" => /\ Remove!PiecesKept /\ Remove!ThrowKeepsAll
                        /\ Remove!DisposerSeesTheKept /\ Remove!RemovesExactly
  /\ call = "slist" => Single!RemovesExactly
  /\ call = "linear slist" => SingleLinear!RemovesExactly

(* unique: the list is whole at every call of the predicate, and in the    *)
(* end no two neighbours are left that the predicate called equal.  The    *)
(* same of slist, with its last node.                                      *)
UniqueKeepsOneOfEach ==
  /\ call = "unique" => Unique!ListStaysWhole /\ Unique!NoEqualNeighbours
  /\ call = "slist" => Single!UniqueKeepsOneOfEach
  /\ call = "linear slist" => SingleLinear!UniqueKeepsOneOfEach

(* unique asks only about neighbours of the list as it is, and never       *)
(* touches an element it has given to the disposer.                        *)
UniqueComparesNeighbours == [][call = "unique" => Unique!Compared]_vars

(* merge: at every comparison, also one that throws, both lists are whole  *)
(* and counted and the moved elements are merged; at the end all are, and  *)
(* stably; no element of *this is compared in vain more than once and none *)
(* of x more than twice.  Of slist, without the numbers of comparisons.    *)
MergesStably ==
  /\ call = "merge" => /\ Merge!MergedSoFar /\ Merge!CountsTheRange
                       /\ Merge!MergesStably /\ Merge!LinearInBoth
  /\ call = "slist sort" => SingleSort!MergesStably
  /\ call = "linear slist sort" => LinearSort!MergesStably

(* clone_from disposes of every old element before the first clone, clones *)
(* each element of src once, in order, and if the cloner throws disposes   *)
(* of every clone once; then no hook is linked.  src stays as it was.      *)
ClonesOrRollsBack ==
  /\ call = "clone" => /\ Clone!DisposesEachOnce /\ Clone!RollsBack
                       /\ Clone!ClonesInOrder
  /\ call = "slist" => Single!ClonesOrRollsBack
  /\ call = "linear slist" => SingleLinear!ClonesOrRollsBack

(* sort: the counters hold what was taken, in binary and the oldest in the *)
(* highest, no element is lost between two merges, and the result is the   *)
(* stable sort of the list.  Of slist: at every comparison all temporary   *)
(* lists are whole, sorted and stable, and their last nodes are right.     *)
SortsStably ==
  /\ call = "sort" => /\ Sort!OldestInHighest /\ Sort!BinaryCounters
                      /\ Sort!NothingLost /\ Sort!SortsStably
  /\ call = "slist sort" => SingleSort!SortsStably
  /\ call = "linear slist sort" => LinearSort!SortsStably

(* Every call returns or throws.                                           *)
Terminates == <>(pc \in {"done", "thrown"})
=============================================================================
