------------------------------ MODULE ListSort ------------------------------
(***************************************************************************)
(* list::sort(p) (list.hpp): the merge sort with a carry list and 64       *)
(* counter lists, counter[i] being empty or of 2^i elements.  The lists    *)
(* are sequences here (List and ListMerge have the pointers), the element  *)
(* i is the one that was the i-th of the list, and key[i] is what p        *)
(* compares.  One action is one splice, merge or swap of lists; p may      *)
(* throw in a merge, and then carry and the counters are destroyed.        *)
(***************************************************************************)
EXTENDS Circles

CONSTANTS Keys, MaxLen,      \* the numbers p compares, a bound of the length
          Counters           \* the number of counters, 64 in the code; the code
                             \* never checks that they suffice

VARIABLES this, carry, counter,      \* the lists
          i, fill,                   \* the variables of sort
          pc,
          key                        \* the key of every element

vars == <<this, carry, counter, i, fill, pc, key>>

given == [x \in DOMAIN key |-> x]
none  == [x \in 0..(Counters - 1) |-> <<>>]
-----------------------------------------------------------------------------
Init ==
  /\ key \in BoundedSeq(Keys, MaxLen)
  /\ this = given
  /\ carry = <<>>
  /\ counter = none
  /\ i = 0
  /\ fill = 0
  /\ pc = IF Len(this) < 2 THEN "done" ELSE "next"

\* carry.splice(carry.begin(), *this, this->begin())
takes ==
  /\ pc = "next"
  /\ this # <<>>
  /\ carry' = <<Head(this)>> \o carry
  /\ this' = Tail(this)
  /\ i' = 0
  /\ pc' = "carry"
  /\ UNCHANGED <<counter, fill, key>>

\* Mutant: the newer elements are merged in front of the older ones.
merges_into_carry ==
  /\ pc = "carry"
  /\ i < fill /\ counter[i] # <<>>
  /\ carry' = StableMerge(carry, counter[i], key)
  /\ counter' = [counter EXCEPT ![i] = <<>>]
  /\ i' = i + 1
  /\ UNCHANGED <<this, fill, pc, key>>

\* counter[i].merge(carry, p); carry.swap(counter[i++])
merges_carry ==
  /\ pc = "carry"
  /\ i < fill /\ counter[i] # <<>>
  /\ carry' = StableMerge(counter[i], carry, key)
  /\ counter' = [counter EXCEPT ![i] = <<>>]
  /\ i' = i + 1
  /\ UNCHANGED <<this, fill, pc, key>>

\* carry.swap(counter[i])
stores_carry ==
  /\ pc = "carry"
  /\ i = fill \/ counter[i] = <<>>
  /\ carry' = counter[i]
  /\ counter' = [counter EXCEPT ![i] = carry]
  /\ fill' = IF i = fill THEN fill + 1 ELSE fill
  /\ pc' = "next"
  /\ UNCHANGED <<this, i, key>>

all_taken ==
  /\ pc = "next"
  /\ this = <<>>
  /\ i' = 1
  /\ pc' = "collect"
  /\ UNCHANGED <<this, carry, counter, fill, key>>

\* Mutant: the last loop does not advance.
collects_in_place ==
  /\ pc = "collect"
  /\ i < fill
  /\ counter' = [counter EXCEPT ![i] = StableMerge(counter[i], counter[i - 1], key),
                                ![i - 1] = <<>>]
  /\ UNCHANGED <<this, carry, i, fill, pc, key>>

\* counter[i].merge(counter[i-1], p)
collects ==
  /\ pc = "collect"
  /\ i < fill
  /\ counter' = [counter EXCEPT ![i] = StableMerge(counter[i], counter[i - 1], key),
                                ![i - 1] = <<>>]
  /\ i' = i + 1
  /\ UNCHANGED <<this, carry, fill, pc, key>>

\* this->swap(counter[fill-1])
returns ==
  /\ pc = "collect"
  /\ i >= fill
  /\ this' = counter[fill - 1]
  /\ counter' = [counter EXCEPT ![fill - 1] = this]
  /\ pc' = "done"
  /\ UNCHANGED <<carry, i, fill, key>>

\* p throws in a merge of two lists that are not empty; the destructors
\* detach what carry and the counters hold.
throws ==
  /\ \/ pc = "carry" /\ i < fill /\ counter[i] # <<>>
     \/ pc = "collect" /\ i < fill /\ counter[i] # <<>> /\ counter[i - 1] # <<>>
  /\ carry' = <<>>
  /\ counter' = none
  /\ pc' = "thrown"
  /\ UNCHANGED <<this, i, fill, key>>

Next == \/ takes \/ merges_carry \/ stores_carry \/ all_taken
        \/ collects \/ returns \/ throws

(* The thread that made the call goes on until the call has returned.      *)
Spec == Init /\ [][Next]_vars /\ WF_vars(Next)
-----------------------------------------------------------------------------
TypeOK ==
  /\ this \in Seq(DOMAIN key) /\ carry \in Seq(DOMAIN key)
  /\ counter \in [0..(Counters - 1) -> Seq(DOMAIN key)]
  /\ i \in 0..Counters /\ fill \in 0..Counters
  /\ pc \in {"next", "carry", "collect", "done", "thrown"}

\* The number of elements in the counters from j on.
InCounters(j) == FoldLeft(LAMBDA sum, x : sum + Len(counter[Counters - x]), 0,
                          [x \in 1..(Counters - j) |-> x])

\* The stable sort of the elements from a to b of the list that was given.
SortedPart(a, b) == StableMerge(SubSeq(given, a, b), <<>>, key)

(* The counters, read from the highest, hold the elements taken so far in  *)
(* the order of the list, each counter a sorted part of it.  A merge thus  *)
(* always has the older elements in *this: that makes the sort stable.     *)
OldestInHighest ==
  pc # "thrown" => \A j \in 0..(Counters - 1) :
                     counter[j] = SortedPart(InCounters(j + 1) + 1, InCounters(j))

(* The counters count in binary the elements that were taken, and fill is  *)
(* the number of digits: no counter beyond it is ever touched.             *)
BinaryCounters ==
  /\ pc = "next" => \A j \in 0..(Counters - 1) : Len(counter[j]) \in {0, 2^j}
  /\ pc = "carry" => /\ Len(carry) = 2^i
                     /\ \A j \in 0..(i - 1) : counter[j] = <<>>
  /\ pc \in {"next", "carry", "collect"} =>
       \A j \in fill..(Counters - 1) : counter[j] = <<>>

(* No element is lost between two steps: each is in one of the lists.      *)
(* After a throw those still in *this are the last ones, in their order.   *)
NothingLost ==
  IF pc = "thrown" THEN \E x \in 1..Len(given) : this = SubSeq(given, x + 1, Len(given))
  ELSE Len(this) + Len(carry) + InCounters(0) = Len(given)

(* The result is the stable sort of the list, and the temporary lists that *)
(* are destroyed on return are empty.                                      *)
SortsStably ==
  pc = "done" => /\ this = SortedPart(1, Len(given))
                 /\ carry = <<>> /\ counter = none

(* The call returns.                                                       *)
Terminates == <>(pc \in {"done", "thrown"})
=============================================================================
