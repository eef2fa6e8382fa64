----------------------------- MODULE ListKinds -----------------------------
(***************************************************************************)
(* All operations of ListLoops and SListLoops for the kinds of lists a     *)
(* program may choose when it is compiled: doubly linked lists of          *)
(* safe_link hooks that are counted, of auto_unlink hooks, which cannot    *)
(* be, and of normal_link hooks, whose erased elements keep stale links;   *)
(* and singly linked ones, circular or linear, with and without a cached   *)
(* last node.                                                              *)
(***************************************************************************)
EXTENDS Naturals, FiniteSets, Sequences

CONSTANTS Nodes,
          NormalNodes,       \* the elements of the other lists
          Lists, Null, Junk, SizeMod, MaxShift

VARIABLES kind, heap, last, size, elems

Safe   == INSTANCE ListLoops WITH LinkMode <- "safe", ConstantTimeSize <- TRUE
Auto   == INSTANCE ListLoops WITH LinkMode <- "auto", ConstantTimeSize <- FALSE
Normal == INSTANCE ListLoops WITH LinkMode <- "normal", ConstantTimeSize <- TRUE,
                                  Nodes <- NormalNodes

SafeSingle == INSTANCE SListLoops WITH
  LinkMode <- "safe", ConstantTimeSize <- TRUE, Linear <- FALSE, CacheLast <- FALSE
AutoSingle == INSTANCE SListLoops WITH
  LinkMode <- "auto", ConstantTimeSize <- FALSE, Linear <- FALSE, CacheLast <- FALSE,
  Nodes <- NormalNodes
CachedSingle == INSTANCE SListLoops WITH
  LinkMode <- "normal", ConstantTimeSize <- FALSE, Linear <- FALSE, CacheLast <- TRUE,
  Nodes <- NormalNodes
LinearSingle == INSTANCE SListLoops WITH
  LinkMode <- "safe", ConstantTimeSize <- FALSE, Linear <- TRUE, CacheLast <- FALSE,
  Nodes <- NormalNodes
LinearCachedSingle == INSTANCE SListLoops WITH
  LinkMode <- "safe", ConstantTimeSize <- TRUE, Linear <- TRUE, CacheLast <- TRUE

vars == <<kind, heap, last, size, elems>>
-----------------------------------------------------------------------------
DoublyLinked(init) == init /\ last = [l \in Lists |-> Null]

Init == \/ kind = "safe" /\ DoublyLinked(Safe!Init)
        \/ kind = "auto" /\ DoublyLinked(Auto!Init)
        \/ kind = "normal" /\ DoublyLinked(Normal!Init)
        \/ kind = "slist" /\ SafeSingle!Init
        \/ kind = "slist auto" /\ AutoSingle!Init
        \/ kind = "slist cached" /\ CachedSingle!Init
        \/ kind = "slist linear" /\ LinearSingle!Init
        \/ kind = "slist linear cached" /\ LinearCachedSingle!Init

ListNext ==
  /\ UNCHANGED <<kind, last>>
  /\ \/ kind = "safe" /\ (Safe!Next \/ Safe!LoopsNext)
     \/ kind = "auto" /\ (Auto!Next \/ Auto!LoopsNext)
     \/ kind = "normal" /\ (Normal!Next \/ Normal!LoopsNext)

SListNext ==
  /\ UNCHANGED kind
  /\ \/ kind = "slist" /\ (SafeSingle!Next \/ SafeSingle!LoopsNext)
     \/ kind = "slist auto" /\ (AutoSingle!Next \/ AutoSingle!LoopsNext)
     \/ kind = "slist cached" /\ (CachedSingle!Next \/ CachedSingle!LoopsNext)
     \/ kind = "slist linear" /\ (LinearSingle!Next \/ LinearSingle!LoopsNext)
     \/ kind = "slist linear cached"
          /\ (LinearCachedSingle!Next \/ LinearCachedSingle!LoopsNext)

Next == ListNext \/ SListNext

Spec == Init /\ [][Next]_vars
-----------------------------------------------------------------------------
(* The contents of the lists read from the pointers alone, by following    *)
(* next_ from every header for at most as many steps as there are nodes.   *)
Walked(l) ==
  LET after[n \in DOMAIN heap.next, fuel \in Nat] ==
        IF fuel = 0 \/ heap.next[n] \in {l, Null} THEN <<>>
        ELSE <<heap.next[n]>> \o after[heap.next[n], fuel - 1]
  IN  after[l, Cardinality(Nodes)]

Promise == INSTANCE AbstractList WITH elems <- [l \in Lists |-> Walked(l)]

(* Seen through its pointers the program makes only the steps the          *)
(* abstract lists make: every operation is one edit of the sequences.      *)
ImplementsPromise == Promise!ASpec

(* Also after the loops have reversed, rotated, refilled, destroyed or     *)
(* taken over lists, the pointers form the sequences the callers built.    *)
Represented == CASE kind = "safe"   -> Safe!Represented
                 [] kind = "auto"   -> Auto!Represented
                 [] kind = "normal" -> Normal!Represented
                 [] kind = "slist" -> SafeSingle!Represented
                 [] kind = "slist auto" -> AutoSingle!Represented
                 [] kind = "slist cached" -> CachedSingle!Represented
                 [] kind = "slist linear" -> LinearSingle!Represented
                 [] kind = "slist linear cached" -> LinearCachedSingle!Represented

(* In the safe and auto-unlink modes is_linked() tells of every hook       *)
(* whether it is in a list, whatever has cleared, rotated, destroyed or    *)
(* taken over the lists it was in.                                         *)
HooksTellMembership == CASE kind = "safe"   -> Safe!HooksTellMembership
                         [] kind = "auto"   -> Auto!HooksTellMembership
                         [] kind \in {"normal", "slist cached"} -> TRUE
                         [] kind = "slist" -> SafeSingle!HooksTellMembership
                         [] kind = "slist auto" -> AutoSingle!HooksTellMembership
                         [] kind = "slist linear" -> LinearSingle!HooksTellMembership
                         [] kind = "slist linear cached" -> LinearCachedSingle!HooksTellMembership

(* size() and empty() tell what the callers' calls have made of the lists, *)
(* and check() accepts every list the operations build.                    *)
ObserversAgree ==
  CASE kind = "safe"   -> Safe!ObserversAgree /\ Safe!CheckAccepts
    [] kind = "auto"   -> Auto!ObserversAgree /\ Auto!CheckAccepts
    [] kind = "normal" -> Normal!ObserversAgree /\ Normal!CheckAccepts
    [] kind = "slist" -> SafeSingle!ObserversAgree
    [] kind = "slist auto" -> AutoSingle!ObserversAgree
    [] kind = "slist cached" -> CachedSingle!ObserversAgree
    [] kind = "slist linear" -> LinearSingle!ObserversAgree
    [] kind = "slist linear cached" -> LinearCachedSingle!ObserversAgree

(* The last node that push_back, previous(end()) and every splice rely on  *)
(* is the last element, or the header of an empty list, whatever operation *)
(* has touched the end of any list.                                        *)
LastIsCached ==
  CASE kind = "slist cached"        -> CachedSingle!LastIsCached
    [] kind = "slist linear cached" -> LinearCachedSingle!LastIsCached
    [] OTHER                        -> TRUE
=============================================================================
