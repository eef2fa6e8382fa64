---------------------------- MODULE AbstractList ----------------------------
(***************************************************************************)
(* What boost::intrusive::list promises its caller: every list is a        *)
(* sequence of distinct elements, an element is in at most one list, and   *)
(* each operation edits the sequences in the way its "Effects" clause      *)
(* says.  Positions are those of TLA+ sequences, and Len + 1 is end().     *)
(***************************************************************************)
EXTENDS Naturals, Sequences

CONSTANTS Nodes,       \* the elements (their hooks)
          Lists        \* the lists (their header nodes)

VARIABLE elems         \* elems[l] is the sequence of the elements of list l

Positions(l)    == 1..Len(elems[l])
EndPositions(l) == 1..(Len(elems[l]) + 1)
Detached(n)     == \A l \in Lists : \A i \in Positions(l) : elems[l][i] # n

Slice(s, i, j) == SubSeq(s, i, j - 1)                 \* the range [i, j) of s
Cut(s, i, j)   == Slice(s, 1, i) \o Slice(s, j, Len(s) + 1)
Paste(s, k, r) == Slice(s, 1, k) \o r \o Slice(s, k, Len(s) + 1)
-----------------------------------------------------------------------------
AInit == elems = [l \in Lists |-> <<>>]

Insert(l, k, n) ==
  /\ Detached(n)
  /\ elems' = [elems EXCEPT ![l] = Paste(@, k, <<n>>)]

EraseRange(l, i, j) == elems' = [elems EXCEPT ![l] = Cut(@, i, j)]

\* The range [i, j) of m goes in front of the element at position k of l,
\* or to the end of l.  Inside one list, k is not within the range.
Move(l, k, m, i, j) ==
  LET cut == [elems EXCEPT ![m] = Cut(@, i, j)]
      to  == IF l = m /\ j <= k THEN k - (j - i) ELSE k
  IN  /\ l = m => k <= i \/ j <= k
      /\ elems' = [cut EXCEPT ![l] = Paste(@, to, Slice(elems[m], i, j))]

SwapLists(l, m) == elems' = [elems EXCEPT ![l] = elems[m], ![m] = elems[l]]

Empty(l) == elems' = [elems EXCEPT ![l] = <<>>]

\* A range of different elements that are in no list.
Insertable(range) ==
  \A i \in DOMAIN range : /\ Detached(range[i])
                          /\ \A j \in DOMAIN range : range[i] = range[j] => i = j

InsertRange(l, k, range) ==
  /\ Insertable(range)
  /\ elems' = [elems EXCEPT ![l] = Paste(@, k, range)]

Assign(l, range) == Insertable(range) /\ elems' = [elems EXCEPT ![l] = range]

\* The first k elements go to the end.
Rotate(l, k) ==
  elems' = [elems EXCEPT ![l] = Slice(@, k + 1, Len(@) + 1) \o Slice(@, 1, k + 1)]

Turn(l) ==
  elems' = [elems EXCEPT ![l] = [i \in Positions(l) |-> @[Len(@) + 1 - i]]]

\* l gets what m had.
TakeOver(l, m) == l # m /\ elems' = [elems EXCEPT ![l] = elems[m], ![m] = <<>>]

\* The elements a and b trade places, whether or not they are in a list.
Exchange(a, b) ==
  LET other(n) == IF n = a THEN b ELSE IF n = b THEN a ELSE n
  IN  elems' = [l \in Lists |-> [i \in Positions(l) |-> other(elems[l][i])]]
-----------------------------------------------------------------------------
ANext ==
  \/ \E l \in Lists : \E k \in EndPositions(l), n \in Nodes : Insert(l, k, n)
  \/ \E l \in Lists : \E i \in Positions(l), j \in EndPositions(l) :
       i < j /\ EraseRange(l, i, j)
  \/ \E l, m \in Lists : \E k \in EndPositions(l),
                            i \in Positions(m), j \in EndPositions(m) :
       i < j /\ Move(l, k, m, i, j)
  \/ \E l, m \in Lists : SwapLists(l, m)
  \/ \E l, m \in Lists : TakeOver(l, m)
  \/ \E l \in Lists : \E k \in EndPositions(l), j \in 1..(Len(elems'[l]) + 1) :
       InsertRange(l, k, Slice(elems'[l], k, j))
  \/ \E l \in Lists : \/ Empty(l) \/ Turn(l) \/ Assign(l, elems'[l])
                      \/ \E k \in Positions(l) : Rotate(l, k)
  \/ \E a, b \in Nodes : Exchange(a, b)

ASpec == AInit /\ [][ANext]_elems
-----------------------------------------------------------------------------
(* An element is in one place only: no list holds it twice, no two lists   *)
(* share it, whatever the lists have exchanged.                            *)
Disjoint(es) ==
  \A l, m \in Lists : \A i \in 1..Len(es[l]), j \in 1..Len(es[m]) :
    es[l][i] = es[m][j] => l = m /\ i = j
=============================================================================
