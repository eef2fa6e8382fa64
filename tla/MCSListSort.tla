---------------------------- MODULE MCSListSort ----------------------------
(* Instances of SListSort for TLC, with lists of any length.               *)
EXTENDS SListSort

TwoKeys == 1..2

AnyLength == Call /\ [][Next \/ follows_null]_vars

(* "This function sorts the list *this" (slist.hpp:1446), whatever its     *)
(* length: the search for the end of the sorted list starts at a node.     *)
SortFindsTheEnd == pc # "crashed"
=============================================================================
