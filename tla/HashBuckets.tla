----------------------------- MODULE HashBuckets -----------------------------
(***************************************************************************)
(* The buckets of hashtable.hpp and, with optimize_multikey, the groups of *)
(* equal elements in them.                                                 *)
(*                                                                         *)
(* A bucket is a singly linked list of its own: here the sequence of its   *)
(* elements, whose links SListNodes models.  The second link of every      *)
(* element, prev_in_group, is the function g: it leads from the first      *)
(* element of a group to the last one and from the others to the one       *)
(* before, so that whole groups are skipped at once.                       *)
(***************************************************************************)
EXTENDS Naturals, Sequences, FiniteSets

CONSTANTS Nodes,             \* the elements
          End                \* no element: the end of a bucket or of a table

Place(b, n) == CHOOSE i \in DOMAIN b : b[i] = n
NodeAt(b, i) == IF i \in DOMAIN b THEN b[i] ELSE End
next(b, n)  == NodeAt(b, Place(b, n) + 1)

\* The bucket without the positions i to j - 1, and those positions.
Cut(b, i, j)   == SubSeq(b, 1, i - 1) \o SubSeq(b, j, Len(b))
Piece(b, i, j) == SubSeq(b, i, j - 1)
Without(b, n)  == IF \E i \in DOMAIN b : b[i] = n THEN Cut(b, Place(b, n), Place(b, n) + 1) ELSE b
PutIn(b, i, n) == SubSeq(b, 1, i - 1) \o <<n>> \o SubSeq(b, i, Len(b))
-----------------------------------------------------------------------------
(* hash_to_bucket_split: with incremental only the first split buckets of  *)
(* count are in use, the others still share the one in the lower half.     *)

hash_to_bucket_split(h, count, split, incremental) ==
  LET bucket_number == h % count
  IN  IF incremental /\ bucket_number >= split THEN bucket_number - count \div 2
      ELSE bucket_number
-----------------------------------------------------------------------------
(* group_functions.                                                        *)

is_first_in_group(b, g, n) == next(b, g[n]) # n

\* group_algorithms::link_after(first, n): n becomes the first of the group,
\* or a group of its own if first is n.
insert_in_group(g, first, n) ==
  IF first = n THEN [g EXCEPT ![n] = n] ELSE [g EXCEPT ![n] = g[first], ![first] = n]

\* group_algorithms::unlink_after(n).
unlink_from_group_after(g, n) == [g EXCEPT ![n] = g[g[n]]]

\* Against the links, while the element before n is its predecessor.
get_first_in_group(b, g, n) ==
  LET up[i \in DOMAIN b] == IF is_first_in_group(b, g, b[i]) THEN b[i]
                            ELSE up[Place(b, g[b[i]])]
  IN  up[Place(b, n)]

\* The group of new_first is cut in two in front of it.
\* Mutant: the second part keeps the element before it as its last one.
split_group_first_part(b, g, new_first) ==
  LET old_first == get_first_in_group(b, g, new_first)
  IN  IF old_first = new_first THEN g
      ELSE [g EXCEPT ![old_first] = g[new_first]]

split_group(b, g, new_first) ==
  LET old_first == get_first_in_group(b, g, new_first)
  IN  IF old_first = new_first THEN g
      ELSE [g EXCEPT ![old_first] = g[new_first], ![new_first] = g[old_first]]
-----------------------------------------------------------------------------
(* Erasing with groups: the group links that remain.                       *)

\* priv_erase_from_single_bucket of the positions i to j - 1.
groups_after_range(b, g, i, j) ==
  LET nf     == b[i]
      nl     == NodeAt(b, j)
      group1 == get_first_in_group(b, g, nf)
      g1     == split_group(b, g, nf)
      group2 == get_first_in_group(b, g1, nl)
      g2     == split_group(b, g1, nl)
      upto   == IF nl = End THEN g ELSE split_group(b, g, nl)
  IN  IF is_first_in_group(b, g, nf) THEN upto
      ELSE IF nl = End THEN g1
      ELSE IF group2 = nf THEN [g2 EXCEPT ![group1] = g2[group2], ![nl] = g2[group1]]
      ELSE g2

\* priv_erase_node of the element n.
groups_after_node(b, g, n) ==
  LET nn == next(b, n)
  IN  IF nn # End /\ g[nn] = n THEN unlink_from_group_after(g, nn)
      ELSE IF is_first_in_group(b, g, n) THEN g
      ELSE unlink_from_group_after(g, CHOOSE x \in Nodes : g[x] = n)
=============================================================================
