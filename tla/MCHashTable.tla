---------------------------- MODULE MCHashTable ----------------------------
(***************************************************************************)
(* Two hash tables that share five elements of two keys, for several sets  *)
(* of options, and what their callers can rely on between two calls.       *)
(***************************************************************************)
EXTENDS HashCalls, TLC

CONSTANTS k1, k2, x1, x2, x3, y1, y2

MCKeys  == {k1, k2}
MCNodes == {x1, x2, x3, y1, y2}
MCKey   == [n \in MCNodes |-> IF n \in {x1, x2, x3} THEN k1 ELSE k2]

\* The first hash function puts the keys together if there are two buckets, the
\* second one always and the third one never.
MCHashings == {[k \in MCKeys |-> IF k = k1 THEN 1 ELSE 3],
               [k \in MCKeys |-> 3],
               [k \in MCKeys |-> IF k = k1 THEN 2 ELSE 3]}

options(unique, multi, store, counted, cache, incremental, auto) ==
  [unique |-> unique, multi |-> multi, store |-> store, counted |-> counted,
   cache |-> cache, incremental |-> incremental, auto |-> auto]

MCKinds == {
  options(TRUE, FALSE, FALSE, TRUE, TRUE, FALSE, FALSE),
  options(FALSE, TRUE, TRUE, TRUE, TRUE, FALSE, FALSE),
  options(FALSE, FALSE, FALSE, FALSE, TRUE, FALSE, FALSE),
  options(FALSE, FALSE, FALSE, FALSE, TRUE, TRUE, FALSE),
  options(FALSE, TRUE, FALSE, TRUE, TRUE, TRUE, FALSE),
  options(TRUE, FALSE, TRUE, FALSE, TRUE, TRUE, FALSE),
  options(FALSE, TRUE, TRUE, FALSE, FALSE, FALSE, TRUE)}

MCMultiKinds == {k \in MCKinds : k.multi}

\* Elements of one key are alike, and so are the tables and the arrays.
MCSymmetry == Permutations({x1, x2, x3}) \cup Permutations({y1, y2})
              \cup Permutations(Tables) \cup Permutations(Arrays)
-----------------------------------------------------------------------------
(* Erasing the middle of a group, which MCHashTable.cfg leaves out.        *)

EraseInsideNext ==
  \E t \in Tables :
    \/ \E key \in Keys : spare(key) # {} /\ insert_equal(t, any(key))
    \/ \E i \in used(t) : \E p, q \in DOMAIN bucket(t, i) :
         p < q /\ erase_range(t, i, p, i, q)

EraseInsideSpec == Init /\ [][EraseInsideNext]_vars

(* What is left of a group is one group again, as the comment in           *)
(* priv_erase_from_single_bucket has it: "Both first and last in the same  *)
(* group so join group1 and group2".                                       *)
GroupsAreJoined ==
  \A t \in Tables : \A i \in used(t) : \A n \in ElementsAt(t, i) :
    group[n] \in {m \in ElementsAt(t, i) : Key[m] = Key[n]}
=============================================================================
