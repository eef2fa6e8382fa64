----------------------------- MODULE TreeClone -----------------------------
(***************************************************************************)
(* bstree::clone_from(src, cloner, disposer) (bstree.hpp) and below it     *)
(* clone, clone_subtree and dispose_subtree (bstree_algorithms.hpp), with  *)
(* the two guards that clean up when something throws: the one of          *)
(* clone_subtree disposes of the unfinished copy, exception_disposer of    *)
(* the finished one, when the comparison cannot be copied.  One action is  *)
(* one round of a loop: at most one call of the cloner or the disposer.    *)
(*                                                                         *)
(* The clone of element n is the new element copy(n).                      *)
(***************************************************************************)
EXTENDS TreeExchange, SequencesExt

CONSTANTS This, Src,   \* the headers of *this and of src
          SrcNodes,    \* the elements that src may hold, numbers like their keys
          OldNodes     \* those that *this may hold

copy(n)   == n + Cardinality(SrcNodes \cup OldNodes)
Elements  == SrcNodes \cup OldNodes \cup {copy(n) : n \in SrcNodes}

VARIABLES t, size, pc,
          x,                   \* of dispose_subtree
          current, insertion_point, target_sub_root, leftmost, rightmost,
          src0,                \* history: the trees at the call
          made, disposed       \* history: clones and disposed elements, in order

vars == <<t, size, pc, x, current, insertion_point, target_sub_root,
          leftmost, rightmost, src0, made, disposed>>
copying == <<current, insertion_point, target_sub_root, leftmost, rightmost>>
-----------------------------------------------------------------------------
Init ==
  /\ \E S \in SUBSET SrcNodes, D \in SUBSET OldNodes : \E s \in Orders(S), d \in Orders(D) :
       /\ t = Grown(Grown(NewTrees(Elements, {This, Src}), Src, s), This, d)
       /\ size = [h \in {This, Src} |-> IF h = Src THEN Len(s) ELSE Len(d)]
  /\ src0 = t
  /\ pc = "clear"
  /\ x = t.parent[This]
  /\ current = Src /\ insertion_point = This
  /\ target_sub_root = Null /\ leftmost = Null /\ rightmost = Null
  /\ made = <<>>
  /\ disposed = <<>>

(* dispose_subtree: a rotation to the right while there is a left child,   *)
(* then the element goes.                                                  *)

dispose ==
  LET l == t.left[x]
  IN  /\ pc \in {"clear", "abandon", "undo"}
      /\ x # Null
      /\ IF l # Null
         THEN /\ t' = set_right(set_left(t, x, t.right[l]), l, x)
              /\ x' = l
              /\ UNCHANGED disposed
         ELSE /\ t' = init(t, x)
              /\ x' = t.right[x]
              /\ disposed' = Append(disposed, x)
      /\ UNCHANGED <<size, pc, src0, made, copying>>

\* clear_and_dispose of *this has disposed of the elements.
cleared == /\ x = Null
           /\ t' = init_header(t, This)
           /\ size' = [size EXCEPT ![This] = 0]
           /\ UNCHANGED <<x, src0, made, disposed, copying>>

clear_ends == pc = "clear" /\ cleared /\ pc' = IF t.parent[Src] = Null THEN "returned" ELSE "root"

\* The guard of clone_subtree is done, then the one of clone_from finds an
\* empty tree.  After "undo" it is the latter that is done.
rollback_ends == pc \in {"abandon", "undo"} /\ cleared /\ pc' = "thrown"

(* clone_subtree.                                                          *)

\* A clone marked as a leaf, under p.
leaf_of(u, n, p) == set_parent(set_right(set_left(u, n, Null), n, Null), n, p)

clone_root ==
  LET source_root == t.parent[Src]
      root == copy(source_root)
  IN  /\ pc = "root"
      /\ t' = leaf_of(t, root, This)
      /\ current' = source_root
      /\ insertion_point' = root /\ target_sub_root' = root
      /\ leftmost' = root /\ rightmost' = root
      /\ made' = Append(made, root)
      /\ pc' = "clone"
      /\ UNCHANGED <<size, x, src0, disposed>>

\* Nothing has been built, and no guard of clone_subtree yet.
root_throws == /\ pc = "root"
               /\ pc' = "undo"
               /\ x' = t.parent[This]
               /\ UNCHANGED <<t, size, src0, made, disposed, copying>>

goes_left  == t.left[current] # Null /\ t.left[insertion_point] = Null
goes_right == ~goes_left /\ t.right[current] # Null /\ t.right[insertion_point] = Null

\* Mutant: every left clone is taken for the first element so far.
clone_left_always_first ==
  LET n == copy(t.left[current])
  IN  /\ pc = "clone" /\ goes_left
      /\ t' = set_left(leaf_of(t, n, insertion_point), insertion_point, n)
      /\ current' = t.left[current]
      /\ insertion_point' = n
      /\ leftmost' = n
      /\ made' = Append(made, n)
      /\ UNCHANGED <<size, pc, x, target_sub_root, rightmost, src0, disposed>>

clone_left ==
  LET n == copy(t.left[current])
  IN  /\ pc = "clone" /\ goes_left
      /\ t' = set_left(leaf_of(t, n, insertion_point), insertion_point, n)
      /\ current' = t.left[current]
      /\ insertion_point' = n
      /\ leftmost' = IF rightmost = target_sub_root THEN n ELSE leftmost
      /\ made' = Append(made, n)
      /\ UNCHANGED <<size, pc, x, target_sub_root, rightmost, src0, disposed>>

\* Mutant: the last element is tracked as if it were the first.
clone_right_while_first ==
  LET n == copy(t.right[current])
  IN  /\ pc = "clone" /\ goes_right
      /\ t' = set_right(leaf_of(t, n, insertion_point), insertion_point, n)
      /\ current' = t.right[current]
      /\ insertion_point' = n
      /\ rightmost' = IF leftmost = target_sub_root THEN n ELSE rightmost
      /\ made' = Append(made, n)
      /\ UNCHANGED <<size, pc, x, target_sub_root, leftmost, src0, disposed>>

clone_right ==
  LET n == copy(t.right[current])
  IN  /\ pc = "clone" /\ goes_right
      /\ t' = set_right(leaf_of(t, n, insertion_point), insertion_point, n)
      /\ current' = t.right[current]
      /\ insertion_point' = n
      /\ rightmost' = n
      /\ made' = Append(made, n)
      /\ UNCHANGED <<size, pc, x, target_sub_root, leftmost, src0, disposed>>

\* Mutant: only the guard of clone_from is there, and it finds an empty tree.
cloner_throws_late ==
  /\ pc = "clone" /\ (goes_left \/ goes_right)
  /\ pc' = "undo"
  /\ x' = t.parent[This]
  /\ UNCHANGED <<t, size, src0, made, disposed, copying>>

\* Mutant: the guard of clone_subtree starts at the header.
cloner_throws_at_header ==
  /\ pc = "clone" /\ (goes_left \/ goes_right)
  /\ pc' = "abandon"
  /\ x' = This
  /\ UNCHANGED <<t, size, src0, made, disposed, copying>>

cloner_throws == /\ pc = "clone" /\ (goes_left \/ goes_right)
                 /\ pc' = "abandon"
                 /\ x' = target_sub_root
                 /\ UNCHANGED <<t, size, src0, made, disposed, copying>>

\* Mutant: the loop forgets to climb.
go_up_stays == /\ pc = "clone" /\ ~goes_left /\ ~goes_right
               /\ current # t.parent[Src]
               /\ UNCHANGED vars

go_up == /\ pc = "clone" /\ ~goes_left /\ ~goes_right
         /\ current # t.parent[Src]
         /\ current' = t.parent[current]
         /\ insertion_point' = t.parent[insertion_point]
         /\ UNCHANGED <<t, size, pc, x, target_sub_root, leftmost, rightmost,
                        src0, made, disposed>>

\* Back in clone and clone_from: the header, the size, then the comparison.
finish == /\ pc = "clone" /\ ~goes_left /\ ~goes_right
          /\ current = t.parent[Src]
          /\ t' = set_right(set_left(set_parent(t, This, target_sub_root),
                                     This, leftmost), This, rightmost)
          /\ size' = [size EXCEPT ![This] = size[Src]]
          /\ pc' \in {"returned", "undo"}
          /\ x' = target_sub_root
          /\ UNCHANGED <<src0, made, disposed, copying>>

Next == \/ dispose \/ clear_ends \/ rollback_ends
        \/ clone_root \/ root_throws \/ clone_left \/ clone_right \/ cloner_throws
        \/ go_up \/ finish

\* The calling thread runs on until clone_from returns or throws.
Spec == Init /\ [][Next]_vars /\ WF_vars(Next)
-----------------------------------------------------------------------------
Returned == pc = "returned"
Thrown   == pc = "thrown"
Built(h) == InOrder(src0, src0.parent[h], Cardinality(Elements))

TypeOK ==
  /\ \A f \in Links : t[f] \in [Elements \cup {This, Src} -> Elements \cup {This, Src, Null}]
  /\ size \in [{This, Src} -> 0..Cardinality(Elements)]
  /\ x \in Elements \cup {Null}
  /\ {current, insertion_point} \subseteq Elements \cup {This, Src}

(* Whatever throws when, the disposer meets every old element once, and    *)
(* then, if the call fails, every clone once, and nothing of src.          *)
DisposesEachOnce ==
  /\ IsInjective(disposed)
  /\ ToSet(disposed) \subseteq ToSet(Built(This)) \cup ToSet(made)
  /\ pc # "clear" => ToSet(Built(This)) \subseteq ToSet(disposed)
  /\ Returned => ToSet(disposed) = ToSet(Built(This))
  /\ Thrown => ToSet(disposed) = ToSet(Built(This)) \cup ToSet(made)

(* A failed call leaves *this a valid empty tree, src as it was, and no    *)
(* hook but those of src linked.                                           *)
RollsBack ==
  /\ \A n \in SrcNodes \cup {Src} : \A f \in Links : t[f][n] = src0[f][n]
  /\ Thrown => /\ size[This] = 0
               /\ t.parent[This] = Null /\ t.left[This] = This /\ t.right[This] = This
               /\ \A n \in Elements \ SrcNodes : inited(t, n)

(* The copy has the shape of src and its first element, link for link, and *)
(* its size; each element was cloned once.                                 *)
Mirrors ==
  Returned =>
    LET image(p) == IF p = Null THEN Null ELSE IF p = Src THEN This ELSE copy(p)
    IN  /\ \A n \in ToSet(Built(Src)) : \A f \in Links :
             t[f][copy(n)] = image(t[f][n])
        /\ t.parent[This] = image(t.parent[Src])
        /\ t.left[This] = image(t.left[Src])
        /\ size[This] = Len(Built(Src)) /\ Len(made) = Len(Built(Src))

(* The last element of the copy is found wherever a balanced tree puts it: *)
(* unless a right child lies in the left subtree of the last element.      *)
LastIsFound ==
  Returned /\ t.parent[Src] # Null =>
    LET below == InOrder(t, t.left[t.right[Src]], Cardinality(SrcNodes))
    IN  (\A n \in ToSet(below) : t.right[n] = Null) => t.right[This] = copy(t.right[Src])

(* check() of bstree_algorithms, "check left&right header pointers": the   *)
(* right link of the header leads to the last element of the tree.  It     *)
(* does not hold for a copy.                                               *)
HeaderFindsTheLast ==
  Returned /\ t.parent[This] # Null => t.right[This] = maximum(t, t.parent[This])

(* clone_from comes to its end.                                            *)
Terminates == <>(Returned \/ Thrown)
=============================================================================
