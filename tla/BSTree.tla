------------------------------- MODULE BSTree -------------------------------
(***************************************************************************)
(* boost::intrusive::bstree_impl (include/boost/intrusive/bstree.hpp), the *)
(* base of the sets and multisets, with what rbtree, avltree, splaytree,   *)
(* treap_impl and sgtree_impl add to it, on the algorithms of TreeNodes,   *)
(* TreeExchange and the module of each kind of tree: several trees that    *)
(* share elements.                                                         *)
(*                                                                         *)
(* kind is what a program fixes when it is compiled, and it never changes: *)
(* the algorithms (algo), the link mode of the hooks (link); and with them *)
(* the bounds of the instance: its nodes and trees, the keys asked for,    *)
(* whether only the plain insertion and erasures are called, and whether   *)
(* the elements come in the order of their numbers.                        *)
(* One run thus covers every kind of tree.                                 *)
(*                                                                         *)
(* elems is a history variable, the sequence of elements the calls have    *)
(* built in each tree; merge is the call of merge_unique or merge_equal    *)
(* that is under way, one step of which is one round of its loop.          *)
(***************************************************************************)
EXTENDS TreeExchange, RBTree, AVLTree, SplayTree, Treap, SGTree, FiniteSets

CONSTANTS Headers,           \* the headers of all trees
          Kinds              \* the values of kind

ASSUME KindAssumption ==
  \A k \in Kinds : /\ k.algo \in {"bstree", "rbtree", "avltree", "splaytree", "treap", "sgtree"}
                   /\ k.link \in {"normal", "safe", "auto"}
                   /\ k.algo = "sgtree" => k.link # "auto"
                   /\ k.plain \in BOOLEAN /\ k.in_order \in BOOLEAN
                   /\ k.trees \subseteq Headers
                   /\ k.nodes \subseteq DOMAIN Key /\ k.nodes \cap Headers = {}
                   /\ Null \notin k.nodes \cup Headers

VARIABLES kind, t, size, elems, merge

vars == <<kind, t, size, elems, merge>>

INSTANCE AbstractList WITH Lists <- Headers, Nodes <- DOMAIN Key

Nodes == kind.nodes
Trees == kind.trees
safemode_or_autounlink == kind.link \in {"safe", "auto"}
idle == [call |-> "none"]

splays == kind.algo = "splaytree"

(* What the algorithms of a tree do before and after those of bstree: to   *)
(* search for a key, to link an element for which there is a place, and to *)
(* unlink one from a tree of n elements.                                   *)

AllRounds == Cardinality(Nodes)
searched(u, h, key) == IF splays THEN splay_down(u, h, key, AllRounds) ELSE u
brought_up(u, h, n) == IF splays THEN splay_up(u, h, n) ELSE u

after_insertion(u, h, n, new_size) ==
  CASE kind.algo \in {"bstree", "splaytree"} -> u
    [] kind.algo = "rbtree"  -> rb_rebalance_after_insertion(u, h, n)
    [] kind.algo = "avltree" -> avl_rebalance_after_insertion(u, h, n)
    [] kind.algo = "treap"   -> treap_rebalance_after_insertion(u, h, n)
    [] kind.algo = "sgtree"  -> sg_rebalance_after_insertion(u, h, n, new_size)

before_erasure(u, h, z) ==
  CASE kind.algo = "splaytree" -> splay_before_erasure(u, h, z)
    [] kind.algo = "treap"     -> rebalance_for_erasure(u, h, z, Cardinality(Nodes))
    [] kind.algo \notin {"splaytree", "treap"} -> u

after_erasure(u, h, n, info, new_size) ==
  CASE kind.algo \in {"bstree", "splaytree", "treap"} -> u
    [] kind.algo = "rbtree"  -> rb_rebalance_after_erasure(u, h, n, info)
    [] kind.algo = "avltree" -> avl_rebalance_after_erasure(u, h, n, info)
    [] kind.algo = "sgtree"  -> sg_rebalance_after_erasure(u, h, new_size)

\* init_header gives a header this tag, and is_header asks for it.
header_tag == CASE kind.algo = "rbtree" -> "red" [] kind.algo = "avltree" -> "zero"
                [] kind.algo \notin {"rbtree", "avltree"} -> "none"

\* An element that may leave by itself cannot be counted.
count(sz, h, n) == IF kind.link = "auto" THEN sz ELSE [sz EXCEPT ![h] = n]

at(h, k)   == IF k \in Positions(h) THEN elems[h][k] ELSE h
\* Mutant: only safe_link hooks are reset, auto_unlink hooks are forgotten.
reset_safe_only(u, n) == IF kind.link = "safe" THEN init(u, n) ELSE u
reset(u, n) == IF safemode_or_autounlink THEN init(u, n) ELSE u

(* Where an element of this key fits into the order of h: anywhere from    *)
(* First to Last.                                                          *)
First(h, key) == 1 + Cardinality({i \in Positions(h) : Key[elems[h][i]] < key})
Last(h, key)  == 1 + Cardinality({i \in Positions(h) : Key[elems[h][i]] <= key})
Present(h, key) == First(h, key) < Last(h, key)

\* The caller who puts an element into the place of another answers for both.
Alike(a, b) == Key[a] = Key[b] /\ (kind.algo = "treap" => Priority[a] = Priority[b])
-----------------------------------------------------------------------------
Init ==
  LET Self == [n \in Nodes \cup Trees |-> IF n \in Trees THEN n ELSE Null]
  IN  /\ kind \in Kinds
      /\ t = [parent |-> [n \in Nodes \cup Trees |-> Null], left |-> Self, right |-> Self,
              tag |-> [n \in Nodes \cup Trees |-> header_tag],
              max_tree_size |-> [h \in Headers |-> 0]]
      /\ size = [h \in Headers |-> 0]
      /\ AInit
      /\ merge = idle

(* Insertion.                                                              *)

\* Every insertion leaves the heap u, with n as the k-th element of h.
inserts(h, n, u, k) ==
  /\ Detached(n)
  /\ kind.in_order => \A m \in Nodes : m < n => ~Detached(m)
  /\ t' = u
  /\ size' = count(size, h, size[h] + 1)
  /\ Insert(h, k, n)
  /\ UNCHANGED <<kind, merge>>

linked(u, h, n, commit) ==
  after_insertion(insert_commit(u, h, n, commit), h, n, size[h] + 1)

insert_equal(h, n) ==
  LET u == searched(t, h, Key[n])
  IN  inserts(h, n, linked(u, h, n, insert_equal_upper_bound_check(u, h, n)), Last(h, Key[n]))

\* With a hint the element goes as near to the hint as the order allows.
insert_equal_hint(h, k, n) ==
  LET place == IF k < First(h, Key[n]) THEN First(h, Key[n])
               ELSE IF k > Last(h, Key[n]) THEN Last(h, Key[n]) ELSE k
      u == searched(t, h, Key[n])
  IN  inserts(h, n, linked(u, h, n, insert_equal_check(u, h, at(h, k), n)), place)

inserts_unique(h, n, u, check) ==
  /\ Detached(n)             \* a caller that does not own n would not ask
  /\ IF check.not_present THEN inserts(h, n, linked(u, h, n, check.commit), First(h, Key[n]))
                          ELSE t' = u /\ UNCHANGED <<kind, size, elems, merge>>

insert_unique(h, n) ==
  LET u == searched(t, h, Key[n])
  IN  inserts_unique(h, n, u, insert_unique_check(u, h, Key[n]))

insert_unique_hint(h, k, n) ==
  LET u == searched(t, h, Key[n])
  IN  inserts_unique(h, n, u, insert_unique_hint_check(u, h, at(h, k), Key[n]))

\* Where the caller answers for the order nothing is searched for, and a
\* splay tree brings the element up afterwards.
places(h, n, commit, k) == inserts(h, n, brought_up(linked(t, h, n, commit), h, n), k)

insert_before(h, k, n) ==
  /\ k \in First(h, Key[n])..Last(h, Key[n])
  /\ places(h, n, insert_before_check(t, h, at(h, k)), k)

push_back(h, n) ==
  /\ Last(h, Key[n]) = Len(elems[h]) + 1
  /\ places(h, n, push_back_check(t, h), Len(elems[h]) + 1)

push_front(h, n) ==
  /\ First(h, Key[n]) = 1
  /\ places(h, n, push_front_check(t, h), 1)

(* Erasure.                                                                *)

rebalanced(info, h, z, n) == after_erasure(info.t, h, z, info, n)
erased(u, h, z, n) == rebalanced(erase_node(before_erasure(u, h, z), h, z), h, z, n)

RECURSIVE erased_range(_, _, _, _, _), disposed(_, _)

\* private_erase: the iterator moves on before the element goes.
erased_range(u, h, b, e, n) ==
  IF b = e THEN u
  ELSE erased_range(reset(erased(u, h, b, n - 1), b), h, next_node(u, b), e, n - 1)

erase(h, i) ==
  /\ t' = reset(erased(t, h, at(h, i), size[h] - 1), at(h, i))
  /\ size' = count(size, h, size[h] - 1)
  /\ EraseRange(h, i, i + 1)
  /\ UNCHANGED <<kind, merge>>

erase_range(h, i, j) ==
  /\ t' = erased_range(t, h, at(h, i), at(h, j), size[h])
  /\ size' = count(size, h, size[h] - (j - i))
  /\ EraseRange(h, i, j)
  /\ UNCHANGED <<kind, merge>>

erase_key(h, key) ==
  LET u     == searched(t, h, key)
      range == equal_range(u, h, key)
  IN  /\ t' = erased_range(u, h, range[1], range[2], size[h])
      /\ size' = count(size, h, size[h] - (Last(h, key) - First(h, key)))
      /\ EraseRange(h, First(h, key), Last(h, key))
      /\ UNCHANGED <<kind, merge>>

\* dispose_subtree, with the disposer that resets the hook.
disposed(u, x) ==
  LET l == u.left[x]
  IN  IF x = Null THEN u
      ELSE IF l # Null THEN disposed(set_right(set_left(u, x, u.right[l]), l, x), l)
      ELSE disposed(init(u, x), u.right[x])

clear(h) ==
  /\ t' = [init_header(IF safemode_or_autounlink THEN disposed(t, t.parent[h]) ELSE t, h)
           EXCEPT !.max_tree_size[h] = 0]
  /\ size' = count(size, h, 0)
  /\ Empty(h)
  /\ UNCHANGED <<kind, merge>>

\* remove_node, and the destructor of an auto_unlink hook: the header is found
\* by climbing from the node, and its colour is asked for before its links.
\* Those of splay trees are unlinked as those of a bstree.
remove_node(n) ==
  LET climb[x \in Addresses(t)] == IF t.tag[x] = header_tag /\ is_header(t, x) THEN x
                                ELSE climb[t.parent[x]]
  IN  /\ kind.link = "auto"
      /\ kind.algo # "treap"           \* the priorities would be forgotten
      /\ UNCHANGED <<kind, size, merge>>
      /\ IF unique(t, n) THEN UNCHANGED t
         ELSE LET h == climb[t.parent[n]]
              IN  t' = init(rebalanced(erase_node(t, h, n), h, n, 0), n)
      /\ IF Detached(n) THEN UNCHANGED elems
         ELSE \E h \in Trees : \E i \in Positions(h) :
                elems[h][i] = n /\ EraseRange(h, i, i + 1)

(* Exchanges.                                                              *)

swap(h, g) ==
  /\ t' = [swap_tree(t, h, g) EXCEPT !.max_tree_size[h] = t.max_tree_size[g],
                                      !.max_tree_size[g] = t.max_tree_size[h]]
  /\ size' = IF kind.link = "auto" THEN size ELSE [size EXCEPT ![h] = size[g], ![g] = size[h]]
  /\ SwapLists(h, g)
  /\ UNCHANGED <<kind, merge>>

hook_swap_nodes(a, b) ==
  /\ ~Detached(a) /\ ~Detached(b) /\ Alike(a, b)
  /\ t' = swap_nodes(t, a, get_header(t, a), b, get_header(t, b))
  /\ Exchange(a, b)
  /\ UNCHANGED <<kind, size, merge>>

replaces_node(h, i, n) ==
  /\ Detached(n) /\ Alike(n, elems[h][i])
  /\ t' = reset(replace_node(t, elems[h][i], h, n), elems[h][i])
  /\ elems' = [elems EXCEPT ![h][i] = n]
  /\ UNCHANGED <<kind, size, merge>>

(* Changes of the shape alone.                                             *)

reshapes(u) == t' = u /\ UNCHANGED <<kind, size, elems, merge>>

bstree_rebalance(h) ==
  kind.algo \in {"bstree", "splaytree", "sgtree"} /\ reshapes(rebalance(t, h))

bstree_rebalance_subtree(h, i) ==
  kind.algo \in {"bstree", "splaytree", "sgtree"} /\ reshapes(rebalance_subtree(t, elems[h][i]))

\* splaytree_impl::splay_up, of end() too.
splaytree_splay_up(h, i) == splays /\ reshapes(splay_up(t, h, at(h, i)))

\* splaytree_impl::splay_down, the searches of a splay tree that is not const,
\* and its insertions if a comparison throws, after any number of rounds.
splaytree_splay_down(h, key, rounds) == splays /\ reshapes(splay_down(t, h, key, rounds))

(* merge_unique and merge_equal: the loop walks the source in its order.   *)

merge_begins(call, into, source) ==
  /\ into # source
  /\ merge' = [call |-> call, into |-> into, source |-> source, it |-> t.left[source]]
  /\ UNCHANGED <<kind, t, size, elems>>

\* transfer_unique or transfer_equal of the element p from u.  The trees have
\* no node in common, so that it does not matter which is balanced first.
transfers(u, p, commit, k) ==
  LET h == merge.into
      g == merge.source
      info == erase_node(before_erasure(u, g, p), g, p)
      i == CHOOSE j \in Positions(g) : elems[g][j] = p
      v == after_insertion(after_erasure(insert_commit(info.t, h, p, commit), g, p, info,
                                         size[g] - 1), h, p, size[h] + 1)
  IN  /\ t' = IF merge.call = "unique" THEN brought_up(v, h, p) ELSE v
      /\ size' = count(count(size, g, size[g] - 1), h, size[h] + 1)
      /\ Move(h, k, g, i, i + 1)
      /\ UNCHANGED kind

\* transfer_equal of a splay tree searches by splaying, transfer_unique does
\* not.
transfers_p ==
  LET p == merge.it
      h == merge.into
      u == searched(t, h, Key[p])
      check == insert_unique_check(t, h, Key[p])
  IN  IF merge.call = "equal"
      THEN transfers(u, p, insert_equal_upper_bound_check(u, h, p), Last(h, Key[p]))
      ELSE IF check.not_present THEN transfers(t, p, check.commit, First(h, Key[p]))
      ELSE UNCHANGED <<kind, t, size, elems>>

\* Mutant: the iterator moves on after its element has gone to the other tree.
merge_step_late ==
  /\ merge # idle
  /\ merge.it # merge.source
  /\ transfers_p
  /\ merge' = [merge EXCEPT !.it = next_node(t', merge.it)]

merge_step ==
  /\ merge # idle
  /\ merge.it # merge.source
  /\ merge' = [merge EXCEPT !.it = next_node(t, merge.it)]
  /\ transfers_p

(* A comparison throws: of the keys, when a splay tree may have gone some  *)
(* rounds down, or of the priorities in the erasure from a treap, whose    *)
(* rotations are undone.                                                   *)
merge_throws ==
  /\ merge # idle
  /\ merge.it # merge.source
  /\ merge' = idle
  /\ \/ t' = t
     \/ /\ splays /\ merge.call = "equal"
        /\ \E rounds \in 1..AllRounds :
             t' = splay_down(t, merge.into, Key[merge.it], rounds)
     \/ /\ kind.algo = "treap"
        /\ \E n \in comparisons(t, merge.source, merge.it, AllRounds) :
             t' = rerotated(t, merge.source, merge.it, n)
  /\ UNCHANGED <<kind, size, elems>>

merge_ends ==
  /\ merge # idle
  /\ merge.it = merge.source
  /\ merge' = idle
  /\ UNCHANGED <<kind, t, size, elems>>
-----------------------------------------------------------------------------
InsertNext ==
  \E h \in Trees, n \in Nodes :
    \/ insert_equal(h, n)
    \/ /\ ~kind.plain
       /\ \/ insert_unique(h, n)
          \/ push_back(h, n)
          \/ push_front(h, n)
          \/ \E k \in EndPositions(h) : \/ insert_equal_hint(h, k, n)
                                        \/ insert_unique_hint(h, k, n)
                                        \/ insert_before(h, k, n)

Keys == {Key[n] : n \in Nodes}

EraseNext ==
  \/ \E h \in Trees :
       \/ \E i \in Positions(h) : erase(h, i)
       \/ /\ ~kind.plain
          /\ \/ clear(h)
             \/ \E i, j \in EndPositions(h) : i <= j /\ erase_range(h, i, j)
             \/ \E key \in Keys : erase_key(h, key)
  \/ \E n \in Nodes : remove_node(n)

ShapeNext ==
  \E h \in Trees :
    \/ bstree_rebalance(h)
    \/ \E i \in Positions(h) : bstree_rebalance_subtree(h, i)
    \/ \E i \in EndPositions(h) : splaytree_splay_up(h, i)
    \/ \E key \in Keys, rounds \in 0..AllRounds : splaytree_splay_down(h, key, rounds)

ExchangeNext ==
  \/ \E h, g \in Trees : swap(h, g) \/ \E call \in {"unique", "equal"} : merge_begins(call, h, g)
  \/ \E a, b \in Nodes : hook_swap_nodes(a, b)
  \/ \E h \in Trees, n \in Nodes : \E i \in Positions(h) : replaces_node(h, i, n)

Next ==
  \/ merge = idle /\ (InsertNext \/ EraseNext \/ (~kind.plain /\ (ExchangeNext \/ ShapeNext)))
  \/ merge_step \/ merge_throws \/ merge_ends

Spec == Init /\ [][Next]_vars
-----------------------------------------------------------------------------
TypeOK ==
  /\ DOMAIN t = {"parent", "left", "right", "tag", "max_tree_size"}
  /\ kind \in Kinds
  /\ \A f \in Links : t[f] \in [Nodes \cup Trees -> Nodes \cup Trees \cup {Null}]
  /\ size \in [Headers -> 0..Cardinality(Nodes)]
  /\ elems \in [Headers -> Seq(Nodes)]
  /\ merge # idle => merge.it \in Nodes \cup {merge.source}

\* The elements below x in the order of the tree, to a depth that no tree
\* can exceed.
Inorder(x) ==
  LET below[n \in Pointers(t), d \in Nat] ==
        IF n = Null \/ d = 0 THEN <<>>
        ELSE below[t.left[n], d - 1] \o <<n>> \o below[t.right[n], d - 1]
  IN  below[x, Cardinality(Nodes)]

(* The links of every tree form exactly the sequence the callers built, in *)
(* the order of the keys: read from the root, with every parent link the   *)
(* reverse of a child link, and the first and last element at the header.  *)
Represented ==
  \A h \in Trees :
    LET s == elems[h]
    IN  /\ \A i, j \in Positions(h) : i < j => Key[s[i]] <= Key[s[j]]
        /\ Inorder(t.parent[h]) = s
        /\ t.left[h]  = at(h, 1)
        /\ t.right[h] = at(h, Len(s))
        /\ \A i \in Positions(h) :
             LET p == t.parent[s[i]]
             IN  IF p = h THEN t.parent[h] = s[i] ELSE s[i] \in {t.left[p], t.right[p]}

(* After every insertion, erasure, transfer and exchange of nodes the tree *)
(* is balanced as the checkers of its algorithms demand, and no balancing  *)
(* has changed the tag by which a header is known.                         *)
Balanced ==
  \A h \in Trees :
    /\ t.tag[h] = header_tag
    /\ \A i \in Positions(h) :
         LET n == elems[h][i]
         IN  CASE kind.algo \in {"bstree", "splaytree"} -> TRUE
               [] kind.algo = "rbtree"  -> rb_checked(t, h, n)
               [] kind.algo = "avltree" -> avl_checked(t, h, n)
               [] kind.algo = "treap"   -> treap_checked(t, n)
               [] kind.algo = "sgtree"  -> sg_checked(t, h, Len(elems[h]), n)

(* From any element the iterators find both neighbours, end() included,    *)
(* and the tree itself: a header is told from an element by its links.     *)
IteratorsFindTheWay ==
  \A h \in Trees :
    /\ is_header(t, h) /\ get_header(t, h) = h
    /\ elems[h] # <<>> => prev_node(t, h) = at(h, Len(elems[h]))
    /\ \A i \in Positions(h) :
         /\ next_node(t, at(h, i)) = at(h, i + 1)
         /\ i > 1 => prev_node(t, at(h, i)) = at(h, i - 1)
         /\ ~is_header(t, at(h, i)) /\ get_header(t, at(h, i)) = h

(* The searches find the positions their names promise, for every key      *)
(* below, among and above those of the tree, and every kind of range.      *)
SearchesFind ==
  \A h \in Trees : \A lo \in kind.asked :
    /\ lower_bound(t, h, lo) = at(h, First(h, lo))
    /\ upper_bound(t, h, lo) = at(h, Last(h, lo))
    /\ find(t, h, lo) = IF Present(h, lo) THEN at(h, First(h, lo)) ELSE h
    /\ \A hi \in kind.asked, lc, rc \in BOOLEAN :
         (lo < hi \/ (lo = hi /\ (lc \/ rc))) =>
           bounded_range(t, h, lo, hi, lc, rc) =
             <<at(h, IF lc THEN First(h, lo) ELSE Last(h, lo)),
               at(h, IF rc THEN Last(h, hi) ELSE First(h, hi))>>

(* Splaying a node makes it the root, whatever its place, and splaying a   *)
(* key brings up an element of this key or, if it is missing, one next to  *)
(* where it would be: the promise that makes the next search short.        *)
SplayingBringsUp ==
  splays => \A h \in Trees :
    /\ \A i \in Positions(h) : splay_up(t, h, elems[h][i]).parent[h] = elems[h][i]
    /\ \A key \in kind.asked :
         LET top == searched(t, h, key).parent[h]
         IN  CASE elems[h] = <<>> -> top = Null
               [] Present(h, key) -> Key[top] = key
               [] elems[h] # <<>> /\ ~Present(h, key) ->
                    \E i \in {First(h, key) - 1, First(h, key)} \cap Positions(h) :
                      elems[h][i] = top

(* Wherever the comparison of two priorities throws while an element of a  *)
(* treap is rotated down to be erased, undoing the rotations gives back    *)
(* exactly the tree from before.                                           *)
RotationsAreUndone ==
  kind.algo = "treap" =>
    \A h \in Trees : \A i \in Positions(h) :
      \A n \in comparisons(t, h, elems[h][i], AllRounds) : rerotated(t, h, elems[h][i], n) = t

(* In the safe modes a hook outside every tree is in the default state and *)
(* a linked one is not, and the counter counts the elements.               *)
HooksAndSizes ==
  /\ safemode_or_autounlink => \A n \in Nodes :
       IF Detached(n) THEN inited(t, n) ELSE ~unique(t, n)
  /\ kind.link # "auto" => \A h \in Trees : size[h] = Len(elems[h])

(* A merge that runs to its end has left in the source nothing but the     *)
(* elements whose key the other tree has, and no element at all if it is   *)
(* an equal merge; under way, it has dealt with every element before it.   *)
MergeTakesAll ==
  merge # idle =>
    \A i \in Positions(merge.source) :
      \/ \E j \in 1..i : elems[merge.source][j] = merge.it
      \/ merge.call = "unique" /\ Present(merge.into, Key[elems[merge.source][i]])

\* How many elements of the source the iterator has still to pass.
Remaining == Cardinality({i \in Positions(merge.source) :
                            \E j \in 1..i : elems[merge.source][j] = merge.it})

(* Every round of a merge brings it one element nearer to its end,         *)
(* although a transfer unlinks the element on which the iterator stood and *)
(* rebalances the tree in which it walks.                                  *)
MergeAdvances == [][merge # idle /\ merge' # idle => Remaining' = Remaining - 1]_vars
=============================================================================
