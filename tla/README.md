# Boost.Intrusive in TLA+

Boost.Intrusive is a header-only C++ library of containers whose links live
inside the elements. A container does not own its elements and allocates
nothing: an operation is a few assignments to the links of neighbouring hooks,
and what can go wrong is that one of them is made in the wrong order, is
forgotten in an aliasing case, or is undone incompletely when a callback
throws. This directory models the lists, singly and doubly linked, the binary
search trees of all six kinds and the hash tables of the library as state
machines over a heap of hooks, checks them with TLC, and proves the core of both
lists and the hash tables with TLAPS.

All paths below are relative to `src/include/boost/intrusive/`.

## 1. Inventory of the system

The library is sequential: a container has no lock, starts no thread and keeps
nothing on disk. The actors are the *callers* (who may call any operation whose
precondition holds, on several containers that exchange elements), the
*elements* (an `auto_unlink` element leaves its container by itself, without
the container knowing), and the *callbacks* (predicate, comparison, cloner,
disposer), which run in the middle of an operation, give any answer, and - all
but the disposer - may throw.

| Component | Files | State | Operations | What makes it correct |
|---|---|---|---|---|
| circular list algorithms | `circular_list_algorithms.hpp` | next_/prev_ of each node | link, unlink, transfer, swap_nodes, reverse, move, stable_partition | right when nodes are neighbours, ranges empty or already in place |
| list | `list.hpp` | a header per list, an optional counter | insert, erase, splice, swap, clear, clone, sort, merge, unique, remove, destruction | the links spell the sequence the calls built; counter and hooks agree with it; exceptions lose nothing they promise to keep |
| size holder | `detail/size_holder.hpp` | an unsigned counter or nothing | increment, increase, decrement, decrease, set_size | wraps consistently |
| hooks | `detail/generic_hook.hpp`, `*_hook.hpp`, `link_mode.hpp` | the links of an element | unlink, swap_nodes, is_linked | a safe hook tells whether it is linked |
| binary tree algorithms | `bstree_algorithms.hpp`, `detail/bstree_algorithms_base.hpp` | parent, left, right of nodes and headers | navigation, search, check and commit of an insertion, erase, rotations, exchanges, clone | order, parent links, first and last at the header; a header told from an element by its links |
| bstree | `bstree.hpp` | trees, counters | insert (equal, unique, hinted, before), erase, merge, swap, clear, clone_from | the same through every operation and exception |
| red-black tree | `rbtree_algorithms.hpp` | a colour per node | rebalancing after insertion and erasure | the red-black conditions, the colour of the header |
| AVL tree | `avltree_algorithms.hpp` | a balance per node | rebalancing after insertion and erasure | every balance is right |
| slist | `slist.hpp`, `*_slist_algorithms.hpp` | next_ links, cached last node, counter | insert_after, erase_after, splice_after, incorporate_after, swap, reverse, shift ... | as list; cached last node never stale |
| hashtable | `hashtable.hpp`, `unordered_set.hpp` | buckets of slists in an array of the user's, split count, cached first bucket, groups of equal keys, stored hashes | insert, check and commit, erase, rehash, incremental_rehash, clone | each element in the bucket of its hash, groups whole, cache right, rollback complete |
| splay tree | `splaytree*` | as bstree | searches and insertions that splay, splay_up, splay_down | as bstree, also when a comparison throws half-way down; what is splayed comes up |
| treap | `treap*` | as bstree, and a priority per element | rotations by priority | the heap order; rotations undone when a comparison throws |
| scapegoat tree | `sgtree*`, `detail/math.hpp` | as bstree, and max_tree_size per tree | rebuilding of a subtree or the tree | no element too deep for max_tree_size, which bounds the size |
| set wrappers, any hook, compact nodes, traits and options | `set.hpp`, `any_hook.hpp`, `pointer_plus_bits.hpp`, `options.hpp`, ... | none | renaming, conversions, choices at compile time | - |

How they interact: a container calls the static algorithms on its header; the
algorithms see only links. Containers share elements through splice, merge,
swap and `swap_nodes`; elements reach into their container by `unlink()`; the
operations call back into the program's predicates, cloners and disposers, and
their rollback guards run when one throws.

The hard behaviours are listed with their lines under `hazards` in
`PROJECT.json`: aliasing in exchanges (neighbours, parent and child, empty
containers), state read before an element moves (the iterator of `merge`, the
range of `splice`), counters that must follow elements between containers,
callbacks that throw half-way, headers recognised by the shape of their links,
stale links of erased elements, and the termination of loops that climb two
trees in step.

## 2. The modules

Names follow the source. A heap is a record of functions from addresses to
addresses, and an algorithm that the code declares `void` is an operator that
returns the new heap; every read is made from the heap of the moment at which
the code reads, so that the aliasing cases are those of the code. Elements are
model values or small numbers; a comparison reads keys.

**Lists.**

| Module | Models |
|---|---|
| `AbstractList` | the promise: a sequence per list, one edit per operation (the "Effects" clauses) |
| `NodePtr`, `ListOptions` | what both lists have in common: null pointers, link mode, headers and the counter of `detail::size_holder` |
| `CircularList` | the loop-free functions of `circular_list_algorithms` |
| `List` | all loop-free operations of `list_impl`, the hook's `unlink` and `swap_nodes`; constants choose link mode, `constant_time_size` and the width of `size_type` |
| `ListLoops` | the operations with a loop but no callback: reverse, shift, range insertion, assign, clear with reset, construction, destruction, move construction; `check()` |
| `SListNodes` | `circular_slist_algorithms`, `linear_slist_algorithms` and what they share; the constant `Linear` chooses |
| `SList` | all operations of `slist_impl` that follow no chain of links; the constant `CacheLast` is the option |
| `SListLoops` | those that do: `previous`, insertion of ranges, erasure with reset, reverse, shift, swap of circular lists, splicing without a cached last node, construction, destruction, `unlink` and `swap_nodes` of hooks; `check()` |
| `ListKinds` | eight kinds of lists side by side, three instances of `ListLoops` (safe and counted, auto_unlink, normal_link) and five of `SListLoops` (circular and linear, cached or not), and the refinement of `AbstractList` by each |
| `Circles` | helpers of the modules below |
| `ListRemove` | `remove_if` and `remove_and_dispose_if` with `stable_partition`: one action per call of the predicate or disposer |
| `ListUnique` | `unique_and_dispose` |
| `ListMerge` | `merge`: one action per comparison |
| `ListClone` | `clone_from` with `clear_and_dispose` and the rollback guard |
| `ListSort` | `sort`: carry and counters, with the stable merge as one step |
| `SListCalls` | `remove_if`, `unique` and `clone_from` of slist: one action per call of the predicate, disposer or cloner |
| `SListSort` | `merge` and `sort` of slist: one action per comparison, also of the merges inside `sort` |
| `ListCalls` | a choice of one of these calls, of a list or of a circular or linear slist, which then runs alone |
| `ListFacts` | what the proofs about list and slist share: sequences, which elements are outside of them, counters |
| `ListProofs`, `SListProofs` | the theorems about `List` and about `SList` |

State and code: `heap` is the `next_`/`prev_` of every hook and header, `size`
the size holder of every list (always 0 where there is none). `elems` is a
history variable, what the callers know; it picks legal arguments (an iterator
is a position) and is never read by the code's part of an action. `Junk` is what
an uninitialised `normal_link` hook contains: any operation that read it would
put it where `Represented` forbids it. In the step-wise modules `pc` names the
loop the call is in, and the local variables keep their names.

**Trees.**

| Module | Models |
|---|---|
| `TreeNodes` | navigation, header tests, searches, checks and commits of insertions, erasure, rotations |
| `TreeExchange` | swap_nodes, replace_node, swap_tree, unlink_leftmost; starting points for the two modules below: every shape that insertions give |
| `RBTree`, `AVLTree` | rebalancing after insertion and erasure, and the conditions of the checkers |
| `SplayTree` | splaying from below and from above, the latter up to the round in which a comparison throws |
| `Treap` | rotations by priority after insertion and before erasure, and the guard that undoes them |
| `SGTree` | `rebalance_subtree` (tree to vine and back), depth and size, the choice of the scapegoat, `max_tree_size` |
| `BSTree` | all operations of the six kinds of tree, on several trees that share elements; `kind` (algorithms, link mode, bounds) is chosen once, like template parameters |
| `TreeClone` | `clone_from`, `clone`, `clone_subtree`, `dispose_subtree` and both guards, one action per round |
| `TreeTeardown` | repeated `unlink_leftmost_without_rebalance` |
| `TreeCalls` | a choice of these two |

**Hash tables.**

| Module | Models |
|---|---|
| `HashBuckets` | buckets, groups of equal keys (`optimize_multikey`) and what erasing does to both |
| `HashTable` | state, options and the operations that are not interrupted: insertion, `insert_unique_check` with both commits, erasure by iterator, range and key, clear, swap, construction, `auto_unlink` |
| `HashCalls` | `rehash`, `full_rehash`, `incremental_rehash` (grow, shrink, other array) and `clone_from`, one action per element; the hash function and the cloner may throw at each, and the rollback is the one of the code: both arrays of a rehash, the split of a growth, the first buckets of a structural clone (section 6), the whole table of another clone |

A bucket is a sequence of elements, because the links in it are those of
`SListNodes`; what is special to hash tables is kept apart: the group links,
the stored hash, the split count, size and cached bucket of each table, and
the bucket arrays, which belong to the user and are handed from one table to
another by `rehash` and `swap`. `hashing` is the user's hash function, which
may be another one after a `full_rehash`; `pending` is the commit data between
`insert_unique_check` and `insert_unique_commit`, during which the table may be
rehashed.

| Module | Proves |
|---|---|
| `HashTableProofs` | facts about buckets (sequences), about the groups in them and the links of a group, about searches, and about natural numbers; the inductive invariant, and that the operations of `HashTable` preserve its part `IBase` |
| `HashRehashProofs` | the same of `rehash` and `full_rehash`, step by step |
| `HashGrowProofs` | the same of `incremental_rehash` and `clone_from` |
| `HashGroupProofs` | that the operations and the steps of rehash and growth preserve the other part, `IGroups` |
| `HashProofs` | the same of `clone_from`; the theorems |

**Notes on trees.** The tag of a node (its colour, its balance) goes with the place in the tree
when nodes are exchanged, as in the code. `rbtree_algorithms` and
`avltree_algorithms` write every case twice with left and right exchanged; the
models write it once for a side, and `Balanced` and `Represented` run both.
`merge_unique` and `merge_equal` are one action per round of their loop, between
which the comparison may throw; the other operations of a tree are atomic,
because nothing of the program can run inside them before their last write
except a comparison, which they only call before their first write. Where that
is not so, an exception is an outcome of its own: `splaytree_splay_down` may
stop after any number of rounds, which is what any search or insertion of a
splay tree leaves behind when a comparison throws, and `merge_throws` covers the
partial splay of the target and the undone rotations of a treap.

`MCList`, `MCSListSort`, `MCBSTree`, `MCTreeCalls` and `MCHashTable` give TLC the
constants, or a configuration does without one. Definitions under a comment that begins with "Mutant:"
are not part of any specification: each is a definition changed in the way of a plausible
programming error, and `PROJECT.json` names the property that notices it.

## 3. The runs

| Run | Question | Distinct states |
|---|---|---|
| `list_normal` | two counted lists of four normal_link elements whose counter wraps at 3: all loop-free operations leave the right links (`Represented`), type and counters (`SizeCounts`), though every erased element keeps stale links and a splice may move more elements than fit into the counter | about 103 000 |
| `list_auto` | two lists of four auto_unlink elements, which leave by themselves: `is_linked()` stays right (`HooksTellMembership`) | 261 |
| `list_kinds` | all operations of list and slist without callbacks, for eight kinds of lists: links, hooks (`HooksTellMembership`), `size()`/`empty()`/`check()` (`ObserversAgree`), the cached last node of slist (`LastIsCached`), and the refinement: lists read from the pointers alone make only steps of `AbstractList` (`ImplementsPromise`) | about 3300 |
| `list_calls` | remove, unique, merge, clone_from and sort of list and slist (circular and linear, last node cached or not), with every sequence of answers and an exception from every callback; each returns or throws (`Terminates`) | about 221 000 |
| `trees` | twelve kinds of tree: two unbalanced and two splay trees with equal keys and all searches; two red-black, AVL, scapegoat trees, two treaps; one of each large enough for all cases of its balancing; auto_unlink splay trees; normal_link trees | about 210 000 |
| `tree_calls` | clone_from over every shape of source and target, each clone or the comparison's copy throwing; the destruction of every shape | about 7 600 |
| `hash_tables` | two tables for seven sets of options, with rehashes, incremental rehashes and clones that are cut short by an exception: elements in their buckets and in one piece (`Represented`), groups (`GroupsAreWhole`), cached bucket (`CacheIsFirst`), size and hooks (`SizeAndHooks`), the exceptions of structural clones within the limits of section 6; `find`, `count` and ranges (`SearchesFind`); each round of a rehash or clone gets on (`Advances`) | about 628 000 |
| `sort_of_two`, `swap_outsider`, `clone_last`, `swap_in_one_list`, `erase_inside_group` | violations, see section 6 | |

Bounds, and why they are enough:

- *Elements and lists* (`Nodes`, `Lists`). The list algorithms touch at most
  the neighbours of two boundaries and of one target: four elements in two lists
  show every coincidence of those nodes (neighbours on either side, the same
  node, the header, an empty list). Three do in the normal_link part of
  `list_kinds`, where the stale links multiply the states; `list_normal` has four.
- *`SizeMod`*: 3 in `list_normal`, so that lists of four elements wrap the
  counter; 8 in `list_kinds`, so that `size()` is exact there. A range longer than
  `size_type` can count is excluded by the guard of `splice_range`.
- *`MaxShift`* 5: beyond the length of the longest list, plus the header.
- *`MaxLen`, `MergeLen`, `CloneLen`, `SortLen`, `Counters`*: remove and unique
  on up to four elements (two in each part of the partition, in either order),
  merge of three and three over three keys, clones of two, sorting of up to seven
  elements, which fill three counters. `CountersSuffice` names the assumption the
  code makes with its 64 counters. The calls of slist share five elements: lists
  of up to four to remove from, clones of two, merges of three and two, and sorting
  of five, where the carry list goes through two merges and the counters through
  two more; a linear list of two or four elements without a cached last node is
  left to `sort_of_two`.
- *Kinds of trees*: nine nodes in a red-black and seven in an AVL tree are
  enough for a rebalancing that climbs and then rotates, after an insertion and
  after an erasure, and for every case on either side. These large instances are
  *plain*: elements come and go one by one, since hints, ranges and exchanges
  link and unlink no differently, and no keys are searched for, since searching
  does not depend on the colours. The small instance of each
  balanced tree, with two trees and five elements, calls everything.
  In the small ones keys 1 and 2 exist twice, so that `equal` operations, hints
  and ranges meet runs of equal keys; the keys asked for lie below, among and
  above them.
- *Splay trees* of four elements have every case of both splays (zig, zig-zig,
  zig-zag, from either side), from every shape. *Treaps* of eight elements with
  pairs of equal priorities rotate an element over the whole height.
  *Scapegoat trees* rebuild a proper subtree only if there are enough elements,
  and the tree must have got there without an earlier rebuilding: `Line`
  inserts nine elements in the order of their numbers (`in_order`) and erases
  them in any order, and the small instance of two trees calls everything.
- *Hash tables*: two tables, three arrays of at most four buckets of which a
  table uses two, three or four, three elements of one key (the smallest group
  with a middle) and two of another, and three hash functions that put the keys
  together always, with two buckets only, or never. Elements of one key, tables
  and arrays are symmetric: nothing orders them.
- *`tree_calls`*: four elements in the source, two in the target, six in the
  tree that is destroyed: every shape of that many nodes.

In `list_calls` and `tree_calls` a call ends, and its end is a deadlock for
TLC, which is therefore not checked there; in the other runs it is.

Fairness: `WF_vars(Next)` in the modules about one call. The thread that makes a
call executes it until the call returns or throws; nothing else is assumed, and
in particular no callback is assumed not to throw. `List`, `ListKinds`,
`BSTree` and `HashTable` have no fairness: no caller has to call anything. That
the rounds of a merge, a rehash or a clone come to an end is stated by
`MergeAdvances` and `Advances` as a measure that every round brings down, and by
the absence of deadlocks there is always a next round.

The properties worth knowing:

- `Represented` (lists): no operation loses, duplicates or reorders an element,
  including swap_nodes of neighbours and splices inside one list.
- `RemovesExactly`: between two answers of the predicate the list is in three
  pieces; the exception handler joins them without loss, and the disposer sees a
  list that is already right.
- `MergesStably`: at every comparison, also a throwing one, both lists are whole
  and counted, and x's first elements are merged. In slist the merges inside
  `sort` are subject to the same property, the cached last nodes of the temporary
  lists included.
- `ClonesOrRollsBack` (lists and trees): every old element is disposed of once,
  every clone once if the call fails, and no hook stays linked.
- `SortsStably`: the counters hold, from the highest down, consecutive parts of
  the list, so every merge has the older part on its stable side. After an
  exception the elements in the temporary lists are detached and those still in
  the list are an unsorted rest: that is the "basic guarantee" of the source.
- `IteratorsFindTheWay`: increment, decrement and the search of the header
  work from every node of every reachable tree, though a header is known only by
  its links (and its tag, whose stability is part of `Balanced`).
- `MergeAdvances`, `MergeTakesAll`: `merge` walks a tree that each round takes
  an element out of and rebalances, and still visits each element once.
- `LastIsCached`: the last node of an slist is written by a dozen operations,
  each of which has to notice that it touches the end of one or two lists.
- `SplayingBringsUp`: from every reachable tree, splaying a node makes it the
  root, and splaying a key makes the root an element with that key or one next to
  its place; `Represented` says that nothing is lost on the way, also when the
  comparison throws while the tree is in three pieces.
- `RotationsAreUndone`: wherever a comparison of priorities throws, the element
  that was to be erased climbs back to where it was, and the treap is the same
  treap.
- `Balanced` for scapegoat trees: no element is deeper than `h_alpha` of
  `max_tree_size` allows, and the size is between three quarters of that maximum
  and the maximum, after every insertion, erasure, merge and swap.
- `GroupsAreWhole`, `CacheIsFirst`: elements of one key stay one group, linked
  in a ring through all of them, and the cached first bucket is the first with
  an element, while rehashes and clones move elements one by one.
- `SizeAndHooks`: after an exception has cut a rehash or a clone short, every element
  that is in no table has a hook that says so, and the size is right; a structural
  clone that throws may leave clones in the table, and its rollbacks with a wrong
  size, a wrong cached bucket or a way out of the array are left out (section 6).
- `LastIsFound`: what is true of the rightmost link after `clone`.
- `UnlinksInOrder`: the tree that `unlink_leftmost_without_rebalance` leaves is
  inconsistent, yet the calls yield all elements in order and end in a valid empty
  tree.

## 4. What is proved

**Lists.** `ListProofs` proves about `List`, and `SListProofs` about `SList`, circular
or linear, with or without a cached last node, for any sets of elements and lists
(also infinite ones), each link mode, with and without counters and for each width
of the counter:

- `Invariant`: `Spec => []IInv`;
- `TypeCorrect`, `ListsAreRepresented`, `HooksAreRight`, `SizesAreRight`, and for
  slist `LastStaysCached`: that `TypeOK`, `Represented`, `HooksTellMembership`,
  `SizeCounts` and `LastIsCached` always hold. TLC checks those of `List` in
  `list_normal` and `list_auto`. `SList` has no run of its own: the properties
  `Represented`, `HooksTellMembership` and `LastIsCached` of `list_kinds` contain those of
  five kinds of slist, and `ObserversAgree` compares their counters;
- `KeepsItsPromise`: `Spec => Promise!ASpec`, that the list, seen through its pointers,
  implements `AbstractList`.

The assumptions are `HeaderAssumption` (headers, elements, `Null` and `Junk` are
different things) and `OptionAssumption` (the static assertion of `list_impl` and
`slist_impl`: auto_unlink elements are not counted), which TLC evaluates in
every run on these modules.

For `List` the inductive invariant is `IInv == TypeOK /\ Represented /\
HooksTellMembership /\ SizeCounts`. None of the three safety conjuncts is
inductive alone: an insertion is right only because the element's membership in
`elems` agrees with the links, `hook_unlink` and `swap_nodes` branch on
`inited`, so that they need `HooksTellMembership`, whose preservation needs to
know which nodes a cut left out (`Represented`), and `splice_all` adds a counter
that must be the length of what it moves.

The argument has four layers:

1. *Sequences*: the length and the elements of `Slice`, `Cut`, `Paste`
   (`SliceProperties`, `PasteProperties`, `CutProperties`).
2. *Heaps and sequences*: joining a chain in between two nodes pastes a sequence
   (`PasteSpells`), bridging a gap cuts one out (`CutSpells`), independent of the
   operation. `Joined` and `Bridged` say what happens to each link.
3. *Algorithms*: each operator of `CircularList` joins, bridges, lifts or
   flips (`LinkBefore`, `Unlink`, `Transfer`, `SwapNodes`, ...), aliasing cases
   included; `MoveGood`, `SwapGood` and their kin compose them, and counter
   arithmetic (`ModAdd`, `MovedLengths`, ...) is separate.
4. *Operations*: one lemma per action (`InsertSound` ... `HookSwapSound`), joined
   by `StepSound`.

`InvariantIsSound` connects `IInv` with the form the lemmas use, a predicate on
a heap, contents and counters.

For `SList` the argument has the same layers, with one pointer per node and three
things that are different. `IInv` also has `LastIsCached`, without which
`Represented` is not inductive: an insertion at the end goes behind the cached
node, and a swap or splice takes it for the end of the chain that it links in. The
links say where a list ends in two ways (`end_node`: the header, or null in a
linear list), so that `HooksTellMembership` has an exception for the last element
of a linear list, whose null link looks like that of an element outside (no
operation of `SList` asks it; `hook_unlink` of `SListLoops` does). And what an
operation makes of the last node is
proved apart from what it makes of the sequences (`LastPaste`, `LastCut`,
`LastMoved`, `SwapCacheGood`): which node is last after a splice depends on which of
the two lists, if they are two, has lost or gained its end. `recedes` (section 6)
is the case where the code is wrong, and the guard that excludes it is used
there.

*The refinement.* The state of `AbstractList` must be read from the pointers, not
from what the callers remember. `OneSpelling` proves that a heap spells at most one
sequence per list - the pointers from the header cannot end in two places, nor
differ before they end - so that `Spelled(heap)`, the sequences it spells, is what `IInv`
says that `elems` is, in every reachable state (`SpelledIs`). Each action then is
one of the edits in `ANext` or leaves the sequences alone, as a splice of a list
into itself at the place where it is (`StepPromised`, `EditsSpelled`). `ImplementsPromise`
of `list_kinds` says the same with a walk along the pointers (`Walked`), and for the
operations with loops too.

**Hash tables.** `HashProofs` proves about `HashCalls` - every operation of
`HashTable` and every step of a call that is interrupted between two elements -
for any number of tables, arrays, keys and (finitely many) elements, any hash
functions and all combinations of unique or equal keys, `optimize_multikey`,
`store_hash`, `constant_time_size`, `cache_begin`, `incremental` and
`auto_unlink`:

- `HashInductive`: `Spec => []HashInvariant`, where `HashInvariant == IBase /\ IGroups`;
- `HashTypes`, `HashRepresented`, `HashCache`, `HashSizes`, `HashGroups`,
  `HashSearches`: that `TypeOK`, `Represented`, `CacheIsFirst`, `SizeAndHooks`,
  `GroupsAreWhole` and `SearchesFind` always hold;
- `HashIteration`: that `elements`, which begins at the cached bucket, meets
  every element once;
- `HashAdvances`: `Advances`, that every step of a call leaves less to do. The loop
  takes the element out of the bucket it walks or passes it, or it goes on to the next
  bucket, of which there is one less; it never holds more than all elements, which
  is why `remaining` counts `Cardinality(Nodes) + 1` for each.

These are all properties that `hash_tables` checks.

The assumptions are `KindAssumption` (the static assertions: an element that may
leave by itself is neither counted nor cached, groups need equal keys),
`CountAssumption` (a table has a bucket) and `ElementAssumption` (finitely many
elements, each with a key, and every key with a hash), which TLC evaluates in
`hash_tables`.

The properties speak of the moments between two calls; the inductive invariant
says what is true in the middle of one. `IBase` is about the places of the
elements:

- `Types` and `Exclusive`: no two tables share an array, also while a rehash has
  two, no element is in two buckets, and a bucket outside of all tables holds
  nothing that anybody relies on (`Junk`);
- `Quiet`, for each table no call is working on: its buckets hold its elements,
  each at `Home`; stored hashes, cached bucket and size are right. Other tables
  stay quiet through a call because `Exclusive` keeps arrays and elements apart;
- `Rehashing`: what the loop of `priv_rehash_impl` has `Passed` is `Settled` in its
  new bucket, not before the first bucket the loop has recorded, which has an
  element that belongs there; the counter is 0 and its backup right, so that an
  exception may empty both arrays (`MovesEach`). In a fast shrink buckets of
  equal remainder meet, and the least target of the buckets still to come and of
  the recorded one must be going to be used (`MovesBuckets`): what
  `misses_first` excludes is exactly a start where it is not;
- `Growing`: elements of the bucket that is split are at home there, or belong
  to the new one, which only the elements that the loop has passed do not; the
  cached bucket may have become empty, but no bucket before it is used;
- `Cloning`: what is still to be cloned and what is cloned add up to the source,
  so that the size that is copied at the end is right;
- `Committable`: the bucket and the hash that `insert_unique_check` has filled are
  those of the key until the table is rehashed, also while it grows.

`IGroups` is about equal elements, which stand together in one bucket and, with
`optimize_multikey`, are linked in a ring whose first element knows the last:

- `WholeBut`: so it is in every bucket that no call is working on, and an element
  in no table has no link, so that an insertion may write one;
- `RehashGroups`: a rehash that moves one element after the other divides a run of
  equal elements, but only the one it is just moving, whose moved elements are in
  front of their bucket (`Crosses`, `Split`), so that the next one joins them. With
  groups each element that moves has at most one equal (`breaks_groups`, section 6,
  excludes the others), and a pair is a ring wherever its two elements are. A fast
  shrink pours whole buckets together and must know that no key is in two of them;
- `GrowGroups`: with groups a growth moves them as they are, so that it always
  stands at the first element of one; without, it divides a run as a rehash does;
- `CloneGroups`: the elements still to be cloned stand together, and only the next
  of them may have equals among the clones, in front of their bucket;
- a key that `insert_unique_check` did not find is in the table at no time before
  the commit.

The two parts need each other. The steps of a growth with groups preserve `IBase`
only because the group links lead where the groups end, so that what moves is
what is to move, and `erase_key` erases all of a key only if its elements stand
together; that groups stay whole needs to know from `IBase` that equal elements have
the same home.

TLC checked both as invariants of `hash_tables` before they were proved. The
argument has four layers: what happens to the elements of a bucket, to its groups
and their links (the first half of `HashTableProofs`: `Ringed`, `Together`, and how a search that jumps
from group to group ends where a search from element to element does); what an update
of one bucket or a transfer between two does
to one table (`QuietLink`, `CutOut`, `TransferMoves`, `MoveKeeps`) and that it is
invisible to the others (`OthersRest`, `StillWorked`); one lemma per action about
`IBase` (`InsertEqualBase` ... `CloneThrowsBase`) and one about `IGroups`
(`InsertEqualGroups` ... `CloneEndsGroups`), joined by `NextBase` and `NextGroups`; and
what the invariant says when no call is under way. `elements` and
`first_used` are recursive functions; what they compute is proved from the least
bucket for which it would be wrong (`LeastElement`).

## 5. What is only model-checked

`ObserversAgree` (it reads the lists by recursion over the links); the operations of
`ListLoops` and `SListLoops`, and that they implement `AbstractList`; the calls of
`ListCalls` (those of slist in `SListCalls` and `SListSort` included); and the trees.
Out of the prover's reach stay liveness (`Terminates`) and ENABLED, facts that need an induction over data, and modules with RECURSIVE
operators (`ListLoops`, `SListLoops`, `RBTree`, `AVLTree`, `SplayTree`, `Treap`, `SGTree`,
`BSTree`).

## 6. Where the code and its documentation differ

Shown by a run:

- `sort_of_two`: `sort` of an slist remembers in `last_inserted` where the last
  merge inserted and looks for the end of the result from there. When all
  elements are in the highest counter, as for two, four or eight elements, the last
  merge has an empty argument and sets it to `end()`; in a linear list that is a
  null pointer, which `previous` follows if the last node is not cached
  (`slist.hpp:1494`). The documentation (`slist.hpp:1446`) has no condition on the
  length. `loses_the_end` keeps the passing run away from it.
- `swap_outsider`: the documentation of the hook's `swap_nodes`
  (`list_hook.hpp:131`) covers an element that is in no container, in every link
  mode. `circular_list_algorithms::swap_nodes` recognises it by null links, which a
  normal_link element that has left its list does not have.
- `clone_last`: after `clone` the header's right link is the right child cloned
  last, not the last element, if the last element has a right child in its left
  subtree: possible in unbalanced, splay, scapegoat trees and treaps.
  `check()` asserts the opposite (`bstree_algorithms.hpp:1477`). Red-black and AVL
  trees cannot have the shape, which is what `LastIsFound` says positively.
- `swap_in_one_list`: `circular_slist_algorithms::swap_nodes` looks for the
  predecessor of the second node along links it has just changed
  (`circular_slist_algorithms.hpp:306`), which goes wrong for two nodes of one list
  unless one follows the other.
- `erase_inside_group`: erasing a range from inside a group of equal elements
  gives the first part of the group a link to an erased element
  (`hashtable.hpp:1149`).

Met while modelling; where a guard of the model is named, it keeps the passing
runs away from the case, so that they show what holds everywhere else:

- `list::merge` "performs at most size() + x.size() - 1 comparisons"
  (`list.hpp:1081`). The comparison that ends a range (`list.hpp:1104`) is repeated as
  the first of the next round, so that more are possible. `LinearInBoth` in
  `ListMerge` states a bound that holds: size() + 2 * x.size() - 1.
- A range from the end of a list with `cache_last` spliced further to the front
  of the same list leaves the cached node behind (`slist.hpp:2021-2033`; `recedes`).
- `check()` and `sort()` of an empty linear slist follow a null pointer
  (`slist.hpp:1962`, `slist.hpp:1460`; `CheckAccepts` asks for an element).
- `priv_go_to_last_in_group` does not advance its iterator (`hashtable.hpp:3899`), so
  that a rehash that moves whole groups breaks groups of three
  (`breaks_groups`).
- Shrinking by `incremental_rehash` may cache an empty bucket, and a resize of an
  empty table keeps the old past-the-end index (`hashtable.hpp:3643`, `3691`;
  `caches_empty`, `keeps_old_end`); `fast_shrink` counts empty buckets in the new
  cached index (`hashtable.hpp:3911`; `misses_first`).
- Without optimize_multikey equal elements move one by one when a table grows.
  If the hash function throws in the middle of a run of them, the rollback
  (`hashtable.hpp:752`) puts those that have moved in front of the whole old bucket,
  and if others stand between, equal elements are not adjacent any more; `count`
  and `equal_range` then miss some (`separates_equals`).
- The rollback of a structural clone (`hashtable.hpp:3998-4007`, with the destructor of
  `exception_bucket_disposer`, `hashtable.hpp:464-472`) empties as many buckets of the
  table as the copy has gone through *in the source*, and nothing else. Three things
  follow. The clones of the bucket it was working on stay in the table, although the
  documentation (`hashtable.hpp:2632`) says that all are disposed of; the model does
  the same. Size and cached bucket keep the clones that were disposed of; with
  `counted` or `cache` the model leaves out a rollback that disposes of any
  (`forgets_clones`). And where the source has more buckets than the table, the
  rollback may walk past the end of the table's array: with four buckets in the source,
  two in the table and the first element in the last bucket of the source, a cloner that
  throws at once makes it detach `cont_[2]`. What is there is undefined, so the model
  leaves out the exceptions that come when the source's bucket number is above the
  table's bucket count (`stays_inside`). `Represented`, `SizeAndHooks` and the
  other properties of hash tables, and the theorems, say nothing of these two cases.
- With fastmod buckets the clone splits by the wrong count (`hashtable.hpp:4024`), and
  a rehash that throws does not restore the sentinel of linear buckets
  (`hashtable.hpp:3863`). Neither option is modelled.
- `clone_from` of a table that cannot be cloned bucket by bucket copies neither hash
  function nor predicate, although `hashtable.hpp:2625` says so.
- The auto_unlink hook of a treap unlinks as in any tree: the successor takes the
  place of the element whatever its priority, and the heap order asserted in
  `treap_algorithms.hpp:56` is lost. `treap_impl::remove_node` does not compile:
  `unlink` (`treap_algorithms.hpp:212`) wants a comparison. `remove_node` of the
  model excludes treaps.
- Moving one scapegoat tree to another by assignment exchanges the elements but
  copies `max_tree_size` one way, although `bstree.hpp:750` calls it "equivalent to
  swap"; moving assignments are not modelled.
- The documentation of splay trees says that an inserted node is splayed; the
  `insert_equal` family (`splaytree_algorithms.hpp:432-457`) splays its key before the
  insertion and leaves the new node where it is linked.
- Between `insert_unique_check` and `insert_unique_commit` the documentation excludes
  insertions and erasures only (`bstree.hpp:1311`); `rebalance`, `splay_up` and every
  search of a splay tree that is not const move the place as well.
- `slist_impl::dispose_and_assign` (`slist.hpp:1244`) calls an `insert_after` that does
  not exist, and a condition of `detach_and_dispose` in
  `detail/common_slist_algorithms.hpp` is never true: neither is modelled.

## 7. What is not modelled, and the plan

Not modelled because they have no control of their own: the set wrappers,
`any_hook`, compact nodes, value traits, iterators and options. Addresses,
alignment, pointer types and the cost of operations are abstracted from.

Of the modelled components these parts are left out:

- *list, slist*: operations that only compose modelled ones (`dispose_and_assign`,
  `erase_and_dispose` of one element, assignment by moving).
- *trees*: insertion as two calls of the user (a commit follows its check at once, so
  that no property is about a place that has become stale in between), insertion of whole ranges into
  trees that are not empty, `count` of a tree, construction and assignment by
  moving, scapegoat trees with a balance factor chosen at run time
  (`floating_point<true>`), the splaying that is not simple.
- *hash tables*: linear buckets and their sentinel, fastmod buckets, comparisons
  that throw, `operator==`, construction by moving (`hashtable.hpp:2458`; it leaves a
  table without buckets, which no operation of the model expects; assignment by
  moving is `swap`), and two outcomes of a structural clone that throws (section 6).

What would come next, in this order: lemmas about `TreeNodes` (rotations keep the
order of the tree), the loops of `ListLoops` and `SListLoops` as recursive functions,
so that `IInv` can be proved of them too, the commit of an insertion
as an action of its own between searches, linear buckets.
