------------------------------ MODULE HashCalls ------------------------------
(***************************************************************************)
(* The operations of hashtable.hpp that handle one element after another   *)
(* and call the user's hash function or cloner for each, which may throw:  *)
(* rehash, full_rehash, incremental_rehash(true) and clone_from; and the   *)
(* whole next-state relation.  call holds the local variables of the call  *)
(* in progress.                                                            *)
(***************************************************************************)
EXTENDS HashTable

in(op) == call.op = op

\* Without a stored hash the hash function is called, and may throw.
may_throw == ~kind.store

\* The result of a transfer of the positions p to q - 1 of bucket i of array
\* a to the front of bucket j of array c.
transferred(bs, a, i, p, q, c, j) ==
  LET cut == [bs EXCEPT ![a][i] = Cut(@, p, q)]
  IN  [cut EXCEPT ![c][j] = Piece(bs[a][i], p, q) \o @]

whole(bs, a, i, c, j) == transferred(bs, a, i, 1, Len(bs[a][i]) + 1, c, j)

\* insert_unique_commit survives a rehash, insert_unique_fast_commit does not.
outdated == pending' = IF pending = None THEN None ELSE [pending EXCEPT !.rehashed = TRUE]
-----------------------------------------------------------------------------
(* priv_rehash_impl: rehash(new_bucket_traits) and full_rehash().          *)

fast_shrink(t, c, full) == /\ ~full /\ ~kind.incremental
                           /\ tab[t].count >= c /\ tab[t].count % c = 0

\* Where the loop over the old buckets begins and what it has of the first
\* new one by then.
starts(t, a, c, full) ==
  LET T == tab[t]
  IN  IF a = T.array /\ fast_shrink(t, c, full) /\ T.cache < c
      THEN [n |-> c, first |-> T.cache] ELSE [n |-> T.cache, first |-> c]

\* priv_initialize_new_buckets.
initialized(bs, T, a, c) ==
  IF a = T.array THEN init_buckets(bs, a, T.count, c) ELSE init_buckets(bs, a, 0, c)

\* Three or more equal elements that change places one by one come out of it
\* with group links in the wrong order.
breaks_groups(t, a, c, full) ==
  LET moves(n) == \/ a # tab[t].array
                  \/ hash_to_bucket_split(hashing[Key[n]], c, c, kind.incremental) # home(t, Key[n])
                  \/ full
  IN  /\ kind.multi /\ ~fast_shrink(t, c, full)
      /\ \E n \in members[t] :
           moves(n) /\ Cardinality({m \in members[t] : Key[m] = Key[n]}) > 2

\* A fast shrink counts the targets of empty buckets, too, as used ones.
misses_first(t, a, c, full) ==
  LET T == tab[t]
      s == starts(t, a, c, full)
      targets == {n % c : n \in s.n..(T.count - 1)} \cup {s.first}
      filled  == {n % c : n \in {k \in used(t) : bucket(t, k) # <<>>}}
  IN  /\ kind.cache /\ fast_shrink(t, c, full)
      /\ \E x \in targets \ {c} : x \notin filled /\ \A y \in targets : x <= y

\* full_rehash finds the hash function changed, for this table only.
rehash_begins(t, a, c, full) ==
  LET s == starts(t, a, c, full)
  IN  /\ idle
      /\ ~breaks_groups(t, a, c, full) /\ ~misses_first(t, a, c, full)
      /\ IF full THEN /\ a = tab[t].array /\ c = tab[t].count
                      /\ \A u \in Tables \ {t} : members[u] = {}
                      /\ hashing' \in Hashings
                      /\ pending' = None
         ELSE UNCHANGED <<hashing, pending>>
      /\ buckets' = IF full THEN buckets ELSE initialized(buckets, tab[t], a, c)
      /\ tab' = [tab EXCEPT ![t] = priv_size_count(priv_init_cache(@), 0)]
      /\ call' = [op |-> "rehash", table |-> t, array |-> a, count |-> c, full |-> full,
                  fast |-> fast_shrink(t, c, full), n |-> s.n, before_i |-> 0,
                  first |-> s.first, size_backup |-> tab[t].size]
      /\ UNCHANGED <<kind, group, stored, linked, members>>

rehash_bucket  == bucket(call.table, call.n)
in_old_buckets == in("rehash") /\ call.n < tab[call.table].count

\* Where an element of hash h goes.
new_n(h) == hash_to_bucket_split(h, call.count, call.count, kind.incremental)

moved(x) == IF kind.cache /\ x < call.first THEN x ELSE call.first

\* Mutant: an element that stays in its bucket is visited again.
rehash_moves_again ==
  LET n == rehash_bucket[call.before_i + 1]
      h == IF call.full THEN hashing[Key[n]] ELSE priv_stored_or_compute_hash(n)
      a == tab[call.table].array
  IN  /\ in_old_buckets /\ ~call.fast /\ call.before_i < Len(rehash_bucket)
      /\ stored' = IF call.full /\ kind.store THEN [stored EXCEPT ![n] = h] ELSE stored
      /\ call' = [call EXCEPT !.first = moved(new_n(h))]
      /\ buckets' = transferred(buckets, a, call.n, call.before_i + 1, call.before_i + 2,
                                call.array, new_n(h))
      /\ UNCHANGED <<kind, group, linked, tab, hashing, pending, members>>

\* The next element of bucket n; one that stays there is only passed.
rehash_moves ==
  LET n == rehash_bucket[call.before_i + 1]
      h == IF call.full THEN hashing[Key[n]] ELSE priv_stored_or_compute_hash(n)
      a == tab[call.table].array
      stays == a = call.array /\ new_n(h) = call.n
  IN  /\ in_old_buckets /\ ~call.fast /\ call.before_i < Len(rehash_bucket)
      /\ stored' = IF call.full /\ kind.store THEN [stored EXCEPT ![n] = h] ELSE stored
      /\ call' = [call EXCEPT !.first = moved(new_n(h)),
                              !.before_i = IF stays THEN @ + 1 ELSE @]
      /\ buckets' = IF stays THEN buckets
                    ELSE transferred(buckets, a, call.n, call.before_i + 1, call.before_i + 2,
                                     call.array, new_n(h))
      /\ UNCHANGED <<kind, group, linked, tab, hashing, pending, members>>

rehash_next_bucket ==
  /\ in_old_buckets /\ ~call.fast /\ call.before_i = Len(rehash_bucket)
  /\ call' = [call EXCEPT !.n = @ + 1, !.before_i = 0]
  /\ UNCHANGED <<kind, buckets, group, stored, linked, tab, hashing, pending, members>>

\* With fast_shrink a bucket is transferred as a whole.
rehash_moves_bucket ==
  /\ in_old_buckets /\ call.fast
  /\ buckets' = whole(buckets, tab[call.table].array, call.n, call.array, new_n(call.n))
  /\ call' = [call EXCEPT !.n = @ + 1, !.first = moved(new_n(call.n))]
  /\ UNCHANGED <<kind, group, stored, linked, tab, hashing, pending, members>>

\* Mutant: the split count of the old buckets stays.
rehash_split_kept(T) == T

rehash_split(T) == [T EXCEPT !.split = call.count]

rehash_ends ==
  LET t == call.table
      T == rehash_split([tab[t] EXCEPT !.array = call.array, !.count = call.count])
  IN  /\ in("rehash") /\ call.n = tab[t].count
      /\ tab' = [tab EXCEPT ![t] = set_cache(priv_size_count(T, call.size_backup), call.first)]
      /\ buckets' = given_up(buckets, tab')
      /\ call' = None
      /\ outdated
      /\ UNCHANGED <<kind, group, stored, linked, hashing, members>>

\* The two exception_bucket_disposers empty the buckets of both arrays.
\* Mutant: only the new buckets are emptied.
rollback_new(bs) == init_buckets(bs, call.array, 0, call.count)

rollback_both(bs) == init_buckets(init_buckets(bs, call.array, 0, call.count),
                                  tab[call.table].array, 0, tab[call.table].count)

ElementsOf(bs) == {n \in Nodes : \E a \in Arrays, i \in indices :
                                   \E x \in DOMAIN bs[a][i] : bs[a][i][x] = n}

rehash_throws ==
  LET left == rollback_both(buckets)
  IN  /\ in_old_buckets /\ ~call.fast /\ call.before_i < Len(rehash_bucket)
      /\ call.full \/ may_throw
      /\ linked' = linked \ (ElementsOf(buckets) \ ElementsOf(left))
      /\ buckets' = given_up(left, tab)
      /\ group' = gone(group, members[call.table])
      /\ stored' = gone(stored, members[call.table])
      /\ members' = [members EXCEPT ![call.table] = {}]
      /\ call' = None
      /\ pending' = None
      /\ UNCHANGED <<kind, tab, hashing>>
-----------------------------------------------------------------------------
(* incremental_rehash(true): bucket split_count() is filled from the one in *)
(* the lower half, group by group.                                         *)

grow_begins(t) ==
  /\ idle /\ kind.incremental
  /\ tab[t].split < tab[t].count
  /\ call' = [op |-> "grow", table |-> t, from |-> tab[t].split - tab[t].count \div 2,
              to |-> tab[t].split, before_i |-> 0]
  /\ tab' = [tab EXCEPT ![t].split = @ + 1]
  /\ UNCHANGED <<kind, buckets, group, stored, linked, hashing, pending, members>>

grow_bucket == bucket(call.table, call.from)

grow_moves ==
  LET n    == grow_bucket[call.before_i + 1]
      to   == priv_hash_to_nbucket(call.table, priv_stored_or_compute_hash(n))
      last == Place(grow_bucket, last_in_group(n))
      a    == tab[call.table].array
  IN  /\ in("grow") /\ call.before_i < Len(grow_bucket)
      /\ IF to = call.from THEN call' = [call EXCEPT !.before_i = last] /\ UNCHANGED buckets
         ELSE /\ buckets' = transferred(buckets, a, call.from, call.before_i + 1, last + 1, a, to)
              /\ UNCHANGED call
      /\ UNCHANGED <<kind, group, stored, linked, tab, hashing, pending, members>>

grow_ends ==
  /\ in("grow") /\ call.before_i = Len(grow_bucket)
  /\ tab' = [tab EXCEPT ![call.table] = priv_erasure_update_cache(buckets, @)]
  /\ call' = None
  /\ outdated
  /\ UNCHANGED <<kind, buckets, group, stored, linked, hashing, members>>

\* incremental_rehash_rollback puts what was moved in front of what was not.
rollback_split(T) == [T EXCEPT !.split = @ - 1]

\* Without optimize_multikey equal elements move one by one, and the rollback of
\* an exception between two of them leaves others in between.
separates_equals ==
  LET b == bucket(call.table, call.to)
  IN  \E x \in DOMAIN b : Key[b[x]] = Key[grow_bucket[call.before_i + 1]]

grow_throws ==
  LET a == tab[call.table].array
  IN  /\ in("grow") /\ call.before_i < Len(grow_bucket)
      /\ may_throw /\ ~separates_equals
      /\ buckets' = whole(buckets, a, call.to, a, call.from)
      /\ tab' = [tab EXCEPT ![call.table] = rollback_split(@)]
      /\ call' = None
      /\ UNCHANGED <<kind, group, stored, linked, hashing, pending, members>>

\* incremental_rehash(false), which does not throw.  The bucket it ends in is
\* cached even if both buckets were empty: caches_empty.
caches_empty(t) ==
  LET target == tab[t].split - 1 - tab[t].count \div 2
  IN  /\ kind.cache /\ target < tab[t].cache
      /\ bucket(t, target) = <<>> /\ bucket(t, tab[t].split - 1) = <<>>

shrink(t) ==
  LET T == tab[t]
      target == T.split - 1 - T.count \div 2
  IN  /\ idle /\ kind.incremental
      /\ T.split > T.count \div 2 /\ ~caches_empty(t)
      /\ buckets' = whole(buckets, T.array, T.split - 1, T.array, target)
      /\ tab' = [tab EXCEPT ![t] = priv_insertion_update_cache(rollback_split(T), target)]
      /\ outdated
      /\ UNCHANGED <<kind, group, stored, linked, hashing, call, members>>

\* incremental_rehash(new_bucket_traits), which leaves the split count alone.
\* An empty table keeps the old end as its cached bucket: keeps_old_end.
keeps_old_end(t) == kind.cache /\ tab[t].cache = tab[t].count

incremental_rehash(t, a, c) ==
  LET T  == tab[t]
      bs == initialized(buckets, T, a, c)
  IN  /\ idle /\ kind.incremental
      /\ \/ c = 2 * T.count /\ T.split >= T.count
         \/ 2 * c = T.count /\ T.split <= c
      /\ ~keeps_old_end(t)
      /\ tab' = [tab EXCEPT ![t].array = a, ![t].count = c]
      /\ buckets' = given_up([bs EXCEPT ![a] = [i \in indices |->
                       IF a # T.array /\ i \in T.cache..(T.split - 1)
                       THEN bs[T.array][i] ELSE @[i]]], tab')
      /\ outdated
      /\ UNCHANGED <<kind, group, stored, linked, hashing, call, members>>
-----------------------------------------------------------------------------
(* priv_clone_from: the elements are cloned from begin() on; a structural  *)
(* copy finds the bucket of a clone by the bucket of the original.         *)

structural(t, src) == /\ ~kind.incremental
                      /\ tab[src].count >= tab[t].count /\ tab[src].count % tab[t].count = 0

\* There is an element for every clone.
enough(t, src) ==
  \A key \in Keys : Cardinality({n \in members[src] : Key[n] = key}) <=
                   Cardinality({n \in Nodes : Key[n] = key /\ (free(n) \/ n \in members[t])})

clone_begins(t, src) ==
  /\ idle /\ t # src
  /\ enough(t, src)
  /\ buckets' = cleared(buckets, tab[t])
  /\ disposed(from_cached(tab[t]), group)
  /\ tab' = [tab EXCEPT ![t] = priv_size_count(priv_init_cache(@), 0)]
  /\ call' = IF kind.counted /\ empty(src) THEN None
             ELSE [op |-> "clone", table |-> t, src |-> src, todo |-> elements(src),
                   structural |-> structural(t, src)]

\* The bucket of the source that holds n.
src_bucket(n) == CHOOSE i \in used(call.src) : \E x \in DOMAIN bucket(call.src, i) :
                                                 bucket(call.src, i)[x] = n

\* Mutant: the clone never joins the group of the clone before it.
joins_never(t, i, key) == FALSE

joins(t, i, key) == bucket(t, i) # <<>> /\ Key[bucket(t, i)[1]] = key

clone_next ==
  LET r == call.todo[1]
      m == any(Key[r])
      h == priv_stored_or_compute_hash(r)
      t == call.table
      i == IF call.structural
           THEN hash_to_bucket_split(src_bucket(r), tab[t].count, tab[t].split, kind.incremental)
           ELSE priv_hash_to_nbucket(t, h)
  IN  /\ in("clone") /\ call.todo # <<>> /\ spare(Key[r]) # {}
      /\ link(t, i, 1, m, IF joins(t, i, Key[r]) THEN bucket(t, i)[1] ELSE m, h)
      /\ call' = [call EXCEPT !.todo = Tail(@)]
      /\ UNCHANGED pending

clone_ends ==
  LET t == call.table
      S == set_cache(priv_size_count(tab[t], tab[call.src].size), 0)
      T == IF call.structural THEN [S EXCEPT !.split = S.count] ELSE tab[t]
  IN  /\ in("clone") /\ call.todo = <<>>
      /\ tab' = [tab EXCEPT ![t] = IF call.structural THEN priv_erasure_update_cache(buckets, T)
                                   ELSE T]
      /\ call' = None
      /\ UNCHANGED <<kind, buckets, group, stored, linked, hashing, pending, members>>

\* The rollback of a structural copy empties as many buckets of the table as the
\* copy has gone through in the source, and leaves size and cached bucket alone.
constructed == 0..(src_bucket(call.todo[1]) - 1)
emptied(t, I)  == [buckets EXCEPT ![tab[t].array] = [i \in indices |-> IF i \in I THEN <<>> ELSE @[i]]]
elements_of(t, I) == UNION {{bucket(t, i)[x] : x \in DOMAIN bucket(t, i)} : i \in I}

\* So it counts or caches clones that are gone, and where the source has more
\* buckets it may go past the array of the table: neither is modelled.
forgets_clones(t) == (kind.counted \/ kind.cache) /\ elements_of(t, constructed) # {}
stays_inside(t)   == constructed \subseteq used(t)

structural_rollback(t) ==
  /\ stays_inside(t) /\ ~forgets_clones(t)
  /\ buckets' = emptied(t, constructed)
  /\ disposed(elements_of(t, constructed), group)
  /\ UNCHANGED tab

\* The cloner throws; what is not a structural copy is rolled back by clear().
clone_throws ==
  LET t == call.table
  IN  /\ in("clone") /\ call.todo # <<>>
      /\ call' = None
      /\ \/ call.structural /\ structural_rollback(t)
         \/ /\ ~call.structural
            /\ buckets' = cleared(buckets, tab[t])
            /\ disposed(from_cached(tab[t]), group)
            /\ tab' = [tab EXCEPT ![t] = priv_size_count(priv_init_cache(@), 0)]
-----------------------------------------------------------------------------
InsertNext ==
  \E t \in Tables, key \in Keys :
    /\ idle
    /\ \/ spare(key) # {} /\ (insert_equal(t, any(key)) \/ insert_unique(t, any(key)))
       \/ pending = None /\ insert_unique_check(t, key)

CommitNext ==
  /\ idle /\ pending # None
  /\ spare(pending.key) # {}
  /\ \/ insert_unique_commit(any(pending.key))
     \/ insert_unique_fast_commit(any(pending.key))

EraseNext ==
  \E t \in Tables :
    /\ idle
    /\ \/ clear(t)
       \/ \E key \in Keys : erase_key(t, key)
       \/ \E n \in Nodes : hook_unlink(n)
       \/ \E i \in used(t) : \E p \in DOMAIN bucket(t, i) :
            \/ erase(t, i, p)
            \/ \E j \in i..(tab[t].count - 1) : \E q \in 1..(Len(bucket(t, j)) + 1) :
                 /\ q <= Len(bucket(t, j)) \/ j = tab[t].count - 1
                 /\ i = j => p < q /\ ~inside_a_group(bucket(t, i), p, q)
                 /\ erase_range(t, i, p, j, q)

ExchangeNext ==
  \E t \in Tables :
    /\ idle
    /\ \/ \E u \in Tables : swap(t, u)
       \/ \E a \in arrays(t), c \in bucket_counts : construct(t, a, c)

RehashNext ==
  \E t \in Tables :
    \/ grow_begins(t)
    \/ shrink(t)
    \/ \E a \in arrays(t), c \in bucket_counts :
         \/ \E full \in BOOLEAN : rehash_begins(t, a, c, full)
         \/ incremental_rehash(t, a, c)

CloneNext == \E t, src \in Tables : clone_begins(t, src)

\* A call in progress goes on.
CallNext ==
  \/ rehash_moves \/ rehash_next_bucket \/ rehash_moves_bucket \/ rehash_ends \/ rehash_throws
  \/ grow_moves \/ grow_ends \/ grow_throws
  \/ clone_next \/ clone_ends \/ clone_throws

Next == InsertNext \/ CommitNext \/ EraseNext \/ ExchangeNext \/ RehashNext \/ CloneNext
        \/ CallNext

Spec == Init /\ [][Next]_vars
-----------------------------------------------------------------------------
Memory == Nodes \cup {Junk}

TypeOK ==
  /\ kind \in Kinds
  /\ \A a \in Arrays, i \in indices : buckets[a][i] \in Seq(Memory)
  /\ group \in [Nodes -> Memory]
  /\ stored \in [Nodes -> Nat \cup {Junk}]
  /\ linked \subseteq Nodes
  /\ \A t \in Tables : /\ tab[t].array \in Arrays /\ tab[t].count \in Counts
                       /\ tab[t].split \in (tab[t].count \div 2)..tab[t].count
                       /\ tab[t].cache \in 0..tab[t].count
                       /\ tab[t].size \in 0..Cardinality(Nodes)
  /\ hashing \in Hashings
  /\ members \in [Tables -> SUBSET Nodes]

ElementsAt(t, i) == {bucket(t, i)[x] : x \in DOMAIN bucket(t, i)}

(* Between two calls the buckets of a table hold the elements that were    *)
(* put into it, each once and in the bucket where a search will look for   *)
(* its key, whatever was rehashed, grown, shrunk, cloned or interrupted:   *)
(* a structural clone where its rollback stays_inside the array and does   *)
(* not clear a bucket that is counted or cached (forgets_clones).          *)
Represented ==
  idle => \A t \in Tables :
    /\ members[t] = UNION {ElementsAt(t, i) : i \in used(t)}
    /\ \A i \in used(t) :
         /\ Cardinality(ElementsAt(t, i)) = Len(bucket(t, i))
         /\ \A n \in ElementsAt(t, i) : /\ home(t, Key[n]) = i
                                        /\ kind.store => stored[n] = hashing[Key[n]]

\* The positions of b with the key that stands at x.
run(b, x) == {y \in DOMAIN b : Key[b[y]] = Key[b[x]]}

whole_groups(b) ==
  \A x \in DOMAIN b : \E f, l \in DOMAIN b :
    /\ run(b, x) = f..l
    /\ kind.multi => group[b[x]] = b[IF x = f THEN l ELSE x - 1]

(* Equal elements stand side by side, and with optimize_multikey the first *)
(* of them leads to the last one and the others to the one before: what    *)
(* skips a group skips all of it.                                          *)
GroupsAreWhole ==
  idle => \A t \in Tables : \A i \in used(t) : whole_groups(bucket(t, i))

(* begin() trusts the cached bucket: it is the first one with an element,  *)
(* after every insertion, erasure, rehash and exception.                   *)
CacheIsFirst ==
  idle /\ kind.cache => \A t \in Tables : tab[t].cache = first_used(buckets, tab[t], 0)

(* size() and empty() tell how many elements there are, and is_linked() of *)
(* an element whether it is in a table, also after an exception has emptied *)
(* one in the middle of a rehash, or emptied some buckets in the middle of *)
(* a structural clone (stays_inside, not forgets_clones).                  *)
SizeAndHooks ==
  idle => /\ linked = UNION {members[t] : t \in Tables}
          /\ \A t \in Tables : /\ kind.counted => tab[t].size = Cardinality(members[t])
                               /\ empty(t) <=> members[t] = {}

\* The elements of s from f on, up to e or to the end.
stretch(s, f, e) ==
  {s[x] : x \in {y \in DOMAIN s : /\ \E z \in 1..y : s[z] = f
                                  /\ ~\E z \in 1..y : s[z] = e}}

(* Iteration meets every element once; count() and equal_range() find all  *)
(* elements of a key and no other, and where the range ends in its bucket  *)
(* its end is the first element of a later bucket.                         *)
SearchesFind ==
  idle => \A t \in Tables :
    LET s == elements(t)
        equal(key) == {n \in members[t] : Key[n] = key}
    IN  /\ {s[x] : x \in DOMAIN s} = members[t]
        /\ Len(s) = Cardinality(members[t])
        /\ \A key \in Keys :
             LET r == priv_equal_range(t, key)
             IN  /\ count(t, key) = Cardinality(equal(key))
                 /\ stretch(s, r[1], r[2]) = equal(key)

\* What a call in progress still has before it: buckets, and elements in one.
remaining ==
  CASE in("rehash") -> (tab[call.table].count - call.n) * (Cardinality(Nodes) + 1)
                       + (IF in_old_buckets THEN Len(rehash_bucket) - call.before_i ELSE 0)
    [] in("grow")   -> Len(grow_bucket) - call.before_i
    [] in("clone")  -> Len(call.todo)

(* Every step of a rehash, a growth or a clone leaves less to do, so that  *)
(* each comes to its end: no element is met again in the bucket it has     *)
(* been moved to, and no bucket is walked over and over.                   *)
Advances == [][~idle => idle' \/ remaining' < remaining]_vars

=============================================================================
