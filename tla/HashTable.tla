------------------------------ MODULE HashTable ------------------------------
(***************************************************************************)
(* boost::intrusive::hashtable (include/boost/intrusive/hashtable.hpp),    *)
(* the implementation of unordered_set and unordered_multiset: its state   *)
(* and the operations that run without interruption, for several tables    *)
(* that share their elements.  HashCalls has those that call the user's    *)
(* hash function, which may throw, once per element.                       *)
(*                                                                         *)
(* The bucket arrays belong to the user, who hands one to each table and   *)
(* may do what he likes with the buckets no table uses; members is what    *)
(* the callers know, and no code reads it.                                 *)
(***************************************************************************)
EXTENDS HashBuckets

CONSTANTS Tables, Arrays,
          MaxCount,          \* the buckets in every array
          Counts,            \* the numbers of them that a table may be given
          Keys, Key,         \* the key of every element
          Hashings,          \* the hash functions a full_rehash may find
          Kinds,             \* the options of the tables, see KindAssumption
          Junk               \* what memory holds that nobody has written

\* multi is optimize_multikey, auto the auto_unlink mode of the hooks, and
\* the hash is compared if it is stored.
ASSUME KindAssumption ==
  /\ Kinds \subseteq [unique : BOOLEAN, multi : BOOLEAN, store : BOOLEAN, counted : BOOLEAN,
                     cache : BOOLEAN, incremental : BOOLEAN, auto : BOOLEAN]
  /\ \A k \in Kinds : (k.auto => ~k.counted /\ ~k.cache) /\ (k.unique => ~k.multi)

ASSUME CountAssumption == MaxCount \in Nat /\ Counts \subseteq 1..MaxCount

\* Memory holds finitely many elements, each with a key and every key with a hash.
ASSUME ElementAssumption == /\ IsFiniteSet(Nodes)
                            /\ {End, Junk} \cap Nodes = {} /\ Junk \notin Nat
                            /\ Key \in [Nodes -> Keys]
                            /\ Hashings \subseteq [Keys -> Nat]

VARIABLES kind,              \* the options of all tables
          buckets,           \* the sequence of elements in each bucket of each array
          group,             \* the group link of every element
          stored,            \* the hash stored in every element
          linked,            \* the elements whose hooks are not in the default state
          tab,               \* bucket_traits, split_count, size and cached_begin_
          hashing,           \* the hash of every key
          pending,           \* what insert_unique_check has filled
          call,              \* the call in progress, see HashCalls
          members            \* the elements put into every table

vars == <<kind, buckets, group, stored, linked, tab, hashing, pending, call, members>>
-----------------------------------------------------------------------------
idle == call.op = "none"

indices    == 0..(MaxCount - 1)
bucket(t, i) == buckets[tab[t].array][i]
used(t)    == 0..(tab[t].count - 1)
free(n)    == n \notin linked
taken(tb)  == {tb[t].array : t \in Tables}

\* Elements of one key are alike: it is enough to insert any free one.
spare(key) == {n \in Nodes : free(n) /\ Key[n] = key}
any(key)   == CHOOSE n \in spare(key) : TRUE

\* An incremental table has a power of two of buckets: two divides all its divisors.
power_of_two(c) == c > 1 /\ \A d \in 2..c : c % d = 0 => d % 2 = 0
bucket_counts   == {c \in Counts : kind.incremental => power_of_two(c)}

\* The arrays a table may be given: its own or one that no table has.
arrays(t) == {tab[t].array} \cup
             (IF Arrays = taken(tab) THEN {} ELSE {CHOOSE a \in Arrays \ taken(tab) : TRUE})

\* The user may overwrite the buckets that no table uses.
given_up(bs, tb) ==
  [a \in Arrays |-> [i \in indices |->
     IF \E t \in Tables : tb[t].array = a /\ i < tb[t].count THEN bs[a][i] ELSE <<Junk>>]]

\* A disposed element may be gone, with its links and its hash.
gone(f, ns) == [n \in Nodes |-> IF n \in ns THEN Junk ELSE f[n]]
-----------------------------------------------------------------------------
(* Hashes, sizes and the cached first bucket.                              *)

priv_stored_or_compute_hash(n) == IF kind.store THEN stored[n] ELSE hashing[Key[n]]
priv_hash_to_nbucket(t, h) ==
  hash_to_bucket_split(h, tab[t].count, tab[t].split, kind.incremental)

initial_split(count) == IF kind.incremental THEN count \div 2 ELSE count

priv_size_count(T, n) == IF kind.counted THEN [T EXCEPT !.size = n] ELSE T

\* Without cache_begin the first bucket counts as the cached one.
set_cache(T, i)    == IF kind.cache THEN [T EXCEPT !.cache = i] ELSE T
priv_init_cache(T) == set_cache(T, T.count)
priv_insertion_update_cache(T, i) == IF i < T.cache THEN set_cache(T, i) ELSE T

\* The first bucket of T that is not empty, from i on.
first_used(bs, T, i) ==
  CHOOSE j \in i..T.count : /\ j < T.count => bs[T.array][j] # <<>>
                            /\ \A k \in i..(j - 1) : bs[T.array][k] = <<>>

\* Mutant: the cached bucket is followed by the next one, empty or not.
priv_erasure_update_cache_by_one(bs, T) ==
  IF T.cache < T.count /\ bs[T.array][T.cache] = <<>> THEN set_cache(T, T.cache + 1) ELSE T

priv_erasure_update_cache(bs, T) == set_cache(T, first_used(bs, T, T.cache))
-----------------------------------------------------------------------------
(* Iteration and searches.                                                 *)

\* The elements of t from begin() on; a cached bucket without elements has a
\* bucket for its first element.
elements(t) ==
  LET T == tab[t]
      first == IF kind.cache THEN T.cache ELSE first_used(buckets, T, 0)
      from[i \in 0..T.count] == IF i = T.count THEN <<>> ELSE bucket(t, i) \o from[i + 1]
  IN  IF first < T.count /\ bucket(t, first) = <<>> THEN <<Junk>> ELSE from[first]

\* Mutant: an element is equal to a key of the same hash.
priv_is_value_equal_by_hash(n, key, h) == priv_stored_or_compute_hash(n) = h

priv_is_value_equal_to_key(n, key, h) ==
  (kind.store => stored[n] = h) /\ Key[n] = key

last_in_group(n) == IF kind.multi THEN group[n] ELSE n

\* The positions of b that priv_find looks at, if it finds nothing.
visits(b) ==
  LET at[i \in 0..Len(b)] ==
        IF i = 0 THEN 1
        ELSE IF at[i - 1] > Len(b) THEN at[i - 1]
        ELSE Place(b, last_in_group(b[at[i - 1]])) + 1
  IN  {at[i] : i \in 0..Len(b)}

\* The position of the first element with the key, or 0.
priv_find(b, key, h) ==
  LET found == {i \in visits(b) : i <= Len(b) /\ priv_is_value_equal_to_key(b[i], key, h)}
  IN  IF found = {} THEN 0 ELSE CHOOSE i \in found : \A j \in found : i <= j

\* The position behind the elements with the key that stands at p.
past_equal(b, p, key, h) ==
  IF kind.multi THEN Place(b, last_in_group(b[p])) + 1
  ELSE CHOOSE j \in (p + 1)..(Len(b) + 1) :
         /\ j <= Len(b) => ~priv_is_value_equal_to_key(b[j], key, h)
         /\ \A k \in (p + 1)..(j - 1) : priv_is_value_equal_to_key(b[k], key, h)

home(t, key) == priv_hash_to_nbucket(t, hashing[key])

count(t, key) ==
  LET b == bucket(t, home(t, key))
      p == priv_find(b, key, hashing[key])
  IN  IF p = 0 THEN 0 ELSE past_equal(b, p, key, hashing[key]) - p

\* priv_equal_range: where the range begins and ends, in bucket i or at the
\* beginning of a later one.
priv_equal_range(t, key) ==
  LET i    == home(t, key)
      b    == bucket(t, i)
      p    == priv_find(b, key, hashing[key])
      past == past_equal(b, p, key, hashing[key])
      j    == first_used(buckets, tab[t], i + 1)
  IN  IF p = 0 THEN <<End, End>>
      ELSE IF past <= Len(b) THEN <<b[p], b[past]>>
      ELSE <<b[p], IF j = tab[t].count THEN End ELSE bucket(t, j)[1]>>

empty(t) == CASE kind.counted -> tab[t].size = 0
              [] ~kind.counted /\ kind.cache -> elements(t) = <<>>
              [] OTHER -> \A i \in used(t) : bucket(t, i) = <<>>
-----------------------------------------------------------------------------
None == [op |-> "none"]

Init ==
  /\ kind \in Kinds
  /\ \E c \in bucket_counts, place \in [Tables -> Arrays] :
       /\ \A t, u \in Tables : place[t] = place[u] => t = u
       /\ place = CHOOSE f \in [Tables -> Arrays] :
                    \A t, u \in Tables : f[t] = f[u] => t = u
       /\ tab = [t \in Tables |-> [array |-> place[t], count |-> c, split |-> initial_split(c),
                                   size |-> 0, cache |-> IF kind.cache THEN c ELSE 0]]
       /\ buckets = [a \in Arrays |-> [i \in indices |->
                       IF a \in taken(tab) /\ i < c THEN <<>> ELSE <<Junk>>]]
  /\ group = [n \in Nodes |-> Junk]
  /\ stored = [n \in Nodes |-> Junk]
  /\ linked = {}
  /\ hashing \in Hashings
  /\ pending = None
  /\ call = None
  /\ members = [t \in Tables |-> {}]

(* Insertion.                                                              *)

\* Element n becomes the one at position p of bucket i, in the group of first.
link(t, i, p, n, first, h) ==
  /\ buckets' = [buckets EXCEPT ![tab[t].array][i] = PutIn(@, p, n)]
  /\ group' = IF kind.multi THEN insert_in_group(group, first, n) ELSE group
  /\ stored' = IF kind.store THEN [stored EXCEPT ![n] = h] ELSE stored
  /\ linked' = linked \cup {n}
  /\ tab' = [tab EXCEPT ![t] =
               priv_insertion_update_cache(priv_size_count(@, @.size + 1), i)]
  /\ members' = [members EXCEPT ![t] = @ \cup {n}]
  /\ UNCHANGED <<kind, hashing>>

insert_equal(t, n) ==
  LET h == hashing[Key[n]]
      i == priv_hash_to_nbucket(t, h)
      p == priv_find(bucket(t, i), Key[n], h)
  IN  /\ ~kind.unique
      /\ IF p = 0 THEN link(t, i, 1, n, n, h) ELSE link(t, i, p, n, bucket(t, i)[p], h)
      /\ pending' = None
      /\ UNCHANGED call

\* insert_unique is the check and the fast commit in one call.
insert_unique(t, n) ==
  LET h == hashing[Key[n]]
      i == priv_hash_to_nbucket(t, h)
  IN  /\ kind.unique
      /\ priv_find(bucket(t, i), Key[n], h) = 0
      /\ link(t, i, 1, n, n, h)
      /\ pending' = None
      /\ UNCHANGED call

\* rehashed: whether the table has been rehashed since.
insert_unique_check(t, key) ==
  LET h == hashing[key]
      i == priv_hash_to_nbucket(t, h)
  IN  /\ kind.unique
      /\ priv_find(bucket(t, i), key, h) = 0
      /\ pending' = [op |-> "commit", table |-> t, key |-> key, hash |-> h,
                     bucket_idx |-> i, rehashed |-> FALSE]
      /\ UNCHANGED <<kind, buckets, group, stored, linked, tab, hashing, call, members>>

\* Mutant: the commit trusts the bucket that the check has found.
insert_unique_commit_unhashed(n) ==
  /\ pending # None
  /\ n \in spare(pending.key)
  /\ link(pending.table, pending.bucket_idx % tab[pending.table].count, 1, n, n, pending.hash)
  /\ pending' = None
  /\ UNCHANGED call

insert_unique_commit(n) ==
  /\ pending # None
  /\ n \in spare(pending.key)
  /\ link(pending.table, priv_hash_to_nbucket(pending.table, pending.hash), 1, n, n,
          pending.hash)
  /\ pending' = None
  /\ UNCHANGED call

insert_unique_fast_commit(n) ==
  /\ pending # None /\ ~pending.rehashed
  /\ n \in spare(pending.key)
  /\ link(pending.table, pending.bucket_idx, 1, n, n, pending.hash)
  /\ pending' = None
  /\ UNCHANGED call
-----------------------------------------------------------------------------
(* Erasure.                                                                *)

\* What the disposer and the links of the group leave of the elements ns.
disposed(ns, g) ==
  /\ linked' = linked \ ns
  /\ group' = gone(g, ns)
  /\ stored' = gone(stored, ns)
  /\ pending' = None
  /\ members' = [t \in Tables |-> members[t] \ ns]
  /\ UNCHANGED <<kind, hashing>>

\* The element at position p of bucket i.
erase(t, i, p) ==
  LET b == bucket(t, i)
      T == priv_size_count(tab[t], tab[t].size - 1)
  IN  /\ buckets' = [buckets EXCEPT ![tab[t].array][i] = Cut(@, p, p + 1)]
      /\ disposed({b[p]}, IF kind.multi THEN groups_after_node(b, group, b[p]) ELSE group)
      /\ tab' = [tab EXCEPT ![t] =
                   IF T.cache = i /\ Len(b) = 1 THEN priv_erasure_update_cache(buckets', T)
                   ELSE T]
      /\ UNCHANGED call

\* Whether positions p to q - 1 of b are the middle of a group, after which
\* priv_erase_from_single_bucket leaves the first element of the group with
\* a link to an element it has erased (MCHashTable).
inside_a_group(b, p, q) ==
  /\ p < q /\ kind.multi
  /\ ~is_first_in_group(b, group, b[p])
  /\ q <= Len(b) /\ Key[b[q]] = Key[b[p]]

groups_after(b, g, p, q) ==
  IF kind.multi /\ p < q THEN groups_after_range(b, g, p, q) ELSE g

\* From position p of bucket i up to position q of bucket j.
erase_range(t, i, p, j, q) ==
  LET last(k)  == IF k = j THEN q ELSE Len(bucket(t, k)) + 1
      first(k) == IF k = i THEN p ELSE 1
      ns == UNION {{bucket(t, k)[x] : x \in first(k)..(last(k) - 1)} : k \in i..j}
      g  == groups_after(bucket(t, i), group, p, last(i))
      T  == priv_size_count(tab[t], tab[t].size - Cardinality(ns))
  IN  /\ buckets' = [buckets EXCEPT ![tab[t].array] =
                       [k \in indices |-> IF k \in i..j THEN Cut(@[k], first(k), last(k))
                                          ELSE @[k]]]
      /\ disposed(ns, IF i = j THEN g ELSE groups_after(bucket(t, j), g, 1, q))
      /\ tab' = [tab EXCEPT ![t] =
                   IF T.cache = i /\ buckets'[T.array][i] = <<>>
                   THEN priv_erasure_update_cache(buckets', set_cache(T, j)) ELSE T]
      /\ UNCHANGED call

erase_key(t, key) ==
  LET h == hashing[key]
      i == priv_hash_to_nbucket(t, h)
      b == bucket(t, i)
      p == priv_find(b, key, h)
      q == past_equal(b, p, key, h)
      T == priv_size_count(tab[t], tab[t].size - (q - p))
  IN  /\ p # 0
      /\ buckets' = [buckets EXCEPT ![tab[t].array][i] = Cut(@, p, q)]
      /\ disposed({b[x] : x \in p..(q - 1)}, groups_after(b, group, p, q))
      /\ tab' = [tab EXCEPT ![t] = priv_erasure_update_cache(buckets', T)]
      /\ UNCHANGED call

\* priv_clear_buckets_and_cache: from the cached bucket on.
cleared(bs, T)    == [bs EXCEPT ![T.array] =
                        [i \in indices |-> IF i \in T.cache..(T.count - 1) THEN <<>> ELSE @[i]]]
from_cached(T)    == UNION {{buckets[T.array][i][x] : x \in DOMAIN buckets[T.array][i]} :
                            i \in T.cache..(T.count - 1)}
clear(t) ==
  /\ buckets' = cleared(buckets, tab[t])
  /\ disposed(from_cached(tab[t]), group)
  /\ tab' = [tab EXCEPT ![t] = priv_size_count(priv_init_cache(@), 0)]
  /\ UNCHANGED call

\* An auto_unlink element leaves its bucket and its group.
hook_unlink(n) ==
  /\ kind.auto /\ n \in linked
  /\ buckets' = [a \in Arrays |-> [i \in indices |-> Without(buckets[a][i], n)]]
  /\ disposed({n}, IF kind.multi
                   THEN unlink_from_group_after(group, CHOOSE m \in Nodes : group[m] = n)
                   ELSE group)
  /\ UNCHANGED <<tab, call>>
-----------------------------------------------------------------------------
swap(t, u) ==
  /\ tab' = [tab EXCEPT ![t] = tab[u], ![u] = tab[t]]
  /\ members' = [members EXCEPT ![t] = members[u], ![u] = members[t]]
  /\ pending' = None
  /\ UNCHANGED <<kind, buckets, group, stored, linked, hashing, call>>

init_buckets(bs, a, from, to) ==
  [bs EXCEPT ![a] = [i \in indices |-> IF i \in from..(to - 1) THEN <<>> ELSE @[i]]]

\* The destructor, and a new table in its place.
construct(t, a, c) ==
  LET T == [array |-> a, count |-> c, split |-> initial_split(c), size |-> 0,
            cache |-> IF kind.cache THEN c ELSE 0]
  IN  /\ tab' = [tab EXCEPT ![t] = T]
      /\ buckets' = given_up(init_buckets(buckets, a, 0, c), tab')
      /\ disposed(from_cached(tab[t]), group)
      /\ UNCHANGED call

=============================================================================
