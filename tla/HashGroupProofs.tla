--------------------------- MODULE HashGroupProofs ---------------------------
(***************************************************************************)
(* Every step of the hash table leaves the groups of equal elements whole. *)
(***************************************************************************)
EXTENDS HashGrowProofs

\* The elements in the buckets are linked.
Lists(bs, L) == \A a \in Arrays, i \in indices, n \in Nodes : n \in Elems(bs[a][i]) => n \in L

\* Tables at rest hold no other elements.
LEMMA RestLists ==
  ASSUME kind \in Kinds, NEW bs, NEW tb, NEW ms, NEW st, NEW hs, NEW lk,
         Rest(bs, tb, ms, st, hs, lk)
  PROVE  Lists(bs, lk)
<1> SUFFICES ASSUME NEW n \in Nodes, NEW b \in Arrays, NEW k \in indices, n \in Elems(bs[b][k])
             PROVE  n \in lk
  BY DEF Lists
<1>1. CASE \A t \in Tables : b # tb[t].array
  <2>1. Kept(bs, b, 0)
    BY <1>1 DEF Rest
  <2>2. bs \in Memories /\ 0 \in Nat /\ 0 <= MaxCount
    BY CountIs DEF Rest
  <2>3. k \in 0..(0 - 1)
    BY <2>1, <2>2, KeptIs
  <2>. QED
    BY <2>3
<1>2. ASSUME NEW t \in Tables, b = tb[t].array
      PROVE  n \in ms[t]
  BY <1>2 DEF Rest, Quiet, Holds
<1>. QED
  BY <1>1, <1>2 DEF Rest

\* And every linked element is in a bucket.
LEMMA RestFinds ==
  ASSUME kind \in Kinds, NEW bs, NEW tb, NEW ms, NEW st, NEW hs, NEW lk,
         Rest(bs, tb, ms, st, hs, lk), NEW n \in lk
  PROVE  n \in Nodes /\ \E a \in Arrays, i \in indices : n \in Elems(bs[a][i]) /\ bs[a][i] \in Seq(Nodes)
<1>1. PICK t \in Tables : n \in ms[t]
  BY DEF Rest
<1>2. bs \in Memories /\ tb[t] \in Recs /\ ms[t] \in SUBSET Nodes /\ Quiet(kind, bs, tb[t], ms[t], st, hs)
  BY DEF Rest
<1>3. \A m \in ms[t] : \E i \in 0..(tb[t].count - 1) : m \in Elems(bs[tb[t].array][i])
  BY <1>2, QuietIs, Zenon
<1>4. \A i \in 0..(tb[t].count - 1) : i \in indices /\ bs[tb[t].array][i] \in Seq(Nodes)
  BY <1>2, QuietIs, ZenonT(40)
<1>. QED
  BY <1>1, <1>2, <1>3, <1>4, RecIs

\* Links that are the same in a bucket leave its groups whole.
LEMMA FitsFrame ==
  ASSUME NEW K, NEW g, NEW h, NEW b, Fits(K, g, b),
         \A n \in Nodes : n \in Elems(b) => h[n] = g[n]
  PROVE  Fits(K, h, b)
<1> SUFFICES ASSUME b \in Seq(Nodes)
             PROVE  Grouped(K, h, b)
  BY DEF Fits
<1>1. Together(b) /\ (K.multi => Ringed(g, b))
  BY DEF Fits, Grouped
<1>2. ASSUME K.multi, NEW x \in DOMAIN b
      PROVE  RingIn(h, b, x)
  <2>1. b[x] \in Elems(b) /\ b[x] \in Nodes
    BY ElemsOfSeq DEF Elems
  <2>2. RingIn(g, b, x)
    BY <1>1, <1>2 DEF Ringed
  <2>. QED
    BY <2>1, <2>2, RingFrame
<1>. QED
  BY <1>1, <1>2 DEF Grouped, Ringed

\* Empty buckets, and buckets that nobody uses, have no groups.
LEMMA EmptyFits ==
  ASSUME NEW K, NEW g
  PROVE  Fits(K, g, <<>>) /\ Fits(K, g, <<Junk>>)
<1>1. <<Junk>> \notin Seq(Nodes)
  <2>1. ASSUME <<Junk>> \in Seq(Nodes)
        PROVE  FALSE
    <3>1. Elems(<<Junk>>) \subseteq Nodes /\ Elems(<<Junk>>) = {Junk}
      BY <2>1, ElemsOfSeq, SingleBucket, Zenon
    <3>. QED
      BY <3>1, ElementAssumption
  <2>. QED
    BY <2>1
<1>2. DOMAIN <<>> = {}
  OBVIOUS
<1>. QED
  BY <1>1, <1>2 DEF Fits, Grouped, Together, Ringed

\* Buckets of which each has whole groups or is as it was.
Changed(g, L, bs, as, h, M, cs, be) ==
  /\ WholeBut(kind, g, L, bs, as)
  /\ h \in [Nodes -> Memory]
  /\ kind.multi => \A n \in Nodes \ M : h[n] = Junk
  /\ \A a \in Arrays \ be, i \in indices :
       \/ Fits(kind, h, cs[a][i])
       \/ /\ a \notin as
          /\ cs[a][i] = bs[a][i]
          /\ kind.multi => \A n \in Nodes : n \in Elems(bs[a][i]) => h[n] = g[n]

\* A change of one bucket that leaves its groups whole leaves all whole.
LEMMA ChangedGroups ==
  ASSUME NEW g, NEW L, NEW bs, NEW as, NEW h, NEW M, NEW cs, NEW be,
         Changed(g, L, bs, as, h, M, cs, be)
  PROVE  WholeBut(kind, h, M, cs, be)
<1>1. ASSUME NEW a \in Arrays \ be, NEW i \in indices
      PROVE  Fits(kind, h, cs[a][i])
  <2>1. CASE Fits(kind, h, cs[a][i])
    BY <2>1
  <2>2. CASE ~Fits(kind, h, cs[a][i])
    <3>1. /\ a \notin as /\ cs[a][i] = bs[a][i]
          /\ kind.multi => \A n \in Nodes : n \in Elems(bs[a][i]) => h[n] = g[n]
      BY <2>2 DEF Changed
    <3>2. Fits(kind, g, cs[a][i])
      BY <3>1 DEF Changed, WholeBut
    <3>3. CASE kind.multi
      BY <3>1, <3>2, <3>3, FitsFrame
    <3>4. CASE ~kind.multi
      BY <3>2, <3>4 DEF Fits, Grouped
    <3>. QED
      BY <3>3, <3>4
  <2>. QED
    BY <2>1, <2>2
<1>. QED
  BY <1>1 DEF Changed, WholeBut

\* Elements leave the buckets, and the links h are left.
Removed(g, L, bs, h, ns, cs) ==
  /\ WholeBut(kind, g, L, bs, {})
  /\ Lists(cs, L \ ns)
  /\ h \in [Nodes -> Memory]
  /\ kind.multi => \A n \in Nodes \ L : h[n] = g[n]
  /\ \A a \in Arrays, i \in indices :
       \/ Fits(kind, h, cs[a][i])
       \/ /\ cs[a][i] = bs[a][i]
          /\ kind.multi => \A n \in Nodes : n \in Elems(bs[a][i]) => h[n] = g[n]

\* Taking elements out of the buckets leaves whole groups behind.
LEMMA RemovedGroups ==
  ASSUME NEW g, NEW L, NEW bs, NEW h, NEW ns, NEW cs, Removed(g, L, bs, h, ns, cs)
  PROVE  WholeBut(kind, gone(h, ns), L \ ns, cs, {})
<1> DEFINE f == gone(h, ns)
<1>1. f \in [Nodes -> Memory] /\ \A n \in Nodes : f[n] = IF n \in ns THEN Junk ELSE h[n]
  BY DEF gone, Removed, Memory
<1> HIDE DEF f
<1>2. kind.multi => \A n \in Nodes \ (L \ ns) : f[n] = Junk
  BY <1>1 DEF Removed, WholeBut
<1>3. ASSUME NEW a \in Arrays, NEW i \in indices
      PROVE  Fits(kind, f, cs[a][i])
  <2>1. \A n \in Nodes : n \in Elems(cs[a][i]) => f[n] = h[n]
    BY <1>1 DEF Removed, Lists
  <2>2. CASE Fits(kind, h, cs[a][i])
    BY <2>1, <2>2, FitsFrame
  <2>3. CASE ~Fits(kind, h, cs[a][i])
    <3>1. /\ cs[a][i] = bs[a][i]
          /\ kind.multi => \A n \in Nodes : n \in Elems(bs[a][i]) => h[n] = g[n]
      BY <2>3 DEF Removed
    <3>2. Fits(kind, g, cs[a][i])
      BY <3>1 DEF Removed, WholeBut
    <3>3. CASE kind.multi
      BY <2>1, <3>1, <3>2, <3>3, FitsFrame
    <3>4. CASE ~kind.multi
      BY <3>2, <3>4 DEF Fits, Grouped
    <3>. QED
      BY <3>3, <3>4
  <2>. QED
    BY <2>2, <2>3
<1>4. WholeBut(kind, f, L \ ns, cs, {})
  BY <1>1, <1>2, <1>3 DEF WholeBut
<1>. QED
  BY <1>4 DEF f

\* Between two calls whole groups are all that is needed.
LEMMA WholeIsGroups ==
  ASSUME kind' = kind, call' = None, pending' = None, WholeBut(kind, group', linked', buckets', {})
  PROVE  IGroups'
BY DEF IGroups, None
-----------------------------------------------------------------------------
(* Insertion.                                                              *)

\* An element that comes to the front of its equals leads the group.
Fronts(g, b, c, p, n, first) ==
  /\ PutOf(c, b, p, n) /\ Together(b) /\ InFront(b, p, n)
  /\ Distinct(b) /\ n \notin Elems(b) /\ g \in [Nodes -> Memory] /\ Ringed(g, b)
  /\ first = IF \E x \in DOMAIN b : Key[b[x]] = Key[n] THEN b[p] ELSE n

\* An element linked in front of its group, or as a new one, leaves groups linked.
LEMMA FrontRings ==
  ASSUME NEW g, NEW b, NEW c, NEW p, NEW n, NEW first, Fronts(g, b, c, p, n, first)
  PROVE  Ringed(insert_in_group(g, first, n), c)
BY RingPut DEF Fronts

\* An element that comes into a bucket of its own kind.
Enters(g, L, bs, n, b, p, first) ==
  /\ Apart(bs) /\ Lists(bs, L) /\ n \in Nodes /\ n \notin L
  /\ b \in Seq(Nodes) /\ Distinct(b) /\ Elems(b) \subseteq L
  /\ WholeBut(kind, g, L, bs, {})
  /\ InFront(b, p, n)
  /\ p \in Nat /\ 1 <= p /\ p <= Len(b) + 1
  /\ first = IF \E x \in DOMAIN b : Key[b[x]] = Key[n] THEN b[p] ELSE n

Entered(g, bs, n, a, i, b, p, first, h, cs) ==
  /\ a \in Arrays /\ i \in indices /\ b = bs[a][i]
  /\ h = IF kind.multi THEN insert_in_group(g, first, n) ELSE g
  /\ cs[a][i] = PutIn(b, p, n)
  /\ \A e \in Arrays, k \in indices : e # a \/ k # i => cs[e][k] = bs[e][k]

\* It comes into the group of the first of them.
LEMMA EnterGroups ==
  ASSUME NEW g, NEW L, NEW bs, NEW n, NEW a, NEW i, NEW b,
         NEW p, NEW first, Enters(g, L, bs, n, b, p, first),
         NEW h, NEW cs, Entered(g, bs, n, a, i, b, p, first, h, cs)
  PROVE  WholeBut(kind, h, L \cup {n}, cs, {})
<1>1. /\ Apart(bs) /\ Lists(bs, L) /\ n \in Nodes /\ n \notin L
      /\ b \in Seq(Nodes) /\ Distinct(b) /\ Elems(b) \subseteq L
      /\ WholeBut(kind, g, L, bs, {}) /\ InFront(b, p, n)
      /\ p \in Nat /\ 1 <= p /\ p <= Len(b) + 1
      /\ first = IF \E x \in DOMAIN b : Key[b[x]] = Key[n] THEN b[p] ELSE n
  BY DEF Enters
<1>0. /\ a \in Arrays /\ i \in indices /\ b = bs[a][i]
      /\ h = IF kind.multi THEN insert_in_group(g, first, n) ELSE g
      /\ cs[a][i] = PutIn(b, p, n)
      /\ \A e \in Arrays, k \in indices : e # a \/ k # i => cs[e][k] = bs[e][k]
  BY DEF Entered
<1> USE <1>0
<1>2. PICK c : c = PutIn(b, p, n)
  OBVIOUS
<1>3. PutOf(c, b, p, n)
  BY <1>1, <1>2, PutIsPut
<1>4. g \in [Nodes -> Memory] /\ Grouped(kind, g, b)
  BY <1>1 DEF WholeBut, Fits
<1>5. n \notin Elems(b)
  BY <1>1
<1>6. Together(c)
  BY <1>1, <1>3, <1>4, TogetherPut, Zenon DEF Grouped
<1>7. kind.multi => Ringed(h, c)
  <2>1. kind.multi => Ringed(insert_in_group(g, first, n), c)
    BY <1>1, <1>3, <1>4, <1>5, FrontRings, Zenon DEF Grouped, Fronts
  <2>. QED
    BY <2>1
<1>8. Fits(kind, h, cs[a][i])
  BY <1>2, <1>6, <1>7 DEF Fits, Grouped
<1>9. first = n \/ first \in Elems(b)
  <2>1. CASE \E x \in DOMAIN b : Key[b[x]] = Key[n]
    <3>1. p \in Starts(b)
      BY <1>1, <2>1 DEF InFront
    <3>. QED
      BY <1>1, <2>1, <3>1 DEF Starts, Elems
  <2>. QED
    BY <1>1, <2>1
<1>10. first \in Nodes
  BY <1>1, <1>9, ElemsOfSeq
<1>11. h \in [Nodes -> Memory] /\ \A m \in Nodes : m # n /\ m # first => h[m] = g[m]
  <2>1. g[first] \in Memory /\ n \in Memory
    BY <1>1, <1>4, <1>10 DEF Memory
  <2>. QED
    BY <1>1, <1>4, <1>10, <2>1 DEF insert_in_group
<1>12. kind.multi => \A m \in Nodes \ (L \cup {n}) : h[m] = Junk
  BY <1>1, <1>9, <1>11, ZenonT(40) DEF WholeBut
<1>13. ASSUME NEW e \in Arrays, NEW k \in indices, e # a \/ k # i
       PROVE  cs[e][k] = bs[e][k] /\ \A m \in Nodes : m \in Elems(bs[e][k]) => h[m] = g[m]
  <2>1. ASSUME NEW m \in Nodes, m \in Elems(bs[e][k])
        PROVE  m # n /\ m # first
    <3>1. m # n
      BY <1>1, <2>1 DEF Lists
    <3>2. ~(m \in Elems(b))
      BY <1>1, <1>13, <2>1 DEF Apart
    <3>. QED
      BY <1>9, <3>1, <3>2
  <2>. QED
    BY <1>11, <1>13, <2>1
<1>14. Changed(g, L, bs, {}, h, L \cup {n}, cs, {})
  <2>1. ASSUME NEW e \in Arrays \ {}, NEW k \in indices
        PROVE  \/ Fits(kind, h, cs[e][k])
               \/ /\ e \notin {}
                  /\ cs[e][k] = bs[e][k]
                  /\ kind.multi => \A m \in Nodes : m \in Elems(bs[e][k]) => h[m] = g[m]
    BY <1>8, <1>13, ZenonT(40)
  <2>. QED
    BY <1>1, <1>11, <1>12, <2>1 DEF Changed
<1>. QED
  BY <1>14, ChangedGroups

\* link() leaves the groups whole.
LEMMA LinkGroups ==
  ASSUME NEW t, NEW n, NEW i, NEW p, MayEnter(t, n, i, p),
         WholeBut(kind, group, linked, buckets, {}),
         NEW b, b = bucket(t, i), InFront(b, p, n),
         NEW first, first = IF \E x \in DOMAIN b : Key[b[x]] = Key[n] THEN b[p] ELSE n,
         NEW h, link(t, i, p, n, first, h)
  PROVE  WholeBut(kind, group', linked', buckets', {})
<1>1. /\ Resting /\ t \in Tables /\ n \in Nodes /\ n \notin linked
      /\ i = Home(kind, tab[t], hashing, n)
      /\ p \in Nat /\ 1 <= p /\ p <= Len(b) + 1
  BY DEF MayEnter, bucket
<1>2. /\ kind \in Kinds /\ buckets \in Memories /\ tab[t] \in Recs /\ Shaped(kind, tab[t])
      /\ hashing \in Hashings /\ members[t] \subseteq linked
      /\ Rest(buckets, tab, members, stored, hashing, linked)
  BY <1>1, RestingIs DEF Resting
<1>3. i \in indices /\ i \in 0..(tab[t].count - 1) /\ tab[t].array \in Arrays
  BY <1>1, <1>2, HomeIs, RecIs
<1>4. b \in Seq(Nodes) /\ Distinct(b) /\ Elems(b) \subseteq linked
  BY <1>1, <1>2, <1>3, RestingIs
<1>5. Enters(group, linked, buckets, n, b, p, first)
  BY <1>1, <1>2, <1>4, RestLists, RestIsApart, Zenon DEF Enters
<1>6. PICK a : a = tab[t].array
  OBVIOUS
<1>7. /\ buckets' = WithBucket(buckets, a, i, PutIn(b, p, n))
      /\ linked' = linked \cup {n}
      /\ group' = IF kind.multi THEN insert_in_group(group, first, n) ELSE group
  BY <1>6 DEF link, WithBucket, bucket
<1>8. /\ buckets'[a][i] = PutIn(b, p, n)
      /\ \A e \in Arrays, k \in indices : e # a \/ k # i => buckets'[e][k] = buckets[e][k]
  BY <1>2, <1>3, <1>6, <1>7, SMTT(15) DEF WithBucket, Memories
<1>9. a \in Arrays /\ b = buckets[a][i]
  BY <1>3, <1>6 DEF bucket
<1>10. PICK cs : cs = buckets'
  OBVIOUS
<1>11. PICK g2 : g2 = group'
  OBVIOUS
<1>12. WholeBut(kind, g2, linked \cup {n}, cs, {})
  <2>1. Entered(group, buckets, n, a, i, b, p, first, g2, cs)
    BY <1>3, <1>7, <1>8, <1>9, <1>10, <1>11 DEF Entered
  <2>. QED
    BY <1>5, <2>1, EnterGroups
<1>. QED
  BY <1>7, <1>10, <1>11, <1>12

\* What priv_find searches, and what it finds there.
Searches(b, key, h, p) ==
  /\ kind \in Kinds /\ b \in Seq(Nodes) /\ Distinct(b) /\ Grouped(kind, group, b)
  /\ \A x \in DOMAIN b : Key[b[x]] = key => (kind.store => stored[b[x]] = h)
  /\ p = priv_find(b, key, h)

\* priv_find finds the first element of the group of the key, if there is one.
LEMMA SearchFirst ==
  ASSUME NEW b, NEW key, NEW h, NEW p, Searches(b, key, h, p)
  PROVE  /\ p \in 0..Len(b)
         /\ p = 0 => \A x \in DOMAIN b : Key[b[x]] # key
         /\ p # 0 => p \in Starts(b) /\ Key[b[p]] = key
BY FindsFirst DEF Searches

\* insert_equal() leaves the groups whole: the search finds the first of a group.
LEMMA InsertEqualGroups ==
  ASSUME IBase, IGroups, idle, NEW t \in Tables, NEW n \in Nodes, free(n), insert_equal(t, n)
  PROVE  IGroups'
<1>1. PICK h : h = hashing[Key[n]]
  OBVIOUS
<1>2. PICK i : i = priv_hash_to_nbucket(t, h)
  OBVIOUS
<1>3. PICK b : b = bucket(t, i)
  OBVIOUS
<1>4. PICK p : p = priv_find(b, Key[n], h)
  OBVIOUS
<1>5. /\ Resting /\ call = None /\ kind \in Kinds /\ tab[t] \in Recs /\ Shaped(kind, tab[t])
      /\ hashing \in Hashings /\ tab[t].count \in Nat
  BY IdleIs, RestingIs, RecIs
<1>6. i = Home(kind, tab[t], hashing, n)
  BY <1>1, <1>2, HashIsHome
<1>7. i \in 0..(tab[t].count - 1)
  BY <1>5, <1>6, HomeIs
<1>8. b \in Seq(Nodes) /\ Distinct(b)
  BY <1>3, <1>5, <1>7, RestingIs
<1>9. /\ Grouped(kind, group, b)
      /\ \A x \in DOMAIN b : kind.store => stored[b[x]] = hashing[Key[b[x]]]
  BY <1>3, <1>7, GroupsRest
<1>10. /\ p \in 0..Len(b)
       /\ p = 0 => \A x \in DOMAIN b : Key[b[x]] # Key[n]
       /\ p # 0 => p \in Starts(b) /\ Key[b[p]] = Key[n]
  <2>1. \A x \in DOMAIN b : Key[b[x]] = Key[n] => (kind.store => stored[b[x]] = h)
    BY <1>1, <1>9
  <2>. QED
    BY <1>4, <1>5, <1>8, <1>9, <2>1, SearchFirst DEF Searches
<1>11. WholeBut(kind, group, linked, buckets, {})
  BY <1>5 DEF IGroups, None
<1>12. /\ IF p = 0 THEN link(t, i, 1, n, n, h) ELSE link(t, i, p, n, b[p], h)
       /\ pending' = None /\ call' = call
  BY <1>1, <1>2, <1>3, <1>4 DEF insert_equal
<1>13. kind' = kind
  BY <1>12 DEF link
<1>14. WholeBut(kind, group', linked', buckets', {})
  <2>1. CASE p = 0
    <3>1. InFront(b, 1, n) /\ ~(\E x \in DOMAIN b : Key[b[x]] = Key[n])
      BY <1>10, <2>1 DEF InFront
    <3>2. 1 \in Nat /\ 1 <= 1 /\ 1 <= Len(b) + 1
      BY <1>8
    <3>3. MayEnter(t, n, i, 1)
      BY <1>3, <1>5, <1>6, <3>2 DEF MayEnter, bucket, free
    <3>. QED
      BY <1>3, <1>11, <1>12, <2>1, <3>1, <3>3, LinkGroups
  <2>2. CASE p # 0
    <3>1. p \in DOMAIN b
      BY <1>8, <1>10, <2>2
    <3>2. InFront(b, p, n) /\ (\E x \in DOMAIN b : Key[b[x]] = Key[n])
      BY <1>10, <2>2, <3>1 DEF InFront
    <3>3. p \in Nat /\ 1 <= p /\ p <= Len(b) + 1
      BY <1>8, <1>10, <2>2
    <3>4. MayEnter(t, n, i, p)
      BY <1>3, <1>5, <1>6, <3>3 DEF MayEnter, bucket, free
    <3>. QED
      BY <1>3, <1>11, <1>12, <2>2, <3>2, <3>4, LinkGroups
  <2>. QED
    BY <2>1, <2>2
<1>. QED
  BY <1>5, <1>12, <1>13, <1>14, WholeIsGroups

\* An element comes alone into a bucket that has none like it.
LEMMA LinkAlone ==
  ASSUME NEW t \in Tables, NEW n \in Nodes, free(n), Resting, call = None,
         WholeBut(kind, group, linked, buckets, {}),
         NEW i, i = Home(kind, tab[t], hashing, n),
         \A x \in DOMAIN bucket(t, i) : Key[bucket(t, i)[x]] # Key[n],
         NEW h, link(t, i, 1, n, n, h), call' = call, pending' = None
  PROVE  IGroups'
<1>1. kind \in Kinds /\ tab[t] \in Recs /\ Shaped(kind, tab[t]) /\ hashing \in Hashings
  BY RestingIs
<1>2. i \in 0..(tab[t].count - 1)
  BY <1>1, HomeIs
<1>3. PICK b : b = bucket(t, i)
  OBVIOUS
<1>4. b \in Seq(Nodes)
  BY <1>2, <1>3, RestingIs
<1>5. 1 \in Nat /\ 1 <= 1 /\ 1 <= Len(b) + 1
  BY <1>4
<1>6. MayEnter(t, n, i, 1)
  BY <1>3, <1>5 DEF MayEnter, bucket, free
<1>7. InFront(b, 1, n) /\ ~(\E x \in DOMAIN b : Key[b[x]] = Key[n])
  BY <1>3 DEF InFront
<1>8. WholeBut(kind, group', linked', buckets', {})
  BY <1>3, <1>6, <1>7, LinkGroups
<1>9. kind' = kind
  BY DEF link
<1>. QED
  BY <1>8, <1>9, WholeIsGroups

\* What a search for a key that no element has finds.
LEMMA NotFound ==
  ASSUME IBase, IGroups, idle, NEW t \in Tables, NEW key \in Keys, NEW i,
         i = priv_hash_to_nbucket(t, hashing[key]),
         priv_find(bucket(t, i), key, hashing[key]) = 0
  PROVE  \A n \in members[t] : Key[n] # key
<1> SUFFICES ASSUME NEW n \in members[t], Key[n] = key
             PROVE  FALSE
  OBVIOUS
<1>1. PICK b : b = bucket(t, i)
  OBVIOUS
<1>2. PICK T : T = tab[t]
  OBVIOUS
<1>3. PICK M : M = members[t]
  OBVIOUS
<1>4. /\ Resting /\ kind \in Kinds /\ T \in Recs /\ M \in SUBSET Nodes /\ buckets \in Memories
      /\ Shaped(kind, T) /\ hashing \in Hashings
      /\ Quiet(kind, buckets, T, M, stored, hashing)
  BY <1>2, <1>3, IdleIs, RestingIs
<1>5. n \in Nodes /\ i = Home(kind, T, hashing, n) /\ n \in M
  BY <1>2, <1>3, <1>4, HashIsHome
<1>6. i \in 0..(T.count - 1)
  BY <1>4, <1>5, HomeIs
<1>7. n \in Elems(b)
  <2>2. PICK k \in indices : n \in Elems(buckets[T.array][k])
    BY <1>4, <1>5 DEF Quiet, Holds
  <2>3. AtHome(kind, buckets, T, hashing)
    BY <1>4 DEF Quiet
  <2>4. k = i
    BY <1>5, <2>2, <2>3 DEF AtHome
  <2>. QED
    BY <1>1, <1>2, <2>2, <2>4 DEF bucket
<1>8. /\ b \in Seq(Nodes) /\ Distinct(b) /\ Grouped(kind, group, b)
      /\ \A x \in DOMAIN b : kind.store => stored[b[x]] = hashing[Key[b[x]]]
  BY <1>1, <1>2, <1>4, <1>6, RestingIs, GroupsRest
<1>9. \A x \in DOMAIN b : Key[b[x]] # key
  <2>1. PICK h : h = hashing[key]
    OBVIOUS
  <2>2. \A x \in DOMAIN b : Key[b[x]] = key => (kind.store => stored[b[x]] = h)
    BY <1>8, <2>1
  <2>3. PICK p : p = priv_find(b, key, h)
    OBVIOUS
  <2>4. p = 0
    BY <1>1, <2>1, <2>3
  <2>. QED
    <3>1. Searches(b, key, h, p)
      BY <1>4, <1>8, <2>2, <2>3, <2>4 DEF Searches
    <3>. QED
      BY <2>4, <3>1, SearchFirst
<1>. QED
  BY <1>7, <1>9 DEF Elems

\* insert_unique() leaves the groups whole.
LEMMA InsertUniqueGroups ==
  ASSUME IBase, IGroups, idle, NEW t \in Tables, NEW n \in Nodes, free(n), insert_unique(t, n)
  PROVE  IGroups'
<1>1. PICK i : i = priv_hash_to_nbucket(t, hashing[Key[n]])
  OBVIOUS
<1>2. /\ link(t, i, 1, n, n, hashing[Key[n]]) /\ pending' = None /\ call' = call
      /\ priv_find(bucket(t, i), Key[n], hashing[Key[n]]) = 0
  BY <1>1 DEF insert_unique
<1>3. Key[n] \in Keys
  BY ElementAssumption
<1>4. \A m \in members[t] : Key[m] # Key[n]
  BY <1>1, <1>2, <1>3, NotFound
<1>5. /\ Resting /\ call = None /\ kind \in Kinds /\ tab[t] \in Recs /\ Shaped(kind, tab[t])
      /\ hashing \in Hashings
  BY IdleIs, RestingIs
<1>6. i = Home(kind, tab[t], hashing, n)
  BY <1>1, HashIsHome
<1>7. i \in 0..(tab[t].count - 1)
  BY <1>5, <1>6, HomeIs
<1>8. \A x \in DOMAIN bucket(t, i) : bucket(t, i)[x] \in members[t]
  BY <1>5, <1>7, RestingIs DEF Elems
<1>9. WholeBut(kind, group, linked, buckets, {})
  BY <1>5 DEF IGroups, None
<1>. QED
  BY <1>2, <1>4, <1>5, <1>6, <1>8, <1>9, LinkAlone

\* insert_unique_check() finds that no element has the key.
LEMMA InsertUniqueCheckGroups ==
  ASSUME IBase, IGroups, idle, NEW t \in Tables, NEW key \in Keys, insert_unique_check(t, key)
  PROVE  IGroups'
<1>1. /\ priv_find(bucket(t, priv_hash_to_nbucket(t, hashing[key])), key, hashing[key]) = 0
      /\ pending'.table = t /\ pending'.key = key
      /\ UNCHANGED <<kind, buckets, group, stored, linked, tab, hashing, call, members>>
  BY DEF insert_unique_check
<1>2. \A n \in members[t] : Key[n] # key
  BY <1>1, NotFound
<1>3. call = None
  BY IdleIs
<1>. QED
  BY <1>1, <1>2, <1>3 DEF IGroups, None

\* Both commits leave the groups whole: still no element has the key.
LEMMA CommitGroups ==
  ASSUME IBase, IGroups, idle, pending # None, NEW n \in Nodes,
         insert_unique_commit(n) \/ insert_unique_fast_commit(n)
  PROVE  IGroups'
<1>1. PICK t : t = pending.table
  OBVIOUS
<1>2. PICK i : i = priv_hash_to_nbucket(t, pending.hash)
  OBVIOUS
<1>3. Resting /\ call = None
  BY IdleIs
<1>4. /\ Committable(kind, tab, hashing, call, pending)
      /\ n \in spare(pending.key)
  BY IdleIs DEF insert_unique_commit, insert_unique_fast_commit
<1>5. /\ free(n) /\ Key[n] = pending.key /\ t \in Tables /\ pending.hash = hashing[Key[n]]
  BY <1>1, <1>4 DEF spare, Committable, Commits
<1>6. i = Home(kind, tab[t], hashing, n)
  BY <1>2, <1>5, HashIsHome
<1>7. ~pending.rehashed => pending.bucket_idx = i
  BY <1>1, <1>2, <1>3, <1>4 DEF Committable, priv_hash_to_nbucket, None
<1>8. link(t, i, 1, n, n, pending.hash) /\ pending' = None /\ call' = call
  BY <1>1, <1>2, <1>7 DEF insert_unique_commit, insert_unique_fast_commit
<1>9. \A m \in members[t] : Key[m] # Key[n]
  BY <1>1, <1>5 DEF IGroups
<1>10. kind \in Kinds /\ tab[t] \in Recs /\ Shaped(kind, tab[t]) /\ hashing \in Hashings
  BY <1>3, <1>5, RestingIs
<1>11. i \in 0..(tab[t].count - 1)
  BY <1>6, <1>10, HomeIs
<1>12. \A x \in DOMAIN bucket(t, i) : bucket(t, i)[x] \in members[t]
  BY <1>3, <1>5, <1>11, RestingIs DEF Elems
<1>13. WholeBut(kind, group, linked, buckets, {})
  BY <1>3 DEF IGroups, None
<1>. QED
  BY <1>3, <1>5, <1>6, <1>8, <1>9, <1>12, <1>13, LinkAlone

\* Every insertion leaves the groups whole.
LEMMA InsertNextGroups ==
  ASSUME IBase, IGroups, InsertNext \/ CommitNext
  PROVE  IGroups'
<1>1. \A key : spare(key) # {} => any(key) \in spare(key)
  BY DEF any
<1>2. \A key, n : n \in spare(key) => n \in Nodes /\ free(n)
  BY DEF spare
<1>3. CASE InsertNext
  <2>1. PICK t \in Tables, key \in Keys :
          /\ idle
          /\ \/ spare(key) # {} /\ (insert_equal(t, any(key)) \/ insert_unique(t, any(key)))
             \/ pending = None /\ insert_unique_check(t, key)
    BY <1>3 DEF InsertNext
  <2>. QED
    BY <1>1, <1>2, <2>1, InsertEqualGroups, InsertUniqueGroups, InsertUniqueCheckGroups
<1>4. CASE CommitNext
  <2>1. /\ idle /\ pending # None /\ any(pending.key) \in spare(pending.key)
        /\ insert_unique_commit(any(pending.key)) \/ insert_unique_fast_commit(any(pending.key))
    BY <1>1, <1>4 DEF CommitNext
  <2>. QED
    BY <1>2, <2>1, CommitGroups
<1>. QED
  BY <1>3, <1>4
-----------------------------------------------------------------------------
(* Erasure.                                                                *)

\* The link of an element leads to an element of the same bucket.
LEMMA RingStays ==
  ASSUME NEW b \in Seq(Nodes), Together(b), NEW g, Ringed(g, b), NEW x \in DOMAIN b
  PROVE  g[b[x]] \in Elems(b)
<1>1. RingIn(g, b, x) /\ DOMAIN b = 1..Len(b) /\ Len(b) \in Nat /\ x \in 1..Len(b)
  BY DEF Ringed
<1>2. CASE x \in Starts(b)
  <2>1. PICK y \in DOMAIN b : LastOf(b, x, y)
    BY LastExists
  <2>2. g[b[x]] = b[y]
    BY <1>1, <1>2, <2>1 DEF RingIn
  <2>. QED
    BY <2>2 DEF Elems
<1>3. CASE x \notin Starts(b)
  <2>1. g[b[x]] = b[x - 1]
    BY <1>1, <1>3 DEF RingIn
  <2>2. x > 1
    BY <1>1, <1>3 DEF Starts
  <2>3. x - 1 \in DOMAIN b
    BY <1>1, <2>2
  <2>. QED
    BY <2>1, <2>3 DEF Elems
<1>. QED
  BY <1>2, <1>3

\* Only elements of a bucket lead to its elements.
LEMMA LeadsHome ==
  ASSUME IBase, IGroups, idle, kind.multi, NEW a \in Arrays, NEW i \in indices, NEW m \in Nodes,
         group[m] \in Elems(buckets[a][i]), group[m] \in Nodes
  PROVE  m \in Elems(buckets[a][i])
<1>1. /\ kind \in Kinds /\ Rest(buckets, tab, members, stored, hashing, linked)
      /\ WholeBut(kind, group, linked, buckets, {})
  BY IdleIs DEF Resting, IGroups, None
<1>2. m \in linked
  BY <1>1, ElementAssumption DEF WholeBut
<1>3. PICK e \in Arrays, k \in indices : m \in Elems(buckets[e][k]) /\ buckets[e][k] \in Seq(Nodes)
  BY <1>1, <1>2, RestFinds
<1>4. PICK b : b = buckets[e][k]
  OBVIOUS
<1>5. Together(b) /\ Ringed(group, b)
  BY <1>1, <1>3, <1>4 DEF WholeBut, Fits, Grouped
<1>6. PICK x \in DOMAIN b : b[x] = m
  BY <1>3, <1>4 DEF Elems
<1>7. group[m] \in Elems(b)
  BY <1>3, <1>4, <1>5, <1>6, RingStays
<1>8. Apart(buckets)
  BY <1>1, RestIsApart
<1>9. e = a /\ k = i
  BY <1>4, <1>7, <1>8 DEF Apart
<1>. QED
  BY <1>3, <1>9

\* Buckets that change have whole groups, and nobody else's links change.
Touched(g, L, bs, h, cs) ==
  /\ h \in [Nodes -> Memory]
  /\ kind.multi => \A n \in Nodes \ L : h[n] = g[n]
  /\ \A a \in Arrays, i \in indices :
       \/ Fits(kind, h, cs[a][i])
       \/ /\ cs[a][i] = bs[a][i]
          /\ kind.multi => \A n \in Nodes : n \in Elems(bs[a][i]) => h[n] = g[n]

\* The elements in the buckets are linked while no rehash and no growth is in progress.
AllListed == IBase /\ call.op # "rehash" /\ call.op # "grow" => Lists(buckets, linked)

\* The elements in the buckets are linked unless a call is moving them.
LEMMA AreListed == AllListed
<1> SUFFICES ASSUME IBase, call.op # "rehash", call.op # "grow"
             PROVE  Lists(buckets, linked)
  BY DEF AllListed
<1>1. kind \in Kinds /\ Rest(buckets, tab, members, stored, hashing, linked)
  BY BaseRests DEF Resting
<1>. QED
  BY <1>1, RestLists

\* And so they are in the next state.
LEMMA StayListed == AllListed'
BY AreListed, PTL

\* Elements that a call disposes of leave whole groups.
LEMMA DisposedGroups ==
  ASSUME IBase, IGroups, idle, IBase', NEW ns, NEW h, disposed(ns, h), call' = call,
         Touched(group, linked, buckets, h, buckets')
  PROVE  IGroups'
<1>1. call = None /\ WholeBut(kind, group, linked, buckets, {})
  BY IdleIs DEF IGroups, None
<1>2. /\ kind' = kind /\ call' = None /\ pending' = None
      /\ linked' = linked \ ns /\ group' = gone(h, ns)
  BY <1>1 DEF disposed
<1>3. Lists(buckets', linked')
  BY <1>2, StayListed DEF AllListed, None
<1>4. PICK cs : cs = buckets'
  OBVIOUS
<1>5. Removed(group, linked, buckets, h, ns, cs)
  BY <1>1, <1>2, <1>3, <1>4 DEF Removed, Touched
<1>6. WholeBut(kind, gone(h, ns), linked \ ns, cs, {})
  BY <1>5, RemovedGroups
<1>. QED
  BY <1>2, <1>4, <1>6, WholeIsGroups

\* One bucket that changes, and only links in it.
Alters(g, L, bs, h, a, i, c, cs) ==
  /\ a \in Arrays /\ i \in indices
  /\ Apart(bs) /\ Lists(bs, L)
  /\ h \in [Nodes -> Memory]
  /\ \A n \in Nodes : n \notin Elems(bs[a][i]) => h[n] = g[n]
  /\ Fits(kind, h, c)
  /\ cs[a][i] = c
  /\ \A e \in Arrays, k \in indices : e # a \/ k # i => cs[e][k] = bs[e][k]

\* A bucket that loses elements, the rest of it left whole, keeps all groups whole.
LEMMA AltersTouches ==
  ASSUME NEW g, NEW L, NEW bs, NEW h, NEW a, NEW i, NEW c, NEW cs,
         Alters(g, L, bs, h, a, i, c, cs)
  PROVE  Touched(g, L, bs, h, cs)
<1>1. \A n \in Nodes \ L : h[n] = g[n]
  BY DEF Alters, Lists
<1>2. ASSUME NEW e \in Arrays, NEW k \in indices
      PROVE  \/ Fits(kind, h, cs[e][k])
             \/ /\ cs[e][k] = bs[e][k]
                /\ kind.multi => \A n \in Nodes : n \in Elems(bs[e][k]) => h[n] = g[n]
  <2>1. CASE e = a /\ k = i
    BY <2>1 DEF Alters
  <2>2. CASE e # a \/ k # i
    <3>1. \A n \in Nodes : n \in Elems(bs[e][k]) => n \notin Elems(bs[a][i])
      BY <2>2 DEF Alters, Apart
    <3>. QED
      BY <2>2, <3>1 DEF Alters
  <2>. QED
    BY <2>1, <2>2
<1>. QED
  BY <1>1, <1>2 DEF Touched, Alters

\* What is known of a bucket in use between two calls.
LEMMA InUse ==
  ASSUME IBase, IGroups, idle, NEW t \in Tables, NEW i \in 0..(tab[t].count - 1)
  PROVE  /\ tab[t].array \in Arrays /\ i \in indices
         /\ bucket(t, i) = buckets[tab[t].array][i]
         /\ bucket(t, i) \in Seq(Nodes) /\ Distinct(bucket(t, i)) /\ Together(bucket(t, i))
         /\ kind.multi => Ringed(group, bucket(t, i))
         /\ group \in [Nodes -> Memory]
         /\ Apart(buckets) /\ Lists(buckets, linked)
         /\ buckets \in Memories /\ call = None /\ kind \in Kinds
<1>1. Resting /\ call = None /\ kind \in Kinds
  BY IdleIs DEF Resting
<1>2. /\ tab[t] \in Recs /\ i \in indices /\ buckets \in Memories
      /\ bucket(t, i) \in Seq(Nodes) /\ Distinct(bucket(t, i))
  BY <1>1, RestingIs
<1>3. Grouped(kind, group, bucket(t, i))
  BY GroupsRest
<1>4. Apart(buckets)
  BY <1>1, RestIsApart DEF Resting
<1>5. Lists(buckets, linked)
  BY <1>1, RestLists DEF Resting
<1>6. group \in [Nodes -> Memory]
  BY DEF IGroups, WholeBut
<1>. QED
  BY <1>1, <1>2, <1>3, <1>4, <1>5, <1>6, RecIs DEF bucket, Grouped

\* A bucket of which a call cuts out positions.
LEMMA CutAlters ==
  ASSUME IBase, IGroups, idle, NEW t \in Tables, NEW i \in 0..(tab[t].count - 1),
         NEW b, b = bucket(t, i), NEW c, c \in Seq(Nodes), Together(c),
         NEW h, h \in [Nodes -> Memory], kind.multi => Ringed(h, c),
         \A n \in Nodes : n \notin Elems(b) => h[n] = group[n],
         buckets' = WithBucket(buckets, tab[t].array, i, c)
  PROVE  Touched(group, linked, buckets, h, buckets')
<1>1. PICK a : a = tab[t].array
  OBVIOUS
<1>2. PICK cs : cs = buckets'
  OBVIOUS
<1>3. /\ a \in Arrays /\ i \in indices /\ b = buckets[a][i]
      /\ Apart(buckets) /\ Lists(buckets, linked) /\ buckets \in Memories
  BY <1>1, InUse
<1>4. /\ cs[a][i] = c
      /\ \A e \in Arrays, k \in indices : e # a \/ k # i => cs[e][k] = buckets[e][k]
  BY <1>1, <1>2, <1>3 DEF WithBucket, Memories
<1>5. Fits(kind, h, c)
  BY DEF Fits, Grouped
<1>6. Alters(group, linked, buckets, h, a, i, c, cs)
  BY <1>3, <1>4, <1>5 DEF Alters
<1>. QED
  BY <1>2, <1>6, AltersTouches

\* erase() of one element leaves the groups whole.
LEMMA EraseGroups ==
  ASSUME IBase, IGroups, IBase', idle, NEW t \in Tables, NEW i \in used(t),
         NEW p \in DOMAIN bucket(t, i), erase(t, i, p)
  PROVE  IGroups'
<1>1. PICK b : b = bucket(t, i)
  OBVIOUS
<1>2. PICK c : c = Cut(b, p, p + 1)
  OBVIOUS
<1>3. PICK h : h = IF kind.multi THEN groups_after_node(b, group, b[p]) ELSE group
  OBVIOUS
<1>4. i \in 0..(tab[t].count - 1)
  BY DEF used
<1>5. /\ tab[t].array \in Arrays /\ i \in indices /\ b = buckets[tab[t].array][i]
      /\ b \in Seq(Nodes) /\ Distinct(b) /\ Together(b)
      /\ kind.multi => Ringed(group, b)
      /\ group \in [Nodes -> Memory]
  BY <1>1, <1>4, InUse
<1>6. buckets' = WithBucket(buckets, tab[t].array, i, c)
  BY <1>1, <1>2 DEF erase, bucket, WithBucket
<1>7. disposed({b[p]}, h) /\ call' = call
  BY <1>1, <1>3, Zenon DEF erase
<1>8. p \in 1..Len(b) /\ Len(b) \in Nat /\ p \in DOMAIN b /\ b[p] \in Nodes /\ b[p] \in Elems(b)
  BY <1>1, <1>5 DEF Elems
<1>9. CutOf(c, b, p, p + 1)
  BY <1>2, <1>5, <1>8, CutIsCut
<1>10. Together(c) /\ c \in Seq(Nodes)
  BY <1>5, <1>9, TogetherCut DEF CutOf
<1>11. /\ h \in [Nodes -> Memory]
       /\ kind.multi => Ringed(h, c)
       /\ \A n \in Nodes : n \notin Elems(b) => h[n] = group[n]
  <2>1. CASE kind.multi
    <3>1. \A m \in Nodes : group[m] = b[p] => m \in Elems(b)
      BY <1>5, <1>8, <2>1, LeadsHome, SMTT(15)
    <3>2. TakesOut(h, group, b, p)
      BY <1>3, <1>5, <1>8, <2>1, <3>1, NodeLeaves
    <3>. QED
      BY <1>5, <1>8, <1>9, <2>1, <3>2, NodeErases
  <2>2. CASE ~kind.multi
    BY <1>3, <1>5, <2>2
  <2>. QED
    BY <2>1, <2>2
<1>12. Touched(group, linked, buckets, h, buckets')
  BY <1>1, <1>4, <1>6, <1>10, <1>11, CutAlters
<1>. QED
  BY <1>7, <1>12, DisposedGroups

\* Where priv_find has found a key its range ends at past_equal.
EndsSearch(b, key, h, p, q) ==
  /\ kind \in Kinds /\ b \in Seq(Nodes) /\ Distinct(b) /\ Grouped(kind, group, b)
  /\ \A x \in DOMAIN b : Key[b[x]] = key => (kind.store => stored[b[x]] = h)
  /\ p \in Starts(b) /\ Key[b[p]] = key /\ q = past_equal(b, p, key, h)

\* From the first element of a group the search ends right after the last one.
LEMMA SearchEnd ==
  ASSUME NEW b, NEW key, NEW h, NEW p, NEW q, EndsSearch(b, key, h, p, q)
  PROVE  RangeOf(b, p, q, key)
BY FindsEnd DEF EndsSearch

\* Positions p to q - 1 are cut out of b, which does not cut into a group.
Ranges(g, b, c, p, q, h) ==
  /\ b \in Seq(Nodes) /\ Distinct(b) /\ Together(b) /\ (kind.multi => Ringed(g, b))
  /\ g \in [Nodes -> Memory]
  /\ p \in Nat /\ q \in Nat /\ 1 <= p /\ p <= q /\ q <= Len(b) + 1
  /\ c = Cut(b, p, q)
  /\ h = groups_after(b, g, p, q)
  /\ kind.multi /\ p < q => ~(p \notin Starts(b) /\ q \in DOMAIN b /\ Key[b[q]] = Key[b[p]])

\* erase of a range leaves whole groups, linked again around the gap.
LEMMA RangeLeaves ==
  ASSUME NEW g, NEW b, NEW c, NEW p, NEW q, NEW h, Ranges(g, b, c, p, q, h)
  PROVE  /\ c \in Seq(Nodes) /\ Together(c)
         /\ h \in [Nodes -> Memory]
         /\ kind.multi => Ringed(h, c)
         /\ \A n \in Nodes : n \notin Elems(b) => h[n] = g[n]
<1>1. /\ b \in Seq(Nodes) /\ Distinct(b) /\ Together(b) /\ (kind.multi => Ringed(g, b))
      /\ g \in [Nodes -> Memory]
      /\ p \in Nat /\ q \in Nat /\ 1 <= p /\ p <= q /\ q <= Len(b) + 1
  BY DEF Ranges
<1>2. CutOf(c, b, p, q)
  BY <1>1, CutIsCut DEF Ranges
<1>3. c \in Seq(Nodes) /\ Together(c)
  BY <1>1, <1>2, TogetherCut DEF CutOf
<1>4. CASE kind.multi /\ p < q
  <2>1. h = groups_after_range(b, g, p, q)
    BY <1>4 DEF Ranges, groups_after
  <2>2. ~(p \notin Starts(b) /\ q \in DOMAIN b /\ Key[b[q]] = Key[b[p]])
    BY <1>4 DEF Ranges
  <2>3. /\ Ringed(h, c)
        /\ h \in [Nodes -> Memory]
        /\ \A n \in Nodes : n \notin Elems(b) => h[n] = g[n]
    BY <1>1, <1>2, <1>4, <2>1, <2>2, RangeErases
  <2>. QED
    BY <1>3, <2>3
<1>5. CASE ~(kind.multi /\ p < q)
  <2>1. h = g
    BY <1>5 DEF Ranges, groups_after
  <2>2. kind.multi => c = b
    <3> SUFFICES ASSUME kind.multi
                 PROVE  c = b
      OBVIOUS
    <3>1. p = q
      BY <1>1, <1>5
    <3>2. Len(c) = Len(b) /\ \A x \in 1..Len(b) : c[x] = b[x]
      BY <1>1, <1>2, <3>1 DEF CutOf
    <3>. QED
      BY <1>1, <1>3, <3>2, SeqEqual
  <2>. QED
    BY <1>1, <1>3, <2>1, <2>2
<1>. QED
  BY <1>4, <1>5

\* erase() of a key leaves the groups whole: it takes one of them.
LEMMA EraseKeyGroups ==
  ASSUME IBase, IGroups, IBase', idle, NEW t \in Tables, NEW key \in Keys, erase_key(t, key)
  PROVE  IGroups'
<1>1. PICK k : k = hashing[key]
  OBVIOUS
<1>2. PICK i : i = priv_hash_to_nbucket(t, k)
  OBVIOUS
<1>3. PICK b : b = bucket(t, i)
  OBVIOUS
<1>4. PICK p : p = priv_find(b, key, k)
  OBVIOUS
<1>5. PICK q : q = past_equal(b, p, key, k)
  OBVIOUS
<1>6. PICK c : c = Cut(b, p, q)
  OBVIOUS
<1>7. PICK h : h = groups_after(b, group, p, q)
  OBVIOUS
<1>8. /\ p # 0
      /\ buckets' = WithBucket(buckets, tab[t].array, i, c)
      /\ disposed({b[x] : x \in p..(q - 1)}, h) /\ call' = call
  BY <1>1, <1>2, <1>3, <1>4, <1>5, <1>6, <1>7, Zenon DEF erase_key, bucket, WithBucket
<1>9. i \in 0..(tab[t].count - 1)
  BY <1>1, <1>2, IdleIs, KeyHome
<1>10. /\ b \in Seq(Nodes) /\ Distinct(b) /\ Together(b) /\ (kind.multi => Ringed(group, b))
       /\ group \in [Nodes -> Memory] /\ kind \in Kinds
       /\ Grouped(kind, group, b)
  BY <1>3, <1>9, InUse DEF Grouped
<1>11. \A x \in DOMAIN b : Key[b[x]] = key => (kind.store => stored[b[x]] = k)
  BY <1>1, <1>3, <1>9, GroupsRest
<1>12. p \in Starts(b) /\ Key[b[p]] = key
  <2>1. Searches(b, key, k, p)
    BY <1>4, <1>10, <1>11 DEF Searches
  <2>. QED
    BY <1>8, <2>1, SearchFirst
<1>13. RangeOf(b, p, q, key)
  <2>1. EndsSearch(b, key, k, p, q)
    BY <1>5, <1>10, <1>11, <1>12 DEF EndsSearch
  <2>. QED
    BY <2>1, SearchEnd
<1>14. p \in Nat /\ q \in Nat /\ 1 <= p /\ p <= q /\ q <= Len(b) + 1
  BY <1>10, <1>13 DEF RangeOf
<1>15. Ranges(group, b, c, p, q, h)
  BY <1>6, <1>7, <1>10, <1>12, <1>14 DEF Ranges
<1>16. /\ c \in Seq(Nodes) /\ Together(c)
       /\ h \in [Nodes -> Memory]
       /\ kind.multi => Ringed(h, c)
       /\ \A n \in Nodes : n \notin Elems(b) => h[n] = group[n]
  BY <1>15, RangeLeaves
<1>17. Touched(group, linked, buckets, h, buckets')
  BY <1>3, <1>8, <1>9, <1>16, CutAlters
<1>. QED
  BY <1>8, <1>17, DisposedGroups

\* A range over several buckets: the end of the first one, all of those between
\* them, and the beginning of the last one.
Several(g, L, bs, a, i, p, j, q, b, d, f, h, cs) ==
  /\ Apart(bs) /\ Lists(bs, L)
  /\ a \in Arrays /\ i \in indices /\ j \in indices /\ i # j /\ b = bs[a][i] /\ d = bs[a][j]
  /\ Ranges(g, b, cs[a][i], p, Len(b) + 1, f)
  /\ d \in Seq(Nodes) /\ Distinct(d) /\ Together(d) /\ (kind.multi => Ringed(g, d))
  /\ q \in 1..(Len(d) + 1) /\ cs[a][j] = Cut(d, 1, q) /\ h = groups_after(d, f, 1, q)
  /\ \A e \in Arrays, k \in indices : e # a \/ (k # i /\ k # j) =>
       cs[e][k] = <<>> \/ cs[e][k] = bs[e][k]

\* erase over several buckets leaves whole groups in every bucket.
LEMMA SeveralTouch ==
  ASSUME NEW g, NEW L, NEW bs, NEW a, NEW i, NEW p, NEW j, NEW q, NEW b, NEW d, NEW f, NEW h,
         NEW cs, Several(g, L, bs, a, i, p, j, q, b, d, f, h, cs)
  PROVE  Touched(g, L, bs, h, cs)
<1>1. PICK c : c = cs[a][i]
  OBVIOUS
<1>2. PICK r : r = cs[a][j]
  OBVIOUS
<1>3. /\ Apart(bs) /\ Lists(bs, L)
      /\ a \in Arrays /\ i \in indices /\ j \in indices /\ i # j /\ b = bs[a][i] /\ d = bs[a][j]
      /\ Ranges(g, b, c, p, Len(b) + 1, f)
      /\ d \in Seq(Nodes) /\ Distinct(d) /\ Together(d) /\ (kind.multi => Ringed(g, d))
      /\ q \in 1..(Len(d) + 1) /\ r = Cut(d, 1, q) /\ h = groups_after(d, f, 1, q)
  BY <1>1, <1>2 DEF Several
<1>4. /\ c \in Seq(Nodes) /\ Together(c)
      /\ f \in [Nodes -> Memory]
      /\ kind.multi => Ringed(f, c)
      /\ \A n \in Nodes : n \notin Elems(b) => f[n] = g[n]
  BY <1>3, RangeLeaves
<1>5. \A n \in Nodes : ~(n \in Elems(b) /\ n \in Elems(d))
  BY <1>3 DEF Apart
<1>6. kind.multi => Ringed(f, d)
  <2>1. Fits(kind, g, d)
    BY <1>3 DEF Fits, Grouped
  <2>2. \A n \in Nodes : n \in Elems(d) => f[n] = g[n]
    BY <1>4, <1>5
  <2>3. Fits(kind, f, d)
    BY <2>1, <2>2, FitsFrame
  <2>. QED
    BY <1>3, <2>3 DEF Fits, Grouped
<1>7. Ranges(f, d, r, 1, q, h)
  <2>1. 1 \in Nat /\ q \in Nat /\ 1 <= 1 /\ 1 <= q /\ q <= Len(d) + 1
    BY <1>3
  <2>2. 1 < q => 1 \in Starts(d)
    BY <1>3, <2>1 DEF Starts
  <2>. QED
    BY <1>3, <1>4, <1>6, <2>1, <2>2 DEF Ranges
<1>8. /\ r \in Seq(Nodes) /\ Together(r)
      /\ h \in [Nodes -> Memory]
      /\ kind.multi => Ringed(h, r)
      /\ \A n \in Nodes : n \notin Elems(d) => h[n] = f[n]
  BY <1>7, RangeLeaves
<1>9. Fits(kind, h, c)
  <2>1. CutOf(c, b, p, Len(b) + 1)
    <3>1. PICK e : e = Len(b) + 1
      OBVIOUS
    <3>2. b \in Seq(Nodes) /\ p \in Nat /\ e \in Nat /\ 1 <= p /\ p <= e /\ e <= Len(b) + 1
          /\ c = Cut(b, p, e)
      BY <1>3, <3>1 DEF Ranges
    <3>. QED
      BY <3>1, <3>2, CutIsCut
  <2>2. \A n \in Nodes : n \in Elems(c) => n \in Elems(b)
    <3> SUFFICES ASSUME NEW x \in DOMAIN c
                 PROVE  c[x] \in Elems(b)
      BY DEF Elems
    <3>1. x \in 1..Len(c) /\ Len(c) \in Nat /\ Len(b) \in Nat
      BY <1>4, <2>1 DEF CutOf
    <3>2. c[x] = b[IF x < p THEN x ELSE x + (Len(b) + 1 - p)]
      BY <2>1, <3>1 DEF CutOf
    <3>3. (IF x < p THEN x ELSE x + (Len(b) + 1 - p)) \in 1..Len(b)
      BY <2>1, <3>1 DEF CutOf
    <3>4. b \in Seq(Nodes)
      BY <2>1 DEF CutOf
    <3>5. \A y \in 1..Len(b) : b[y] \in Elems(b)
      BY <3>4 DEF Elems
    <3>. QED
      BY <3>2, <3>3, <3>5
  <2>3. \A n \in Nodes : n \in Elems(c) => h[n] = f[n]
    BY <1>5, <1>8, <2>2
  <2>4. Fits(kind, f, c)
    BY <1>4 DEF Fits, Grouped
  <2>. QED
    BY <2>3, <2>4, FitsFrame
<1>10. Fits(kind, h, r)
  BY <1>8 DEF Fits, Grouped
<1>11. \A n \in Nodes : n \notin Elems(b) /\ n \notin Elems(d) => h[n] = g[n]
  BY <1>4, <1>8
<1>12. ASSUME NEW e \in Arrays, NEW k \in indices
       PROVE  \/ Fits(kind, h, cs[e][k])
              \/ /\ cs[e][k] = bs[e][k]
                 /\ kind.multi => \A n \in Nodes : n \in Elems(bs[e][k]) => h[n] = g[n]
  <2>1. CASE e = a /\ k = i
    BY <1>1, <1>9, <2>1
  <2>2. CASE e = a /\ k = j
    BY <1>2, <1>10, <2>2
  <2>3. CASE e # a \/ (k # i /\ k # j)
    <3>1. CASE cs[e][k] = <<>>
      BY <3>1, EmptyFits
    <3>2. CASE cs[e][k] = bs[e][k]
      <4>1. \A n \in Nodes : n \in Elems(bs[e][k]) => n \notin Elems(b) /\ n \notin Elems(d)
        BY <1>3, <2>3 DEF Apart
      <4>. QED
        BY <1>11, <3>2, <4>1
    <3>. QED
      BY <2>3, <3>1, <3>2 DEF Several
  <2>. QED
    BY <2>1, <2>2, <2>3
<1>13. \A n \in Nodes \ L : h[n] = g[n]
  BY <1>3, <1>11 DEF Lists
<1>. QED
  BY <1>8, <1>12, <1>13 DEF Touched

\* Which elements are the first of a group.
LEMMA FirstOfGroup ==
  ASSUME NEW b \in Seq(Nodes), Distinct(b), Together(b), NEW g, Ringed(g, b), NEW x \in DOMAIN b
  PROVE  is_first_in_group(b, g, b[x]) <=> x \in Starts(b)
<1>1. StartSet(b, Starts(b))
  BY DEF StartSet, Starts
<1>2. Ring(g, b, Starts(b))
  BY RingInIs DEF Ring, Ringed
<1>. QED
  BY <1>1, <1>2, FirstIs

\* All of a bucket cut out.
LEMMA CutAll ==
  ASSUME NEW b \in Seq(Nodes)
  PROVE  Cut(b, 1, Len(b) + 1) = <<>>
<1>1. PICK q : q = Len(b) + 1
  OBVIOUS
<1>2. Len(b) \in Nat /\ q \in Nat /\ 1 \in Nat /\ 1 <= 1 /\ 1 <= q /\ q <= Len(b) + 1
  BY <1>1
<1>3. CutOf(Cut(b, 1, q), b, 1, q)
  BY <1>2, CutIsCut
<1>4. PICK c : c = Cut(b, 1, q)
  OBVIOUS
<1>5. c \in Seq(Nodes) /\ Len(c) = 0
  BY <1>1, <1>2, <1>3, <1>4 DEF CutOf
<1>6. c = <<>>
  BY <1>5, ElemsOfSeq
<1>. QED
  BY <1>1, <1>4, <1>6

\* erase() of a range leaves the groups whole.
LEMMA EraseRangeGroups ==
  ASSUME IBase, IGroups, IBase', idle, NEW t \in Tables, NEW i \in used(t),
         NEW p \in DOMAIN bucket(t, i), NEW j \in i..(tab[t].count - 1),
         NEW q \in 1..(Len(bucket(t, j)) + 1), i = j => p < q,
         i = j => ~inside_a_group(bucket(t, i), p, q), erase_range(t, i, p, j, q)
  PROVE  IGroups'
<1>1. PICK a : a = tab[t].array
  OBVIOUS
<1>2. PICK b : b = bucket(t, i)
  OBVIOUS
<1>3. PICK d : d = bucket(t, j)
  OBVIOUS
<1>4. PICK l : l = IF i = j THEN q ELSE Len(b) + 1
  OBVIOUS
<1>5. PICK f : f = groups_after(b, group, p, l)
  OBVIOUS
<1>6. PICK h : h = IF i = j THEN f ELSE groups_after(d, f, 1, q)
  OBVIOUS
<1>7. PICK cs : cs = buckets'
  OBVIOUS
<1>8. PICK ns : ns = UNION {{bucket(t, k)[x] :
                 x \in (IF k = i THEN p ELSE 1)..((IF k = j THEN q ELSE Len(bucket(t, k)) + 1) - 1)}
                 : k \in i..j}
  OBVIOUS
<1>9. disposed(ns, h) /\ call' = call
  BY <1>2, <1>3, <1>4, <1>5, <1>6, <1>8, Zenon DEF erase_range
<1>10. buckets' = [buckets EXCEPT ![a] =
           [k \in indices |-> IF k \in i..j
                              THEN Cut(@[k], IF k = i THEN p ELSE 1,
                                       IF k = j THEN q ELSE Len(bucket(t, k)) + 1)
                              ELSE @[k]]]
  BY <1>1, Zenon DEF erase_range
<1>11. \A k \in 0..(tab[t].count - 1) :
         /\ a \in Arrays /\ k \in indices
         /\ bucket(t, k) = buckets[a][k]
         /\ bucket(t, k) \in Seq(Nodes) /\ Distinct(bucket(t, k)) /\ Together(bucket(t, k))
         /\ kind.multi => Ringed(group, bucket(t, k))
         /\ group \in [Nodes -> Memory]
         /\ Apart(buckets) /\ Lists(buckets, linked) /\ buckets \in Memories
  BY <1>1, InUse
<1>12. /\ i \in 0..(tab[t].count - 1) /\ j \in 0..(tab[t].count - 1) /\ i \in Nat /\ j \in Nat
       /\ i <= j /\ \A k \in i..j : k \in 0..(tab[t].count - 1)
  <2>1. tab[t].count \in Nat
    BY IdleIs, RestingIs, RecIs
  <2>. QED
    BY <2>1 DEF used
<1>13. /\ \A e \in Arrays, k \in indices : e # a \/ k \notin i..j => cs[e][k] = buckets[e][k]
       /\ \A k \in i..j : cs[a][k] = Cut(bucket(t, k), IF k = i THEN p ELSE 1,
                                         IF k = j THEN q ELSE Len(bucket(t, k)) + 1)
  <2>1. a \in Arrays /\ buckets \in Memories /\ \A k \in i..j : k \in indices /\ bucket(t, k) = buckets[a][k]
    BY <1>11, <1>12
  <2>. QED
    BY <1>7, <1>10, <2>1 DEF Memories
<1>14. /\ b \in Seq(Nodes) /\ Distinct(b) /\ Together(b) /\ (kind.multi => Ringed(group, b))
       /\ d \in Seq(Nodes) /\ Distinct(d) /\ Together(d) /\ (kind.multi => Ringed(group, d))
       /\ b = buckets[a][i] /\ d = buckets[a][j] /\ i \in indices /\ j \in indices
       /\ a \in Arrays /\ group \in [Nodes -> Memory]
       /\ Apart(buckets) /\ Lists(buckets, linked)
  BY <1>2, <1>3, <1>11, <1>12
<1>15. p \in 1..Len(b) /\ Len(b) \in Nat /\ Len(d) \in Nat /\ q \in 1..(Len(d) + 1)
  BY <1>2, <1>3, <1>14
<1>16. cs[a][i] = Cut(b, p, l)
  BY <1>2, <1>3, <1>4, <1>12, <1>13
<1>17. Ranges(group, b, cs[a][i], p, l, f)
  <2>1. p \in Nat /\ l \in Nat /\ 1 <= p /\ p <= l /\ l <= Len(b) + 1
    <3>1. CASE i = j
      BY <1>2, <1>3, <1>4, <1>15, <3>1
    <3>2. CASE i # j
      BY <1>4, <1>15, <3>2
    <3>. QED
      BY <3>1, <3>2
  <2>2. ASSUME kind.multi, p < l, p \notin Starts(b), l \in DOMAIN b, Key[b[l]] = Key[b[p]]
        PROVE  FALSE
    <3>1. i = j /\ l = q
      BY <1>4, <1>14, <1>15, <2>2
    <3>2. is_first_in_group(b, group, b[p]) <=> p \in Starts(b)
      BY <1>14, <1>15, <2>2, FirstOfGroup
    <3>3. q <= Len(b)
      BY <1>14, <2>2, <3>1
    <3>. QED
      BY <1>2, <2>2, <3>1, <3>2, <3>3 DEF inside_a_group
  <2>. QED
    BY <1>5, <1>14, <1>16, <2>1, <2>2 DEF Ranges
<1>18. Touched(group, linked, buckets, h, cs)
  <2>1. CASE i = j
    <3>1. /\ cs[a][i] \in Seq(Nodes) /\ Together(cs[a][i])
          /\ f \in [Nodes -> Memory]
          /\ kind.multi => Ringed(f, cs[a][i])
          /\ \A n \in Nodes : n \notin Elems(b) => f[n] = group[n]
      BY <1>17, RangeLeaves
    <3>2. PICK c : c = cs[a][i]
      OBVIOUS
    <3>3. \A k \in indices : k # i => k \notin i..j
      BY <1>12, <2>1
    <3>4. Alters(group, linked, buckets, f, a, i, c, cs)
      BY <1>13, <1>14, <3>1, <3>2, <3>3 DEF Alters, Fits, Grouped
    <3>. QED
      BY <1>6, <2>1, <3>4, AltersTouches
  <2>2. CASE i # j
    <3>1. l = Len(b) + 1 /\ h = groups_after(d, f, 1, q)
      BY <1>4, <1>6, <2>2
    <3>2. cs[a][j] = Cut(d, 1, q)
      BY <1>3, <1>12, <1>13, <2>2
    <3>3. ASSUME NEW e \in Arrays, NEW k \in indices, e # a \/ (k # i /\ k # j)
          PROVE  cs[e][k] = <<>> \/ cs[e][k] = buckets[e][k]
      <4>1. CASE e # a \/ k \notin i..j
        BY <1>13, <4>1
      <4>2. CASE e = a /\ k \in i..j
        <5>1. cs[a][k] = Cut(bucket(t, k), 1, Len(bucket(t, k)) + 1)
          BY <1>13, <3>3, <4>2
        <5>2. bucket(t, k) \in Seq(Nodes)
          BY <1>11, <1>12, <4>2
        <5>3. cs[a][k] = <<>>
          BY <5>1, <5>2, CutAll
        <5>. QED
          BY <4>2, <5>3
      <4>. QED
        BY <4>1, <4>2
    <3>4. Several(group, linked, buckets, a, i, p, j, q, b, d, f, h, cs)
      BY <1>14, <1>15, <1>17, <2>2, <3>1, <3>2, <3>3 DEF Several
    <3>. QED
      BY <3>4, SeveralTouch
  <2>. QED
    BY <2>1, <2>2
<1>. QED
  BY <1>7, <1>9, <1>18, DisposedGroups

\* Buckets that become empty, or are no longer in use.
Empties(bs, cs) ==
  \A a \in Arrays, i \in indices : cs[a][i] = <<>> \/ cs[a][i] = <<Junk>> \/ cs[a][i] = bs[a][i]

\* clear leaves no group at all.
LEMMA EmptiesTouch ==
  ASSUME NEW g \in [Nodes -> Memory], NEW L, NEW bs, NEW cs, Empties(bs, cs)
  PROVE  Touched(g, L, bs, g, cs)
<1>1. ASSUME NEW a \in Arrays, NEW i \in indices
      PROVE  \/ Fits(kind, g, cs[a][i])
             \/ /\ cs[a][i] = bs[a][i]
                /\ kind.multi => \A n \in Nodes : n \in Elems(bs[a][i]) => g[n] = g[n]
  <2>1. Fits(kind, g, <<>>) /\ Fits(kind, g, <<Junk>>)
    BY EmptyFits
  <2>2. cs[a][i] = <<>> \/ cs[a][i] = <<Junk>> \/ cs[a][i] = bs[a][i]
    BY DEF Empties
  <2>. QED
    BY <2>1, <2>2
<1>. QED
  BY <1>1 DEF Touched

\* What clear empties.
LEMMA ClearEmpties ==
  ASSUME NEW bs \in Memories, NEW T \in Recs
  PROVE  Empties(bs, cleared(bs, T))
<1>1. T.array \in Arrays
  BY RecIs
<1>2. PICK cs : cs = cleared(bs, T)
  OBVIOUS
<1>3. \A a \in Arrays, i \in indices : cs[a][i] = <<>> \/ cs[a][i] = bs[a][i]
  BY <1>1, <1>2 DEF cleared, Memories
<1>. QED
  BY <1>2, <1>3 DEF Empties

\* clear() leaves the groups whole.
LEMMA ClearGroups ==
  ASSUME IBase, IGroups, IBase', idle, NEW t \in Tables, clear(t)
  PROVE  IGroups'
<1>1. /\ disposed(from_cached(tab[t]), group) /\ call' = call
      /\ buckets' = cleared(buckets, tab[t])
  BY DEF clear
<1>2. buckets \in Memories /\ tab[t] \in Recs /\ group \in [Nodes -> Memory]
  BY IdleIs, RestingIs DEF IGroups, WholeBut
<1>3. Touched(group, linked, buckets, group, buckets')
  BY <1>1, <1>2, ClearEmpties, EmptiesTouch
<1>. QED
  BY <1>1, <1>3, DisposedGroups

\* unlink() of a hook leaves the groups whole.
LEMMA UnlinkGroups ==
  ASSUME IBase, IGroups, IBase', idle, NEW n \in Nodes, hook_unlink(n)
  PROVE  IGroups'
<1>. DEFINE p == CHOOSE m \in Nodes : group[m] = n
           h == IF kind.multi THEN unlink_from_group_after(group, p) ELSE group
<1>1. h = IF kind.multi THEN unlink_from_group_after(group, p) ELSE group
  OBVIOUS
<1>2. /\ n \in linked /\ disposed({n}, h) /\ call' = call
      /\ buckets' = [a \in Arrays |-> [i \in indices |-> Without(buckets[a][i], n)]]
  BY <1>1 DEF hook_unlink
<1> HIDE DEF h
<1>3. Resting
  BY IdleIs
<1>4. PICK t \in Tables : n \in members[t]
  BY <1>2, <1>3 DEF Resting, Rest
<1>5. PICK i \in 0..(tab[t].count - 1) : n \in Elems(bucket(t, i))
  <2>1. /\ kind \in Kinds /\ buckets \in Memories /\ tab[t] \in Recs /\ members[t] \in SUBSET Nodes
        /\ Quiet(kind, buckets, tab[t], members[t], stored, hashing)
    BY <1>3, RestingIs
  <2>2. \A m \in members[t] : \E i \in 0..(tab[t].count - 1) : m \in Elems(buckets[tab[t].array][i])
    BY <2>1, QuietIs, Zenon
  <2>. QED
    BY <1>4, <2>2 DEF bucket
<1>6. PICK b : b = bucket(t, i)
  OBVIOUS
<1>7. PICK a : a = tab[t].array
  OBVIOUS
<1>8. /\ a \in Arrays /\ i \in indices /\ b = buckets[a][i]
      /\ b \in Seq(Nodes) /\ Distinct(b) /\ Together(b)
      /\ kind.multi => Ringed(group, b)
      /\ group \in [Nodes -> Memory]
      /\ Apart(buckets) /\ Lists(buckets, linked)
  BY <1>6, <1>7, InUse
<1>9. PICK x : x = Place(b, n)
  OBVIOUS
<1>10. x \in 1..Len(b) /\ Len(b) \in Nat /\ x \in DOMAIN b /\ b[x] = n
  BY <1>5, <1>6, <1>8, <1>9, PlaceIs
<1>11. PICK c : c = Cut(b, x, x + 1)
  OBVIOUS
<1>12. PICK cs : cs = buckets'
  OBVIOUS
<1>13. cs[a][i] = c
  BY <1>2, <1>8, <1>9, <1>10, <1>11, <1>12 DEF Without
<1>14. ASSUME NEW e \in Arrays, NEW k \in indices, e # a \/ k # i
       PROVE  cs[e][k] = buckets[e][k]
  <2>1. n \notin Elems(buckets[e][k])
    BY <1>5, <1>6, <1>8, <1>14 DEF Apart
  <2>. QED
    BY <1>2, <1>12, <2>1 DEF Without, Elems
<1>15. CutOf(c, b, x, x + 1)
  BY <1>8, <1>10, <1>11, CutIsCut
<1>16. Together(c) /\ c \in Seq(Nodes)
  BY <1>8, <1>15, TogetherCut DEF CutOf
<1>17. /\ h \in [Nodes -> Memory]
       /\ kind.multi => Ringed(h, c)
       /\ \A m \in Nodes : m \notin Elems(b) => h[m] = group[m]
  <2>1. CASE kind.multi
    <3>1. \A m \in Nodes : group[m] = b[x] => m \in Elems(b)
      BY <1>5, <1>6, <1>8, <1>10, <2>1, LeadsHome
    <3>2. TakesOut(h, group, b, x)
      BY <1>1, <1>8, <1>10, <2>1, <3>1, UnlinkLeaves
    <3>. QED
      BY <1>8, <1>10, <1>15, <2>1, <3>2, NodeErases
  <2>2. CASE ~kind.multi
    BY <1>1, <1>8, <2>2
  <2>. QED
    BY <2>1, <2>2
<1>18. Alters(group, linked, buckets, h, a, i, c, cs)
  BY <1>8, <1>13, <1>14, <1>16, <1>17 DEF Alters, Fits, Grouped
<1>. QED
  BY <1>2, <1>12, <1>18, AltersTouches, DisposedGroups

\* Every erasure leaves the groups whole.
LEMMA EraseNextGroups ==
  ASSUME IBase, IGroups, IBase', EraseNext
  PROVE  IGroups'
<1>1. PICK t \in Tables :
        /\ idle
        /\ \/ clear(t)
           \/ \E key \in Keys : erase_key(t, key)
           \/ \E n \in Nodes : hook_unlink(n)
           \/ \E i \in used(t) : \E p \in DOMAIN bucket(t, i) :
                \/ erase(t, i, p)
                \/ \E j \in i..(tab[t].count - 1) : \E q \in 1..(Len(bucket(t, j)) + 1) :
                     /\ i = j => p < q /\ ~inside_a_group(bucket(t, i), p, q)
                     /\ erase_range(t, i, p, j, q)
  BY DEF EraseNext
<1>2. CASE clear(t)
  BY <1>1, <1>2, ClearGroups
<1>3. ASSUME NEW key \in Keys, erase_key(t, key)
      PROVE  IGroups'
  BY <1>1, <1>3, EraseKeyGroups
<1>4. ASSUME NEW n \in Nodes, hook_unlink(n)
      PROVE  IGroups'
  BY <1>1, <1>4, UnlinkGroups
<1>5. ASSUME NEW i \in used(t), NEW p \in DOMAIN bucket(t, i), erase(t, i, p)
      PROVE  IGroups'
  BY <1>1, <1>5, EraseGroups
<1>6. ASSUME NEW i \in used(t), NEW p \in DOMAIN bucket(t, i),
             NEW j \in i..(tab[t].count - 1), NEW q \in 1..(Len(bucket(t, j)) + 1),
             i = j => p < q /\ ~inside_a_group(bucket(t, i), p, q), erase_range(t, i, p, j, q)
      PROVE  IGroups'
  BY <1>1, <1>6, EraseRangeGroups
<1>. QED
  BY <1>1, <1>2, <1>3, <1>4, <1>5, <1>6
-----------------------------------------------------------------------------
(* Other buckets for a table, and other tables for the buckets.            *)

\* swap() changes no bucket and no link.
LEMMA SwapGroups ==
  ASSUME IBase, IGroups, idle, NEW t \in Tables, NEW u \in Tables, swap(t, u)
  PROVE  IGroups'
<1>1. call = None /\ WholeBut(kind, group, linked, buckets, {})
  BY IdleIs DEF IGroups, None
<1>2. UNCHANGED <<kind, buckets, group, linked, call>> /\ pending' = None
  BY DEF swap
<1>. QED
  BY <1>1, <1>2, WholeIsGroups

\* Buckets that nobody uses are overwritten.
LEMMA GivenUpEmpties ==
  ASSUME NEW bs, NEW bt \in Memories, NEW tb, NEW cs, cs = given_up(bt, tb), Empties(bs, bt)
  PROVE  Empties(bs, cs)
<1>1. \A a \in Arrays, i \in indices : cs[a][i] = bt[a][i] \/ cs[a][i] = <<Junk>>
  BY GivenUp
<1>. QED
  BY <1>1 DEF Empties

\* The destructor and the constructor leave the groups of the other tables whole.
LEMMA ConstructGroups ==
  ASSUME IBase, IGroups, IBase', idle, NEW t \in Tables, NEW a \in arrays(t), NEW c \in bucket_counts,
         construct(t, a, c)
  PROVE  IGroups'
<1>1. PICK bt : bt = init_buckets(buckets, a, 0, c)
  OBVIOUS
<1>2. /\ disposed(from_cached(tab[t]), group) /\ call' = call
      /\ buckets' = given_up(bt, tab')
  BY <1>1 DEF construct
<1>3. buckets \in Memories /\ group \in [Nodes -> Memory] /\ a \in Arrays
  BY IdleIs, RestingIs, ArraysAre DEF IGroups, WholeBut
<1>4. bt \in Memories /\ Empties(buckets, bt)
  <2>1. /\ bt \in Memories
        /\ \A e \in Arrays \ {a}, i \in indices : bt[e][i] = buckets[e][i]
        /\ \A i \in indices : bt[a][i] = IF i \in 0..(c - 1) THEN <<>> ELSE buckets[a][i]
    BY <1>1, <1>3, InitBuckets
  <2>. QED
    BY <2>1 DEF Empties
<1>5. Empties(buckets, buckets')
  BY <1>2, <1>4, GivenUpEmpties
<1>6. Touched(group, linked, buckets, group, buckets')
  BY <1>3, <1>5, EmptiesTouch
<1>. QED
  BY <1>2, <1>6, DisposedGroups

\* Exchanges leave the groups whole.
LEMMA ExchangeNextGroups ==
  ASSUME IBase, IGroups, IBase', ExchangeNext
  PROVE  IGroups'
<1>1. PICK t \in Tables :
        /\ idle
        /\ \/ \E u \in Tables : swap(t, u)
           \/ \E a \in arrays(t), c \in bucket_counts : construct(t, a, c)
  BY DEF ExchangeNext
<1>. QED
  BY <1>1, SwapGroups, ConstructGroups

\* What a rehash has left to do with an element depends on its key only.
LEMMA SplitByKey ==
  ASSUME NEW K, NEW T, NEW C, NEW hs, NEW bs, NEW a, NEW i, NEW n, NEW m, Key[m] = Key[n],
         Split(K, T, C, hs, bs, a, i, n)
  PROVE  Split(K, T, C, hs, bs, a, i, m)
BY DEF Split, Target

\* Element n leaves position p of bucket b, which has become u, for the front of bucket d,
\* which has become w.
OneLeaves(T, C, D, hs, bs, cs, M, b, d, u, w, n, j, p) ==
  /\ RehashTogether(kind, T, C, hs, bs, M)
  /\ b = bs[T.array][C.n] /\ d = bs[C.array][j] /\ u = cs[T.array][C.n] /\ w = cs[C.array][j]
  /\ Distinct(b) /\ Distinct(d)
  /\ CutOf(u, b, p, p + 1) /\ p = C.before_i + 1 /\ p \in DOMAIN b /\ n = b[p]
  /\ PutOf(w, d, 1, n)
  /\ T.array # C.array \/ C.n # j
  /\ C.n \in indices /\ j \in indices /\ C.n < T.count /\ ~C.fast /\ C.before_i \in Nat
  /\ j = Target(kind, C, hs, n)
  /\ D.array = C.array /\ D.count = C.count /\ D.n = C.n /\ D.before_i = C.before_i
  /\ D.fast = C.fast /\ D.full = C.full
  /\ \A e \in {T.array, C.array}, k \in indices :
       (e # T.array \/ k # C.n) /\ (e # C.array \/ k # j) => cs[e][k] = bs[e][k]
  /\ \A m \in Nodes, e \in {T.array, C.array}, k \in indices : m \in Elems(cs[e][k]) <=>
       IF m = n THEN e = C.array /\ k = j ELSE m \in Elems(bs[e][k])
  /\ \A x \in 1..(p - 1) : C.array = T.array /\ C.n = Target(kind, C, hs, b[x])
  /\ M \subseteq Nodes /\ n \in M /\ Elems(d) \subseteq M

\* One position is cut out.
LEMMA CutsOne ==
  ASSUME NEW c, NEW b, NEW p, CutOf(c, b, p, p + 1)
  PROVE  /\ b \in Seq(Nodes) /\ c \in Seq(Nodes) /\ p \in Nat /\ 1 <= p /\ p <= Len(b)
         /\ Len(c) = Len(b) - 1 /\ Len(b) \in Nat /\ Len(c) \in Nat
         /\ DOMAIN b = 1..Len(b) /\ DOMAIN c = 1..Len(c)
         /\ \A x \in 1..Len(c) : c[x] = IF x < p THEN b[x] ELSE b[x + 1]
<1>1. /\ b \in Seq(Nodes) /\ c \in Seq(Nodes) /\ p \in Nat /\ 1 <= p /\ p + 1 <= Len(b) + 1
      /\ Len(c) = Len(b) - ((p + 1) - p)
      /\ \A x \in 1..Len(c) : c[x] = IF x < p THEN b[x] ELSE b[x + ((p + 1) - p)]
  BY Zenon DEF CutOf
<1>2. (p + 1) - p = 1
  BY <1>1
<1>3. Len(c) = Len(b) - 1 /\ \A x \in 1..Len(c) : c[x] = IF x < p THEN b[x] ELSE b[x + 1]
  BY <1>1, <1>2, Zenon
<1>4. Len(b) \in Nat /\ Len(c) \in Nat /\ DOMAIN b = 1..Len(b) /\ DOMAIN c = 1..Len(c)
  BY <1>1, ElemsOfSeq
<1>5. p <= Len(b)
  BY <1>1, <1>4
<1>. QED
  BY <1>1, <1>3, <1>4, <1>5

\* Equal elements in two buckets are being moved from one to the other.
LEMMA OnTheWay ==
  ASSUME NEW K, NEW T, NEW C, NEW hs, NEW bs, NEW M, RehashTogether(K, T, C, hs, bs, M),
         NEW a \in {T.array, C.array}, NEW e \in {T.array, C.array},
         NEW i \in indices, NEW k \in indices, NEW x \in M, NEW y \in M,
         x \in Elems(bs[a][i]), y \in Elems(bs[e][k]), Key[y] = Key[x], a # e \/ i # k
  PROVE  \/ a = T.array /\ i = C.n /\ Split(K, T, C, hs, bs, e, k, x)
         \/ e = T.array /\ k = C.n /\ Split(K, T, C, hs, bs, a, i, x)
<1>1. Crosses(K, T, C, hs, bs, a, i, e, k, x)
  BY Zenon DEF RehashTogether
<1>. QED
  BY <1>1 DEF Crosses

\* Where the elements are after a move.
LEMMA WhereNow ==
  ASSUME NEW T, NEW C, NEW D, NEW hs, NEW bs, NEW cs, NEW M, NEW b, NEW d, NEW u, NEW w, NEW n,
         NEW j, NEW p, OneLeaves(T, C, D, hs, bs, cs, M, b, d, u, w, n, j, p),
         NEW m \in M, NEW e \in {T.array, C.array}, NEW k \in indices
  PROVE  m \in Elems(cs[e][k]) <=> IF m = n THEN e = C.array /\ k = j ELSE m \in Elems(bs[e][k])
<1>1. M \subseteq Nodes
      /\ \A l \in Nodes, f \in {T.array, C.array}, i \in indices : l \in Elems(cs[f][i]) <=>
            IF l = n THEN f = C.array /\ i = j ELSE l \in Elems(bs[f][i])
  BY Zenon DEF OneLeaves
<1>. QED
  BY <1>1, Zenon

\* It comes to the front of its equals.
LEMMA ComesFirst ==
  ASSUME NEW T, NEW C, NEW D, NEW hs, NEW bs, NEW cs, NEW M, NEW b, NEW d, NEW u, NEW w, NEW n,
         NEW j, NEW p, OneLeaves(T, C, D, hs, bs, cs, M, b, d, u, w, n, j, p)
  PROVE  InFront(d, 1, n)
<1>1. /\ RehashTogether(kind, T, C, hs, bs, M)
      /\ b = bs[T.array][C.n] /\ d = bs[C.array][j]
      /\ p \in DOMAIN b /\ n = b[p]
      /\ T.array # C.array \/ C.n # j
      /\ C.n \in indices /\ j \in indices
      /\ n \in M /\ Elems(d) \subseteq M
      /\ d \in Seq(Nodes)
  BY DEF OneLeaves, PutOf
<1>2. ASSUME NEW x \in DOMAIN d, Key[d[x]] = Key[n]
      PROVE  1 \in Starts(d) /\ Key[d[1]] = Key[n]
  <2>1. d[x] \in Elems(bs[C.array][j]) /\ d[x] \in M
    BY <1>1 DEF Elems
  <2>2. n \in Elems(bs[T.array][C.n])
    BY <1>1 DEF Elems
  <2>3. \/ Split(kind, T, C, hs, bs, C.array, j, n)
        \/ C.array = T.array /\ j = C.n
    BY <1>1, <1>2, <2>1, <2>2 DEF RehashTogether, Crosses
  <2>4. Key[d[1]] = Key[n]
    BY <1>1, <2>3 DEF Split
  <2>5. 1 \in DOMAIN d
    BY <1>1, SMTT(15)
  <2>. QED
    BY <2>4, <2>5 DEF Starts
<1>. QED
  BY <1>2 DEF InFront

\* The next element is one of those that have not come with it yet.
LEMMA RestIsNext ==
  ASSUME NEW T, NEW C, NEW D, NEW hs, NEW bs, NEW cs, NEW M, NEW b, NEW d, NEW u, NEW w, NEW n,
         NEW j, NEW p, OneLeaves(T, C, D, hs, bs, cs, M, b, d, u, w, n, j, p),
         NEW y \in DOMAIN u, Key[u[y]] = Key[n]
  PROVE  p <= Len(u) /\ Key[u[p]] = Key[n]
<1>1. /\ RehashTogether(kind, T, C, hs, bs, M)
      /\ b = bs[T.array][C.n] /\ C.n \in indices
      /\ CutOf(u, b, p, p + 1) /\ p \in DOMAIN b /\ n = b[p]
      /\ T.array # C.array \/ C.n # j
      /\ j = Target(kind, C, hs, n)
      /\ \A x \in 1..(p - 1) : C.array = T.array /\ C.n = Target(kind, C, hs, b[x])
  BY DEF OneLeaves
<1>2. /\ b \in Seq(Nodes) /\ u \in Seq(Nodes) /\ p \in Nat /\ 1 <= p /\ Len(u) = Len(b) - 1
      /\ \A x \in 1..Len(u) : u[x] = IF x < p THEN b[x] ELSE b[x + 1]
      /\ Len(b) \in Nat /\ DOMAIN b = 1..Len(b) /\ Len(u) \in Nat /\ DOMAIN u = 1..Len(u)
      /\ p <= Len(b) /\ y \in 1..Len(u) /\ y \in Nat
  <2>0. CutOf(u, b, p, p + 1)
    BY <1>1
  <2>1. /\ b \in Seq(Nodes) /\ u \in Seq(Nodes) /\ p \in Nat /\ 1 <= p /\ p <= Len(b)
        /\ Len(u) = Len(b) - 1 /\ Len(b) \in Nat /\ Len(u) \in Nat
        /\ DOMAIN b = 1..Len(b) /\ DOMAIN u = 1..Len(u)
        /\ \A x \in 1..Len(u) : u[x] = IF x < p THEN b[x] ELSE b[x + 1]
    BY <2>0, CutsOne, ZenonT(40)
  <2>2. y \in 1..Len(u) /\ y \in Nat
    BY <2>1
  <2>. QED
    BY <2>1, <2>2
<1>3. Together(b)
  BY <1>1, <1>2 DEF RehashTogether
<1>4. p <= y
  <2>1. ASSUME y < p
        PROVE  FALSE
    <3>1. y \in 1..(p - 1) /\ u[y] = b[y]
      BY <1>2, <2>1, SMTT(15)
    <3>2. C.array = T.array /\ C.n = Target(kind, C, hs, b[y])
      BY <1>1, <3>1
    <3>3. Target(kind, C, hs, b[y]) = j
      BY <1>1, <3>1 DEF Target
    <3>. QED
      BY <1>1, <3>2, <3>3
  <2>. QED
    BY <1>2, <2>1
<1>5. u[y] = b[y + 1] /\ u[p] = b[p + 1] /\ p <= Len(u)
  <2>1. ~(y < p) /\ ~(p < p) /\ p \in 1..Len(u)
    BY <1>2, <1>4
  <2>. QED
    BY <1>2, <2>1, SMTT(15)
<1>6. p + 1 \in DOMAIN b /\ y + 1 \in DOMAIN b /\ p <= p + 1 /\ p + 1 <= y + 1
  BY <1>2, <1>4
<1>7. Key[b[p + 1]] = Key[b[p]]
  <2>1. Key[b[p]] = Key[b[y + 1]]
    BY <1>1, <1>5
  <2>. QED
    BY <1>1, <1>3, <1>6, <2>1 DEF Together
<1>. QED
  BY <1>1, <1>5, <1>7

\* The first element of a bucket is the one that was put there.
LEMMA PutFirst ==
  ASSUME NEW c, NEW b, NEW n, PutOf(c, b, 1, n)
  PROVE  c[1] = n /\ Len(c) = Len(b) + 1
<1>1. Len(c) = Len(b) + 1 /\ b \in Seq(Nodes)
  BY DEF PutOf
<1>2. 1 \in 1..Len(c)
  BY <1>1
<1>3. \A x \in 1..Len(c) : c[x] = IF x < 1 THEN b[x] ELSE IF x = 1 THEN n ELSE b[x - 1]
  BY DEF PutOf
<1>4. c[1] = IF 1 < 1 THEN b[1] ELSE IF 1 = 1 THEN n ELSE b[1 - 1]
  BY <1>2, <1>3
<1>. QED
  BY <1>1, <1>4

\* So they are still being moved.
LEMMA SplitsStill ==
  ASSUME NEW T, NEW C, NEW D, NEW hs, NEW bs, NEW cs, NEW M, NEW b, NEW d, NEW u, NEW w, NEW n,
         NEW j, NEW p, OneLeaves(T, C, D, hs, bs, cs, M, b, d, u, w, n, j, p),
         NEW m \in Elems(u), Key[m] = Key[n]
  PROVE  Split(kind, T, D, hs, cs, C.array, j, m)
<1>1. PICK y \in DOMAIN u : u[y] = m
  BY DEF Elems
<1>2. p <= Len(u) /\ Key[u[p]] = Key[n]
  BY <1>1, RestIsNext
<1>3. /\ u = cs[T.array][C.n] /\ w = cs[C.array][j] /\ p = C.before_i + 1
      /\ D.array = C.array /\ D.count = C.count /\ D.n = C.n /\ D.before_i = C.before_i
      /\ D.fast = C.fast /\ ~C.fast /\ C.n < T.count
      /\ j = Target(kind, C, hs, n)
      /\ CutOf(u, b, p, p + 1) /\ PutOf(w, d, 1, n) /\ p \in DOMAIN b
  BY DEF OneLeaves
<1>4. w[1] = n
  BY <1>3, PutFirst
<1>5. D.before_i < Len(cs[T.array][D.n])
  <2>1. C.before_i \in Nat /\ u \in Seq(Nodes)
    BY DEF OneLeaves, CutOf
  <2>2. C.before_i < Len(u)
    BY <1>2, <1>3, <2>1
  <2>. QED
    BY <1>3, <2>2
<1>6. Key[cs[T.array][D.n][D.before_i + 1]] = Key[m]
  BY <1>2, <1>3
<1>7. j = Target(kind, D, hs, m)
  BY <1>3 DEF Target
<1>. QED
  BY <1>3, <1>4, <1>5, <1>6, <1>7 DEF Split

\* A move leaves equal elements side by side, or on their way from one bucket to the other.
LEMMA OneLeavesTogether ==
  ASSUME NEW T, NEW C, NEW D, NEW hs, NEW bs, NEW cs, NEW M, NEW b, NEW d, NEW u, NEW w, NEW n,
         NEW j, NEW p, OneLeaves(T, C, D, hs, bs, cs, M, b, d, u, w, n, j, p)
  PROVE  RehashTogether(kind, T, D, hs, cs, M)
<1> DEFINE as == {T.array, C.array}
<1>1. /\ RehashTogether(kind, T, C, hs, bs, M)
      /\ b = bs[T.array][C.n] /\ d = bs[C.array][j] /\ u = cs[T.array][C.n] /\ w = cs[C.array][j]
      /\ CutOf(u, b, p, p + 1) /\ p = C.before_i + 1 /\ p \in DOMAIN b /\ n = b[p]
      /\ PutOf(w, d, 1, n)
      /\ T.array # C.array \/ C.n # j
      /\ C.n \in indices /\ j \in indices
      /\ j = Target(kind, C, hs, n)
      /\ D.array = C.array /\ D.n = C.n
      /\ \A e \in as, k \in indices :
           (e # T.array \/ k # C.n) /\ (e # C.array \/ k # j) => cs[e][k] = bs[e][k]
      /\ \A m \in Nodes, e \in as, k \in indices : m \in Elems(cs[e][k]) <=>
           IF m = n THEN e = C.array /\ k = j ELSE m \in Elems(bs[e][k])
      /\ M \subseteq Nodes /\ n \in M
  BY DEF OneLeaves
<1>2. ASSUME NEW a \in as, NEW i \in indices, cs[a][i] \in Seq(Nodes)
      PROVE  Together(cs[a][i])
  <2>1. CASE a = T.array /\ i = C.n
    <3>1. Together(b)
      BY <1>1 DEF RehashTogether, CutOf
    <3>. QED
      BY <1>1, <2>1, <3>1, TogetherCut, ZenonT(40)
  <2>2. CASE a = C.array /\ i = j
    <3>1. Together(d)
      BY <1>1 DEF RehashTogether, PutOf
    <3>2. InFront(d, 1, n)
      BY ComesFirst
    <3>. QED
      BY <1>1, <2>2, <3>1, <3>2, TogetherPut, ZenonT(40)
  <2>3. CASE (a # T.array \/ i # C.n) /\ (a # C.array \/ i # j)
    <3>1. cs[a][i] = bs[a][i]
      BY <1>1, <2>3, ZenonT(40)
    <3>. QED
      BY <1>1, <1>2, <3>1, Zenon DEF RehashTogether
  <2>. QED
    BY <2>1, <2>2, <2>3
<1> DEFINE Way(a, i, e, k, x) == \/ a = T.array /\ i = C.n /\ Split(kind, T, D, hs, cs, e, k, x)
                                 \/ e = T.array /\ k = C.n /\ Split(kind, T, D, hs, cs, a, i, x)
<1>3. n \in Elems(bs[T.array][C.n]) /\ T.array \in as /\ C.array \in as
  BY <1>1 DEF Elems
<1>10. RehashTogether(kind, T, C, hs, bs, M) /\ n \in M /\ C.n \in indices
  BY <1>1, Zenon
<1>11. D.n = C.n /\ D.array = C.array
  BY <1>1, Zenon
<1>12. u = cs[T.array][C.n]
  BY <1>1, Zenon
<1>4. ASSUME NEW x \in M, NEW e, NEW k, Split(kind, T, C, hs, bs, e, k, x)
      PROVE  Key[x] = Key[n] /\ e = C.array /\ k = j
  BY <1>1, <1>4 DEF Split, Target
<1>5. ASSUME NEW x \in M, NEW y \in M, x \in Elems(u), Key[x] = Key[n], Key[y] = Key[x]
      PROVE  Split(kind, T, D, hs, cs, C.array, j, y)
  BY <1>5, SplitsStill, SplitByKey, Zenon
<1>6. ASSUME NEW a \in as, NEW e \in as, NEW i \in indices, NEW k \in indices,
             NEW x \in M, NEW y \in M, x \in Elems(cs[a][i]), y \in Elems(cs[e][k]),
             Key[y] = Key[x], a # e \/ i # k, x # n
      PROVE  Way(a, i, e, k, x)
  <2>1. x \in Elems(bs[a][i])
    BY <1>6, WhereNow
  <2>2. CASE y # n
    <3>1. y \in Elems(bs[e][k])
      BY <1>6, <2>2, WhereNow
    <3>2. \/ a = T.array /\ i = C.n /\ Split(kind, T, C, hs, bs, e, k, x)
          \/ e = T.array /\ k = C.n /\ Split(kind, T, C, hs, bs, a, i, x)
      BY <1>6, <1>10, <2>1, <3>1, OnTheWay
    <3>3. CASE a = T.array /\ i = C.n /\ Split(kind, T, C, hs, bs, e, k, x)
      <4>1. Key[x] = Key[n] /\ e = C.array /\ k = j /\ x \in Elems(u)
        BY <1>4, <1>6, <1>12, <3>3
      <4>2. Split(kind, T, D, hs, cs, C.array, j, x)
        BY <1>5, <4>1
      <4>. QED
        BY <3>3, <4>1, <4>2
    <3>4. CASE e = T.array /\ k = C.n /\ Split(kind, T, C, hs, bs, a, i, x)
      <4>1. Key[x] = Key[n] /\ a = C.array /\ i = j
        BY <1>4, <3>4
      <4>3. Key[y] = Key[n] /\ y \in Elems(u)
        BY <1>6, <1>12, <3>4, <4>1
      <4>2. Split(kind, T, D, hs, cs, C.array, j, x)
        BY <1>5, <1>6, <4>3
      <4>. QED
        BY <3>4, <4>1, <4>2
    <3>. QED
      BY <3>2, <3>3, <3>4
  <2>3. CASE y = n
    <3>1. e = C.array /\ k = j
      BY <1>6, <2>3, WhereNow
    <3>2. CASE a = T.array /\ i = C.n
      <4>1. Split(kind, T, D, hs, cs, C.array, j, x)
        BY <1>5, <1>6, <1>12, <2>3, <3>2
      <4>. QED
        BY <3>1, <3>2, <4>1
    <3>3. CASE a # T.array \/ i # C.n
      <4>1. \/ a = T.array /\ i = C.n /\ Split(kind, T, C, hs, bs, T.array, C.n, x)
            \/ T.array = T.array /\ C.n = C.n /\ Split(kind, T, C, hs, bs, a, i, x)
        <5>1. n \in M /\ Key[n] = Key[x]
          BY <1>6, <1>10, <2>3
        <5>. QED
          BY <1>3, <1>10, <2>1, <3>3, <5>1, OnTheWay
      <4>2. a = C.array /\ i = j
        BY <1>4, <3>3, <4>1
      <4>. QED
        BY <1>6, <3>1, <4>2
    <3>. QED
      BY <3>2, <3>3
  <2>. QED
    BY <2>2, <2>3
<1>7. ASSUME NEW a \in as, NEW e \in as, NEW i \in indices, NEW k \in indices,
             NEW x \in M, NEW y \in M, x \in Elems(cs[a][i]), y \in Elems(cs[e][k]),
             Key[y] = Key[x], a # e \/ i # k
      PROVE  Way(a, i, e, k, x)
  <2>1. CASE x # n
    BY <1>6, <1>7, <2>1
  <2>2. CASE x = n
    <3>1. a = C.array /\ i = j
      BY <1>7, <2>2, WhereNow
    <3>2. y # n
      <4>1. y = n => e = C.array /\ k = j
        BY <1>7, WhereNow
      <4>. QED
        BY <1>7, <3>1, <4>1
    <3>3. \/ e = T.array /\ k = C.n /\ Split(kind, T, D, hs, cs, a, i, y)
          \/ a = T.array /\ i = C.n /\ Split(kind, T, D, hs, cs, e, k, y)
      BY <1>6, <1>7, <3>2
    <3>. QED
      BY <1>7, <3>3, SplitByKey
  <2>. QED
    BY <2>1, <2>2
<1>8. ASSUME NEW a \in as, NEW e \in as, NEW i \in indices, NEW k \in indices,
             NEW x \in M, NEW y \in M, x \in Elems(cs[a][i]), y \in Elems(cs[e][k]),
             Key[y] = Key[x], a # e \/ i # k
      PROVE  Crosses(kind, T, D, hs, cs, a, i, e, k, x)
  BY <1>7, <1>8, <1>11 DEF Crosses
<1>9. as = {T.array, D.array}
  BY <1>11
<1> HIDE DEF as
<1>13. \A a \in as, i \in indices : cs[a][i] \in Seq(Nodes) => Together(cs[a][i])
  BY <1>2
<1>14. \A a, e \in as, i, k \in indices, x, y \in M :
         x \in Elems(cs[a][i]) /\ y \in Elems(cs[e][k]) /\ Key[y] = Key[x] /\ (a # e \/ i # k) =>
           Crosses(kind, T, D, hs, cs, a, i, e, k, x)
  BY <1>8, ZenonT(40)
<1>. QED
  BY <1>9, <1>13, <1>14 DEF RehashTogether

\* What is moved is no longer where the table would look for it.
Leaving(T, C, D, hs, bs, cs, g, M, b, d, u, v, w, n, j, p) ==
  /\ OneLeaves(T, C, D, hs, bs, cs, M, b, d, u, w, n, j, p)
  /\ RehashRings(kind, T, C, hs, g, bs, M)
  /\ JoinOf(w, v, d) /\ PieceOf(v, b, p, p + 1)

\* An element that changes its bucket has another home in the new table.
LEMMA LeavingMoves ==
  ASSUME NEW T, NEW C, NEW D, NEW hs, NEW bs, NEW cs, NEW g, NEW M, NEW b, NEW d, NEW u, NEW v,
         NEW w, NEW n, NEW j, NEW p, Leaving(T, C, D, hs, bs, cs, g, M, b, d, u, v, w, n, j, p)
  PROVE  Moves(kind, T, C, hs, n)
<1>1. /\ b = bs[T.array][C.n] /\ p \in DOMAIN b /\ n = b[p]
      /\ T.array # C.array \/ C.n # j
      /\ C.n \in indices /\ ~C.fast
      /\ j = Target(kind, C, hs, n)
      /\ M \subseteq Nodes /\ n \in M
  BY Zenon DEF Leaving, OneLeaves
<1>2. \A i \in indices, m \in Nodes : m \in Elems(bs[T.array][i]) =>
        \/ C.full
        \/ i = Home(kind, T, hs, m)
        \/ C.array = T.array /\ i = Target(kind, C, hs, m)
  BY <1>1, Zenon DEF Leaving, RehashRings
<1>3. n \in Elems(bs[T.array][C.n]) /\ n \in Nodes
  BY <1>1 DEF Elems
<1>4. \/ C.full
      \/ C.n = Home(kind, T, hs, n)
      \/ C.array = T.array /\ C.n = Target(kind, C, hs, n)
  BY <1>1, <1>2, <1>3
<1>. QED
  BY <1>1, <1>4 DEF Moves

\* Whether an element moves depends on its key only.
LEMMA MovesByKey ==
  ASSUME NEW K, NEW T, NEW C, NEW hs, NEW n, NEW m, Key[m] = Key[n], Moves(K, T, C, hs, n)
  PROVE  Moves(K, T, C, hs, m)
BY DEF Moves, Target, Home

\* The same elements move all the time.
LEMMA MovesSame ==
  ASSUME NEW K, NEW T, NEW C, NEW D, NEW hs, NEW n, D.array = C.array, D.count = C.count,
         D.full = C.full
  PROVE  Moves(K, T, D, hs, n) <=> Moves(K, T, C, hs, n)
BY DEF Moves, Target

\* The groups that stay are not disturbed.
LEMMA LeavingRings ==
  ASSUME NEW T, NEW C, NEW D, NEW hs, NEW bs, NEW cs, NEW g, NEW M, NEW b, NEW d, NEW u, NEW v,
         NEW w, NEW n, NEW j, NEW p, Leaving(T, C, D, hs, bs, cs, g, M, b, d, u, v, w, n, j, p),
         NEW a \in {T.array, C.array}, NEW i \in indices, cs[a][i] \in Seq(Nodes),
         NEW x \in DOMAIN cs[a][i], ~Moves(kind, T, C, hs, cs[a][i][x])
  PROVE  RingIn(g, cs[a][i], x)
<1>1. /\ RehashTogether(kind, T, C, hs, bs, M)
      /\ b = bs[T.array][C.n] /\ d = bs[C.array][j] /\ u = cs[T.array][C.n] /\ w = cs[C.array][j]
      /\ CutOf(u, b, p, p + 1) /\ p \in DOMAIN b /\ n = b[p]
      /\ C.n \in indices /\ j \in indices /\ ~C.fast
  BY Zenon DEF Leaving, OneLeaves
<1>2. JoinOf(w, v, d) /\ PieceOf(v, b, p, p + 1)
  BY Zenon DEF Leaving
<1>3. ASSUME NEW e \in {T.array, C.array}, NEW k \in indices, bs[e][k] \in Seq(Nodes),
             NEW y \in DOMAIN bs[e][k], ~Moves(kind, T, C, hs, bs[e][k][y])
      PROVE  RingIn(g, bs[e][k], y)
  BY <1>1, <1>3, Zenon DEF Leaving, RehashRings
<1>4. \A y : Key[y] = Key[n] => Moves(kind, T, C, hs, y)
  BY LeavingMoves, MovesByKey
<1>5. T.array \in {T.array, C.array} /\ C.array \in {T.array, C.array}
  OBVIOUS
<1>6. CASE a = T.array /\ i = C.n
  <2>0. CutOf(u, b, p, p + 1)
    BY <1>1
  <2>1. /\ b \in Seq(Nodes) /\ p \in Nat /\ 1 <= p /\ p <= Len(b)
        /\ Len(u) = Len(b) - 1 /\ Len(b) \in Nat /\ Len(u) \in Nat
        /\ DOMAIN b = 1..Len(b) /\ DOMAIN u = 1..Len(u)
        /\ \A y \in 1..Len(u) : u[y] = IF y < p THEN b[y] ELSE b[y + 1]
    BY <2>0, CutsOne, Zenon
  <2>2. x \in 1..Len(u) /\ ~Moves(kind, T, C, hs, u[x]) /\ u = cs[a][i]
    BY <1>1, <1>6, <2>1
  <2>3. PICK y : y = IF x < p THEN x ELSE x + 1
    OBVIOUS
  <2>4. y \in DOMAIN b /\ u[x] = b[y]
    <3>1. u[x] = IF x < p THEN b[x] ELSE b[x + 1]
      BY <2>1, <2>2
    <3>2. x \in Nat /\ 1 <= x /\ x <= Len(b) - 1 /\ Len(b) \in Nat /\ DOMAIN b = 1..Len(b)
      <4>1. x \in 1..Len(u)
        BY <2>2
      <4>2. Len(u) = Len(b) - 1 /\ Len(b) \in Nat /\ Len(u) \in Nat /\ DOMAIN b = 1..Len(b)
        BY <2>1, Zenon
      <4>. QED
        BY <4>1, <4>2
    <3>3. x \in DOMAIN b /\ x + 1 \in DOMAIN b
      BY <3>2
    <3>4. CASE x < p
      BY <2>3, <3>1, <3>3, <3>4
    <3>5. CASE ~(x < p)
      BY <2>3, <3>1, <3>3, <3>5
    <3>. QED
      BY <3>4, <3>5
  <2>5. RingIn(g, b, y)
    BY <1>1, <1>3, <1>5, <2>1, <2>2, <2>4
  <2>6. y = IF x < p THEN x ELSE x + ((p + 1) - p)
    <3>1. (p + 1) - p = 1
      BY <2>1
    <3>. QED
      BY <2>3, <3>1
  <2>7. \A z \in p..((p + 1) - 1) : Key[b[z]] # Key[u[x]]
    <3>1. p..((p + 1) - 1) = {p}
      BY <2>1
    <3>2. Key[b[p]] # Key[u[x]]
      BY <1>1, <1>4, <2>2, SMTT(15)
    <3>. QED
      BY <3>1, <3>2
  <2>8. Together(b)
    BY <1>1, <2>1 DEF RehashTogether
  <2>9. x \in DOMAIN u
    BY <2>1, <2>2
  <2>10. RingIn(g, b, IF x < p THEN x ELSE x + ((p + 1) - p))
    BY <2>5, <2>6, SMTT(15)
  <2>11. RingIn(g, u, x)
    BY <1>1, <2>7, <2>8, <2>9, <2>10, RingCut
  <2>. QED
    BY <2>2, <2>11
<1>7. CASE a = C.array /\ i = j
  <2>1. Len(v) = 1 /\ v[1] = n /\ DOMAIN v = {1}
    <3>1. /\ p \in Nat /\ Len(v) = (p + 1) - p /\ v \in Seq(Nodes)
          /\ \A y \in 1..Len(v) : v[y] = b[y + (p - 1)]
      BY <1>2 DEF PieceOf
    <3>2. Len(v) = 1 /\ 1 \in 1..Len(v) /\ 1 + (p - 1) = p
      BY <3>1
    <3>. QED
      BY <1>1, <3>1, <3>2
  <2>2. /\ d \in Seq(Nodes) /\ Len(d) \in Nat /\ DOMAIN d = 1..Len(d)
        /\ DOMAIN w = 1..(Len(d) + 1) /\ w[1] = n
        /\ \A y \in 2..(Len(d) + 1) : w[y] = d[y - 1]
    <3>1. /\ d \in Seq(Nodes) /\ w \in Seq(Nodes) /\ Len(w) = Len(v) + Len(d)
          /\ \A y \in 1..Len(w) : w[y] = IF y <= Len(v) THEN v[y] ELSE d[y - Len(v)]
      BY <1>2 DEF JoinOf
    <3>2. Len(d) \in Nat /\ DOMAIN d = 1..Len(d) /\ DOMAIN w = 1..Len(w)
      BY <3>1
    <3>3. Len(w) = Len(d) + 1
      BY <2>1, <3>1, <3>2
    <3>4. 1 \in 1..Len(w) /\ 1 <= Len(v)
      BY <2>1, <3>2, <3>3
    <3>5. w[1] = v[1]
      BY <3>1, <3>4
    <3>6. ASSUME NEW y \in 2..(Len(d) + 1)
          PROVE  w[y] = d[y - 1]
      <4>1. y \in 1..Len(w) /\ ~(y <= 1)
        BY <3>2, <3>3
      <4>. QED
        BY <2>1, <3>1, <4>1
    <3>. QED
      BY <2>1, <3>1, <3>2, <3>3, <3>5, <3>6
  <2>3. x \in 1..(Len(d) + 1) /\ ~Moves(kind, T, C, hs, w[x]) /\ w = cs[a][i]
    BY <1>1, <1>7, <2>2
  <2>4. x # 1
    BY <1>4, <2>2, <2>3
  <2>5. x - 1 \in DOMAIN d /\ w[x] = d[x - 1] /\ (x - 1) + Len(v) = x
    BY <2>1, <2>2, <2>3, <2>4, SMTT(15)
  <2>6. RingIn(g, d, x - 1)
    BY <1>1, <1>3, <1>5, <2>2, <2>3, <2>5
  <2>7. \A z \in DOMAIN v : Key[v[z]] # Key[d[x - 1]]
    BY <1>4, <2>1, <2>3, <2>5
  <2>8. RingIn(g, w, (x - 1) + Len(v))
    BY <1>2, <2>5, <2>6, <2>7, RingJoinSecond
  <2>. QED
    BY <2>3, <2>5, <2>8
<1>8. CASE (a # T.array \/ i # C.n) /\ (a # C.array \/ i # j)
  <2>1. cs[a][i] = bs[a][i]
    BY <1>8, Zenon DEF Leaving, OneLeaves
  <2>. QED
    BY <1>3, <2>1
<1>. QED
  BY <1>6, <1>7, <1>8

\* What has left its bucket is where it belongs.
LEMMA LeavingIsRings ==
  ASSUME NEW T, NEW C, NEW D, NEW hs, NEW bs, NEW cs, NEW g, NEW M, NEW b, NEW d, NEW u, NEW v,
         NEW w, NEW n, NEW j, NEW p, Leaving(T, C, D, hs, bs, cs, g, M, b, d, u, v, w, n, j, p)
  PROVE  RehashRings(kind, T, D, hs, g, cs, M)
<1>1. /\ ~C.fast /\ j = Target(kind, C, hs, n)
      /\ D.array = C.array /\ D.count = C.count /\ D.fast = C.fast /\ D.full = C.full
      /\ M \subseteq Nodes /\ n \in M
  BY Zenon DEF Leaving, OneLeaves
<1>2. /\ \A m \in M : Moves(kind, T, C, hs, m) => Alike(M, m) = {m, g[m]}
      /\ \A i \in indices, m \in Nodes : m \in Elems(bs[T.array][i]) =>
           \/ C.full
           \/ i = Home(kind, T, hs, m)
           \/ C.array = T.array /\ i = Target(kind, C, hs, m)
  BY <1>1, Zenon DEF Leaving, RehashRings
<1>3. \A m : Moves(kind, T, D, hs, m) <=> Moves(kind, T, C, hs, m)
  BY <1>1, MovesSame
<1>4. \A m : Target(kind, D, hs, m) = Target(kind, C, hs, m)
  BY <1>1 DEF Target
<1>5. ASSUME NEW m \in M, Moves(kind, T, D, hs, m)
      PROVE  Alike(M, m) = {m, g[m]}
  BY <1>2, <1>3, <1>5
<1>6. ASSUME NEW a \in {T.array, D.array}, NEW i \in indices, cs[a][i] \in Seq(Nodes),
             NEW x \in DOMAIN cs[a][i], ~Moves(kind, T, D, hs, cs[a][i][x])
      PROVE  RingIn(g, cs[a][i], x)
  <2>1. a \in {T.array, C.array} /\ ~Moves(kind, T, C, hs, cs[a][i][x])
    BY <1>1, <1>3, <1>6
  <2>. QED
    BY <1>6, <2>1, LeavingRings
<1>7. ASSUME NEW i \in indices, NEW m \in Nodes, m \in Elems(cs[T.array][i])
      PROVE  \/ D.full
             \/ i = Home(kind, T, hs, m)
             \/ D.array = T.array /\ i = Target(kind, D, hs, m)
  <2>1. m \in Elems(cs[T.array][i]) <=>
          IF m = n THEN T.array = C.array /\ i = j ELSE m \in Elems(bs[T.array][i])
    <3>1. T.array \in {T.array, C.array}
      OBVIOUS
    <3>. QED
      BY <3>1, Zenon DEF Leaving, OneLeaves
  <2>2. CASE m = n
    BY <1>1, <1>4, <1>7, <2>1, <2>2
  <2>3. CASE m # n
    <3>1. m \in Elems(bs[T.array][i])
      BY <1>7, <2>1, <2>3
    <3>. QED
      BY <1>1, <1>2, <1>4, <3>1
  <2>. QED
    BY <2>2, <2>3
<1>. QED
  BY <1>1, <1>5, <1>6, <1>7 DEF RehashRings

\* With no group on the way the rehash goes on where it likes.
LEMMA StayingGroups ==
  ASSUME NEW T, NEW C, NEW D, NEW hs, NEW bs, NEW g, NEW M,
         RehashGroups(kind, T, C, hs, g, bs, M),
         \A f, l, x : Split(kind, T, C, hs, bs, f, l, x) => f = T.array /\ l = C.n,
         D.array = C.array, D.count = C.count, D.full = C.full, D.fast = C.fast
  PROVE  RehashGroups(kind, T, D, hs, g, bs, M)
<1>1. RehashTogether(kind, T, C, hs, bs, M)
  BY DEF RehashGroups
<1>2. ASSUME NEW a, NEW e, NEW i, NEW k, NEW x, a # e \/ i # k
      PROVE  ~Crosses(kind, T, C, hs, bs, a, i, e, k, x)
  BY <1>2 DEF Crosses
<1>3. RehashTogether(kind, T, D, hs, bs, M)
  <2>1. ASSUME NEW a \in {T.array, C.array}, NEW e \in {T.array, C.array}, NEW i \in indices,
               NEW k \in indices, NEW x \in M, NEW y \in M, x \in Elems(bs[a][i]),
               y \in Elems(bs[e][k]), Key[y] = Key[x], a # e \/ i # k
        PROVE  Crosses(kind, T, D, hs, bs, a, i, e, k, x)
    <3>1. Crosses(kind, T, C, hs, bs, a, i, e, k, x)
      BY <1>1, <2>1, Zenon DEF RehashTogether
    <3>. QED
      BY <1>2, <2>1, <3>1
  <2>2. \A a \in {T.array, C.array}, i \in indices : bs[a][i] \in Seq(Nodes) => Together(bs[a][i])
    BY <1>1, Zenon DEF RehashTogether
  <2>. QED
    BY <2>1, <2>2 DEF RehashTogether
<1>4. kind.multi => RehashRings(kind, T, D, hs, g, bs, M)
  <2>1. \A m : Moves(kind, T, D, hs, m) <=> Moves(kind, T, C, hs, m)
    BY MovesSame
  <2>2. \A m : Target(kind, D, hs, m) = Target(kind, C, hs, m)
    BY DEF Target
  <2>. QED
    BY <2>1, <2>2 DEF RehashGroups, RehashRings
<1>. QED
  BY <1>3, <1>4 DEF RehashGroups

\* What a rehash does not work on.
LEMMA WholeFrame ==
  ASSUME NEW K, NEW g, NEW L, NEW bs, NEW cs, NEW as, WholeBut(K, g, L, bs, as),
         \A a \in Arrays \ as, i \in indices : cs[a][i] = bs[a][i]
  PROVE  WholeBut(K, g, L, cs, as)
BY DEF WholeBut

\* A step of a rehash that leaves it with one.
LEMMA RehashGoesOn ==
  ASSUME IGroups, in("rehash"), NEW T, T = tab[call.table], NEW M, M = members[call.table],
         NEW D, D = call', SameRehash(call, D), NEW cs, cs = buckets',
         \A a \in Arrays \ {T.array, call.array}, i \in indices : cs[a][i] = buckets[a][i],
         RehashGroups(kind, T, D, hashing, group, cs, M),
         UNCHANGED <<kind, group, linked, tab, hashing, pending, members>>
  PROVE  IGroups'
<1>1. WholeBut(kind, group, linked, cs, {T.array, call.array})
  <2>1. WholeBut(kind, group, linked, buckets, {T.array, call.array})
    BY DEF IGroups, in
  <2>. QED
    BY <2>1, WholeFrame
<1>2. /\ D.op = "rehash" /\ D.table = call.table /\ D.array = call.array
  BY DEF SameRehash
<1>3. pending # None => \A n \in members[pending.table] : Key[n] # pending.key
  BY DEF IGroups
<1>4. /\ WholeBut(kind', group', linked', buckets', {tab'[D.table].array, D.array})
      /\ RehashGroups(kind', tab'[D.table], D, hashing', group', buckets', members'[D.table])
      /\ pending' # None => \A n \in members'[pending'.table] : Key[n] # pending'.key
  BY <1>1, <1>2, <1>3
<1>. QED
  BY <1>2, <1>4 DEF IGroups

\* A rehash that handles an element leaves the groups as whole as they were.
LEMMA RehashMovesGroups ==
  ASSUME IBase, IGroups, rehash_moves
  PROVE  IGroups'
<1>1. PICK t, T, M, b, n, j, su, D, as :
        /\ Visited(t, T, M, b, n, j, su, D, as)
        /\ \/ Stays(T, j, D)
           \/ \E p, d, u, v, w, ns, cs : LeavesBucket(T, M, as, b, n, j, D, p, d, u, v, w, ns, cs)
  BY RehashMovesIs
<1>2. Visited(t, T, M, b, n, j, su, D, as)
  BY <1>1
<1>3. /\ RehashingNow(t, T, M)
      /\ Visits(buckets, T, M, stored, hashing, call, b, n, j, su, D)
      /\ SameRehash(call, D) /\ as = {T.array, call.array} /\ call' = D
      /\ UNCHANGED <<kind, group, linked, tab, hashing, pending, members>>
  BY <1>2 DEF Visited
<1>4. /\ T = tab[call.table] /\ M = members[call.table] /\ in("rehash") /\ M \in SUBSET Nodes
      /\ call \in RehashCalls
  BY <1>3 DEF RehashingNow, in
<1>5. /\ b = buckets[T.array][call.n] /\ n = b[call.before_i + 1]
      /\ j = Target(kind, call, hashing, n) /\ ~call.fast /\ call.n < T.count
      /\ D.array = call.array /\ D.count = call.count /\ D.full = call.full /\ D.fast = call.fast
      /\ D.n = call.n
  BY <1>3 DEF Visits
<1>6. RehashGroups(kind, T, call, hashing, group, buckets, M)
  BY <1>4 DEF IGroups, in
<1>7. CASE Stays(T, j, D)
  <2>1. call.array = T.array /\ j = call.n /\ buckets' = buckets
    BY <1>7 DEF Stays
  <2>2. ASSUME NEW f, NEW l, NEW x, Split(kind, T, call, hashing, buckets, f, l, x)
        PROVE  f = T.array /\ l = call.n
    <3>1. f = call.array /\ l = Target(kind, call, hashing, x) /\ Key[n] = Key[x]
      BY <1>5, <2>2 DEF Split
    <3>2. Target(kind, call, hashing, x) = Target(kind, call, hashing, n)
      BY <3>1 DEF Target
    <3>. QED
      BY <1>5, <2>1, <3>1, <3>2
  <2>3. RehashGroups(kind, T, D, hashing, group, buckets, M)
    BY <1>5, <1>6, <2>2, StayingGroups
  <2>. QED
    BY <1>3, <1>4, <2>1, <2>3, RehashGoesOn
<1>8. CASE \E p, d, u, v, w, ns, cs : LeavesBucket(T, M, as, b, n, j, D, p, d, u, v, w, ns, cs)
  <2>1. PICK p, d, u, v, w, ns, cs : LeavesBucket(T, M, as, b, n, j, D, p, d, u, v, w, ns, cs)
    BY <1>8, ZenonT(40)
  <2>2. /\ D.before_i = call.before_i /\ p = call.before_i + 1
        /\ Transfers(buckets, cs, T.array, call.n, p, p + 1, call.array, j, b, d, u, v, w, ns)
        /\ Takes(as, buckets, cs, T, M, call, b, n, j, ns, u)
        /\ Moved(buckets, cs, T.array, call.n, call.array, j, ns)
        /\ cs[T.array][call.n] = u /\ cs[call.array][j] = w
        /\ buckets' = cs
    BY <2>1 DEF LeavesBucket
  <2>3. /\ T.array \in Arrays /\ call.array \in Arrays /\ call.n \in indices /\ j \in indices
        /\ T.array # call.array \/ call.n # j
        /\ d = buckets[call.array][j]
        /\ b \in Seq(Nodes) /\ Distinct(b) /\ d \in Seq(Nodes) /\ Distinct(d)
        /\ p \in Nat /\ 1 <= p /\ p + 1 <= Len(b) + 1
        /\ u = Cut(b, p, p + 1) /\ v = Piece(b, p, p + 1) /\ w = v \o d
    BY <2>2 DEF Transfers
  <2>4. CutOf(u, b, p, p + 1) /\ PieceOf(v, b, p, p + 1)
    <3>1. p + 1 \in Nat /\ p <= p + 1
      BY <2>3
    <3>. QED
      BY <2>3, <3>1, CutIsCut, PieceIsPiece
  <2>5. JoinOf(w, v, d)
    BY <2>3, <2>4, JoinIsJoin DEF PieceOf
  <2>6. p \in DOMAIN b /\ n = b[p] /\ n \in Nodes /\ call.before_i \in Nat
    <3>1. Len(b) \in Nat /\ DOMAIN b = 1..Len(b)
      BY <2>3
    <3>2. p \in 1..Len(b)
      BY <2>3, <3>1
    <3>3. call.before_i \in Nat
      BY <1>4 DEF RehashCalls
    <3>4. n = b[p]
      BY <1>5, <2>2, Zenon
    <3>5. b[p] \in Nodes
      BY <2>3, <3>1, <3>2
    <3>. QED
      BY <3>1, <3>2, <3>3, <3>4, <3>5
  <2>7. PutOf(w, d, 1, n)
    <3>1. Len(v) = 1 /\ v[1] = n /\ v \in Seq(Nodes)
      <4>1. /\ p \in Nat /\ Len(v) = (p + 1) - p /\ v \in Seq(Nodes)
            /\ \A y \in 1..Len(v) : v[y] = b[y + (p - 1)]
        BY <2>4 DEF PieceOf
      <4>2. Len(v) = 1 /\ 1 \in 1..Len(v) /\ 1 + (p - 1) = p
        BY <4>1
      <4>. QED
        BY <2>6, <4>1, <4>2
    <3>2. /\ d \in Seq(Nodes) /\ w \in Seq(Nodes) /\ Len(w) = Len(v) + Len(d)
          /\ \A y \in 1..Len(w) : w[y] = IF y <= Len(v) THEN v[y] ELSE d[y - Len(v)]
      BY <2>5 DEF JoinOf
    <3>3. Len(d) \in Nat /\ Len(w) = Len(d) + 1
      BY <3>1, <3>2
    <3>4. ASSUME NEW y \in 1..Len(w)
          PROVE  w[y] = IF y < 1 THEN d[y] ELSE IF y = 1 THEN n ELSE d[y - 1]
      <4>1. CASE y = 1
        BY <3>1, <3>2, <3>4, <4>1
      <4>2. CASE y # 1
        <5>1. ~(y < 1) /\ ~(y <= 1)
          BY <3>3, <4>2
        <5>. QED
          BY <3>1, <3>2, <3>4, <4>2, <5>1
      <4>. QED
        BY <4>1, <4>2
    <3>. QED
      BY <2>6, <3>2, <3>3, <3>4 DEF PutOf
  <2>8. /\ as = {T.array, call.array}
        /\ \A m : m \in ns <=> m = n
        /\ MovesIn(as, buckets, cs, T.array, call.n, call.array, j, ns, M)
    BY <2>2 DEF Takes
  <2>9. /\ Holds(buckets, as, M)
        /\ \A m \in Nodes, e \in as, k \in indices : m \in Elems(cs[e][k]) <=>
             IF m \in ns THEN e = call.array /\ k = j ELSE m \in Elems(buckets[e][k])
    <3>1. Holds(buckets, as, M)
      BY <2>8 DEF MovesIn
    <3>. QED
      BY <2>8, <3>1, MoveKeeps
  <2>10. /\ \A e \in {T.array, call.array}, k \in indices :
              (e # T.array \/ k # call.n) /\ (e # call.array \/ k # j) => cs[e][k] = buckets[e][k]
         /\ \A m \in Nodes, e \in {T.array, call.array}, k \in indices : m \in Elems(cs[e][k]) <=>
              IF m = n THEN e = call.array /\ k = j ELSE m \in Elems(buckets[e][k])
    <3>1. \A e \in Arrays, k \in indices :
            (e # T.array \/ k # call.n) /\ (e # call.array \/ k # j) => cs[e][k] = buckets[e][k]
      BY <2>2 DEF Moved
    <3>2. \A e \in {T.array, call.array} : e \in Arrays /\ e \in as
      BY <2>3, <2>8
    <3>3. ASSUME NEW m \in Nodes, NEW e \in {T.array, call.array}, NEW k \in indices
          PROVE  m \in Elems(cs[e][k]) <=>
                   IF m = n THEN e = call.array /\ k = j ELSE m \in Elems(buckets[e][k])
      BY <2>8, <2>9, <3>2
    <3>. QED
      BY <3>1, <3>2, <3>3
  <2>11. \A x \in 1..(p - 1) : call.array = T.array /\ call.n = Target(kind, call, hashing, b[x])
    <3>1. \A x \in 1..call.before_i : Settled(kind, call, stored, hashing, T.array, call.n, b[x])
      BY <1>3, <1>5 DEF RehashingNow, Rehashing, MovesEach
    <3>2. p - 1 = call.before_i
      BY <2>2, <2>6
    <3>. QED
      BY <3>1, <3>2 DEF Settled
  <2>12. n \in M /\ Elems(d) \subseteq M
    <3>1. n \in Elems(b) /\ Elems(d) \subseteq Nodes
      BY <2>3, <2>6 DEF Elems
    <3>2. \A m \in Nodes : m \in M <=> \E e \in as, k \in indices : m \in Elems(buckets[e][k])
      BY <2>9 DEF Holds
    <3>3. T.array \in as /\ call.array \in as
      BY <2>8
    <3>. QED
      BY <1>5, <2>3, <2>6, <3>1, <3>2, <3>3
  <2>13. RehashTogether(kind, T, call, hashing, buckets, M)
    BY <1>6 DEF RehashGroups
  <2>14. OneLeaves(T, call, D, hashing, buckets, cs, M, b, d, u, w, n, j, p)
    BY <1>4, <1>5, <2>2, <2>3, <2>4, <2>6, <2>7, <2>10, <2>11, <2>12, <2>13 DEF OneLeaves
  <2>15. RehashTogether(kind, T, D, hashing, cs, M)
    BY <2>14, OneLeavesTogether
  <2>16. kind.multi => RehashRings(kind, T, D, hashing, group, cs, M)
    <3>1. SUFFICES ASSUME kind.multi
                   PROVE  RehashRings(kind, T, D, hashing, group, cs, M)
      OBVIOUS
    <3>2. Leaving(T, call, D, hashing, buckets, cs, group, M, b, d, u, v, w, n, j, p)
      BY <1>6, <2>4, <2>5, <2>14, <3>1 DEF Leaving, RehashGroups
    <3>. QED
      BY <3>2, LeavingIsRings
  <2>17. RehashGroups(kind, T, D, hashing, group, cs, M)
    BY <2>15, <2>16 DEF RehashGroups
  <2>18. \A a \in Arrays \ {T.array, call.array}, i \in indices : cs[a][i] = buckets[a][i]
    BY <2>2 DEF Moved
  <2>. QED
    BY <1>3, <1>4, <2>2, <2>17, <2>18, RehashGoesOn
<1>. QED
  BY <1>1, <1>7, <1>8

\* A rehash that goes on to the next bucket does not touch the groups.
LEMMA RehashNextBucketGroups ==
  ASSUME IBase, IGroups, rehash_next_bucket
  PROVE  IGroups'
<1>1. /\ in("rehash") /\ call.n < tab[call.table].count
      /\ call.before_i = Len(buckets[tab[call.table].array][call.n])
      /\ call' = [call EXCEPT !.n = @ + 1, !.before_i = 0]
      /\ UNCHANGED <<kind, buckets, group, stored, linked, tab, hashing, pending, members>>
  BY DEF rehash_next_bucket, in_old_buckets, rehash_bucket, bucket
<1>2. PICK T, M : T = tab[call.table] /\ M = members[call.table]
  OBVIOUS
<1>3. RehashingNow(call.table, T, M)
  BY <1>1, <1>2, RehashIsNow
<1>4. call \in RehashCalls
  BY <1>3 DEF RehashingNow
<1>5. PICK D : D = call'
  OBVIOUS
<1>6. SameRehash(call, D)
  <2>1. call.n + 1 \in Nat /\ 0 \in Nat
    BY <1>4 DEF RehashCalls
  <2>2. SetNext(call, D, call.n + 1, 0)
    BY <1>1, <1>5 DEF SetNext
  <2>. QED
    BY <1>4, <2>1, <2>2, RehashNexts
<1>7. RehashGroups(kind, T, call, hashing, group, buckets, M)
  BY <1>1, <1>2 DEF IGroups, in
<1>8. ASSUME NEW f, NEW l, NEW x, Split(kind, T, call, hashing, buckets, f, l, x)
      PROVE  FALSE
  <2>1. call.before_i < call.before_i
    BY <1>1, <1>2, <1>8 DEF Split
  <2>2. call.before_i \in Nat
    BY <1>4 DEF RehashCalls
  <2>. QED
    BY <2>1, <2>2
<1>9. RehashGroups(kind, T, D, hashing, group, buckets, M)
  BY <1>6, <1>7, <1>8, StayingGroups DEF SameRehash
<1>. QED
  BY <1>1, <1>2, <1>5, <1>6, <1>9, RehashGoesOn

SamePlace(a, i, e, k) == a = e /\ i = k

\* Equal elements stand in one bucket of the arrays as.
Sole(as, bs, M) ==
  \A a, e \in as, i, k \in indices, x, y \in M :
    x \in Elems(bs[a][i]) /\ y \in Elems(bs[e][k]) /\ Key[y] = Key[x] =>
      SamePlace(a, i, e, k)

\* A fast shrink never has a group on the way, and so do all that split none.
LEMMA FastSole ==
  ASSUME NEW K, NEW T, NEW C, NEW hs, NEW bs, NEW M, RehashTogether(K, T, C, hs, bs, M),
         \A a, i, x : ~Split(K, T, C, hs, bs, a, i, x)
  PROVE  Sole({T.array, C.array}, bs, M)
<1> SUFFICES ASSUME NEW a \in {T.array, C.array}, NEW e \in {T.array, C.array},
                    NEW i \in indices, NEW k \in indices, NEW x \in M, NEW y \in M,
                    x \in Elems(bs[a][i]), y \in Elems(bs[e][k]), Key[y] = Key[x], a # e \/ i # k
             PROVE  FALSE
  BY DEF Sole, SamePlace
<1>. QED
  BY OnTheWay

\* With whole groups, each in one bucket, no group is divided.
LEMMA SoleTogether ==
  ASSUME NEW K, NEW T, NEW C, NEW hs, NEW bs, NEW M, Sole({T.array, C.array}, bs, M),
         \A a \in {T.array, C.array}, i \in indices : bs[a][i] \in Seq(Nodes) => Together(bs[a][i])
  PROVE  RehashTogether(K, T, C, hs, bs, M)
<1>1. ASSUME NEW a \in {T.array, C.array}, NEW e \in {T.array, C.array}, NEW i \in indices,
             NEW k \in indices, NEW x \in M, NEW y \in M, x \in Elems(bs[a][i]),
             y \in Elems(bs[e][k]), Key[y] = Key[x], a # e \/ i # k
      PROVE  Crosses(K, T, C, hs, bs, a, i, e, k, x)
  <2>1. SamePlace(a, i, e, k)
    BY <1>1, Zenon DEF Sole
  <2>. QED
    BY <1>1, <2>1 DEF SamePlace
<1>. QED
  BY <1>1 DEF RehashTogether

\* What is left of b when all of it has gone, and what has gone.
AllGoes(g, b, d, q, u, v, w) ==
  /\ b \in Seq(Nodes) /\ d \in Seq(Nodes) /\ q = Len(b) + 1
  /\ u = Cut(b, 1, q) /\ v = Piece(b, 1, q) /\ w = v \o d
  /\ Together(b) /\ Together(d) /\ Unlike(b, d)

\* A bucket poured out into another one takes its groups along.
LEMMA AllGoesTogether ==
  ASSUME NEW g, NEW b, NEW d, NEW q, NEW u, NEW v, NEW w, AllGoes(g, b, d, q, u, v, w)
  PROVE  /\ u = <<>>
         /\ w \in Seq(Nodes) /\ Together(w)
         /\ Ringed(g, b) /\ Ringed(g, d) => Ringed(g, w)
<1>1. /\ b \in Seq(Nodes) /\ d \in Seq(Nodes) /\ q = Len(b) + 1
      /\ u = Cut(b, 1, q) /\ v = Piece(b, 1, q) /\ w = v \o d
      /\ Together(b) /\ Together(d) /\ Unlike(b, d)
  BY DEF AllGoes
<1>2. Len(b) \in Nat /\ DOMAIN b = 1..Len(b) /\ q \in Nat /\ 1 \in Nat /\ 1 <= q /\ q <= Len(b) + 1
  BY <1>1
<1>3. u = <<>>
  BY <1>1, CutAll
<1>4. PieceOf(v, b, 1, q)
  BY <1>1, <1>2, PieceIsPiece
<1>5. /\ v \in Seq(Nodes) /\ Len(v) = Len(b) /\ DOMAIN v = DOMAIN b
      /\ \A x \in DOMAIN v : v[x] = b[x] /\ x + (1 - 1) = x
  <2>1. /\ v \in Seq(Nodes) /\ Len(v) = q - 1
        /\ \A x \in 1..Len(v) : v[x] = b[x + (1 - 1)]
    BY <1>4 DEF PieceOf
  <2>2. Len(v) = Len(b) /\ DOMAIN v = 1..Len(v)
    BY <1>1, <1>2, <2>1
  <2>3. \A x \in 1..Len(v) : x + (1 - 1) = x
    BY <1>2, <2>2
  <2>. QED
    BY <1>2, <2>1, <2>2, <2>3
<1>6. JoinOf(w, v, d)
  BY <1>1, <1>5, JoinIsJoin
<1>7. Together(v)
  BY <1>1, <1>4, TogetherPiece
<1>8. Unlike(v, d)
  <2>1. DOMAIN v = DOMAIN b /\ \A x \in DOMAIN v : v[x] = b[x]
    BY <1>5
  <2>2. \A x \in DOMAIN b, y \in DOMAIN d : Key[b[x]] # Key[d[y]]
    BY <1>1 DEF Unlike
  <2>. QED
    BY <2>1, <2>2 DEF Unlike
<1>9. Together(w)
  BY <1>1, <1>6, <1>7, <1>8, TogetherJoin
<1>10. w \in Seq(Nodes)
  BY <1>6 DEF JoinOf
<1>11. ASSUME Ringed(g, b), Ringed(g, d)
       PROVE  Ringed(g, w)
  <2>1. ASSUME NEW x \in DOMAIN v
        PROVE  RingIn(g, v, x)
    <3>1. RingIn(g, b, x + (1 - 1))
      BY <1>5, <1>11, <2>1 DEF Ringed
    <3>2. \A z \in DOMAIN b : z < 1 \/ z >= q => Key[b[z]] # Key[v[x]]
      BY <1>1, <1>2
    <3>. QED
      BY <1>1, <1>4, <3>1, <3>2, RingPiece
  <2>2. Ringed(g, v)
    BY <2>1 DEF Ringed
  <2>. QED
    BY <1>6, <1>8, <1>11, <2>2, RingJoin
<1>. QED
  BY <1>3, <1>9, <1>10, <1>11

\* A bucket that goes to another one takes its groups with it.
BucketGoes(as, bs, cs, M, a, i, c, j, ns) ==
  /\ Sole(as, bs, M) /\ M \subseteq Nodes
  /\ a \in as /\ c \in as /\ i \in indices /\ j \in indices
  /\ a # c \/ i # j
  /\ \A m : m \in ns <=> m \in Elems(bs[a][i])
  /\ \A n \in Nodes, e \in as, k \in indices : n \in Elems(cs[e][k]) <=>
       IF n \in ns THEN e = c /\ k = j ELSE n \in Elems(bs[e][k])

\* If each group is in one bucket, it still is when a bucket goes as a whole.
LEMMA BucketGoesSole ==
  ASSUME NEW as, NEW bs, NEW cs, NEW M, NEW a, NEW i, NEW c, NEW j, NEW ns,
         BucketGoes(as, bs, cs, M, a, i, c, j, ns)
  PROVE  Sole(as, cs, M)
<1> SUFFICES ASSUME NEW f \in as, NEW e \in as, NEW l \in indices, NEW k \in indices,
                    NEW x \in M, NEW y \in M, x \in Elems(cs[f][l]), y \in Elems(cs[e][k]),
                    Key[y] = Key[x]
             PROVE  SamePlace(f, l, e, k)
  BY Zenon DEF Sole
<1>1. /\ Sole(as, bs, M) /\ a \in as /\ c \in as /\ i \in indices /\ j \in indices
      /\ x \in Nodes /\ y \in Nodes
  BY DEF BucketGoes
<1>2. IF x \in ns THEN f = c /\ l = j /\ x \in Elems(bs[a][i]) ELSE x \in Elems(bs[f][l])
  BY <1>1, Zenon DEF BucketGoes
<1>3. IF y \in ns THEN e = c /\ k = j /\ y \in Elems(bs[a][i]) ELSE y \in Elems(bs[e][k])
  BY <1>1, Zenon DEF BucketGoes
<1>4. (x \in ns <=> x \in Elems(bs[a][i])) /\ (y \in ns <=> y \in Elems(bs[a][i]))
  BY Zenon DEF BucketGoes
<1>5. ASSUME NEW u \in as, NEW v \in as, NEW r \in indices, NEW s \in indices,
             x \in Elems(bs[u][r]), y \in Elems(bs[v][s])
      PROVE  u = v /\ r = s
  <2>1. Sole(as, bs, M)
    BY <1>1
  <2>2. SamePlace(u, r, v, s)
    BY <1>5, <2>1, Zenon DEF Sole
  <2>. QED
    BY <2>2 DEF SamePlace
<1>6. CASE x \in ns /\ y \in ns
  BY <1>2, <1>3, <1>6 DEF SamePlace
<1>7. CASE x \in ns /\ y \notin ns
  <2>1. a = e /\ i = k
    BY <1>1, <1>2, <1>3, <1>5, <1>7
  <2>. QED
    BY <1>3, <1>4, <1>7, <2>1
<1>8. CASE x \notin ns /\ y \in ns
  <2>1. f = a /\ l = i
    BY <1>1, <1>2, <1>3, <1>5, <1>8, ZenonT(40)
  <2>. QED
    BY <1>2, <1>4, <1>8, <2>1
<1>9. CASE x \notin ns /\ y \notin ns
  BY <1>2, <1>3, <1>5, <1>9 DEF SamePlace
<1>. QED
  BY <1>6, <1>7, <1>8, <1>9

\* A rehash that pours out a whole bucket keeps the groups whole.
LEMMA RehashMovesBucketGroups ==
  ASSUME IBase, IGroups, rehash_moves_bucket
  PROVE  IGroups'
<1>1. PICK t, T, M, b, d, j, q, u, v, w, ns, cs, as, D :
        Filled(t, T, M, b, d, j, q, u, v, w, ns, cs, as, D)
  BY RehashMovesBucketIs
<1>2. /\ RehashingNow(t, T, M)
      /\ b = buckets[T.array][call.n] /\ d = buckets[call.array][j] /\ q = Len(b) + 1
      /\ Transfers(buckets, cs, T.array, call.n, 1, q, call.array, j, b, d, u, v, w, ns)
      /\ Moved(buckets, cs, T.array, call.n, call.array, j, ns)
      /\ cs[T.array][call.n] = u /\ cs[call.array][j] = w
      /\ Fills(as, buckets, cs, T, M, stored, hashing, call, j, ns, D)
      /\ buckets' = cs /\ call' = D
      /\ UNCHANGED <<kind, group, stored, linked, tab, hashing, pending, members>>
  BY <1>1, SMTT(15) DEF Filled
<1>3. /\ T = tab[call.table] /\ M = members[call.table] /\ in("rehash") /\ M \subseteq Nodes
  BY <1>2 DEF RehashingNow, in
<1>4. /\ as = {T.array, call.array} /\ SameRehash(call, D) /\ call.fast
      /\ \A m : m \in ns <=> m \in Elems(buckets[T.array][call.n])
      /\ MovesIn(as, buckets, cs, T.array, call.n, call.array, j, ns, M)
  BY <1>2 DEF Fills, FastIs
<1>5. RehashTogether(kind, T, call, hashing, buckets, M)
  BY <1>3 DEF IGroups, RehashGroups, in
<1>6. kind.multi => \A a \in {T.array, call.array}, i \in indices :
                      buckets[a][i] \in Seq(Nodes) => Ringed(group, buckets[a][i])
  BY <1>3, <1>4 DEF IGroups, RehashGroups, RehashRings, in
<1>7. \A a \in {T.array, call.array}, i \in indices :
        buckets[a][i] \in Seq(Nodes) => Together(buckets[a][i])
  BY <1>5, Zenon DEF RehashTogether
<1>8. Sole(as, buckets, M)
  <2>1. \A a, i, x : ~Split(kind, T, call, hashing, buckets, a, i, x)
    BY <1>4 DEF Split
  <2>. QED
    BY <1>4, <1>5, <2>1, FastSole
<1>9. BucketGoes(as, buckets, cs, M, T.array, call.n, call.array, j, ns)
  <2>1. \A n \in Nodes, e \in as, k \in indices : n \in Elems(cs[e][k]) <=>
          IF n \in ns THEN e = call.array /\ k = j ELSE n \in Elems(buckets[e][k])
    BY <1>4, MoveKeeps
  <2>2. /\ T.array \in as /\ call.array \in as /\ call.n \in indices /\ j \in indices
        /\ T.array # call.array \/ call.n # j
    BY <1>4 DEF MovesIn
  <2>. QED
    BY <1>3, <1>4, <1>8, <2>1, <2>2 DEF BucketGoes
<1>10. Sole(as, cs, M)
  BY <1>9, BucketGoesSole
<1>11. /\ b \in Seq(Nodes) /\ d \in Seq(Nodes)
       /\ u = Cut(b, 1, q) /\ v = Piece(b, 1, q) /\ w = v \o d
       /\ T.array # call.array \/ call.n # j
       /\ call.n \in indices /\ j \in indices
  BY <1>2 DEF Transfers
<1>12. Unlike(b, d)
  <2> SUFFICES ASSUME NEW x \in DOMAIN b, NEW y \in DOMAIN d, Key[b[x]] = Key[d[y]]
               PROVE  FALSE
    BY DEF Unlike
  <2>1. b[x] \in Elems(b) /\ d[y] \in Elems(d) /\ b[x] \in Nodes /\ d[y] \in Nodes
    BY <1>11, ElemsOfSeq DEF Elems
  <2>2. \A n \in Nodes : n \in M <=> \E e \in as, k \in indices : n \in Elems(buckets[e][k])
    BY <1>4 DEF MovesIn, Holds
  <2>3. b[x] \in M /\ d[y] \in M
    BY <1>2, <1>4, <1>11, <2>1, <2>2
  <2>4. T.array = call.array /\ call.n = j
    <3>1. /\ b[x] \in Elems(buckets[T.array][call.n]) /\ d[y] \in Elems(buckets[call.array][j])
          /\ T.array \in as /\ call.array \in as /\ call.n \in indices /\ j \in indices
          /\ Key[d[y]] = Key[b[x]]
      BY <1>2, <1>4, <1>11, <2>1
    <3>2. SamePlace(T.array, call.n, call.array, j)
      BY <1>8, <2>3, <3>1, ZenonT(40) DEF Sole
    <3>. QED
      BY <3>2 DEF SamePlace
  <2>. QED
    BY <1>11, <2>4
<1>13. AllGoes(group, b, d, q, u, v, w)
  BY <1>2, <1>7, <1>11, <1>12 DEF AllGoes
<1>14. /\ u = <<>>
       /\ w \in Seq(Nodes) /\ Together(w)
       /\ Ringed(group, b) /\ Ringed(group, d) => Ringed(group, w)
  BY <1>13, AllGoesTogether
<1>15. \A e \in as, k \in indices :
         cs[e][k] = IF e = T.array /\ k = call.n THEN <<>>
                    ELSE IF e = call.array /\ k = j THEN w ELSE buckets[e][k]
  <2>1. \A e \in Arrays, k \in indices :
          (e # T.array \/ k # call.n) /\ (e # call.array \/ k # j) => cs[e][k] = buckets[e][k]
    BY <1>2 DEF Moved
  <2>2. as \in SUBSET Arrays
    BY <1>4 DEF MovesIn
  <2>. QED
    BY <1>2, <1>14, <2>1, <2>2
<1>16. Together(<<>>) /\ Ringed(group, <<>>)
  BY DEF Together, Ringed
<1>17. ASSUME NEW a \in {T.array, call.array}, NEW i \in indices, cs[a][i] \in Seq(Nodes)
       PROVE  Together(cs[a][i]) /\ (kind.multi => Ringed(group, cs[a][i]))
  <2>1. cs[a][i] = <<>> \/ cs[a][i] = w \/ cs[a][i] = buckets[a][i]
    BY <1>4, <1>15
  <2>2. CASE cs[a][i] = <<>>
    BY <1>16, <2>2
  <2>3. CASE cs[a][i] = w
    BY <1>2, <1>6, <1>11, <1>14, <2>3
  <2>4. CASE cs[a][i] = buckets[a][i]
    BY <1>6, <1>7, <1>17, <2>4
  <2>. QED
    BY <2>1, <2>2, <2>3, <2>4
<1>18. RehashTogether(kind, T, D, hashing, cs, M)
  <2>1. D.array = call.array
    BY <1>4 DEF SameRehash
  <2>. QED
    BY <1>4, <1>10, <1>17, <2>1, SoleTogether
<1>19. kind.multi => RehashRings(kind, T, D, hashing, group, cs, M)
  <2>1. D.fast /\ D.array = call.array
    BY <1>4 DEF SameRehash
  <2>. QED
    BY <1>17, <2>1 DEF RehashRings
<1>20. RehashGroups(kind, T, D, hashing, group, cs, M)
  BY <1>18, <1>19 DEF RehashGroups
<1>21. \A a \in Arrays \ {T.array, call.array}, i \in indices : cs[a][i] = buckets[a][i]
  BY <1>2 DEF Moved
<1>. QED
  BY <1>2, <1>3, <1>4, <1>20, <1>21, RehashGoesOn

\* What insert_unique_check has not found is still not there when the table is only rehashed.
LEMMA OutdatedAlone ==
  ASSUME IBase, IGroups, outdated
  PROVE  pending' # None => \A n \in members[pending'.table] : Key[n] # pending'.key
<1>1. pending # None => \A n \in members[pending.table] : Key[n] # pending.key
  BY DEF IGroups
<1>2. pending = None \/ pending \in Commits
  BY DEF IBase, Committable
<1>3. CASE pending = None
  BY <1>3 DEF outdated
<1>4. CASE pending # None
  <2>1. pending' = [pending EXCEPT !.rehashed = TRUE]
    BY <1>4 DEF outdated
  <2>2. pending'.table = pending.table /\ pending'.key = pending.key
    BY <1>2, <1>4, <2>1 DEF Commits
  <2>. QED
    BY <1>1, <1>4, <2>2
<1>. QED
  BY <1>3, <1>4

\* Whole groups are all the invariant asks for when no call is under way.
LEMMA WholeIsGroupsStill ==
  ASSUME kind' = kind, call' = None, WholeBut(kind, group', linked', buckets', {}),
         pending' # None => \A n \in members'[pending'.table] : Key[n] # pending'.key
  PROVE  IGroups'
<1>1. call'.op = "none"
  BY DEF None
<1>2. WholeBut(kind', group', linked', buckets', {})
  BY Zenon
<1>. QED
  BY <1>1, <1>2 DEF IGroups

\* Two equal elements that have come together are a group again.
AllRehashed(T, C, st, hs, g, bs, M) ==
  /\ kind \in Kinds /\ bs \in Memories /\ T \in Recs /\ M \in SUBSET Nodes
  /\ hs \in Hashings
  /\ Rehashing(kind, bs, T, M, st, hs, C) /\ C.n = T.count
  /\ RehashRings(kind, T, C, hs, g, bs, M) /\ ~C.fast

\* When a rehash has handled every element, the links follow the groups again.
LEMMA JoinedRings ==
  ASSUME NEW T, NEW C, NEW st, NEW hs, NEW g, NEW bs, NEW M, AllRehashed(T, C, st, hs, g, bs, M),
         NEW a \in {T.array, C.array}, NEW i \in indices, NEW b, b = bs[a][i],
         b \in Seq(Nodes), Together(b), Distinct(b), NEW x \in DOMAIN b
  PROVE  RingIn(g, b, x)
<1>1. /\ kind \in Kinds /\ bs \in Memories /\ T \in Recs /\ M \in SUBSET Nodes
      /\ hs \in Hashings
      /\ Rehashing(kind, bs, T, M, st, hs, C) /\ C.n = T.count /\ ~C.fast
  BY DEF AllRehashed
<1>2. /\ \A n \in M : Moves(kind, T, C, hs, n) => Alike(M, n) = {n, g[n]}
      /\ ~Moves(kind, T, C, hs, b[x]) => RingIn(g, b, x)
  BY <1>1 DEF AllRehashed, RehashRings
<1>3. Holds(bs, {T.array, C.array}, M)
  BY <1>1 DEF Rehashing
<1>4. \A y \in DOMAIN b : b[y] \in Nodes /\ b[y] \in Elems(b) /\ b[y] \in M
  <2>1. \A y \in DOMAIN b : b[y] \in Nodes /\ b[y] \in Elems(b)
    BY DEF Elems
  <2>. QED
    BY <1>3, <2>1 DEF Holds
<1>5. CASE Moves(kind, T, C, hs, b[x])
  <2>1. Alike(M, b[x]) = {b[x], g[b[x]]}
    BY <1>2, <1>4, <1>5
  <2>2. PICK m : m = g[b[x]]
    OBVIOUS
  <2>3. m \in M /\ m \in Nodes /\ Key[m] = Key[b[x]]
    BY <1>1, <2>1, <2>2 DEF Alike
  <2>4. PICK e \in {T.array, C.array}, k \in indices : m \in Elems(bs[e][k])
    BY <1>3, <2>3 DEF Holds
  <2>5. Settled(kind, C, st, hs, e, k, m)
    BY <1>1, <2>3, <2>4, AllSettled
  <2>6. Settled(kind, C, st, hs, a, i, b[x])
    BY <1>1, <1>4, AllSettled
  <2>7. e = a /\ k = i
    BY <2>3, <2>5, <2>6 DEF Settled, Target
  <2>8. m \in Elems(b)
    BY <2>4, <2>7
  <2>9. \A y \in DOMAIN b : Key[b[y]] = Key[b[x]] => b[y] \in {b[x], g[b[x]]}
    BY <1>4, <2>1 DEF Alike
  <2>. QED
    BY <2>2, <2>3, <2>8, <2>9, PairRings
<1>6. CASE ~Moves(kind, T, C, hs, b[x])
  BY <1>2, <1>6
<1>. QED
  BY <1>5, <1>6

\* A completed rehash leaves whole groups.
LEMMA RehashEndsGroups ==
  ASSUME IBase, IGroups, rehash_ends
  PROVE  IGroups'
<1>1. PICK T, M : T = tab[call.table] /\ M = members[call.table]
  OBVIOUS
<1>2. /\ in("rehash") /\ call.n = T.count /\ buckets' = given_up(buckets, tab')
      /\ call' = None /\ outdated
      /\ UNCHANGED <<kind, group, stored, linked, hashing, members>>
  BY <1>1 DEF rehash_ends
<1>3. RehashingNow(call.table, T, M)
  BY <1>1, <1>2, RehashIsNow
<1>4. /\ kind \in Kinds /\ T \in Recs /\ M \in SUBSET Nodes /\ buckets \in Memories
      /\ hashing \in Hashings /\ T.array \in Arrays /\ call.array \in Arrays
      /\ Rehashing(kind, buckets, T, M, stored, hashing, call)
  BY <1>3 DEF RehashingNow
<1>5. /\ WholeBut(kind, group, linked, buckets, {T.array, call.array})
      /\ RehashTogether(kind, T, call, hashing, buckets, M)
      /\ kind.multi => RehashRings(kind, T, call, hashing, group, buckets, M)
  BY <1>1, <1>2 DEF IGroups, RehashGroups, in
<1>6. PICK cs : cs = given_up(buckets, tab')
  OBVIOUS
<1>7. \A a \in Arrays, i \in indices : cs[a][i] = buckets[a][i] \/ cs[a][i] = <<Junk>>
  BY <1>4, <1>6, GivenUp
<1>8. ASSUME NEW a \in Arrays, NEW i \in indices
      PROVE  Fits(kind, group, buckets[a][i])
  <2>1. CASE a \notin {T.array, call.array}
    BY <1>5, <2>1 DEF WholeBut
  <2>2. CASE a \in {T.array, call.array}
    <3>1. SUFFICES ASSUME buckets[a][i] \in Seq(Nodes)
                   PROVE  Grouped(kind, group, buckets[a][i])
      BY DEF Fits
    <3>2. PICK b : b = buckets[a][i]
      OBVIOUS
    <3>3. Together(b) /\ Distinct(b) /\ b \in Seq(Nodes)
      <4>1. Together(b)
        BY <1>5, <2>2, <3>1, <3>2, Zenon DEF RehashTogether
      <4>2. Distinct(b) \/ b = <<Junk>>
        BY <1>4, <2>2, <3>2 DEF Rehashing, BothKept
      <4>3. b # <<Junk>>
        <5>1. Elems(<<Junk>>) = {Junk} /\ Junk \notin Nodes
          BY SingleBucket, ElementAssumption
        <5>2. Elems(b) \subseteq Nodes
          BY <3>1, <3>2, ElemsOfSeq
        <5>. QED
          BY <5>1, <5>2
      <4>. QED
        BY <3>1, <3>2, <4>1, <4>2, <4>3
    <3>4. ASSUME kind.multi
          PROVE  Ringed(group, b)
      <4>1. CASE call.fast
        BY <1>5, <2>2, <3>1, <3>2, <3>4, <4>1 DEF RehashRings
      <4>2. CASE ~call.fast
        <5>1. AllRehashed(T, call, stored, hashing, group, buckets, M)
          BY <1>2, <1>4, <1>5, <3>4, <4>2 DEF AllRehashed
        <5>. QED
          BY <2>2, <3>2, <3>3, <5>1, JoinedRings DEF Ringed
      <4>. QED
        BY <4>1, <4>2
    <3>. QED
      BY <3>2, <3>3, <3>4 DEF Grouped
  <2>. QED
    BY <2>1, <2>2
<1>9. WholeBut(kind, group, linked, cs, {})
  <2>1. \A a \in Arrays \ {}, i \in indices : Fits(kind, group, cs[a][i])
    BY <1>7, <1>8, EmptyFits
  <2>. QED
    BY <1>5, <2>1 DEF WholeBut
<1>10. pending' # None => \A n \in members'[pending'.table] : Key[n] # pending'.key
  BY <1>2, OutdatedAlone
<1>11. WholeBut(kind, group', linked', buckets', {})
  BY <1>2, <1>6, <1>9
<1>. QED
  BY <1>2, <1>10, <1>11, WholeIsGroupsStill

\* A rehash cut short by an exception leaves whole groups.
LEMMA RehashThrowsGroups ==
  ASSUME IBase, IGroups, IBase', rehash_throws
  PROVE  IGroups'
<1>1. PICK T, M : T = tab[call.table] /\ M = members[call.table]
  OBVIOUS
<1>2. PICK left : left = rollback_both(buckets)
  OBVIOUS
<1>3. /\ in("rehash") /\ buckets' = given_up(left, tab)
      /\ group' = gone(group, M) /\ members' = [members EXCEPT ![call.table] = {}]
      /\ call' = None /\ pending' = None /\ kind' = kind
  BY <1>1, <1>2 DEF rehash_throws, in_old_buckets
<1>4. RehashingNow(call.table, T, M)
  BY <1>1, <1>3, RehashIsNow
<1>5. /\ kind \in Kinds /\ T \in Recs /\ M \in SUBSET Nodes /\ buckets \in Memories
      /\ members \in [Tables -> SUBSET Nodes] /\ call.table \in Tables
      /\ T.array \in Arrays /\ call.array \in Arrays /\ call \in RehashCalls
      /\ Rehashing(kind, buckets, T, M, stored, hashing, call)
  BY <1>4 DEF RehashingNow
<1>6. WholeBut(kind, group, linked, buckets, {T.array, call.array})
  BY <1>1, <1>3 DEF IGroups, in
<1>7. /\ left \in Memories
      /\ \A e \in Arrays, i \in indices : e # T.array /\ e # call.array => left[e][i] = buckets[e][i]
      /\ \A e \in {T.array, call.array}, i \in indices : left[e][i] \in {<<>>, <<Junk>>}
  <2>1. RolledBack(buckets, left, T, call)
    BY <1>1, <1>2, <1>5 DEF RolledBack, rollback_both, Rehashing
  <2>2. T.count \in Nat /\ call.count \in Nat
    BY <1>5, RecIs, CountIs DEF RehashCalls
  <2>. QED
    BY <2>1, <2>2, RollbackEmpties
<1>8. PICK cs : cs = given_up(left, tab)
  OBVIOUS
<1>9. \A a \in Arrays, i \in indices : cs[a][i] = left[a][i] \/ cs[a][i] = <<Junk>>
  BY <1>7, <1>8, GivenUp
<1>10. PICK h : h = gone(group, M)
  OBVIOUS
<1>11. /\ group \in [Nodes -> Memory]
       /\ kind.multi => \A n \in Nodes \ linked : group[n] = Junk
  BY <1>6 DEF WholeBut
<1>12. h \in [Nodes -> Memory] /\ \A n \in Nodes : h[n] = IF n \in M THEN Junk ELSE group[n]
  BY <1>10, <1>11 DEF gone, Memory
<1>13. Types /\ Exclusive /\ Exclusive'
  BY DEF IBase
<1>14. linked = UNION {members[u] : u \in Tables} /\ Apart(buckets)
  BY <1>13 DEF Exclusive
<1>15. linked' = UNION {members'[u] : u \in Tables}
  BY <1>13 DEF Exclusive
<1>16. \A n \in Nodes \ linked' : n \notin M => n \notin linked
  <2> SUFFICES ASSUME NEW n, n \in linked, n \notin M
               PROVE  n \in linked'
    OBVIOUS
  <2>1. PICK u \in Tables : n \in members[u]
    BY <1>14
  <2>2. u # call.table
    BY <1>1, <2>1
  <2>3. members'[u] = members[u]
    BY <1>3, <1>5, <2>2
  <2>. QED
    BY <1>15, <2>1, <2>3
<1>17. kind.multi => \A n \in Nodes \ linked' : h[n] = Junk
  BY <1>11, <1>12, <1>16
<1>18. ASSUME NEW a \in Arrays \ {}, NEW i \in indices
       PROVE  \/ Fits(kind, h, cs[a][i])
              \/ /\ a \notin {T.array, call.array}
                 /\ cs[a][i] = buckets[a][i]
                 /\ kind.multi => \A n \in Nodes : n \in Elems(buckets[a][i]) => h[n] = group[n]
  <2>1. CASE a \in {T.array, call.array}
    <3>1. cs[a][i] \in {<<>>, <<Junk>>}
      BY <1>7, <1>9, <2>1
    <3>. QED
      BY <3>1, EmptyFits
  <2>2. CASE a \notin {T.array, call.array}
    <3>1. cs[a][i] = <<Junk>> \/ cs[a][i] = buckets[a][i]
      BY <1>7, <1>9, <2>2
    <3>2. ASSUME NEW n \in Nodes, n \in Elems(buckets[a][i])
          PROVE  h[n] = group[n]
      <4>1. n \notin M
        <5>1. SUFFICES ASSUME n \in M PROVE FALSE
          OBVIOUS
        <5>2. Holds(buckets, {T.array, call.array}, M)
          BY <1>5 DEF Rehashing
        <5>3. PICK e \in {T.array, call.array}, k \in indices : n \in Elems(buckets[e][k])
          BY <5>1, <5>2 DEF Holds
        <5>4. e \in Arrays
          BY <1>5
        <5>5. a = e
          BY <1>14, <3>2, <5>3, <5>4 DEF Apart
        <5>. QED
          BY <2>2, <5>5
      <4>. QED
        BY <1>12, <4>1
    <3>. QED
      BY <2>2, <3>1, <3>2, EmptyFits
  <2>. QED
    BY <2>1, <2>2
<1>19. PICK lc : lc = linked'
  OBVIOUS
<1>20. Changed(group, linked, buckets, {T.array, call.array}, h, lc, cs, {})
  BY <1>6, <1>12, <1>17, <1>18, <1>19 DEF Changed
<1>21. WholeBut(kind, group', linked', buckets', {})
  <2>1. WholeBut(kind, h, lc, cs, {})
    BY <1>20, ChangedGroups
  <2>. QED
    BY <1>3, <1>8, <1>10, <1>19, <2>1
<1>. QED
  BY <1>3, <1>21, WholeIsGroups

\* Between two calls equal elements stand in one bucket.
LEMMA HomeByKey ==
  ASSUME NEW K, NEW T, NEW hs, NEW n, NEW m, Key[m] = Key[n]
  PROVE  Home(K, T, hs, m) = Home(K, T, hs, n)
BY DEF Home

\* Where the elements of a table are that is not rehashed.
LEMMA QuietFinds ==
  ASSUME kind \in Kinds, NEW bs \in Memories, NEW T \in Recs, NEW M \in SUBSET Nodes, NEW st,
         NEW hs \in Hashings, Quiet(kind, bs, T, M, st, hs), NEW n \in M
  PROVE  /\ Home(kind, T, hs, n) \in 0..(T.count - 1) /\ Home(kind, T, hs, n) \in indices
         /\ n \in Elems(bs[T.array][Home(kind, T, hs, n)])
<1>1. /\ Shaped(kind, T) /\ Holds(bs, {T.array}, M) /\ AtHome(kind, bs, T, hs)
  BY DEF Quiet
<1>2. n \in Nodes
  OBVIOUS
<1>3. PICK e \in {T.array}, i \in indices : n \in Elems(bs[e][i])
  BY <1>1, <1>2 DEF Holds
<1>4. i = Home(kind, T, hs, n)
  BY <1>1, <1>2, <1>3 DEF AtHome
<1>. QED
  BY <1>1, <1>2, <1>3, <1>4, HomeIs

\* A group of at most two elements is a pair.
QuietRings(bs, T, M, st, hs, g) ==
  /\ kind \in Kinds /\ bs \in Memories /\ T \in Recs /\ M \in SUBSET Nodes
  /\ hs \in Hashings /\ Quiet(kind, bs, T, M, st, hs)
  /\ \A i \in 0..(T.count - 1) : Together(bs[T.array][i]) /\ Ringed(g, bs[T.array][i])

\* Of at most two equal elements, each is linked with the other one.
LEMMA PairsAtHome ==
  ASSUME NEW bs, NEW T, NEW M, NEW st, NEW hs, NEW g, QuietRings(bs, T, M, st, hs, g),
         NEW n \in M, Cardinality(Alike(M, n)) <= 2
  PROVE  Alike(M, n) = {n, g[n]}
<1>0. /\ kind \in Kinds /\ bs \in Memories /\ T \in Recs /\ M \in SUBSET Nodes
      /\ hs \in Hashings /\ Quiet(kind, bs, T, M, st, hs)
      /\ \A i \in 0..(T.count - 1) : Together(bs[T.array][i]) /\ Ringed(g, bs[T.array][i])
  BY DEF QuietRings
<1>1. PICK i : i = Home(kind, T, hs, n)
  OBVIOUS
<1>2. i \in 0..(T.count - 1) /\ i \in indices /\ n \in Elems(bs[T.array][i])
  BY <1>0, <1>1, QuietFinds
<1>3. PICK b : b = bs[T.array][i]
  OBVIOUS
<1>4. b \in Seq(Nodes) /\ Distinct(b) /\ Elems(b) \subseteq M
  BY <1>0, <1>2, <1>3, QuietIs
<1>5. Together(b) /\ Ringed(g, b)
  BY <1>0, <1>2, <1>3
<1>6. PICK x \in DOMAIN b : n = b[x]
  BY <1>2, <1>3 DEF Elems
<1>7. Alike(M, n) = Alike(Elems(b), n)
  <2>1. ASSUME NEW m \in M, Key[m] = Key[n]
        PROVE  m \in Elems(b)
    <3>1. Home(kind, T, hs, m) = i
      BY <1>0, <1>1, <2>1, HomeByKey
    <3>2. m \in Elems(bs[T.array][Home(kind, T, hs, m)])
      BY <1>0, QuietFinds
    <3>. QED
      BY <1>3, <3>1, <3>2
  <2>. QED
    BY <1>4, <2>1 DEF Alike
<1>8. PICK N \in SUBSET Elems(b) : N = Alike(M, n)
  BY <1>7 DEF Alike
<1>9. RingIn(g, b, x)
  BY <1>5 DEF Ringed
<1>10. N = Alike(Elems(b), b[x]) /\ Cardinality(N) <= 2
  BY <1>6, <1>7, <1>8
<1>11. N = {b[x], g[b[x]]}
  BY <1>4, <1>5, <1>9, <1>10, RingPairs
<1>. QED
  BY <1>6, <1>8, <1>11

\* What a rehash finds when it begins.
BeginsGroups(bs, bt, T, M, st, hs, ht, a, c, full, fast, n, first, U, D, as, g) ==
  /\ Begins(bs, bt, T, M, st, hs, ht, a, c, full, fast, n, first, U, D, as)
  /\ \A i \in 0..(T.count - 1) : Grouped(kind, g, bs[T.array][i])
  /\ kind.multi /\ ~fast => \A m \in M :
       \/ full
       \/ a # T.array
       \/ hash_to_bucket_split(hs[Key[m]], c, c, kind.incremental) # Home(kind, T, hs, m)
       => Cardinality(Alike(M, m)) <= 2

\* A rehash begins with no group divided.
LEMMA BeginsTogether ==
  ASSUME NEW bs, NEW bt, NEW T, NEW M, NEW st, NEW hs, NEW ht, NEW a, NEW c, NEW full, NEW fast,
         NEW n, NEW first, NEW U, NEW D, NEW as, NEW g,
         BeginsGroups(bs, bt, T, M, st, hs, ht, a, c, full, fast, n, first, U, D, as, g)
  PROVE  RehashGroups(kind, U, D, ht, g, bt, M)
<1>1. /\ kind \in Kinds /\ bs \in Memories /\ T \in Recs /\ M \in SUBSET Nodes
      /\ hs \in Hashings
      /\ Quiet(kind, bs, T, M, st, hs)
      /\ NewBuckets(bs, bt, T, a, c)
      /\ ~full => ht = hs
      /\ U.array = T.array /\ U.count = T.count /\ U.split = T.split
      /\ D.array = a /\ D.count = c /\ D.full = full /\ D.fast = fast
      /\ as = {T.array, a}
  BY DEF BeginsGroups, Begins
<1>2. \A i \in 0..(T.count - 1) : Grouped(kind, g, bs[T.array][i])
  BY DEF BeginsGroups
<1>3. /\ \A e \in as, i \in indices, m \in Nodes :
           m \in Elems(bt[e][i]) <=> e = T.array /\ m \in Elems(bs[e][i])
      /\ \A i \in indices, m \in Nodes : m \in Elems(bs[T.array][i]) =>
           /\ i \in Nat /\ i < T.count /\ T.cache <= i
           /\ m \in M /\ i = Home(kind, T, hs, m)
  <2>1. Begins(bs, bt, T, M, st, hs, ht, a, c, full, fast, n, first, U, D, as)
    BY DEF BeginsGroups
  <2>2. /\ \A e \in as, i \in indices, m \in Nodes :
             m \in Elems(bt[e][i]) <=> e = T.array /\ m \in Elems(bs[e][i])
        /\ \A i \in indices, m \in Nodes : m \in Elems(bs[T.array][i]) =>
             /\ i \in Nat /\ i < T.count /\ T.cache <= i
             /\ m \in M /\ i = Home(kind, T, hs, m)
        /\ T.cache \in Nat /\ T.cache <= T.count
        /\ BothKept(bt, U, D) /\ Holds(bt, as, M) /\ ApartIn(as, bt)
    BY <2>1, BeginKeeps, Zenon
  <2>. QED
    BY <2>2
<1>4. Sole({U.array, D.array}, bt, M)
  <2> SUFFICES ASSUME NEW e \in as, NEW f \in as, NEW i \in indices, NEW k \in indices,
                      NEW x \in M, NEW y \in M, x \in Elems(bt[e][i]), y \in Elems(bt[f][k]),
                      Key[y] = Key[x]
               PROVE  SamePlace(e, i, f, k)
    BY <1>1, Zenon DEF Sole
  <2>1. x \in Nodes /\ y \in Nodes
    BY <1>1
  <2>2. e = T.array /\ i = Home(kind, T, hs, x)
    BY <1>3, <2>1
  <2>3. f = T.array /\ k = Home(kind, T, hs, y)
    BY <1>3, <2>1
  <2>. QED
    BY <2>2, <2>3, HomeByKey DEF SamePlace
<1>5. ASSUME NEW e \in {U.array, D.array}, NEW i \in indices, bt[e][i] \in Seq(Nodes)
      PROVE  Together(bt[e][i]) /\ (kind.multi => Ringed(g, bt[e][i]))
  <2>1. \/ bt[e][i] \in {<<>>, <<Junk>>}
        \/ bt[e][i] = bs[T.array][i] /\ i \in 0..(T.count - 1)
    <3>1. T.count \in Nat /\ i \in Nat
      BY <1>1, RecIs, CountIs DEF indices
    <3>2. i < T.count => i \in 0..(T.count - 1)
      BY <3>1
    <3>3. /\ \A k \in indices :
               bt[T.array][k] = IF k < T.count THEN bs[T.array][k]
                                ELSE IF a = T.array /\ k < c THEN <<>> ELSE <<Junk>>
          /\ a # T.array => \A k \in indices : bt[a][k] = IF k < c THEN <<>> ELSE <<Junk>>
      BY <1>1 DEF NewBuckets
    <3>4. CASE e = T.array
      BY <3>2, <3>3, <3>4
    <3>5. CASE e # T.array
      <4>1. e = a
        BY <1>1, <1>5, <3>5
      <4>. QED
        BY <3>3, <3>5, <4>1
    <3>. QED
      BY <3>4, <3>5
  <2>2. CASE bt[e][i] \in {<<>>, <<Junk>>}
    <3>1. Fits(kind, g, bt[e][i])
      BY <2>2, EmptyFits
    <3>. QED
      BY <1>5, <3>1 DEF Fits, Grouped
  <2>3. CASE bt[e][i] = bs[T.array][i] /\ i \in 0..(T.count - 1)
    BY <1>2, <2>3 DEF Grouped
  <2>. QED
    BY <2>1, <2>2, <2>3
<1>6. RehashTogether(kind, U, D, ht, bt, M)
  BY <1>4, <1>5, SoleTogether
<1>7. ASSUME kind.multi
      PROVE  RehashRings(kind, U, D, ht, g, bt, M)
  <2>1. CASE D.fast
    BY <1>5, <1>7, <2>1 DEF RehashRings
  <2>2. CASE ~D.fast
    <3>1. ASSUME NEW m \in M, Moves(kind, U, D, ht, m)
          PROVE  Alike(M, m) = {m, g[m]}
      <4>1. \/ full
            \/ a # T.array
            \/ hash_to_bucket_split(hs[Key[m]], c, c, kind.incremental) # Home(kind, T, hs, m)
        BY <1>1, <3>1 DEF Moves, Target, Home
      <4>2. Cardinality(Alike(M, m)) <= 2
        BY <1>1, <1>7, <2>2, <4>1 DEF BeginsGroups
      <4>3. \A i \in 0..(T.count - 1) : Together(bs[T.array][i]) /\ Ringed(g, bs[T.array][i])
        BY <1>2, <1>7 DEF Grouped
      <4>4. /\ kind \in Kinds /\ bs \in Memories /\ T \in Recs /\ M \in SUBSET Nodes
            /\ hs \in Hashings /\ Quiet(kind, bs, T, M, st, hs)
        BY <1>1
      <4>5. QuietRings(bs, T, M, st, hs, g)
        BY <4>3, <4>4 DEF QuietRings
      <4>. QED
        BY <3>1, <4>2, <4>5, PairsAtHome
    <3>2. ASSUME NEW i \in indices, NEW m \in Nodes, m \in Elems(bt[U.array][i])
          PROVE  D.full \/ i = Home(kind, U, ht, m)
      <4>1. i = Home(kind, T, hs, m)
        BY <1>1, <1>3, <3>2
      <4>. QED
        BY <1>1, <4>1 DEF Home
    <3>. QED
      BY <1>5, <1>7, <2>2, <3>1, <3>2 DEF RehashRings, Ringed
  <2>. QED
    BY <2>1, <2>2
<1>. QED
  BY <1>6, <1>7 DEF RehashGroups

\* The beginning of a rehash preserves the invariant about groups.
LEMMA RehashBeginsGroups ==
  ASSUME IBase, IGroups, NEW t \in Tables, NEW a \in arrays(t), NEW c \in bucket_counts,
         NEW full \in BOOLEAN, rehash_begins(t, a, c, full)
  PROVE  IGroups'
<1>1. PICK bt, T, M, ht, fast, n, first, U, D, as, tc :
        Begun(t, a, c, full, bt, T, M, ht, fast, n, first, U, D, as, tc)
  BY RehashBeginsIs
<1>2. /\ T = tab[t] /\ M = members[t]
      /\ Begins(buckets, bt, T, M, stored, hashing, ht, a, c, full, fast, n, first, U, D, as)
      /\ D.table = t
      /\ fast = fast_shrink(t, c, full)
      /\ tc = [tab EXCEPT ![t] = U]
      /\ hashing' = ht
      /\ IF full THEN pending' = None ELSE pending' = pending
      /\ buckets' = bt /\ tab' = tc /\ call' = D
      /\ UNCHANGED <<kind, group, stored, linked, members>>
  BY <1>1 DEF Begun
<1>3. idle
  BY DEF rehash_begins
<1>4. /\ kind \in Kinds /\ T \in Recs /\ M \in SUBSET Nodes /\ tab \in [Tables -> Recs]
  <2>1. Resting
    BY <1>3, IdleIs
  <2>. QED
    BY <1>2, <2>1, RestingIs
<1>5. \A i \in 0..(T.count - 1) : Grouped(kind, group, buckets[T.array][i])
  BY <1>2, <1>3, GroupsRest DEF bucket
<1>6. ASSUME kind.multi, ~fast, NEW m \in M,
             \/ full
             \/ a # T.array
             \/ hash_to_bucket_split(hashing[Key[m]], c, c, kind.incremental)
                  # Home(kind, T, hashing, m)
      PROVE  Cardinality(Alike(M, m)) <= 2
  <2>1. ~breaks_groups(t, a, c, full)
    BY DEF rehash_begins
  <2>2. home(t, Key[m]) = Home(kind, T, hashing, m)
    BY <1>2 DEF home, Home, priv_hash_to_nbucket
  <2>3. ~(Cardinality({x \in M : Key[x] = Key[m]}) > 2)
    BY <1>2, <1>6, <2>1, <2>2 DEF breaks_groups
  <2>4. Cardinality(Alike(M, m)) \in Nat
    <3>1. IsFiniteSet(Alike(M, m))
      BY <1>4, ElementAssumption, FS_Subset DEF Alike
    <3>. QED
      BY <3>1, FS_CardinalityType
  <2>5. ~(Cardinality(Alike(M, m)) > 2)
    BY <2>3 DEF Alike
  <2>. QED
    BY <2>4, <2>5
<1>7. BeginsGroups(buckets, bt, T, M, stored, hashing, ht, a, c, full, fast, n, first, U, D, as,
                   group)
  BY <1>2, <1>5, <1>6 DEF BeginsGroups
<1>8. RehashGroups(kind, U, D, ht, group, bt, M)
  BY <1>7, BeginsTogether
<1>9. /\ D.op = "rehash" /\ D.array = a /\ U.array = T.array
      /\ NewBuckets(buckets, bt, T, a, c)
  BY <1>2 DEF Begins
<1>10. tc[t] = U
  BY <1>2, <1>4
<1>11. WholeBut(kind, group, linked, bt, {T.array, a})
  <2>1. WholeBut(kind, group, linked, buckets, {})
    BY <1>3 DEF IGroups, idle
  <2>2. WholeBut(kind, group, linked, buckets, {T.array, a})
    BY <2>1 DEF WholeBut
  <2>3. \A e \in Arrays \ {T.array, a}, i \in indices : bt[e][i] = buckets[e][i]
    BY <1>9 DEF NewBuckets
  <2>. QED
    BY <2>2, <2>3, WholeFrame
<1>12. pending' # None => \A m \in members'[pending'.table] : Key[m] # pending'.key
  <2>1. pending # None => \A m \in members[pending.table] : Key[m] # pending.key
    BY DEF IGroups
  <2>. QED
    BY <1>2, <2>1
<1>13. /\ WholeBut(kind', group', linked', buckets', {tab'[D.table].array, D.array})
       /\ RehashGroups(kind', tab'[D.table], D, hashing', group', buckets', members'[D.table])
  BY <1>2, <1>8, <1>9, <1>10, <1>11
<1>. QED
  BY <1>2, <1>9, <1>12, <1>13 DEF IGroups
-----------------------------------------------------------------------------
(* Groups while a table grows.                                             *)

\* A group, or one element without optimize_multikey, goes from bucket b to the front of d.
GroupGoes(g, b, d, p, q, u, v, w) ==
  /\ b \in Seq(Nodes) /\ d \in Seq(Nodes) /\ Grouped(kind, g, b) /\ Grouped(kind, g, d)
  /\ GroupAt(b, p, q) /\ (kind.multi => p \in Starts(b))
  /\ u = Cut(b, p, q) /\ v = Piece(b, p, q) /\ w = v \o d
  /\ \A x \in DOMAIN b, y \in DOMAIN d : Key[b[x]] = Key[d[y]] =>
       ~kind.multi /\ Key[b[p]] = Key[b[x]] /\ Key[d[1]] = Key[b[x]]
  /\ \A x \in DOMAIN b : x < p => Key[b[x]] # Key[b[p]]

\* Both buckets keep their groups, and what b still has in common with d comes next.
LEMMA GroupGoesTogether ==
  ASSUME NEW g, NEW b, NEW d, NEW p, NEW q, NEW u, NEW v, NEW w, GroupGoes(g, b, d, p, q, u, v, w)
  PROVE  /\ Grouped(kind, g, u) /\ Grouped(kind, g, w)
         /\ \A x \in DOMAIN u, y \in DOMAIN w : Key[u[x]] = Key[w[y]] =>
              ~kind.multi /\ p <= Len(u) /\ Key[u[p]] = Key[u[x]] /\ Key[w[1]] = Key[u[x]]
         /\ kind.multi /\ p <= Len(u) => p \in Starts(u)
<1>1. /\ b \in Seq(Nodes) /\ d \in Seq(Nodes) /\ Together(b) /\ Together(d)
      /\ kind.multi => Ringed(g, b) /\ Ringed(g, d) /\ p \in Starts(b)
      /\ GroupAt(b, p, q)
      /\ u = Cut(b, p, q) /\ v = Piece(b, p, q) /\ w = v \o d
  BY DEF GroupGoes, Grouped
<1>2. \A x \in DOMAIN b, y \in DOMAIN d : Key[b[x]] = Key[d[y]] =>
        ~kind.multi /\ Key[b[p]] = Key[b[x]] /\ Key[d[1]] = Key[b[x]]
  BY DEF GroupGoes
<1>3. \A x \in DOMAIN b : x < p => Key[b[x]] # Key[b[p]]
  BY DEF GroupGoes
<1>4. /\ Len(b) \in Nat /\ Len(d) \in Nat /\ DOMAIN b = 1..Len(b) /\ DOMAIN d = 1..Len(d)
  BY <1>1
<1>5. /\ p \in Nat /\ q \in Nat /\ 1 <= p /\ p < q /\ p <= Len(b) /\ q <= Len(b) + 1
      /\ \A x \in p..(q - 1) : Key[b[x]] = Key[b[p]]
      /\ IF kind.multi THEN LastOf(b, p, q - 1) ELSE q = p + 1
  BY <1>1, <1>4 DEF GroupAt
<1>6. CutOf(u, b, p, q)
  BY <1>1, <1>5, CutIsCut
<1>7. PieceOf(v, b, p, q)
  BY <1>1, <1>5, PieceIsPiece
<1>8. JoinOf(w, v, d)
  BY <1>1, <1>7, JoinIsJoin DEF PieceOf
<1>9. /\ u \in Seq(Nodes) /\ Len(u) = Len(b) - (q - p) /\ DOMAIN u = 1..Len(u) /\ Len(u) \in Nat
      /\ \A x \in 1..Len(u) : u[x] = IF x < p THEN b[x] ELSE b[x + (q - p)]
  BY <1>6 DEF CutOf
<1>10. /\ v \in Seq(Nodes) /\ Len(v) = q - p /\ DOMAIN v = 1..Len(v)
       /\ \A x \in 1..Len(v) : v[x] = b[x + (p - 1)]
  BY <1>7 DEF PieceOf
<1>11. /\ w \in Seq(Nodes) /\ Len(w) = Len(v) + Len(d) /\ DOMAIN w = 1..Len(w)
       /\ \A x \in 1..Len(w) : w[x] = IF x <= Len(v) THEN v[x] ELSE d[x - Len(v)]
  BY <1>8 DEF JoinOf
<1>12. \A x \in 1..Len(v) : Key[v[x]] = Key[b[p]]
  <2>1. ASSUME NEW x \in 1..Len(v)
        PROVE  x + (p - 1) \in p..(q - 1)
    BY <1>5, <1>10
  <2>. QED
    BY <1>5, <1>10, <2>1
<1>13. \A x \in 1..Len(u) : /\ x < p => x \in DOMAIN b /\ u[x] = b[x]
                            /\ x >= p => x + (q - p) \in DOMAIN b /\ u[x] = b[x + (q - p)]
  BY <1>4, <1>5, <1>9
<1>14. ASSUME kind.multi, NEW z \in DOMAIN b, z < p \/ z >= q
       PROVE  Key[b[z]] # Key[b[p]]
  <2>1. CASE z < p
    BY <1>3, <2>1
  <2>2. CASE z >= q
    <3>1. LastOf(b, p, q - 1) /\ q \in DOMAIN b /\ p \in DOMAIN b
      BY <1>4, <1>5, <1>14, <2>2
    <3>2. (q - 1) + 1 = q
      BY <1>5
    <3>3. Key[b[q]] # Key[b[p]]
      BY <3>1, <3>2 DEF LastOf
    <3>4. p <= q /\ q <= z
      BY <1>5, <2>2
    <3>. QED
      BY <1>1, <3>1, <3>3, <3>4 DEF Together
  <2>. QED
    BY <1>14, <2>1, <2>2
<1>15. \A y \in 1..Len(w) : \/ y <= Len(v) /\ y \in 1..Len(v) /\ w[y] = v[y]
                            \/ y > Len(v) /\ y - Len(v) \in DOMAIN d /\ w[y] = d[y - Len(v)]
  BY <1>4, <1>10, <1>11
<1>16. ASSUME NEW x \in DOMAIN u, NEW y \in DOMAIN w, Key[u[x]] = Key[w[y]]
       PROVE  ~kind.multi /\ Key[u[x]] = Key[b[p]]
  <2>1. PICK z \in DOMAIN b : u[x] = b[z] /\ (z < p \/ z >= q)
    <3>1. CASE x < p
      BY <1>9, <1>13, <3>1
    <3>2. CASE x >= p
      <4>1. x + (q - p) >= q
        BY <1>5, <1>9, <3>2
      <4>. QED
        BY <1>9, <1>13, <3>2, <4>1
    <3>. QED
      BY <1>5, <1>9, <3>1, <3>2
  <2>2. CASE y \in 1..Len(v) /\ w[y] = v[y]
    <3>1. Key[b[z]] = Key[b[p]]
      BY <1>12, <1>16, <2>1, <2>2
    <3>. QED
      BY <1>14, <2>1, <3>1
  <2>3. CASE y - Len(v) \in DOMAIN d /\ w[y] = d[y - Len(v)]
    BY <1>2, <1>16, <2>1, <2>3
  <2>. QED
    BY <1>11, <1>15, <2>2, <2>3
<1>17. ASSUME NEW x \in DOMAIN u, NEW y \in DOMAIN w, Key[u[x]] = Key[w[y]]
       PROVE  ~kind.multi /\ p <= Len(u) /\ Key[u[p]] = Key[u[x]] /\ Key[w[1]] = Key[u[x]]
  <2>1. ~kind.multi /\ Key[u[x]] = Key[b[p]] /\ q = p + 1
    BY <1>5, <1>16, <1>17
  <2>2. x >= p
    BY <1>3, <1>5, <1>9, <1>13, <2>1
  <2>3. x \in Nat /\ x <= Len(u) /\ p <= Len(u) /\ x + 1 \in DOMAIN b /\ u[x] = b[x + 1]
    <3>1. q - p = 1
      BY <1>5, <2>1
    <3>. QED
      BY <1>5, <1>9, <1>13, <2>2, <3>1
  <2>4. p \in 1..Len(u) /\ p + 1 \in DOMAIN b /\ u[p] = b[p + 1]
    <3>1. q - p = 1 /\ p \in 1..Len(u)
      BY <1>5, <1>9, <2>1, <2>3
    <3>. QED
      BY <1>5, <1>13, <3>1
  <2>5. Key[b[p + 1]] = Key[b[p]]
    <3>1. p \in DOMAIN b /\ p <= p + 1 /\ p + 1 <= x + 1
      BY <1>4, <1>5, <2>2, <2>3
    <3>. QED
      BY <1>1, <2>1, <2>3, <2>4, <3>1 DEF Together
  <2>6. Key[w[1]] = Key[b[p]]
    <3>1. 1 \in 1..Len(v) /\ 1 \in 1..Len(w) /\ 1 <= Len(v)
      BY <1>4, <1>5, <1>10, <1>11
    <3>. QED
      BY <1>11, <1>12, <3>1
  <2>. QED
    BY <2>1, <2>3, <2>4, <2>5, <2>6
<1>18. ASSUME kind.multi, p <= Len(u)
       PROVE  p \in Starts(u)
  <2>1. p \in 1..Len(u) /\ q \in DOMAIN b /\ u[p] = b[q]
    <3>1. p \in 1..Len(u) /\ p + (q - p) = q
      BY <1>5, <1>18
    <3>. QED
      BY <1>5, <1>13, <3>1
  <2>2. ASSUME p > 1
        PROVE  Key[u[p]] # Key[u[p - 1]]
    <3>1. p - 1 \in 1..Len(u) /\ p - 1 < p
      BY <1>5, <1>18, <2>2
    <3>2. p - 1 \in DOMAIN b /\ u[p - 1] = b[p - 1]
      BY <1>13, <3>1
    <3>3. p \in DOMAIN b /\ p - 1 <= p /\ p <= q /\ p - 1 \in Nat
      BY <1>4, <1>5, <2>2
    <3>4. Key[b[p]] # Key[b[p - 1]]
      BY <1>1, <1>18, <2>2 DEF Starts
    <3>. QED
      BY <1>1, <2>1, <3>2, <3>3, <3>4 DEF Together
  <2>. QED
    BY <1>9, <2>1, <2>2 DEF Starts
<1>19. Together(u)
  BY <1>1, <1>6, TogetherCut
<1>20. Together(v)
  BY <1>1, <1>7, TogetherPiece
<1>21. CASE kind.multi
  <2>1. Ringed(g, u)
    <3> SUFFICES ASSUME NEW x \in DOMAIN u
                 PROVE  RingIn(g, u, x)
      BY DEF Ringed
    <3>1. PICK z : z = IF x < p THEN x ELSE x + (q - p)
      OBVIOUS
    <3>2. z \in DOMAIN b /\ u[x] = b[z] /\ (z < p \/ z >= q)
      <4>1. CASE x < p
        BY <1>9, <1>13, <3>1, <4>1
      <4>2. CASE x >= p
        <5>1. x + (q - p) >= q
          BY <1>5, <1>9, <4>2
        <5>. QED
          BY <1>5, <1>9, <1>13, <3>1, <4>2, <5>1
      <4>. QED
        BY <1>5, <1>9, <4>1, <4>2
    <3>3. \A y \in p..(q - 1) : Key[b[y]] # Key[u[x]]
      BY <1>5, <1>14, <1>21, <3>2
    <3>4. RingIn(g, b, IF x < p THEN x ELSE x + (q - p))
      BY <1>1, <1>21, <3>1, <3>2 DEF Ringed
    <3>. QED
      BY <1>1, <1>6, <3>3, <3>4, RingCut
  <2>2. Ringed(g, v)
    <3> SUFFICES ASSUME NEW x \in DOMAIN v
                 PROVE  RingIn(g, v, x)
      BY DEF Ringed
    <3>1. x + (p - 1) \in DOMAIN b
      BY <1>4, <1>5, <1>10
    <3>2. RingIn(g, b, x + (p - 1))
      BY <1>1, <1>21, <3>1 DEF Ringed
    <3>3. Key[v[x]] = Key[b[p]]
      BY <1>10, <1>12
    <3>4. \A z \in DOMAIN b : z < p \/ z >= q => Key[b[z]] # Key[v[x]]
      BY <1>14, <1>21, <3>3
    <3>. QED
      BY <1>1, <1>7, <3>2, <3>4, RingPiece
  <2>3. Unlike(v, d)
    <3>1. p \in DOMAIN b
      BY <1>4, <1>5
    <3>. QED
      BY <1>2, <1>10, <1>12, <1>21, <3>1 DEF Unlike
  <2>4. Ringed(g, w) /\ Together(w)
    BY <1>1, <1>8, <1>20, <1>21, <2>2, <2>3, RingJoin, TogetherJoin
  <2>. QED
    BY <1>17, <1>18, <1>19, <2>1, <2>4 DEF Grouped
<1>22. CASE ~kind.multi
  <2>1. PICK n : n = b[p]
    OBVIOUS
  <2>2. n \in Nodes /\ p \in DOMAIN b
    BY <1>1, <1>4, <1>5, <2>1
  <2>3. q - p = 1 /\ Len(v) = 1 /\ v[1] = n
    <3>1. q - p = 1 /\ Len(v) = 1
      BY <1>5, <1>10, <1>22
    <3>2. v[1] = b[1 + (p - 1)] /\ 1 + (p - 1) = p
      BY <1>5, <1>10, <3>1
    <3>. QED
      BY <2>1, <3>1, <3>2
  <2>4. PutOf(w, d, 1, n)
    BY <1>1, <1>4, <1>11, <2>2, <2>3 DEF PutOf
  <2>5. InFront(d, 1, n)
    <3>1. ASSUME NEW y \in DOMAIN d, Key[d[y]] = Key[n]
          PROVE  1 \in Starts(d) /\ Key[d[1]] = Key[n]
      <4>1. 1 \in DOMAIN d
        BY <1>4, <3>1
      <4>. QED
        BY <1>2, <2>1, <2>2, <3>1, <4>1 DEF Starts
    <3>. QED
      BY <3>1 DEF InFront
  <2>6. Together(w)
    BY <1>1, <2>4, <2>5, TogetherPut
  <2>. QED
    BY <1>17, <1>19, <1>22, <2>6 DEF Grouped
<1>. QED
  BY <1>21, <1>22

\* Two buckets of one array get something else.
Shifts(g, L, bs, cs, a, i, j, u, w) ==
  /\ WholeBut(kind, g, L, bs, {})
  /\ \A e \in Arrays, k \in indices :
       (e # a \/ k # i) /\ (e # a \/ k # j) => cs[e][k] = bs[e][k]
  /\ cs[a][i] = u /\ cs[a][j] = w
  /\ Grouped(kind, g, u) /\ Grouped(kind, g, w)

\* Two buckets that exchange elements and keep their groups whole leave all whole.
LEMMA ShiftsFit ==
  ASSUME NEW g, NEW L, NEW bs, NEW cs, NEW a, NEW i, NEW j, NEW u, NEW w,
         Shifts(g, L, bs, cs, a, i, j, u, w)
  PROVE  WholeBut(kind, g, L, cs, {})
<1>1. WholeBut(kind, g, L, bs, {})
  BY DEF Shifts
<1>2. ASSUME NEW e \in Arrays \ {}, NEW k \in indices
      PROVE  Fits(kind, g, cs[e][k])
  <2>1. CASE cs[e][k] = bs[e][k]
    BY <1>1, <2>1 DEF WholeBut
  <2>2. CASE cs[e][k] = u \/ cs[e][k] = w
    BY <2>2 DEF Shifts, Fits
  <2>. QED
    BY <2>1, <2>2 DEF Shifts
<1>. QED
  BY <1>1, <1>2 DEF WholeBut

\* A bucket that was not in use before holds nothing.
LEMMA NothingAbove ==
  ASSUME NEW bs, NEW T, NEW M, NEW st, NEW hs, NEW U, NEW D,
         StartsGrowing(bs, T, M, st, hs, U, D)
  PROVE  bs[T.array][D.to] = <<>>
<1>1. /\ kind \in Kinds /\ bs \in Memories /\ T \in Recs /\ M \in SUBSET Nodes /\ hs \in Hashings
      /\ Quiet(kind, bs, T, M, st, hs) /\ T.split < T.count /\ D.to = T.split
      /\ kind.incremental
  BY DEF StartsGrowing
<1>2. T.split \in Nat /\ T.count \in Nat /\ \A i \in 0..(T.count - 1) : i \in indices
  BY <1>1, RecIs
<1>3. T.split \in indices /\ T.split < T.count
  <2>1. T.split \in 0..(T.count - 1)
    BY <1>1, <1>2
  <2>. QED
    BY <1>1, <1>2, <2>1
<1>4. bs[T.array][T.split] \in Seq(Nodes)
  BY <1>1, <1>3 DEF Quiet, Kept
<1>5. ASSUME NEW n \in Nodes, n \in Elems(bs[T.array][T.split])
      PROVE  FALSE
  <2>1. T.split = Home(kind, T, hs, n)
    BY <1>1, <1>3, <1>5 DEF Quiet, AtHome
  <2>2. Shaped(kind, T)
    BY <1>1 DEF Quiet
  <2>3. Home(kind, T, hs, n) < T.split
    BY <1>1, <1>5, <2>2, HomeIs
  <2>. QED
    BY <1>2, <2>1, <2>3
<1>. QED
  BY <1>1, <1>4, <1>5, ElemsOfSeq

\* Hence no group reaches into it.
LEMMA GrowBeginsGroups ==
  ASSUME IBase, IGroups, NEW t \in Tables, grow_begins(t)
  PROVE  IGroups'
<1>1. /\ Resting /\ call = None
  BY IdleIs DEF grow_begins
<1>2. PICK T, M : T = tab[t] /\ M = members[t]
  OBVIOUS
<1>4. /\ kind \in Kinds /\ buckets \in Memories /\ hashing \in Hashings
      /\ tab \in [Tables -> Recs]
      /\ T \in Recs /\ M \in SUBSET Nodes
      /\ Quiet(kind, buckets, T, M, stored, hashing)
  BY <1>1, <1>2, RestingIs DEF Resting
<1>5. kind.incremental /\ T.split < T.count
  BY <1>2 DEF grow_begins
<1>6. PICK U : U = [T EXCEPT !.split = T.split + 1]
  BY Zenon
<1>7. /\ U \in Recs /\ U.array = T.array /\ U.count = T.count /\ U.split = T.split + 1
      /\ U.size = T.size /\ U.cache = T.cache /\ T.split \in Nat /\ T.array \in Arrays
  BY <1>4, <1>6 DEF Recs
<1>8. PICK D : D = [op |-> "grow", table |-> t, from |-> T.split - T.count \div 2,
                    to |-> T.split, before_i |-> 0]
  BY Zenon
<1>9. /\ D \in GrowCalls /\ D.op = "grow" /\ D.table = t /\ D.to = T.split
      /\ D.from = T.split - T.count \div 2 /\ D.before_i = 0
  <2>1. T.count \div 2 \in Nat /\ T.count \div 2 <= T.split
    BY <1>4, <1>5, RecIs DEF Quiet, Shaped
  <2>2. T.split - T.count \div 2 \in Nat
    BY <1>7, <2>1
  <2>. QED
    BY <1>7, <1>8, <2>2 DEF GrowCalls
<1>10. StartsGrowing(buckets, T, M, stored, hashing, U, D)
  BY <1>4, <1>5, <1>7, <1>9 DEF StartsGrowing
<1>11. buckets[T.array][D.to] = <<>>
  BY <1>10, NothingAbove
<1>12. GrowGroups(kind, U, D, buckets)
  <2>1. buckets[U.array][D.to] = <<>>
    BY <1>7, <1>11
  <2>. QED
    BY <1>9, <2>1 DEF GrowGroups, Starts
<1>13. tab' = [tab EXCEPT ![t] = U] /\ call' = D
  BY <1>2, <1>4, <1>6, <1>8 DEF grow_begins
<1>14. tab'[t] = U
  BY <1>4, <1>13
<1>15. UNCHANGED <<kind, buckets, group, stored, linked, hashing, pending, members>>
  BY DEF grow_begins
<1>16. /\ WholeBut(kind, group, linked, buckets, {})
       /\ pending # None => \A n \in members[pending.table] : Key[n] # pending.key
  BY <1>1 DEF IGroups, None
<1>17. WholeBut(kind', group', linked', buckets', {})
  BY <1>15, <1>16, Zenon
<1>18. GrowGroups(kind', tab'[t], D, buckets')
  BY <1>12, <1>14, <1>15
<1>. QED
  BY <1>9, <1>13, <1>15, <1>16, <1>17, <1>18 DEF IGroups

\* What the invariant says of the groups in the middle of a growth.
LEMMA GrowGroupsNow ==
  ASSUME IGroups, in("grow"), NEW T, T = tab[call.table]
  PROVE  /\ WholeBut(kind, group, linked, buckets, {})
         /\ GrowGroups(kind, T, call, buckets)
         /\ pending # None => \A n \in members[pending.table] : Key[n] # pending.key
BY DEF IGroups, in

\* A growth at the element n, in the terms of the groups.
GrowVisited(g, bs, T, M, st, hs, C, b, n, j, d) ==
  /\ GrowVisits(bs, T, M, st, hs, C, b, n, j)
  /\ GrowGroups(kind, T, C, bs)
  /\ b = bs[T.array][C.from] /\ d = bs[T.array][C.to]
  /\ Grouped(kind, g, b)

\* What has been passed is at home, and what is in the new bucket is.
LEMMA GrowVisitedHomes ==
  ASSUME NEW g, NEW bs, NEW T, NEW M, NEW st, NEW hs, NEW C, NEW b, NEW n, NEW j, NEW d,
         GrowVisited(g, bs, T, M, st, hs, C, b, n, j, d)
  PROVE  /\ \A y \in DOMAIN d : Home(kind, T, hs, d[y]) = C.to
         /\ \A x \in DOMAIN b : x < C.before_i + 1 => Home(kind, T, hs, b[x]) = C.from
         /\ C.from # C.to
<1>1. /\ GrowVisits(bs, T, M, st, hs, C, b, n, j) /\ b = bs[T.array][C.from]
      /\ d = bs[T.array][C.to] /\ GrowthUnderWay(bs, T, M, st, hs, C)
      /\ Growing(kind, bs, T, M, st, hs, C)
  BY DEF GrowVisited, GrowVisits, GrowthUnderWay
<1>2. /\ C.from \in Nat /\ C.to \in Nat /\ C.before_i \in Nat /\ C.from < C.to
      /\ C.from \in indices /\ C.to \in indices
      /\ d \in Seq(Nodes) /\ b \in Seq(Nodes)
  BY <1>1, GrowthIs
<1>3. ASSUME NEW y \in DOMAIN d
      PROVE  Home(kind, T, hs, d[y]) = C.to
  <2>1. d[y] \in Nodes /\ d[y] \in Elems(bs[T.array][C.to])
    BY <1>1, <1>2 DEF Elems
  <2>. QED
    BY <1>1, <1>2, <2>1 DEF Growing
<1>4. ASSUME NEW x \in DOMAIN b, x < C.before_i + 1
      PROVE  Home(kind, T, hs, b[x]) = C.from
  <2>1. x \in 1..C.before_i
    BY <1>2, <1>4
  <2>. QED
    BY <1>1, <2>1 DEF Growing
<1>. QED
  BY <1>2, <1>3, <1>4

\* An element that stays has no equals in the new bucket.
LEMMA StaysUnlike ==
  ASSUME NEW g, NEW bs, NEW T, NEW M, NEW st, NEW hs, NEW C, NEW b, NEW n, NEW j, NEW d,
         GrowVisited(g, bs, T, M, st, hs, C, b, n, j, d), j = C.from, NEW q, GroupAt(b, C.before_i + 1, q),
         NEW D, D.from = C.from, D.to = C.to, D.before_i = q - 1
  PROVE  GrowGroups(kind, T, D, bs)
<1>1. /\ GrowVisits(bs, T, M, st, hs, C, b, n, j) /\ b = bs[T.array][C.from]
      /\ d = bs[T.array][C.to] /\ GrowGroups(kind, T, C, bs) /\ n = b[C.before_i + 1]
      /\ j = Home(kind, T, hs, n) /\ Grouped(kind, g, b)
  BY DEF GrowVisited, GrowVisits
<1>2. /\ \A y \in DOMAIN d : Home(kind, T, hs, d[y]) = C.to
      /\ C.from # C.to
  BY GrowVisitedHomes
<1>3. ASSUME NEW x \in DOMAIN b, NEW y \in DOMAIN d, Key[b[x]] = Key[d[y]]
      PROVE  FALSE
  <2>1. Key[n] = Key[d[y]]
    BY <1>1, <1>3 DEF GrowGroups
  <2>2. Home(kind, T, hs, n) = Home(kind, T, hs, d[y])
    BY <2>1, HomeByKey
  <2>. QED
    BY <1>1, <1>2, <2>2
<1>4. /\ b \in Seq(Nodes) /\ Len(b) \in Nat /\ DOMAIN b = 1..Len(b)
  <2>1. GrowthUnderWay(bs, T, M, st, hs, C)
    BY <1>1, ZenonT(40) DEF GrowVisits
  <2>2. b \in Seq(Nodes)
    BY <1>1, <2>1, GrowthIs
  <2>. QED
    BY <2>2
<1>5. PICK p : p = C.before_i + 1
  OBVIOUS
<1>6. /\ p \in 1..Len(b) /\ q \in (p + 1)..(Len(b) + 1) /\ Key[b[q - 1]] = Key[b[p]]
      /\ kind.multi => LastOf(b, p, q - 1)
  <2>1. p \in 1..Len(b) /\ q \in (p + 1)..(Len(b) + 1) /\ GroupAt(b, p, q)
    BY <1>5 DEF GroupAt
  <2>2. q - 1 \in p..(q - 1)
    BY <2>1
  <2>. QED
    BY <2>1, <2>2 DEF GroupAt
<1>7. ASSUME kind.multi, D.before_i < Len(b)
      PROVE  D.before_i + 1 \in Starts(b)
  <2>1. D.before_i + 1 = q /\ q \in DOMAIN b /\ (q - 1) + 1 = q
    BY <1>4, <1>6, <1>7
  <2>2. Key[b[q]] # Key[b[p]]
    BY <1>6, <1>7, <2>1 DEF LastOf
  <2>. QED
    BY <1>6, <2>1, <2>2 DEF Starts
<1>. QED
  BY <1>1, <1>3, <1>7, ZenonT(40) DEF GrowGroups

\* An element that goes to the new bucket goes in front of its equals.
LEMMA GoesInFront ==
  ASSUME NEW g, NEW bs, NEW T, NEW M, NEW st, NEW hs, NEW C, NEW b, NEW n, NEW j, NEW d,
         GrowVisited(g, bs, T, M, st, hs, C, b, n, j, d), j = C.to, Grouped(kind, g, d),
         NEW p, p = C.before_i + 1,
         NEW q, GroupAt(b, p, q),
         NEW u, u = Cut(b, p, q), NEW v, v = Piece(b, p, q), NEW w, w = v \o d
  PROVE  GroupGoes(g, b, d, p, q, u, v, w)
<1>1. /\ GrowVisits(bs, T, M, st, hs, C, b, n, j) /\ b = bs[T.array][C.from]
      /\ d = bs[T.array][C.to] /\ GrowGroups(kind, T, C, bs) /\ n = b[p]
      /\ j = Home(kind, T, hs, n) /\ Grouped(kind, g, b) /\ C.before_i < Len(b)
      /\ GrowthUnderWay(bs, T, M, st, hs, C)
  BY DEF GrowVisited, GrowVisits
<1>2. b \in Seq(Nodes) /\ d \in Seq(Nodes)
  BY <1>1, GrowthIs
<1>3. /\ \A x \in DOMAIN b : x < p => Home(kind, T, hs, b[x]) = C.from
      /\ C.from # C.to
  BY GrowVisitedHomes
<1>4. ASSUME NEW x \in DOMAIN b, x < p
      PROVE  Key[b[x]] # Key[b[p]]
  <2>1. Home(kind, T, hs, b[x]) # Home(kind, T, hs, b[p])
    BY <1>1, <1>3, <1>4, ZenonT(40)
  <2>. QED
    BY <2>1, HomeByKey
<1>5. \A x \in DOMAIN b, y \in DOMAIN d : Key[b[x]] = Key[d[y]] =>
        ~kind.multi /\ Key[b[p]] = Key[b[x]] /\ Key[d[1]] = Key[b[x]]
  BY <1>1, ZenonT(40) DEF GrowGroups
<1>6. kind.multi => p \in Starts(b)
  BY <1>1 DEF GrowGroups
<1>. QED
  BY <1>1, <1>2, <1>4, <1>5, <1>6, ZenonT(40) DEF GroupGoes

\* A growth that moves a group moves all of it.
LEMMA GrowMovesGroups ==
  ASSUME IBase, IGroups, grow_moves
  PROVE  IGroups'
<1>1. PICK t, T, M, b, n, j, p, q, d, u, v, w, ns, cs, as :
        GrowStep(t, T, M, b, n, j, p, q, d, u, v, w, ns, cs, as)
  BY GrowMovesIs
<1>2. /\ GrowingNow(t, T, M)
      /\ b = buckets[T.array][call.from] /\ p = call.before_i + 1
      /\ GrowVisits(buckets, T, M, stored, hashing, call, b, n, j)
      /\ GroupAt(b, p, q) /\ d = buckets[T.array][j]
      /\ UNCHANGED <<kind, group, stored, linked, tab, hashing, pending, members>>
  BY <1>1 DEF GrowStep
<1>3. IF j = call.from THEN call' = [call EXCEPT !.before_i = q - 1] /\ buckets' = buckets
      ELSE /\ buckets' = cs /\ call' = call
           /\ Transfers(buckets, cs, T.array, call.from, p, q, T.array, j, b, d, u, v, w, ns)
  BY <1>1 DEF GrowStep
<1>4. /\ call \in GrowCalls /\ call.op = "grow" /\ T = tab[call.table] /\ T.array \in Arrays
      /\ GrowthUnderWay(buckets, T, M, stored, hashing, call)
  BY <1>2 DEF GrowingNow
<1>5. /\ WholeBut(kind, group, linked, buckets, {})
      /\ GrowGroups(kind, T, call, buckets)
      /\ pending # None => \A m \in members[pending.table] : Key[m] # pending.key
  BY <1>4, GrowGroupsNow DEF in
<1>6. /\ b \in Seq(Nodes)
      /\ j = call.from \/ j = call.to
  BY <1>2, GrowVisitIs
<1>7. /\ call.from \in indices /\ call.to \in indices /\ call.from # call.to
      /\ buckets[T.array][call.from] \in Seq(Nodes) /\ buckets[T.array][call.to] \in Seq(Nodes)
      /\ call.before_i \in Nat
  BY <1>4, GrowthIs
<1>8. PICK c : c = buckets[T.array][call.to]
  BY SMTT(15)
<1>9. Grouped(kind, group, b) /\ Grouped(kind, group, c)
  <2>1. \A e \in Arrays, k \in indices : Fits(kind, group, buckets[e][k])
    BY <1>5 DEF WholeBut
  <2>. QED
    BY <1>2, <1>4, <1>7, <1>8, <2>1 DEF Fits
<1>10. GrowVisited(group, buckets, T, M, stored, hashing, call, b, n, j, c)
  BY <1>2, <1>5, <1>8, <1>9 DEF GrowVisited
<1>11. CASE j = call.from
  <2>1. PICK D : D = [call EXCEPT !.before_i = q - 1]
    BY Zenon
  <2>2. SetPassed(call, D, q - 1)
    BY <2>1 DEF SetPassed
  <2>3. q - 1 \in Nat
    BY <1>2, <1>7 DEF GroupAt
  <2>4. /\ D \in GrowCalls /\ D.op = "grow" /\ D.table = call.table /\ D.from = call.from
        /\ D.to = call.to /\ D.before_i = q - 1
    BY <1>4, <2>2, <2>3, GrowPasses
  <2>5. GroupAt(b, call.before_i + 1, q)
    BY <1>2
  <2>6. GrowGroups(kind, T, D, buckets)
    BY <1>10, <1>11, <2>4, <2>5, StaysUnlike, Zenon
  <2>7. call' = D /\ buckets' = buckets
    BY <1>3, <1>11, <2>1
  <2>8. /\ WholeBut(kind', group', linked', buckets', {})
        /\ GrowGroups(kind', tab'[call.table], D, buckets')
    BY <1>2, <1>4, <1>5, <2>6, <2>7
  <2>. QED
    BY <1>2, <1>5, <2>4, <2>7, <2>8 DEF IGroups
<1>12. CASE j # call.from
  <2>1. /\ j = call.to /\ d = c /\ buckets' = cs /\ call' = call
        /\ Transfers(buckets, cs, T.array, call.from, p, q, T.array, j, b, d, u, v, w, ns)
    BY <1>2, <1>3, <1>6, <1>8, <1>12, SMTT(15)
  <2>2. u = Cut(b, p, q) /\ v = Piece(b, p, q) /\ w = v \o c
    BY <2>1 DEF Transfers
  <2>3. GroupGoes(group, b, c, p, q, u, v, w)
    BY <1>2, <1>9, <1>10, <2>1, <2>2, GoesInFront, Zenon
  <2>4. /\ Grouped(kind, group, u) /\ Grouped(kind, group, w)
        /\ \A x \in DOMAIN u, y \in DOMAIN w : Key[u[x]] = Key[w[y]] =>
             ~kind.multi /\ p <= Len(u) /\ Key[u[p]] = Key[u[x]] /\ Key[w[1]] = Key[u[x]]
        /\ kind.multi /\ p <= Len(u) => p \in Starts(u)
    BY <2>3, GroupGoesTogether
  <2>5. /\ Moved(buckets, cs, T.array, call.from, T.array, j, ns)
        /\ cs[T.array][call.from] = u /\ cs[T.array][j] = w
    BY <2>1, TransferMoves
  <2>6. Shifts(group, linked, buckets, cs, T.array, call.from, j, u, w)
    BY <1>5, <2>4, <2>5 DEF Shifts, Moved
  <2>7. WholeBut(kind, group, linked, cs, {})
    BY <2>6, ShiftsFit
  <2>8. GrowGroups(kind, T, call, cs)
    <3>1. cs[T.array][call.from] = u /\ cs[T.array][call.to] = w
      BY <2>1, <2>5
    <3>2. Len(u) \in Nat
      <4>1. u \in Seq(Nodes)
        BY <2>5 DEF Moved
      <4>. QED
        BY <4>1, ElemsOfSeq
    <3>3. p <= Len(u) <=> call.before_i < Len(u)
      BY <1>2, <1>7, <3>2, SMTT(15)
    <3>. QED
      BY <1>2, <2>4, <3>1, <3>3 DEF GrowGroups
  <2>9. /\ WholeBut(kind', group', linked', buckets', {})
        /\ GrowGroups(kind', tab'[call.table], call, buckets')
    BY <1>2, <1>4, <2>1, <2>7, <2>8
  <2>. QED
    BY <1>2, <1>4, <1>5, <2>1, <2>9 DEF IGroups
<1>. QED
  BY <1>11, <1>12

\* A completed growth leaves whole groups.
LEMMA GrowEndsGroups ==
  ASSUME IBase, IGroups, grow_ends
  PROVE  IGroups'
<1>1. /\ in("grow") /\ call' = None /\ outdated
      /\ UNCHANGED <<kind, buckets, group, stored, linked, hashing, members>>
  BY DEF grow_ends
<1>2. WholeBut(kind, group, linked, buckets, {})
  BY <1>1 DEF IGroups, in
<1>3. WholeBut(kind', group', linked', buckets', {})
  BY <1>1, <1>2
<1>4. pending' # None => \A n \in members'[pending'.table] : Key[n] # pending'.key
  BY <1>1, OutdatedAlone
<1>. QED
  BY <1>1, <1>3, <1>4, WholeIsGroupsStill

\* A bucket that is unlike another one is emptied into it.
PoursInto(g, L, bs, cs, T, i, j, as, ns, M) ==
  /\ kind \in Kinds /\ T \in Recs
  /\ MovesWhole(as, bs, cs, T.array, i, T.array, j, ns, M)
  /\ WholeBut(kind, g, L, bs, {})
  /\ Unlike(bs[T.array][i], bs[T.array][j])

\* A bucket that takes in another one with other keys leaves all groups whole.
LEMMA PoursFit ==
  ASSUME NEW g, NEW L, NEW bs, NEW cs, NEW T, NEW i, NEW j, NEW as, NEW ns, NEW M,
         PoursInto(g, L, bs, cs, T, i, j, as, ns, M)
  PROVE  WholeBut(kind, g, L, cs, {})
<1>1. /\ T \in Recs /\ MovesWhole(as, bs, cs, T.array, i, T.array, j, ns, M)
      /\ WholeBut(kind, g, L, bs, {})
      /\ Unlike(bs[T.array][i], bs[T.array][j])
  BY DEF PoursInto
<1>2. /\ bs \in Memories /\ as \in SUBSET Arrays /\ T.array \in as /\ T.array \in Arrays
      /\ i \in indices /\ j \in indices /\ i # j
      /\ Holds(bs, as, M) /\ ApartIn(as, bs)
      /\ cs = whole(bs, T.array, i, T.array, j) /\ ns = Elems(bs[T.array][i])
  BY <1>1, Zenon DEF MovesWhole
<1>3. PICK b : b = bs[T.array][i]
  OBVIOUS
<1>4. PICK d : d = bs[T.array][j]
  OBVIOUS
<1>5. b \in Seq(Nodes) /\ Distinct(b) /\ d \in Seq(Nodes) /\ Distinct(d) /\ Unlike(b, d)
  BY <1>1, <1>3, <1>4 DEF MovesWhole
<1>6. PICK q \in Nat : q = Len(b) + 1
  BY <1>5, ElemsOfSeq
<1>7. PICK u : u = Cut(b, 1, q)
  OBVIOUS
<1>8. PICK v : v = Piece(b, 1, q)
  OBVIOUS
<1>9. PICK w : w = v \o d
  BY Zenon
<1>10. PICK nv : nv = Elems(v)
  OBVIOUS
<1>11. cs = transferred(bs, T.array, i, 1, q, T.array, j)
  BY <1>2, <1>3, <1>6 DEF whole
<1>12. Elems(b) \cap Elems(d) = {}
  <2> SUFFICES ASSUME NEW m, m \in Elems(b), m \in Elems(d)
               PROVE  FALSE
    OBVIOUS
  <2>1. m \in Nodes
    BY <1>5, ElemsOfSeq
  <2>2. i = j
    BY <1>2, <1>3, <1>4, <2>1, Zenon DEF ApartIn
  <2>. QED
    BY <1>2, <2>2
<1>13. 1 \in Nat /\ 1 <= 1 /\ 1 <= q /\ q <= Len(b) + 1
  BY <1>6
<1>14. Transfers(bs, cs, T.array, i, 1, q, T.array, j, b, d, u, v, w, nv)
  BY <1>2, <1>3, <1>4, <1>5, <1>7, <1>8, <1>9, <1>10, <1>11, <1>12, <1>13 DEF Transfers
<1>15. /\ Moved(bs, cs, T.array, i, T.array, j, nv) /\ cs[T.array][i] = u /\ cs[T.array][j] = w
  BY <1>14, TransferMoves
<1>16. Grouped(kind, g, b) /\ Grouped(kind, g, d)
  <2>1. \A e \in Arrays, k \in indices : Fits(kind, g, bs[e][k])
    BY <1>1 DEF WholeBut
  <2>. QED
    BY <1>2, <1>3, <1>4, <1>5, <2>1 DEF Fits
<1>17. AllGoes(g, b, d, q, u, v, w)
  BY <1>5, <1>6, <1>7, <1>8, <1>9, <1>16 DEF AllGoes, Grouped
<1>18. /\ u = <<>>
       /\ w \in Seq(Nodes) /\ Together(w)
       /\ Ringed(g, b) /\ Ringed(g, d) => Ringed(g, w)
  BY <1>17, AllGoesTogether
<1>19. Grouped(kind, g, w) /\ Grouped(kind, g, u)
  <2>1. Together(<<>>) /\ Ringed(g, <<>>)
    BY DEF Together, Ringed
  <2>. QED
    BY <1>16, <1>18, <2>1 DEF Grouped
<1>20. Shifts(g, L, bs, cs, T.array, i, j, u, w)
  BY <1>1, <1>15, <1>19 DEF Shifts, Moved
<1>. QED
  BY <1>20, ShiftsFit

\* The rollback of a growth pours back what has no equals left in the old bucket.
LEMMA GrowThrowsGroups ==
  ASSUME IBase, IGroups, grow_throws
  PROVE  IGroups'
<1>1. PICK t, T, M : t = call.table /\ T = tab[t] /\ M = members[t]
  OBVIOUS
<1>2. /\ in("grow") /\ call.before_i < Len(grow_bucket) /\ ~separates_equals
      /\ buckets' = whole(buckets, T.array, call.to, T.array, call.from)
      /\ call' = None /\ pending' = pending
      /\ UNCHANGED <<kind, group, stored, linked, hashing, members>>
  BY <1>1 DEF grow_throws
<1>3. GrowingNow(t, T, M)
  BY <1>1, <1>2, GrowIsNow
<1>4. /\ buckets \in Memories /\ GrowthUnderWay(buckets, T, M, stored, hashing, call)
      /\ t \in Tables /\ T.array \in Arrays /\ T \in Recs /\ kind \in Kinds
      /\ Owned(tab, call, t) = {T.array}
      /\ Worked(t, Owned(tab, call, t), buckets, tab, members, stored, hashing, linked, call)
  BY <1>3 DEF GrowingNow
<1>5. /\ WholeBut(kind, group, linked, buckets, {})
      /\ GrowGroups(kind, T, call, buckets)
      /\ pending # None => \A m \in members[pending.table] : Key[m] # pending.key
  BY <1>1, <1>2, GrowGroupsNow
<1>6. PICK b : b = buckets[T.array][call.from]
  OBVIOUS
<1>7. PICK d : d = buckets[T.array][call.to]
  OBVIOUS
<1>8. /\ call.from \in indices /\ call.to \in indices /\ call.from < call.to
      /\ call.from \in Nat /\ call.to \in Nat
      /\ b \in Seq(Nodes) /\ Distinct(b) /\ d \in Seq(Nodes) /\ Distinct(d)
  BY <1>4, <1>6, <1>7, GrowthIs
<1>9. Unlike(d, b)
  <2> SUFFICES ASSUME NEW y \in DOMAIN d, NEW x \in DOMAIN b, Key[d[y]] = Key[b[x]]
               PROVE  FALSE
    BY DEF Unlike
  <2>1. Key[d[y]] = Key[b[call.before_i + 1]]
    BY <1>5, <1>6, <1>7 DEF GrowGroups
  <2>2. bucket(call.table, call.to) = d /\ grow_bucket = b
    BY <1>1, <1>6, <1>7 DEF grow_bucket, bucket
  <2>. QED
    BY <1>2, <2>1, <2>2 DEF separates_equals
<1>10. PICK as : as = {T.array}
  BY Zenon
<1>11. PICK ns : ns = Elems(buckets[T.array][call.to])
  OBVIOUS
<1>12. PICK cs : cs = whole(buckets, T.array, call.to, T.array, call.from)
  OBVIOUS
<1>13. as \in SUBSET Arrays /\ T.array \in as /\ Holds(buckets, as, M) /\ ApartIn(as, buckets)
  BY <1>1, <1>4, <1>10 DEF Worked
<1>14. call.to # call.from
  BY <1>8
<1>15. MovesWhole(as, buckets, cs, T.array, call.to, T.array, call.from, ns, M)
  BY <1>4, <1>6, <1>7, <1>8, <1>11, <1>12, <1>13, <1>14, Zenon DEF MovesWhole
<1>16. PoursInto(group, linked, buckets, cs, T, call.to, call.from, as, ns, M)
  BY <1>4, <1>5, <1>6, <1>7, <1>9, <1>15, Zenon DEF PoursInto
<1>17. WholeBut(kind, group, linked, cs, {})
  BY <1>16, PoursFit
<1>18. WholeBut(kind', group', linked', buckets', {})
  BY <1>2, <1>12, <1>17
<1>19. pending' # None => \A n \in members'[pending'.table] : Key[n] # pending'.key
  BY <1>2, <1>5
<1>. QED
  BY <1>2, <1>18, <1>19, WholeIsGroupsStill

\* A shrink pours a bucket into one with other hashes.
LEMMA ShrinkGroups ==
  ASSUME IBase, IGroups, NEW t \in Tables, shrink(t)
  PROVE  IGroups'
<1>0. idle /\ call = None /\ outdated /\ call' = call /\ UNCHANGED <<kind, group, linked, members>>
  BY IdleIs DEF shrink
<1>1. Resting
  BY <1>0, IdleIs
<1>2. PICK T : T = tab[t]
  OBVIOUS
<1>3. PICK M : M = members[t]
  OBVIOUS
<1>4. /\ kind \in Kinds /\ buckets \in Memories /\ hashing \in Hashings
      /\ tab \in [Tables -> Recs]
      /\ T \in Recs /\ M \in SUBSET Nodes
      /\ Quiet(kind, buckets, T, M, stored, hashing)
      /\ Rest(buckets, tab, members, stored, hashing, linked)
  BY <1>1, <1>2, <1>3, RestingIs DEF Resting
<1>5. /\ T.array \in Arrays /\ T.count \in Nat /\ T.split \in Nat
      /\ \A i \in 0..(T.count - 1) : i \in indices
  BY <1>4, RecIs
<1>6. kind.incremental /\ T.split > T.count \div 2
  BY <1>2 DEF shrink
<1>7. /\ Kept(buckets, T.array, T.count) /\ Holds(buckets, {T.array}, M) /\ Shaped(kind, T)
      /\ AtHome(kind, buckets, T, hashing)
  BY <1>4 DEF Quiet
<1>8. PICK h : h = T.count \div 2
  OBVIOUS
<1>9. PICK top : top = T.split - 1
  OBVIOUS
<1>10. PICK low : low = top - h
  OBVIOUS
<1>11. /\ top \in Nat /\ low \in Nat /\ low < top /\ top < T.count
  <2>1. h \in Nat /\ T.count = 2 * h /\ T.split <= T.count /\ T.split > h
    BY <1>5, <1>6, <1>7, <1>8 DEF Shaped
  <2>2. h > 0
    BY <1>5, <2>1
  <2>. QED
    BY <1>5, <1>9, <1>10, <2>1, <2>2
<1>12. low \in indices /\ top \in indices /\ low # top /\ low < T.count
  <2>1. low \in 0..(T.count - 1) /\ top \in 0..(T.count - 1)
    BY <1>5, <1>11
  <2>. QED
    BY <1>5, <1>11, <2>1
<1>b. PICK b : b = buckets[T.array][top]
  OBVIOUS
<1>d. PICK d : d = buckets[T.array][low]
  OBVIOUS
<1>13. b \in Seq(Nodes) /\ Distinct(b) /\ d \in Seq(Nodes) /\ Distinct(d)
  BY <1>7, <1>11, <1>12, <1>b, <1>d DEF Kept
<1>14. PICK as : as = {T.array}
  BY Zenon
<1>15. PICK ns : ns = Elems(buckets[T.array][top])
  OBVIOUS
<1>16. PICK cs : cs = whole(buckets, T.array, top, T.array, low)
  OBVIOUS
<1>17. as \in SUBSET Arrays /\ T.array \in as /\ Holds(buckets, as, M) /\ ApartIn(as, buckets)
  <2>1. Apart(buckets)
    BY <1>4, RestIsApart
  <2>. QED
    BY <1>5, <1>7, <1>14, <2>1 DEF Apart, ApartIn
<1>18. MovesWhole(as, buckets, cs, T.array, top, T.array, low, ns, M)
  BY <1>4, <1>12, <1>13, <1>15, <1>16, <1>17, <1>b, <1>d, Zenon DEF MovesWhole
<1>19. Unlike(b, d)
  <2> SUFFICES ASSUME NEW x \in DOMAIN b, NEW y \in DOMAIN d, Key[b[x]] = Key[d[y]]
               PROVE  FALSE
    BY DEF Unlike
  <2>1. b[x] \in Elems(b) /\ d[y] \in Elems(d) /\ b[x] \in Nodes /\ d[y] \in Nodes
    BY <1>13, ElemsOfSeq DEF Elems
  <2>2. top = Home(kind, T, hashing, b[x]) /\ low = Home(kind, T, hashing, d[y])
    BY <1>7, <1>12, <1>b, <1>d, <2>1 DEF AtHome
  <2>. QED
    BY <1>12, <2>2, HomeByKey
<1>20. WholeBut(kind, group, linked, buckets, {})
  BY <1>0 DEF IGroups, None
<1>21. PoursInto(group, linked, buckets, cs, T, top, low, as, ns, M)
  BY <1>4, <1>18, <1>19, <1>20, <1>b, <1>d, Zenon DEF PoursInto
<1>22. WholeBut(kind, group, linked, cs, {})
  BY <1>21, PoursFit
<1>23. buckets' = cs
  BY <1>2, <1>8, <1>9, <1>10, <1>16 DEF shrink
<1>24. WholeBut(kind', group', linked', buckets', {})
  BY <1>0, <1>22, <1>23
<1>25. pending' # None => \A n \in members'[pending'.table] : Key[n] # pending'.key
  BY <1>0, OutdatedAlone
<1>. QED
  BY <1>0, <1>24, <1>25, WholeIsGroupsStill

\* New buckets for an incremental rehash are the old ones, or empty.
LEMMA IncrementalRehashGroups ==
  ASSUME IBase, IGroups, NEW t \in Tables, NEW a \in arrays(t), NEW c \in bucket_counts,
         incremental_rehash(t, a, c)
  PROVE  IGroups'
<1>0. idle /\ call = None /\ outdated /\ call' = call /\ UNCHANGED <<kind, group, linked, members>>
  BY IdleIs DEF incremental_rehash
<1>1. Resting
  BY <1>0, IdleIs
<1>2. PICK T : T = tab[t]
  OBVIOUS
<1>4. /\ kind \in Kinds /\ buckets \in Memories
      /\ tab \in [Tables -> Recs] /\ T \in Recs
      /\ Quiet(kind, buckets, T, members[t], stored, hashing)
      /\ Rest(buckets, tab, members, stored, hashing, linked)
  BY <1>1, <1>2, RestingIs DEF Resting
<1>5. T.array \in Arrays
  BY <1>4, RecIs
<1>6. /\ kind.incremental
      /\ \/ c = 2 * T.count /\ T.split >= T.count
         \/ 2 * c = T.count /\ T.split <= c
  BY <1>2 DEF incremental_rehash
<1>7. c \in Nat
  BY <1>4, <1>6, BucketCounts, Zenon
<1>8. a \in Arrays /\ \A u \in Tables \ {t} : tab[u].array # a
  BY <1>1, ArraysAre
<1>9. PICK bt : bt = initialized(buckets, T, a, c)
  OBVIOUS
<1>10. PICK bu : bu = SplicedIn(bt, T, a)
  OBVIOUS
<1>11. PICK U : U = [T EXCEPT !.array = a, !.count = c]
  OBVIOUS
<1>12. PICK tc : tc = [tab EXCEPT ![t] = U]
  BY Zenon
<1>13. PICK cs : cs = given_up(bu, tc)
  OBVIOUS
<1>14. NewBuckets(buckets, bt, T, a, c)
  <2>1. Kept(buckets, T.array, T.count)
    BY <1>4 DEF Quiet
  <2>2. a # T.array => Kept(buckets, a, 0)
    <3> SUFFICES ASSUME a # T.array
                 PROVE  Kept(buckets, a, 0)
      OBVIOUS
    <3>1. \A u \in Tables : a # tab[u].array
      BY <1>2, <1>8
    <3>. QED
      BY <1>4, <1>8, <3>1 DEF Rest
  <2>. QED
    BY <1>4, <1>7, <1>8, <1>9, <2>1, <2>2, InitializedIs
<1>15. /\ bt \in Memories
       /\ \A e \in Arrays, i \in indices : e # T.array /\ e # a => bt[e][i] = buckets[e][i]
       /\ \A i \in indices :
            bt[T.array][i] = IF i < T.count THEN buckets[T.array][i]
                             ELSE IF a = T.array /\ i < c THEN <<>> ELSE <<Junk>>
       /\ a # T.array => \A i \in indices : bt[a][i] = IF i < c THEN <<>> ELSE <<Junk>>
  BY <1>14 DEF NewBuckets
<1>16. /\ bu \in Memories
       /\ \A e \in Arrays \ {a}, i \in indices : bu[e][i] = bt[e][i]
       /\ \A i \in indices : bu[a][i] = IF a # T.array /\ i \in T.cache..(T.split - 1)
                                        THEN bt[T.array][i] ELSE bt[a][i]
  <2>1. Splices(bt, T, a, bu)
    BY <1>4, <1>8, <1>10, <1>15 DEF Splices
  <2>2. IsSpliced(bt, T, a, bu)
    BY <2>1, SplicesIn
  <2>. QED
    BY <2>2 DEF IsSpliced
<1>17. \A e \in Arrays, i \in indices : cs[e][i] = bu[e][i] \/ cs[e][i] = <<Junk>>
  BY <1>13, <1>16, GivenUp
<1>18. \A e \in Arrays, i \in indices :
         bt[e][i] = buckets[e][i] \/ bt[e][i] = <<>> \/ bt[e][i] = <<Junk>>
  BY <1>15
<1>19. WholeBut(kind, group, linked, buckets, {})
  BY <1>0 DEF IGroups, None
<1>20. \A e \in Arrays, i \in indices : Fits(kind, group, bt[e][i])
  BY <1>18, <1>19, EmptyFits DEF WholeBut
<1>21. \A e \in Arrays, i \in indices : Fits(kind, group, bu[e][i])
  BY <1>5, <1>16, <1>20
<1>22. \A e \in Arrays \ {}, i \in indices : Fits(kind, group, cs[e][i])
  BY <1>17, <1>21, EmptyFits
<1>23. WholeBut(kind, group, linked, cs, {})
  BY <1>19, <1>22 DEF WholeBut
<1>24. /\ buckets' = cs /\ outdated
  BY <1>2, <1>4, <1>9, <1>10, <1>11, <1>12, <1>13 DEF incremental_rehash, SplicedIn
<1>25. WholeBut(kind', group', linked', buckets', {})
  BY <1>0, <1>23, <1>24
<1>26. pending' # None => \A n \in members'[pending'.table] : Key[n] # pending'.key
  BY <1>0, OutdatedAlone
<1>. QED
  BY <1>0, <1>25, <1>26, WholeIsGroupsStill
=============================================================================
