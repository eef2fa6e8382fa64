--------------------------- MODULE HashGrowProofs ---------------------------
(***************************************************************************)
(* The calls of HashCalls that grow and shrink a table whose rehash is     *)
(* incremental, and the one that clones a table, preserve the inductive    *)
(* invariant of HashTableProofs; hence so does every step, while groups    *)
(* are whole.                                                              *)
(***************************************************************************)
EXTENDS HashRehashProofs

(* Growth: the elements of one bucket are distributed over two.             *)

\* Where an element comes to be if there is one bucket more in use.
OneMore(x, c, s, h, i, old, new) ==
  /\ x \in Nat /\ c \in Nat /\ s \in Nat /\ h \in Nat /\ c = 2 * h /\ h <= s /\ s < c
  /\ i \in BOOLEAN /\ i
  /\ old = hash_to_bucket_split(x, c, s, i) /\ new = hash_to_bucket_split(x, c, s + 1, i)

\* An element of the bucket that is split stays or goes to the new one, the others stay.
LEMMA GrowsHome ==
  ASSUME NEW x, NEW c, NEW s, NEW h, NEW i, NEW old, NEW new, OneMore(x, c, s, h, i, old, new)
  PROVE  /\ old # s
         /\ old = s - h => new = s - h \/ new = s
         /\ old # s - h => new = old
<1>1. /\ x \in Nat /\ c \in Nat /\ s \in Nat /\ h \in Nat /\ c = 2 * h /\ h <= s /\ s < c
      /\ c > 0 /\ c \div 2 = h
  BY DEF OneMore
<1>2. x % c \in 0..(c - 1)
  BY <1>1, DivMod
<1>3. PICK r \in 0..(c - 1) : r = x % c
  BY <1>2
<1>4. old = IF r >= s THEN r - h ELSE r
  BY <1>1, <1>3 DEF OneMore, hash_to_bucket_split
<1>5. new = IF r >= s + 1 THEN r - h ELSE r
  BY <1>1, <1>3 DEF OneMore, hash_to_bucket_split
<1>6. r \in Nat /\ r < 2 * h /\ s \in Nat /\ h \in Nat /\ h <= s
  BY <1>1, <1>3
<1>7. CASE r < s
  <2>1. old = r /\ new = r
    BY <1>4, <1>5, <1>6, <1>7
  <2>. QED
    BY <1>6, <1>7, <2>1
<1>8. CASE r = s
  <2>1. old = r - h /\ new = r
    BY <1>4, <1>5, <1>6, <1>8
  <2>. QED
    BY <1>6, <1>8, <2>1
<1>9. CASE r > s
  <2>1. old = r - h /\ new = r - h
    BY <1>4, <1>5, <1>6, <1>9
  <2>. QED
    BY <1>6, <1>9, <2>1
<1>. QED
  BY <1>6, <1>7, <1>8, <1>9

\* Table T, which is then U, begins the growth D.
StartsGrowing(bs, T, M, st, hs, U, D) ==
  /\ kind \in Kinds /\ bs \in Memories /\ T \in Recs /\ M \in SUBSET Nodes /\ hs \in Hashings
  /\ Quiet(kind, bs, T, M, st, hs)
  /\ kind.incremental /\ T.split < T.count
  /\ U \in Recs /\ U.array = T.array /\ U.count = T.count /\ U.split = T.split + 1
  /\ U.size = T.size /\ U.cache = T.cache
  /\ D \in GrowCalls /\ D.to = T.split /\ D.from = T.split - T.count \div 2 /\ D.before_i = 0

\* A growth begins with every element in its old home.
LEMMA StartsGrowth ==
  ASSUME NEW bs, NEW T, NEW M, NEW st, NEW hs, NEW U, NEW D,
         StartsGrowing(bs, T, M, st, hs, U, D)
  PROVE  Growing(kind, bs, U, M, st, hs, D)
<1>1. /\ kind \in Kinds /\ bs \in Memories /\ T \in Recs /\ M \in SUBSET Nodes /\ hs \in Hashings
      /\ Quiet(kind, bs, T, M, st, hs)
      /\ kind.incremental /\ T.split < T.count
      /\ U \in Recs /\ U.array = T.array /\ U.count = T.count /\ U.split = T.split + 1
      /\ U.size = T.size /\ U.cache = T.cache
      /\ D \in GrowCalls /\ D.to = T.split /\ D.from = T.split - T.count \div 2 /\ D.before_i = 0
  BY DEF StartsGrowing
<1>2. /\ Kept(bs, T.array, T.count) /\ Holds(bs, {T.array}, M) /\ AtHome(kind, bs, T, hs)
      /\ Hashed(kind, M, st, hs) /\ Cached(kind, bs, T) /\ Sized(kind, T.size, M)
      /\ Shaped(kind, T)
  BY <1>1 DEF Quiet
<1>3. PICK c : c = T.count
  OBVIOUS
<1>4. PICK s : s = T.split
  OBVIOUS
<1>5. PICK h : h = T.count \div 2
  OBVIOUS
<1>6. c \in Nat /\ s \in Nat /\ h \in Nat /\ c = 2 * h /\ h <= s /\ s < c
  <2>1. c \in Nat /\ s \in Nat
    BY <1>1, <1>3, <1>4, RecIs
  <2>2. c = 2 * h /\ h <= s
    BY <1>1, <1>2, <1>3, <1>4, <1>5 DEF Shaped
  <2>3. h \in Nat
    BY <1>3, <1>5, <2>1
  <2>. QED
    BY <1>1, <1>3, <1>4, <2>1, <2>2, <2>3
<1>7. D.to = s /\ D.from = s - h /\ D.from \in Nat /\ D.from < c
  BY <1>1, <1>4, <1>5, <1>6
<1>8. Shaped(kind, U) /\ D.to + 1 = U.split /\ D.from + U.count \div 2 = D.to
  <2>1. U.count = c /\ U.count \div 2 = h /\ U.split = s + 1
    BY <1>1, <1>3, <1>4, <1>5
  <2>. QED
    BY <1>1, <1>6, <1>7, <2>1 DEF Shaped
<1>9. D.before_i <= Len(bs[U.array][D.from])
  <2>1. D.from \in 0..(T.count - 1)
    BY <1>3, <1>6, <1>7
  <2>2. D.from \in indices
    BY <1>1, <2>1, RecIs
  <2>3. bs[T.array][D.from] \in Seq(Nodes)
    BY <1>2, <1>3, <1>7, <2>2 DEF Kept
  <2>4. Len(bs[T.array][D.from]) \in Nat
    BY <2>3, ElemsOfSeq
  <2>. QED
    BY <1>1, <2>4
<1>10. ASSUME NEW i \in indices, NEW n \in Nodes, n \in Elems(bs[U.array][i])
       PROVE  i = Home(kind, U, hs, n) \/ (i = D.from /\ D.to = Home(kind, U, hs, n))
  <2>1. i = Home(kind, T, hs, n)
    BY <1>1, <1>2, <1>10 DEF AtHome
  <2>2. PICK x \in Nat : x = hs[Key[n]]
    BY <1>1, HashIs
  <2>3. PICK k \in BOOLEAN : k = kind.incremental
    BY <1>1, KindIs, Zenon
  <2>4. PICK old : old = hash_to_bucket_split(x, c, s, k)
    OBVIOUS
  <2>5. PICK new : new = hash_to_bucket_split(x, c, s + 1, k)
    OBVIOUS
  <2>7. Home(kind, T, hs, n) = old /\ Home(kind, U, hs, n) = new
    BY <1>1, <1>3, <1>4, <2>2, <2>3, <2>4, <2>5 DEF Home
  <2>8. k
    BY <1>1, <2>3
  <2>6. /\ old # s
        /\ old = s - h => new = s - h \/ new = s
        /\ old # s - h => new = old
    <3>1. OneMore(x, c, s, h, k, old, new)
      BY <1>6, <2>4, <2>5, <2>8 DEF OneMore
    <3>. QED
      BY <3>1, GrowsHome
  <2>. QED
    BY <1>7, <2>1, <2>6, <2>7
<1>11. \A x \in 1..D.before_i : FALSE
  BY <1>1
<1>12. IF kind.cache THEN /\ U.cache <= U.count /\ U.cache # D.to
                          /\ \A k \in 0..(U.cache - 1) : bs[U.array][k] = <<>>
                          /\ U.cache < U.count /\ U.cache # D.from => bs[U.array][U.cache] # <<>>
       ELSE U.cache = 0
  <2>1. CASE ~kind.cache
    BY <1>1, <1>2, <2>1 DEF Cached
  <2>2. CASE kind.cache
    <3>1. IsFirst(bs, T.array, T.count, T.cache)
      BY <1>2, <2>2 DEF Cached
    <3>2. T.cache <= T.count
      BY <1>3, <1>6, <3>1 DEF IsFirst
    <3>3. ASSUME T.cache = D.to
          PROVE  FALSE
      <4>1. T.cache < T.count /\ T.cache \in 0..(T.count - 1)
        BY <1>3, <1>6, <1>7, <3>3
      <4>2. bs[T.array][T.cache] # <<>> /\ T.cache \in indices
        BY <1>1, <3>1, <4>1, RecIs DEF IsFirst
      <4>3. bs[T.array][T.cache] \in Seq(Nodes)
        BY <1>2, <4>1, <4>2 DEF Kept
      <4>4. PICK n \in Nodes : n \in Elems(bs[T.array][T.cache])
        BY <4>2, <4>3, ElemsOfSeq
      <4>5. T.cache = Home(kind, T, hs, n) /\ Home(kind, T, hs, n) < T.split
        BY <1>1, <1>2, <4>2, <4>4, HomeIs DEF AtHome
      <4>. QED
        BY <1>4, <1>6, <1>7, <3>3, <4>5
    <3>. QED
      BY <1>1, <2>2, <3>1, <3>2, <3>3 DEF IsFirst
  <2>. QED
    BY <2>1, <2>2
<1>. QED
  BY <1>1, <1>2, <1>8, <1>9, <1>10, <1>11, <1>12 DEF Growing

\* grow_begins preserves the invariant.
LEMMA GrowBeginsBase ==
  ASSUME IBase, NEW t \in Tables, grow_begins(t)
  PROVE  IBase'
<1>1. /\ Resting /\ call = None
      /\ pending = None \/ Committable(kind, tab, hashing, call, pending)
      /\ ~kind.multi => group = [n \in Nodes |-> Junk]
  BY IdleIs DEF grow_begins
<1>2. PICK T : T = tab[t]
  OBVIOUS
<1>3. PICK M : M = members[t]
  OBVIOUS
<1>4. /\ kind \in Kinds /\ buckets \in Memories /\ hashing \in Hashings
      /\ stored \in [Nodes -> Nat \cup {Junk}]
      /\ tab \in [Tables -> Recs] /\ members \in [Tables -> SUBSET Nodes]
      /\ T \in Recs /\ M \in SUBSET Nodes
      /\ Quiet(kind, buckets, T, M, stored, hashing)
      /\ Rest(buckets, tab, members, stored, hashing, linked)
  BY <1>1, <1>2, <1>3, RestingIs DEF Resting
<1>5. kind.incremental /\ T.split < T.count
  BY <1>2 DEF grow_begins
<1>6. PICK U : U = [T EXCEPT !.split = T.split + 1]
  BY Zenon
<1>7. /\ U \in Recs /\ U.array = T.array /\ U.count = T.count /\ U.split = T.split + 1
      /\ U.size = T.size /\ U.cache = T.cache /\ T.split \in Nat /\ T.array \in Arrays
  BY <1>4, <1>6 DEF Recs
<1>8. PICK D : D = [op |-> "grow", table |-> t, from |-> T.split - T.count \div 2,
                    to |-> T.split, before_i |-> 0]
  BY Zenon
<1>9. /\ D \in GrowCalls /\ D.op = "grow" /\ D.table = t /\ D.to = T.split
      /\ D.from = T.split - T.count \div 2 /\ D.before_i = 0
  <2>1. T.count \div 2 \in Nat /\ T.count \div 2 <= T.split
    BY <1>4, <1>5, RecIs DEF Quiet, Shaped
  <2>2. T.split - T.count \div 2 \in Nat
    BY <1>7, <2>1
  <2>. QED
    BY <1>7, <1>8, <2>2 DEF GrowCalls
<1>10. StartsGrowing(buckets, T, M, stored, hashing, U, D)
  BY <1>4, <1>5, <1>7, <1>9 DEF StartsGrowing
<1>11. Growing(kind, buckets, U, M, stored, hashing, D)
  BY <1>10, StartsGrowth
<1>12. PICK tc : tc = [tab EXCEPT ![t] = U]
  BY Zenon
<1>13. /\ tc[t] = U /\ \A u \in Tables : tc[u].count = tab[u].count
       /\ \A u \in Tables \ {t} : tc[u] = tab[u]
  BY <1>2, <1>4, <1>7, <1>12
<1>14. PICK as : as = {T.array}
  BY Zenon
<1>15. Others(t, as, buckets, tab, members, stored, hashing, linked)
  BY <1>2, <1>4, <1>14, RestIsOthers
<1>16. Others(t, as, buckets, tc, members, stored, hashing, linked)
  <2>1. /\ \A u, v \in Tables, m \in Nodes : m \in members[u] /\ m \in members[v] => u = v
        /\ linked = UNION {members[u] : u \in Tables}
        /\ \A u \in Tables \ {t} : tab[u].array \notin as
        /\ \A e \in Arrays \ as : (\A u \in Tables \ {t} : e # tab[u].array) => Kept(buckets, e, 0)
    BY <1>15, Zenon DEF Others
  <2>2. members = [members EXCEPT ![t] = M] /\ linked = (linked \ members[t]) \cup M
    BY <1>3, <1>4, <2>1
  <2>3. \A u \in Tables \ {t} : \A m \in members[u] : m \notin M
    BY <1>3, <1>4, <2>1
  <2>4. as \in SUBSET Arrays
    BY <1>7, <1>14
  <2>5. Leaves(t, as, as, buckets, tab, members, stored, hashing, linked, buckets, U, M, stored,
               hashing, tc, members, linked)
    BY <1>4, <1>7, <1>12, <1>15, <2>1, <2>2, <2>3, <2>4, Zenon DEF Leaves
  <2>. QED
    BY <2>5, OthersFrame, Zenon
<1>17. Holds(buckets, as, M) /\ ApartIn(as, buckets)
  <2>1. Apart(buckets)
    BY <1>4, RestIsApart
  <2>. QED
    BY <1>4, <1>7, <1>14, <2>1 DEF Quiet, ApartIn, Apart
<1>18. as = Owned(tc, D, t) /\ as \in SUBSET Arrays
  BY <1>7, <1>9, <1>13, <1>14 DEF Owned
<1>19. Worked(t, as, buckets, tc, members, stored, hashing, linked, D)
  BY <1>3, <1>9, <1>11, <1>13, <1>16, <1>17, <1>18 DEF Worked
<1>20. pending = None \/ Committable(kind, tc, hashing, D, pending)
  <2> SUFFICES ASSUME pending # None
               PROVE  Committable(kind, tc, hashing, D, pending)
    OBVIOUS
  <2>1. Committable(kind, tab, hashing, call, pending)
    BY <1>1
  <2>2. pending.table \in Tables
    BY <2>1 DEF Committable, Commits
  <2>3. call.op # "grow"
    BY <1>1 DEF None
  <2>4. (IF D.table = pending.table THEN tc[pending.table].split - 1 ELSE tc[pending.table].split)
        = tab[pending.table].split
    BY <1>2, <1>7, <1>9, <1>13, <2>2
  <2>. QED
    BY <1>9, <1>13, <2>1, <2>2, <2>3, <2>4 DEF Committable
<1>21. /\ tab' = tc /\ call' = D
       /\ UNCHANGED <<kind, buckets, group, stored, linked, hashing, pending, members>>
  BY <1>2, <1>6, <1>8, <1>12 DEF grow_begins
<1>22. /\ kind' = kind
       /\ Worked(t, as, buckets', tab', members', stored', hashing', linked', call')
       /\ pending' = None \/ Committable(kind, tab', hashing', call', pending')
       /\ ~kind.multi => group' = [m \in Nodes |-> Junk]
  BY <1>1, <1>19, <1>20, <1>21
<1>. QED
  BY <1>4, <1>22, WorkedIsBase, Zenon

\* What a growth that is under way is.
GrowthUnderWay(bs, T, M, st, hs, C) ==
  /\ kind \in Kinds /\ bs \in Memories /\ T \in Recs /\ M \in SUBSET Nodes /\ hs \in Hashings
  /\ Growing(kind, bs, T, M, st, hs, C)

\* The table and the two buckets of a growth in progress.
LEMMA GrowthIs ==
  ASSUME NEW bs, NEW T, NEW M, NEW st, NEW hs, NEW C, GrowthUnderWay(bs, T, M, st, hs, C)
  PROVE  /\ C \in GrowCalls /\ C.op = "grow" /\ C.from \in Nat /\ C.to \in Nat /\ C.before_i \in Nat
         /\ T.array \in Arrays /\ T.count \in Nat /\ T.split \in Nat /\ T.cache \in Nat
         /\ C.from < C.to /\ C.to < T.count /\ C.from < T.count
         /\ C.from \in indices /\ C.to \in indices
         /\ bs[T.array][C.from] \in Seq(Nodes) /\ Distinct(bs[T.array][C.from])
         /\ bs[T.array][C.to] \in Seq(Nodes) /\ Distinct(bs[T.array][C.to])
         /\ C.before_i <= Len(bs[T.array][C.from])
         /\ \A i \in indices : i \in Nat
<1>1. /\ C \in GrowCalls /\ C.to + 1 = T.split /\ C.from + T.count \div 2 = C.to
      /\ Shaped(kind, T) /\ kind.incremental
      /\ Kept(bs, T.array, T.count) /\ T \in Recs
      /\ C.before_i <= Len(bs[T.array][C.from])
  BY DEF GrowthUnderWay, Growing
<1>2. C.op = "grow" /\ C.from \in Nat /\ C.to \in Nat /\ C.before_i \in Nat
  BY <1>1 DEF GrowCalls
<1>3. /\ T.array \in Arrays /\ T.count \in Nat /\ 1 <= T.count /\ T.split \in Nat /\ T.cache \in Nat
      /\ \A i \in 0..(T.count - 1) : i \in indices
  BY <1>1, RecIs
<1>4. T.count = 2 * (T.count \div 2) /\ T.split <= T.count
  BY <1>1 DEF Shaped
<1>5. PICK h : h = T.count \div 2
  OBVIOUS
<1>6. h \in Nat /\ T.count = 2 * h
  BY <1>3, <1>4, <1>5
<1>7. C.from + h = C.to
  BY <1>1, <1>5
<1>8. C.from < C.to /\ C.to < T.count
  BY <1>1, <1>2, <1>3, <1>4, <1>6, <1>7
<1>9. C.from < T.count /\ C.from \in 0..(T.count - 1) /\ C.to \in 0..(T.count - 1)
  BY <1>2, <1>3, <1>8
<1>10. C.from \in indices /\ C.to \in indices
  BY <1>3, <1>9
<1>11. /\ bs[T.array][C.from] \in Seq(Nodes) /\ Distinct(bs[T.array][C.from])
       /\ bs[T.array][C.to] \in Seq(Nodes) /\ Distinct(bs[T.array][C.to])
  BY <1>1, <1>8, <1>9, <1>10 DEF Kept
<1>12. \A i \in indices : i \in Nat
  BY CountIs DEF indices
<1>. QED
  BY <1>1, <1>2, <1>3, <1>8, <1>9, <1>10, <1>11, <1>12

\* The loop of C comes to element n, which belongs into bucket j.
GrowVisits(bs, T, M, st, hs, C, b, n, j) ==
  /\ GrowthUnderWay(bs, T, M, st, hs, C)
  /\ b = bs[T.array][C.from] /\ C.before_i < Len(b) /\ n = b[C.before_i + 1]
  /\ j = Home(kind, T, hs, n)

\* What the loop knows of the element it has come to.
LEMMA GrowVisitIs ==
  ASSUME NEW bs, NEW T, NEW M, NEW st, NEW hs, NEW C, NEW b, NEW n, NEW j,
         GrowVisits(bs, T, M, st, hs, C, b, n, j)
  PROVE  /\ b \in Seq(Nodes) /\ Distinct(b) /\ Len(b) \in Nat /\ DOMAIN b = 1..Len(b)
         /\ C.before_i + 1 \in 1..Len(b)
         /\ n \in Nodes /\ n \in M /\ n \in Elems(b)
         /\ j = C.from \/ j = C.to
         /\ kind.store => st[n] = hs[Key[n]]
<1>1. /\ Growing(kind, bs, T, M, st, hs, C) /\ GrowthUnderWay(bs, T, M, st, hs, C)
      /\ b = bs[T.array][C.from] /\ C.before_i < Len(b) /\ n = b[C.before_i + 1]
      /\ j = Home(kind, T, hs, n)
  BY DEF GrowVisits, GrowthUnderWay
<1>2. /\ C.before_i \in Nat /\ C.from \in indices /\ b \in Seq(Nodes) /\ Distinct(b)
  BY <1>1, GrowthIs
<1>3. Len(b) \in Nat /\ DOMAIN b = 1..Len(b) /\ \A m : m \in Elems(b) <=> \E x \in 1..Len(b) : b[x] = m
  BY <1>2, ElemsOfSeq, SMTT(15)
<1>4. C.before_i + 1 \in 1..Len(b)
  BY <1>1, <1>2, <1>3, SMTT(15)
<1>5. n \in Elems(b)
  BY <1>1, <1>3, <1>4
<1>6. n \in Nodes
  BY <1>2, <1>5, ElemsOfSeq, SMTT(15)
<1>7. Holds(bs, {T.array}, M) /\ Hashed(kind, M, st, hs)
  BY <1>1, SMTT(15) DEF Growing
<1>8. n \in M
  BY <1>1, <1>2, <1>5, <1>6, <1>7, SMTT(15) DEF Holds
<1>9. j = C.from \/ j = C.to
  BY <1>1, <1>2, <1>5, <1>6 DEF Growing
<1>10. kind.store => st[n] = hs[Key[n]]
  BY <1>7, <1>8 DEF Hashed
<1>. QED
  BY <1>2, <1>3, <1>4, <1>5, <1>6, <1>8, <1>9, <1>10

\* The elements of b from p to q - 1 are a group, or one element if nothing links them.
GroupAt(b, p, q) ==
  /\ p \in 1..Len(b) /\ q \in (p + 1)..(Len(b) + 1)
  /\ \A x \in p..(q - 1) : Key[b[x]] = Key[b[p]]
  /\ IF kind.multi THEN LastOf(b, p, q - 1) ELSE q = p + 1

\* last_in_group finds the end of a group from its beginning.
LEMMA GroupEnds ==
  ASSUME NEW b \in Seq(Nodes), Distinct(b), Grouped(kind, group, b), NEW p \in DOMAIN b,
         kind.multi => p \in Starts(b), NEW q, q = Place(b, last_in_group(b[p])) + 1
  PROVE  GroupAt(b, p, q) /\ Place(b, last_in_group(b[p])) = q - 1
<1>1. Len(b) \in Nat /\ DOMAIN b = 1..Len(b)
  OBVIOUS
<1>2. CASE ~kind.multi
  <2>1. Place(b, b[p]) = p
    BY DEF Distinct, Place
  <2>2. q = p + 1 /\ p..(q - 1) = {p}
    BY <1>1, <1>2, <2>1 DEF last_in_group
  <2>. QED
    BY <1>1, <1>2, <2>1, <2>2 DEF GroupAt, last_in_group
<1>3. CASE kind.multi
  <2>1. Together(b) /\ Ringed(group, b)
    BY <1>3 DEF Grouped
  <2>2. PICK y \in DOMAIN b : LastOf(b, p, y)
    BY <2>1, LastExists
  <2>3. group[b[p]] = b[y]
    BY <1>3, <2>1, <2>2 DEF Ringed, RingIn
  <2>4. Place(b, b[y]) = y
    BY DEF Distinct, Place
  <2>5. q = y + 1
    BY <1>3, <2>3, <2>4 DEF last_in_group
  <2>6. p <= y /\ Key[b[y]] = Key[b[p]]
    BY <2>2 DEF LastOf
  <2>7. ASSUME NEW x \in p..y
        PROVE  Key[b[x]] = Key[b[p]]
    <3>1. x \in DOMAIN b /\ p <= x /\ x <= y
      BY <1>1
    <3>. QED
      BY <2>1, <2>6, <3>1 DEF Together
  <2>8. q \in (p + 1)..(Len(b) + 1) /\ q - 1 = y
    BY <1>1, <2>5, <2>6
  <2>. QED
    BY <1>1, <1>3, <2>2, <2>3, <2>4, <2>7, <2>8 DEF GroupAt, last_in_group
<1>. QED
  BY <1>2, <1>3

\* It stays where it is with its group, and they are passed.
LEMMA GrowStays ==
  ASSUME NEW bs, NEW T, NEW M, NEW st, NEW hs, NEW C, NEW b, NEW n, NEW j,
         GrowVisits(bs, T, M, st, hs, C, b, n, j), j = C.from,
         NEW q, GroupAt(b, C.before_i + 1, q),
         NEW D, D \in GrowCalls, D.from = C.from, D.to = C.to, D.before_i = q - 1
  PROVE  Growing(kind, bs, T, M, st, hs, D)
<1>1. /\ Growing(kind, bs, T, M, st, hs, C) /\ GrowthUnderWay(bs, T, M, st, hs, C)
      /\ b = bs[T.array][C.from] /\ C.before_i < Len(b) /\ n = b[C.before_i + 1]
      /\ j = Home(kind, T, hs, n)
  BY DEF GrowVisits, GrowthUnderWay
<1>2. C.before_i \in Nat /\ Len(b) \in Nat
  BY <1>1, GrowthIs, GrowVisitIs, Zenon
<1>3. D.before_i <= Len(bs[T.array][D.from])
  <2>1. q - 1 <= Len(b)
    BY <1>2 DEF GroupAt
  <2>2. bs[T.array][D.from] = b
    BY <1>1, Zenon
  <2>. QED
    BY <2>1, <2>2
<1>4. ASSUME NEW x \in 1..D.before_i
      PROVE  D.from = Home(kind, T, hs, bs[T.array][D.from][x])
  <2>1. CASE x \in (C.before_i + 1)..(q - 1)
    <3>1. Key[b[x]] = Key[n]
      BY <1>1, <2>1 DEF GroupAt
    <3>2. Home(kind, T, hs, b[x]) = j
      BY <1>1, <3>1, Zenon DEF Home
    <3>. QED
      BY <1>1, <3>2, ZenonT(40)
  <2>2. CASE x \notin (C.before_i + 1)..(q - 1)
    <3>1. x \in 1..C.before_i
      BY <1>2, <2>2
    <3>. QED
      BY <1>1, <3>1, Zenon DEF Growing
  <2>. QED
    BY <2>1, <2>2
<1>. QED
  BY <1>1, <1>3, <1>4, Zenon DEF Growing

\* It moves to the front of the new bucket.
GrowTakes(as, bs, cs, T, M, C, b, n, ns, u) ==
  /\ as = {T.array}
  /\ \A m \in ns : Key[m] = Key[n]
  /\ MovesIn(as, bs, cs, T.array, C.from, T.array, C.to, ns, M)
  /\ u = cs[T.array][C.from] /\ C.before_i <= Len(u)
  /\ \A x \in 1..C.before_i : u[x] = b[x]

\* The element moves to the new bucket.
LEMMA GrowMoves ==
  ASSUME NEW bs, NEW T, NEW M, NEW st, NEW hs, NEW C, NEW b, NEW n, NEW j,
         GrowVisits(bs, T, M, st, hs, C, b, n, j), j = C.to,
         NEW as, NEW cs, NEW ns, NEW u, GrowTakes(as, bs, cs, T, M, C, b, n, ns, u)
  PROVE  Growing(kind, cs, T, M, st, hs, C)
<1>1. /\ Growing(kind, bs, T, M, st, hs, C) /\ GrowthUnderWay(bs, T, M, st, hs, C)
      /\ b = bs[T.array][C.from] /\ C.before_i < Len(b) /\ n = b[C.before_i + 1]
      /\ j = Home(kind, T, hs, n)
  BY DEF GrowVisits, GrowthUnderWay
<1>2. /\ as = {T.array}
      /\ \A m \in ns : Key[m] = Key[n]
      /\ MovesIn(as, bs, cs, T.array, C.from, T.array, C.to, ns, M)
      /\ u = cs[T.array][C.from] /\ C.before_i <= Len(u)
      /\ \A x \in 1..C.before_i : u[x] = b[x]
  BY DEF GrowTakes
<1>3. /\ Moved(bs, cs, T.array, C.from, T.array, C.to, ns)
      /\ Holds(cs, as, M)
      /\ \A m \in Nodes, e \in as, k \in indices : m \in Elems(cs[e][k]) <=>
           IF m \in ns THEN e = T.array /\ k = C.to ELSE m \in Elems(bs[e][k])
  BY <1>2, MoveKeeps DEF MovesIn
<1>4. /\ C.from \in Nat /\ C.to \in Nat /\ C.before_i \in Nat
      /\ T.array \in Arrays /\ T.count \in Nat /\ T.cache \in Nat
      /\ C.from < C.to /\ C.to < T.count /\ C.from < T.count
      /\ C.from \in indices /\ C.to \in indices
      /\ \A i \in 0..(T.count - 1) : i \in indices
  BY <1>1, GrowthIs, RecIs, Zenon DEF GrowthUnderWay
<1>5. Len(b) \in Nat /\ n \in Elems(b) /\ n \in Nodes
  BY GrowVisitIs
<1>6. Kept(cs, T.array, T.count)
  BY <1>1, <1>3, <1>4, MovedKept, Zenon DEF Growing
<1>7. C.before_i <= Len(cs[T.array][C.from])
  BY <1>2
<1>8. ASSUME NEW i \in indices, NEW m \in Nodes, m \in Elems(cs[T.array][i])
      PROVE  i = Home(kind, T, hs, m) \/ (i = C.from /\ C.to = Home(kind, T, hs, m))
  <2>0. T.array \in as
    BY <1>2
  <2>1. CASE m \in ns
    <3>1. i = C.to
      BY <1>2, <1>3, <1>8, <2>0, <2>1
    <3>2. Home(kind, T, hs, m) = j
      BY <1>1, <1>2, <2>1, Zenon DEF Home
    <3>. QED
      BY <1>1, <3>1, <3>2, Zenon
  <2>2. CASE m \notin ns
    <3>1. m \in Elems(bs[T.array][i])
      BY <1>2, <1>3, <1>8, <2>0, <2>2
    <3>. QED
      BY <1>1, <3>1, Zenon DEF Growing
  <2>. QED
    BY <2>1, <2>2
<1>9. ASSUME NEW x \in 1..C.before_i
      PROVE  C.from = Home(kind, T, hs, cs[T.array][C.from][x])
  <2>1. cs[T.array][C.from][x] = b[x]
    BY <1>2
  <2>. QED
    BY <1>1, <2>1, Zenon DEF Growing
<1>10. IF kind.cache THEN /\ T.cache <= T.count /\ T.cache # C.to
                          /\ \A k \in 0..(T.cache - 1) : cs[T.array][k] = <<>>
                          /\ T.cache < T.count /\ T.cache # C.from => cs[T.array][T.cache] # <<>>
       ELSE T.cache = 0
  <2>1. CASE ~kind.cache
    BY <1>1, <2>1, Zenon DEF Growing
  <2>2. CASE kind.cache
    <3>1. /\ T.cache <= T.count /\ T.cache # C.to
          /\ \A k \in 0..(T.cache - 1) : bs[T.array][k] = <<>>
          /\ T.cache < T.count /\ T.cache # C.from => bs[T.array][T.cache] # <<>>
      BY <1>1, <2>2, ZenonT(40) DEF Growing
    <3>2. ~(C.from \in 0..(T.cache - 1))
      <4>1. b # <<>>
        BY <1>5, EmptyBucket
      <4>. QED
        BY <1>1, <3>1, <4>1
    <3>3. T.cache <= C.from
      BY <1>4, <3>2
    <3>4. ASSUME NEW k \in indices, k # C.from, k # C.to
          PROVE  cs[T.array][k] = bs[T.array][k]
      BY <1>3, <1>4, <3>4 DEF Moved
    <3>5. ASSUME NEW k \in 0..(T.cache - 1)
          PROVE  cs[T.array][k] = <<>>
      <4>1. k \in 0..(T.count - 1) /\ k # C.from /\ k # C.to
        BY <1>4, <3>1, <3>3
      <4>. QED
        BY <1>4, <3>1, <3>4, <4>1, Zenon
    <3>6. T.cache < T.count /\ T.cache # C.from => cs[T.array][T.cache] # <<>>
      <4>1. T.cache < T.count => T.cache \in 0..(T.count - 1)
        BY <1>4
      <4>. QED
        BY <1>4, <3>1, <3>4, <4>1
    <3>. QED
      BY <2>2, <3>1, <3>5, <3>6
  <2>. QED
    BY <2>1, <2>2
<1>. QED
  BY <1>1, <1>2, <1>3, <1>6, <1>7, <1>8, <1>9, <1>10, Zenon DEF Growing

\* A growth under way.
GrowingNow(t, T, M) ==
  /\ kind \in Kinds
  /\ t = call.table /\ T = tab[t] /\ M = members[t]
  /\ t \in Tables /\ T \in Recs /\ M \in SUBSET Nodes
  /\ buckets \in Memories /\ hashing \in Hashings /\ stored \in [Nodes -> Nat \cup {Junk}]
  /\ tab \in [Tables -> Recs] /\ members \in [Tables -> SUBSET Nodes]
  /\ call \in GrowCalls /\ call.op = "grow"
  /\ Growing(kind, buckets, T, M, stored, hashing, call)
  /\ GrowthUnderWay(buckets, T, M, stored, hashing, call)
  /\ Owned(tab, call, t) = {T.array}
  /\ T.array \in Arrays
  /\ Worked(t, Owned(tab, call, t), buckets, tab, members, stored, hashing, linked, call)
  /\ pending = None \/ Committable(kind, tab, hashing, call, pending)
  /\ ~kind.multi => group = [n \in Nodes |-> Junk]

\* What the invariant says of a growth in progress.
LEMMA GrowIsNow ==
  ASSUME IBase, in("grow"), NEW t, t = call.table, NEW T, T = tab[t], NEW M, M = members[t]
  PROVE  GrowingNow(t, T, M)
<1>0. call.op = "grow"
  BY DEF in
<1>1. /\ Worked(t, Owned(tab, call, t), buckets, tab, members, stored, hashing, linked, call)
      /\ pending = None \/ Committable(kind, tab, hashing, call, pending)
      /\ kind \in Kinds
      /\ ~kind.multi => group = [n \in Nodes |-> Junk]
  BY <1>0, BaseIsWorked
<1>2. /\ t \in Tables /\ Owned(tab, call, t) = {T.array}
      /\ Growing(kind, buckets, T, M, stored, hashing, call)
  BY <1>0, CallIs
<1>3. /\ buckets \in Memories /\ hashing \in Hashings /\ stored \in [Nodes -> Nat \cup {Junk}]
      /\ tab \in [Tables -> Recs] /\ members \in [Tables -> SUBSET Nodes]
  BY DEF IBase, Types, Memories
<1>4. T \in Recs /\ M \in SUBSET Nodes
  BY <1>2, <1>3
<1>5. T.array \in Arrays
  BY <1>4, RecIs, SMTT(15)
<1>6. call \in GrowCalls
  BY <1>2 DEF Growing
<1>7. GrowthUnderWay(buckets, T, M, stored, hashing, call)
  BY <1>1, <1>2, <1>3, <1>4 DEF GrowthUnderWay
<1>. QED
  BY <1>0, <1>1, <1>2, <1>3, <1>4, <1>5, <1>6, <1>7 DEF GrowingNow

\* What a step of a growth changes of it.
SetPassed(C, D, x) == D = [C EXCEPT !.before_i = x]

\* The call after an element that stays.
LEMMA GrowPasses ==
  ASSUME NEW C \in GrowCalls, NEW x \in Nat, NEW D, SetPassed(C, D, x)
  PROVE  /\ D \in GrowCalls /\ D.op = "grow" /\ D.table = C.table /\ D.from = C.from
         /\ D.to = C.to /\ D.before_i = x
BY DEF GrowCalls, SetPassed

\* A step of a growth that leaves the records and the members alone.
LEMMA GrowStepBase ==
  ASSUME NEW t, NEW T, NEW M, GrowingNow(t, T, M),
         call'.op = "grow", call'.table = t,
         Growing(kind, buckets', T, M, stored, hashing, call'),
         buckets' \in Memories,
         NEW as, as = {T.array},
         \A e \in Arrays \ as, i \in indices : buckets'[e][i] = buckets[e][i],
         ApartIn(as, buckets'),
         UNCHANGED <<kind, group, stored, linked, tab, hashing, pending, members>>
  PROVE  IBase'
<1>0. /\ kind \in Kinds /\ t = call.table /\ T = tab[t] /\ M = members[t]
      /\ call.op = "grow" /\ stored \in [Nodes -> Nat \cup {Junk}]
      /\ Owned(tab, call, t) = {T.array}
      /\ Worked(t, Owned(tab, call, t), buckets, tab, members, stored, hashing, linked, call)
      /\ pending = None \/ Committable(kind, tab, hashing, call, pending)
      /\ ~kind.multi => group = [n \in Nodes |-> Junk]
  BY DEF GrowingNow
<1>1. as = Owned(tab, call, t)
  BY <1>0
<1>2. as = Owned(tab, call', t)
  BY <1>0, <1>1 DEF Owned
<1>3. Holds(buckets', as, M)
  BY DEF Growing
<1>4. Worked(t, as, buckets, tab, members, stored, hashing, linked, call)
  BY <1>0, <1>1
<1>5. Growing(kind, buckets', tab[t], members[t], stored, hashing, call')
  BY <1>0
<1>6. GoesOn(t, as, buckets, tab, members, stored, hashing, linked, call, buckets', stored, call')
  BY <1>0, <1>2, <1>3, <1>4, <1>5 DEF GoesOn
<1>7. Worked(t, as, buckets', tab, members, stored, hashing, linked, call')
  BY <1>6, StillWorked
<1>8. Worked(t, as, buckets', tab', members', stored', hashing', linked', call')
  BY <1>7
<1>9. pending' = None \/ Committable(kind, tab', hashing', call', pending')
  BY <1>0 DEF Committable
<1>10. kind' = kind /\ (~kind.multi => group' = [n \in Nodes |-> Junk])
  BY <1>0
<1>. QED
  BY <1>0, <1>8, <1>9, <1>10, WorkedIsBase

\* The visit of an element: it stays with its group, or goes to the new bucket with it.
GrowStep(t, T, M, b, n, j, p, q, d, u, v, w, ns, cs, as) ==
  /\ GrowingNow(t, T, M)
  /\ b = buckets[T.array][call.from] /\ p = call.before_i + 1
  /\ GrowVisits(buckets, T, M, stored, hashing, call, b, n, j)
  /\ GroupAt(b, p, q)
  /\ as = {T.array} /\ as \in SUBSET Arrays
  /\ Holds(buckets, as, M) /\ ApartIn(as, buckets)
  /\ d = buckets[T.array][j]
  /\ IF j = call.from THEN call' = [call EXCEPT !.before_i = q - 1] /\ buckets' = buckets
     ELSE /\ buckets' = cs /\ call' = call
          /\ Transfers(buckets, cs, T.array, call.from, p, q, T.array, j, b, d, u, v, w, ns)
  /\ UNCHANGED <<kind, group, stored, linked, tab, hashing, pending, members>>

\* grow_moves is such a visit.
LEMMA GrowMovesIs ==
  ASSUME IBase, IGroups, grow_moves
  PROVE  \E t, T, M, b, n, j, p, q, d, u, v, w, ns, cs, as :
           GrowStep(t, T, M, b, n, j, p, q, d, u, v, w, ns, cs, as)
<1>1. PICK t : t = call.table
  OBVIOUS
<1>2. PICK T : T = tab[t]
  OBVIOUS
<1>3. PICK M : M = members[t]
  OBVIOUS
<1>4. GrowingNow(t, T, M)
  <2>1. in("grow")
    BY DEF grow_moves
  <2>. QED
    BY <1>1, <1>2, <1>3, <2>1, GrowIsNow
<1>5. /\ kind \in Kinds /\ T \in Recs /\ M \in SUBSET Nodes
      /\ buckets \in Memories /\ hashing \in Hashings /\ stored \in [Nodes -> Nat \cup {Junk}]
      /\ call \in GrowCalls /\ T.array \in Arrays /\ call.op = "grow"
      /\ GrowthUnderWay(buckets, T, M, stored, hashing, call)
      /\ Growing(kind, buckets, T, M, stored, hashing, call)
      /\ Owned(tab, call, t) = {T.array}
      /\ Worked(t, Owned(tab, call, t), buckets, tab, members, stored, hashing, linked, call)
  BY <1>4 DEF GrowingNow
<1>6. PICK b : b = buckets[T.array][call.from]
  OBVIOUS
<1>7. PICK n : n = b[call.before_i + 1]
  OBVIOUS
<1>8. PICK j : j = Home(kind, T, hashing, n)
  OBVIOUS
<1>9. grow_bucket = b
  BY <1>1, <1>2, <1>6 DEF grow_bucket, bucket
<1>10. call.before_i < Len(b)
  BY <1>9 DEF grow_moves
<1>11. GrowVisits(buckets, T, M, stored, hashing, call, b, n, j)
  BY <1>5, <1>6, <1>7, <1>8, <1>10 DEF GrowVisits
<1>12. /\ b \in Seq(Nodes) /\ Distinct(b) /\ Len(b) \in Nat /\ DOMAIN b = 1..Len(b)
       /\ call.before_i + 1 \in 1..Len(b)
       /\ n \in Nodes /\ n \in M /\ n \in Elems(b)
       /\ j = call.from \/ j = call.to
       /\ kind.store => stored[n] = hashing[Key[n]]
  BY <1>11, GrowVisitIs
<1>13. /\ call.from \in Nat /\ call.to \in Nat /\ call.before_i \in Nat
       /\ call.from < call.to /\ call.to < T.count /\ call.from < T.count
       /\ call.from \in indices /\ call.to \in indices
       /\ buckets[T.array][call.to] \in Seq(Nodes) /\ Distinct(buckets[T.array][call.to])
  BY <1>5, GrowthIs
<1>14. priv_hash_to_nbucket(call.table, priv_stored_or_compute_hash(n)) = j
  BY <1>1, <1>2, <1>8, <1>12 DEF priv_hash_to_nbucket, priv_stored_or_compute_hash, Home
<1>15. PICK p : p = call.before_i + 1
  OBVIOUS
<1>16. p \in Nat /\ 1 <= p /\ p <= Len(b) /\ p \in 1..Len(b) /\ b[p] = n
  BY <1>7, <1>12, <1>13, <1>15
<1>21. PICK q : q = Place(b, last_in_group(n)) + 1
  OBVIOUS
<1>17. GroupAt(b, p, q) /\ Place(b, last_in_group(n)) = q - 1
  <2>1. Fits(kind, group, b) /\ (kind.multi => p \in Starts(b))
    <3>1. WholeBut(kind, group, linked, buckets, {}) /\ GrowGroups(kind, T, call, buckets)
      BY <1>1, <1>2, <1>5 DEF IGroups
    <3>2. Fits(kind, group, b)
      BY <1>5, <1>6, <1>13, <3>1 DEF WholeBut
    <3>. QED
      BY <1>6, <1>10, <1>15, <3>1, <3>2 DEF GrowGroups
  <2>2. Grouped(kind, group, b)
    BY <1>12, <2>1 DEF Fits
  <2>3. q = Place(b, last_in_group(b[p])) + 1 /\ p \in DOMAIN b
    BY <1>12, <1>16, <1>21
  <2>. QED
    BY <1>12, <1>16, <2>1, <2>2, <2>3, GroupEnds
<1>e. /\ q \in Nat /\ p < q /\ q <= Len(b) + 1 /\ \A k \in p..(q - 1) : Key[b[k]] = Key[n]
  BY <1>16, <1>17 DEF GroupAt
<1>18. PICK as : as = {T.array}
  BY Zenon
<1>19. /\ as \in SUBSET Arrays /\ T.array \in as
       /\ Holds(buckets, as, M) /\ ApartIn(as, buckets)
  BY <1>3, <1>5, <1>18 DEF Worked
<1>20. UNCHANGED <<kind, group, stored, linked, tab, hashing, pending, members>>
  BY DEF grow_moves
<1>22. /\ IF j = call.from THEN call' = [call EXCEPT !.before_i = q - 1] /\ buckets' = buckets
          ELSE /\ buckets' = transferred(buckets, T.array, call.from, p, q, T.array, j)
               /\ call' = call
  <2>1. tab[call.table].array = T.array
    BY <1>1, <1>2
  <2>. QED
    BY <1>7, <1>9, <1>14, <1>15, <1>17, <1>21, <2>1, Zenon DEF grow_moves
<1>43. PICK d : d = buckets[T.array][j]
  OBVIOUS
<1>44. PICK u : u = Cut(b, p, q)
  OBVIOUS
<1>45. PICK v : v = Piece(b, p, q)
  OBVIOUS
<1>46. PICK w : w = v \o d
  BY Zenon
<1>47. PICK ns : ns = Elems(v)
  OBVIOUS
<1>48. PICK cs : cs = transferred(buckets, T.array, call.from, p, q, T.array, j)
  OBVIOUS
<1>24. ASSUME j # call.from
       PROVE  Transfers(buckets, cs, T.array, call.from, p, q, T.array, j, b, d, u, v, w, ns)
  <2>0. j = call.to
    BY <1>12, <1>24
  <2>9. j \in indices
    BY <1>13, <2>0
  <2>10. d \in Seq(Nodes) /\ Distinct(d)
    BY <1>13, <2>0, <1>43
  <2>11. call.from # j
    BY <1>24
  <2>12. Elems(b) \cap Elems(d) = {}
    <3> SUFFICES ASSUME NEW m, m \in Elems(b), m \in Elems(d)
                 PROVE  FALSE
      OBVIOUS
    <3>1. m \in Nodes
      BY <1>12, ElemsOfSeq
    <3>2. call.from = j
      BY <1>6, <1>13, <1>19, <1>43, <2>9, <3>1, Zenon DEF ApartIn
    <3>. QED
      BY <2>11, <3>2
  <2>13. q \in Nat /\ p <= q /\ q <= Len(b) + 1
    BY <1>16, <1>e
  <2>14. Transfers(buckets, cs, T.array, call.from, p, q, T.array, j, b, d, u, v, w, ns)
    BY <1>5, <1>6, <1>12, <1>13, <1>16, <1>43, <1>44, <1>45, <1>46, <1>47, <1>48, <2>9, <2>10, <2>11,
       <2>12, <2>13, Zenon DEF Transfers
  <2>. QED
    BY <2>14
<1>25. GrowStep(t, T, M, b, n, j, p, q, d, u, v, w, ns, cs, as)
  <2>1. IF j = call.from THEN call' = [call EXCEPT !.before_i = q - 1] /\ buckets' = buckets
        ELSE /\ buckets' = cs /\ call' = call
             /\ Transfers(buckets, cs, T.array, call.from, p, q, T.array, j, b, d, u, v, w, ns)
    BY <1>22, <1>24, <1>48
  <2>. QED
    BY <1>4, <1>6, <1>11, <1>15, <1>17, <1>18, <1>19, <1>20, <1>43, <2>1 DEF GrowStep
<1>. QED
  BY <1>25

\* grow_moves preserves the invariant.
LEMMA GrowMovesBase ==
  ASSUME IBase, IGroups, grow_moves
  PROVE  IBase'
<1>1. PICK t, T, M, b, n, j, p, q, d, u, v, w, ns, cs, as :
        GrowStep(t, T, M, b, n, j, p, q, d, u, v, w, ns, cs, as)
  BY GrowMovesIs
<1>2. /\ GrowingNow(t, T, M)
      /\ b = buckets[T.array][call.from] /\ p = call.before_i + 1
      /\ GrowVisits(buckets, T, M, stored, hashing, call, b, n, j)
      /\ GroupAt(b, p, q)
      /\ as = {T.array}
      /\ as \in SUBSET Arrays /\ Holds(buckets, as, M) /\ ApartIn(as, buckets)
      /\ UNCHANGED <<kind, group, stored, linked, tab, hashing, pending, members>>
  BY <1>1 DEF GrowStep
<1>22. IF j = call.from THEN call' = [call EXCEPT !.before_i = q - 1] /\ buckets' = buckets
       ELSE /\ buckets' = cs /\ call' = call
            /\ Transfers(buckets, cs, T.array, call.from, p, q, T.array, j, b, d, u, v, w, ns)
  BY <1>1 DEF GrowStep
<1>5. /\ kind \in Kinds /\ T \in Recs /\ M \in SUBSET Nodes
      /\ buckets \in Memories /\ hashing \in Hashings /\ stored \in [Nodes -> Nat \cup {Junk}]
      /\ call \in GrowCalls /\ T.array \in Arrays /\ call.op = "grow"
      /\ GrowthUnderWay(buckets, T, M, stored, hashing, call)
      /\ t = call.table
  BY <1>2 DEF GrowingNow
<1>12. /\ b \in Seq(Nodes) /\ Distinct(b) /\ Len(b) \in Nat /\ DOMAIN b = 1..Len(b)
       /\ call.before_i + 1 \in 1..Len(b)
       /\ n \in Nodes /\ n \in M /\ n \in Elems(b)
       /\ j = call.from \/ j = call.to
  BY <1>2, GrowVisitIs
<1>13. /\ call.from \in Nat /\ call.to \in Nat /\ call.before_i \in Nat
       /\ call.from < call.to
       /\ call.from \in indices /\ call.to \in indices
  BY <1>5, GrowthIs
<1>16. p \in Nat /\ 1 <= p /\ p <= Len(b) /\ p \in 1..Len(b) /\ b[p] = n
  BY <1>2, <1>12, <1>13 DEF GrowVisits
<1>e. /\ q \in Nat /\ p < q /\ q <= Len(b) + 1 /\ \A k \in p..(q - 1) : Key[b[k]] = Key[n]
  BY <1>2, <1>16 DEF GroupAt
<1>19. as \in SUBSET Arrays /\ T.array \in as /\ Holds(buckets, as, M) /\ ApartIn(as, buckets)
  BY <1>2
<1>23. CASE j = call.from
  <2>1. PICK D : D = [call EXCEPT !.before_i = q - 1]
    BY Zenon
  <2>2. SetPassed(call, D, q - 1)
    BY <2>1 DEF SetPassed
  <2>3. /\ D \in GrowCalls /\ D.op = "grow" /\ D.table = call.table /\ D.from = call.from
        /\ D.to = call.to /\ D.before_i = q - 1
    <3>1. q - 1 \in Nat
      BY <1>16, <1>e
    <3>. QED
      BY <1>5, <2>2, <3>1, GrowPasses
  <2>4. GroupAt(b, call.before_i + 1, q)
    BY <1>2
  <2>5. Growing(kind, buckets, T, M, stored, hashing, D)
    BY <1>2, <1>23, <2>3, <2>4, GrowStays, Zenon
  <2>6. buckets' = buckets /\ call' = D
    BY <1>22, <1>23, <2>1
  <2>7. /\ call'.op = "grow" /\ call'.table = t
        /\ Growing(kind, buckets', T, M, stored, hashing, call')
        /\ buckets' \in Memories
        /\ \A e \in Arrays \ as, i \in indices : buckets'[e][i] = buckets[e][i]
        /\ ApartIn(as, buckets')
    BY <1>2, <1>5, <1>19, <2>3, <2>5, <2>6
  <2>. QED
    BY <1>2, <2>7, GrowStepBase
<1>24. CASE j # call.from
  <2>0. j = call.to
    BY <1>12, <1>24
  <2>9. j \in indices
    BY <1>13, <2>0
  <2>11. call.from # j
    BY <1>24
  <2>14. Transfers(buckets, cs, T.array, call.from, p, q, T.array, j, b, d, u, v, w, ns)
    BY <1>22, <1>24
  <2>15. /\ Moved(buckets, cs, T.array, call.from, T.array, j, ns)
         /\ cs[T.array][call.from] = u
         /\ Len(u) = Len(b) - (q - p)
         /\ \A k \in 1..(p - 1) : u[k] = b[k]
         /\ \A m : m \in ns <=> \E k \in p..(q - 1) : m = b[k]
    BY <2>14, TransferMoves
  <2>16. call.before_i <= Len(u) /\ \A k \in 1..call.before_i : u[k] = b[k]
    <3>1. call.before_i <= Len(u)
      <4>1. p = call.before_i + 1 /\ Len(u) = Len(b) - (q - p)
        BY <1>2, <2>15
      <4>. QED
        BY <1>12, <1>13, <1>e, <4>1
    <3>2. p - 1 = call.before_i
      BY <1>2, <1>13
    <3>. QED
      BY <2>15, <3>1, <3>2
  <2>17. \A m \in ns : Key[m] = Key[n]
    BY <1>e, <2>15
  <2>18. MovesIn(as, buckets, cs, T.array, call.from, T.array, j, ns, M)
    BY <1>13, <1>19, <2>9, <2>11, <2>15, Zenon DEF MovesIn
  <2>20. Growing(kind, cs, T, M, stored, hashing, call)
    <3>1. u = cs[T.array][call.from]
      BY <2>15
    <3>2. GrowTakes(as, buckets, cs, T, M, call, b, n, ns, u)
      BY <1>2, <2>0, <2>16, <2>17, <2>18, <3>1 DEF GrowTakes
    <3>. QED
      BY <1>2, <2>0, <3>2, GrowMoves, Zenon
  <2>21. ApartIn(as, cs)
    BY <2>18, MoveKeeps, Zenon
  <2>22. cs \in Memories /\ \A e \in Arrays \ as, i \in indices : cs[e][i] = buckets[e][i]
    BY <1>19, <2>15, Zenon DEF Moved
  <2>23. buckets' = cs /\ call' = call
    BY <1>22, <1>24
  <2>24. /\ call'.op = "grow" /\ call'.table = t
         /\ Growing(kind, buckets', T, M, stored, hashing, call')
         /\ buckets' \in Memories
         /\ \A e \in Arrays \ as, i \in indices : buckets'[e][i] = buckets[e][i]
         /\ ApartIn(as, buckets')
    BY <1>5, <2>20, <2>21, <2>22, <2>23, Zenon
  <2>. QED
    BY <1>2, <2>24, GrowStepBase
<1>. QED
  BY <1>23, <1>24
-----------------------------------------------------------------------------
(* The end of a growth, and its rollback.                                   *)

\* A growth is over, which leaves table t the record U and the buckets cs.
GrowsOver(t, T, M, U, cs, tc) ==
  /\ GrowingNow(t, T, M)
  /\ cs \in Memories /\ U \in Recs /\ U.array = T.array
  /\ \A e \in Arrays \ {T.array}, i \in indices : cs[e][i] = buckets[e][i]
  /\ tc = [tab EXCEPT ![t] = U]
  /\ Quiet(kind, cs, U, M, stored, hashing)

\* A growth that is over, in one way or the other, leaves the invariant.
LEMMA GrowOverBase ==
  ASSUME NEW t, NEW T, NEW M, NEW U, NEW cs, NEW tc, GrowsOver(t, T, M, U, cs, tc),
         buckets' = cs, tab' = tc, call' = None,
         pending' = None \/ Committable(kind, tab', hashing, call', pending'),
         UNCHANGED <<kind, group, stored, linked, hashing, members>>
  PROVE  IBase'
<1>1. /\ GrowingNow(t, T, M)
      /\ cs \in Memories /\ U \in Recs /\ U.array = T.array
      /\ \A e \in Arrays \ {T.array}, i \in indices : cs[e][i] = buckets[e][i]
      /\ tc = [tab EXCEPT ![t] = U]
      /\ Quiet(kind, cs, U, M, stored, hashing)
  BY DEF GrowsOver
<1>2. /\ kind \in Kinds /\ t = call.table /\ T = tab[t] /\ M = members[t]
      /\ t \in Tables /\ M \in SUBSET Nodes
      /\ hashing \in Hashings /\ stored \in [Nodes -> Nat \cup {Junk}]
      /\ tab \in [Tables -> Recs] /\ members \in [Tables -> SUBSET Nodes]
      /\ Owned(tab, call, t) = {T.array} /\ T.array \in Arrays
      /\ Worked(t, Owned(tab, call, t), buckets, tab, members, stored, hashing, linked, call)
      /\ ~kind.multi => group = [n \in Nodes |-> Junk]
  BY <1>1 DEF GrowingNow
<1>3. PICK as : as = {T.array}
  BY Zenon
<1>4. Others(t, as, buckets, tab, members, stored, hashing, linked)
  BY <1>2, <1>3 DEF Worked
<1>5. as \in SUBSET Arrays
  BY <1>2, <1>3
<1>6. /\ \A u \in Tables \ {t} : tab[u].array \notin as
      /\ \A e \in Arrays \ as : (\A u \in Tables \ {t} : e # tab[u].array) => Kept(buckets, e, 0)
      /\ \A u, v \in Tables, n \in Nodes : n \in members[u] /\ n \in members[v] => u = v
      /\ linked = UNION {members[u] : u \in Tables}
  BY <1>4, Zenon DEF Others
<1>7. \A u \in Tables \ {t}, i \in indices : cs[tab[u].array][i] = buckets[tab[u].array][i]
  <2> SUFFICES ASSUME NEW u \in Tables \ {t}, NEW i \in indices
               PROVE  cs[tab[u].array][i] = buckets[tab[u].array][i]
    OBVIOUS
  <2>1. tab[u].array \in Arrays
    BY <1>2, RecIs
  <2>. QED
    BY <1>1, <1>3, <1>6, <2>1
<1>8. \A e \in Arrays \ as : (\A u \in Tables \ {t} : e # tab[u].array) => Kept(cs, e, 0)
  <2> SUFFICES ASSUME NEW e \in Arrays \ as, \A u \in Tables \ {t} : e # tab[u].array
               PROVE  Kept(cs, e, 0)
    BY Zenon
  <2>1. Kept(buckets, e, 0)
    BY <1>6, Zenon
  <2>2. \A i \in indices : cs[e][i] = buckets[e][i]
    BY <1>1, <1>3
  <2>. QED
    BY <2>1, <2>2 DEF Kept
<1>9. \A u \in Tables \ {t} : \A m \in members[u] :
        stored[m] = stored[m] /\ hashing[Key[m]] = hashing[Key[m]] /\ m \notin M
  <2> SUFFICES ASSUME NEW u \in Tables \ {t}, NEW m \in members[u], m \in M
               PROVE  FALSE
    OBVIOUS
  <2>1. m \in Nodes
    BY <1>2
  <2>. QED
    BY <1>2, <1>6, <2>1
<1>10. PICK mc : mc = [members EXCEPT ![t] = M]
  BY Zenon
<1>11. PICK lc : lc = (linked \ members[t]) \cup M
  BY Zenon
<1>12. mc = members /\ lc = linked
  BY <1>2, <1>6, <1>10, <1>11
<1>13. Leaves(t, as, as, buckets, tab, members, stored, hashing, linked, cs, U, M, stored, hashing,
              tc, mc, lc)
  BY <1>1, <1>2, <1>4, <1>5, <1>6, <1>7, <1>8, <1>9, <1>10, <1>11, Zenon DEF Leaves
<1>14. Others(t, as, cs, tc, mc, stored, hashing, lc)
  BY <1>13, OthersFrame, Zenon
<1>15. tc[t] = U /\ {tc[t].array} = as
  BY <1>1, <1>2, <1>3
<1>16. Others(t, {tc[t].array}, cs, tc, members, stored, hashing, linked)
  BY <1>12, <1>14, <1>15, Zenon
<1>17. Quiet(kind, cs, tc[t], members[t], stored, hashing)
  BY <1>1, <1>2, <1>15
<1>18. Rest(cs, tc, members, stored, hashing, linked)
  BY <1>2, <1>16, <1>17, OthersRest
<1>19. kind' = kind /\ Rest(buckets', tab', members', stored', hashing', linked')
  BY <1>18
<1>20. pending' = None \/ Committable(kind, tab', hashing', call', pending')
  OBVIOUS
<1>21. ~kind.multi => group' = [n \in Nodes |-> Junk]
  BY <1>2
<1>. QED
  BY <1>2, <1>19, <1>20, <1>21, RestIsBase

\* All elements of the bucket have been visited; U is the table then.
GrownIs(bs, T, M, st, hs, C, U) ==
  /\ GrowthUnderWay(bs, T, M, st, hs, C)
  /\ C.before_i = Len(bs[T.array][C.from])
  /\ U = priv_erasure_update_cache(bs, T)

\* When the loop is over every element is at home.
LEMMA GrownIsQuiet ==
  ASSUME NEW bs, NEW T, NEW M, NEW st, NEW hs, NEW C, NEW U, GrownIs(bs, T, M, st, hs, C, U)
  PROVE  U \in Recs /\ U.array = T.array /\ Quiet(kind, bs, U, M, st, hs)
<1>1. /\ kind \in Kinds /\ bs \in Memories /\ T \in Recs /\ M \in SUBSET Nodes /\ hs \in Hashings
      /\ Growing(kind, bs, T, M, st, hs, C) /\ GrowthUnderWay(bs, T, M, st, hs, C)
      /\ C.before_i = Len(bs[T.array][C.from])
      /\ U = priv_erasure_update_cache(bs, T)
  BY DEF GrownIs, GrowthUnderWay
<1>2. C.from \in indices /\ C.from < T.count /\ bs[T.array][C.from] \in Seq(Nodes)
      /\ T.count \in Nat /\ T.cache \in Nat
  BY <1>1, GrowthIs
<1>3. T.cache <= T.count
  BY <1>1, <1>2 DEF Growing
<1>4. /\ U \in Recs /\ U.array = T.array /\ U.count = T.count /\ U.split = T.split
      /\ U.size = T.size
      /\ U.cache = IF kind.cache THEN first_used(bs, T, T.cache) ELSE T.cache
  BY <1>1, <1>3, ErasureCache
<1>5. Shaped(kind, U)
  BY <1>1, <1>4 DEF Growing, Shaped
<1>6. Kept(bs, U.array, U.count) /\ Holds(bs, {U.array}, M) /\ Hashed(kind, M, st, hs)
      /\ Sized(kind, U.size, M)
  BY <1>1, <1>4 DEF Growing
<1>7. AtHome(kind, bs, U, hs)
  <2> SUFFICES ASSUME NEW i \in indices, NEW n \in Nodes, n \in Elems(bs[T.array][i])
               PROVE  i = Home(kind, T, hs, n)
    BY <1>4 DEF AtHome, Home
  <2>1. CASE i # C.from
    BY <1>1, <2>1 DEF Growing
  <2>2. CASE i = C.from
    <3>1. PICK x \in 1..Len(bs[T.array][C.from]) : bs[T.array][C.from][x] = n
      BY <1>2, <2>2, ElemsOfSeq
    <3>2. \A y \in 1..C.before_i : C.from = Home(kind, T, hs, bs[T.array][C.from][y])
      BY <1>1 DEF Growing
    <3>. QED
      BY <1>1, <2>2, <3>1, <3>2
  <2>. QED
    BY <2>1, <2>2
<1>8. Cached(kind, bs, U)
  <2>1. CASE ~kind.cache
    BY <1>1, <1>4, <2>1 DEF Growing, Cached
  <2>2. CASE kind.cache
    <3>1. \A k \in 0..(T.cache - 1) : bs[T.array][k] = <<>>
      BY <1>1, <2>2 DEF Growing
    <3>2. PICK i : i = T.cache
      OBVIOUS
    <3>3. i \in 0..T.count /\ \A k \in 0..(i - 1) : bs[T.array][k] = <<>>
      BY <1>2, <1>3, <3>1, <3>2
    <3>4. IsFirst(bs, T.array, T.count, first_used(bs, T, i))
      BY <1>1, <3>3, FirstAfter
    <3>. QED
      BY <1>4, <2>2, <3>2, <3>4 DEF Cached
  <2>. QED
    BY <2>1, <2>2
<1>. QED
  BY <1>4, <1>5, <1>6, <1>7, <1>8 DEF Quiet

\* grow_ends preserves the invariant.
LEMMA GrowEndsBase ==
  ASSUME IBase, grow_ends
  PROVE  IBase'
<1>1. PICK t : t = call.table
  OBVIOUS
<1>2. PICK T : T = tab[t]
  OBVIOUS
<1>3. PICK M : M = members[t]
  OBVIOUS
<1>4. GrowingNow(t, T, M)
  <2>1. in("grow")
    BY DEF grow_ends
  <2>. QED
    BY <1>1, <1>2, <1>3, <2>1, GrowIsNow
<1>5. /\ buckets \in Memories /\ GrowthUnderWay(buckets, T, M, stored, hashing, call)
      /\ pending = None \/ Committable(kind, tab, hashing, call, pending)
      /\ t \in Tables /\ tab \in [Tables -> Recs]
  BY <1>4 DEF GrowingNow
<1>6. call.before_i = Len(buckets[T.array][call.from])
  BY <1>1, <1>2 DEF grow_ends, grow_bucket, bucket
<1>7. PICK U : U = priv_erasure_update_cache(buckets, T)
  OBVIOUS
<1>8. GrownIs(buckets, T, M, stored, hashing, call, U)
  BY <1>5, <1>6, <1>7 DEF GrownIs
<1>9. U \in Recs /\ U.array = T.array /\ Quiet(kind, buckets, U, M, stored, hashing)
  BY <1>8, GrownIsQuiet
<1>10. PICK tc : tc = [tab EXCEPT ![t] = U]
  BY Zenon
<1>11. GrowsOver(t, T, M, U, buckets, tc)
  BY <1>4, <1>5, <1>9, <1>10 DEF GrowsOver
<1>12. tab' = tc /\ call' = None /\ buckets' = buckets
  BY <1>1, <1>2, <1>5, <1>7, <1>10 DEF grow_ends
<1>13. UNCHANGED <<kind, group, stored, linked, hashing, members>>
  BY DEF grow_ends
<1>14. outdated
  BY DEF grow_ends
<1>15. pending' = None \/ Committable(kind, tab', hashing, call', pending')
  BY <1>5, <1>14, Outdates
<1>. QED
  BY <1>11, <1>12, <1>13, <1>15, GrowOverBase

\* A whole bucket is transferred inside the arrays as, which hold the elements M.
MovesWhole(as, bs, cs, a, i, c, j, ns, M) ==
  /\ bs \in Memories /\ as \in SUBSET Arrays /\ a \in as /\ c \in as
  /\ i \in indices /\ j \in indices
  /\ a # c \/ i # j
  /\ bs[a][i] \in Seq(Nodes) /\ Distinct(bs[a][i]) /\ bs[c][j] \in Seq(Nodes) /\ Distinct(bs[c][j])
  /\ Holds(bs, as, M) /\ ApartIn(as, bs)
  /\ cs = whole(bs, a, i, c, j) /\ ns = Elems(bs[a][i])

LeftEmpty(cs, a, i) == cs[a][i] = <<>>

\* A whole bucket moves, and leaves an empty one.
LEMMA WholeMoves ==
  ASSUME NEW as, NEW bs, NEW cs, NEW a, NEW i, NEW c, NEW j, NEW ns, NEW M,
         MovesWhole(as, bs, cs, a, i, c, j, ns, M)
  PROVE  MovesIn(as, bs, cs, a, i, c, j, ns, M) /\ LeftEmpty(cs, a, i)
<1>1. /\ bs \in Memories /\ as \in SUBSET Arrays /\ a \in as /\ c \in as /\ a \in Arrays /\ c \in Arrays
      /\ i \in indices /\ j \in indices
      /\ a # c \/ i # j
      /\ Holds(bs, as, M) /\ ApartIn(as, bs)
      /\ cs = whole(bs, a, i, c, j) /\ ns = Elems(bs[a][i])
  BY Zenon DEF MovesWhole
<1>2. PICK b : b = bs[a][i]
  OBVIOUS
<1>3. PICK d : d = bs[c][j]
  OBVIOUS
<1>4. b \in Seq(Nodes) /\ Distinct(b) /\ d \in Seq(Nodes) /\ Distinct(d)
  BY <1>2, <1>3 DEF MovesWhole
<1>5. Len(b) \in Nat
  BY <1>4, ElemsOfSeq
<1>6. PICK q \in Nat : q = Len(b) + 1
  BY <1>5
<1>7. PICK u : u = Cut(b, 1, q)
  OBVIOUS
<1>8. PICK v : v = Piece(b, 1, q)
  OBVIOUS
<1>9. PICK w : w = v \o d
  BY Zenon
<1>10. PICK nv : nv = Elems(v)
  OBVIOUS
<1>11. cs = transferred(bs, a, i, 1, q, c, j)
  BY <1>1, <1>2, <1>6 DEF whole
<1>12. Elems(b) \cap Elems(d) = {}
  <2> SUFFICES ASSUME NEW m, m \in Elems(b), m \in Elems(d)
               PROVE  FALSE
    OBVIOUS
  <2>1. m \in Nodes
    BY <1>4, ElemsOfSeq
  <2>2. a = c /\ i = j
    BY <1>1, <1>2, <1>3, <2>1, Zenon DEF ApartIn
  <2>. QED
    BY <1>1, <2>2
<1>13. 1 \in Nat /\ 1 <= 1 /\ 1 <= q /\ q <= Len(b) + 1
  BY <1>5, <1>6
<1>14. Transfers(bs, cs, a, i, 1, q, c, j, b, d, u, v, w, nv)
  BY <1>1, <1>2, <1>3, <1>4, <1>7, <1>8, <1>9, <1>10, <1>11, <1>12, <1>13 DEF Transfers
<1>15. /\ Moved(bs, cs, a, i, c, j, nv) /\ cs[a][i] = u
       /\ Len(u) = Len(b) - (q - 1)
       /\ \A m : m \in nv <=> \E k \in 1..(q - 1) : m = b[k]
  BY <1>14, TransferMoves
<1>16. nv = ns
  <2>1. \A m : m \in Elems(b) <=> \E k \in 1..Len(b) : b[k] = m
    BY <1>4, ElemsOfSeq
  <2>2. q - 1 = Len(b)
    BY <1>5, <1>6
  <2>3. \A m : m \in nv <=> m \in Elems(b)
    BY <1>15, <2>1, <2>2
  <2>. QED
    BY <1>1, <1>2, <2>3, Zenon
<1>17. cs[a][i] = <<>>
  <2>1. Len(u) = 0
    BY <1>5, <1>6, <1>15
  <2>2. u \in Seq(Nodes)
    BY <1>15 DEF Moved
  <2>. QED
    BY <1>15, <2>1, <2>2, ElemsOfSeq
<1>18. Moved(bs, cs, a, i, c, j, ns)
  BY <1>15, <1>16
<1>. QED
  BY <1>1, <1>17, <1>18, Zenon DEF MovesIn, LeftEmpty

\* The topmost bucket in use is emptied into its half.
Merges(as, bs, cs, T, M, st, hs, low, top, ns, U) ==
  /\ kind \in Kinds /\ bs \in Memories /\ T \in Recs /\ M \in SUBSET Nodes /\ hs \in Hashings
  /\ kind.incremental /\ Shaped(kind, T)
  /\ Kept(bs, T.array, T.count) /\ Hashed(kind, M, st, hs) /\ Sized(kind, T.size, M)
  /\ low \in Nat /\ top \in Nat /\ top + 1 = T.split /\ low + T.count \div 2 = top
  /\ \A i \in indices, n \in Nodes :
       n \in Elems(bs[T.array][i]) =>
         i = Home(kind, T, hs, n) \/ (i = low /\ top = Home(kind, T, hs, n))
  /\ as = {T.array}
  /\ MovesIn(as, bs, cs, T.array, top, T.array, low, ns, M)
  /\ ns = Elems(bs[T.array][top])
  /\ U \in Recs /\ U.array = T.array /\ U.count = T.count /\ U.size = T.size /\ U.split = top
  /\ Cached(kind, cs, U)

\* Two buckets become one, and every element is at home in it.
LEMMA MergedIsQuiet ==
  ASSUME NEW as, NEW bs, NEW cs, NEW T, NEW M, NEW st, NEW hs, NEW low, NEW top, NEW ns, NEW U,
         Merges(as, bs, cs, T, M, st, hs, low, top, ns, U)
  PROVE  Quiet(kind, cs, U, M, st, hs)
<1>1. /\ kind \in Kinds /\ bs \in Memories /\ T \in Recs /\ M \in SUBSET Nodes /\ hs \in Hashings
      /\ kind.incremental /\ Shaped(kind, T)
      /\ Kept(bs, T.array, T.count) /\ Hashed(kind, M, st, hs) /\ Sized(kind, T.size, M)
      /\ low \in Nat /\ top \in Nat /\ top + 1 = T.split /\ low + T.count \div 2 = top
      /\ as = {T.array}
      /\ MovesIn(as, bs, cs, T.array, top, T.array, low, ns, M)
      /\ ns = Elems(bs[T.array][top])
      /\ U \in Recs /\ U.array = T.array /\ U.count = T.count /\ U.size = T.size /\ U.split = top
      /\ Cached(kind, cs, U)
  BY DEF Merges
<1>2. PICK c : c = T.count
  OBVIOUS
<1>3. PICK h : h = T.count \div 2
  OBVIOUS
<1>4. c \in Nat /\ h \in Nat /\ c = 2 * h /\ top + 1 <= c /\ top < c /\ low < c /\ low = top - h
      /\ h <= top
  <2>1. c \in Nat /\ T.split \in Nat
    BY <1>1, <1>2, RecIs
  <2>2. c = 2 * h /\ T.split <= c
    BY <1>1, <1>2, <1>3 DEF Shaped
  <2>3. h \in Nat /\ low + h = top
    BY <1>1, <1>2, <1>3, <2>1
  <2>. QED
    BY <1>1, <2>1, <2>2, <2>3
<1>5. /\ Moved(bs, cs, T.array, top, T.array, low, ns)
      /\ Holds(cs, as, M)
      /\ \A m \in Nodes, e \in as, k \in indices : m \in Elems(cs[e][k]) <=>
           IF m \in ns THEN e = T.array /\ k = low ELSE m \in Elems(bs[e][k])
  BY <1>1, MoveKeeps DEF MovesIn
<1>6. T.array \in Arrays /\ T.array \in as /\ low \in indices /\ top \in indices
  BY <1>1, RecIs DEF MovesIn
<1>7. Kept(cs, U.array, U.count)
  <2>1. Kept(cs, T.array, T.count)
    BY <1>1, <1>2, <1>4, <1>5, <1>6, MovedKept
  <2>. QED
    BY <1>1, <2>1
<1>8. Shaped(kind, U)
  <2>1. U.count = 2 * (U.count \div 2) /\ U.count \div 2 <= U.split /\ U.split <= U.count
    BY <1>1, <1>2, <1>3, <1>4
  <2>. QED
    BY <1>1, <2>1 DEF Shaped
<1>9. AtHome(kind, cs, U, hs)
  <2> SUFFICES ASSUME NEW i \in indices, NEW n \in Nodes, n \in Elems(cs[T.array][i])
               PROVE  i = Home(kind, U, hs, n)
    BY <1>1 DEF AtHome
  <2>2. PICK x \in Nat : x = hs[Key[n]]
    BY <1>1, HashIs
  <2>3. PICK k \in BOOLEAN : k = kind.incremental
    BY <1>1, KindIs, Zenon
  <2>4. PICK old : old = hash_to_bucket_split(x, c, top, k)
    OBVIOUS
  <2>5. PICK new : new = hash_to_bucket_split(x, c, top + 1, k)
    OBVIOUS
  <2>6. Home(kind, U, hs, n) = old /\ Home(kind, T, hs, n) = new
    BY <1>1, <1>2, <2>2, <2>3, <2>4, <2>5, Zenon DEF Home
  <2>7. k
    BY <1>1, <2>3
  <2>8. /\ old # top
        /\ old = top - h => new = top - h \/ new = top
        /\ old # top - h => new = old
    <3>1. OneMore(x, c, top, h, k, old, new)
      BY <1>1, <1>4, <2>4, <2>5, <2>7 DEF OneMore
    <3>. QED
      BY <3>1, GrowsHome
  <2>9. CASE n \in ns
    <3>1. i = low /\ n \in Elems(bs[T.array][top])
      BY <1>1, <1>5, <1>6, <2>9
    <3>2. top = Home(kind, T, hs, n)
      BY <1>6, <3>1 DEF Merges
    <3>. QED
      BY <1>4, <2>6, <2>8, <3>1, <3>2
  <2>10. CASE n \notin ns
    <3>1. n \in Elems(bs[T.array][i])
      BY <1>5, <1>6, <2>10, Zenon
    <3>2. i = new \/ (i = low /\ top = new)
      BY <2>6, <3>1 DEF Merges
    <3>3. i # top
      BY <1>1, <2>10, <3>1
    <3>. QED
      BY <1>4, <2>6, <2>8, <3>2, <3>3
  <2>. QED
    BY <2>9, <2>10
<1>10. Holds(cs, {U.array}, M) /\ Hashed(kind, M, st, hs) /\ Sized(kind, U.size, M)
  BY <1>1, <1>5
<1>. QED
  BY <1>1, <1>7, <1>8, <1>9, <1>10 DEF Quiet

\* What rollback_split changes.
LEMMA RollbackSplit ==
  ASSUME NEW T \in Recs, T.split - 1 \in Nat
  PROVE  LET U == rollback_split(T)
         IN  /\ U \in Recs /\ U.array = T.array /\ U.count = T.count /\ U.size = T.size
             /\ U.cache = T.cache /\ U.split = T.split - 1
BY DEF rollback_split, Recs

\* A growth is interrupted; the table is then U, with the buckets cs.
GrowthThrows(as, bs, cs, T, M, st, hs, C, ns, U) ==
  /\ GrowthUnderWay(bs, T, M, st, hs, C)
  /\ C.before_i < Len(bs[T.array][C.from])
  /\ as = {T.array} /\ ns = Elems(bs[T.array][C.to])
  /\ MovesIn(as, bs, cs, T.array, C.to, T.array, C.from, ns, M) /\ cs[T.array][C.to] = <<>>
  /\ U \in Recs /\ U.array = T.array /\ U.count = T.count /\ U.size = T.size
  /\ U.cache = T.cache /\ U.split = C.to

\* incremental_rehash_rollback() brings every element back home.
LEMMA GrowthThrowsIsQuiet ==
  ASSUME NEW as, NEW bs, NEW cs, NEW T, NEW M, NEW st, NEW hs, NEW C, NEW ns, NEW U,
         GrowthThrows(as, bs, cs, T, M, st, hs, C, ns, U)
  PROVE  Quiet(kind, cs, U, M, st, hs)
<1>1. /\ kind \in Kinds /\ bs \in Memories /\ T \in Recs /\ M \in SUBSET Nodes /\ hs \in Hashings
      /\ Growing(kind, bs, T, M, st, hs, C) /\ GrowthUnderWay(bs, T, M, st, hs, C)
      /\ C.before_i < Len(bs[T.array][C.from])
      /\ as = {T.array} /\ ns = Elems(bs[T.array][C.to])
      /\ MovesIn(as, bs, cs, T.array, C.to, T.array, C.from, ns, M) /\ cs[T.array][C.to] = <<>>
      /\ U \in Recs /\ U.array = T.array /\ U.count = T.count /\ U.size = T.size
      /\ U.cache = T.cache /\ U.split = C.to
  BY DEF GrowthThrows, GrowthUnderWay
<1>2. /\ C.from \in Nat /\ C.to \in Nat /\ C.before_i \in Nat
      /\ T.count \in Nat /\ T.cache \in Nat
      /\ C.from < C.to /\ C.to < T.count /\ C.from < T.count
      /\ C.from \in indices /\ C.to \in indices
      /\ bs[T.array][C.from] \in Seq(Nodes)
      /\ \A i \in indices : i \in Nat
  BY <1>1, GrowthIs
<1>3. \A i \in 0..(T.count - 1) : i \in indices
  BY <1>1, RecIs
<1>4. PICK b : b = bs[T.array][C.from]
  OBVIOUS
<1>5. \E n \in Nodes : n \in Elems(b)
  <2>1. Len(b) \in Nat
    BY <1>2, <1>4, ElemsOfSeq
  <2>2. PICK l : l = Len(b)
    BY Zenon
  <2>3. PICK x : x = C.before_i
    OBVIOUS
  <2>4. x < l /\ x \in Nat /\ l \in Nat
    BY <1>1, <1>2, <1>4, <2>1, <2>2, <2>3
  <2>5. Len(b) # 0
    BY <2>2, <2>4
  <2>6. Elems(b) # {} /\ Elems(b) \subseteq Nodes
    BY <1>2, <1>4, <2>5, ElemsOfSeq
  <2>. QED
    BY <2>6
<1>6. /\ Moved(bs, cs, T.array, C.to, T.array, C.from, ns)
  BY <1>1 DEF MovesIn
<1>7. b # <<>> /\ cs[T.array][C.from] # <<>>
  <2>1. PICK n \in Nodes : n \in Elems(b)
    BY <1>5
  <2>2. n \in Elems(cs[T.array][C.from])
    BY <1>4, <1>6, <2>1 DEF Moved
  <2>3. Elems(<<>>) = {}
    BY EmptyBucket
  <2>. QED
    BY <2>1, <2>2, <2>3
<1>8. \A k \in indices : k # C.from /\ k # C.to => cs[T.array][k] = bs[T.array][k]
  <2>1. T.array \in Arrays
    BY <1>1, RecIs
  <2>. QED
    BY <1>6, <2>1 DEF Moved
<1>9. Cached(kind, cs, U)
  <2>1. CASE ~kind.cache
    BY <1>1, <2>1 DEF Growing, Cached
  <2>2. CASE kind.cache
    <3>1. /\ T.cache <= T.count /\ T.cache # C.to
          /\ \A k \in 0..(T.cache - 1) : bs[T.array][k] = <<>>
          /\ T.cache < T.count /\ T.cache # C.from => bs[T.array][T.cache] # <<>>
      BY <1>1, <2>2 DEF Growing
    <3>2. ~(C.from \in 0..(T.cache - 1))
      BY <1>4, <1>7, <3>1
    <3>3. \A k \in 0..(T.cache - 1) : cs[T.array][k] = <<>>
      <4> SUFFICES ASSUME NEW k \in 0..(T.cache - 1)
                   PROVE  cs[T.array][k] = <<>>
        OBVIOUS
      <4>1. k # C.from /\ bs[T.array][k] = <<>>
        BY <3>1, <3>2
      <4>2. k \in 0..(T.count - 1)
        BY <1>2, <3>1
      <4>3. k \in indices
        BY <1>3, <4>2
      <4>4. CASE k = C.to
        BY <1>1, <4>4
      <4>5. CASE k # C.to
        BY <1>8, <4>1, <4>3, <4>5
      <4>. QED
        BY <4>4, <4>5
    <3>4. T.cache < T.count => cs[T.array][T.cache] # <<>>
      <4> SUFFICES ASSUME T.cache < T.count
                   PROVE  cs[T.array][T.cache] # <<>>
        OBVIOUS
      <4>1. T.cache \in 0..(T.count - 1)
        BY <1>2
      <4>2. T.cache \in indices
        BY <1>3, <4>1
      <4>3. CASE T.cache = C.from
        BY <1>7, <4>3
      <4>4. CASE T.cache # C.from
        BY <1>8, <3>1, <4>2, <4>4
      <4>. QED
        BY <4>3, <4>4
    <3>5. T.cache \in 0..T.count
      BY <1>2, <3>1
    <3>6. IsFirst(cs, T.array, T.count, T.cache)
      BY <3>3, <3>4, <3>5 DEF IsFirst
    <3>. QED
      BY <1>1, <2>2, <3>6 DEF Cached
  <2>. QED
    BY <2>1, <2>2
<1>10. /\ kind.incremental /\ Shaped(kind, T)
       /\ Kept(bs, T.array, T.count) /\ Hashed(kind, M, st, hs) /\ Sized(kind, T.size, M)
       /\ C.to + 1 = T.split /\ C.from + T.count \div 2 = C.to
       /\ \A i \in indices, n \in Nodes :
            n \in Elems(bs[T.array][i]) =>
              i = Home(kind, T, hs, n) \/ (i = C.from /\ C.to = Home(kind, T, hs, n))
  BY <1>1 DEF Growing
<1>11. Merges(as, bs, cs, T, M, st, hs, C.from, C.to, ns, U)
  BY <1>1, <1>2, <1>9, <1>10 DEF Merges
<1>. QED
  BY <1>11, MergedIsQuiet, Zenon

\* grow_throws preserves the invariant.
LEMMA GrowThrowsBase ==
  ASSUME IBase, grow_throws
  PROVE  IBase'
<1>1. PICK t : t = call.table
  OBVIOUS
<1>2. PICK T : T = tab[t]
  OBVIOUS
<1>3. PICK M : M = members[t]
  OBVIOUS
<1>4. GrowingNow(t, T, M)
  <2>1. in("grow")
    BY DEF grow_throws
  <2>. QED
    BY <1>1, <1>2, <1>3, <2>1, GrowIsNow
<1>5. /\ buckets \in Memories /\ GrowthUnderWay(buckets, T, M, stored, hashing, call)
      /\ pending = None \/ Committable(kind, tab, hashing, call, pending)
      /\ t \in Tables /\ tab \in [Tables -> Recs] /\ T.array \in Arrays /\ T \in Recs
      /\ Growing(kind, buckets, T, M, stored, hashing, call) /\ call.op = "grow"
      /\ Owned(tab, call, t) = {T.array}
      /\ Worked(t, Owned(tab, call, t), buckets, tab, members, stored, hashing, linked, call)
  BY <1>4 DEF GrowingNow
<1>6. call.before_i < Len(buckets[T.array][call.from])
  BY <1>1, <1>2 DEF grow_throws, grow_bucket, bucket
<1>7. PICK as : as = {T.array}
  BY Zenon
<1>8. PICK ns : ns = Elems(buckets[T.array][call.to])
  OBVIOUS
<1>9. PICK cs : cs = whole(buckets, T.array, call.to, T.array, call.from)
  OBVIOUS
<1>10. PICK U : U = rollback_split(T)
  OBVIOUS
<1>11. PICK tc : tc = [tab EXCEPT ![t] = U]
  BY Zenon
<1>12. /\ call.from \in Nat /\ call.to \in Nat /\ call.from < call.to
       /\ call.from \in indices /\ call.to \in indices
       /\ buckets[T.array][call.from] \in Seq(Nodes) /\ Distinct(buckets[T.array][call.from])
       /\ buckets[T.array][call.to] \in Seq(Nodes) /\ Distinct(buckets[T.array][call.to])
  BY <1>5, GrowthIs
<1>13. as \in SUBSET Arrays /\ T.array \in as /\ Holds(buckets, as, M) /\ ApartIn(as, buckets)
  BY <1>3, <1>5, <1>7 DEF Worked
<1>14. call.to # call.from
  BY <1>12
<1>15. MovesWhole(as, buckets, cs, T.array, call.to, T.array, call.from, ns, M)
  BY <1>5, <1>8, <1>9, <1>12, <1>13, <1>14, Zenon DEF MovesWhole
<1>16. /\ MovesIn(as, buckets, cs, T.array, call.to, T.array, call.from, ns, M)
       /\ cs[T.array][call.to] = <<>>
  <2>1. /\ MovesIn(as, buckets, cs, T.array, call.to, T.array, call.from, ns, M)
        /\ LeftEmpty(cs, T.array, call.to)
    BY <1>15, WholeMoves, Zenon
  <2>. QED
    BY <2>1 DEF LeftEmpty
<1>17. T.split - 1 = call.to
  <2>1. call.to + 1 = T.split
    BY <1>5 DEF Growing
  <2>. QED
    BY <1>12, <2>1
<1>18. /\ U \in Recs /\ U.array = T.array /\ U.count = T.count /\ U.size = T.size
       /\ U.cache = T.cache /\ U.split = call.to
  BY <1>5, <1>10, <1>12, <1>17, RollbackSplit
<1>19. GrowthThrows(as, buckets, cs, T, M, stored, hashing, call, ns, U)
  BY <1>5, <1>6, <1>7, <1>8, <1>16, <1>18 DEF GrowthThrows
<1>20. Quiet(kind, cs, U, M, stored, hashing)
  BY <1>19, GrowthThrowsIsQuiet, Zenon
<1>21. cs \in Memories /\ \A e \in Arrays \ {T.array}, i \in indices : cs[e][i] = buckets[e][i]
  BY <1>16 DEF MovesIn, Moved
<1>22. GrowsOver(t, T, M, U, cs, tc)
  BY <1>4, <1>11, <1>18, <1>20, <1>21 DEF GrowsOver
<1>23. tab' = tc /\ call' = None /\ buckets' = cs
  BY <1>1, <1>2, <1>9, <1>10, <1>11 DEF grow_throws
<1>24. UNCHANGED <<kind, group, stored, linked, hashing, members>>
  BY DEF grow_throws
<1>25. pending' = None \/ Committable(kind, tab', hashing, call', pending')
  <2>1. pending' = pending
    BY DEF grow_throws
  <2>2. SUFFICES ASSUME pending # None
                 PROVE  Committable(kind, tc, hashing, None, pending)
    BY <1>23, <2>1
  <2>3. Committable(kind, tab, hashing, call, pending)
    BY <1>5, <2>2
  <2>4. pending \in Commits /\ pending.hash = hashing[pending.key] /\ pending.table \in Tables
    BY <2>3 DEF Committable, Commits
  <2>5. None.op # "grow"
    BY DEF None
  <2>6. CASE pending.table = t
    <3>1. tc[t] = U /\ tab[t] = T
      BY <1>2, <1>5, <1>11
    <3>2. tc[pending.table].split = tab[pending.table].split - 1
          /\ tc[pending.table].count = tab[pending.table].count
      BY <1>17, <1>18, <2>6, <3>1
    <3>. QED
      BY <1>1, <1>5, <2>3, <2>4, <2>5, <2>6, <3>2 DEF Committable
  <2>7. CASE pending.table # t
    <3>1. tc[pending.table] = tab[pending.table]
      BY <1>5, <1>11, <2>4, <2>7
    <3>. QED
      BY <1>1, <1>5, <2>3, <2>4, <2>5, <2>7, <3>1 DEF Committable
  <2>. QED
    BY <2>6, <2>7
<1>. QED
  BY <1>22, <1>23, <1>24, <1>25, GrowOverBase
-----------------------------------------------------------------------------
(* incremental_rehash(false), and with new buckets.                         *)

\* A table that changes while nobody works on it, but keeps its elements.
LEMMA KeepsBase ==
  ASSUME IBase, idle, outdated,
         Rest(buckets', tab', members, stored, hashing, linked),
         UNCHANGED <<kind, group, stored, linked, hashing, call, members>>
  PROVE  IBase'
<1>1. /\ Resting /\ call = None /\ kind \in Kinds
      /\ pending = None \/ Committable(kind, tab, hashing, call, pending)
      /\ ~kind.multi => group = [n \in Nodes |-> Junk]
  BY IdleIs DEF Resting
<1>2. kind' = kind /\ Rest(buckets', tab', members', stored', hashing', linked')
  OBVIOUS
<1>3. pending' = None \/ Committable(kind, tab', hashing', call', pending')
  <2>1. pending' = None \/ Committable(kind, tab', hashing, call', pending')
    BY <1>1, Outdates
  <2>. QED
    BY <2>1
<1>4. call' = None /\ (~kind.multi => group' = [n \in Nodes |-> Junk])
  BY <1>1
<1>. QED
  BY <1>1, <1>2, <1>3, <1>4, RestIsBase

\* Table T shrinks by its topmost bucket, and is then U.
Shrinks(as, bs, cs, T, M, st, hs, low, top, ns, U) ==
  /\ kind \in Kinds /\ bs \in Memories /\ T \in Recs /\ M \in SUBSET Nodes /\ hs \in Hashings
  /\ Quiet(kind, bs, T, M, st, hs)
  /\ kind.incremental
  /\ low \in Nat /\ top \in Nat /\ top + 1 = T.split /\ low + T.count \div 2 = top
  /\ low \in indices /\ top \in indices /\ low < top /\ top < T.count
  /\ as = {T.array}
  /\ MovesIn(as, bs, cs, T.array, top, T.array, low, ns, M)
  /\ ns = Elems(bs[T.array][top])
  /\ U \in Recs /\ U.array = T.array /\ U.count = T.count /\ U.size = T.size /\ U.split = top
  /\ U.cache = IF kind.cache /\ low < T.cache THEN low ELSE T.cache
  /\ kind.cache /\ low < T.cache => bs[T.array][low] # <<>> \/ bs[T.array][top] # <<>>

\* A table with one bucket less has every element at home.
LEMMA ShrunkIsQuiet ==
  ASSUME NEW as, NEW bs, NEW cs, NEW T, NEW M, NEW st, NEW hs, NEW low, NEW top, NEW ns, NEW U,
         Shrinks(as, bs, cs, T, M, st, hs, low, top, ns, U)
  PROVE  Quiet(kind, cs, U, M, st, hs)
<1>1. /\ kind \in Kinds /\ bs \in Memories /\ T \in Recs /\ M \in SUBSET Nodes /\ hs \in Hashings
      /\ Quiet(kind, bs, T, M, st, hs)
      /\ kind.incremental
      /\ low \in Nat /\ top \in Nat /\ top + 1 = T.split /\ low + T.count \div 2 = top
      /\ low \in indices /\ top \in indices /\ low < top /\ top < T.count
      /\ as = {T.array}
      /\ MovesIn(as, bs, cs, T.array, top, T.array, low, ns, M)
      /\ ns = Elems(bs[T.array][top])
      /\ U \in Recs /\ U.array = T.array /\ U.count = T.count /\ U.size = T.size /\ U.split = top
      /\ U.cache = IF kind.cache /\ low < T.cache THEN low ELSE T.cache
      /\ kind.cache /\ low < T.cache => bs[T.array][low] # <<>> \/ bs[T.array][top] # <<>>
  BY DEF Shrinks
<1>2. /\ T.count \in Nat /\ T.cache \in Nat /\ T.array \in Arrays
      /\ \A i \in 0..(T.count - 1) : i \in indices
  BY <1>1, RecIs
<1>3. /\ Kept(bs, T.array, T.count) /\ AtHome(kind, bs, T, hs) /\ Shaped(kind, T)
      /\ Hashed(kind, M, st, hs) /\ Cached(kind, bs, T) /\ Sized(kind, T.size, M)
  BY <1>1 DEF Quiet
<1>4. Moved(bs, cs, T.array, top, T.array, low, ns)
  BY <1>1 DEF MovesIn
<1>5. \A k \in indices : k # low /\ k # top => cs[T.array][k] = bs[T.array][k]
  BY <1>2, <1>4 DEF Moved
<1>6. bs[T.array][low] \in Seq(Nodes) /\ bs[T.array][top] \in Seq(Nodes)
  <2>1. low < T.count
    BY <1>1, <1>2
  <2>. QED
    BY <1>1, <1>3, <2>1 DEF Kept
<1>7. bs[T.array][low] # <<>> \/ bs[T.array][top] # <<>> => cs[T.array][low] # <<>>
  <2>1. \A b \in Seq(Nodes) : b # <<>> => \E n \in Nodes : n \in Elems(b)
    BY ElemsOfSeq
  <2>2. Elems(<<>>) = {}
    BY EmptyBucket
  <2>3. \A n \in Nodes : n \in Elems(bs[T.array][low]) \/ n \in Elems(bs[T.array][top])
                           => n \in Elems(cs[T.array][low])
    BY <1>1, <1>4 DEF Moved
  <2>. QED
    BY <1>6, <2>1, <2>2, <2>3
<1>8. Cached(kind, cs, U)
  <2>1. CASE ~kind.cache
    BY <1>1, <1>3, <2>1 DEF Cached
  <2>2. CASE kind.cache
    <3>1. /\ T.cache \in 0..T.count
          /\ T.cache < T.count => bs[T.array][T.cache] # <<>>
          /\ \A k \in 0..(T.cache - 1) : bs[T.array][k] = <<>>
      BY <1>3, <2>2 DEF Cached, IsFirst
    <3>2. CASE low < T.cache
      <4>1. U.cache = low /\ cs[T.array][low] # <<>>
        BY <1>1, <1>7, <2>2, <3>2
      <4>2. \A k \in 0..(low - 1) : cs[T.array][k] = <<>>
        <5> SUFFICES ASSUME NEW k \in 0..(low - 1)
                     PROVE  cs[T.array][k] = <<>>
          OBVIOUS
        <5>1. k \in 0..(T.cache - 1) /\ k \in 0..(T.count - 1) /\ k # low /\ k # top
          BY <1>1, <1>2, <3>2
        <5>2. k \in indices
          BY <1>2, <5>1
        <5>. QED
          BY <1>5, <3>1, <5>1, <5>2
      <4>3. low \in 0..T.count
        BY <1>1, <1>2
      <4>4. IsFirst(cs, T.array, T.count, low)
        BY <4>1, <4>2, <4>3 DEF IsFirst
      <4>. QED
        BY <1>1, <2>2, <4>1, <4>4 DEF Cached
    <3>3. CASE ~(low < T.cache)
      <4>1. U.cache = T.cache /\ T.cache <= low /\ T.cache < T.count /\ T.cache # top
        BY <1>1, <1>2, <3>3
      <4>2. \A k \in 0..(T.cache - 1) : cs[T.array][k] = <<>>
        <5> SUFFICES ASSUME NEW k \in 0..(T.cache - 1)
                     PROVE  cs[T.array][k] = <<>>
          OBVIOUS
        <5>1. k \in 0..(T.count - 1) /\ k # low /\ k # top
          BY <1>1, <1>2, <4>1
        <5>2. k \in indices
          BY <1>2, <5>1
        <5>. QED
          BY <1>5, <3>1, <5>1, <5>2
      <4>3. cs[T.array][T.cache] # <<>>
        <5>1. T.cache \in 0..(T.count - 1)
          BY <1>2, <4>1
        <5>2. T.cache \in indices
          BY <1>2, <5>1
        <5>3. bs[T.array][T.cache] # <<>>
          BY <3>1, <4>1
        <5>4. CASE T.cache = low
          BY <1>7, <5>3, <5>4
        <5>5. CASE T.cache # low
          BY <1>5, <4>1, <5>2, <5>3, <5>5
        <5>. QED
          BY <5>4, <5>5
      <4>4. IsFirst(cs, T.array, T.count, T.cache)
        BY <3>1, <4>2, <4>3 DEF IsFirst
      <4>. QED
        BY <1>1, <2>2, <4>1, <4>4 DEF Cached
    <3>. QED
      BY <3>2, <3>3
  <2>. QED
    BY <2>1, <2>2
<1>9. \A i \in indices, n \in Nodes :
        n \in Elems(bs[T.array][i]) =>
          i = Home(kind, T, hs, n) \/ (i = low /\ top = Home(kind, T, hs, n))
  BY <1>3 DEF AtHome
<1>10. Merges(as, bs, cs, T, M, st, hs, low, top, ns, U)
  BY <1>1, <1>3, <1>8, <1>9 DEF Merges
<1>. QED
  BY <1>10, MergedIsQuiet, Zenon

\* shrink preserves the invariant.
LEMMA ShrinkBase ==
  ASSUME IBase, NEW t \in Tables, shrink(t)
  PROVE  IBase'
<1>0. idle
  BY DEF shrink
<1>1. Resting
  BY <1>0, IdleIs
<1>2. PICK T : T = tab[t]
  OBVIOUS
<1>3. PICK M : M = members[t]
  OBVIOUS
<1>4. /\ kind \in Kinds /\ buckets \in Memories /\ hashing \in Hashings
      /\ stored \in [Nodes -> Nat \cup {Junk}]
      /\ tab \in [Tables -> Recs] /\ members \in [Tables -> SUBSET Nodes]
      /\ T \in Recs /\ M \in SUBSET Nodes
      /\ Quiet(kind, buckets, T, M, stored, hashing)
      /\ Rest(buckets, tab, members, stored, hashing, linked)
  BY <1>1, <1>2, <1>3, RestingIs DEF Resting
<1>5. /\ T.array \in Arrays /\ T.count \in Nat /\ T.split \in Nat /\ T.cache \in Nat
      /\ \A i \in 0..(T.count - 1) : i \in indices
  BY <1>4, RecIs
<1>6. /\ kind.incremental /\ T.split > T.count \div 2 /\ ~caches_empty(t)
  BY <1>2 DEF shrink
<1>7. /\ Kept(buckets, T.array, T.count) /\ Holds(buckets, {T.array}, M) /\ Shaped(kind, T)
  BY <1>4 DEF Quiet
<1>8. PICK h : h = T.count \div 2
  OBVIOUS
<1>9. PICK top : top = T.split - 1
  OBVIOUS
<1>10. PICK low : low = top - h
  OBVIOUS
<1>11. /\ top \in Nat /\ low \in Nat /\ top + 1 = T.split /\ low + h = top
       /\ low < top /\ top < T.count
  <2>1. h \in Nat /\ T.count = 2 * h /\ T.split <= T.count /\ T.split > h
    BY <1>5, <1>6, <1>7, <1>8 DEF Shaped
  <2>2. h > 0
    BY <1>5, <2>1
  <2>. QED
    BY <1>5, <1>9, <1>10, <2>1, <2>2
<1>12. low \in indices /\ top \in indices /\ low # top /\ low < T.count
  <2>1. low \in 0..(T.count - 1) /\ top \in 0..(T.count - 1)
    BY <1>5, <1>11
  <2>. QED
    BY <1>5, <1>11, <2>1
<1>13. /\ buckets[T.array][low] \in Seq(Nodes) /\ Distinct(buckets[T.array][low])
       /\ buckets[T.array][top] \in Seq(Nodes) /\ Distinct(buckets[T.array][top])
  BY <1>7, <1>11, <1>12 DEF Kept
<1>14. PICK as : as = {T.array}
  BY Zenon
<1>15. PICK ns : ns = Elems(buckets[T.array][top])
  OBVIOUS
<1>16. PICK cs : cs = whole(buckets, T.array, top, T.array, low)
  OBVIOUS
<1>17. as \in SUBSET Arrays /\ T.array \in as /\ Holds(buckets, as, M) /\ ApartIn(as, buckets)
  <2>1. Apart(buckets)
    BY <1>4, RestIsApart
  <2>. QED
    BY <1>5, <1>7, <1>14, <2>1 DEF Apart, ApartIn
<1>18. MovesWhole(as, buckets, cs, T.array, top, T.array, low, ns, M)
  BY <1>4, <1>12, <1>13, <1>15, <1>16, <1>17, Zenon DEF MovesWhole
<1>19. MovesIn(as, buckets, cs, T.array, top, T.array, low, ns, M)
  BY <1>18, WholeMoves, Zenon
<1>20. PICK S : S = rollback_split(T)
  OBVIOUS
<1>21. /\ S \in Recs /\ S.array = T.array /\ S.count = T.count /\ S.size = T.size
       /\ S.cache = T.cache /\ S.split = top
  BY <1>4, <1>9, <1>11, <1>20, RollbackSplit
<1>22. PICK U : U = priv_insertion_update_cache(S, low)
  OBVIOUS
<1>23. /\ U \in Recs /\ U.array = S.array /\ U.count = S.count /\ U.split = S.split
       /\ U.size = S.size /\ U.cache = IF kind.cache /\ low < S.cache THEN low ELSE S.cache
  BY <1>11, <1>21, <1>22, InsertionCache
<1>24. kind.cache /\ low < T.cache =>
         buckets[T.array][low] # <<>> \/ buckets[T.array][top] # <<>>
  BY <1>2, <1>6, <1>8, <1>9, <1>10 DEF caches_empty, bucket
<1>25. Shrinks(as, buckets, cs, T, M, stored, hashing, low, top, ns, U)
  BY <1>4, <1>6, <1>8, <1>11, <1>12, <1>14, <1>15, <1>19, <1>21, <1>23, <1>24 DEF Shrinks
<1>26. Quiet(kind, cs, U, M, stored, hashing)
  BY <1>25, ShrunkIsQuiet, Zenon
<1>27. PICK tc : tc = [tab EXCEPT ![t] = U]
  BY Zenon
<1>28. cs \in Memories /\ \A e \in Arrays \ {T.array}, i \in indices : cs[e][i] = buckets[e][i]
  BY <1>19 DEF MovesIn, Moved
<1>29. Rest(cs, tc, members, stored, hashing, linked)
  <2>1. /\ \A u, v \in Tables, m \in Nodes : m \in members[u] /\ m \in members[v] => u = v
        /\ linked = UNION {members[u] : u \in Tables}
    BY <1>4 DEF Rest
  <2>2. members = [members EXCEPT ![t] = M] /\ linked = (linked \ members[t]) \cup M
    BY <1>3, <1>4, <2>1
  <2>3. \A u \in Tables \ {t} : \A m \in members[u] : stored[m] = stored[m] /\ m \notin M
    BY <1>3, <1>4, <2>1
  <2>4. U.array = tab[t].array /\ \A e \in Arrays \ {U.array}, i \in indices : cs[e][i] = buckets[e][i]
    BY <1>2, <1>21, <1>23, <1>28
  <2>5. Changes(t, buckets, tab, members, stored, hashing, linked, cs, U, M, stored, tc, members,
                linked)
    BY <1>4, <1>23, <1>26, <1>27, <1>28, <2>2, <2>3, <2>4 DEF Changes
  <2>. QED
    BY <2>5, RestChanges
<1>30. /\ buckets' = cs /\ tab' = tc /\ outdated
  BY <1>2, <1>4, <1>8, <1>9, <1>10, <1>16, <1>20, <1>22, <1>27 DEF shrink
<1>31. Rest(buckets', tab', members, stored, hashing, linked)
  BY <1>29, <1>30
<1>32. UNCHANGED <<kind, group, stored, linked, hashing, call, members>>
  BY DEF shrink
<1>. QED
  BY <1>0, <1>30, <1>31, <1>32, KeepsBase

\* Twice the buckets of which the first half is in use, or the first half of
\* twice the buckets, put a hash into the same bucket.
Halves(x, c, d, s, i, old, new) ==
  /\ x \in Nat /\ c \in Nat /\ d \in Nat /\ s \in Nat /\ 1 <= s /\ i \in BOOLEAN /\ i
  /\ \/ c = s /\ d = 2 * s
     \/ c = 2 * s /\ d = s
  /\ old = hash_to_bucket_split(x, c, s, i) /\ new = hash_to_bucket_split(x, d, s, i)

\* The homes do not change when the number of buckets is halved or doubled.
LEMMA HalvesAgree ==
  ASSUME NEW x, NEW c, NEW d, NEW s, NEW i, NEW old, NEW new, Halves(x, c, d, s, i, old, new)
  PROVE  new = old
<1>1. /\ x \in Nat /\ c \in Nat /\ d \in Nat /\ s \in Nat /\ s > 0 /\ i = TRUE
      /\ \/ c = s /\ d = 2 * s
         \/ c = 2 * s /\ d = s
      /\ old = hash_to_bucket_split(x, c, s, i) /\ new = hash_to_bucket_split(x, d, s, i)
  BY DEF Halves
<1>2. hash_to_bucket_split(x, 2 * s, s, TRUE) = hash_to_bucket_split(x, s, s, TRUE)
  BY <1>1, SplitDoubled, Zenon
<1>. QED
  BY <1>1, <1>2, Zenon

\* Table T comes to have c buckets in array a, and is then U.
Regrids(bs, cs, T, M, st, hs, a, c, U) ==
  /\ kind \in Kinds /\ bs \in Memories /\ T \in Recs /\ M \in SUBSET Nodes /\ hs \in Hashings
  /\ cs \in Memories /\ Quiet(kind, bs, T, M, st, hs)
  /\ kind.incremental /\ a \in Arrays
  /\ c \in Counts /\ c = 2 * (c \div 2)
  /\ \/ c = 2 * T.count /\ T.split >= T.count
     \/ 2 * c = T.count /\ T.split <= c
  /\ U \in Recs /\ U.array = a /\ U.count = c /\ U.split = T.split /\ U.size = T.size
  /\ U.cache = T.cache
  /\ kind.cache => T.cache # T.count
  /\ \A i \in indices : cs[a][i] = IF i < c THEN IF i < T.split THEN bs[T.array][i] ELSE <<>>
                                   ELSE <<Junk>>

\* A table is at rest in a new array.
LEMMA RegridsIsQuiet ==
  ASSUME NEW bs, NEW cs, NEW T, NEW M, NEW st, NEW hs, NEW a, NEW c, NEW U,
         Regrids(bs, cs, T, M, st, hs, a, c, U)
  PROVE  Quiet(kind, cs, U, M, st, hs)
<1>1. /\ kind \in Kinds /\ bs \in Memories /\ T \in Recs /\ M \in SUBSET Nodes /\ hs \in Hashings
      /\ cs \in Memories /\ Quiet(kind, bs, T, M, st, hs)
      /\ kind.incremental /\ a \in Arrays
      /\ c \in Counts /\ c = 2 * (c \div 2)
      /\ U \in Recs /\ U.array = a /\ U.count = c /\ U.split = T.split /\ U.size = T.size
      /\ U.cache = T.cache
      /\ kind.cache => T.cache # T.count
      /\ \A i \in indices : cs[a][i] = IF i < c THEN IF i < T.split THEN bs[T.array][i] ELSE <<>>
                                       ELSE <<Junk>>
  BY DEF Regrids
<1>2. /\ T.count \in Nat /\ 1 <= T.count /\ T.split \in Nat /\ T.cache \in Nat /\ T.array \in Arrays
      /\ T.count <= MaxCount
      /\ \A i \in 0..(T.count - 1) : i \in indices
  BY <1>1, RecIs
<1>3. c \in Nat /\ 1 <= c /\ c <= MaxCount
  BY <1>1, CountIs
<1>4. /\ Kept(bs, T.array, T.count) /\ AtHome(kind, bs, T, hs) /\ Shaped(kind, T)
      /\ Holds(bs, {T.array}, M)
      /\ Hashed(kind, M, st, hs) /\ Cached(kind, bs, T) /\ Sized(kind, T.size, M)
  BY <1>1 DEF Quiet
<1>5. PICK s : s = T.split
  OBVIOUS
<1>6. PICK d : d = T.count
  OBVIOUS
<1>7. /\ s \in Nat /\ 1 <= s /\ s <= c /\ s <= d /\ d \in Nat
      /\ \/ d = s /\ c = 2 * s
         \/ d = 2 * s /\ c = s
  <2>1. PICK h : h = T.count \div 2
    OBVIOUS
  <2>2. d = 2 * h /\ h <= s /\ s <= d /\ d \in Nat /\ h \in Nat /\ s \in Nat
    BY <1>1, <1>2, <1>4, <1>5, <1>6, <2>1 DEF Shaped
  <2>3. \/ c = 2 * d /\ s >= d
        \/ 2 * c = d /\ s <= c
    BY <1>5, <1>6 DEF Regrids
  <2>. QED
    BY <1>2, <1>3, <1>6, <2>2, <2>3
<1>8. Shaped(kind, U)
  <2>1. PICK h : h = c \div 2
    OBVIOUS
  <2>2. c = 2 * h /\ h \in Nat
    BY <1>1, <1>3, <2>1
  <2>3. h <= s /\ s <= c
    BY <1>7, <2>2
  <2>. QED
    BY <1>1, <1>5, <2>1, <2>2, <2>3 DEF Shaped
<1>9. \A i \in indices, n \in Nodes : n \in Elems(bs[T.array][i]) =>
        i = Home(kind, T, hs, n) /\ i < s /\ i \in Nat
  <2> SUFFICES ASSUME NEW i \in indices, NEW n \in Nodes, n \in Elems(bs[T.array][i])
               PROVE  i = Home(kind, T, hs, n) /\ i < s /\ i \in Nat
    OBVIOUS
  <2>1. i = Home(kind, T, hs, n)
    BY <1>4 DEF AtHome
  <2>2. Home(kind, T, hs, n) < T.split
    BY <1>1, <1>4, HomeIs
  <2>3. i \in Nat
    BY CountIs DEF indices
  <2>. QED
    BY <1>5, <2>1, <2>2, <2>3
<1>10. Elems(<<>>) = {} /\ (\A n \in Nodes : n \notin Elems(<<Junk>>)) /\ \A i \in indices : i \in Nat
  <2>1. Elems(<<Junk>>) = {Junk} /\ Junk \notin Nodes
    BY SingleBucket, ElementAssumption
  <2>2. Elems(<<>>) = {}
    BY EmptyBucket
  <2>3. \A i \in indices : i \in Nat
    BY CountIs DEF indices
  <2>. QED
    BY <2>1, <2>2, <2>3
<1>11. ASSUME NEW i \in indices, NEW n \in Nodes
       PROVE  n \in Elems(cs[a][i]) <=> n \in Elems(bs[T.array][i])
  <2>1. CASE i < s
    <3>1. i < c
      BY <1>3, <1>7, <1>10, <2>1
    <3>. QED
      BY <1>1, <1>5, <2>1, <3>1
  <2>2. CASE ~(i < s)
    <3>1. cs[a][i] = <<>> \/ cs[a][i] = <<Junk>>
      BY <1>1, <1>5, <2>2
    <3>2. n \notin Elems(cs[a][i])
      BY <1>10, <3>1
    <3>. QED
      BY <1>9, <2>2, <3>2
  <2>. QED
    BY <2>1, <2>2
<1>12. Kept(cs, a, c)
  <2> SUFFICES ASSUME NEW i \in indices
               PROVE  IF i < c THEN cs[a][i] \in Seq(Nodes) /\ Distinct(cs[a][i])
                      ELSE cs[a][i] = <<Junk>>
    BY DEF Kept
  <2>1. <<>> \in Seq(Nodes) /\ Distinct(<<>>)
    BY EmptyBucket
  <2>2. CASE ~(i < c)
    BY <1>1, <2>2
  <2>3. CASE i < c /\ ~(i < s)
    <3>1. cs[a][i] = <<>>
      BY <1>1, <1>5, <2>3
    <3>. QED
      BY <2>1, <2>3, <3>1
  <2>4. CASE i < c /\ i < s
    <3>1. cs[a][i] = bs[T.array][i]
      BY <1>1, <1>5, <2>4
    <3>2. i < T.count
      BY <1>6, <1>7, <1>10, <2>4
    <3>3. bs[T.array][i] \in Seq(Nodes) /\ Distinct(bs[T.array][i])
      BY <1>4, <3>2 DEF Kept
    <3>. QED
      BY <2>4, <3>1, <3>3
  <2>. QED
    BY <2>2, <2>3, <2>4
<1>13. Holds(cs, {a}, M)
  BY <1>4, <1>11 DEF Holds
<1>14. AtHome(kind, cs, U, hs)
  <2> SUFFICES ASSUME NEW i \in indices, NEW n \in Nodes, n \in Elems(cs[a][i])
               PROVE  i = Home(kind, U, hs, n)
    BY <1>1 DEF AtHome
  <2>1. i = Home(kind, T, hs, n)
    BY <1>9, <1>11
  <2>2. PICK x \in Nat : x = hs[Key[n]]
    BY <1>1, HashIs
  <2>3. PICK k \in BOOLEAN : k = kind.incremental
    BY <1>1, KindIs, Zenon
  <2>4. PICK old : old = hash_to_bucket_split(x, d, s, k)
    OBVIOUS
  <2>5. PICK new : new = hash_to_bucket_split(x, c, s, k)
    OBVIOUS
  <2>6. Home(kind, T, hs, n) = old /\ Home(kind, U, hs, n) = new
    BY <1>1, <1>5, <1>6, <2>2, <2>3, <2>4, <2>5 DEF Home
  <2>7. k
    BY <1>1, <2>3
  <2>8. Halves(x, d, c, s, k, old, new)
    BY <1>3, <1>7, <2>4, <2>5, <2>7 DEF Halves
  <2>9. new = old
    BY <2>8, HalvesAgree
  <2>. QED
    BY <2>1, <2>6, <2>9
<1>15. Cached(kind, cs, U)
  <2>1. CASE ~kind.cache
    BY <1>1, <1>4, <2>1 DEF Cached
  <2>2. CASE kind.cache
    <3>1. /\ T.cache \in 0..T.count
          /\ T.cache < T.count => bs[T.array][T.cache] # <<>>
          /\ \A k \in 0..(T.cache - 1) : bs[T.array][k] = <<>>
      BY <1>4, <2>2 DEF Cached, IsFirst
    <3>2. T.cache # T.count
      BY <1>1, <2>2
    <3>3. T.cache < T.count /\ T.cache \in 0..(T.count - 1)
      BY <1>2, <3>1, <3>2
    <3>4. T.cache \in indices /\ bs[T.array][T.cache] # <<>>
      BY <1>2, <3>1, <3>3
    <3>5. bs[T.array][T.cache] \in Seq(Nodes)
      BY <1>4, <3>3, <3>4 DEF Kept
    <3>6. \E n \in Nodes : n \in Elems(bs[T.array][T.cache])
      BY <3>4, <3>5, ElemsOfSeq
    <3>7. T.cache < s
      BY <1>9, <3>4, <3>6
    <3>8. \A k \in 0..T.cache : k \in indices /\ k < c /\ k < T.split
      BY <1>2, <1>3, <1>5, <1>7, <3>3, <3>7
    <3>9. \A k \in 0..(T.cache - 1) : cs[a][k] = <<>>
      <4> SUFFICES ASSUME NEW k \in 0..(T.cache - 1)
                   PROVE  cs[a][k] = <<>>
        OBVIOUS
      <4>1. k \in 0..T.cache
        BY <1>2
      <4>. QED
        BY <1>1, <3>1, <3>8, <4>1
    <3>10. cs[a][T.cache] # <<>>
      <4>1. T.cache \in 0..T.cache
        BY <1>2
      <4>. QED
        BY <1>1, <3>4, <3>8, <4>1
    <3>11. T.cache \in 0..c
      BY <1>2, <1>3, <1>7, <3>7
    <3>12. IsFirst(cs, a, c, T.cache)
      BY <3>9, <3>10, <3>11 DEF IsFirst
    <3>. QED
      BY <1>1, <2>2, <3>12 DEF Cached
  <2>. QED
    BY <2>1, <2>2
<1>. QED
  BY <1>1, <1>4, <1>8, <1>12, <1>13, <1>14, <1>15 DEF Quiet

\* The record of the table, and its buckets.
SetBuckets(T, U, a, c) ==
  T \in Recs /\ a \in Arrays /\ c \in Counts /\ U = [T EXCEPT !.array = a, !.count = c]

\* What the new bucket_traits change.
LEMMA GivesBuckets ==
  ASSUME NEW T, NEW a, NEW c, NEW U, SetBuckets(T, U, a, c)
  PROVE  /\ U \in Recs /\ U.array = a /\ U.count = c /\ U.split = T.split /\ U.size = T.size
         /\ U.cache = T.cache
BY Zenon DEF SetBuckets, Recs

SplicedIn(bt, T, a) ==
  [bt EXCEPT ![a] = [i \in indices |-> IF a # T.array /\ i \in T.cache..(T.split - 1)
                                       THEN bt[T.array][i] ELSE bt[a][i]]]

Splices(bt, T, a, bu) ==
  bt \in Memories /\ T \in Recs /\ a \in Arrays /\ bu = SplicedIn(bt, T, a)

IsSpliced(bt, T, a, bu) ==
  /\ bu \in Memories
  /\ \A e \in Arrays \ {a}, i \in indices : bu[e][i] = bt[e][i]
  /\ \A i \in indices : bu[a][i] = IF a # T.array /\ i \in T.cache..(T.split - 1)
                                   THEN bt[T.array][i] ELSE bt[a][i]

\* The buckets in use, in the new array.
LEMMA SplicesIn ==
  ASSUME NEW bt, NEW T, NEW a, NEW bu, Splices(bt, T, a, bu)
  PROVE  IsSpliced(bt, T, a, bu)
<1>1. bt \in Memories /\ T \in Recs /\ a \in Arrays /\ bu = SplicedIn(bt, T, a)
  BY DEF Splices
<1>2. T.array \in Arrays
  BY <1>1, RecIs
<1>. QED
  BY <1>1, <1>2 DEF SplicedIn, Memories, IsSpliced

\* incremental_rehash(new_bucket_traits) preserves the invariant.
LEMMA IncrementalRehashBase ==
  ASSUME IBase, NEW t \in Tables, NEW a \in arrays(t), NEW c \in bucket_counts,
         incremental_rehash(t, a, c)
  PROVE  IBase'
<1>0. idle
  BY DEF incremental_rehash
<1>1. Resting
  BY <1>0, IdleIs
<1>2. PICK T : T = tab[t]
  OBVIOUS
<1>3. PICK M : M = members[t]
  OBVIOUS
<1>4. /\ kind \in Kinds /\ buckets \in Memories /\ hashing \in Hashings
      /\ stored \in [Nodes -> Nat \cup {Junk}]
      /\ tab \in [Tables -> Recs] /\ members \in [Tables -> SUBSET Nodes]
      /\ T \in Recs /\ M \in SUBSET Nodes
      /\ Quiet(kind, buckets, T, M, stored, hashing)
      /\ Rest(buckets, tab, members, stored, hashing, linked)
  BY <1>1, <1>2, <1>3, RestingIs DEF Resting
<1>5. /\ T.array \in Arrays /\ T.count \in Nat /\ T.split \in Nat /\ T.cache \in Nat
      /\ \A i \in 0..(T.count - 1) : i \in indices
  BY <1>4, RecIs
<1>6. /\ kind.incremental
      /\ \/ c = 2 * T.count /\ T.split >= T.count
         \/ 2 * c = T.count /\ T.split <= c
      /\ kind.cache => T.cache # T.count
  BY <1>2 DEF incremental_rehash, keeps_old_end
<1>7. /\ c \in Counts /\ c \in Nat /\ 1 <= c /\ c <= MaxCount
      /\ c = 2 * (c \div 2)
  BY <1>4, <1>6, BucketCounts, Zenon
<1>8. a \in Arrays /\ \A u \in Tables \ {t} : tab[u].array # a
  BY <1>1, ArraysAre
<1>9. PICK bt : bt = initialized(buckets, T, a, c)
  OBVIOUS
<1>10. PICK bu : bu = SplicedIn(bt, T, a)
  OBVIOUS
<1>11. PICK U : U = [T EXCEPT !.array = a, !.count = c]
  OBVIOUS
<1>12. PICK tc : tc = [tab EXCEPT ![t] = U]
  BY Zenon
<1>13. PICK cs : cs = given_up(bu, tc)
  OBVIOUS
<1>14. NewBuckets(buckets, bt, T, a, c)
  <2>1. Kept(buckets, T.array, T.count)
    BY <1>4 DEF Quiet
  <2>2. a # T.array => Kept(buckets, a, 0)
    <3> SUFFICES ASSUME a # T.array
                 PROVE  Kept(buckets, a, 0)
      OBVIOUS
    <3>1. \A u \in Tables : a # tab[u].array
      BY <1>2, <1>8
    <3>. QED
      BY <1>4, <1>8, <3>1 DEF Rest
  <2>. QED
    BY <1>4, <1>7, <1>8, <1>9, <2>1, <2>2, InitializedIs
<1>15. /\ bt \in Memories
       /\ \A e \in Arrays, i \in indices : e # T.array /\ e # a => bt[e][i] = buckets[e][i]
       /\ \A i \in indices :
            bt[T.array][i] = IF i < T.count THEN buckets[T.array][i]
                             ELSE IF a = T.array /\ i < c THEN <<>> ELSE <<Junk>>
       /\ a # T.array => \A i \in indices : bt[a][i] = IF i < c THEN <<>> ELSE <<Junk>>
  BY <1>14 DEF NewBuckets
<1>16. /\ bu \in Memories
       /\ \A e \in Arrays \ {a}, i \in indices : bu[e][i] = bt[e][i]
       /\ \A i \in indices : bu[a][i] = IF a # T.array /\ i \in T.cache..(T.split - 1)
                                        THEN bt[T.array][i] ELSE bt[a][i]
  <2>1. Splices(bt, T, a, bu)
    BY <1>4, <1>8, <1>10, <1>15 DEF Splices
  <2>2. IsSpliced(bt, T, a, bu)
    BY <2>1, SplicesIn
  <2>. QED
    BY <2>2 DEF IsSpliced
<1>17. /\ U \in Recs /\ U.array = a /\ U.count = c /\ U.split = T.split /\ U.size = T.size
       /\ U.cache = T.cache
  <2>1. SetBuckets(T, U, a, c)
    BY <1>4, <1>7, <1>8, <1>11 DEF SetBuckets
  <2>. QED
    BY <2>1, GivesBuckets
<1>18. PICK as : as = {T.array}
  BY Zenon
<1>19. PICK be : be = {a}
  BY Zenon
<1>20. Others(t, as, buckets, tab, members, stored, hashing, linked)
  BY <1>2, <1>4, <1>18, RestIsOthers
<1>21. \A u \in Tables \ {t}, i \in indices : bu[tab[u].array][i] = buckets[tab[u].array][i]
  <2> SUFFICES ASSUME NEW u \in Tables \ {t}, NEW i \in indices
               PROVE  bu[tab[u].array][i] = buckets[tab[u].array][i]
    OBVIOUS
  <2>1. tab[u].array \in Arrays /\ tab[u].array # a /\ tab[u].array # T.array
    BY <1>2, <1>4, <1>8, RecIs DEF Rest
  <2>. QED
    BY <1>15, <1>16, <2>1
<1>22. Others(t, be, cs, tc, members, stored, hashing, linked) /\ Shortened(cs, bu, a, c)
  <2>1. /\ \A u, v \in Tables, m \in Nodes : m \in members[u] /\ m \in members[v] => u = v
        /\ linked = UNION {members[u] : u \in Tables}
    BY <1>4 DEF Rest
  <2>2. members = [members EXCEPT ![t] = M] /\ linked = (linked \ members[t]) \cup M
    BY <1>3, <1>4, <2>1
  <2>3. \A u \in Tables \ {t} : \A m \in members[u] :
          stored[m] = stored[m] /\ hashing[Key[m]] = hashing[Key[m]] /\ m \notin M
    BY <1>3, <1>4, <2>1
  <2>4. Exchanges(t, as, buckets, tab, members, stored, hashing, linked, bu, U, a, be, M, stored,
                  hashing, tc, members, linked, cs)
    BY <1>4, <1>8, <1>12, <1>13, <1>16, <1>17, <1>19, <1>20, <1>21, <2>2, <2>3 DEF Exchanges
  <2>5. Others(t, be, cs, tc, members, stored, hashing, linked) /\ Shortened(cs, bu, a, U.count)
    BY <2>4, GivenUpOthers, Zenon
  <2>. QED
    BY <1>17, <2>5
<1>23. \A i \in indices : cs[a][i] = IF i < c THEN IF i < T.split THEN buckets[T.array][i] ELSE <<>>
                                     ELSE <<Junk>>
  <2> SUFFICES ASSUME NEW i \in indices, i < c
               PROVE  bu[a][i] = IF i < T.split THEN buckets[T.array][i] ELSE <<>>
    BY <1>22 DEF Shortened
  <2>0. i \in Nat
    BY CountIs DEF indices
  <2>1. T.split <= T.count /\ (T.split < T.count => c <= T.split)
    <3>1. PICK h : h = T.count \div 2
      OBVIOUS
    <3>2. T.count = 2 * h /\ h <= T.split /\ T.split <= T.count /\ h \in Nat
      BY <1>4, <1>5, <1>6, <3>1 DEF Quiet, Shaped
    <3>. QED
      BY <1>5, <1>6, <1>7, <3>2
  <2>2. CASE a = T.array
    <3>1. bu[a][i] = bt[T.array][i]
      BY <1>16, <2>2
    <3>2. CASE i < T.split
      <4>1. i < T.count
        BY <1>5, <2>0, <2>1, <3>2
      <4>. QED
        BY <1>15, <3>1, <3>2, <4>1
    <3>3. CASE ~(i < T.split)
      <4>1. ~(i < T.count)
        BY <1>5, <1>7, <2>0, <2>1, <3>3
      <4>. QED
        BY <1>15, <2>2, <3>1, <3>3, <4>1
    <3>. QED
      BY <3>2, <3>3
  <2>3. CASE a # T.array
    <3>1. bt[a][i] = <<>>
      BY <1>15, <2>3
    <3>2. CASE i \in T.cache..(T.split - 1)
      <4>1. bu[a][i] = bt[T.array][i] /\ i < T.split /\ i < T.count
        BY <1>5, <1>16, <2>0, <2>1, <2>3, <3>2
      <4>. QED
        BY <1>15, <4>1
    <3>3. CASE i \notin T.cache..(T.split - 1)
      <4>1. bu[a][i] = <<>>
        BY <1>16, <3>1, <3>3
      <4>2. i < T.split => i \in 0..(T.cache - 1)
        BY <1>5, <2>0, <3>3
      <4>3. \A k \in 0..(T.cache - 1) : buckets[T.array][k] = <<>>
        <5>1. Cached(kind, buckets, T)
          BY <1>4 DEF Quiet
        <5>2. CASE kind.cache
          BY <5>1, <5>2 DEF Cached, IsFirst
        <5>3. CASE ~kind.cache
          <6>1. T.cache = 0
            BY <5>1, <5>3 DEF Cached
          <6>. QED
            BY <6>1
        <5>. QED
          BY <5>2, <5>3
      <4>. QED
        BY <4>1, <4>2, <4>3
    <3>. QED
      BY <3>2, <3>3
  <2>. QED
    BY <2>2, <2>3
<1>24. cs \in Memories
  BY <1>22 DEF Shortened
<1>25. Regrids(buckets, cs, T, M, stored, hashing, a, c, U)
  BY <1>4, <1>6, <1>7, <1>8, <1>17, <1>23, <1>24 DEF Regrids
<1>26. Quiet(kind, cs, U, M, stored, hashing)
  BY <1>25, RegridsIsQuiet
<1>27. tc[t] = U /\ {tc[t].array} = be
  BY <1>4, <1>12, <1>17, <1>19
<1>28. Others(t, {tc[t].array}, cs, tc, members, stored, hashing, linked)
  BY <1>22, <1>27
<1>29. Quiet(kind, cs, tc[t], members[t], stored, hashing)
  BY <1>3, <1>26, <1>27
<1>30. Rest(cs, tc, members, stored, hashing, linked)
  BY <1>28, <1>29, OthersRest
<1>31. buckets' = cs /\ tab' = tc /\ outdated
  <2>1. tab' = tc
    BY <1>2, <1>4, <1>11, <1>12, Zenon DEF incremental_rehash
  <2>2. buckets' = given_up(bu, tab')
    BY <1>2, <1>9, <1>10 DEF incremental_rehash, SplicedIn
  <2>. QED
    BY <1>13, <2>1, <2>2, Zenon DEF incremental_rehash
<1>32. Rest(buckets', tab', members, stored, hashing, linked)
  BY <1>30, <1>31
<1>33. UNCHANGED <<kind, group, stored, linked, hashing, call, members>>
  BY DEF incremental_rehash
<1>. QED
  BY <1>0, <1>31, <1>32, <1>33, KeepsBase

(* The elements of a table from begin() on.                                *)

\* The buckets B from i on, one after the other.
Joined(B, c, f, lo) == f = [i \in lo..c |-> IF i = c THEN <<>> ELSE B[i] \o f[i + 1]]

\* There is a function that concatenates the buckets, the one of elements().
LEMMA JoinedExists ==
  ASSUME NEW B, NEW c \in Nat
  PROVE  \E f : Joined(B, c, f, 0)
<1> DEFINE P == {k \in Nat : k <= c => \E f : Joined(B, c, f, c - k)}
<1>1. 0 \in P
  <2> DEFINE f == [i \in c..c |-> <<>>]
  <2>1. f = [i \in (c - 0)..c |-> IF i = c THEN <<>> ELSE B[i] \o f[i + 1]]
    OBVIOUS
  <2>2. Joined(B, c, f, c - 0)
    BY <2>1 DEF Joined
  <2>. QED
    BY <2>2
<1>2. ASSUME NEW k \in P
      PROVE  k + 1 \in P
  <2> SUFFICES ASSUME k + 1 <= c
               PROVE  \E f : Joined(B, c, f, c - (k + 1))
    OBVIOUS
  <2>1. PICK f : Joined(B, c, f, c - k)
    OBVIOUS
  <2>2. PICK lo \in Nat : lo = c - (k + 1)
    OBVIOUS
  <2>3. lo + 1 = c - k /\ lo < c /\ k \in Nat
    BY <2>2
  <2>4. f = [i \in (lo + 1)..c |-> IF i = c THEN <<>> ELSE B[i] \o f[i + 1]]
    BY <2>1, <2>3, Zenon DEF Joined
  <2> DEFINE g == [i \in lo..c |-> IF i = lo THEN B[i] \o f[i + 1] ELSE f[i]]
  <2>5. \A i \in (lo + 1)..c : g[i] = f[i] /\ i # lo
    BY <2>3
  <2>6. ASSUME NEW i \in lo..c
        PROVE  g[i] = IF i = c THEN <<>> ELSE B[i] \o g[i + 1]
    <3>1. CASE i = lo
      <4>1. i + 1 \in (lo + 1)..c /\ i # c
        BY <2>3, <3>1
      <4>. QED
        BY <2>5, <3>1, <4>1, Zenon
    <3>2. CASE i # lo
      <4>1. i \in (lo + 1)..c /\ (i # c => i + 1 \in (lo + 1)..c)
        BY <2>3, <3>2
      <4>. QED
        BY <2>4, <2>5, <3>2, <4>1, Zenon
    <3>. QED
      BY <3>1, <3>2
  <2>7. g = [i \in lo..c |-> g[i]]
    OBVIOUS
  <2> HIDE DEF g
  <2>8. g = [i \in lo..c |-> IF i = c THEN <<>> ELSE B[i] \o g[i + 1]]
    BY <2>6, <2>7, Zenon
  <2>9. Joined(B, c, g, lo)
    BY <2>8, Zenon DEF Joined
  <2>. QED
    BY <2>2, <2>9
<1> HIDE DEF P
<1>3. P = Nat
  <2>1. P \in SUBSET Nat
    BY DEF P
  <2>. QED
    BY <1>1, <1>2, <2>1, SetInduction
<1>4. c \in P /\ c <= c /\ c - c = 0
  BY <1>3
<1>. QED
  BY <1>4 DEF P

\* Buckets that hold elements of Nodes, each of them once.
Buckets(B, c) ==
  /\ c \in Nat
  /\ \A i \in 0..(c - 1) : B[i] \in Seq(Nodes) /\ Distinct(B[i])
  /\ \A i, j \in 0..(c - 1), n \in Nodes : n \in Elems(B[i]) /\ n \in Elems(B[j]) => i = j

JoinsAll(B, c, f, i) ==
  /\ f[i] \in Seq(Nodes) /\ Distinct(f[i])
  /\ \A n \in Nodes : n \in Elems(f[i]) <=> \E j \in i..(c - 1) : n \in Elems(B[j])

\* What it concatenates: every element of the buckets, once.
LEMMA JoinedIs ==
  ASSUME NEW B, NEW c, Buckets(B, c), NEW f, Joined(B, c, f, 0), NEW first \in 0..c
  PROVE  JoinsAll(B, c, f, first)
<1>0. c \in Nat
  BY DEF Buckets
<1>1. f = [i \in 0..c |-> IF i = c THEN <<>> ELSE B[i] \o f[i + 1]]
  BY Zenon DEF Joined
<1> DEFINE P == {k \in Nat : k <= c => JoinsAll(B, c, f, c - k)}
<1>2. 0 \in P
  <2>1. f[c] = <<>>
    BY <1>0, <1>1
  <2>2. <<>> \in Seq(Nodes) /\ Distinct(<<>>) /\ Elems(<<>>) = {}
    BY EmptyBucket
  <2>3. c - 0 = c /\ c..(c - 1) = {}
    BY <1>0
  <2>4. JoinsAll(B, c, f, c)
    BY <2>1, <2>2, <2>3 DEF JoinsAll
  <2>. QED
    BY <2>3, <2>4
<1>3. ASSUME NEW k \in P
      PROVE  k + 1 \in P
  <2> SUFFICES ASSUME k + 1 <= c
               PROVE  JoinsAll(B, c, f, c - (k + 1))
    OBVIOUS
  <2>1. PICK i \in Nat : i = c - (k + 1)
    BY <1>0
  <2>2. i + 1 = c - k /\ i < c /\ k \in Nat /\ k <= c /\ i \in 0..(c - 1) /\ i \in 0..c
    BY <1>0, <2>1
  <2>3. JoinsAll(B, c, f, i + 1)
    BY <2>2
  <2>4. f[i] = B[i] \o f[i + 1]
    <3>1. i \in 0..c /\ i # c
      BY <1>0, <2>2
    <3> HIDE DEF P
    <3>. QED
      BY <1>1, <3>1, Zenon
  <2>5. PICK b : b = B[i]
    OBVIOUS
  <2>6. PICK r : r = f[i + 1]
    OBVIOUS
  <2>7. /\ b \in Seq(Nodes) /\ Distinct(b) /\ r \in Seq(Nodes) /\ Distinct(r)
        /\ \A n \in Nodes : n \in Elems(r) <=> \E j \in (i + 1)..(c - 1) : n \in Elems(B[j])
    BY <2>2, <2>3, <2>5, <2>6 DEF JoinsAll, Buckets
  <2>8. Elems(b) \cap Elems(r) = {}
    <3> SUFFICES ASSUME NEW n \in Elems(b), n \in Elems(r)
                 PROVE  FALSE
      OBVIOUS
    <3>1. n \in Nodes
      BY <2>7, ElemsOfSeq
    <3>2. PICK j \in (i + 1)..(c - 1) : n \in Elems(B[j])
      BY <2>7, <3>1
    <3>3. j \in 0..(c - 1) /\ j # i
      BY <1>0, <2>2
    <3>. QED
      BY <2>2, <2>5, <3>1, <3>2, <3>3 DEF Buckets
  <2>9. b \o r \in Seq(Nodes) /\ Distinct(b \o r) /\ Elems(b \o r) = Elems(b) \cup Elems(r)
    BY <2>7, <2>8, JoinedElems
  <2>10. i..(c - 1) = {i} \cup ((i + 1)..(c - 1))
    BY <1>0, <2>2
  <2>11. f[i] = b \o r
    BY <2>4, <2>5, <2>6
  <2>12. \A n \in Nodes : n \in Elems(f[i]) <=> \E j \in i..(c - 1) : n \in Elems(B[j])
    BY <2>5, <2>7, <2>9, <2>10, <2>11
  <2>13. JoinsAll(B, c, f, i)
    BY <2>9, <2>11, <2>12 DEF JoinsAll
  <2>. QED
    BY <2>1, <2>13
<1> HIDE DEF P
<1>4. P = Nat
  <2>1. P \in SUBSET Nat
    BY DEF P
  <2>. QED
    BY <1>2, <1>3, <2>1, SetInduction
<1>5. PICK k \in Nat : k = c - first
  BY <1>0
<1>6. k \in P /\ k <= c /\ c - k = first
  BY <1>0, <1>4, <1>5
<1>. QED
  BY <1>6 DEF P

\* The buckets B of a table with the record T and the elements M, joined by f, from
\* the first one with an element on.
Iterated(t, T, M, B, c, f, first) ==
  /\ T = tab[t] /\ M = members[t] /\ c = T.count /\ B = buckets[T.array]
  /\ kind \in Kinds /\ buckets \in Memories /\ T \in Recs /\ M \in SUBSET Nodes
  /\ Quiet(kind, buckets, T, M, stored, hashing)
  /\ c \in Nat
  /\ \A i \in 0..(c - 1) : B[i] \in Seq(Nodes) /\ Distinct(B[i]) /\ Elems(B[i]) \subseteq M
                           /\ i \in indices
  /\ \A n \in M : \E i \in 0..(c - 1) : n \in Elems(B[i])
  /\ \A i \in indices, n \in Nodes : n \in Elems(B[i]) => i = Home(kind, T, hashing, n)
  /\ IsFiniteSet(M)
  /\ Buckets(B, c) /\ Joined(B, c, f, 0)
  /\ first \in 0..c /\ \A k \in 0..(first - 1) : B[k] = <<>>
  /\ elements(t) = f[first]

\* What elements() computes.
LEMMA ElementsJoin ==
  ASSUME Resting, NEW t \in Tables
  PROVE  \E T, M, B, c, f, first : Iterated(t, T, M, B, c, f, first)
<1>1. PICK T : T = tab[t]
  OBVIOUS
<1>2. PICK M : M = members[t]
  OBVIOUS
<1>3. PICK c : c = T.count
  OBVIOUS
<1>4. PICK B : B = buckets[T.array]
  OBVIOUS
<1>5. /\ kind \in Kinds /\ buckets \in Memories /\ T \in Recs /\ M \in SUBSET Nodes
      /\ Quiet(kind, buckets, T, M, stored, hashing)
  BY <1>1, <1>2, RestingIs
<1>6. c \in Nat /\ T.cache \in Nat
  BY <1>3, <1>5, RecIs
<1>7. /\ \A i \in 0..(c - 1) : B[i] \in Seq(Nodes) /\ Distinct(B[i]) /\ Elems(B[i]) \subseteq M
                               /\ i \in indices
      /\ \A n \in M : \E i \in 0..(c - 1) : n \in Elems(B[i])
      /\ \A i \in indices, n \in Nodes : n \in Elems(B[i]) => i = Home(kind, T, hashing, n)
      /\ IsFiniteSet(M)
      /\ kind.cache => IsFirst(buckets, T.array, T.count, T.cache)
  <2>1. /\ \A i \in 0..(T.count - 1) : /\ i \in indices
                                       /\ buckets[T.array][i] \in Seq(Nodes)
                                       /\ Distinct(buckets[T.array][i])
                                       /\ Elems(buckets[T.array][i]) \subseteq M
        /\ \A n \in M : \E i \in 0..(T.count - 1) : n \in Elems(buckets[T.array][i])
        /\ \A i \in indices, n \in Nodes :
              n \in Elems(buckets[T.array][i]) => i = Home(kind, T, hashing, n)
        /\ IsFiniteSet(M)
        /\ kind.cache => IsFirst(buckets, T.array, T.count, T.cache)
    <3>1. /\ IsFiniteSet(M) /\ Cardinality(M) \in Nat
          /\ kind.cache => IsFirst(buckets, T.array, T.count, T.cache)
          /\ \A i \in 0..(T.count - 1) : /\ i \in indices
                                         /\ buckets[T.array][i] \in Seq(Nodes)
                                         /\ Distinct(buckets[T.array][i])
                                         /\ Elems(buckets[T.array][i]) \subseteq M
                                         /\ buckets[T.array][i] = <<>>
                                            <=> Elems(buckets[T.array][i]) = {}
          /\ \A n \in M : \E i \in 0..(T.count - 1) : n \in Elems(buckets[T.array][i])
          /\ \A i \in indices, n \in Nodes :
               n \in Elems(buckets[T.array][i]) =>
                 n \in M /\ i = Home(kind, T, hashing, n) /\ i \in 0..(T.count - 1)
      BY <1>5, QuietIs, Zenon
    <3>. QED
      BY <3>1
  <2>. QED
    BY <1>3, <1>4, <2>1
<1>8. Buckets(B, c)
  BY <1>6, <1>7 DEF Buckets
<1>9. PICK f : f = CHOOSE g : g = [i \in 0..c |-> IF i = c THEN <<>> ELSE B[i] \o g[i + 1]]
  BY Zenon
<1>10. Joined(B, c, f, 0)
  <2>1. \E g : g = [i \in 0..c |-> IF i = c THEN <<>> ELSE B[i] \o g[i + 1]]
    BY <1>6, JoinedExists, Zenon DEF Joined
  <2>2. f = [i \in 0..c |-> IF i = c THEN <<>> ELSE B[i] \o f[i + 1]]
    BY <1>9, <2>1, Zenon
  <2>. QED
    BY <2>2, Zenon DEF Joined
<1>11. PICK first : first = IF kind.cache THEN T.cache ELSE first_used(buckets, T, 0)
  OBVIOUS
<1>12. IsFirst(buckets, T.array, T.count, first)
  <2>1. CASE kind.cache
    BY <1>7, <1>11, <2>1
  <2>2. CASE ~kind.cache
    <3>1. 0 \in 0..T.count /\ \A k \in 0..(0 - 1) : buckets[T.array][k] = <<>>
      BY <1>3, <1>6
    <3>2. IsFirst(buckets, T.array, T.count, first_used(buckets, T, 0))
      BY <1>5, <3>1, FirstAfter, Zenon
    <3>. QED
      BY <1>11, <2>2, <3>2
  <2>. QED
    BY <2>1, <2>2
<1>13. /\ first \in 0..c
       /\ first < c => B[first] # <<>>
       /\ \A k \in 0..(first - 1) : B[k] = <<>>
  BY <1>3, <1>4, <1>12 DEF IsFirst
<1>14. elements(t) = f[first]
  <2>1. elements(t) = IF first < c /\ B[first] = <<>> THEN <<Junk>> ELSE f[first]
    BY <1>1, <1>3, <1>4, <1>9, <1>11 DEF elements, bucket
  <2>. QED
    BY <1>13, <2>1
<1>15. Iterated(t, T, M, B, c, f, first)
  BY <1>1, <1>2, <1>3, <1>4, <1>5, <1>6, <1>7, <1>8, <1>10, <1>13, <1>14 DEF Iterated
<1>. QED
  BY <1>15

\* Iteration meets the elements of a table, each once.
LEMMA ElementsAre ==
  ASSUME Resting, NEW t \in Tables
  PROVE  /\ elements(t) \in Seq(Nodes)
         /\ Elems(elements(t)) = members[t]
         /\ Len(elements(t)) = Cardinality(members[t])
         /\ IsFiniteSet(members[t])
<1>1. PICK T, M, B, c, f, first : Iterated(t, T, M, B, c, f, first)
  BY ElementsJoin
<1>2. /\ M = members[t] /\ M \in SUBSET Nodes /\ IsFiniteSet(M) /\ c \in Nat
      /\ \A i \in 0..(c - 1) : Elems(B[i]) \subseteq M
      /\ \A n \in M : \E i \in 0..(c - 1) : n \in Elems(B[i])
      /\ Buckets(B, c) /\ Joined(B, c, f, 0)
      /\ first \in 0..c /\ \A k \in 0..(first - 1) : B[k] = <<>>
      /\ elements(t) = f[first]
  BY <1>1 DEF Iterated
<1>15. JoinsAll(B, c, f, first)
  BY <1>2, JoinedIs
<1>16. PICK e : e = f[first]
  OBVIOUS
<1>17. /\ e \in Seq(Nodes) /\ Distinct(e)
       /\ \A n \in Nodes : n \in Elems(e) <=> \E j \in first..(c - 1) : n \in Elems(B[j])
  BY <1>15, <1>16 DEF JoinsAll
<1>18. Elems(e) = M
  <2>1. ASSUME NEW n \in Elems(e)
        PROVE  n \in M
    <3>1. n \in Nodes
      BY <1>17, ElemsOfSeq
    <3>2. PICK j \in first..(c - 1) : n \in Elems(B[j])
      BY <1>17, <3>1
    <3>3. j \in 0..(c - 1)
      BY <1>2
    <3>. QED
      BY <1>2, <3>2, <3>3
  <2>2. ASSUME NEW n \in M
        PROVE  n \in Elems(e)
    <3>1. PICK j \in 0..(c - 1) : n \in Elems(B[j])
      BY <1>2
    <3>2. B[j] # <<>>
      BY <3>1, EmptyBucket
    <3>3. j \in first..(c - 1)
      BY <1>2, <3>2
    <3>. QED
      BY <1>2, <1>17, <3>1, <3>3
  <2>. QED
    BY <2>1, <2>2
<1>19. Cardinality(Elems(e)) = Len(e)
  BY <1>17, ElemsCount
<1>. QED
  BY <1>2, <1>16, <1>17, <1>18, <1>19
-----------------------------------------------------------------------------
(* clone_from.                                                             *)

\* What the record of a clone is, with the elements M of the table and L of the
\* source still to do.
CloneRecord(C, t, src, L, s) ==
  C = [op |-> "clone", table |-> t, src |-> src, todo |-> L, structural |-> s]

\* clone_begins preserves the invariant.
LEMMA CloneBeginsBase ==
  ASSUME IBase, NEW t \in Tables, NEW src \in Tables, clone_begins(t, src)
  PROVE  IBase'
<1>1. idle /\ t # src
  BY DEF clone_begins
<1>2. /\ Resting /\ (~kind.multi => group = [n \in Nodes |-> Junk])
  BY <1>1, IdleIs
<1>3. /\ buckets' = cleared(buckets, tab[t])
      /\ disposed(from_cached(tab[t]), group)
      /\ tab' = [tab EXCEPT ![t] = priv_size_count(priv_init_cache(@), 0)]
  BY DEF clone_begins
<1>4. /\ kind' = kind /\ hashing' = hashing /\ pending' = None
      /\ Rest(buckets', tab', members', stored', hashing', linked')
      /\ members' = [members EXCEPT ![t] = {}]
      /\ \A u \in Tables : tab'[u].count = tab[u].count
      /\ ~kind.multi /\ group = [n \in Nodes |-> Junk] => group' = [n \in Nodes |-> Junk]
  BY <1>2, <1>3, ClearRests, Zenon
<1>5. PICK L : L = elements(src)
  OBVIOUS
<1>6. /\ L \in Seq(Nodes) /\ Elems(L) = members[src] /\ Len(L) = Cardinality(members[src])
      /\ IsFiniteSet(members[src])
  BY <1>2, <1>5, ElementsAre
<1>7. kind \in Kinds /\ members \in [Tables -> SUBSET Nodes]
  BY <1>2 DEF Resting, Rest
<1>8. PICK s : s = structural(t, src)
  OBVIOUS
<1>9. s \in BOOLEAN /\ (s => ~kind.incremental /\ tab[src].count % tab[t].count = 0)
  BY <1>8 DEF structural
<1>10. members'[t] = {} /\ members'[src] = members[src]
  BY <1>1, <1>4, <1>7
<1>11. PICK C : CloneRecord(C, t, src, L, s)
  BY Zenon DEF CloneRecord
<1>12. Cloning(kind, tab', members', C)
  <2>1. C \in CloneCalls /\ C.table = t /\ C.src = src /\ C.todo = L /\ C.structural = s
    BY <1>6, <1>9, <1>11 DEF CloneRecord, CloneCalls
  <2>2. Cardinality({}) = 0 /\ Len(L) \in Nat
    BY <1>6, FS_EmptySet, LenProperties
  <2>3. Len(L) + Cardinality(members'[t]) = Cardinality(members'[src])
    BY <1>6, <1>10, <2>2
  <2>4. s => ~kind.incremental /\ tab'[src].count % tab'[t].count = 0
    BY <1>4, <1>9
  <2>. QED
    BY <1>1, <1>6, <1>10, <2>1, <2>3, <2>4, Zenon DEF Cloning
<1>13. call' = None \/ call' = C
  BY <1>5, <1>8, <1>11 DEF clone_begins, CloneRecord
<1>14. C.op = "clone"
  BY <1>11 DEF CloneRecord
<1>15. \/ call' = None
       \/ call'.op = "clone" /\ pending' = None /\ Cloning(kind, tab', members', call')
  BY <1>4, <1>12, <1>13, <1>14
<1>. QED
  BY <1>2, <1>4, <1>7, <1>15, RestIsBase

\* A clone in progress: its table t, with the record T and the elements M, and
\* the source, with the record S and the elements N.
CloningNow(t, src, T, S, M, N, L, s) ==
  /\ Resting /\ pending = None
  /\ call \in CloneCalls /\ call.op = "clone"
  /\ t = call.table /\ src = call.src /\ L = call.todo /\ s = call.structural
  /\ t \in Tables /\ src \in Tables /\ t # src /\ L \in Seq(Nodes) /\ s \in BOOLEAN
  /\ T = tab[t] /\ S = tab[src] /\ M = members[t] /\ N = members[src]
  /\ T \in Recs /\ S \in Recs /\ M \in SUBSET Nodes /\ N \in SUBSET Nodes
  /\ IsFiniteSet(M) /\ IsFiniteSet(N)
  /\ Elems(L) \subseteq N /\ Len(L) + Cardinality(M) = Cardinality(N)
  /\ s => ~kind.incremental /\ S.count % T.count = 0
  /\ Quiet(kind, buckets, T, M, stored, hashing)
  /\ Quiet(kind, buckets, S, N, stored, hashing)
  /\ ~kind.multi => group = [n \in Nodes |-> Junk]

\* What the invariant says of a clone in progress.
LEMMA CloneIsNow ==
  ASSUME IBase, in("clone")
  PROVE  \E t, src, T, S, M, N, L, s : CloningNow(t, src, T, S, M, N, L, s)
<1>1. call.op = "clone"
  BY DEF in
<1>2. Resting
  BY <1>1, BaseRests
<1>3. call # None
  BY <1>1 DEF None
<1>4. pending = None /\ Cloning(kind, tab, members, call)
  BY <1>1, <1>3 DEF IBase
<1>5. ~kind.multi => group = [n \in Nodes |-> Junk]
  BY DEF IBase
<1>6. PICK t : t = call.table
  OBVIOUS
<1>7. PICK src : src = call.src
  OBVIOUS
<1>8. /\ call \in CloneCalls /\ t \in Tables /\ src \in Tables /\ t # src
      /\ call.todo \in Seq(Nodes) /\ call.structural \in BOOLEAN
      /\ Elems(call.todo) \subseteq members[src]
      /\ Len(call.todo) + Cardinality(members[t]) = Cardinality(members[src])
      /\ call.structural => ~kind.incremental /\ tab[src].count % tab[t].count = 0
  BY <1>4, <1>6, <1>7 DEF Cloning, CloneCalls
<1>9. \A u \in Tables : /\ tab[u] \in Recs /\ members[u] \in SUBSET Nodes /\ kind \in Kinds
                        /\ buckets \in Memories
                        /\ Quiet(kind, buckets, tab[u], members[u], stored, hashing)
  BY <1>2, RestingIs
<1>10. \A u \in Tables : IsFiniteSet(members[u])
  BY <1>2, ElementsAre
<1>11. CloningNow(t, src, tab[t], tab[src], members[t], members[src], call.todo, call.structural)
  BY <1>1, <1>2, <1>4, <1>5, <1>6, <1>7, <1>8, <1>9, <1>10 DEF CloningNow
<1>. QED
  BY <1>11

\* clone_ends preserves the invariant.
LEMMA CloneEndsBase ==
  ASSUME IBase, clone_ends
  PROVE  IBase'
<1>1. in("clone")
  BY DEF clone_ends
<1>2. PICK t, src, T, S, M, N, L, s : CloningNow(t, src, T, S, M, N, L, s)
  BY <1>1, CloneIsNow
<1>3. /\ kind \in Kinds /\ Rest(buckets, tab, members, stored, hashing, linked)
      /\ buckets \in Memories /\ stored \in [Nodes -> Nat \cup {Junk}] /\ hashing \in Hashings
      /\ tab \in [Tables -> Recs] /\ members \in [Tables -> SUBSET Nodes]
      /\ linked = UNION {members[u] : u \in Tables}
      /\ \A u, v \in Tables, n \in Nodes : n \in members[u] /\ n \in members[v] => u = v
  BY <1>2 DEF CloningNow, Resting, Rest
<1>4. /\ t = call.table /\ t \in Tables /\ src = call.src /\ T = tab[t] /\ S = tab[src]
      /\ M = members[t] /\ T \in Recs /\ S \in Recs /\ s = call.structural /\ L = call.todo
      /\ s \in BOOLEAN /\ L \in Seq(Nodes) /\ pending = None /\ M \in SUBSET Nodes
      /\ IsFiniteSet(M) /\ Len(L) + Cardinality(M) = Cardinality(N) /\ N = members[src]
      /\ s => ~kind.incremental
      /\ Quiet(kind, buckets, T, M, stored, hashing)
      /\ Quiet(kind, buckets, S, N, stored, hashing)
      /\ ~kind.multi => group = [n \in Nodes |-> Junk]
  BY <1>2 DEF CloningNow
<1>5. L = <<>> /\ Cardinality(M) = Cardinality(N)
  <2>1. L = <<>>
    BY <1>4 DEF clone_ends
  <2>2. Cardinality(M) \in Nat /\ Len(L) = 0
    BY <1>4, <2>1, FS_CardinalityType
  <2>. QED
    BY <1>4, <2>1, <2>2
<1>6. PICK A : A = set_cache(priv_size_count(T, S.size), 0)
  OBVIOUS
<1>7. PICK B : B = [A EXCEPT !.split = A.count]
  BY Zenon
<1>8. PICK U : U = priv_erasure_update_cache(buckets, B)
  OBVIOUS
<1>9. /\ UNCHANGED <<kind, buckets, group, stored, linked, hashing, pending, members>>
      /\ call' = None
      /\ tab' = [tab EXCEPT ![t] = IF s THEN U ELSE T]
  <2>1. UNCHANGED <<kind, buckets, group, stored, linked, hashing, pending, members>>
    BY DEF clone_ends
  <2>2. call' = None /\ tab' = [tab EXCEPT ![t] = IF s THEN U ELSE T]
    BY <1>4, <1>6, <1>7, <1>8, Zenon DEF clone_ends
  <2>. QED
    BY <2>1, <2>2
<1>10. s => Rest(buckets, [tab EXCEPT ![t] = U], members, stored, hashing, linked)
  <2> SUFFICES ASSUME s
               PROVE  Rest(buckets, [tab EXCEPT ![t] = U], members, stored, hashing, linked)
    OBVIOUS
  <2>1. /\ Shaped(kind, T) /\ Kept(buckets, T.array, T.count) /\ Holds(buckets, {T.array}, M)
        /\ AtHome(kind, buckets, T, hashing) /\ Hashed(kind, M, stored, hashing)
        /\ Cached(kind, buckets, T) /\ Sized(kind, T.size, M) /\ Sized(kind, S.size, N)
    BY <1>4 DEF Quiet
  <2>2. /\ T.split = T.count /\ T.count \in Nat /\ T.cache \in Nat /\ S.size \in Nat
        /\ T.count \in Counts
    BY <1>4, <2>1, RecIs DEF Shaped
  <2>3. PICK D : D = priv_size_count(T, S.size)
    OBVIOUS
  <2>4. /\ D \in Recs /\ D.array = T.array /\ D.count = T.count /\ D.split = T.split
        /\ D.cache = T.cache /\ D.size = IF kind.counted THEN S.size ELSE T.size
    BY <1>4, <2>2, <2>3, Zenon DEF priv_size_count, Recs
  <2>5. /\ A \in Recs /\ A.array = D.array /\ A.count = D.count /\ A.split = D.split
        /\ A.size = D.size /\ A.cache = IF kind.cache THEN 0 ELSE D.cache
    BY <1>6, <2>3, <2>4, SetCache
  <2>6. /\ B \in Recs /\ B.array = A.array /\ B.count = A.count /\ B.split = A.count
        /\ B.size = A.size /\ B.cache = A.cache
    <3>1. A \in Recs /\ A.count \in Nat
      BY <2>2, <2>4, <2>5
    <3>. QED
      BY <1>7, <3>1 DEF Recs
  <2>7. B.cache = 0
    BY <2>1, <2>4, <2>5, <2>6 DEF Cached
  <2>8. /\ U \in Recs /\ U.array = B.array /\ U.count = B.count /\ U.split = B.split
        /\ U.size = B.size
        /\ U.cache = IF kind.cache THEN first_used(buckets, B, B.cache) ELSE B.cache
    <3>1. B.cache <= B.count
      BY <2>2, <2>4, <2>5, <2>6, <2>7
    <3>. QED
      BY <1>8, <2>6, <3>1, ErasureCache
  <2>9. /\ U.array = T.array /\ U.count = T.count /\ U.split = T.split
        /\ U.size = IF kind.counted THEN S.size ELSE T.size
    BY <2>2, <2>4, <2>5, <2>6, <2>8
  <2>10. IsFirst(buckets, B.array, B.count, first_used(buckets, B, 0))
    <3>1. 0 \in 0..B.count /\ \A k \in 0..(0 - 1) : buckets[B.array][k] = <<>>
      BY <2>2, <2>4, <2>5, <2>6
    <3>. QED
      BY <1>3, <2>6, <3>1, FirstAfter, Zenon
  <2>11. Cached(kind, buckets, U)
    BY <2>7, <2>8, <2>10 DEF Cached
  <2>12. Sized(kind, U.size, M)
    BY <1>5, <2>1, <2>9 DEF Sized
  <2>13. AtHome(kind, buckets, U, hashing)
    BY <2>1, <2>9 DEF AtHome, Home
  <2>14. Shaped(kind, U)
    BY <2>1, <2>9 DEF Shaped
  <2>15. Quiet(kind, buckets, U, M, stored, hashing)
    BY <2>1, <2>9, <2>11, <2>12, <2>13, <2>14 DEF Quiet
  <2>16. members = [members EXCEPT ![t] = M] /\ linked = (linked \ members[t]) \cup M
    BY <1>3, <1>4
  <2>17. \A u \in Tables \ {t} : \A m \in members[u] : stored[m] = stored[m] /\ m \notin M
    BY <1>3, <1>4
  <2>18. PICK tc : tc = [tab EXCEPT ![t] = U]
    BY Zenon
  <2>19. Changes(t, buckets, tab, members, stored, hashing, linked, buckets, U, M, stored, tc,
                 members, linked)
    BY <1>3, <1>4, <2>8, <2>9, <2>15, <2>16, <2>17, <2>18 DEF Changes
  <2>20. Rest(buckets, tc, members, stored, hashing, linked)
    BY <2>19, RestChanges
  <2>. QED
    BY <2>18, <2>20
<1>11. Rest(buckets', tab', members', stored', hashing', linked')
  <2>1. CASE s
    BY <1>9, <1>10, <2>1
  <2>2. CASE ~s
    <3>1. tab' = tab
      BY <1>3, <1>4, <1>9, <2>2
    <3>. QED
      BY <1>3, <1>9, <3>1
  <2>. QED
    BY <1>4, <2>1, <2>2
<1>12. kind' = kind /\ pending' = None /\ (~kind.multi => group' = [n \in Nodes |-> Junk])
  BY <1>4, <1>9
<1>. QED
  BY <1>3, <1>9, <1>11, <1>12, RestIsBase

\* A rollback that does not forget clones leaves the tables at rest: whole buckets
\* are emptied, and none of them counts or is cached.
LEMMA CopyRollbackRests ==
  ASSUME Resting, NEW t \in Tables, structural_rollback(t)
  PROVE  /\ kind' = kind /\ hashing' = hashing /\ pending' = None
         /\ Rest(buckets', tab', members', stored', hashing', linked')
         /\ ~kind.multi /\ group = [n \in Nodes |-> Junk] => group' = [n \in Nodes |-> Junk]
<1> DEFINE T  == tab[t]
           M  == members[t]
           a  == T.array
           cs == buckets'
<1>1. PICK I : I = constructed
  OBVIOUS
<1>2. PICK ns : ns = elements_of(t, I)
  OBVIOUS
<1>3. /\ kind \in Kinds /\ buckets \in Memories /\ T \in Recs /\ M \in SUBSET Nodes
      /\ tab \in [Tables -> Recs] /\ Quiet(kind, buckets, T, M, stored, hashing)
  BY RestingIs
<1>4. /\ I \subseteq 0..(T.count - 1)
      /\ cs = emptied(t, I) /\ disposed(ns, group) /\ tab' = tab
      /\ kind.counted \/ kind.cache => ns = {}
  BY <1>1, <1>2 DEF structural_rollback, stays_inside, forgets_clones, used
<1>5. a \in Arrays /\ \A k \in 0..(T.count - 1) : k \in indices /\ k < T.count
  BY <1>3, RecIs
<1>6. /\ cs \in Memories
      /\ \A e \in Arrays \ {a}, k \in indices : cs[e][k] = buckets[e][k]
      /\ \A k \in indices : cs[a][k] = IF k \in I THEN <<>> ELSE buckets[a][k]
  BY <1>3, <1>4, <1>5 DEF emptied, Memories
<1>7. ns = UNION {Elems(buckets[a][i]) : i \in I}
  BY <1>2 DEF elements_of, bucket, Elems
<1> HIDE DEF T, M, a, cs
<1>8. ns \in SUBSET M
  <2>1. \A i \in I : Elems(buckets[a][i]) \subseteq M
    BY <1>3, <1>4, QuietIs, Zenon DEF a
  <2>. QED
    BY <1>7, <2>1
<1>9. Kept(cs, a, T.count)
  <2>1. Kept(buckets, a, T.count)
    BY <1>3 DEF Quiet, a
  <2>. QED
    BY <1>4, <1>5, <1>6, <2>1, EmptyBucket DEF Kept
<1>10. ASSUME NEW k \in indices, NEW n \in Nodes
       PROVE  n \in Elems(cs[a][k]) <=> n \in Elems(buckets[a][k]) /\ n \notin ns
  <2>1. CASE k \in I
    <3>1. Elems(cs[a][k]) = {}
      BY <1>6, <2>1, EmptyBucket
    <3>. QED
      BY <1>7, <2>1, <3>1
  <2>2. CASE k \notin I
    <3>1. cs[a][k] = buckets[a][k]
      BY <1>6, <2>2
    <3>2. ASSUME n \in Elems(buckets[a][k]), n \in ns
          PROVE  FALSE
      <4>1. PICK i \in I : n \in Elems(buckets[a][i])
        BY <1>7, <3>2
      <4>2. i \in indices
        BY <1>4, <1>5
      <4>3. i = Home(kind, T, hashing, n) /\ k = Home(kind, T, hashing, n)
        <5>1. \A h \in indices, m \in Nodes :
                m \in Elems(buckets[T.array][h]) =>
                  m \in M /\ h = Home(kind, T, hashing, m) /\ h \in 0..(T.count - 1)
          BY <1>3, QuietIs, Zenon
        <5>. QED
          BY <3>2, <4>1, <4>2, <5>1, Zenon DEF a
      <4>. QED
        BY <2>2, <4>3
    <3>. QED
      BY <3>1, <3>2
  <2>. QED
    BY <2>1, <2>2
<1>11. Cached(kind, cs, T)
  <2>0. Cached(kind, buckets, T)
    BY <1>3 DEF Quiet
  <2>1. CASE kind.cache
    <3>1. \A i \in I : buckets[a][i] = <<>>
      <4>1. \A i \in I : Elems(buckets[a][i]) = {}
        BY <1>4, <1>7, <2>1
      <4>2. \A i \in 0..(T.count - 1) : buckets[a][i] = <<>> <=> Elems(buckets[a][i]) = {}
        BY <1>3, QuietIs, Zenon DEF a
      <4>. QED
        BY <1>4, <4>1, <4>2
    <3>2. \A k \in indices : cs[a][k] = buckets[a][k]
      BY <1>6, <3>1
    <3>3. IsFirst(buckets, a, T.count, T.cache)
      BY <2>0, <2>1 DEF Cached, a
    <3>4. T.cache \in Nat /\ T.count \in Nat /\ T.cache <= T.count
      BY <1>3, <3>3, RecIs DEF IsFirst
    <3>5. /\ T.cache < T.count => T.cache \in indices
          /\ \A k \in 0..(T.cache - 1) : k \in indices
      BY <1>5, <3>4
    <3>6. IsFirst(cs, a, T.count, T.cache)
      BY <3>2, <3>3, <3>5 DEF IsFirst
    <3>. QED
      BY <2>1, <3>6 DEF Cached, a
  <2>2. CASE ~kind.cache
    BY <2>0, <2>2 DEF Cached
  <2>. QED
    BY <2>1, <2>2
<1>12. Sized(kind, T.size, M \ ns)
  <2>1. Sized(kind, T.size, M)
    BY <1>3 DEF Quiet
  <2>2. kind.counted => M \ ns = M
    BY <1>4
  <2>. QED
    BY <2>1, <2>2 DEF Sized
<1>13. MayLeave(t, ns, cs, T)
  BY <1>3, <1>6, <1>8, <1>9, <1>10, <1>11, <1>12 DEF MayLeave, T, M, a
<1>14. tab' = [tab EXCEPT ![t] = T]
  BY <1>3, <1>4 DEF T
<1>15. /\ kind' = kind /\ hashing' = hashing /\ pending' = None
       /\ Rest(buckets', tab', members', stored', hashing', linked')
  BY <1>4, <1>13, <1>14, RemoveRests, Zenon DEF cs
<1>16. ~kind.multi /\ group = [n \in Nodes |-> Junk] => group' = [n \in Nodes |-> Junk]
  BY <1>4 DEF disposed, gone
<1>. QED
  BY <1>15, <1>16

\* clone_throws preserves the invariant.
LEMMA CloneThrowsBase ==
  ASSUME IBase, clone_throws
  PROVE  IBase'
<1>1. in("clone")
  BY DEF clone_throws
<1>2. PICK t, src, T, S, M, N, L, s : CloningNow(t, src, T, S, M, N, L, s)
  BY <1>1, CloneIsNow
<1>3. /\ Resting /\ t \in Tables /\ t = call.table
      /\ ~kind.multi => group = [n \in Nodes |-> Junk]
  BY <1>2 DEF CloningNow
<1>4. \/ structural_rollback(t)
      \/ /\ buckets' = cleared(buckets, tab[t])
         /\ disposed(from_cached(tab[t]), group)
         /\ tab' = [tab EXCEPT ![t] = priv_size_count(priv_init_cache(@), 0)]
  BY <1>3 DEF clone_throws
<1>5. call' = None
  BY DEF clone_throws
<1>6. /\ kind' = kind /\ hashing' = hashing /\ pending' = None
      /\ Rest(buckets', tab', members', stored', hashing', linked')
      /\ ~kind.multi /\ group = [n \in Nodes |-> Junk] => group' = [n \in Nodes |-> Junk]
  <2>1. CASE structural_rollback(t)
    BY <1>3, <2>1, CopyRollbackRests, Zenon
  <2>2. CASE ~structural_rollback(t)
    BY <1>3, <1>4, <2>2, ClearRests, Zenon
  <2>. QED
    BY <2>1, <2>2
<1>7. kind \in Kinds
  BY <1>3 DEF Resting
<1>. QED
  BY <1>3, <1>5, <1>6, <1>7, RestIsBase

\* The bucket of an element of the source.
LEMMA SourceBucket ==
  ASSUME NEW t, NEW src, NEW T, NEW S, NEW M, NEW N, NEW L, NEW s,
         CloningNow(t, src, T, S, M, N, L, s), NEW r \in N
  PROVE  src_bucket(r) = Home(kind, S, hashing, r)
<1>1. /\ src = call.src /\ src \in Tables /\ S = tab[src] /\ N = members[src] /\ Resting
      /\ N \in SUBSET Nodes
  BY DEF CloningNow
<1>2. /\ kind \in Kinds /\ buckets \in Memories /\ S \in Recs /\ N \in SUBSET Nodes
      /\ Quiet(kind, buckets, S, N, stored, hashing)
  BY <1>1, RestingIs
<1>3. /\ \A i \in 0..(S.count - 1) : i \in indices
      /\ \A n \in N : \E i \in 0..(S.count - 1) : n \in Elems(buckets[S.array][i])
      /\ \A i \in indices, n \in Nodes :
           n \in Elems(buckets[S.array][i]) => i = Home(kind, S, hashing, n)
  <2>1. /\ IsFiniteSet(N) /\ Cardinality(N) \in Nat
        /\ kind.cache => IsFirst(buckets, S.array, S.count, S.cache)
        /\ \A i \in 0..(S.count - 1) : /\ i \in indices
                                       /\ buckets[S.array][i] \in Seq(Nodes)
                                       /\ Distinct(buckets[S.array][i])
                                       /\ Elems(buckets[S.array][i]) \subseteq N
                                       /\ buckets[S.array][i] = <<>>
                                            <=> Elems(buckets[S.array][i]) = {}
        /\ \A n \in N : \E i \in 0..(S.count - 1) : n \in Elems(buckets[S.array][i])
        /\ \A i \in indices, n \in Nodes :
             n \in Elems(buckets[S.array][i]) =>
               n \in N /\ i = Home(kind, S, hashing, n) /\ i \in 0..(S.count - 1)
    BY <1>2, QuietIs, Zenon
  <2>. QED
    BY <2>1
<1>4. src_bucket(r) = CHOOSE i \in 0..(S.count - 1) : r \in Elems(buckets[S.array][i])
  BY <1>1, Zenon DEF src_bucket, used, bucket, Elems
<1>5. PICK i : i = src_bucket(r)
  OBVIOUS
<1>6. i \in 0..(S.count - 1) /\ r \in Elems(buckets[S.array][i])
  BY <1>3, <1>4, <1>5
<1>. QED
  BY <1>1, <1>3, <1>5, <1>6

\* A hash in the bucket of the source and in that of the copy.
Copies(x, c, d, old, s, i, new) ==
  /\ x \in Nat /\ c \in Nat /\ c > 0 /\ d \in Nat /\ d > 0 /\ c % d = 0
  /\ i \in BOOLEAN /\ ~i /\ old = x % c /\ new = hash_to_bucket_split(old, d, s, i)

\* The bucket of the original leads to the bucket of the clone.
LEMMA CopiesHome ==
  ASSUME NEW x, NEW c, NEW d, NEW old, NEW s, NEW i, NEW new, Copies(x, c, d, old, s, i, new)
  PROVE  new = x % d
<1>1. x \in Nat /\ c \in Nat /\ c > 0 /\ d \in Nat /\ d > 0 /\ c % d = 0
  BY DEF Copies
<1>2. new = (x % c) % d
  BY DEF Copies, hash_to_bucket_split
<1>3. (x % c) % d = x % d
  BY <1>1, ModMod, Zenon
<1>. QED
  BY <1>2, <1>3

\* What clone_next does with the next element r: its clone m comes into bucket i.
ClonesNext(t, T, L, r, m, i, first) ==
  /\ L # <<>> /\ r = L[1] /\ r \in Nodes /\ Key[m] = Key[r]
  /\ m \in Nodes /\ m \notin linked
  /\ i = Home(kind, T, hashing, m) /\ i \in 0..(T.count - 1)
  /\ MayEnter(t, m, i, 1)
  /\ first = IF joins(t, i, Key[r]) THEN bucket(t, i)[1] ELSE m
  /\ link(t, i, 1, m, first, hashing[Key[m]])
  /\ call' = [call EXCEPT !.todo = Tail(L)]
  /\ pending' = pending

\* A step of a clone.
LEMMA CloneNextIs ==
  ASSUME IBase, clone_next
  PROVE  \E t, src, T, S, M, N, L, s, r, m, i, first :
           CloningNow(t, src, T, S, M, N, L, s) /\ ClonesNext(t, T, L, r, m, i, first)
<1>1. in("clone")
  BY DEF clone_next
<1>2. PICK t, src, T, S, M, N, L, s : CloningNow(t, src, T, S, M, N, L, s)
  BY <1>1, CloneIsNow
<1>3. /\ kind \in Kinds /\ Rest(buckets, tab, members, stored, hashing, linked)
      /\ buckets \in Memories /\ stored \in [Nodes -> Nat \cup {Junk}] /\ hashing \in Hashings
      /\ tab \in [Tables -> Recs] /\ members \in [Tables -> SUBSET Nodes]
      /\ linked = UNION {members[u] : u \in Tables} /\ Resting
  BY <1>2 DEF CloningNow, Resting, Rest
<1>4. /\ t = call.table /\ t \in Tables /\ src = call.src /\ src \in Tables /\ t # src
      /\ T = tab[t] /\ S = tab[src]
      /\ M = members[t] /\ T \in Recs /\ S \in Recs /\ s = call.structural /\ L = call.todo
      /\ s \in BOOLEAN /\ L \in Seq(Nodes) /\ pending = None /\ M \in SUBSET Nodes
      /\ IsFiniteSet(M) /\ Elems(L) \subseteq N /\ Len(L) + Cardinality(M) = Cardinality(N)
      /\ N = members[src] /\ N \in SUBSET Nodes
      /\ s => ~kind.incremental /\ S.count % T.count = 0
      /\ Quiet(kind, buckets, T, M, stored, hashing)
      /\ Quiet(kind, buckets, S, N, stored, hashing)
      /\ call \in CloneCalls /\ call.op = "clone"
      /\ ~kind.multi => group = [n \in Nodes |-> Junk]
  BY <1>2 DEF CloningNow
<1>5. PICK r : r = L[1]
  OBVIOUS
<1>6. PICK m : m = any(Key[r])
  OBVIOUS
<1>7. PICK h : h = priv_stored_or_compute_hash(r)
  OBVIOUS
<1>8. PICK i : i = IF s THEN hash_to_bucket_split(src_bucket(r), T.count, T.split,
                                                  kind.incremental)
                   ELSE priv_hash_to_nbucket(t, h)
  OBVIOUS
<1>9. PICK first : first = IF joins(t, i, Key[r]) THEN bucket(t, i)[1] ELSE m
  OBVIOUS
<1>10. /\ L # <<>> /\ spare(Key[r]) # {}
       /\ link(t, i, 1, m, first, h)
       /\ call' = [call EXCEPT !.todo = Tail(L)]
       /\ pending' = pending
  <2>1. L # <<>> /\ spare(Key[r]) # {}
    BY <1>4, <1>5 DEF clone_next
  <2>2. link(t, i, 1, m, first, h)
    BY <1>4, <1>5, <1>6, <1>7, <1>8, <1>9 DEF clone_next
  <2>3. call' = [call EXCEPT !.todo = Tail(L)] /\ pending' = pending
    BY <1>4 DEF clone_next
  <2>. QED
    BY <2>1, <2>2, <2>3
<1>11. m \in Nodes /\ m \notin linked /\ Key[m] = Key[r]
  <2>1. m \in spare(Key[r])
    BY <1>6, <1>10 DEF any
  <2>. QED
    BY <2>1 DEF spare, free
<1>12. r \in N /\ r \in Nodes
  <2>1. r \in Elems(L)
    BY <1>4, <1>5, <1>10, ElemsOfSeq DEF Elems
  <2>. QED
    BY <1>4, <2>1
<1>13. h = hashing[Key[r]]
  <2>1. Hashed(kind, N, stored, hashing)
    BY <1>4 DEF Quiet
  <2>. QED
    BY <1>7, <1>12, <2>1 DEF Hashed, priv_stored_or_compute_hash
<1>14. i = Home(kind, T, hashing, m)
  <2>1. CASE ~s
    <3>1. i = priv_hash_to_nbucket(t, hashing[Key[m]])
      BY <1>8, <1>11, <1>13, <2>1
    <3>. QED
      BY <1>4, <1>11, <3>1, HashIsHome
  <2>2. CASE s
    <3>1. PICK x \in Nat : x = hashing[Key[r]]
      BY <1>3, <1>12, HashIs
    <3>2. PICK c : c = S.count
      OBVIOUS
    <3>3. PICK d : d = T.count
      OBVIOUS
    <3>4. PICK k : k = kind.incremental
      OBVIOUS
    <3>5. PICK old : old = src_bucket(r)
      OBVIOUS
    <3>6. PICK sp : sp = T.split
      OBVIOUS
    <3>7. PICK new : new = hash_to_bucket_split(old, d, sp, k)
      OBVIOUS
    <3>8. c \in Nat /\ c > 0 /\ d \in Nat /\ d > 0 /\ k \in BOOLEAN /\ ~k /\ c % d = 0
      <4>1. c \in Nat /\ 1 <= c /\ d \in Nat /\ 1 <= d
        BY <1>4, <3>2, <3>3, RecIs
      <4>2. k \in BOOLEAN /\ ~k /\ c % d = 0
        BY <1>3, <1>4, <2>2, <3>2, <3>3, <3>4, KindIs
      <4>. QED
        BY <4>1, <4>2
    <3>9. Shaped(kind, S) /\ Shaped(kind, T)
      BY <1>4 DEF Quiet
    <3>10. old = x % c
      <4>1. old = Home(kind, S, hashing, r)
        BY <1>2, <1>12, <3>5, SourceBucket
      <4>2. ~kind.incremental => Home(kind, S, hashing, r) = hashing[Key[r]] % S.count
        BY <1>3, <1>4, <1>12, <3>9, HomeIs
      <4>. QED
        BY <3>1, <3>2, <3>4, <3>8, <4>1, <4>2
    <3>11. Copies(x, c, d, old, sp, k, new)
      BY <3>1, <3>7, <3>8, <3>10 DEF Copies
    <3>12. new = x % d
      BY <3>11, CopiesHome
    <3>13. Home(kind, T, hashing, m) = x % d
      <4>1. ~kind.incremental => Home(kind, T, hashing, m) = hashing[Key[m]] % T.count
        BY <1>3, <1>4, <1>11, <3>9, HomeIs
      <4>. QED
        BY <1>11, <3>1, <3>3, <3>4, <3>8, <4>1
    <3>14. i = new
      BY <1>8, <2>2, <3>3, <3>4, <3>5, <3>6, <3>7
    <3>. QED
      BY <3>12, <3>13, <3>14
  <2>. QED
    BY <1>4, <2>1, <2>2
<1>15. i \in 0..(T.count - 1)
  <2>1. Shaped(kind, T)
    BY <1>4 DEF Quiet
  <2>. QED
    BY <1>3, <1>4, <1>11, <1>14, <2>1, HomeIs
<1>16. MayEnter(t, m, i, 1)
  <2>1. bucket(t, i) \in Seq(Nodes)
    BY <1>3, <1>4, <1>15, RestingIs
  <2>2. 1 \in Nat /\ 1 <= 1 /\ 1 <= Len(buckets[tab[t].array][i]) + 1
    BY <2>1, LenProperties DEF bucket
  <2>. QED
    BY <1>3, <1>4, <1>11, <1>14, <2>2 DEF MayEnter
<1>17. link(t, i, 1, m, first, hashing[Key[m]])
  BY <1>10, <1>11, <1>13
<1>18. ClonesNext(t, T, L, r, m, i, first)
  BY <1>5, <1>9, <1>10, <1>11, <1>12, <1>14, <1>15, <1>16, <1>17 DEF ClonesNext
<1>. QED
  BY <1>2, <1>18

\* clone_next preserves the invariant.
LEMMA CloneNextBase ==
  ASSUME IBase, clone_next
  PROVE  IBase'
<1>2. PICK t, src, T, S, M, N, L, s, r, m, i, first :
        CloningNow(t, src, T, S, M, N, L, s) /\ ClonesNext(t, T, L, r, m, i, first)
  BY CloneNextIs
<1>3. /\ kind \in Kinds /\ Rest(buckets, tab, members, stored, hashing, linked)
      /\ buckets \in Memories /\ stored \in [Nodes -> Nat \cup {Junk}] /\ hashing \in Hashings
      /\ tab \in [Tables -> Recs] /\ members \in [Tables -> SUBSET Nodes]
      /\ linked = UNION {members[u] : u \in Tables} /\ Resting
  BY <1>2 DEF CloningNow, Resting, Rest
<1>4. /\ t = call.table /\ t \in Tables /\ src = call.src /\ src \in Tables /\ t # src
      /\ T = tab[t] /\ S = tab[src]
      /\ M = members[t] /\ T \in Recs /\ S \in Recs /\ s = call.structural /\ L = call.todo
      /\ s \in BOOLEAN /\ L \in Seq(Nodes) /\ pending = None /\ M \in SUBSET Nodes
      /\ IsFiniteSet(M) /\ Elems(L) \subseteq N /\ Len(L) + Cardinality(M) = Cardinality(N)
      /\ N = members[src] /\ N \in SUBSET Nodes
      /\ s => ~kind.incremental /\ S.count % T.count = 0
      /\ Quiet(kind, buckets, T, M, stored, hashing)
      /\ Quiet(kind, buckets, S, N, stored, hashing)
      /\ call \in CloneCalls /\ call.op = "clone"
      /\ ~kind.multi => group = [n \in Nodes |-> Junk]
  BY <1>2 DEF CloningNow
<1>10. /\ L # <<>>
       /\ call' = [call EXCEPT !.todo = Tail(L)]
       /\ pending' = pending
  BY <1>2 DEF ClonesNext
<1>11. m \in Nodes /\ m \notin linked
  BY <1>2 DEF ClonesNext
<1>16. MayEnter(t, m, i, 1)
  BY <1>2 DEF ClonesNext
<1>17. link(t, i, 1, m, first, hashing[Key[m]])
  BY <1>2 DEF ClonesNext
<1>18. /\ kind' = kind /\ hashing' = hashing
       /\ Rest(buckets', tab', members', stored', hashing', linked')
       /\ ~kind.multi => group' = group
       /\ members' = [members EXCEPT ![t] = @ \cup {m}]
       /\ tab' \in [Tables -> Recs]
       /\ \A u \in Tables : /\ tab'[u].array = tab[u].array /\ tab'[u].count = tab[u].count
                            /\ tab'[u].split = tab[u].split
  BY <1>16, <1>17, LinkRests
<1>19. members'[t] = M \cup {m} /\ members'[src] = N
  BY <1>3, <1>4, <1>18
<1>20. Cardinality(M \cup {m}) = Cardinality(M) + 1 /\ Cardinality(M) \in Nat
  <2>1. m \notin M
    BY <1>3, <1>4, <1>11
  <2>. QED
    BY <1>4, <2>1, FS_AddElement, FS_CardinalityType, Zenon
<1>21. Tail(L) \in Seq(Nodes) /\ Len(Tail(L)) = Len(L) - 1 /\ Elems(Tail(L)) \subseteq N
       /\ Len(L) \in Nat
  <2>1. /\ Tail(L) \in Seq(Nodes) /\ Len(Tail(L)) = Len(L) - 1
        /\ \A x \in 1..Len(Tail(L)) : Tail(L)[x] = L[x + 1]
    BY <1>4, <1>10, HeadTailProperties
  <2>2. Len(L) \in Nat /\ \A n : n \in Elems(L) <=> \E x \in 1..Len(L) : L[x] = n
    BY <1>4, ElemsOfSeq
  <2>3. \A n : n \in Elems(Tail(L)) <=> \E x \in 1..Len(Tail(L)) : Tail(L)[x] = n
    BY <2>1, ElemsOfSeq, Zenon
  <2>4. \A x \in 1..Len(Tail(L)) : x + 1 \in 1..Len(L)
    BY <2>1, <2>2
  <2>5. Elems(Tail(L)) \subseteq Elems(L)
    BY <2>1, <2>2, <2>3, <2>4
  <2>. QED
    BY <1>4, <2>1, <2>2, <2>5
<1>22. Cloning(kind, tab', members', call')
  <2>1. PICK C : C = [call EXCEPT !.todo = Tail(L)]
    BY Zenon
  <2>2. /\ C \in CloneCalls /\ C.table = t /\ C.src = src /\ C.todo = Tail(L)
        /\ C.structural = s
    BY <1>4, <1>21, <2>1, Zenon DEF CloneCalls
  <2>3. Len(Tail(L)) + Cardinality(members'[t]) = Cardinality(members'[src])
    <3>1. PICK a : a = Cardinality(M)
      OBVIOUS
    <3>2. PICK b : b = Len(L)
      BY Zenon
    <3>3. PICK d : d = Cardinality(N)
      OBVIOUS
    <3>4. a \in Nat /\ b \in Nat /\ b + a = d /\ Cardinality(members'[t]) = a + 1
          /\ Cardinality(members'[src]) = d /\ Len(Tail(L)) = b - 1
      BY <1>4, <1>19, <1>20, <1>21, <3>1, <3>2, <3>3
    <3>5. (b - 1) + (a + 1) = d
      BY <3>4
    <3>. QED
      BY <3>4, <3>5, Zenon
  <2>4. s => ~kind.incremental /\ tab'[src].count % tab'[t].count = 0
    BY <1>4, <1>18
  <2>5. Cloning(kind, tab', members', C)
    BY <1>4, <1>19, <1>21, <2>2, <2>3, <2>4, Zenon DEF Cloning
  <2>. QED
    BY <1>10, <2>1, <2>5
<1>23. call'.op = "clone"
  BY <1>4, <1>10 DEF CloneCalls
<1>24. pending' = None /\ (~kind.multi => group' = [n \in Nodes |-> Junk])
  BY <1>4, <1>10, <1>18
<1>. QED
  BY <1>3, <1>18, <1>22, <1>23, <1>24, RestIsBase
-----------------------------------------------------------------------------
(* Every step preserves IBase.                                             *)

\* Every call that begins preserves the invariant.
LEMMA RehashAndCloneBase ==
  ASSUME IBase, RehashNext \/ CloneNext
  PROVE  IBase'
<1>1. CASE RehashNext
  <2>1. PICK t \in Tables :
          \/ grow_begins(t)
          \/ shrink(t)
          \/ \E a \in arrays(t), c \in bucket_counts :
               \/ \E full \in BOOLEAN : rehash_begins(t, a, c, full)
               \/ incremental_rehash(t, a, c)
    BY <1>1 DEF RehashNext
  <2>2. CASE grow_begins(t)
    BY <2>2, GrowBeginsBase
  <2>3. CASE shrink(t)
    BY <2>3, ShrinkBase
  <2>4. ASSUME NEW a \in arrays(t), NEW c \in bucket_counts, NEW full \in BOOLEAN,
               rehash_begins(t, a, c, full)
        PROVE  IBase'
    BY <2>4, RehashBeginsBase
  <2>5. ASSUME NEW a \in arrays(t), NEW c \in bucket_counts, incremental_rehash(t, a, c)
        PROVE  IBase'
    BY <2>5, IncrementalRehashBase
  <2>. QED
    BY <2>1, <2>2, <2>3, <2>4, <2>5
<1>2. CASE CloneNext
  BY <1>2, CloneBeginsBase DEF CloneNext
<1>. QED
  BY <1>1, <1>2

\* Every step of a call in progress preserves the invariant.
LEMMA CallNextBase ==
  ASSUME IBase, IGroups, CallNext
  PROVE  IBase'
<1>1. CASE rehash_moves
  BY <1>1, RehashMovesBase
<1>2. CASE rehash_next_bucket
  BY <1>2, RehashNextBucketBase
<1>3. CASE rehash_moves_bucket
  BY <1>3, RehashMovesBucketBase
<1>4. CASE rehash_ends
  BY <1>4, RehashEndsBase
<1>5. CASE rehash_throws
  BY <1>5, RehashThrowsBase
<1>6. CASE grow_moves
  BY <1>6, GrowMovesBase
<1>7. CASE grow_ends
  BY <1>7, GrowEndsBase
<1>8. CASE grow_throws
  BY <1>8, GrowThrowsBase
<1>9. CASE clone_next
  BY <1>9, CloneNextBase
<1>10. CASE clone_ends
  BY <1>10, CloneEndsBase
<1>11. CASE clone_throws
  BY <1>11, CloneThrowsBase
<1>. QED
  BY <1>1, <1>2, <1>3, <1>4, <1>5, <1>6, <1>7, <1>8, <1>9, <1>10, <1>11 DEF CallNext

\* The invariant is about the variables.
LEMMA StutterBase ==
  ASSUME IBase, UNCHANGED vars
  PROVE  IBase'
BY DEF IBase, Types, Exclusive, vars

\* Every step preserves the invariant.
LEMMA NextBase ==
  ASSUME IBase, IGroups, [Next]_vars
  PROVE  IBase'
<1>1. CASE UNCHANGED vars
  BY <1>1, StutterBase
<1>2. CASE InsertNext \/ CommitNext
  BY <1>2, InsertNextBase
<1>3. CASE EraseNext
  BY <1>3, EraseNextBase
<1>4. CASE ExchangeNext
  BY <1>4, ExchangeNextBase
<1>5. CASE RehashNext \/ CloneNext
  BY <1>5, RehashAndCloneBase
<1>6. CASE CallNext
  BY <1>6, CallNextBase
<1>. QED
  BY <1>1, <1>2, <1>3, <1>4, <1>5, <1>6 DEF Next

\* The tables, as their constructors leave them.
LEMMA InitBase ==
  ASSUME Init
  PROVE  IBase
<1>1. /\ kind \in Kinds /\ hashing \in Hashings /\ pending = None /\ call = None /\ linked = {}
      /\ group = [n \in Nodes |-> Junk] /\ stored = [n \in Nodes |-> Junk]
      /\ members = [t \in Tables |-> {}]
  BY DEF Init
<1>2. PICK c \in bucket_counts, place \in [Tables -> Arrays] :
        /\ \A t, u \in Tables : place[t] = place[u] => t = u
        /\ tab = [t \in Tables |-> [array |-> place[t], count |-> c, split |-> initial_split(c),
                                    size |-> 0, cache |-> IF kind.cache THEN c ELSE 0]]
        /\ buckets = [a \in Arrays |-> [i \in indices |->
                        IF a \in taken(tab) /\ i < c THEN <<>> ELSE <<Junk>>]]
  BY Zenon DEF Init
<1>3. /\ c \in Counts /\ c \in Nat /\ 1 <= c /\ c <= MaxCount /\ initial_split(c) \in Nat
      /\ \A T : T.count = c /\ T.split = initial_split(c) => Shaped(kind, T)
  BY <1>1, BucketCounts, Zenon
<1>4. \A t \in Tables : /\ tab[t] \in Recs /\ tab[t].array = place[t] /\ tab[t].count = c
                        /\ tab[t].size = 0 /\ tab[t].cache = (IF kind.cache THEN c ELSE 0)
                        /\ tab[t].split = initial_split(c)
  BY <1>2, <1>3 DEF Recs
<1>5. buckets \in Memories
  <2>1. <<>> \in Seq(Memory) /\ <<Junk>> \in Seq(Memory)
    BY DEF Memory
  <2>. QED
    BY <1>2, <2>1 DEF Memories
<1>6. \A t \in Tables : Emptied(buckets, tab[t])
  <2> SUFFICES ASSUME NEW t \in Tables
               PROVE  Emptied(buckets, tab[t])
    OBVIOUS
  <2>1. place[t] \in Arrays /\ place[t] \in taken(tab)
    BY <1>2, <1>4 DEF taken
  <2>2. \A i \in indices : buckets[place[t]][i] = IF i < c THEN <<>> ELSE <<Junk>>
    BY <1>2, <2>1
  <2>3. Shaped(kind, tab[t])
    BY <1>3, <1>4
  <2>. QED
    BY <1>1, <1>4, <1>5, <2>2, <2>3 DEF Emptied
<1>7. \A t \in Tables : members[t] = {}
  BY <1>1
<1>8. \A t \in Tables : Quiet(kind, buckets, tab[t], members[t], stored, hashing)
  BY <1>6, <1>7, EmptiedIsQuiet
<1>9. \A a \in Arrays : (\A t \in Tables : a # tab[t].array) => Kept(buckets, a, 0)
  <2> SUFFICES ASSUME NEW a \in Arrays, \A t \in Tables : a # tab[t].array, NEW i \in indices
               PROVE  ~(i < 0) /\ buckets[a][i] = <<Junk>>
    BY DEF Kept
  <2>1. a \notin taken(tab) /\ i \in Nat
    BY CountIs DEF taken, indices
  <2>. QED
    BY <1>2, <2>1
<1>10. tab \in [Tables -> Recs]
  BY <1>2, <1>4
<1>11. Rest(buckets, tab, members, stored, hashing, linked)
  BY <1>1, <1>2, <1>4, <1>5, <1>7, <1>8, <1>9, <1>10, ZenonT(40) DEF Rest
<1>12. Apart(buckets)
  BY <1>1, <1>11, RestIsApart
<1>13. call.op # "rehash" /\ call.op # "grow"
  BY <1>1 DEF None
<1>14. \A t \in Tables : Owned(tab, call, t) = {tab[t].array} /\ ~Busy(call, t)
  BY <1>13 DEF Owned, Busy
<1>15. Types
  BY <1>1, <1>11 DEF Types, Rest, Memories
<1>16. Exclusive
  BY <1>11, <1>12, <1>14 DEF Exclusive, Rest
<1>. QED
  BY <1>1, <1>8, <1>15, <1>16 DEF IBase
=============================================================================
