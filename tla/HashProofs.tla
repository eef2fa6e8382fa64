------------------------------ MODULE HashProofs ------------------------------
(***************************************************************************)
(* The theorems about the hash table, and what they rest on beyond the     *)
(* modules before this one: cloning leaves the groups of equal elements    *)
(* whole, IBase and IGroups are inductive, and a search by groups finds    *)
(* every element of its key.                                               *)
(***************************************************************************)
EXTENDS HashGroupProofs

\* Buckets with whole groups, and no key in two of them.
ApartKeys(B, c) ==
  /\ \A i \in 0..(c - 1) : Together(B[i])
  /\ \A i, j \in 0..(c - 1) : i # j => Unlike(B[i], B[j])

\* Iteration meets equal elements one after the other.
LEMMA JoinedTogether ==
  ASSUME NEW B, NEW c, Buckets(B, c), ApartKeys(B, c), NEW f, Joined(B, c, f, 0),
         NEW first \in 0..c
  PROVE  Together(f[first])
<1>0. c \in Nat
  BY DEF Buckets
<1>1. f = [i \in 0..c |-> IF i = c THEN <<>> ELSE B[i] \o f[i + 1]]
  BY Zenon DEF Joined
<1>2. \A i \in 0..c : JoinsAll(B, c, f, i)
  BY JoinedIs, Zenon
<1> DEFINE P == {k \in Nat : k <= c => Together(f[c - k])}
<1>3. 0 \in P
  <2>1. f[c] = <<>> /\ c - 0 = c
    BY <1>0, <1>1
  <2>2. Together(<<>>)
    BY DEF Together
  <2>. QED
    BY <2>1, <2>2
<1>4. ASSUME NEW k \in P
      PROVE  k + 1 \in P
  <2> SUFFICES ASSUME k + 1 <= c
               PROVE  Together(f[c - (k + 1)])
    OBVIOUS
  <2>1. PICK i \in Nat : i = c - (k + 1)
    BY <1>0
  <2>2. i + 1 = c - k /\ k \in Nat /\ k <= c /\ i \in 0..(c - 1) /\ i \in 0..c /\ i + 1 \in 0..c /\ i # c
    BY <1>0, <2>1
  <2>3. Together(f[i + 1])
    BY <2>2
  <2> HIDE DEF P
  <2>4. f[i] = B[i] \o f[i + 1]
    BY <1>1, <2>2, Zenon
  <2>5. PICK b : b = B[i]
    OBVIOUS
  <2>6. PICK r : r = f[i + 1]
    OBVIOUS
  <2>7. /\ r \in Seq(Nodes)
        /\ \A n \in Nodes : n \in Elems(r) => \E j \in (i + 1)..(c - 1) : n \in Elems(B[j])
    BY <1>2, <2>2, <2>6 DEF JoinsAll
  <2>8. b \in Seq(Nodes) /\ Together(b)
    BY <2>2, <2>5 DEF Buckets, ApartKeys
  <2>9. Unlike(b, r)
    <3> SUFFICES ASSUME NEW x \in DOMAIN b, NEW y \in DOMAIN r
                 PROVE  Key[b[x]] # Key[r[y]]
      BY DEF Unlike
    <3>1. r[y] \in Elems(r) /\ r[y] \in Nodes
      BY <2>7, ElemsOfSeq DEF Elems
    <3>2. PICK j \in (i + 1)..(c - 1) : r[y] \in Elems(B[j])
      BY <2>7, <3>1
    <3>3. PICK z \in DOMAIN B[j] : B[j][z] = r[y]
      BY <3>2 DEF Elems
    <3>4. j \in 0..(c - 1) /\ i # j
      BY <1>0, <2>2
    <3>5. Unlike(b, B[j])
      BY <2>2, <2>5, <3>4 DEF ApartKeys
    <3>. QED
      BY <3>3, <3>5 DEF Unlike
  <2>10. Together(b \o r)
    BY <2>3, <2>6, <2>7, <2>8, <2>9, JoinIsJoin, TogetherJoin, Zenon
  <2>. QED
    BY <2>1, <2>4, <2>5, <2>6, <2>10
<1> HIDE DEF P
<1>5. P = Nat
  <2>1. P \in SUBSET Nat
    BY DEF P
  <2>. QED
    BY <1>3, <1>4, <2>1, SetInduction
<1>6. PICK k \in Nat : k = c - first
  BY <1>0
<1>7. k \in P /\ k <= c /\ c - k = first
  BY <1>0, <1>5, <1>6
<1>. QED
  BY <1>7 DEF P

\* Elements of one key are in one bucket.
LEMMA IteratedApart ==
  ASSUME NEW t, NEW T, NEW M, NEW B, NEW c, NEW f, NEW first, Iterated(t, T, M, B, c, f, first)
  PROVE  \A i, j \in 0..(c - 1) : i # j => Unlike(B[i], B[j])
<1> SUFFICES ASSUME NEW i \in 0..(c - 1), NEW j \in 0..(c - 1), i # j,
                    NEW x \in DOMAIN B[i], NEW y \in DOMAIN B[j], Key[B[i][x]] = Key[B[j][y]]
             PROVE  FALSE
  BY DEF Unlike
<1>1. /\ \A k \in 0..(c - 1) : B[k] \in Seq(Nodes) /\ k \in indices
      /\ \A k \in indices, n \in Nodes : n \in Elems(B[k]) => k = Home(kind, T, hashing, n)
  BY DEF Iterated
<1>2. B[i][x] \in Elems(B[i]) /\ B[i][x] \in Nodes /\ B[j][y] \in Elems(B[j]) /\ B[j][y] \in Nodes
  BY <1>1, ElemsOfSeq DEF Elems
<1>3. i = Home(kind, T, hashing, B[i][x]) /\ j = Home(kind, T, hashing, B[j][y])
  BY <1>1, <1>2
<1>. QED
  BY <1>3 DEF Home

\* Elements of one key come one after the other.
LEMMA ElementsTogether ==
  ASSUME Resting, NEW t \in Tables, NEW g, NEW L, WholeBut(kind, g, L, buckets, {})
  PROVE  Together(elements(t))
<1>1. PICK T, M, B, c, f, first : Iterated(t, T, M, B, c, f, first)
  BY ElementsJoin
<1>2. /\ B = buckets[T.array] /\ T \in Recs
      /\ \A i \in 0..(c - 1) : B[i] \in Seq(Nodes) /\ i \in indices
      /\ Buckets(B, c) /\ Joined(B, c, f, 0) /\ first \in 0..c /\ elements(t) = f[first]
  BY <1>1 DEF Iterated
<1>3. \A i \in 0..(c - 1) : Together(B[i])
  <2>1. T.array \in Arrays
    BY <1>2, RecIs
  <2>2. \A i \in 0..(c - 1) : Fits(kind, g, B[i])
    BY <1>2, <2>1 DEF WholeBut
  <2>. QED
    BY <1>2, <2>2 DEF Fits, Grouped
<1>4. ApartKeys(B, c)
  BY <1>1, <1>3, IteratedApart, Zenon DEF ApartKeys
<1>. QED
  BY <1>2, <1>4, JoinedTogether

\* What a call disposes of leaves whole groups, also if the call goes on.
LEMMA DisposedWhole ==
  ASSUME IBase', call'.op # "rehash", call'.op # "grow", NEW ns, NEW h, disposed(ns, h),
         WholeBut(kind, group, linked, buckets, {}), Touched(group, linked, buckets, h, buckets')
  PROVE  WholeBut(kind, group', linked', buckets', {})
<1>1. linked' = linked \ ns /\ group' = gone(h, ns)
  BY DEF disposed
<1>2. Lists(buckets', linked')
  BY StayListed DEF AllListed
<1>3. PICK cs : cs = buckets'
  OBVIOUS
<1>4. Removed(group, linked, buckets, h, ns, cs)
  BY <1>1, <1>2, <1>3 DEF Removed, Touched
<1>5. WholeBut(kind, gone(h, ns), linked \ ns, cs, {})
  BY <1>4, RemovedGroups
<1>. QED
  BY <1>1, <1>3, <1>5

\* Without elements in the table there is nothing to join.
LEMMA NothingCloned ==
  ASSUME NEW T \in Recs, NEW C, NEW bs \in Memories, Together(C.todo),
         \A i \in indices : bs[T.array][i] = <<>> \/ ~(i < T.count)
  PROVE  CloneGroups(T, C, bs)
<1>1. \A i \in 0..(T.count - 1) : DOMAIN bs[T.array][i] = {}
  <2> SUFFICES ASSUME NEW i \in 0..(T.count - 1)
               PROVE  DOMAIN bs[T.array][i] = {}
    OBVIOUS
  <2>1. i \in indices /\ i < T.count
    BY RecIs
  <2>. QED
    BY <2>1
<1>. QED
  BY <1>1 DEF CloneGroups

\* A table without elements has empty buckets.
LEMMA EmptyQuiet ==
  ASSUME NEW K \in Kinds, NEW bs \in Memories, NEW T \in Recs, NEW st, NEW hs,
         Quiet(K, bs, T, {}, st, hs), NEW i \in indices
  PROVE  bs[T.array][i] = <<>> \/ ~(i < T.count)
<1>1. Kept(bs, T.array, T.count) /\ Holds(bs, {T.array}, {})
  BY DEF Quiet
<1>2. CASE i < T.count
  <2>1. bs[T.array][i] \in Seq(Nodes)
    BY <1>1, <1>2 DEF Kept
  <2>2. ASSUME NEW x \in DOMAIN bs[T.array][i]
        PROVE  FALSE
    <3>1. bs[T.array][i][x] \in Nodes /\ bs[T.array][i][x] \in Elems(bs[T.array][i])
      BY <2>1, ElemsOfSeq DEF Elems
    <3>. QED
      BY <1>1, <3>1 DEF Holds
  <2>3. PICK b : b = bs[T.array][i]
    OBVIOUS
  <2>4. b # <<>> => 1 \in DOMAIN b
    BY <2>1, <2>3, EmptySeq
  <2>. QED
    BY <2>2, <2>3, <2>4
<1>. QED
  BY <1>2

\* clone_begins leaves the groups whole.
LEMMA CloneBeginsGroups ==
  ASSUME IBase, IGroups, IBase', NEW t \in Tables, NEW src \in Tables, clone_begins(t, src)
  PROVE  IGroups'
<1>1. idle /\ t # src
  BY DEF clone_begins
<1>2. Resting /\ call = None /\ WholeBut(kind, group, linked, buckets, {})
  BY <1>1, IdleIs DEF IGroups, None
<1>3. /\ buckets' = cleared(buckets, tab[t])
      /\ disposed(from_cached(tab[t]), group)
      /\ tab' = [tab EXCEPT ![t] = priv_size_count(priv_init_cache(@), 0)]
  BY DEF clone_begins
<1>4. PICK L : L = elements(src)
  OBVIOUS
<1>5. PICK s : s = structural(t, src)
  OBVIOUS
<1>6. PICK C : CloneRecord(C, t, src, L, s)
  BY Zenon DEF CloneRecord
<1>7. call' = None \/ call' = C
  BY <1>4, <1>5, <1>6 DEF clone_begins, CloneRecord
<1>8. C.op = "clone" /\ C.todo = L /\ C.table = t
  BY <1>6 DEF CloneRecord
<1>9. call'.op # "rehash" /\ call'.op # "grow"
  BY <1>7, <1>8 DEF None
<1>10. buckets \in Memories /\ tab[t] \in Recs /\ group \in [Nodes -> Memory]
  BY <1>2, RestingIs DEF WholeBut
<1>11. Touched(group, linked, buckets, group, buckets')
  BY <1>3, <1>10, ClearEmpties, EmptiesTouch
<1>12. WholeBut(kind, group', linked', buckets', {})
  BY <1>2, <1>3, <1>9, <1>11, DisposedWhole
<1>13. kind' = kind /\ pending' = None
  BY <1>3 DEF disposed
<1>14. CASE call' = None
  BY <1>12, <1>13, <1>14, WholeIsGroups
<1>15. CASE call' = C
  <2>1. Together(L)
    BY <1>2, <1>4, ElementsTogether
  <2>2. /\ Rest(buckets', tab', members', stored', hashing', linked')
        /\ members' = [members EXCEPT ![t] = {}]
    BY <1>2, <1>3, ClearRests, Zenon
  <2>3. members \in [Tables -> SUBSET Nodes] /\ kind \in Kinds
    BY <1>2 DEF Resting, Rest
  <2>4. members'[t] = {}
    BY <2>2, <2>3
  <2>5. /\ buckets' \in Memories /\ tab'[t] \in Recs
        /\ Quiet(kind, buckets', tab'[t], {}, stored', hashing')
    BY <2>2, <2>4 DEF Rest
  <2>6. PICK cs : cs = buckets'
    OBVIOUS
  <2>7. PICK T : T = tab'[t]
    OBVIOUS
  <2>8. \A i \in indices : cs[T.array][i] = <<>> \/ ~(i < T.count)
    BY <2>3, <2>5, <2>6, <2>7, EmptyQuiet, Zenon
  <2>9. CloneGroups(T, C, cs)
    BY <1>8, <2>1, <2>5, <2>6, <2>7, <2>8, NothingCloned
  <2>10. CloneGroups(tab'[call'.table], call', buckets')
    BY <1>8, <1>15, <2>6, <2>7, <2>9
  <2>11. WholeBut(kind', group', linked', buckets', {})
    BY <1>12, <1>13, Zenon
  <2>. QED
    BY <1>8, <1>13, <1>15, <2>10, <2>11 DEF IGroups
<1>. QED
  BY <1>7, <1>14, <1>15

\* What the rollback of a structural copy empties.
LEMMA CopyRollbackEmpties ==
  ASSUME Resting, NEW t \in Tables, NEW cs, NEW I, cs = emptied(t, I)
  PROVE  Empties(buckets, cs)
<1>1. buckets \in Memories /\ tab[t].array \in Arrays
  BY RestingIs, RecIs
<1>2. \A a \in Arrays, i \in indices : cs[a][i] = <<>> \/ cs[a][i] = buckets[a][i]
  BY <1>1 DEF emptied, Memories
<1>. QED
  BY <1>2 DEF Empties

\* The cloner throws and the groups stay whole.
LEMMA CloneThrowsGroups ==
  ASSUME IBase, IGroups, IBase', clone_throws
  PROVE  IGroups'
<1>1. in("clone")
  BY DEF clone_throws
<1>2. PICK t, src, T, S, M, N, L, s : CloningNow(t, src, T, S, M, N, L, s)
  BY <1>1, CloneIsNow
<1>3. Resting /\ t \in Tables /\ t = call.table
  BY <1>2 DEF CloningNow
<1>4. PICK ns : /\ disposed(ns, group)
                /\ buckets' = cleared(buckets, tab[t]) \/ buckets' = emptied(t, constructed)
  BY <1>3 DEF clone_throws, structural_rollback
<1>5. WholeBut(kind, group, linked, buckets, {})
  BY <1>1 DEF IGroups, in
<1>6. buckets \in Memories /\ tab[t] \in Recs /\ group \in [Nodes -> Memory]
  BY <1>3, <1>5, RestingIs DEF WholeBut
<1>7. Touched(group, linked, buckets, group, buckets')
  <2>1. Empties(buckets, buckets')
    <3>1. Empties(buckets, cleared(buckets, tab[t]))
      BY <1>6, ClearEmpties
    <3>2. PICK cs, I : cs = emptied(t, I) /\ I = constructed
      OBVIOUS
    <3>3. Empties(buckets, cs)
      BY <1>3, <3>2, CopyRollbackEmpties, Zenon
    <3>. QED
      BY <1>4, <3>1, <3>2, <3>3, Zenon
  <2>. QED
    BY <1>6, <2>1, EmptiesTouch
<1>8. call' = None /\ call'.op # "rehash" /\ call'.op # "grow"
  BY DEF clone_throws, None
<1>9. WholeBut(kind, group', linked', buckets', {})
  BY <1>4, <1>5, <1>7, <1>8, DisposedWhole
<1>10. kind' = kind /\ pending' = None
  BY <1>4 DEF disposed
<1>. QED
  BY <1>8, <1>9, <1>10, WholeIsGroups

\* The end of a clone leaves the groups whole.
LEMMA CloneEndsGroups ==
  ASSUME IBase, IGroups, clone_ends
  PROVE  IGroups'
<1>1. in("clone")
  BY DEF clone_ends
<1>2. PICK t, src, T, S, M, N, L, s : CloningNow(t, src, T, S, M, N, L, s)
  BY <1>1, CloneIsNow
<1>3. pending = None
  BY <1>2 DEF CloningNow
<1>4. UNCHANGED <<kind, buckets, group, linked, pending>> /\ call' = None
  BY DEF clone_ends
<1>5. WholeBut(kind, group, linked, buckets, {})
  BY <1>1 DEF IGroups, in
<1>. QED
  BY <1>3, <1>4, <1>5, WholeIsGroups

\* The clone m of the first element of L comes to the front of bucket i.
Copied(T, U, C, D, L, bs, cs, hs, m, i, b) ==
  /\ CloneGroups(T, C, bs)
  /\ C.todo = L /\ L \in Seq(Nodes) /\ L # <<>> /\ D.todo = Tail(L)
  /\ U.array = T.array /\ U.count = T.count
  /\ \A k \in 0..(T.count - 1) : bs[T.array][k] \in Seq(Nodes)
  /\ \A k \in 0..(T.count - 1), n \in Nodes :
       n \in Elems(bs[T.array][k]) => k = Home(kind, T, hs, n)
  /\ m \in Nodes /\ Key[m] = Key[L[1]] /\ i = Home(kind, T, hs, m)
  /\ b = bs[T.array][i] /\ i \in 0..(T.count - 1)
  /\ PutOf(cs[T.array][i], b, 1, m)
  /\ \A k \in 0..(T.count - 1) : k # i => cs[T.array][k] = bs[T.array][k]

\* A copy of an element joins the copies of the elements equal to it.
LEMMA CopiedGroups ==
  ASSUME NEW T, NEW U, NEW C, NEW D, NEW L, NEW bs, NEW cs, NEW hs, NEW m, NEW i, NEW b,
         Copied(T, U, C, D, L, bs, cs, hs, m, i, b)
  PROVE  CloneGroups(U, D, cs)
<1>1. /\ L \in Seq(Nodes) /\ L # <<>> /\ Together(L) /\ D.todo = Tail(L)
      /\ U.array = T.array /\ U.count = T.count
      /\ \A y \in DOMAIN L, k \in 0..(T.count - 1) : \A x \in DOMAIN bs[T.array][k] :
           Key[bs[T.array][k][x]] = Key[L[y]] => Key[L[1]] = Key[L[y]]
  BY DEF Copied, CloneGroups
<1>2. PICK R : R = Tail(L)
  BY Zenon
<1>3. /\ R \in Seq(Nodes) /\ Len(R) = Len(L) - 1 /\ Len(L) \in Nat /\ Len(L) >= 1
      /\ \A x \in 1..Len(R) : R[x] = L[x + 1]
      /\ DOMAIN R = 1..Len(R) /\ DOMAIN L = 1..Len(L)
  <2>1. /\ Tail(L) \in Seq(Nodes) /\ Len(Tail(L)) = Len(L) - 1
        /\ \A x \in 1..Len(Tail(L)) : Tail(L)[x] = L[x + 1]
    BY <1>1, HeadTailProperties
  <2>2. Len(L) \in Nat \ {0}
    BY <1>1, EmptySeq
  <2>. QED
    BY <1>1, <1>2, <2>1, <2>2, ElemsOfSeq
<1>4. Together(R)
  <2>1. PieceOf(R, L, 2, Len(L) + 1)
    BY <1>1, <1>3 DEF PieceOf
  <2>. QED
    BY <1>1, <2>1, TogetherPiece
<1>5. ASSUME NEW y \in DOMAIN R, Key[L[1]] = Key[R[y]]
      PROVE  Key[R[1]] = Key[R[y]]
  <2>1. R[y] = L[y + 1] /\ R[1] = L[2] /\ 1 \in DOMAIN L /\ 2 \in DOMAIN L /\ y + 1 \in DOMAIN L
        /\ 1 <= 2 /\ 2 <= y + 1
    BY <1>3
  <2>2. Key[L[2]] = Key[L[1]]
    BY <1>1, <1>5, <2>1, ZenonT(40) DEF Together
  <2>. QED
    BY <1>5, <2>1, <2>2
<1>6. ASSUME NEW y \in DOMAIN R, NEW k \in 0..(T.count - 1), NEW x \in DOMAIN cs[T.array][k],
             Key[cs[T.array][k][x]] = Key[R[y]]
      PROVE  Key[R[1]] = Key[R[y]] /\ Key[cs[T.array][k][1]] = Key[R[y]]
  <2>1. R[y] = L[y + 1] /\ y + 1 \in DOMAIN L
    BY <1>3
  <2>2. CASE k # i
    <3>1. cs[T.array][k] = bs[T.array][k]
      BY <2>2 DEF Copied
    <3>2. Key[L[1]] = Key[bs[T.array][k][x]]
      BY <1>1, <1>6, <2>1, <3>1
    <3>3. bs[T.array][k][x] \in Nodes /\ bs[T.array][k][x] \in Elems(bs[T.array][k])
      <4>1. bs[T.array][k] \in Seq(Nodes) /\ x \in DOMAIN bs[T.array][k]
        BY <1>6, <3>1 DEF Copied
      <4>. QED
        BY <4>1, ElemsOfSeq DEF Elems
    <3>4. k = Home(kind, T, hs, bs[T.array][k][x])
      BY <3>3 DEF Copied
    <3>5. i = Home(kind, T, hs, m) /\ Key[m] = Key[L[1]]
      BY DEF Copied
    <3>. QED
      BY <2>2, <3>2, <3>4, <3>5 DEF Home
  <2>3. CASE k = i
    <3>1. PICK c : c = cs[T.array][i]
      OBVIOUS
    <3>2. /\ PutOf(c, b, 1, m) /\ b = bs[T.array][i] /\ Key[m] = Key[L[1]]
          /\ i \in 0..(T.count - 1)
      BY <3>1 DEF Copied
    <3>3. x \in DOMAIN c /\ Key[c[x]] = Key[R[y]]
      BY <1>6, <2>3, <3>1
    <3>4. /\ c[1] = m /\ x \in 1..Len(c)
          /\ x # 1 => c[x] = b[x - 1] /\ x - 1 \in DOMAIN b
      BY <3>2, <3>3, SMTT(15) DEF PutOf
    <3>5. Key[L[1]] = Key[R[y]]
      <4>1. CASE x = 1
        BY <3>2, <3>3, <3>4, <4>1
      <4>2. CASE x # 1
        <5>1. x - 1 \in DOMAIN bs[T.array][i] /\ Key[bs[T.array][i][x - 1]] = Key[L[y + 1]]
          BY <2>1, <3>2, <3>3, <3>4, <4>2
        <5>2. Key[L[1]] = Key[L[y + 1]]
          BY <1>1, <2>1, <3>2, <5>1, Zenon
        <5>. QED
          BY <2>1, <5>2
      <4>. QED
        BY <4>1, <4>2
    <3>. QED
      BY <1>5, <2>3, <3>1, <3>2, <3>4, <3>5
  <2>. QED
    BY <2>2, <2>3
<1>. QED
  BY <1>1, <1>2, <1>4, <1>6 DEF CloneGroups

\* A clone joins the clones of its equals.
LEMMA CloneNextGroups ==
  ASSUME IBase, IGroups, IBase', clone_next
  PROVE  IGroups'
<1>1. PICK t, src, T, S, M, N, L, s, r, m, i, first :
        CloningNow(t, src, T, S, M, N, L, s) /\ ClonesNext(t, T, L, r, m, i, first)
  BY CloneNextIs
<1>2. /\ Resting /\ pending = None
      /\ call \in CloneCalls /\ call.op = "clone" /\ t = call.table /\ L = call.todo
      /\ t \in Tables /\ L \in Seq(Nodes) /\ T = tab[t] /\ T \in Recs /\ M \in SUBSET Nodes
      /\ Quiet(kind, buckets, T, M, stored, hashing)
  BY <1>1 DEF CloningNow
<1>3. /\ L # <<>> /\ r = L[1] /\ r \in Nodes /\ Key[m] = Key[r] /\ m \in Nodes
      /\ i = Home(kind, T, hashing, m) /\ i \in 0..(T.count - 1)
      /\ MayEnter(t, m, i, 1)
      /\ first = IF joins(t, i, Key[r]) THEN bucket(t, i)[1] ELSE m
      /\ link(t, i, 1, m, first, hashing[Key[m]])
      /\ call' = [call EXCEPT !.todo = Tail(L)]
      /\ pending' = pending
  BY <1>1 DEF ClonesNext
<1>4. WholeBut(kind, group, linked, buckets, {}) /\ CloneGroups(T, call, buckets)
  BY <1>2 DEF IGroups
<1>5. /\ kind \in Kinds /\ buckets \in Memories /\ tab \in [Tables -> Recs]
      /\ \A k \in 0..(T.count - 1) : k \in indices /\ buckets[T.array][k] \in Seq(Nodes)
      /\ \A k \in indices, n \in Nodes :
           n \in Elems(buckets[T.array][k]) => k = Home(kind, T, hashing, n)
  <2>1. kind \in Kinds /\ buckets \in Memories /\ tab \in [Tables -> Recs]
    BY <1>2 DEF Resting, Rest
  <2>2. Kept(buckets, T.array, T.count) /\ AtHome(kind, buckets, T, hashing)
    BY <1>2 DEF Quiet
  <2>3. \A k \in 0..(T.count - 1) : k \in indices
    BY <1>2, RecIs
  <2>4. \A k \in 0..(T.count - 1) : buckets[T.array][k] \in Seq(Nodes)
    BY <1>2, <2>2, <2>3, RecIs DEF Kept
  <2>. QED
    BY <2>1, <2>2, <2>3, <2>4 DEF AtHome
<1>6. PICK b : b = bucket(t, i)
  OBVIOUS
<1>7. b \in Seq(Nodes) /\ b = buckets[T.array][i] /\ i \in indices
  BY <1>2, <1>3, <1>5, <1>6 DEF bucket
<1>8. (\E x \in DOMAIN b : Key[b[x]] = Key[m]) <=> joins(t, i, Key[r])
  <2>1. 1 \in DOMAIN L
    BY <1>2, <1>3, EmptySeq
  <2>2. \A x \in DOMAIN b : Key[b[x]] = Key[m] => Key[b[1]] = Key[m]
    <3>1. \A x \in DOMAIN buckets[T.array][i] :
            Key[buckets[T.array][i][x]] = Key[call.todo[1]] =>
              Key[buckets[T.array][i][1]] = Key[call.todo[1]]
      <4>1. 1 \in DOMAIN call.todo
        BY <1>2, <2>1, Zenon
      <4>2. \A y \in DOMAIN call.todo, k \in 0..(T.count - 1) : \A x \in DOMAIN buckets[T.array][k] :
              Key[buckets[T.array][k][x]] = Key[call.todo[y]] =>
                Key[call.todo[1]] = Key[call.todo[y]]
                /\ Key[buckets[T.array][k][1]] = Key[call.todo[y]]
        BY <1>4 DEF CloneGroups
      <4>. QED
        BY <1>3, <4>1, <4>2, Zenon
    <3>. QED
      BY <1>2, <1>3, <1>7, <3>1, ZenonT(40)
  <2>3. b # <<>> <=> DOMAIN b # {}
    BY <1>7, ElemsOfSeq DEF Elems
  <2>4. b # <<>> => 1 \in DOMAIN b
    BY <1>7, EmptySeq
  <2>. QED
    BY <1>3, <1>6, <2>2, <2>3, <2>4 DEF joins
<1>9. InFront(b, 1, m)
  <2>1. b # <<>> => 1 \in DOMAIN b
    BY <1>7, EmptySeq
  <2>2. joins(t, i, Key[r]) => 1 \in Starts(b) /\ Key[b[1]] = Key[m]
    BY <1>3, <1>6, <2>1 DEF joins, Starts
  <2>. QED
    BY <1>8, <2>2 DEF InFront
<1>10. first = IF \E x \in DOMAIN b : Key[b[x]] = Key[m] THEN b[1] ELSE m
  BY <1>3, <1>6, <1>8
<1>11. WholeBut(kind, group', linked', buckets', {})
  BY <1>3, <1>4, <1>6, <1>9, <1>10, LinkGroups
<1>12. PICK cs : cs = buckets'
  OBVIOUS
<1>13. PICK U : U = tab'[t]
  OBVIOUS
<1>14. PICK D : D = call'
  OBVIOUS
<1>15. /\ cs[T.array][i] = PutIn(b, 1, m)
       /\ \A k \in 0..(T.count - 1) : k # i => cs[T.array][k] = buckets[T.array][k]
  <2>1. buckets' = [buckets EXCEPT ![T.array][i] = PutIn(b, 1, m)]
    BY <1>2, <1>3, <1>7 DEF link
  <2>2. T.array \in Arrays
    BY <1>2, RecIs
  <2>. QED
    BY <1>5, <1>7, <1>12, <2>1, <2>2 DEF Memories
<1>16. PutOf(cs[T.array][i], b, 1, m)
  <2>1. 1 \in Nat /\ 1 <= 1 /\ 1 <= Len(b) + 1
    BY <1>7, LenProperties
  <2>. QED
    BY <1>3, <1>7, <1>15, <2>1, PutIsPut
<1>17. U.array = T.array /\ U.count = T.count
  <2>1. \A u \in Tables : tab'[u].array = tab[u].array /\ tab'[u].count = tab[u].count
    <3>1. /\ kind' = kind /\ hashing' = hashing
          /\ Rest(buckets', tab', members', stored', hashing', linked')
          /\ ~kind.multi => group' = group
          /\ members' = [members EXCEPT ![t] = @ \cup {m}]
          /\ tab' \in [Tables -> Recs]
          /\ \A u \in Tables : /\ tab'[u].array = tab[u].array /\ tab'[u].count = tab[u].count
                               /\ tab'[u].split = tab[u].split
      BY <1>3, LinkRests
    <3>. QED
      BY <3>1
  <2>. QED
    BY <1>2, <1>13, <2>1
<1>18. D.todo = Tail(L) /\ D.op = "clone" /\ D.table = t
  BY <1>2, <1>3, <1>14 DEF CloneCalls
<1>19. Copied(T, U, call, D, L, buckets, cs, hashing, m, i, b)
  BY <1>2, <1>3, <1>4, <1>5, <1>7, <1>15, <1>16, <1>17, <1>18 DEF Copied
<1>20. CloneGroups(U, D, cs)
  BY <1>19, CopiedGroups
<1>21. CloneGroups(tab'[call'.table], call', buckets')
  BY <1>12, <1>13, <1>14, <1>18, <1>20
<1>22. kind' = kind /\ pending' = None /\ call'.op = "clone"
  BY <1>2, <1>3, <1>14, <1>18 DEF link
<1>23. WholeBut(kind', group', linked', buckets', {})
  BY <1>11, <1>22, Zenon
<1>. QED
  BY <1>21, <1>22, <1>23 DEF IGroups

\* A call that begins leaves the groups whole.
LEMMA RehashAndCloneGroups ==
  ASSUME IBase, IGroups, IBase', RehashNext \/ CloneNext
  PROVE  IGroups'
<1>1. CASE RehashNext
  <2>1. PICK t \in Tables :
          \/ grow_begins(t)
          \/ shrink(t)
          \/ \E a \in arrays(t), c \in bucket_counts :
               \/ \E full \in BOOLEAN : rehash_begins(t, a, c, full)
               \/ incremental_rehash(t, a, c)
    BY <1>1 DEF RehashNext
  <2>2. CASE grow_begins(t)
    BY <2>2, GrowBeginsGroups
  <2>3. CASE shrink(t)
    BY <2>3, ShrinkGroups
  <2>4. ASSUME NEW a \in arrays(t), NEW c \in bucket_counts, NEW full \in BOOLEAN,
               rehash_begins(t, a, c, full)
        PROVE  IGroups'
    BY <2>4, RehashBeginsGroups
  <2>5. ASSUME NEW a \in arrays(t), NEW c \in bucket_counts, incremental_rehash(t, a, c)
        PROVE  IGroups'
    BY <2>5, IncrementalRehashGroups
  <2>. QED
    BY <2>1, <2>2, <2>3, <2>4, <2>5
<1>2. CASE CloneNext
  BY <1>2, CloneBeginsGroups DEF CloneNext
<1>. QED
  BY <1>1, <1>2

\* And so does every step of a call in progress.
LEMMA CallNextGroups ==
  ASSUME IBase, IGroups, IBase', CallNext
  PROVE  IGroups'
<1>1. CASE rehash_moves
  BY <1>1, RehashMovesGroups
<1>2. CASE rehash_next_bucket
  BY <1>2, RehashNextBucketGroups
<1>3. CASE rehash_moves_bucket
  BY <1>3, RehashMovesBucketGroups
<1>4. CASE rehash_ends
  BY <1>4, RehashEndsGroups
<1>5. CASE rehash_throws
  BY <1>5, RehashThrowsGroups
<1>6. CASE grow_moves
  BY <1>6, GrowMovesGroups
<1>7. CASE grow_ends
  BY <1>7, GrowEndsGroups
<1>8. CASE grow_throws
  BY <1>8, GrowThrowsGroups
<1>9. CASE clone_next
  BY <1>9, CloneNextGroups
<1>10. CASE clone_ends
  BY <1>10, CloneEndsGroups
<1>11. CASE clone_throws
  BY <1>11, CloneThrowsGroups
<1>. QED
  BY <1>1, <1>2, <1>3, <1>4, <1>5, <1>6, <1>7, <1>8, <1>9, <1>10, <1>11 DEF CallNext

\* What is said of the groups is about the variables.
LEMMA StutterGroups ==
  ASSUME IGroups, UNCHANGED vars
  PROVE  IGroups'
BY DEF IGroups, vars

\* Every step leaves the groups whole.
LEMMA NextGroups ==
  ASSUME IBase, IGroups, IBase', [Next]_vars
  PROVE  IGroups'
<1>1. CASE UNCHANGED vars
  BY <1>1, StutterGroups
<1>2. CASE InsertNext \/ CommitNext
  BY <1>2, InsertNextGroups
<1>3. CASE EraseNext
  BY <1>3, EraseNextGroups
<1>4. CASE ExchangeNext
  BY <1>4, ExchangeNextGroups
<1>5. CASE RehashNext \/ CloneNext
  BY <1>5, RehashAndCloneGroups
<1>6. CASE CallNext
  BY <1>6, CallNextGroups
<1>. QED
  BY <1>1, <1>2, <1>3, <1>4, <1>5, <1>6 DEF Next

\* Tables that have just been constructed have no groups.
LEMMA InitGroups ==
  ASSUME Init
  PROVE  IGroups
<1>1. /\ pending = None /\ call = None
      /\ group = [n \in Nodes |-> Junk]
      /\ \E c : buckets = [a \in Arrays |-> [i \in indices |->
                             IF a \in taken(tab) /\ i < c THEN <<>> ELSE <<Junk>>]]
  BY ZenonT(40) DEF Init
<1>2. group \in [Nodes -> Memory] /\ \A n \in Nodes : group[n] = Junk
  BY <1>1 DEF Memory
<1>3. \A a \in Arrays, i \in indices : buckets[a][i] = <<>> \/ buckets[a][i] = <<Junk>>
  BY <1>1
<1>4. \A a \in Arrays, i \in indices : Fits(kind, group, buckets[a][i])
  BY <1>3, EmptyFits
<1>5. WholeBut(kind, group, linked, buckets, {})
  BY <1>2, <1>4 DEF WholeBut
<1>. QED
  BY <1>1, <1>5 DEF IGroups, None
-----------------------------------------------------------------------------
(* The inductive invariant.                                                *)

HashInvariant == IBase /\ IGroups

(* The invariant of every table and of every call in progress, with the     *)
(* groups of equal elements, holds in every state.                          *)
THEOREM HashInductive == Spec => []HashInvariant
<1>1. Init => HashInvariant
  BY InitBase, InitGroups DEF HashInvariant
<1>2. HashInvariant /\ [Next]_vars => HashInvariant'
  <2> SUFFICES ASSUME HashInvariant, [Next]_vars
               PROVE  IBase' /\ IGroups'
    BY DEF HashInvariant
  <2>1. IBase /\ IGroups
    BY DEF HashInvariant
  <2>2. IBase'
    BY <2>1, NextBase
  <2>. QED
    BY <2>1, <2>2, NextGroups
<1>. QED
  BY <1>1, <1>2, PTL DEF Spec
-----------------------------------------------------------------------------
(* What the invariant says between two calls.                              *)

\* The invariant implies the types,
LEMMA BaseType ==
  ASSUME IBase, IGroups
  PROVE  TypeOK
<1>1. /\ kind \in Kinds /\ buckets \in Memories /\ stored \in [Nodes -> Nat \cup {Junk}]
      /\ hashing \in Hashings /\ tab \in [Tables -> Recs] /\ members \in [Tables -> SUBSET Nodes]
      /\ linked = UNION {members[t] : t \in Tables}
      /\ group \in [Nodes -> Memory]
  BY DEF IBase, Types, Exclusive, Memories, IGroups, WholeBut
<1>2. \A a \in Arrays, i \in indices : buckets[a][i] \in Seq(Memory)
  BY <1>1 DEF Memories
<1>3. group \in [Nodes -> Memory] /\ linked \subseteq Nodes
  BY <1>1 DEF Memory
<1>4. ASSUME NEW t \in Tables
      PROVE  /\ tab[t].array \in Arrays /\ tab[t].count \in Counts
             /\ tab[t].split \in (tab[t].count \div 2)..tab[t].count
             /\ tab[t].cache \in 0..tab[t].count
             /\ tab[t].size \in 0..Cardinality(Nodes)
  <2>1. PICK T : T = tab[t]
    OBVIOUS
  <2>2. PICK M : M = members[t]
    OBVIOUS
  <2>3. T \in Recs /\ M \in SUBSET Nodes /\ T.array \in Arrays /\ T.count \in Counts
        /\ T.count \in Nat /\ T.split \in Nat /\ T.cache \in Nat /\ T.size \in Nat
    BY <1>1, <2>1, <2>2, RecIs
  <2>4. IsFiniteSet(M) /\ Cardinality(M) \in Nat /\ Cardinality(Nodes) \in Nat
        /\ Cardinality(M) <= Cardinality(Nodes)
    BY <2>3, ElementAssumption, FS_Subset, FS_CardinalityType
  <2>5. /\ Shaped(kind, T) /\ T.cache <= T.count
        /\ T.size = 0 \/ T.size = Cardinality(M)
    <3>1. CASE ~Busy(call, t)
      <4>1. Quiet(kind, buckets, T, M, stored, hashing)
        BY <2>1, <2>2, <3>1 DEF IBase
      <4>2. Shaped(kind, T) /\ Cached(kind, buckets, T) /\ Sized(kind, T.size, M)
        BY <4>1 DEF Quiet
      <4>3. T.cache <= T.count
        BY <2>3, <4>2 DEF Cached, IsFirst
      <4>. QED
        BY <4>2, <4>3 DEF Sized
    <3>2. CASE Busy(call, t) /\ call.op = "rehash"
      <4>1. Rehashing(kind, buckets, T, M, stored, hashing, call)
        BY <2>1, <2>2, <3>2 DEF IBase, Busy, None
      <4>2. Shaped(kind, T) /\ (T.cache = IF kind.cache THEN T.count ELSE 0) /\ T.size = 0
        BY <4>1 DEF Rehashing
      <4>3. T.cache <= T.count
        BY <2>3, <4>2
      <4>. QED
        BY <4>2, <4>3
    <3>3. CASE Busy(call, t) /\ call.op = "grow"
      <4>1. Growing(kind, buckets, T, M, stored, hashing, call)
        BY <2>1, <2>2, <3>3 DEF IBase, Busy, None
      <4>2. /\ Shaped(kind, T) /\ Sized(kind, T.size, M)
            /\ IF kind.cache THEN T.cache <= T.count ELSE T.cache = 0
        BY <4>1 DEF Growing
      <4>3. T.cache <= T.count
        BY <2>3, <4>2
      <4>. QED
        BY <4>2, <4>3 DEF Sized
    <3>. QED
      BY <3>1, <3>2, <3>3 DEF Busy
  <2>6. T.split \in (T.count \div 2)..T.count
    BY <2>3, <2>5 DEF Shaped
  <2>7. T.cache \in 0..T.count /\ T.size \in 0..Cardinality(Nodes)
    BY <2>3, <2>4, <2>5
  <2>. QED
    BY <2>1, <2>3, <2>6, <2>7
<1>. QED
  BY <1>1, <1>2, <1>3, <1>4 DEF TypeOK

\* that the tables hold what was put into them,
LEMMA BaseRepresented ==
  ASSUME IBase
  PROVE  Represented
<1> SUFFICES ASSUME idle
             PROVE  Represented
  BY DEF Represented
<1>1. Resting
  BY IdleIs
<1>2. \A t \in Tables : \A i \in used(t) : ElementsAt(t, i) = Elems(buckets[tab[t].array][i])
  BY DEF ElementsAt, bucket, Elems
<1>3. ASSUME NEW t \in Tables
      PROVE  /\ members[t] = UNION {ElementsAt(t, i) : i \in used(t)}
             /\ \A i \in used(t) :
                  /\ Cardinality(ElementsAt(t, i)) = Len(bucket(t, i))
                  /\ \A n \in ElementsAt(t, i) : /\ home(t, Key[n]) = i
                                                 /\ kind.store => stored[n] = hashing[Key[n]]
  <2>1. PICK T : T = tab[t]
    OBVIOUS
  <2>2. PICK M : M = members[t]
    OBVIOUS
  <2>3. /\ kind \in Kinds /\ buckets \in Memories /\ T \in Recs /\ M \in SUBSET Nodes
        /\ Quiet(kind, buckets, T, M, stored, hashing)
    BY <1>1, <2>1, <2>2, RestingIs
  <2>4. /\ IsFiniteSet(M) /\ Cardinality(M) \in Nat
        /\ kind.cache => IsFirst(buckets, T.array, T.count, T.cache)
        /\ \A i \in 0..(T.count - 1) : /\ i \in indices
                                       /\ buckets[T.array][i] \in Seq(Nodes)
                                       /\ Distinct(buckets[T.array][i])
                                       /\ Elems(buckets[T.array][i]) \subseteq M
                                       /\ buckets[T.array][i] = <<>>
                                            <=> Elems(buckets[T.array][i]) = {}
        /\ \A n \in M : \E i \in 0..(T.count - 1) : n \in Elems(buckets[T.array][i])
        /\ \A i \in indices, n \in Nodes :
             n \in Elems(buckets[T.array][i]) =>
               n \in M /\ i = Home(kind, T, hashing, n) /\ i \in 0..(T.count - 1)
    BY <2>3, QuietIs, Zenon
  <2>5. Hashed(kind, M, stored, hashing)
    BY <2>3 DEF Quiet
  <2>6. used(t) = 0..(T.count - 1)
    BY <2>1 DEF used
  <2>7. M = UNION {Elems(buckets[T.array][i]) : i \in used(t)}
    BY <2>4, <2>6
  <2>8. ASSUME NEW i \in used(t)
        PROVE  /\ Cardinality(ElementsAt(t, i)) = Len(bucket(t, i))
               /\ \A n \in ElementsAt(t, i) : /\ home(t, Key[n]) = i
                                              /\ kind.store => stored[n] = hashing[Key[n]]
    <3>1. PICK b : b = buckets[T.array][i]
      OBVIOUS
    <3>2. b \in Seq(Nodes) /\ Distinct(b) /\ Elems(b) \subseteq M /\ i \in indices
      BY <2>4, <2>6, <3>1
    <3>3. Cardinality(Elems(b)) = Len(b)
      BY <3>2, ElemsCount
    <3>4. ElementsAt(t, i) = Elems(b) /\ bucket(t, i) = b
      BY <1>2, <2>1, <3>1 DEF bucket
    <3>5. ASSUME NEW n \in Elems(b)
          PROVE  home(t, Key[n]) = i /\ (kind.store => stored[n] = hashing[Key[n]])
      <4>1. n \in M /\ n \in Nodes
        BY <2>3, <3>2
      <4>2. i = Home(kind, T, hashing, n)
        BY <2>4, <3>1, <3>2, <4>1
      <4>3. home(t, Key[n]) = Home(kind, T, hashing, n)
        BY <2>1, <4>1, HashIsHome DEF home
      <4>. QED
        BY <2>5, <4>1, <4>2, <4>3 DEF Hashed
    <3>. QED
      BY <3>3, <3>4, <3>5
  <2>9. UNION {ElementsAt(t, i) : i \in used(t)} = UNION {Elems(buckets[T.array][i]) : i \in used(t)}
    BY <1>2, <2>1
  <2>. QED
    BY <2>2, <2>7, <2>8, <2>9
<1>. QED
  BY <1>3 DEF Represented

\* that the cached bucket is the first one in use,
LEMMA BaseCache ==
  ASSUME IBase
  PROVE  CacheIsFirst
<1> SUFFICES ASSUME idle, kind.cache, NEW t \in Tables
             PROVE  tab[t].cache = first_used(buckets, tab[t], 0)
  BY DEF CacheIsFirst
<1>1. PICK T : T = tab[t]
  OBVIOUS
<1>2. Resting
  BY IdleIs
<1>3. T \in Recs /\ Quiet(kind, buckets, T, members[t], stored, hashing)
  BY <1>1, <1>2, RestingIs
<1>4. PICK c : c = T.count
  OBVIOUS
<1>5. PICK i : i = T.cache
  OBVIOUS
<1>6. PICK j : j = first_used(buckets, T, 0)
  OBVIOUS
<1>7. PICK B : B = buckets[T.array]
  OBVIOUS
<1>8. i \in 0..c /\ (i < c => B[i] # <<>>) /\ (\A k \in 0..(i - 1) : B[k] = <<>>)
  BY <1>3, <1>4, <1>5, <1>7 DEF Quiet, Cached, IsFirst
<1>9. c \in Nat /\ 0 \in 0..T.count
  BY <1>3, <1>4, RecIs
<1>10. j \in 0..c /\ (j < c => B[j] # <<>>) /\ (\A k \in 0..(j - 1) : B[k] = <<>>)
  BY <1>3, <1>4, <1>6, <1>7, <1>9, FirstUsed, Zenon
<1>11. i = j
  <2>1. ~(i < j)
    <3> SUFFICES ASSUME i < j
                 PROVE  FALSE
      OBVIOUS
    <3>1. i < c /\ i \in 0..(j - 1)
      BY <1>8, <1>9, <1>10
    <3>. QED
      BY <1>8, <1>10, <3>1
  <2>2. ~(j < i)
    <3> SUFFICES ASSUME j < i
                 PROVE  FALSE
      OBVIOUS
    <3>1. j < c /\ j \in 0..(i - 1)
      BY <1>8, <1>9, <1>10
    <3>. QED
      BY <1>8, <1>10, <3>1
  <2>. QED
    BY <1>8, <1>9, <1>10, <2>1, <2>2
<1>. QED
  BY <1>1, <1>5, <1>6, <1>11

\* and that sizes and hooks agree with the members.
LEMMA BaseSizes ==
  ASSUME IBase
  PROVE  SizeAndHooks
<1> SUFFICES ASSUME idle
             PROVE  SizeAndHooks
  BY DEF SizeAndHooks
<1>1. Resting /\ linked = UNION {members[t] : t \in Tables}
  BY IdleIs DEF Resting, Rest
<1>2. ASSUME NEW t \in Tables
      PROVE  /\ kind.counted => tab[t].size = Cardinality(members[t])
             /\ empty(t) <=> members[t] = {}
  <2>1. PICK T : T = tab[t]
    OBVIOUS
  <2>2. PICK M : M = members[t]
    OBVIOUS
  <2>3. /\ kind \in Kinds /\ buckets \in Memories /\ T \in Recs /\ M \in SUBSET Nodes
        /\ Quiet(kind, buckets, T, M, stored, hashing)
    BY <1>1, <2>1, <2>2, RestingIs
  <2>4. /\ IsFiniteSet(M) /\ Cardinality(M) \in Nat
        /\ kind.cache => IsFirst(buckets, T.array, T.count, T.cache)
        /\ \A i \in 0..(T.count - 1) : /\ i \in indices
                                       /\ buckets[T.array][i] \in Seq(Nodes)
                                       /\ Distinct(buckets[T.array][i])
                                       /\ Elems(buckets[T.array][i]) \subseteq M
                                       /\ buckets[T.array][i] = <<>>
                                            <=> Elems(buckets[T.array][i]) = {}
        /\ \A n \in M : \E i \in 0..(T.count - 1) : n \in Elems(buckets[T.array][i])
        /\ \A i \in indices, n \in Nodes :
             n \in Elems(buckets[T.array][i]) =>
               n \in M /\ i = Home(kind, T, hashing, n) /\ i \in 0..(T.count - 1)
    BY <2>3, QuietIs, Zenon
  <2>5. kind.counted => T.size = Cardinality(M)
    BY <2>3 DEF Quiet, Sized
  <2>6. Cardinality(M) = 0 <=> M = {}
    BY <2>4, FS_EmptySet
  <2>7. CASE kind.counted
    <3>1. empty(t) <=> T.size = 0
      BY <2>1, <2>7 DEF empty
    <3>. QED
      BY <2>1, <2>2, <2>5, <2>6, <2>7, <3>1
  <2>8. CASE ~kind.counted /\ kind.cache
    <3>1. empty(t) <=> elements(t) = <<>>
      BY <2>8 DEF empty
    <3>2. elements(t) \in Seq(Nodes) /\ Elems(elements(t)) = M
      BY <1>1, <2>2, ElementsAre
    <3>3. elements(t) = <<>> <=> Elems(elements(t)) = {}
      BY <3>2, ElemsOfSeq
    <3>. QED
      BY <2>2, <2>8, <3>1, <3>2, <3>3
  <2>9. CASE ~kind.counted /\ ~kind.cache
    <3>1. empty(t) <=> \A i \in used(t) : bucket(t, i) = <<>>
      BY <2>9 DEF empty
    <3>2. (\A i \in used(t) : bucket(t, i) = <<>>)
            <=> \A i \in 0..(T.count - 1) : buckets[T.array][i] = <<>>
      BY <2>1 DEF used, bucket
    <3>3. (\A i \in 0..(T.count - 1) : Elems(buckets[T.array][i]) = {}) <=> M = {}
      BY <2>4, Zenon
    <3>. QED
      BY <2>2, <2>4, <2>9, <3>1, <3>2, <3>3, Zenon
  <2>. QED
    BY <2>7, <2>8, <2>9
<1>. QED
  BY <1>1, <1>2 DEF SizeAndHooks

(* The state keeps its shape: the records of the *)
(* tables, in particular their counts of buckets, stay within their bounds. *)
THEOREM HashTypes == Spec => []TypeOK
<1>1. HashInvariant => TypeOK
  BY BaseType DEF HashInvariant
<1>. QED
  BY <1>1, HashInductive, PTL

(* Between two calls the buckets of a table hold the elements put into it,  *)
(* each once, in the bucket where a search looks for its key, and with the  *)
(* hash of its key.  After an exception in a structural clone this is said  *)
(* of the rollbacks that stay inside the array of the table and empty no    *)
(* bucket whose clones are counted or cached (structural_rollback).         *)
THEOREM HashRepresented == Spec => []Represented
<1>1. HashInvariant => Represented
  BY BaseRepresented DEF HashInvariant
<1>. QED
  BY <1>1, HashInductive, PTL

(* The cached bucket is the first one with an element after every call and  *)
(* every exception but the rollbacks that empty it (forgets_clones).        *)
THEOREM HashCache == Spec => []CacheIsFirst
<1>1. HashInvariant => CacheIsFirst
  BY BaseCache DEF HashInvariant
<1>. QED
  BY <1>1, HashInductive, PTL

(* size() and empty() tell how many elements there are, and is_linked() of  *)
(* an element whether it is in a table, after an exception as well; in a    *)
(* structural clone of the rollbacks that structural_rollback allows.       *)
THEOREM HashSizes == Spec => []SizeAndHooks
<1>1. HashInvariant => SizeAndHooks
  BY BaseSizes DEF HashInvariant
<1>. QED
  BY <1>1, HashInductive, PTL

(* Iteration from begin() to end() meets every element of a table once.    *)
IterationFinds ==
  idle => \A t \in Tables : /\ {elements(t)[x] : x \in DOMAIN elements(t)} = members[t]
                            /\ Len(elements(t)) = Cardinality(members[t])

(* Iteration finds what was put into a table,    *)
(* whatever the cached bucket was before the last calls.                    *)
THEOREM HashIteration == Spec => []IterationFinds
<1>1. HashInvariant => IterationFinds
  <2> SUFFICES ASSUME HashInvariant, idle, NEW t \in Tables
               PROVE  /\ {elements(t)[x] : x \in DOMAIN elements(t)} = members[t]
                      /\ Len(elements(t)) = Cardinality(members[t])
    BY DEF IterationFinds
  <2>1. Resting
    BY IdleIs DEF HashInvariant
  <2>. QED
    BY <2>1, ElementsAre DEF Elems
<1>. QED
  BY <1>1, HashInductive, PTL
-----------------------------------------------------------------------------
(* The groups between two calls.                                           *)

\* A bucket whose equal elements are together, with their links, has whole groups.
LEMMA GroupedIsWhole ==
  ASSUME NEW b \in Seq(Nodes), Grouped(kind, group, b)
  PROVE  whole_groups(b)
<1>1. Together(b) /\ (kind.multi => Ringed(group, b)) /\ Len(b) \in Nat /\ DOMAIN b = 1..Len(b)
  BY ElemsOfSeq DEF Grouped
<1>2. StartSet(b, Starts(b))
  BY <1>1 DEF StartSet, Starts
<1>3. ASSUME NEW x \in DOMAIN b
      PROVE  \E f, l \in DOMAIN b :
               /\ run(b, x) = f..l
               /\ kind.multi => group[b[x]] = b[IF x = f THEN l ELSE x - 1]
  <2>1. PICK f \in DOMAIN b : BeginsAt(Starts(b), x, f)
    BY <1>2, BeginExists
  <2>2. PICK l \in DOMAIN b : LastOf(b, x, l)
    BY <1>1, LastExists
  <2>3. /\ f \in Nat /\ l \in Nat /\ x \in Nat /\ f <= x /\ x <= l
        /\ f \in Starts(b) /\ \A z \in (f + 1)..x : z \notin Starts(b)
        /\ Key[b[l]] = Key[b[x]]
        /\ l + 1 \in DOMAIN b => Key[b[l + 1]] # Key[b[x]]
    BY <1>1, <2>1, <2>2 DEF BeginsAt, LastOf
  <2>4. \A z \in f..x : Key[b[z]] = Key[b[f]]
    BY <2>3, RunIs
  <2>5. Key[b[f]] = Key[b[x]]
    BY <2>3, <2>4
  <2>6. ASSUME NEW y \in f..l
        PROVE  y \in DOMAIN b /\ Key[b[y]] = Key[b[x]]
    <3>1. y \in DOMAIN b
      BY <1>1, <2>3
    <3>2. CASE y <= x
      BY <2>3, <2>4, <2>5, <3>1, <3>2
    <3>3. CASE ~(y <= x)
      <4>1. x <= y /\ y <= l
        BY <2>3, <3>3
      <4>. QED
        BY <1>1, <2>3, <3>1, <4>1, Zenon DEF Together
    <3>. QED
      BY <3>1, <3>2, <3>3
  <2>7. ASSUME NEW y \in DOMAIN b, Key[b[y]] = Key[b[x]]
        PROVE  y \in f..l
    <3>1. ASSUME y < f
          PROVE  FALSE
      <4>1. f - 1 \in DOMAIN b /\ y <= f - 1 /\ f - 1 <= x /\ f > 1
        BY <1>1, <2>3, <3>1
      <4>2. Key[b[f - 1]] = Key[b[y]]
        BY <1>1, <2>7, <4>1, Zenon DEF Together
      <4>. QED
        BY <2>3, <2>5, <2>7, <4>1, <4>2 DEF Starts
    <3>2. ASSUME l < y
          PROVE  FALSE
      <4>1. l + 1 \in DOMAIN b /\ x <= l + 1 /\ l + 1 <= y
        BY <1>1, <2>3, <3>2
      <4>2. Key[b[l + 1]] = Key[b[x]]
        BY <1>1, <2>7, <4>1, Zenon DEF Together
      <4>. QED
        BY <2>3, <4>1, <4>2
    <3>. QED
      BY <1>1, <2>3, <3>1, <3>2
  <2>8. run(b, x) = f..l
    BY <2>6, <2>7 DEF run
  <2>9. ASSUME kind.multi
        PROVE  group[b[x]] = b[IF x = f THEN l ELSE x - 1]
    <3>1. RingIn(group, b, x)
      BY <1>1, <2>9 DEF Ringed
    <3>2. x \in Starts(b) <=> x = f
      BY <2>3
    <3>3. CASE x = f
      BY <2>2, <3>1, <3>2, <3>3 DEF RingIn
    <3>4. CASE x # f
      BY <3>1, <3>2, <3>4 DEF RingIn
    <3>. QED
      BY <3>3, <3>4
  <2>. QED
    BY <2>8, <2>9
<1>. QED
  BY <1>3 DEF whole_groups

\* What the invariant says of a bucket between two calls.
LEMMA BucketIsGrouped ==
  ASSUME IBase, IGroups, idle, NEW t \in Tables, NEW i \in used(t)
  PROVE  /\ bucket(t, i) \in Seq(Nodes) /\ Distinct(bucket(t, i))
         /\ Grouped(kind, group, bucket(t, i))
<1>1. i \in 0..(tab[t].count - 1)
  BY DEF used
<1>2. /\ tab[t].array \in Arrays /\ i \in indices
      /\ bucket(t, i) = buckets[tab[t].array][i]
      /\ bucket(t, i) \in Seq(Nodes) /\ Distinct(bucket(t, i)) /\ Together(bucket(t, i))
      /\ kind.multi => Ringed(group, bucket(t, i))
      /\ group \in [Nodes -> Memory]
      /\ Apart(buckets) /\ Lists(buckets, linked)
      /\ buckets \in Memories /\ call = None /\ kind \in Kinds
  BY <1>1, InUse
<1>. QED
  BY <1>2 DEF Grouped

(* Between two calls equal elements stand side by side, and with            *)
(* optimize_multikey the group links lead through each of their groups and  *)
(* back to its end, whatever was inserted, erased, rehashed or cloned.      *)
THEOREM HashGroups == Spec => []GroupsAreWhole
<1>1. HashInvariant => GroupsAreWhole
  <2> SUFFICES ASSUME HashInvariant, idle, NEW t \in Tables, NEW i \in used(t)
               PROVE  whole_groups(bucket(t, i))
    BY DEF GroupsAreWhole
  <2>. QED
    BY BucketIsGrouped, GroupedIsWhole DEF HashInvariant
<1>. QED
  BY <1>1, HashInductive, PTL
-----------------------------------------------------------------------------
(* Searches between two calls.                                             *)

\* Positions p to q - 1 of b in the sequence s, and what follows them there.
Spans(s, u, b, r, p, q, e) ==
  /\ u \in Seq(Nodes) /\ b \in Seq(Nodes) /\ r \in Seq(Nodes) /\ s = u \o (b \o r) /\ Distinct(s)
  /\ p \in 1..Len(b) /\ q \in (p + 1)..(Len(b) + 1)
  /\ e = IF q <= Len(b) THEN b[q] ELSE IF r = <<>> THEN End ELSE r[1]

\* A stretch of s is what stands there.
LEMMA StretchIs ==
  ASSUME NEW s, NEW u, NEW b, NEW r, NEW p, NEW q, NEW e, Spans(s, u, b, r, p, q, e)
  PROVE  stretch(s, b[p], e) = {b[x] : x \in p..(q - 1)}
<1>1. /\ u \in Seq(Nodes) /\ b \in Seq(Nodes) /\ r \in Seq(Nodes) /\ s = u \o (b \o r)
      /\ Distinct(s) /\ p \in 1..Len(b) /\ q \in (p + 1)..(Len(b) + 1)
      /\ e = IF q <= Len(b) THEN b[q] ELSE IF r = <<>> THEN End ELSE r[1]
  BY DEF Spans
<1>2. PICK d : d = b \o r
  BY Zenon
<1>3. JoinOf(d, b, r) /\ JoinOf(s, u, d)
  <2>1. JoinOf(b \o r, b, r)
    BY <1>1, JoinIsJoin, Zenon
  <2>2. d \in Seq(Nodes)
    BY <1>2, <2>1, Zenon DEF JoinOf
  <2>3. JoinOf(u \o d, u, d)
    BY <1>1, <2>2, JoinIsJoin, Zenon
  <2>. QED
    BY <1>1, <1>2, <2>1, <2>3
<1>4. PICK k : k = Len(u)
  OBVIOUS
<1>5. PICK m : m = Len(b)
  OBVIOUS
<1>6. PICK l : l = Len(r)
  OBVIOUS
<1>7. /\ k \in Nat /\ m \in Nat /\ l \in Nat /\ p \in 1..m /\ q \in (p + 1)..(m + 1)
      /\ Len(s) = k + m + l /\ DOMAIN s = 1..Len(s) /\ s \in Seq(Nodes)
      /\ (r = <<>>) <=> (l = 0)
  BY <1>1, <1>3, <1>4, <1>5, <1>6, ElemsOfSeq DEF JoinOf
<1>8. \A x \in 1..m : s[k + x] = b[x]
  <2> SUFFICES ASSUME NEW x \in 1..m
               PROVE  s[k + x] = b[x]
    OBVIOUS
  <2>1. k + x \in 1..Len(s) /\ ~(k + x <= k) /\ (k + x) - k = x
    BY <1>7
  <2>2. s[k + x] = d[x]
    BY <1>3, <1>4, <2>1 DEF JoinOf
  <2>3. x \in 1..Len(d) /\ x <= Len(b)
    BY <1>3, <1>5, <1>6, <1>7 DEF JoinOf
  <2>. QED
    BY <1>3, <2>2, <2>3 DEF JoinOf
<1>9. l > 0 => s[k + m + 1] = r[1]
  <2> SUFFICES ASSUME l > 0
               PROVE  s[k + m + 1] = r[1]
    OBVIOUS
  <2>1. k + m + 1 \in 1..Len(s) /\ ~(k + m + 1 <= k) /\ (k + m + 1) - k = m + 1
    BY <1>7
  <2>2. s[k + m + 1] = d[m + 1]
    BY <1>3, <1>4, <2>1 DEF JoinOf
  <2>3. m + 1 \in 1..Len(d) /\ ~(m + 1 <= Len(b)) /\ (m + 1) - Len(b) = 1
    BY <1>3, <1>5, <1>6, <1>7 DEF JoinOf
  <2>. QED
    BY <1>3, <2>2, <2>3 DEF JoinOf
<1>10. \A x, y \in DOMAIN s : s[x] = s[y] => x = y
  BY <1>1 DEF Distinct
<1>11. k + p \in DOMAIN s /\ s[k + p] = b[p]
  BY <1>7, <1>8
<1>12. ASSUME NEW y \in DOMAIN s
       PROVE  (\E z \in 1..y : s[z] = b[p]) <=> k + p <= y
  <2>1. 1..y \subseteq DOMAIN s /\ (k + p <= y => k + p \in 1..y)
    BY <1>7
  <2>. QED
    BY <1>7, <1>10, <1>11, <2>1
<1>13. ASSUME k + q \in DOMAIN s
       PROVE  s[k + q] = e
  <2>1. CASE q <= m
    <3>1. q \in 1..m
      BY <1>7, <2>1
    <3>. QED
      BY <1>1, <1>5, <1>8, <2>1, <3>1
  <2>2. CASE ~(q <= m)
    <3>1. q = m + 1 /\ l > 0
      BY <1>7, <1>13, <2>2
    <3>. QED
      BY <1>1, <1>5, <1>7, <1>9, <2>2, <3>1
  <2>. QED
    BY <2>1, <2>2
<1>14. ASSUME k + q \notin DOMAIN s
       PROVE  q = m + 1 /\ l = 0 /\ e = End
  <2>1. q = m + 1 /\ l = 0
    BY <1>7, <1>14
  <2>. QED
    BY <1>1, <1>5, <1>7, <2>1
<1>15. \A z \in DOMAIN s : s[z] # End
  <2>1. \A z \in DOMAIN s : s[z] \in Nodes
    BY <1>7
  <2>. QED
    BY <2>1, ElementAssumption
<1>16. ASSUME NEW y \in DOMAIN s
       PROVE  (\E z \in 1..y : s[z] = e) <=> k + q <= y
  <2>1. 1..y \subseteq DOMAIN s
    BY <1>7
  <2>2. CASE k + q \in DOMAIN s
    <3>1. k + q <= y => k + q \in 1..y
      BY <1>7, <2>2
    <3>. QED
      BY <1>7, <1>10, <1>13, <2>1, <2>2, <3>1
  <2>3. CASE k + q \notin DOMAIN s
    <3>1. ~(k + q <= y)
      BY <1>7, <1>14, <2>3
    <3>2. ~\E z \in 1..y : s[z] = e
      BY <1>14, <1>15, <2>1, <2>3
    <3>. QED
      BY <3>1, <3>2
  <2>. QED
    BY <2>2, <2>3
<1>17. stretch(s, b[p], e) = {s[y] : y \in {z \in DOMAIN s : k + p <= z /\ ~(k + q <= z)}}
  BY <1>12, <1>16 DEF stretch
<1>18. ASSUME NEW n
       PROVE  n \in {s[y] : y \in {z \in DOMAIN s : k + p <= z /\ ~(k + q <= z)}}
                <=> n \in {b[x] : x \in p..(q - 1)}
  <2>1. ASSUME NEW y \in DOMAIN s, k + p <= y, ~(k + q <= y), n = s[y]
        PROVE  n \in {b[x] : x \in p..(q - 1)}
    <3>1. PICK x : x = y - k
      OBVIOUS
    <3>2. x \in p..(q - 1) /\ x \in 1..m /\ k + x = y
      BY <1>7, <2>1, <3>1
    <3>. QED
      BY <1>8, <2>1, <3>2
  <2>2. ASSUME NEW x \in p..(q - 1), n = b[x]
        PROVE  n \in {s[y] : y \in {z \in DOMAIN s : k + p <= z /\ ~(k + q <= z)}}
    <3>1. x \in 1..m /\ k + x \in DOMAIN s /\ k + p <= k + x /\ ~(k + q <= k + x)
      BY <1>7
    <3>2. n = s[k + x]
      BY <1>8, <2>2, <3>1
    <3>. QED
      BY <3>1, <3>2
  <2>. QED
    BY <2>1, <2>2
<1>. QED
  BY <1>17, <1>18

\* The elements of the buckets from i on end those of the buckets from k on.
EndsIn(B, f, i, k) ==
  /\ \E u \in Seq(Nodes) : f[k] = u \o f[i]
  /\ (\A j \in k..(i - 1) : B[j] = <<>>) => f[k] = f[i]

\* The elements of the buckets from i on are the end of those from an earlier one on.
LEMMA JoinedSuffix ==
  ASSUME NEW B, NEW c, Buckets(B, c), NEW f, Joined(B, c, f, 0),
         NEW i \in 0..c, NEW first \in 0..i
  PROVE  EndsIn(B, f, i, first)
<1>0. c \in Nat
  BY DEF Buckets
<1>1. f = [k \in 0..c |-> IF k = c THEN <<>> ELSE B[k] \o f[k + 1]]
  BY Zenon DEF Joined
<1>2. \A k \in 0..c : f[k] \in Seq(Nodes)
  BY JoinedIs, Zenon DEF JoinsAll
<1> DEFINE P == {k \in Nat : k <= i => EndsIn(B, f, i, i - k)}
<1>3. 0 \in P
  <2>1. i - 0 = i /\ <<>> \in Seq(Nodes)
    BY <1>0
  <2>2. f[i] = <<>> \o f[i]
    BY <1>2, ConcatEmptySeq, Zenon
  <2>3. EndsIn(B, f, i, i)
    BY <2>1, <2>2, Zenon DEF EndsIn
  <2>. QED
    BY <2>1, <2>3
<1>4. ASSUME NEW k \in P
      PROVE  k + 1 \in P
  <2> SUFFICES ASSUME k + 1 <= i
               PROVE  EndsIn(B, f, i, i - (k + 1))
    OBVIOUS
  <2>1. PICK j \in Nat : j = i - (k + 1)
    BY <1>0
  <2>2. /\ j + 1 = i - k /\ k \in Nat /\ k <= i /\ j \in 0..(c - 1) /\ j \in 0..c
        /\ j + 1 \in 0..c /\ j # c /\ j \in j..(i - 1) /\ (j + 1)..(i - 1) \subseteq j..(i - 1)
    BY <1>0, <2>1
  <2>3. EndsIn(B, f, i, j + 1)
    BY <2>2
  <2>4. PICK u \in Seq(Nodes) : f[j + 1] = u \o f[i]
    BY <2>3 DEF EndsIn
  <2>5. (\A x \in (j + 1)..(i - 1) : B[x] = <<>>) => f[j + 1] = f[i]
    BY <2>3 DEF EndsIn
  <2> HIDE DEF P
  <2>6. f[j] = B[j] \o f[j + 1]
    BY <1>1, <2>2, Zenon
  <2>7. B[j] \in Seq(Nodes)
    BY <2>2 DEF Buckets
  <2>8. B[j] \o u \in Seq(Nodes) /\ B[j] \o (u \o f[i]) = (B[j] \o u) \o f[i]
    <3>1. f[i] \in Seq(Nodes)
      BY <1>2
    <3>2. PICK a : a = B[j]
      OBVIOUS
    <3>3. PICK d : d = f[i]
      OBVIOUS
    <3>4. a \in Seq(Nodes) /\ d \in Seq(Nodes) /\ u \in Seq(Nodes)
      BY <2>7, <3>1, <3>2, <3>3
    <3>5. a \o u \in Seq(Nodes)
      BY <3>4, ConcatProperties, Zenon
    <3>6. (a \o u) \o d = a \o (u \o d)
      BY <3>4, ConcatAssociative, SMTT(15)
    <3>. QED
      BY <3>2, <3>3, <3>5, <3>6, Zenon
  <2>9. f[j] = (B[j] \o u) \o f[i]
    BY <2>4, <2>6, <2>8, Zenon
  <2>10. ASSUME \A x \in j..(i - 1) : B[x] = <<>>
         PROVE  f[j] = f[i]
    <3>1. B[j] = <<>> /\ f[j + 1] = f[i]
      BY <2>2, <2>5, <2>10
    <3>2. f[j] = <<>> \o f[i]
      BY <2>6, <3>1, Zenon
    <3>3. f[i] \in Seq(Nodes)
      BY <1>2
    <3>4. <<>> \o f[i] = f[i]
      BY <3>3, ConcatEmptySeq, Zenon
    <3>. QED
      BY <3>2, <3>4, Zenon
  <2>11. EndsIn(B, f, i, j)
    BY <2>8, <2>9, <2>10, Zenon DEF EndsIn
  <2>. QED
    BY <2>1, <2>11
<1> HIDE DEF P
<1>5. P = Nat
  <2>1. P \in SUBSET Nat
    BY DEF P
  <2>. QED
    BY <1>3, <1>4, <2>1, SetInduction
<1>6. PICK k \in Nat : k = i - first
  BY <1>0
<1>7. k \in P /\ k <= i /\ i - k = first
  BY <1>0, <1>5, <1>6
<1>. QED
  BY <1>7 DEF P

\* A search for a key in the table t: its bucket i, with the elements b, and where
\* priv_find ends in it.
Looks(t, key, T, M, i, b, p) ==
  /\ kind \in Kinds /\ t \in Tables /\ T = tab[t] /\ T \in Recs /\ M = members[t]
  /\ M \in SUBSET Nodes
  /\ i = home(t, key) /\ i \in 0..(T.count - 1) /\ b = bucket(t, i) /\ p = priv_find(b, key, hashing[key])
  /\ b \in Seq(Nodes) /\ Distinct(b) /\ Grouped(kind, group, b)
  /\ \A n \in Nodes : n \in M /\ Key[n] = key <=> n \in Elems(b) /\ Key[n] = key
  /\ Hashed(kind, M, stored, hashing)

\* Where a search for a key looks in a table at rest.
LEMMA SearchLooks ==
  ASSUME IBase, IGroups, idle, NEW t \in Tables, NEW key \in Keys
  PROVE  \E T, M, i, b, p : Looks(t, key, T, M, i, b, p)
<1>1. Resting
  BY IdleIs
<1>2. PICK T : T = tab[t]
  OBVIOUS
<1>3. PICK M : M = members[t]
  OBVIOUS
<1>4. /\ kind \in Kinds /\ buckets \in Memories /\ T \in Recs /\ M \in SUBSET Nodes
      /\ Quiet(kind, buckets, T, M, stored, hashing) /\ hashing \in Hashings
  BY <1>1, <1>2, <1>3, RestingIs DEF Resting
<1>5. PICK i : i = home(t, key)
  OBVIOUS
<1>6. PICK h \in Nat : h = hashing[key]
  BY <1>4, ElementAssumption
<1>7. i = hash_to_bucket_split(h, T.count, T.split, kind.incremental)
  BY <1>2, <1>5, <1>6 DEF home, priv_hash_to_nbucket
<1>8. i \in 0..(T.count - 1)
  <2>1. Shaped(kind, T) /\ T.count \in Nat /\ 1 <= T.count /\ T.split \in Nat
        /\ kind.incremental \in BOOLEAN
    BY <1>4, RecIs, KindIs DEF Quiet
  <2>2. PICK c : c = T.count
    OBVIOUS
  <2>3. PICK s : s = T.split
    OBVIOUS
  <2>4. PICK k : k = kind.incremental
    OBVIOUS
  <2>5. /\ c \in Nat /\ s \in Nat /\ c > 0 /\ k \in BOOLEAN
        /\ k => c = 2 * (c \div 2) /\ c \div 2 <= s /\ s <= c
    BY <2>1, <2>2, <2>3, <2>4 DEF Shaped
  <2>6. hash_to_bucket_split(h, c, s, k) \in 0..(c - 1)
    BY <2>5, SplitIn
  <2>. QED
    BY <1>7, <2>2, <2>3, <2>4, <2>6
<1>9. PICK b : b = bucket(t, i)
  OBVIOUS
<1>10. b \in Seq(Nodes) /\ Distinct(b) /\ Grouped(kind, group, b)
  BY <1>2, <1>8, <1>9, BucketIsGrouped DEF used
<1>11. /\ Elems(b) \subseteq M
       /\ \A n \in M : \E j \in 0..(T.count - 1) : n \in Elems(buckets[T.array][j])
       /\ \A j \in indices, n \in Nodes :
            n \in Elems(buckets[T.array][j]) => j = Home(kind, T, hashing, n)
       /\ \A j \in 0..(T.count - 1) : j \in indices
  <2>1. /\ IsFiniteSet(M) /\ Cardinality(M) \in Nat
        /\ kind.cache => IsFirst(buckets, T.array, T.count, T.cache)
        /\ \A j \in 0..(T.count - 1) : /\ j \in indices
                                       /\ buckets[T.array][j] \in Seq(Nodes)
                                       /\ Distinct(buckets[T.array][j])
                                       /\ Elems(buckets[T.array][j]) \subseteq M
                                       /\ buckets[T.array][j] = <<>>
                                            <=> Elems(buckets[T.array][j]) = {}
        /\ \A n \in M : \E j \in 0..(T.count - 1) : n \in Elems(buckets[T.array][j])
        /\ \A j \in indices, n \in Nodes :
             n \in Elems(buckets[T.array][j]) =>
               n \in M /\ j = Home(kind, T, hashing, n) /\ j \in 0..(T.count - 1)
    BY <1>4, QuietIs, Zenon
  <2>2. b = buckets[T.array][i]
    BY <1>2, <1>9 DEF bucket
  <2>. QED
    BY <1>8, <2>1, <2>2
<1>12. ASSUME NEW n \in Nodes, Key[n] = key
       PROVE  n \in M <=> n \in Elems(b)
  <2>1. ASSUME n \in M
        PROVE  n \in Elems(b)
    <3>1. PICK j \in 0..(T.count - 1) : n \in Elems(buckets[T.array][j])
      BY <1>11, <2>1
    <3>2. j = Home(kind, T, hashing, n)
      BY <1>11, <3>1
    <3>3. i = Home(kind, T, hashing, n)
      BY <1>6, <1>7, <1>12 DEF Home
    <3>. QED
      BY <1>2, <1>9, <3>1, <3>2, <3>3 DEF bucket
  <2>. QED
    BY <1>11, <2>1
<1>13. Hashed(kind, M, stored, hashing)
  BY <1>4 DEF Quiet
<1>14. PICK p : p = priv_find(b, key, hashing[key])
  OBVIOUS
<1>15. Looks(t, key, T, M, i, b, p)
  BY <1>2, <1>3, <1>4, <1>5, <1>8, <1>9, <1>10, <1>12, <1>13, <1>14 DEF Looks
<1>. QED
  BY <1>15

\* What it finds.
LEMMA LooksFirst ==
  ASSUME NEW t, NEW key, NEW T, NEW M, NEW i, NEW b, NEW p, Looks(t, key, T, M, i, b, p)
  PROVE  /\ p = 0 => {n \in M : Key[n] = key} = {}
         /\ p # 0 => \E q : /\ q = past_equal(b, p, key, hashing[key])
                            /\ RangeOf(b, p, q, key)
                            /\ {n \in M : Key[n] = key} = {b[x] : x \in p..(q - 1)}
                            /\ Cardinality({n \in M : Key[n] = key}) = q - p
<1>1. /\ kind \in Kinds /\ M \in SUBSET Nodes /\ p = priv_find(b, key, hashing[key])
      /\ b \in Seq(Nodes) /\ Distinct(b) /\ Grouped(kind, group, b)
      /\ \A n \in Nodes : n \in M /\ Key[n] = key <=> n \in Elems(b) /\ Key[n] = key
      /\ Hashed(kind, M, stored, hashing)
  BY DEF Looks
<1>2. PICK h : h = hashing[key]
  OBVIOUS
<1>3. PICK E : E = {n \in M : Key[n] = key}
  OBVIOUS
<1>4. \A n : n \in E <=> \E x \in DOMAIN b : n = b[x] /\ Key[b[x]] = key
  <2>1. Elems(b) \subseteq Nodes
    BY <1>1, ElemsOfSeq
  <2>. QED
    BY <1>1, <1>3, <2>1 DEF Elems
<1>5. \A x \in DOMAIN b : Key[b[x]] = key => (kind.store => stored[b[x]] = h)
  BY <1>1, <1>2, <1>3, <1>4 DEF Hashed
<1>6. Searches(b, key, h, p)
  BY <1>1, <1>2, <1>5 DEF Searches
<1>7. /\ p \in 0..Len(b)
      /\ p = 0 => \A x \in DOMAIN b : Key[b[x]] # key
      /\ p # 0 => p \in Starts(b) /\ Key[b[p]] = key
  BY <1>6, SearchFirst
<1>8. p = 0 => E = {}
  BY <1>4, <1>7
<1>9. ASSUME p # 0
      PROVE  \E q : /\ q = past_equal(b, p, key, h)
                    /\ RangeOf(b, p, q, key)
                    /\ E = {b[x] : x \in p..(q - 1)}
                    /\ Cardinality(E) = q - p
  <2>1. PICK q : q = past_equal(b, p, key, h)
    OBVIOUS
  <2>2. EndsSearch(b, key, h, p, q)
    BY <1>1, <1>5, <1>7, <1>9, <2>1 DEF EndsSearch
  <2>3. RangeOf(b, p, q, key)
    BY <2>2, SearchEnd
  <2>4. /\ p \in 1..Len(b) /\ q \in (p + 1)..(Len(b) + 1)
        /\ \A x \in DOMAIN b : Key[b[x]] = key <=> p <= x /\ x < q
    BY <2>3 DEF RangeOf
  <2>5. Len(b) \in Nat /\ DOMAIN b = 1..Len(b)
    BY <1>1, ElemsOfSeq
  <2>6. \A x : x \in p..(q - 1) <=> x \in DOMAIN b /\ p <= x /\ x < q
    BY <2>4, <2>5
  <2>7. E = {b[x] : x \in p..(q - 1)}
    <3>1. ASSUME NEW n
          PROVE  n \in E <=> n \in {b[x] : x \in p..(q - 1)}
      BY <1>4, <2>4, <2>6, Zenon
    <3>. QED
      BY <3>1
  <2>8. Cardinality(E) = q - p
    <3>1. p \in Nat /\ q \in Nat /\ 1 <= p /\ p <= q /\ q <= Len(b) + 1
      BY <2>4, <2>5
    <3>2. Elems(Piece(b, p, q)) = Stretch(b, p, q) /\ Cardinality(Elems(Piece(b, p, q))) = q - p
      BY <1>1, <3>1, PieceElems
    <3>3. Stretch(b, p, q) = {b[x] : x \in p..(q - 1)}
      BY <2>6 DEF Stretch
    <3>. QED
      BY <2>7, <3>2, <3>3
  <2>. QED
    BY <2>1, <2>3, <2>7, <2>8
<1>. QED
  BY <1>2, <1>3, <1>8, <1>9

\* The range of a key that is not there is empty, also as a stretch of the table.
LEMMA NothingStretches ==
  ASSUME NEW s \in Seq(Nodes)
  PROVE  stretch(s, End, End) = {}
<1>1. \A z \in DOMAIN s : s[z] \in Nodes /\ DOMAIN s = 1..Len(s) /\ Len(s) \in Nat
  BY ElemsOfSeq DEF Elems
<1>2. \A y \in DOMAIN s : y \in 1..y /\ 1..y \subseteq DOMAIN s
  BY <1>1
<1>3. \A z \in DOMAIN s : s[z] # End
  BY <1>1, ElementAssumption
<1>4. \A y \in DOMAIN s : ~\E z \in 1..y : s[z] = End
  BY <1>2, <1>3
<1>. QED
  BY <1>4 DEF stretch

\* Where a range ends in the sequence of all elements.
LEMMA RangeSpans ==
  ASSUME Resting, NEW t, NEW key, NEW T, NEW M, NEW i, NEW b, NEW p, Looks(t, key, T, M, i, b, p),
         p # 0, NEW q, q = past_equal(b, p, key, hashing[key]), RangeOf(b, p, q, key)
  PROVE  \E u, r : /\ Spans(elements(t), u, b, r, p, q, priv_equal_range(t, key)[2])
                   /\ priv_equal_range(t, key)[1] = b[p]
<1>1. /\ t \in Tables /\ T = tab[t] /\ T \in Recs /\ i = home(t, key) /\ i \in 0..(T.count - 1)
      /\ b = bucket(t, i) /\ p = priv_find(b, key, hashing[key]) /\ b \in Seq(Nodes)
  BY DEF Looks
<1>2. PICK TT, MM, B, c, f, first : Iterated(t, TT, MM, B, c, f, first)
  BY <1>1, ElementsJoin
<1>3. /\ c = T.count /\ B = buckets[T.array] /\ c \in Nat
      /\ Buckets(B, c) /\ Joined(B, c, f, 0)
      /\ first \in 0..c /\ \A k \in 0..(first - 1) : B[k] = <<>>
      /\ elements(t) = f[first]
  BY <1>1, <1>2, SMTT(15) DEF Iterated
<1>4. b = B[i]
  BY <1>1, <1>3 DEF bucket
<1>5. /\ p \in 1..Len(b) /\ q \in (p + 1)..(Len(b) + 1) /\ Len(b) \in Nat
  BY <1>1, ElemsOfSeq DEF RangeOf
<1>6. b # <<>>
  BY <1>1, <1>5, ElemsOfSeq, SMTT(15)
<1>7. first \in 0..i /\ i \in 0..c /\ i # c /\ i + 1 \in 0..c
  BY <1>1, <1>3, <1>4, <1>6
<1>8. f = [k \in 0..c |-> IF k = c THEN <<>> ELSE B[k] \o f[k + 1]]
  BY <1>3, Zenon DEF Joined
<1>9. \A k \in 0..c : JoinsAll(B, c, f, k)
  BY <1>3, JoinedIs, Zenon
<1>10. PICK r : r = f[i + 1]
  OBVIOUS
<1>11. PICK u \in Seq(Nodes) : f[first] = u \o f[i]
  <2>1. EndsIn(B, f, i, first)
    BY <1>3, <1>7, JoinedSuffix, Zenon
  <2>. QED
    BY <2>1, Zenon DEF EndsIn
<1>12. f[i] = b \o r
  BY <1>4, <1>7, <1>8, <1>10, Zenon
<1>13. r \in Seq(Nodes) /\ Distinct(f[first])
  BY <1>3, <1>7, <1>9, <1>10 DEF JoinsAll
<1>14. PICK j : j = first_used(buckets, T, i + 1)
  OBVIOUS
<1>15. /\ j \in (i + 1)..c
       /\ j < c => B[j] # <<>>
       /\ \A k \in (i + 1)..(j - 1) : B[k] = <<>>
  <2>1. i + 1 \in 0..T.count
    BY <1>3, <1>7
  <2>2. PICK m : m = i + 1
    OBVIOUS
  <2>3. PICK bs : bs = buckets
    OBVIOUS
  <2>4. /\ first_used(bs, T, m) \in m..T.count
        /\ first_used(bs, T, m) < T.count => bs[T.array][first_used(bs, T, m)] # <<>>
        /\ \A k \in m..(first_used(bs, T, m) - 1) : bs[T.array][k] = <<>>
    <3>1. m \in 0..T.count /\ T \in Recs
      BY <1>1, <2>1, <2>2
    <3>. QED
      BY <3>1, FirstUsed, Zenon
  <2>5. j = first_used(bs, T, m)
    BY <1>14, <2>2, <2>3
  <2>6. PICK k : k = first_used(bs, T, m)
    OBVIOUS
  <2>7. j = k
    BY <2>5, <2>6
  <2>8. /\ k \in m..T.count
        /\ k < T.count => bs[T.array][k] # <<>>
        /\ \A x \in m..(k - 1) : bs[T.array][x] = <<>>
    BY <2>4, <2>6, Zenon
  <2>9. bs[T.array] = B /\ T.count = c
    BY <1>3, <2>3
  <2>. QED
    BY <2>2, <2>7, <2>8, <2>9
<1>16. r = f[j]
  <2>1. j \in 0..c /\ i + 1 \in 0..j
    BY <1>3, <1>7, <1>15
  <2>2. EndsIn(B, f, j, i + 1)
    BY <1>3, <2>1, JoinedSuffix, Zenon
  <2>. QED
    BY <1>10, <1>15, <2>2, Zenon DEF EndsIn
<1>17. PICK R : R = priv_equal_range(t, key)
  OBVIOUS
<1>18. R = IF q <= Len(b) THEN <<b[p], b[q]>>
           ELSE <<b[p], IF j = c THEN End ELSE B[j][1]>>
  <2>1. R = IF p = 0 THEN <<End, End>>
            ELSE IF q <= Len(b) THEN <<b[p], b[q]>>
            ELSE <<b[p], IF j = tab[t].count THEN End ELSE bucket(t, j)[1]>>
    BY <1>1, <1>14, <1>17, Zenon DEF priv_equal_range
  <2>. QED
    BY <1>1, <1>3, <2>1 DEF bucket
<1>19. IF j = c THEN r = <<>> ELSE r # <<>> /\ r[1] = B[j][1]
  <2>1. CASE j = c
    <3>1. c \in 0..c
      BY <1>3
    <3>2. f[c] = <<>>
      BY <1>8, <3>1
    <3>. QED
      BY <1>16, <2>1, <3>2
  <2>2. CASE j # c
    <3>1. j \in 0..c /\ j + 1 \in 0..c /\ j < c /\ j \in 0..(c - 1)
      BY <1>3, <1>7, <1>15, <2>2
    <3>2. f[j] = B[j] \o f[j + 1]
      BY <1>8, <2>2, <3>1, Zenon
    <3>3. PICK d : d = B[j]
      OBVIOUS
    <3>4. PICK v : v = f[j + 1]
      OBVIOUS
    <3>5. d \in Seq(Nodes) /\ v \in Seq(Nodes) /\ d # <<>> /\ r = d \o v
      BY <1>3, <1>9, <1>15, <1>16, <3>1, <3>2, <3>3, <3>4 DEF Buckets, JoinsAll
    <3>6. JoinOf(r, d, v)
      BY <3>5, JoinIsJoin
    <3>7. Len(d) \in Nat \ {0} /\ Len(v) \in Nat
      BY <3>5, EmptySeq, LenProperties
    <3>8. r[1] = d[1] /\ Len(r) # 0
      BY <3>6, <3>7 DEF JoinOf
    <3>9. r # <<>>
      BY <3>8
    <3>. QED
      BY <2>2, <3>3, <3>8, <3>9
  <2>. QED
    BY <2>1, <2>2
<1>20. R[1] = b[p] /\ R[2] = IF q <= Len(b) THEN b[q] ELSE IF r = <<>> THEN End ELSE r[1]
  BY <1>18, <1>19
<1>21. Spans(f[first], u, b, r, p, q, R[2])
  BY <1>1, <1>5, <1>11, <1>12, <1>13, <1>20 DEF Spans
<1>. QED
  BY <1>3, <1>17, <1>20, <1>21

\* What count() and equal_range() tell of a key.
LEMMA KeyIsFound ==
  ASSUME IBase, IGroups, idle, NEW t \in Tables, NEW key \in Keys
  PROVE  /\ count(t, key) = Cardinality({n \in members[t] : Key[n] = key})
         /\ stretch(elements(t), priv_equal_range(t, key)[1], priv_equal_range(t, key)[2])
              = {n \in members[t] : Key[n] = key}
<1>1. Resting
  BY IdleIs
<1>2. PICK T, M, i, b, p : Looks(t, key, T, M, i, b, p)
  BY SearchLooks
<1>3. M = members[t] /\ i = home(t, key) /\ b = bucket(t, i) /\ p = priv_find(b, key, hashing[key])
  BY <1>2 DEF Looks
<1>4. PICK E : E = {n \in M : Key[n] = key}
  OBVIOUS
<1>5. count(t, key) = IF p = 0 THEN 0 ELSE past_equal(b, p, key, hashing[key]) - p
  BY <1>3 DEF count
<1>6. CASE p = 0
  <2>1. E = {} /\ Cardinality({}) = 0
    BY <1>2, <1>4, <1>6, LooksFirst, FS_EmptySet
  <2>2. priv_equal_range(t, key) = <<End, End>>
    BY <1>3, <1>6, Zenon DEF priv_equal_range
  <2>3. elements(t) \in Seq(Nodes)
    BY <1>1, ElementsAre
  <2>4. stretch(elements(t), End, End) = {}
    BY <2>3, NothingStretches
  <2>. QED
    BY <1>3, <1>4, <1>5, <1>6, <2>1, <2>2, <2>4
<1>7. CASE p # 0
  <2>1. PICK q : /\ q = past_equal(b, p, key, hashing[key])
                 /\ RangeOf(b, p, q, key)
                 /\ E = {b[x] : x \in p..(q - 1)}
                 /\ Cardinality(E) = q - p
    BY <1>2, <1>4, <1>7, LooksFirst
  <2>2. PICK u, r : /\ Spans(elements(t), u, b, r, p, q, priv_equal_range(t, key)[2])
                    /\ priv_equal_range(t, key)[1] = b[p]
    BY <1>1, <1>2, <1>7, <2>1, RangeSpans
  <2>3. stretch(elements(t), b[p], priv_equal_range(t, key)[2]) = {b[x] : x \in p..(q - 1)}
    BY <2>2, StretchIs, SMTT(15)
  <2>. QED
    BY <1>3, <1>4, <1>5, <1>7, <2>1, <2>2, <2>3
<1>. QED
  BY <1>6, <1>7

(* Between two calls iteration meets every element once, count() and       *)
(* equal_range() find all elements of a key and no others, and the range    *)
(* ends where its last element does, be it in the next bucket in use.       *)
THEOREM HashSearches == Spec => []SearchesFind
<1>1. HashInvariant => SearchesFind
  <2> SUFFICES ASSUME IBase, IGroups, idle, NEW t \in Tables
               PROVE  LET s == elements(t)
                          equal(key) == {n \in members[t] : Key[n] = key}
                      IN  /\ {s[x] : x \in DOMAIN s} = members[t]
                          /\ Len(s) = Cardinality(members[t])
                          /\ \A key \in Keys :
                               LET r == priv_equal_range(t, key)
                               IN  /\ count(t, key) = Cardinality(equal(key))
                                   /\ stretch(s, r[1], r[2]) = equal(key)
    BY DEF HashInvariant, SearchesFind
  <2>1. Resting
    BY IdleIs
  <2>2. /\ Elems(elements(t)) = members[t]
        /\ Len(elements(t)) = Cardinality(members[t])
    BY <2>1, ElementsAre
  <2>3. \A key \in Keys :
          /\ count(t, key) = Cardinality({n \in members[t] : Key[n] = key})
          /\ stretch(elements(t), priv_equal_range(t, key)[1], priv_equal_range(t, key)[2])
               = {n \in members[t] : Key[n] = key}
    BY KeyIsFound
  <2>. QED
    BY <2>2, <2>3, Zenon DEF Elems
<1>. QED
  BY <1>1, HashInductive, PTL
-----------------------------------------------------------------------------
(* Every step of a call gets on.                                           *)

\* What is left of a rehash C of a table with the record T.
Work(T, C, bs) ==
  (T.count - C.n) * (Cardinality(Nodes) + 1)
  + (IF C.n < T.count THEN Len(bs[T.array][C.n]) - C.before_i ELSE 0)

\* What is left, in the middle of a rehash and after a step of it.
LEMMA WorkIs ==
  ASSUME call.op = "rehash", NEW T, T = tab[call.table]
  PROVE  remaining = Work(T, call, buckets)
BY DEF remaining, in, in_old_buckets, rehash_bucket, bucket, Work

LEMMA WorkWillBe ==
  ASSUME NEW D, D = call', D.op = "rehash", NEW T, T = tab'[D.table]
  PROVE  remaining' = Work(T, D, buckets')
BY DEF remaining, in, in_old_buckets, rehash_bucket, bucket, Work

\* A bucket holds no more elements than there are.
LEMMA BucketIsShort ==
  ASSUME NEW b \in Seq(Nodes), Distinct(b)
  PROVE  Len(b) \in Nat /\ Cardinality(Nodes) \in Nat /\ Len(b) <= Cardinality(Nodes)
<1>1. IsFiniteSet(Nodes)
  BY ElementAssumption
<1>2. Elems(b) \subseteq Nodes /\ Len(b) \in Nat
  BY ElemsOfSeq
<1>3. Cardinality(Elems(b)) = Len(b)
  BY ElemsCount
<1>4. Cardinality(Elems(b)) <= Cardinality(Nodes) /\ Cardinality(Nodes) \in Nat
  BY <1>1, <1>2, FS_Subset, FS_CardinalityType
<1>. QED
  BY <1>2, <1>3, <1>4

\* One bucket less.
LEMMA OneFewer ==
  ASSUME NEW c \in Nat, NEW n \in Nat, n < c, NEW K \in Nat
  PROVE  /\ (c - n) * (K + 1) \in Nat /\ (c - (n + 1)) * (K + 1) \in Nat
         /\ (c - n) * (K + 1) = (c - (n + 1)) * (K + 1) + (K + 1)
<1>1. PICK a \in Nat : a = c - (n + 1)
  OBVIOUS
<1>2. PICK k \in Nat : k = K + 1
  OBVIOUS
<1>3. (a + 1) * k = a * k + k /\ a * k \in Nat /\ (a + 1) * k \in Nat
  OBVIOUS
<1>4. c - n = a + 1
  BY <1>1
<1>. QED
  BY <1>1, <1>2, <1>3, <1>4

\* The next bucket is shorter than what a bucket counts.
LEMMA NextIsLess ==
  ASSUME NEW T, NEW C, NEW D, NEW bs, NEW cs, NEW c \in Nat, T.count = c,
         NEW n \in Nat, C.n = n, n < c, D.n = n + 1, D.before_i = 0,
         bs[T.array][n] \in Seq(Nodes), C.before_i \in Nat, C.before_i <= Len(bs[T.array][n]),
         n + 1 < c => cs[T.array][n + 1] \in Seq(Nodes) /\ Distinct(cs[T.array][n + 1])
  PROVE  Work(T, D, cs) < Work(T, C, bs)
<1>1. PICK K : K = Cardinality(Nodes)
  OBVIOUS
<1>2. K \in Nat
  BY <1>1, ElementAssumption, FS_CardinalityType
<1>3. PICK x : x = (c - (n + 1)) * (K + 1)
  OBVIOUS
<1>4. x \in Nat /\ (c - n) * (K + 1) = x + (K + 1)
  BY <1>2, <1>3, OneFewer, SMTT(15)
<1>5. PICK l : l = Len(bs[T.array][n]) - C.before_i
  OBVIOUS
<1>6. l \in Nat
  <2>1. Len(bs[T.array][n]) \in Nat
    BY ElemsOfSeq
  <2>. QED
    BY <1>5, <2>1
<1>7. Work(T, C, bs) = x + (K + 1) + l
  BY <1>1, <1>4, <1>5 DEF Work
<1>8. PICK m : m = IF n + 1 < c THEN Len(cs[T.array][n + 1]) ELSE 0
  OBVIOUS
<1>9. m \in Nat /\ m <= K
  BY <1>1, <1>2, <1>8, BucketIsShort
<1>10. Work(T, D, cs) = x + m
  <2>1. CASE n + 1 < c
    <3>1. Work(T, D, cs) = x + (Len(cs[T.array][n + 1]) - 0)
      BY <1>1, <1>3, <2>1 DEF Work
    <3>. QED
      BY <1>8, <1>9, <2>1, <3>1
  <2>2. CASE ~(n + 1 < c)
    BY <1>1, <1>3, <1>8, <2>2 DEF Work
  <2>. QED
    BY <2>1, <2>2
<1>. QED
  BY <1>2, <1>4, <1>6, <1>7, <1>9, <1>10

\* An element less in the bucket, or one passed.
LEMMA OneLess ==
  ASSUME NEW T, NEW C, NEW D, NEW bs, NEW cs, NEW c \in Nat, T.count = c,
         NEW n \in Nat, C.n = n, n < c, D.n = n,
         NEW l \in Int, l = Len(bs[T.array][n]) - C.before_i,
         NEW m \in Int, m = Len(cs[T.array][n]) - D.before_i, m < l
  PROVE  Work(T, D, cs) < Work(T, C, bs)
<1>1. PICK K : K = Cardinality(Nodes)
  OBVIOUS
<1>2. K \in Nat
  BY <1>1, ElementAssumption, FS_CardinalityType
<1>3. PICK x : x = (c - n) * (K + 1)
  OBVIOUS
<1>4. x \in Nat
  BY <1>2, <1>3, OneFewer
<1>5. Work(T, C, bs) = x + l /\ Work(T, D, cs) = x + m
  BY <1>1, <1>3 DEF Work
<1>. QED
  BY <1>4, <1>5

\* What the invariant says of the buckets and the bounds of a rehash.
LEMMA RehashBounds ==
  ASSUME NEW t, NEW T, NEW M, RehashingNow(t, T, M)
  PROVE  /\ T = tab[call.table] /\ call.op = "rehash" /\ call \in RehashCalls
         /\ T.count \in Nat /\ call.n \in Nat /\ call.before_i \in Nat
         /\ \A i \in 0..(T.count - 1) :
              buckets[T.array][i] \in Seq(Nodes) /\ Distinct(buckets[T.array][i])
<1>1. /\ t = call.table /\ T = tab[t] /\ T \in Recs
      /\ call \in RehashCalls /\ call.op = "rehash"
      /\ Rehashing(kind, buckets, T, M, stored, hashing, call) /\ T.array \in Arrays
  BY DEF RehashingNow
<1>2. T.count \in Nat /\ \A i \in 0..(T.count - 1) : i \in indices
  BY <1>1, RecIs
<1>3. BothKept(buckets, T, call)
  BY <1>1 DEF Rehashing
<1>4. call.n \in Nat /\ call.before_i \in Nat
  BY <1>1 DEF RehashCalls
<1>5. \A i \in 0..(T.count - 1) :
        buckets[T.array][i] \in Seq(Nodes) /\ Distinct(buckets[T.array][i])
  BY <1>2, <1>3 DEF BothKept
<1>. QED
  BY <1>1, <1>2, <1>4, <1>5

\* A rehash that passes an element or moves it has one element less before it.
LEMMA RehashMovesOn ==
  ASSUME IBase, rehash_moves
  PROVE  remaining' < remaining
<1>1. PICK t, T, M, b, n, j, su, D, as :
        /\ Visited(t, T, M, b, n, j, su, D, as)
        /\ \/ Stays(T, j, D)
           \/ \E p, d, u, v, w, ns, cs : LeavesBucket(T, M, as, b, n, j, D, p, d, u, v, w, ns, cs)
  BY RehashMovesIs
<1>2. /\ RehashingNow(t, T, M)
      /\ Visits(buckets, T, M, stored, hashing, call, b, n, j, su, D)
      /\ SameRehash(call, D) /\ call' = D /\ tab' = tab
  BY <1>1 DEF Visited
<1>3. /\ T = tab[call.table] /\ call.op = "rehash" /\ T.count \in Nat /\ call.n \in Nat
      /\ call.before_i \in Nat
      /\ \A i \in 0..(T.count - 1) : buckets[T.array][i] \in Seq(Nodes)
  BY <1>2, RehashBounds
<1>4. /\ call.n < T.count /\ b = buckets[T.array][call.n] /\ D.n = call.n
      /\ D.op = "rehash" /\ D.table = call.table
  BY <1>2 DEF Visits, SameRehash
<1>5. b \in Seq(Nodes) /\ Len(b) \in Nat
  BY <1>3, <1>4, ElemsOfSeq
<1>6. remaining = Work(T, call, buckets) /\ remaining' = Work(T, D, buckets')
  BY <1>2, <1>3, <1>4, WorkIs, WorkWillBe
<1>7. \/ D.before_i = call.before_i + 1 /\ Len(buckets'[T.array][call.n]) = Len(b)
      \/ D.before_i = call.before_i /\ Len(buckets'[T.array][call.n]) = Len(b) - 1
  <2>1. CASE Stays(T, j, D)
    BY <1>4, <2>1 DEF Stays
  <2>2. ASSUME NEW p, NEW d, NEW u, NEW v, NEW w, NEW ns, NEW cs,
               LeavesBucket(T, M, as, b, n, j, D, p, d, u, v, w, ns, cs)
        PROVE  D.before_i = call.before_i /\ Len(buckets'[T.array][call.n]) = Len(b) - 1
    BY <2>2 DEF LeavesBucket, Takes
  <2>. QED
    BY <1>1, <2>1, <2>2
<1>8. PICK l : l = Len(buckets[T.array][call.n]) - call.before_i
  OBVIOUS
<1>9. PICK m : m = Len(buckets'[T.array][call.n]) - D.before_i
  OBVIOUS
<1>10. l = Len(b) - call.before_i /\ l \in Int
  BY <1>3, <1>4, <1>5, <1>8
<1>11. PICK x : x = Len(buckets'[T.array][call.n])
  OBVIOUS
<1>12. /\ m = x - D.before_i
       /\ \/ D.before_i = call.before_i + 1 /\ x = Len(b)
          \/ D.before_i = call.before_i /\ x = Len(b) - 1
  BY <1>7, <1>9, <1>11
<1>13. m \in Int /\ m < l
  <2>1. PICK c : c = call.before_i
    OBVIOUS
  <2>2. PICK d : d = D.before_i
    OBVIOUS
  <2>3. PICK z : z = Len(b)
    OBVIOUS
  <2>4. /\ c \in Nat /\ z \in Nat /\ l = z - c /\ m = x - d
        /\ \/ d = c + 1 /\ x = z
           \/ d = c /\ x = z - 1
    BY <1>3, <1>5, <1>10, <1>12, <2>1, <2>2, <2>3
  <2>. QED
    BY <2>4
<1>14. Work(T, D, buckets') < Work(T, call, buckets)
  BY <1>3, <1>4, <1>8, <1>9, <1>10, <1>13, OneLess
<1>. QED
  BY <1>6, <1>14

\* A rehash that is through with a bucket has one bucket less before it.
LEMMA RehashNextsOn ==
  ASSUME IBase, rehash_next_bucket
  PROVE  remaining' < remaining
<1>1. PICK t : t = call.table
  OBVIOUS
<1>2. PICK T : T = tab[t]
  OBVIOUS
<1>3. PICK M : M = members[t]
  OBVIOUS
<1>4. in("rehash") /\ call.n < T.count /\ call.before_i = Len(buckets[T.array][call.n])
  BY <1>1, <1>2 DEF rehash_next_bucket, in_old_buckets, rehash_bucket, bucket
<1>5. RehashingNow(t, T, M)
  BY <1>1, <1>2, <1>3, <1>4, RehashIsNow
<1>6. /\ T = tab[call.table] /\ call.op = "rehash" /\ T.count \in Nat /\ call.n \in Nat
      /\ call.before_i \in Nat /\ call \in RehashCalls
      /\ \A i \in 0..(T.count - 1) :
           buckets[T.array][i] \in Seq(Nodes) /\ Distinct(buckets[T.array][i])
  BY <1>5, RehashBounds
<1>7. PICK D : D = [call EXCEPT !.n = @ + 1, !.before_i = 0]
  OBVIOUS
<1>8. call' = D /\ tab' = tab /\ buckets' = buckets
  BY <1>7 DEF rehash_next_bucket
<1>9. D.op = "rehash" /\ D.table = call.table /\ D.n = call.n + 1 /\ D.before_i = 0
  BY <1>6, <1>7 DEF RehashCalls
<1>10. remaining = Work(T, call, buckets) /\ remaining' = Work(T, D, buckets)
  BY <1>6, <1>8, <1>9, WorkIs, WorkWillBe
<1>11. /\ buckets[T.array][call.n] \in Seq(Nodes)
       /\ call.n + 1 < T.count => /\ buckets[T.array][call.n + 1] \in Seq(Nodes)
                                  /\ Distinct(buckets[T.array][call.n + 1])
  BY <1>4, <1>6
<1>12. call.before_i <= Len(buckets[T.array][call.n])
  BY <1>4, <1>6
<1>13. Work(T, D, buckets) < Work(T, call, buckets)
  BY <1>4, <1>6, <1>9, <1>11, <1>12, NextIsLess
<1>. QED
  BY <1>10, <1>13

\* So has one that pours out a bucket, whatever the next one got.
LEMMA RehashFillsOn ==
  ASSUME IBase, rehash_moves_bucket
  PROVE  remaining' < remaining
<1>1. PICK t, T, M, b, d, j, q, u, v, w, ns, cs, as, D :
        Filled(t, T, M, b, d, j, q, u, v, w, ns, cs, as, D)
  BY RehashMovesBucketIs
<1>2. /\ RehashingNow(t, T, M)
      /\ Fills(as, buckets, cs, T, M, stored, hashing, call, j, ns, D)
      /\ buckets' = cs /\ call' = D /\ tab' = tab
  BY <1>1 DEF Filled
<1>3. /\ T = tab[call.table] /\ call.op = "rehash" /\ T.count \in Nat /\ call.n \in Nat
      /\ call.before_i \in Nat
      /\ \A i \in 0..(T.count - 1) : buckets[T.array][i] \in Seq(Nodes)
  BY <1>2, RehashBounds
<1>4. /\ FastIs(buckets, T, M, stored, hashing, call) /\ SameRehash(call, D)
      /\ D.n = call.n + 1 /\ D.before_i = call.before_i
  BY <1>2 DEF Fills
<1>5. /\ call.n < T.count /\ T \in Recs /\ call.before_i = 0
      /\ D.op = "rehash" /\ D.table = call.table
  BY <1>4 DEF FastIs, SameRehash, Rehashing, MovesBuckets
<1>6. BothKept(cs, T, D)
  <2>1. Rehashing(kind, cs, T, M, stored, hashing, D)
    BY <1>2, BucketMoves, Zenon
  <2>. QED
    BY <2>1 DEF Rehashing
<1>7. \A i \in 0..(T.count - 1) : cs[T.array][i] \in Seq(Nodes) /\ Distinct(cs[T.array][i])
  <2>1. \A i \in 0..(T.count - 1) : i \in indices /\ i < T.count
    BY <1>5, RecIs
  <2>. QED
    BY <1>6, <2>1 DEF BothKept
<1>8. remaining = Work(T, call, buckets) /\ remaining' = Work(T, D, cs)
  BY <1>2, <1>3, <1>5, WorkIs, WorkWillBe
<1>9. /\ buckets[T.array][call.n] \in Seq(Nodes) /\ Len(buckets[T.array][call.n]) \in Nat
      /\ call.n + 1 < T.count => /\ cs[T.array][call.n + 1] \in Seq(Nodes)
                                 /\ Distinct(cs[T.array][call.n + 1])
  BY <1>3, <1>5, <1>7, ElemsOfSeq
<1>10. call.before_i <= Len(buckets[T.array][call.n]) /\ D.before_i = 0
  BY <1>4, <1>5, <1>9
<1>11. Work(T, D, cs) < Work(T, call, buckets)
  BY <1>3, <1>4, <1>5, <1>9, <1>10, NextIsLess
<1>. QED
  BY <1>8, <1>11

\* A growth passes or moves a group, which has an element.
LEMMA GrowMovesOn ==
  ASSUME IBase, IGroups, grow_moves
  PROVE  remaining' < remaining
<1>1. PICK t, T, M, b, n, j, p, q, d, u, v, w, ns, cs, as :
        GrowStep(t, T, M, b, n, j, p, q, d, u, v, w, ns, cs, as)
  BY GrowMovesIs
<1>2. /\ GrowingNow(t, T, M)
      /\ b = buckets[T.array][call.from] /\ p = call.before_i + 1
      /\ GrowVisits(buckets, T, M, stored, hashing, call, b, n, j)
      /\ GroupAt(b, p, q)
      /\ IF j = call.from THEN call' = [call EXCEPT !.before_i = q - 1] /\ buckets' = buckets
         ELSE /\ buckets' = cs /\ call' = call
              /\ Transfers(buckets, cs, T.array, call.from, p, q, T.array, j, b, d, u, v, w, ns)
      /\ tab' = tab
  BY <1>1 DEF GrowStep
<1>3. t = call.table /\ T = tab[t] /\ call \in GrowCalls /\ call.op = "grow"
  BY <1>2 DEF GrowingNow
<1>4. Len(b) \in Nat /\ call.before_i \in Nat
  BY <1>2, <1>3, GrowVisitIs DEF GrowCalls
<1>5. q \in Nat /\ p + 1 <= q /\ q <= Len(b) + 1
  BY <1>2, <1>4 DEF GroupAt
<1>6. remaining = Len(b) - call.before_i
  BY <1>2, <1>3 DEF remaining, in, grow_bucket, bucket
<1>7. CASE j = call.from
  <2>1. PICK D : D = [call EXCEPT !.before_i = q - 1]
    OBVIOUS
  <2>2. /\ D.op = "grow" /\ D.table = call.table /\ D.from = call.from /\ D.before_i = q - 1
    BY <1>3, <2>1 DEF GrowCalls
  <2>3. call' = D /\ buckets' = buckets
    BY <1>2, <1>7, <2>1
  <2>4. remaining' = Len(b) - (q - 1)
    BY <1>2, <1>3, <2>2, <2>3 DEF remaining, in, grow_bucket, bucket
  <2>. QED
    BY <1>2, <1>4, <1>5, <1>6, <2>4, SMTT(15)
<1>8. CASE j # call.from
  <2>1. /\ buckets' = cs /\ call' = call
        /\ Transfers(buckets, cs, T.array, call.from, p, q, T.array, j, b, d, u, v, w, ns)
    BY <1>2, <1>8
  <2>2. cs[T.array][call.from] = u /\ Len(u) = Len(b) - (q - p)
    BY <2>1, TransferMoves
  <2>3. remaining' = Len(u) - call.before_i
    BY <1>2, <1>3, <2>1, <2>2 DEF remaining, in, grow_bucket, bucket
  <2>4. PICK k : k = call.before_i
    OBVIOUS
  <2>5. k \in Nat /\ p = k + 1 /\ remaining = Len(b) - k /\ remaining' = Len(u) - k
    BY <1>2, <1>4, <1>6, <2>3, <2>4
  <2>6. Len(u) \in Int /\ Len(u) < Len(b)
    BY <1>4, <1>5, <2>2, <2>5
  <2>. QED
    BY <1>4, <2>5, <2>6
<1>. QED
  BY <1>7, <1>8

\* A clone of one element leaves one less to clone.
LEMMA CloneNextsOn ==
  ASSUME IBase, clone_next
  PROVE  remaining' < remaining
<1>1. PICK t, src, T, S, M, N, L, s, r, m, i, first :
        CloningNow(t, src, T, S, M, N, L, s) /\ ClonesNext(t, T, L, r, m, i, first)
  BY CloneNextIs
<1>2. /\ call \in CloneCalls /\ call.op = "clone" /\ L = call.todo /\ L \in Seq(Nodes)
      /\ L # <<>> /\ call' = [call EXCEPT !.todo = Tail(L)]
  BY <1>1 DEF CloningNow, ClonesNext
<1>3. PICK D : D = [call EXCEPT !.todo = Tail(L)]
  OBVIOUS
<1>4. D.op = "clone" /\ D.todo = Tail(L)
  BY <1>2, <1>3 DEF CloneCalls
<1>5. call' = D
  BY <1>2, <1>3
<1>6. remaining = Len(L)
  BY <1>2 DEF remaining, in
<1>7. remaining' = Len(Tail(L))
  BY <1>4, <1>5 DEF remaining, in
<1>8. Len(L) \in Nat /\ Len(Tail(L)) = Len(L) - 1
  BY <1>2
<1>. QED
  BY <1>6, <1>7, <1>8

(* Every step of a rehash, a growth or a clone leaves less to do: no        *)
(* element is met again in the bucket that it has been moved to.            *)
THEOREM HashAdvances == Spec => Advances
<1>1. HashInvariant /\ [Next]_vars => [~idle => idle' \/ remaining' < remaining]_vars
  <2> SUFFICES ASSUME IBase, IGroups, Next, ~idle
               PROVE  idle' \/ remaining' < remaining
    BY DEF HashInvariant
  <2>1. CallNext
    <3>1. ~(InsertNext \/ CommitNext \/ EraseNext \/ ExchangeNext)
      BY DEF InsertNext, CommitNext, EraseNext, ExchangeNext
    <3>2. /\ \A t : ~grow_begins(t) /\ ~shrink(t)
          /\ \A t, a, c, full : ~rehash_begins(t, a, c, full)
          /\ \A t, a, c : ~incremental_rehash(t, a, c)
          /\ \A t, src : ~clone_begins(t, src)
      BY DEF grow_begins, shrink, rehash_begins, incremental_rehash, clone_begins
    <3>3. ~(RehashNext \/ CloneNext)
      BY <3>2, Zenon DEF RehashNext, CloneNext
    <3>. QED
      BY <3>1, <3>3 DEF Next
  <2>2. None.op = "none"
    BY DEF None
  <2>3. CASE rehash_ends \/ rehash_throws \/ grow_ends \/ grow_throws \/ clone_ends \/ clone_throws
    <3>1. call' = None
      BY <2>3 DEF rehash_ends, rehash_throws, grow_ends, grow_throws, clone_ends, clone_throws
    <3>. QED
      BY <2>2, <3>1 DEF idle
  <2>4. CASE rehash_moves
    BY <2>4, RehashMovesOn
  <2>5. CASE rehash_next_bucket
    BY <2>5, RehashNextsOn
  <2>6. CASE rehash_moves_bucket
    BY <2>6, RehashFillsOn
  <2>7. CASE grow_moves
    BY <2>7, GrowMovesOn
  <2>8. CASE clone_next
    BY <2>8, CloneNextsOn
  <2>. QED
    BY <2>1, <2>3, <2>4, <2>5, <2>6, <2>7, <2>8 DEF CallNext
<1>. QED
  BY <1>1, HashInductive, PTL DEF Advances, Spec
=============================================================================
