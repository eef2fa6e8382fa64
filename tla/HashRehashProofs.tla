--------------------------- MODULE HashRehashProofs ---------------------------
(***************************************************************************)
(* The calls of HashCalls, which handle one element after another and may  *)
(* be interrupted, preserve the inductive invariant of HashTableProofs.    *)
(***************************************************************************)
EXTENDS HashTableProofs

(* A table that a call is working on, and the others.                      *)

\* The table and the arrays of a call in progress.
LEMMA CallIs ==
  ASSUME IBase, call.op \in {"rehash", "grow"}
  PROVE  /\ call.table \in Tables
         /\ Owned(tab, call, call.table) \in SUBSET Arrays
         /\ tab[call.table].array \in Owned(tab, call, call.table)
         /\ Holds(buckets, Owned(tab, call, call.table), members[call.table])
         /\ call.op = "rehash" =>
              /\ Rehashing(kind, buckets, tab[call.table], members[call.table], stored, hashing, call)
              /\ Owned(tab, call, call.table) = {tab[call.table].array, call.array}
         /\ call.op = "grow" =>
              /\ Growing(kind, buckets, tab[call.table], members[call.table], stored, hashing, call)
              /\ Owned(tab, call, call.table) = {tab[call.table].array}
         /\ pending = None \/ Committable(kind, tab, hashing, call, pending)
         /\ kind \in Kinds
         /\ ~kind.multi => group = [n \in Nodes |-> Junk]
         /\ Apart(buckets)
<1>1. tab \in [Tables -> Recs]
  BY DEF IBase, Types
<1>2. CASE call.op = "rehash"
  <2>1. Rehashing(kind, buckets, tab[call.table], members[call.table], stored, hashing, call)
    BY <1>2 DEF IBase, None
  <2>2. call.table \in Tables /\ call.array \in Arrays
    BY <2>1 DEF Rehashing, RehashCalls
  <2>3. tab[call.table].array \in Arrays
    BY <1>1, <2>2, RecIs
  <2>4. Owned(tab, call, call.table) = {tab[call.table].array, call.array}
    BY <1>2 DEF Owned
  <2>5. Holds(buckets, Owned(tab, call, call.table), members[call.table])
    BY <2>1, <2>4 DEF Rehashing
  <2>. QED
    BY <1>2, <2>1, <2>2, <2>3, <2>4, <2>5 DEF IBase, Types, Exclusive
<1>3. CASE call.op = "grow"
  <2>1. Growing(kind, buckets, tab[call.table], members[call.table], stored, hashing, call)
    BY <1>3 DEF IBase, None
  <2>2. call.table \in Tables
    BY <2>1 DEF Growing, GrowCalls
  <2>3. tab[call.table].array \in Arrays
    BY <1>1, <2>2, RecIs
  <2>4. Owned(tab, call, call.table) = {tab[call.table].array}
    BY <1>3, SMTT(15) DEF Owned
  <2>5. Holds(buckets, Owned(tab, call, call.table), members[call.table])
    BY <2>1, <2>4 DEF Growing
  <2>. QED
    BY <1>3, <2>1, <2>2, <2>3, <2>4, <2>5 DEF IBase, Types, Exclusive
<1>. QED
  BY <1>2, <1>3

\* What the invariant says of the tables that the call is not about.
LEMMA BaseOthers ==
  ASSUME IBase, call.op \in {"rehash", "grow"}
  PROVE  LET t == call.table
         IN  Others(t, Owned(tab, call, t), buckets, tab, members, stored, hashing, linked)
<1> DEFINE t  == call.table
           as == Owned(tab, call, t)
<1>1. /\ t \in Tables /\ as \in SUBSET Arrays /\ Holds(buckets, as, members[t])
      /\ tab[t].array \in as /\ Apart(buckets)
  BY CallIs
<1>2. /\ buckets \in Memories /\ stored \in [Nodes -> Nat \cup {Junk}] /\ hashing \in Hashings
      /\ tab \in [Tables -> Recs] /\ members \in [Tables -> SUBSET Nodes]
      /\ linked = UNION {members[u] : u \in Tables}
  BY DEF IBase, Types, Memories, Exclusive
<1>3. \A u \in Tables \ {t} : Owned(tab, call, u) = {tab[u].array} /\ ~Busy(call, u)
  BY DEF Owned, Busy
<1>4. \A u \in Tables \ {t} :
        /\ Quiet(kind, buckets, tab[u], members[u], stored, hashing)
        /\ Holds(buckets, {tab[u].array}, members[u])
  BY <1>3 DEF IBase, Quiet
<1>5. \A u, v \in Tables : Owned(tab, call, u) \cap Owned(tab, call, v) # {} => u = v
  BY DEF IBase, Exclusive
<1>6. \A u, v \in Tables \ {t} : tab[u].array = tab[v].array => u = v
  BY <1>3, <1>5
<1>7. \A u \in Tables \ {t} : tab[u].array \notin as
  BY <1>1, <1>3, <1>5
<1>8. \A e \in Arrays \ as : (\A u \in Tables \ {t} : e # tab[u].array) => Kept(buckets, e, 0)
  <2> SUFFICES ASSUME NEW e \in Arrays \ as, \A u \in Tables \ {t} : e # tab[u].array
               PROVE  Kept(buckets, e, 0)
    OBVIOUS
  <2>1. \A u \in Tables : e \notin Owned(tab, call, u)
    BY <1>3
  <2>. QED
    BY <2>1 DEF IBase, Exclusive
<1>9. \A u, v \in Tables, n \in Nodes : n \in members[u] /\ n \in members[v] => u = v
  <2> SUFFICES ASSUME NEW u \in Tables, NEW v \in Tables, NEW n \in Nodes,
                      n \in members[u], n \in members[v]
               PROVE  u = v
    OBVIOUS
  <2>1. ASSUME NEW w \in Tables, n \in members[w]
        PROVE  \E a \in Owned(tab, call, w), i \in indices : a \in Arrays /\ n \in Elems(buckets[a][i])
    <3>1. CASE w = t
      BY <1>1, <2>1, <3>1 DEF Holds
    <3>2. CASE w # t
      <4>1. tab[w].array \in Arrays
        BY <1>2, RecIs
      <4>. QED
        BY <1>3, <1>4, <2>1, <3>2, <4>1 DEF Holds
    <3>. QED
      BY <3>1, <3>2
  <2>2. PICK a \in Owned(tab, call, u), i \in indices : a \in Arrays /\ n \in Elems(buckets[a][i])
    BY <2>1
  <2>3. PICK e \in Owned(tab, call, v), j \in indices : e \in Arrays /\ n \in Elems(buckets[e][j])
    BY <2>1
  <2>4. a = e
    BY <1>1, <2>2, <2>3 DEF Apart
  <2>. QED
    BY <1>5, <2>2, <2>3, <2>4
<1>. QED
  BY <1>2, <1>4, <1>6, <1>7, <1>8, <1>9, Zenon DEF Others

\* The elements of t are in different buckets of the arrays as.
ApartIn(as, bs) ==
  \A n \in Nodes, a, e \in as, i, j \in indices :
    n \in Elems(bs[a][i]) /\ n \in Elems(bs[e][j]) => a = e /\ i = j

\* Their elements are none of the elements of the call.
LEMMA OthersApart ==
  ASSUME kind \in Kinds, NEW t \in Tables, NEW as \in SUBSET Arrays, NEW bs, NEW tb, NEW ms,
         NEW st, NEW hs, NEW lk,
         Others(t, as, bs, tb, ms, st, hs, lk), Holds(bs, as, ms[t]), ApartIn(as, bs)
  PROVE  Apart(bs)
<1> SUFFICES ASSUME NEW n \in Nodes, NEW a \in Arrays, NEW e \in Arrays,
                    NEW i \in indices, NEW j \in indices,
                    n \in Elems(bs[a][i]), n \in Elems(bs[e][j])
             PROVE  a = e /\ i = j
  BY DEF Apart
<1>1. ASSUME NEW b \in Arrays, NEW k \in indices, n \in Elems(bs[b][k])
      PROVE  \/ b \in as /\ n \in ms[t]
             \/ \E u \in Tables \ {t} : /\ b = tb[u].array /\ n \in ms[u]
                                        /\ k = Home(kind, tb[u], hs, n)
  <2>1. CASE b \in as
    BY <1>1, <2>1, Zenon DEF Holds
  <2>2. CASE b \notin as /\ \A u \in Tables \ {t} : b # tb[u].array
    <3>1. Kept(bs, b, 0) /\ bs \in Memories
      BY <2>2, Zenon DEF Others
    <3>2. k \in 0..(0 - 1)
      BY <1>1, <3>1, KeptIs, CountIs
    <3>. QED
      BY <3>2
  <2>3. ASSUME NEW u \in Tables \ {t}, b = tb[u].array
        PROVE  n \in ms[u] /\ k = Home(kind, tb[u], hs, n)
    BY <1>1, <2>3 DEF Others, Quiet, Holds, AtHome
  <2>. QED
    BY <2>1, <2>2, <2>3, Zenon
<1>2. \A u, v \in Tables : n \in ms[u] /\ n \in ms[v] => u = v
  BY DEF Others
<1>3. CASE a \in as /\ n \in ms[t]
  <2>1. e \in as
    BY <1>1, <1>2, <1>3, Zenon
  <2>. QED
    BY <1>3, <2>1, Zenon DEF ApartIn
<1>4. ASSUME NEW u \in Tables \ {t}, a = tb[u].array, n \in ms[u], i = Home(kind, tb[u], hs, n)
      PROVE  a = e /\ i = j
  <2>1. n \notin ms[t]
    BY <1>2, <1>4
  <2>2. PICK v \in Tables \ {t} : /\ e = tb[v].array /\ n \in ms[v]
                                  /\ j = Home(kind, tb[v], hs, n)
    BY <1>1, <2>1, Zenon
  <2>3. u = v
    BY <1>2, <1>4, <2>2
  <2>. QED
    BY <1>4, <2>2, <2>3
<1>. QED
  BY <1>1, <1>3, <1>4, Zenon

\* Call C is working on table t, which has the arrays as.
Worked(t, as, bs, tb, ms, st, hs, lk, C) ==
  /\ t \in Tables /\ C.table = t
  /\ as \in SUBSET Arrays /\ as = Owned(tb, C, t)
  /\ Others(t, as, bs, tb, ms, st, hs, lk)
  /\ Holds(bs, as, ms[t]) /\ ApartIn(as, bs)
  /\ \/ C.op = "rehash" /\ Rehashing(kind, bs, tb[t], ms[t], st, hs, C)
     \/ C.op = "grow" /\ Growing(kind, bs, tb[t], ms[t], st, hs, C)

\* The invariant, as it is said of a table that a call is working on.
LEMMA BaseIsWorked ==
  ASSUME IBase, call.op \in {"rehash", "grow"}
  PROVE  /\ Worked(call.table, Owned(tab, call, call.table), buckets, tab, members, stored,
                   hashing, linked, call)
         /\ pending = None \/ Committable(kind, tab, hashing, call, pending)
         /\ kind \in Kinds
         /\ ~kind.multi => group = [n \in Nodes |-> Junk]
<1> DEFINE t  == call.table
           as == Owned(tab, call, t)
<1>1. /\ t \in Tables /\ as \in SUBSET Arrays /\ Holds(buckets, as, members[t])
      /\ Apart(buckets) /\ kind \in Kinds
      /\ pending = None \/ Committable(kind, tab, hashing, call, pending)
      /\ ~kind.multi => group = [n \in Nodes |-> Junk]
      /\ call.op = "rehash" => Rehashing(kind, buckets, tab[t], members[t], stored, hashing, call)
      /\ call.op = "grow" => Growing(kind, buckets, tab[t], members[t], stored, hashing, call)
  BY CallIs
<1>2. Others(t, as, buckets, tab, members, stored, hashing, linked)
  BY BaseOthers
<1>3. ApartIn(as, buckets)
  BY <1>1 DEF Apart, ApartIn
<1>. QED
  BY <1>1, <1>2, <1>3 DEF Worked

\* And back.
LEMMA WorkedIsBase ==
  ASSUME kind' = kind, kind \in Kinds, NEW t, NEW as,
         Worked(t, as, buckets', tab', members', stored', hashing', linked', call'),
         pending' = None \/ Committable(kind, tab', hashing', call', pending'),
         ~kind.multi => group' = [n \in Nodes |-> Junk]
  PROVE  IBase'
<1>1. /\ t \in Tables /\ call'.table = t /\ as \in SUBSET Arrays /\ as = Owned(tab', call', t)
      /\ Others(t, as, buckets', tab', members', stored', hashing', linked')
      /\ Holds(buckets', as, members'[t]) /\ ApartIn(as, buckets')
      /\ call'.op \in {"rehash", "grow"}
  BY DEF Worked
<1>2. Types'
  <2>1. /\ buckets' \in Memories /\ stored' \in [Nodes -> Nat \cup {Junk}]
        /\ hashing' \in Hashings /\ tab' \in [Tables -> Recs]
        /\ members' \in [Tables -> SUBSET Nodes]
    BY <1>1 DEF Others
  <2>. QED
    BY <2>1 DEF Types, Memories
<1>3. \A u \in Tables \ {t} : Owned(tab', call', u) = {tab'[u].array}
  BY <1>1 DEF Owned
<1>4. Exclusive'
  <2>1. \A u, v \in Tables : Owned(tab', call', u) \cap Owned(tab', call', v) # {} => u = v
    <3>1. /\ \A u, v \in Tables \ {t} : tab'[u].array = tab'[v].array => u = v
          /\ \A u \in Tables \ {t} : tab'[u].array \notin as
      BY <1>1 DEF Others
    <3>2. ASSUME NEW u \in Tables, NEW v \in Tables, u # v
          PROVE  Owned(tab', call', u) \cap Owned(tab', call', v) = {}
      <4>1. CASE u = t
        BY <1>1, <1>3, <3>1, <3>2, <4>1
      <4>2. CASE v = t
        BY <1>1, <1>3, <3>1, <3>2, <4>2
      <4>3. CASE u # t /\ v # t
        BY <1>3, <3>1, <3>2, <4>3
      <4>. QED
        BY <4>1, <4>2, <4>3
    <3>. QED
      BY <3>2
  <2>2. \A e \in Arrays : (\A u \in Tables : e \notin Owned(tab', call', u)) => Kept(buckets', e, 0)
    <3> SUFFICES ASSUME NEW e \in Arrays, \A u \in Tables : e \notin Owned(tab', call', u)
                 PROVE  Kept(buckets', e, 0)
      OBVIOUS
    <3>1. e \notin as /\ \A u \in Tables \ {t} : e # tab'[u].array
      BY <1>1, <1>3
    <3>. QED
      BY <1>1, <3>1 DEF Others
  <2>3. Apart(buckets')
    BY <1>1, OthersApart
  <2>4. linked' = UNION {members'[u] : u \in Tables}
    BY <1>1 DEF Others
  <2>. QED
    BY <2>1, <2>2, <2>3, <2>4 DEF Exclusive, Kept, Apart
<1>5. ASSUME NEW u \in Tables, ~Busy(call', u)
      PROVE  Quiet(kind', buckets', tab'[u], members'[u], stored', hashing')
  <2>1. u # t
    BY <1>1, <1>5 DEF Busy
  <2>. QED
    BY <1>1, <2>1 DEF Others
<1>6. \/ /\ call'.op = "rehash"
         /\ Rehashing(kind', buckets', tab'[call'.table], members'[call'.table], stored', hashing', call')
      \/ /\ call'.op = "grow"
         /\ Growing(kind', buckets', tab'[call'.table], members'[call'.table], stored', hashing', call')
  BY <1>1 DEF Worked
<1>. QED
  BY <1>2, <1>4, <1>5, <1>6 DEF IBase
-----------------------------------------------------------------------------
(* The transfer of a piece of bucket i of array a to bucket j of array c.   *)

Transfers(bs, cs, a, i, p, q, c, j, b, d, u, v, w, ns) ==
  /\ bs \in Memories /\ a \in Arrays /\ c \in Arrays /\ i \in indices /\ j \in indices
  /\ a # c \/ i # j
  /\ b = bs[a][i] /\ d = bs[c][j]
  /\ b \in Seq(Nodes) /\ Distinct(b) /\ d \in Seq(Nodes) /\ Distinct(d)
  /\ Elems(b) \cap Elems(d) = {}
  /\ p \in Nat /\ q \in Nat /\ 1 <= p /\ p <= q /\ q <= Len(b) + 1
  /\ u = Cut(b, p, q) /\ v = Piece(b, p, q) /\ w = v \o d /\ ns = Elems(v)
  /\ cs = transferred(bs, a, i, p, q, c, j)

\* The elements ns have moved from bucket i of array a to bucket j of array c.
Moved(bs, cs, a, i, c, j, ns) ==
  /\ cs \in Memories
  /\ \A e \in Arrays, k \in indices :
       (e # a \/ k # i) /\ (e # c \/ k # j) => cs[e][k] = bs[e][k]
  /\ cs[a][i] \in Seq(Nodes) /\ Distinct(cs[a][i])
  /\ cs[c][j] \in Seq(Nodes) /\ Distinct(cs[c][j])
  /\ \A n \in Nodes : n \in Elems(cs[a][i]) <=> n \in Elems(bs[a][i]) /\ n \notin ns
  /\ \A n \in Nodes : n \in Elems(cs[c][j]) <=> n \in Elems(bs[c][j]) \/ n \in ns
  /\ ns \subseteq Elems(bs[a][i]) /\ ns \subseteq Nodes

\* transferred() moves the elements of the piece, and no other.
LEMMA TransferMoves ==
  ASSUME NEW bs, NEW cs, NEW a, NEW i, NEW p, NEW q, NEW c, NEW j, NEW b, NEW d, NEW u, NEW v,
         NEW w, NEW ns, Transfers(bs, cs, a, i, p, q, c, j, b, d, u, v, w, ns)
  PROVE  /\ Moved(bs, cs, a, i, c, j, ns)
         /\ cs[a][i] = u /\ cs[c][j] = w
         /\ Len(u) = Len(b) - (q - p)
         /\ \A x \in 1..(p - 1) : u[x] = b[x]
         /\ \A n : n \in ns <=> \E x \in p..(q - 1) : n = b[x]
<1>0. /\ bs \in Memories /\ a \in Arrays /\ c \in Arrays /\ i \in indices /\ j \in indices
      /\ a # c \/ i # j
      /\ b \in Seq(Nodes) /\ Distinct(b) /\ d \in Seq(Nodes) /\ Distinct(d)
      /\ Elems(b) \cap Elems(d) = {}
      /\ p \in Nat /\ q \in Nat /\ 1 <= p /\ p <= q /\ q <= Len(b) + 1
  BY DEF Transfers
<1>1. b = bs[a][i] /\ d = bs[c][j]
  BY DEF Transfers
<1>2. u = Cut(b, p, q) /\ v = Piece(b, p, q) /\ w = v \o d /\ ns = Elems(v)
  BY DEF Transfers
<1>3. cs = transferred(bs, a, i, p, q, c, j)
  BY DEF Transfers
<1> USE <1>0
<1>4. /\ u \in Seq(Nodes) /\ Distinct(u) /\ Len(u) = Len(b) - (q - p)
      /\ \A x \in 1..(p - 1) : u[x] = b[x]
  <2>0. /\ Cut(b, p, q) \in Seq(Nodes) /\ Len(Cut(b, p, q)) = Len(b) - (q - p)
        /\ IsCut(Cut(b, p, q), b, p, q)
    BY <1>0, CutIs
  <2>1. u \in Seq(Nodes) /\ Len(u) = Len(b) - (q - p) /\ IsCut(u, b, p, q)
    BY <1>2, <2>0
  <2>2. Distinct(u)
    BY <1>2, CutElems
  <2>3. Len(b) \in Nat
    BY ElemsOfSeq
  <2>4. ASSUME NEW x \in 1..(p - 1)
        PROVE  u[x] = b[x]
    <3>1. x \in 1..(Len(b) - (q - p)) /\ x < p
      BY <1>0, <2>3
    <3>. QED
      BY <2>1, <3>1 DEF IsCut
  <2>. QED
    BY <2>1, <2>2, <2>4
<1>5. Elems(u) = Elems(b) \ ns
  BY <1>2, CutElems
<1>6. /\ v \in Seq(Nodes) /\ Distinct(v) /\ Elems(v) = ns /\ ns \subseteq Elems(b)
      /\ ns = Stretch(b, p, q)
  BY <1>2, PieceProperties, PieceElems
<1>7. \A n : n \in ns <=> \E x \in p..(q - 1) : n = b[x]
  BY <1>6 DEF Stretch
<1>8. /\ w \in Seq(Nodes) /\ Elems(w) = Elems(v) \cup Elems(d) /\ Distinct(w)
  <2>1. Elems(v) \cap Elems(d) = {}
    BY <1>6
  <2>2. v \in Seq(Nodes) /\ Distinct(v)
    BY <1>6
  <2>. QED
    BY <1>2, <2>1, <2>2, JoinedElems
<1>9. u \in Seq(Memory) /\ w \in Seq(Memory)
  BY <1>4, <1>8, InMemory
<1>10. PICK cut : cut = [bs EXCEPT ![a][i] = u]
  BY Zenon
<1>11. Updated(cut, bs, a, i, u)
  BY <1>9, <1>10, ExceptUpdates, Zenon
<1>12. cut \in Memories /\ cut[c][j] = d
  BY <1>1, <1>11 DEF Updated
<1>13. cs = [cut EXCEPT ![c][j] = w]
  <2>1. cs = [cut EXCEPT ![c][j] = v \o @]
    BY <1>1, <1>2, <1>3, <1>10 DEF transferred
  <2>2. c \in DOMAIN cut /\ j \in DOMAIN cut[c]
    BY <1>12 DEF Memories
  <2>. QED
    BY <1>2, <1>12, <2>1, <2>2, SMTT(15)
<1>14. Updated(cs, cut, c, j, w)
  BY <1>9, <1>12, <1>13, ExceptUpdates, Zenon
<1>15. /\ cs \in Memories /\ cs[c][j] = w /\ cs[a][i] = u
       /\ \A e \in Arrays, k \in indices :
            (e # a \/ k # i) /\ (e # c \/ k # j) => cs[e][k] = bs[e][k]
  BY <1>11, <1>14 DEF Updated
<1>16. /\ \A n \in Nodes : n \in Elems(cs[a][i]) <=> n \in Elems(bs[a][i]) /\ n \notin ns
       /\ \A n \in Nodes : n \in Elems(cs[c][j]) <=> n \in Elems(bs[c][j]) \/ n \in ns
       /\ ns \subseteq Elems(bs[a][i])
  BY <1>1, <1>5, <1>6, <1>8, <1>15
<1>17. ns \subseteq Nodes
  BY <1>6, ElemsOfSeq
<1>18. Moved(bs, cs, a, i, c, j, ns)
  BY <1>4, <1>8, <1>15, <1>16, <1>17 DEF Moved
<1>. QED
  BY <1>4, <1>7, <1>15, <1>18

\* A move inside the arrays as, which hold the elements M.
MovesIn(as, bs, cs, a, i, c, j, ns, M) ==
  /\ as \in SUBSET Arrays /\ a \in as /\ c \in as /\ i \in indices /\ j \in indices
  /\ a # c \/ i # j
  /\ Moved(bs, cs, a, i, c, j, ns)
  /\ Holds(bs, as, M) /\ ApartIn(as, bs)

\* It keeps the elements of the arrays, each in one place.
LEMMA MoveKeeps ==
  ASSUME NEW as, NEW bs, NEW cs, NEW a, NEW i, NEW c, NEW j, NEW ns, NEW M,
         MovesIn(as, bs, cs, a, i, c, j, ns, M)
  PROVE  /\ Holds(cs, as, M) /\ ApartIn(as, cs)
         /\ \A n \in Nodes, e \in as, k \in indices : n \in Elems(cs[e][k]) <=>
              IF n \in ns THEN e = c /\ k = j ELSE n \in Elems(bs[e][k])
<1>0. /\ as \in SUBSET Arrays /\ a \in as /\ c \in as /\ i \in indices /\ j \in indices
      /\ a # c \/ i # j
      /\ Moved(bs, cs, a, i, c, j, ns)
      /\ Holds(bs, as, M) /\ ApartIn(as, bs)
  BY Zenon DEF MovesIn
<1> USE <1>0
<1>1. ASSUME NEW n \in Nodes, NEW e \in as, NEW k \in indices
      PROVE  n \in Elems(cs[e][k]) <=> IF n \in ns THEN e = c /\ k = j ELSE n \in Elems(bs[e][k])
  <2>1. CASE e = a /\ k = i
    BY <2>1 DEF Moved
  <2>2. CASE e = c /\ k = j
    BY <2>2 DEF Moved
  <2>3. CASE (e # a \/ k # i) /\ (e # c \/ k # j)
    <3>1. cs[e][k] = bs[e][k]
      BY <2>3, Zenon DEF Moved
    <3>2. n \in ns => n \in Elems(bs[a][i])
      BY DEF Moved
    <3>3. n \in ns => n \notin Elems(bs[e][k])
      BY <2>3, <3>2, Zenon DEF ApartIn
    <3>. QED
      BY <2>3, <3>1, <3>3
  <2>. QED
    BY <2>1, <2>2, <2>3
<1>2. ApartIn(as, cs)
  <2> SUFFICES ASSUME NEW n \in Nodes, NEW e \in as, NEW f \in as, NEW k \in indices,
                      NEW l \in indices, n \in Elems(cs[e][k]), n \in Elems(cs[f][l])
               PROVE  e = f /\ k = l
    BY Zenon DEF ApartIn
  <2>1. CASE n \in ns
    BY <1>1, <2>1, Zenon
  <2>2. CASE n \notin ns
    <3>1. n \in Elems(bs[e][k]) /\ n \in Elems(bs[f][l])
      BY <1>1, <2>2, Zenon
    <3>. QED
      BY <3>1, Zenon DEF ApartIn
  <2>. QED
    BY <2>1, <2>2
<1>3. Holds(cs, as, M)
  <2> SUFFICES ASSUME NEW n \in Nodes
               PROVE  n \in M <=> \E e \in as, k \in indices : n \in Elems(cs[e][k])
    BY Zenon DEF Holds
  <2>1. n \in M <=> \E e \in as, k \in indices : n \in Elems(bs[e][k])
    BY Zenon DEF Holds
  <2>2. CASE n \in ns
    <3>1. n \in Elems(bs[a][i])
      BY <2>2 DEF Moved
    <3>2. n \in M
      BY <2>1, <3>1, Zenon
    <3>3. n \in Elems(cs[c][j])
      BY <1>1, <2>2, Zenon
    <3>. QED
      BY <3>2, <3>3, Zenon
  <2>3. CASE n \notin ns
    BY <1>1, <2>1, <2>3, Zenon
  <2>. QED
    BY <2>2, <2>3, Zenon
<1>. QED
  BY <1>1, <1>2, <1>3, Zenon

\* What such a move leaves of the first c buckets of an array.
LEMMA MovedKept ==
  ASSUME NEW bs, NEW cs, NEW a, NEW i, NEW c, NEW j, NEW ns, Moved(bs, cs, a, i, c, j, ns),
         NEW e \in Arrays, NEW k, Kept(bs, e, k),
         e = a => i < k, e = c => j < k
  PROVE  Kept(cs, e, k)
<1> SUFFICES ASSUME NEW x \in indices
             PROVE  IF x < k THEN cs[e][x] \in Seq(Nodes) /\ Distinct(cs[e][x])
                    ELSE cs[e][x] = <<Junk>>
  BY DEF Kept
<1>1. CASE e = a /\ x = i
  BY <1>1 DEF Moved
<1>2. CASE e = c /\ x = j
  BY <1>2 DEF Moved
<1>3. CASE (e # a \/ x # i) /\ (e # c \/ x # j)
  <2>1. cs[e][x] = bs[e][x]
    BY <1>3 DEF Moved
  <2>. QED
    BY <2>1 DEF Kept
<1>. QED
  BY <1>1, <1>2, <1>3

\* What a step of a call on t changes if it leaves the records and members alone.
GoesOn(t, as, bs, tb, ms, st, hs, lk, C, cs, su, D) ==
  /\ Worked(t, as, bs, tb, ms, st, hs, lk, C)
  /\ cs \in Memories /\ su \in [Nodes -> Nat \cup {Junk}]
  /\ \A e \in Arrays \ as, i \in indices : cs[e][i] = bs[e][i]
  /\ \A n \in Nodes : n \notin ms[t] => su[n] = st[n]
  /\ D.table = t /\ as = Owned(tb, D, t)
  /\ Holds(cs, as, ms[t]) /\ ApartIn(as, cs)
  /\ \/ D.op = "rehash" /\ Rehashing(kind, cs, tb[t], ms[t], su, hs, D)
     \/ D.op = "grow" /\ Growing(kind, cs, tb[t], ms[t], su, hs, D)

\* A step of the call leaves the other tables as they are.
LEMMA StillWorked ==
  ASSUME NEW t, NEW as, NEW bs, NEW tb, NEW ms, NEW st, NEW hs, NEW lk, NEW C, NEW cs, NEW su,
         NEW D, GoesOn(t, as, bs, tb, ms, st, hs, lk, C, cs, su, D)
  PROVE  Worked(t, as, cs, tb, ms, su, hs, lk, D)
<1>1. Worked(t, as, bs, tb, ms, st, hs, lk, C)
  BY DEF GoesOn
<1>2. t \in Tables /\ as \in SUBSET Arrays /\ Others(t, as, bs, tb, ms, st, hs, lk)
  BY <1>1 DEF Worked
<1>3. /\ hs \in Hashings /\ tb \in [Tables -> Recs] /\ ms \in [Tables -> SUBSET Nodes]
      /\ \A u, v \in Tables \ {t} : tb[u].array = tb[v].array => u = v
      /\ \A u \in Tables \ {t} : tb[u].array \notin as
      /\ \A e \in Arrays \ as : (\A u \in Tables \ {t} : e # tb[u].array) => Kept(bs, e, 0)
      /\ \A u, v \in Tables, n \in Nodes : n \in ms[u] /\ n \in ms[v] => u = v
      /\ lk = UNION {ms[u] : u \in Tables}
      /\ \A u \in Tables \ {t} : Quiet(kind, bs, tb[u], ms[u], st, hs)
  BY <1>2, Zenon DEF Others
<1>4. /\ cs \in Memories /\ su \in [Nodes -> Nat \cup {Junk}]
      /\ \A e \in Arrays \ as, i \in indices : cs[e][i] = bs[e][i]
      /\ \A n \in Nodes : n \notin ms[t] => su[n] = st[n]
  BY DEF GoesOn
<1>5. \A e \in Arrays \ as : (\A u \in Tables \ {t} : e # tb[u].array) => Kept(cs, e, 0)
  <2> SUFFICES ASSUME NEW e \in Arrays \ as, \A u \in Tables \ {t} : e # tb[u].array
               PROVE  Kept(cs, e, 0)
    BY Zenon
  <2>1. Kept(bs, e, 0)
    BY <1>3, Zenon
  <2>2. \A i \in indices : cs[e][i] = bs[e][i]
    BY <1>4, Zenon
  <2>. QED
    BY <2>1, <2>2 DEF Kept
<1>6. ASSUME NEW u \in Tables \ {t}
      PROVE  Quiet(kind, cs, tb[u], ms[u], su, hs)
  <2>1. tb[u] \in Recs /\ ms[u] \in SUBSET Nodes /\ tb[u].array \notin as
    BY <1>3, Zenon
  <2>2. /\ tb[u].array \in Arrays /\ tb[u].count \in Nat /\ tb[u].count <= MaxCount
        /\ tb[u].cache \in Nat
    BY <2>1, RecIs
  <2>3. \A i \in indices : cs[tb[u].array][i] = bs[tb[u].array][i]
    BY <1>4, <2>1, <2>2, Zenon
  <2>4. \A n \in ms[u] : su[n] = st[n] /\ hs[Key[n]] = hs[Key[n]]
    BY <1>2, <1>3, <1>4, <2>1
  <2>. QED
    BY <1>3, <2>1, <2>2, <2>3, <2>4, QuietFrame
<1>7. Others(t, as, cs, tb, ms, su, hs, lk)
  BY <1>3, <1>4, <1>5, <1>6, Zenon DEF Others
<1>. QED
  BY <1>2, <1>7 DEF GoesOn, Worked
-----------------------------------------------------------------------------
(* Rehash: one element after the other.                                    *)

\* What a rehash that is under way is.
LEMMA RehashIs ==
  ASSUME kind \in Kinds, NEW bs \in Memories, NEW T \in Recs, NEW M \in SUBSET Nodes, NEW st,
         NEW hs \in Hashings, NEW C, Rehashing(kind, bs, T, M, st, hs, C)
  PROVE  /\ C \in RehashCalls
         /\ C.op = "rehash" /\ C.table \in Tables /\ C.array \in Arrays /\ C.count \in Counts
         /\ C.count \in Nat /\ 1 <= C.count /\ C.count <= MaxCount
         /\ C.full \in BOOLEAN /\ C.fast \in BOOLEAN /\ C.n \in Nat /\ C.before_i \in Nat
         /\ C.first \in Nat /\ C.size_backup \in Nat
         /\ C.n <= T.count
         /\ \A i \in indices : i < T.count => bs[T.array][i] \in Seq(Nodes) /\ Distinct(bs[T.array][i])
         /\ \A i \in indices : i < C.count => bs[C.array][i] \in Seq(Nodes) /\ Distinct(bs[C.array][i])
         /\ \A i \in 0..(T.count - 1) : i \in indices
         /\ \A i \in 0..(C.count - 1) : i \in indices
<1>1. C \in RehashCalls /\ C.n <= T.count /\ BothKept(bs, T, C)
  BY DEF Rehashing
<1>2. /\ C.op = "rehash" /\ C.table \in Tables /\ C.array \in Arrays /\ C.count \in Counts
      /\ C.full \in BOOLEAN /\ C.fast \in BOOLEAN /\ C.n \in Nat /\ C.before_i \in Nat
      /\ C.first \in Nat /\ C.size_backup \in Nat
  BY <1>1 DEF RehashCalls
<1>3. C.count \in Nat /\ 1 <= C.count /\ C.count <= MaxCount
  BY <1>2, CountIs
<1>4. \A i \in 0..(C.count - 1) : i \in indices
  BY <1>3, CountIs DEF indices
<1>5. \A i \in 0..(T.count - 1) : i \in indices
  BY RecIs
<1>6. \A i \in indices : i < T.count => bs[T.array][i] \in Seq(Nodes) /\ Distinct(bs[T.array][i])
  BY <1>1 DEF BothKept
<1>7. \A i \in indices : i < C.count => bs[C.array][i] \in Seq(Nodes) /\ Distinct(bs[C.array][i])
  BY <1>1 DEF BothKept
<1>. QED
  BY <1>1, <1>2, <1>3, <1>4, <1>5, <1>6, <1>7

\* Where the elements go.
LEMMA TargetIs ==
  ASSUME kind \in Kinds, NEW hs \in Hashings, NEW C, C.count \in Nat, 1 <= C.count,
         Shaped(kind, [count |-> C.count, split |-> C.count]), NEW n \in Nodes
  PROVE  /\ Target(kind, C, hs, n) \in 0..(C.count - 1)
         /\ Target(kind, C, hs, n) = hs[Key[n]] % C.count
<1>1. kind.incremental => C.count = 2 * (C.count \div 2) /\ C.count \div 2 <= C.count
  BY DEF Shaped
<1>2. hs[Key[n]] \in Nat /\ kind.incremental \in BOOLEAN
  BY HashIs, KindIs
<1>3. /\ Target(kind, C, hs, n) \in 0..(C.count - 1)
      /\ Target(kind, C, hs, n) = hs[Key[n]] % C.count
  <2>1. C.count > 0
    OBVIOUS
  <2>. QED
    BY <1>1, <1>2, <2>1, SplitIn DEF Target
<1>. QED
  BY <1>3

\* The loop of C comes to element n, which goes to bucket j; D is what it has of
\* the first used bucket then.
Visits(bs, T, M, st, hs, C, b, n, j, su, D) ==
  /\ kind \in Kinds /\ bs \in Memories /\ T \in Recs /\ M \in SUBSET Nodes
  /\ hs \in Hashings
  /\ Rehashing(kind, bs, T, M, st, hs, C) /\ ~C.fast /\ C.n < T.count
  /\ b = bs[T.array][C.n] /\ C.before_i < Len(b) /\ n = b[C.before_i + 1]
  /\ j = Target(kind, C, hs, n)
  /\ \A m \in Nodes : m # n => su[m] = st[m]
  /\ kind.store => su[n] = hs[Key[n]]
  /\ D \in RehashCalls /\ D.table = C.table /\ D.array = C.array /\ D.count = C.count
  /\ D.full = C.full /\ D.fast = C.fast /\ D.n = C.n /\ D.size_backup = C.size_backup
  /\ D.first = IF kind.cache /\ j < C.first THEN j ELSE C.first

\* What the loop knows of the element it has come to.
LEMMA VisitIs ==
  ASSUME NEW bs, NEW T, NEW M, NEW st, NEW hs, NEW C, NEW b, NEW n, NEW j, NEW su, NEW D,
         Visits(bs, T, M, st, hs, C, b, n, j, su, D)
  PROVE  /\ b \in Seq(Nodes) /\ Distinct(b) /\ Len(b) \in Nat /\ DOMAIN b = 1..Len(b)
         /\ C.before_i \in Nat /\ C.before_i + 1 \in 1..Len(b)
         /\ n \in Nodes /\ n \in M /\ n \in Elems(b)
         /\ C.n \in indices /\ C.n \in Nat /\ C.n < T.count
         /\ j \in Nat /\ j < C.count /\ j \in indices
         /\ C.first \in Nat /\ C.count \in Nat
         /\ \A m \in Nodes : Target(kind, D, hs, m) = Target(kind, C, hs, m)
         /\ \A e, i, m : m \in Nodes /\ i \in Nat /\ Settled(kind, C, st, hs, e, i, m)
                           => Settled(kind, D, su, hs, e, i, m)
         /\ Settled(kind, D, su, hs, C.array, j, n)
         /\ kind.cache => D.first <= C.count
         /\ C.full \/ Hashed(kind, M, su, hs)
<1>0. /\ kind \in Kinds /\ bs \in Memories /\ T \in Recs /\ M \in SUBSET Nodes /\ hs \in Hashings
      /\ Rehashing(kind, bs, T, M, st, hs, C) /\ ~C.fast /\ C.n < T.count
      /\ b = bs[T.array][C.n] /\ C.before_i < Len(b) /\ n = b[C.before_i + 1]
      /\ j = Target(kind, C, hs, n)
      /\ \A m \in Nodes : m # n => su[m] = st[m]
      /\ kind.store => su[n] = hs[Key[n]]
      /\ D.array = C.array /\ D.count = C.count
      /\ D.first = IF kind.cache /\ j < C.first THEN j ELSE C.first
  BY Zenon DEF Visits
<1>1. /\ C.n \in Nat /\ C.before_i \in Nat /\ C.first \in Nat /\ C.count \in Nat /\ 1 <= C.count
      /\ C.array \in Arrays
      /\ \A i \in indices : i < T.count => bs[T.array][i] \in Seq(Nodes) /\ Distinct(bs[T.array][i])
      /\ \A i \in 0..(T.count - 1) : i \in indices
      /\ \A i \in 0..(C.count - 1) : i \in indices
  BY <1>0, RehashIs, Zenon
<1>2. T.count \in Nat /\ T.array \in Arrays
  BY <1>0, RecIs, Zenon
<1>3. C.n \in indices
  <2>1. C.n \in Nat /\ C.n < T.count
    BY <1>0, <1>1, Zenon
  <2>2. \A i \in 0..(T.count - 1) : i \in indices
    BY <1>1
  <2>. QED
    BY <1>2, <2>1, <2>2
<1>4. b \in Seq(Nodes) /\ Distinct(b)
  BY <1>0, <1>1, <1>3, Zenon
<1>5. Len(b) \in Nat /\ DOMAIN b = 1..Len(b)
  BY <1>4, ElemsOfSeq
<1>6. C.before_i + 1 \in 1..Len(b)
  <2>1. C.before_i \in Nat /\ C.before_i < Len(b)
    BY <1>0, <1>1, Zenon
  <2>. QED
    BY <1>5, <2>1
<1>7. n \in Elems(b) /\ n \in Nodes
  <2>1. n = b[C.before_i + 1]
    BY <1>0, Zenon
  <2>. QED
    BY <1>4, <1>6, <2>1, ElemsOfSeq
<1>8. n \in M
  <2>1. Holds(bs, {T.array, C.array}, M)
    BY <1>0, Zenon DEF Rehashing
  <2>2. n \in Elems(bs[T.array][C.n])
    BY <1>0, <1>7, Zenon
  <2>. QED
    BY <1>3, <1>7, <2>1, <2>2 DEF Holds
<1>9. j \in 0..(C.count - 1)
  <2>1. Shaped(kind, [count |-> C.count, split |-> C.count])
    BY <1>0, Zenon DEF Rehashing
  <2>. QED
    BY <1>0, <1>1, <1>7, <2>1, TargetIs, Zenon
<1>10. j \in Nat /\ j < C.count /\ j \in indices
  BY <1>1, <1>9
<1>11. D.first \in Nat /\ D.first <= C.first /\ (kind.cache => D.first <= j)
  <2>1. D.first = IF kind.cache /\ j < C.first THEN j ELSE C.first
    BY <1>0, Zenon
  <2>2. C.first \in Nat
    BY <1>1
  <2>. QED
    BY <1>10, <2>1, <2>2
<1>12. \A m \in Nodes : Target(kind, D, hs, m) = Target(kind, C, hs, m)
  BY <1>0, Zenon DEF Target
<1>13. ASSUME NEW e, NEW i, NEW m, m \in Nodes, i \in Nat, Settled(kind, C, st, hs, e, i, m)
       PROVE  Settled(kind, D, su, hs, e, i, m)
  <2>1. /\ e = C.array /\ i = Target(kind, C, hs, m)
        /\ kind.store => st[m] = hs[Key[m]]
        /\ kind.cache => C.first <= i
    BY <1>13 DEF Settled
  <2>2. kind.store => su[m] = hs[Key[m]]
    BY <1>0, <1>13, <2>1, Zenon
  <2>3. kind.cache => D.first <= i
    BY <1>1, <1>11, <1>13, <2>1
  <2>. QED
    BY <1>0, <1>12, <1>13, <2>1, <2>2, <2>3, Zenon DEF Settled
<1>14. Settled(kind, D, su, hs, C.array, j, n)
  BY <1>0, <1>7, <1>11, <1>12, Zenon DEF Settled
<1>15. kind.cache => D.first <= C.count
  BY <1>1, <1>10, <1>11
<1>16. C.full \/ Hashed(kind, M, su, hs)
  <2>1. C.full \/ Hashed(kind, M, st, hs)
    BY <1>0, Zenon DEF Rehashing, MovesEach
  <2>. QED
    BY <1>0, <2>1, Zenon DEF Hashed
<1>. QED
  BY <1>0, <1>1, <1>3, <1>4, <1>5, <1>6, <1>7, <1>8, <1>10, <1>12, <1>13, <1>14, <1>15, <1>16, Zenon

\* It stays where it is, and is passed.
LEMMA EachStays ==
  ASSUME NEW bs, NEW T, NEW M, NEW st, NEW hs, NEW C, NEW b, NEW n, NEW j, NEW su, NEW D,
         Visits(bs, T, M, st, hs, C, b, n, j, su, D),
         C.array = T.array, j = C.n, D.before_i = C.before_i + 1
  PROVE  Rehashing(kind, bs, T, M, su, hs, D)
<1>0. /\ Rehashing(kind, bs, T, M, st, hs, C) /\ ~C.fast
      /\ b = bs[T.array][C.n] /\ n = b[C.before_i + 1]
      /\ D \in RehashCalls /\ D.array = C.array /\ D.count = C.count
      /\ D.full = C.full /\ D.fast = C.fast /\ D.n = C.n /\ D.size_backup = C.size_backup
      /\ D.first = IF kind.cache /\ j < C.first THEN j ELSE C.first
      /\ j = Target(kind, C, hs, n)
      /\ T \in Recs
  BY Zenon DEF Visits
<1>1. /\ b \in Seq(Nodes) /\ Distinct(b) /\ Len(b) \in Nat /\ DOMAIN b = 1..Len(b)
      /\ C.before_i \in Nat /\ C.before_i + 1 \in 1..Len(b)
      /\ n \in Nodes /\ n \in M /\ n \in Elems(b)
      /\ C.n \in indices /\ C.n \in Nat /\ C.n < T.count
      /\ C.first \in Nat /\ C.count \in Nat
      /\ \A m \in Nodes : Target(kind, D, hs, m) = Target(kind, C, hs, m)
      /\ \A e, i, m : m \in Nodes /\ i \in Nat /\ Settled(kind, C, st, hs, e, i, m)
                        => Settled(kind, D, su, hs, e, i, m)
      /\ Settled(kind, D, su, hs, C.array, j, n)
      /\ kind.cache => D.first <= C.count
      /\ C.full \/ Hashed(kind, M, su, hs)
  BY VisitIs
<1>2. MovesEach(kind, bs, T, M, st, hs, C)
  BY <1>0, Zenon DEF Rehashing
<1>3. D.n < T.count => D.before_i <= Len(bs[T.array][D.n])
  <2>1. bs[T.array][D.n] = b
    BY <1>0, Zenon
  <2>2. C.before_i + 1 \in 1..Len(b) /\ Len(b) \in Nat
    BY <1>1
  <2>. QED
    BY <2>1, <2>2
<1>4. IF D.full THEN D.array = T.array /\ D.count = T.count ELSE Hashed(kind, M, su, hs)
  BY <1>0, <1>1, <1>2, Zenon DEF MovesEach
<1>5. ASSUME NEW a \in {T.array, D.array}, NEW i \in indices, NEW m \in Nodes,
             m \in Elems(bs[a][i]), Passed(T, D, a, i)
      PROVE  Settled(kind, D, su, hs, a, i, m)
  <2>1. Passed(T, C, a, i)
    BY <1>0, <1>5, Zenon DEF Passed
  <2>2. Settled(kind, C, st, hs, a, i, m)
    BY <1>0, <1>2, <1>5, <2>1, Zenon DEF MovesEach
  <2>3. i \in Nat
    BY CountIs DEF indices
  <2>. QED
    BY <1>1, <2>2, <2>3
<1>6. ASSUME NEW x \in 1..D.before_i
      PROVE  Settled(kind, D, su, hs, T.array, D.n, bs[T.array][D.n][x])
  <2>1. CASE x = C.before_i + 1
    <3>1. Settled(kind, D, su, hs, C.array, j, n)
      BY <1>1
    <3>2. /\ b = bs[T.array][C.n] /\ n = b[C.before_i + 1] /\ D.n = C.n
      BY <1>0, Zenon
    <3>3. n = bs[T.array][D.n][x]
      BY <2>1, <3>2
    <3>. QED
      BY <3>1, <3>2, <3>3
  <2>2. CASE x # C.before_i + 1
    <3>1. x \in 1..C.before_i /\ x \in 1..Len(b)
      <4>1. C.before_i + 1 \in 1..Len(b) /\ Len(b) \in Nat /\ C.before_i \in Nat
        BY <1>1
      <4>. QED
        BY <2>2, <4>1
    <3>2. b[x] \in Nodes
      BY <1>1, <3>1, ElemsOfSeq
    <3>3. Settled(kind, C, st, hs, T.array, C.n, b[x])
      BY <1>0, <1>1, <1>2, <3>1, Zenon DEF MovesEach
    <3>. QED
      BY <1>0, <1>1, <3>2, <3>3, Zenon
  <2>. QED
    BY <2>1, <2>2
<1>7. kind.cache /\ D.first < D.count =>
        \E m \in Elems(bs[D.array][D.first]) : Target(kind, D, hs, m) = D.first
  <2> SUFFICES ASSUME kind.cache, D.first < D.count
               PROVE  \E m \in Elems(bs[D.array][D.first]) : Target(kind, D, hs, m) = D.first
    OBVIOUS
  <2>1. CASE j < C.first
    <3>1. D.first = j /\ bs[D.array][D.first] = b
      BY <1>0, <2>1, Zenon
    <3>2. Target(kind, D, hs, n) = j
      BY <1>0, <1>1, Zenon
    <3>. QED
      BY <1>1, <3>1, <3>2
  <2>2. CASE ~(j < C.first)
    <3>1. D.first = C.first
      BY <1>0, <2>2, Zenon
    <3>2. PICK m \in Elems(bs[C.array][C.first]) : Target(kind, C, hs, m) = C.first
      BY <1>0, <1>2, <3>1, Zenon DEF MovesEach
    <3>3. Target(kind, D, hs, m) = C.first
      BY <1>0, <3>2, Zenon DEF Target
    <3>. QED
      BY <1>0, <3>1, <3>2, <3>3, Zenon
  <2>. QED
    BY <2>1, <2>2
<1>8. MovesEach(kind, bs, T, M, su, hs, D)
  BY <1>3, <1>4, <1>5, <1>6, <1>7 DEF MovesEach
<1>9. /\ Shaped(kind, T) /\ Shaped(kind, [count |-> D.count, split |-> D.count])
      /\ Holds(bs, {T.array, D.array}, M)
      /\ T.cache = IF kind.cache THEN T.count ELSE 0
      /\ T.size = 0
      /\ Sized(kind, D.size_backup, M)
      /\ D.n <= T.count
  BY <1>0, Zenon DEF Rehashing
<1>10. BothKept(bs, T, D)
  BY <1>0, Zenon DEF Rehashing, BothKept
<1>11. kind.cache => D.first <= D.count
  BY <1>0, <1>1, Zenon
<1>. QED
  BY <1>0, <1>8, <1>9, <1>10, <1>11, Zenon DEF Rehashing

\* The buckets of both arrays after a move between two of them.
LEMMA BothKeptMoved ==
  ASSUME NEW bs, NEW cs, NEW T, NEW C, NEW D, NEW i, NEW j, NEW ns,
         BothKept(bs, T, C), Moved(bs, cs, T.array, i, C.array, j, ns),
         T.array \in Arrays, C.array \in Arrays,
         i < T.count, j < C.count, D.array = C.array, D.count = C.count
  PROVE  BothKept(cs, T, D)
<1> SUFFICES ASSUME NEW a \in {T.array, C.array}, NEW k \in indices
             PROVE  IF (a = T.array /\ k < T.count) \/ (a = C.array /\ k < C.count)
                    THEN cs[a][k] \in Seq(Nodes) /\ Distinct(cs[a][k])
                    ELSE cs[a][k] = <<Junk>>
  BY DEF BothKept
<1>1. CASE a = T.array /\ k = i
  BY <1>1 DEF Moved
<1>2. CASE a = C.array /\ k = j
  BY <1>2 DEF Moved
<1>3. CASE (a # T.array \/ k # i) /\ (a # C.array \/ k # j)
  <2>1. cs[a][k] = bs[a][k]
    BY <1>3 DEF Moved
  <2>. QED
    BY <2>1 DEF BothKept
<1>. QED
  BY <1>1, <1>2, <1>3

\* It moves to the front of bucket j; ns is the set of it, and u what is left.
Takes(as, bs, cs, T, M, C, b, n, j, ns, u) ==
  /\ as = {T.array, C.array}
  /\ \A m : m \in ns <=> m = n
  /\ MovesIn(as, bs, cs, T.array, C.n, C.array, j, ns, M)
  /\ u = cs[T.array][C.n] /\ Len(u) = Len(b) - 1
  /\ \A x \in 1..C.before_i : u[x] = b[x]

\* The element moves, and the loop is where it was, one element on.
LEMMA EachMoves ==
  ASSUME NEW bs, NEW T, NEW M, NEW st, NEW hs, NEW C, NEW b, NEW n, NEW j, NEW su, NEW D,
         Visits(bs, T, M, st, hs, C, b, n, j, su, D), D.before_i = C.before_i,
         NEW as, NEW cs, NEW ns, NEW u, Takes(as, bs, cs, T, M, C, b, n, j, ns, u)
  PROVE  Rehashing(kind, cs, T, M, su, hs, D)
<1>a. /\ as = {T.array, C.array}
      /\ \A m : m \in ns <=> m = n
      /\ MovesIn(as, bs, cs, T.array, C.n, C.array, j, ns, M)
      /\ u = cs[T.array][C.n] /\ Len(u) = Len(b) - 1
      /\ \A x \in 1..C.before_i : u[x] = b[x]
  BY DEF Takes
<1> USE <1>a
<1>0. /\ Rehashing(kind, bs, T, M, st, hs, C) /\ ~C.fast
      /\ b = bs[T.array][C.n] /\ n = b[C.before_i + 1]
      /\ D \in RehashCalls /\ D.array = C.array /\ D.count = C.count
      /\ D.full = C.full /\ D.fast = C.fast /\ D.n = C.n /\ D.size_backup = C.size_backup
      /\ D.first = IF kind.cache /\ j < C.first THEN j ELSE C.first
      /\ j = Target(kind, C, hs, n)
      /\ T \in Recs
  BY Zenon DEF Visits
<1>1. /\ b \in Seq(Nodes) /\ Distinct(b) /\ Len(b) \in Nat /\ DOMAIN b = 1..Len(b)
      /\ C.before_i \in Nat /\ C.before_i + 1 \in 1..Len(b)
      /\ n \in Nodes /\ n \in M /\ n \in Elems(b)
      /\ C.n \in indices /\ C.n \in Nat /\ C.n < T.count
      /\ j \in Nat /\ j < C.count /\ j \in indices
      /\ C.first \in Nat /\ C.count \in Nat
      /\ \A m \in Nodes : Target(kind, D, hs, m) = Target(kind, C, hs, m)
      /\ \A e, i, m : m \in Nodes /\ i \in Nat /\ Settled(kind, C, st, hs, e, i, m)
                        => Settled(kind, D, su, hs, e, i, m)
      /\ Settled(kind, D, su, hs, C.array, j, n)
      /\ kind.cache => D.first <= C.count
      /\ C.full \/ Hashed(kind, M, su, hs)
  BY VisitIs
<1>2. MovesEach(kind, bs, T, M, st, hs, C)
  BY <1>0, Zenon DEF Rehashing
<1>3. /\ as \in SUBSET Arrays
      /\ Moved(bs, cs, T.array, C.n, C.array, j, ns)
      /\ Holds(cs, as, M)
      /\ \A m \in Nodes, e \in as, k \in indices : m \in Elems(cs[e][k]) <=>
           IF m \in ns THEN e = C.array /\ k = j ELSE m \in Elems(bs[e][k])
  BY MoveKeeps DEF MovesIn
<1>4. D.n < T.count => D.before_i <= Len(cs[T.array][D.n])
  <2>1. cs[T.array][D.n] = u
    BY <1>0, Zenon
  <2>2. C.before_i + 1 \in 1..Len(b) /\ Len(b) \in Nat /\ C.before_i \in Nat
    BY <1>1, Zenon
  <2>. QED
    BY <2>1, <2>2
<1>5. IF D.full THEN D.array = T.array /\ D.count = T.count ELSE Hashed(kind, M, su, hs)
  BY <1>0, <1>1, <1>2, Zenon DEF MovesEach
<1>6. ASSUME NEW a \in {T.array, D.array}, NEW i \in indices, NEW m \in Nodes,
             m \in Elems(cs[a][i]), Passed(T, D, a, i)
      PROVE  Settled(kind, D, su, hs, a, i, m)
  <2>0. a \in as
    BY <1>0, Zenon
  <2>1. CASE m = n
    <3>1. a = C.array /\ i = j
      BY <1>3, <1>6, <2>0, <2>1
    <3>. QED
      BY <1>1, <2>1, <3>1, Zenon
  <2>2. CASE m # n
    <3>1. m \in Elems(bs[a][i])
      BY <1>3, <1>6, <2>0, <2>2
    <3>2. Passed(T, C, a, i)
      BY <1>0, <1>6, Zenon DEF Passed
    <3>3. Settled(kind, C, st, hs, a, i, m)
      BY <1>0, <1>2, <1>6, <3>1, <3>2, Zenon DEF MovesEach
    <3>4. i \in Nat
      BY CountIs DEF indices
    <3>. QED
      BY <1>1, <3>3, <3>4, Zenon
  <2>. QED
    BY <2>1, <2>2
<1>7. ASSUME NEW x \in 1..D.before_i
      PROVE  Settled(kind, D, su, hs, T.array, D.n, cs[T.array][D.n][x])
  <2>1. x \in 1..C.before_i /\ x \in 1..Len(b)
    <3>1. C.before_i + 1 \in 1..Len(b) /\ Len(b) \in Nat /\ C.before_i \in Nat
      BY <1>1, Zenon
    <3>. QED
      BY <3>1
  <2>2. b[x] \in Nodes
    BY <1>1, <2>1, ElemsOfSeq, Zenon
  <2>3. Settled(kind, C, st, hs, T.array, C.n, b[x])
    BY <1>0, <1>1, <1>2, <2>1, Zenon DEF MovesEach
  <2>4. cs[T.array][D.n][x] = b[x]
    BY <1>0, <2>1, Zenon
  <2>. QED
    BY <1>0, <1>1, <2>2, <2>3, <2>4, Zenon
<1>8. kind.cache /\ D.first < D.count =>
        \E m \in Elems(cs[D.array][D.first]) : Target(kind, D, hs, m) = D.first
  <2> SUFFICES ASSUME kind.cache, D.first < D.count
               PROVE  \E m \in Elems(cs[D.array][D.first]) : Target(kind, D, hs, m) = D.first
    OBVIOUS
  <2>0. n \in Elems(cs[C.array][j]) /\ Target(kind, D, hs, n) = j
    <3>1. C.array \in as
      OBVIOUS
    <3>2. n \in ns
      OBVIOUS
    <3>3. n \in Nodes /\ j \in indices
      BY <1>1, Zenon
    <3>4. n \in Elems(cs[C.array][j])
      BY <1>3, <3>1, <3>2, <3>3
    <3>. QED
      BY <1>0, <1>1, <3>4, Zenon
  <2>1. CASE j < C.first
    BY <1>0, <2>0, <2>1, Zenon
  <2>2. CASE ~(j < C.first)
    <3>1. D.first = C.first
      BY <1>0, <2>2, Zenon
    <3>2. PICK m \in Elems(bs[C.array][C.first]) : Target(kind, C, hs, m) = C.first
      BY <1>0, <1>2, <3>1, Zenon DEF MovesEach
    <3>3. CASE m = n
      BY <1>0, <2>0, <3>1, <3>2, <3>3, Zenon
    <3>4. CASE m # n
      <4>1. C.first \in indices /\ C.first < C.count
        <5>1. C.first \in Nat /\ C.count \in Nat /\ C.first < C.count
          BY <1>0, <1>1, <3>1, Zenon
        <5>2. \A i \in 0..(C.count - 1) : i \in indices
          BY <1>0, RehashIs, Zenon DEF Visits
        <5>. QED
          BY <5>1, <5>2
      <4>2. m \in Nodes
        <5>1. bs[C.array][C.first] \in Seq(Nodes)
          BY <1>0, <4>1, Zenon DEF Rehashing, BothKept
        <5>. QED
          BY <3>2, <5>1, ElemsOfSeq
      <4>3. m \in Elems(cs[C.array][C.first])
        BY <1>3, <3>2, <3>4, <4>1, <4>2
      <4>4. Target(kind, D, hs, m) = C.first
        BY <1>1, <3>2, <4>2, Zenon
      <4>. QED
        BY <1>0, <3>1, <4>3, <4>4, Zenon
    <3>. QED
      BY <3>3, <3>4
  <2>. QED
    BY <2>1, <2>2
<1>9. MovesEach(kind, cs, T, M, su, hs, D)
  BY <1>4, <1>5, <1>6, <1>7, <1>8 DEF MovesEach
<1>10. /\ Shaped(kind, T) /\ Shaped(kind, [count |-> D.count, split |-> D.count])
       /\ T.cache = IF kind.cache THEN T.count ELSE 0
       /\ T.size = 0
       /\ Sized(kind, D.size_backup, M)
       /\ D.n <= T.count
  BY <1>0, Zenon DEF Rehashing
<1>11. Holds(cs, {T.array, D.array}, M)
  BY <1>0, <1>3, Zenon
<1>12. BothKept(cs, T, D)
  <2>1. BothKept(bs, T, C)
    BY <1>0, Zenon DEF Rehashing
  <2>. QED
    BY <1>0, <1>1, <1>3, <2>1, BothKeptMoved, Zenon
<1>13. kind.cache => D.first <= D.count
  BY <1>0, <1>1, Zenon
<1>. QED
  BY <1>0, <1>9, <1>10, <1>11, <1>12, <1>13, Zenon DEF Rehashing

\* The loop is through with bucket n.
LEMMA EachNext ==
  ASSUME kind \in Kinds, NEW bs \in Memories, NEW T \in Recs, NEW M \in SUBSET Nodes, NEW st,
         NEW hs \in Hashings, NEW C, Rehashing(kind, bs, T, M, st, hs, C), ~C.fast,
         C.n < T.count, C.before_i = Len(bs[T.array][C.n]),
         NEW D, D \in RehashCalls, D.array = C.array, D.count = C.count, D.full = C.full,
         D.fast = C.fast, D.n = C.n + 1, D.before_i = 0, D.first = C.first,
         D.size_backup = C.size_backup
  PROVE  Rehashing(kind, bs, T, M, st, hs, D)
<1>1. MovesEach(kind, bs, T, M, st, hs, C)
  BY DEF Rehashing
<1>2. C.n \in Nat /\ T.count \in Nat /\ C.n \in indices /\ T.array \in Arrays
  <2>1. C.n \in Nat /\ T.count \in Nat /\ T.array \in Arrays
    BY RehashIs, RecIs, Zenon
  <2>2. \A i \in 0..(T.count - 1) : i \in indices
    BY RecIs
  <2>. QED
    BY <2>1, <2>2
<1>3. \A e, i, m : Settled(kind, C, st, hs, e, i, m) => Settled(kind, D, st, hs, e, i, m)
  BY DEF Settled, Target
<1>4. ASSUME NEW a \in {T.array, D.array}, NEW i \in indices, NEW m \in Nodes,
             m \in Elems(bs[a][i]), Passed(T, D, a, i)
      PROVE  Settled(kind, D, st, hs, a, i, m)
  <2>1. CASE a = T.array /\ i = C.n
    <3>1. bs[T.array][C.n] \in Seq(Nodes)
      BY <1>2 DEF Rehashing, BothKept
    <3>2. PICK x \in 1..C.before_i : bs[T.array][C.n][x] = m
      <4>1. m \in Elems(bs[T.array][C.n])
        BY <1>4, <2>1
      <4>2. \E x \in 1..Len(bs[T.array][C.n]) : bs[T.array][C.n][x] = m
        BY <3>1, <4>1, ElemsOfSeq
      <4>. QED
        BY <4>2
    <3>3. Settled(kind, C, st, hs, T.array, C.n, m)
      BY <1>1, <3>2 DEF MovesEach
    <3>. QED
      BY <1>3, <2>1, <3>3
  <2>2. CASE ~(a = T.array /\ i = C.n)
    <3>1. i \in Nat
      BY CountIs DEF indices
    <3>2. Passed(T, C, a, i)
      BY <1>2, <1>4, <2>2, <3>1 DEF Passed
    <3>. QED
      BY <1>1, <1>3, <1>4, <3>2 DEF MovesEach
  <2>. QED
    BY <2>1, <2>2
<1>5. D.n < T.count => D.before_i <= Len(bs[T.array][D.n])
  <2> SUFFICES ASSUME D.n < T.count
               PROVE  0 <= Len(bs[T.array][D.n])
    OBVIOUS
  <2>1. D.n \in 0..(T.count - 1)
    BY <1>2
  <2>0. \A i \in 0..(T.count - 1) : i \in indices
    BY RecIs
  <2>2. D.n \in indices /\ D.n < T.count
    BY <2>0, <2>1
  <2>3. bs[T.array][D.n] \in Seq(Nodes)
    BY <2>2 DEF Rehashing, BothKept
  <2>. QED
    BY <2>3, ElemsOfSeq
<1>6. kind.cache /\ D.first < D.count =>
        \E m \in Elems(bs[D.array][D.first]) : Target(kind, D, hs, m) = D.first
  BY <1>1 DEF MovesEach, Target
<1>7. MovesEach(kind, bs, T, M, st, hs, D)
  BY <1>1, <1>4, <1>5, <1>6 DEF MovesEach
<1>8. BothKept(bs, T, D)
  BY DEF Rehashing, BothKept
<1>9. D.n <= T.count
  BY <1>2
<1>. QED
  BY <1>7, <1>8, <1>9 DEF Rehashing
-----------------------------------------------------------------------------
(* The steps of a rehash.                                                   *)

\* What no step of a rehash changes.
SameRehash(C, D) ==
  /\ D \in RehashCalls /\ D.op = "rehash" /\ D.table = C.table /\ D.array = C.array
  /\ D.count = C.count /\ D.full = C.full /\ D.fast = C.fast /\ D.size_backup = C.size_backup

\* What the steps change of it.
SetVisited(C, D, x, y) == D = [C EXCEPT !.first = x, !.before_i = y]
SetNext(C, D, x, y)    == D = [C EXCEPT !.n = x, !.before_i = y]
SetFilled(C, D, x, y)  == D = [C EXCEPT !.n = x, !.first = y]

\* The call after one more element.
LEMMA RehashVisits ==
  ASSUME NEW C \in RehashCalls, NEW x \in Nat, NEW y \in Nat, NEW D, SetVisited(C, D, x, y)
  PROVE  SameRehash(C, D) /\ D.n = C.n /\ D.first = x /\ D.before_i = y
BY Zenon DEF SameRehash, RehashCalls, SetVisited

\* The call at the beginning of the next bucket.
LEMMA RehashNexts ==
  ASSUME NEW C \in RehashCalls, NEW x \in Nat, NEW y \in Nat, NEW D, SetNext(C, D, x, y)
  PROVE  SameRehash(C, D) /\ D.n = x /\ D.first = C.first /\ D.before_i = y
BY Zenon DEF SameRehash, RehashCalls, SetNext

\* The call after one more bucket of a fast shrink.
LEMMA RehashFills ==
  ASSUME NEW C \in RehashCalls, NEW x \in Nat, NEW y \in Nat, NEW D, SetFilled(C, D, x, y)
  PROVE  SameRehash(C, D) /\ D.n = x /\ D.first = y /\ D.before_i = C.before_i
BY Zenon DEF SameRehash, RehashCalls, SetFilled

\* A rehash under way.
RehashingNow(t, T, M) ==
  /\ kind \in Kinds
  /\ t = call.table /\ T = tab[t] /\ M = members[t]
  /\ t \in Tables /\ T \in Recs /\ M \in SUBSET Nodes
  /\ buckets \in Memories /\ hashing \in Hashings /\ stored \in [Nodes -> Nat \cup {Junk}]
  /\ tab \in [Tables -> Recs] /\ members \in [Tables -> SUBSET Nodes]
  /\ call \in RehashCalls /\ call.op = "rehash"
  /\ Rehashing(kind, buckets, T, M, stored, hashing, call)
  /\ Owned(tab, call, t) = {T.array, call.array}
  /\ T.array \in Arrays /\ call.array \in Arrays
  /\ Worked(t, Owned(tab, call, t), buckets, tab, members, stored, hashing, linked, call)
  /\ pending = None \/ Committable(kind, tab, hashing, call, pending)
  /\ ~kind.multi => group = [n \in Nodes |-> Junk]

\* What the invariant says of a rehash in progress.
LEMMA RehashIsNow ==
  ASSUME IBase, in("rehash"), NEW t, t = call.table, NEW T, T = tab[t], NEW M, M = members[t]
  PROVE  RehashingNow(t, T, M)
<1>0. call.op = "rehash"
  BY DEF in
<1>1. /\ Worked(t, Owned(tab, call, t), buckets, tab, members, stored, hashing, linked, call)
      /\ pending = None \/ Committable(kind, tab, hashing, call, pending)
      /\ kind \in Kinds
      /\ ~kind.multi => group = [n \in Nodes |-> Junk]
  BY <1>0, BaseIsWorked
<1>2. /\ t \in Tables /\ Owned(tab, call, t) = {T.array, call.array}
      /\ Rehashing(kind, buckets, T, M, stored, hashing, call)
  BY <1>0, CallIs
<1>3. /\ buckets \in Memories /\ hashing \in Hashings /\ stored \in [Nodes -> Nat \cup {Junk}]
      /\ tab \in [Tables -> Recs] /\ members \in [Tables -> SUBSET Nodes]
  BY DEF IBase, Types, Memories
<1>4. T \in Recs /\ M \in SUBSET Nodes
  BY <1>2, <1>3
<1>5. T.array \in Arrays
  BY <1>4, RecIs
<1>6. call \in RehashCalls /\ call.array \in Arrays
  BY <1>2 DEF Rehashing, RehashCalls
<1>. QED
  BY <1>0, <1>1, <1>2, <1>3, <1>4, <1>5, <1>6 DEF RehashingNow

\* The hash of the next element, stored or computed.
LEMMA NextHash ==
  ASSUME NEW t, NEW T, NEW M, RehashingNow(t, T, M),
         ~call.fast, NEW n \in M, n \in Nodes
  PROVE  /\ (IF call.full THEN hashing[Key[n]] ELSE priv_stored_or_compute_hash(n)) = hashing[Key[n]]
         /\ new_n(hashing[Key[n]]) = Target(kind, call, hashing, n)
<1>1. MovesEach(kind, buckets, T, M, stored, hashing, call)
  BY DEF RehashingNow, Rehashing
<1>2. ~call.full => Hashed(kind, M, stored, hashing)
  BY <1>1 DEF MovesEach
<1>3. ~call.full => priv_stored_or_compute_hash(n) = hashing[Key[n]]
  BY <1>2 DEF Hashed, priv_stored_or_compute_hash
<1>. QED
  BY <1>3 DEF new_n, Target

\* A step of a rehash that leaves the records and the members alone.
LEMMA RehashStepBase ==
  ASSUME NEW t, NEW T, NEW M, RehashingNow(t, T, M),
         SameRehash(call, call'),
         Rehashing(kind, buckets', T, M, stored', hashing, call'),
         buckets' \in Memories, stored' \in [Nodes -> Nat \cup {Junk}],
         NEW as, as = {T.array, call.array},
         \A e \in Arrays \ as, i \in indices : buckets'[e][i] = buckets[e][i],
         \A n \in Nodes : n \notin M => stored'[n] = stored[n],
         ApartIn(as, buckets'),
         UNCHANGED <<kind, group, linked, tab, hashing, pending, members>>
  PROVE  IBase'
<1>0. /\ kind \in Kinds /\ t = call.table /\ T = tab[t] /\ M = members[t]
      /\ call.op = "rehash"
      /\ Owned(tab, call, t) = {T.array, call.array}
      /\ Worked(t, Owned(tab, call, t), buckets, tab, members, stored, hashing, linked, call)
      /\ pending = None \/ Committable(kind, tab, hashing, call, pending)
      /\ ~kind.multi => group = [n \in Nodes |-> Junk]
  BY DEF RehashingNow
<1>1. as = Owned(tab, call, t)
  BY <1>0
<1>2. call'.op = "rehash" /\ call'.table = t /\ call'.array = call.array
  BY <1>0 DEF SameRehash
<1>3. as = Owned(tab, call', t)
  BY <1>0, <1>1, <1>2 DEF Owned
<1>4. Holds(buckets', as, M)
  BY <1>2 DEF Rehashing
<1>5. Worked(t, as, buckets, tab, members, stored, hashing, linked, call)
  BY <1>0, <1>1
<1>6. Rehashing(kind, buckets', tab[t], members[t], stored', hashing, call')
  BY <1>0
<1>7. GoesOn(t, as, buckets, tab, members, stored, hashing, linked, call, buckets', stored', call')
  BY <1>0, <1>2, <1>3, <1>4, <1>5, <1>6 DEF GoesOn
<1>8. Worked(t, as, buckets', tab, members, stored', hashing, linked, call')
  BY <1>7, StillWorked
<1>9. Worked(t, as, buckets', tab', members', stored', hashing', linked', call')
  BY <1>8
<1>10. pending' = None \/ Committable(kind, tab', hashing', call', pending')
  BY <1>0, <1>2 DEF Committable
<1>11. kind' = kind /\ (~kind.multi => group' = [n \in Nodes |-> Junk])
  BY <1>0
<1>. QED
  BY <1>0, <1>9, <1>10, <1>11, WorkedIsBase

\* A step of rehash_moves, which has come to element n of bucket b.
Visited(t, T, M, b, n, j, su, D, as) ==
  /\ RehashingNow(t, T, M)
  /\ Visits(buckets, T, M, stored, hashing, call, b, n, j, su, D)
  /\ SameRehash(call, D)
  /\ su \in [Nodes -> Nat \cup {Junk}]
  /\ \A m \in Nodes : m \notin M => su[m] = stored[m]
  /\ as = {T.array, call.array} /\ as \in SUBSET Arrays
  /\ Holds(buckets, as, M) /\ ApartIn(as, buckets)
  /\ stored' = su /\ call' = D
  /\ UNCHANGED <<kind, group, linked, tab, hashing, pending, members>>

\* It stays there, or it comes to the front of bucket d.
Stays(T, j, D) == /\ T.array = call.array /\ j = call.n
                  /\ D.before_i = call.before_i + 1 /\ buckets' = buckets
LeavesBucket(T, M, as, b, n, j, D, p, d, u, v, w, ns, cs) ==
  /\ D.before_i = call.before_i /\ p = call.before_i + 1
  /\ Transfers(buckets, cs, T.array, call.n, p, p + 1, call.array, j, b, d, u, v, w, ns)
  /\ Takes(as, buckets, cs, T, M, call, b, n, j, ns, u)
  /\ Moved(buckets, cs, T.array, call.n, call.array, j, ns)
  /\ cs[T.array][call.n] = u /\ cs[call.array][j] = w
  /\ buckets' = cs

\* An element that a rehash handles stays in its bucket or leaves it.
LEMMA RehashMovesIs ==
  ASSUME IBase, rehash_moves
  PROVE  \E t, T, M, b, n, j, su, D, as :
           /\ Visited(t, T, M, b, n, j, su, D, as)
           /\ \/ Stays(T, j, D)
              \/ \E p, d, u, v, w, ns, cs : LeavesBucket(T, M, as, b, n, j, D, p, d, u, v, w, ns, cs)
<1>1. PICK t : t = call.table
  OBVIOUS
<1>2. PICK T : T = tab[t]
  OBVIOUS
<1>3. PICK M : M = members[t]
  OBVIOUS
<1>4. RehashingNow(t, T, M)
  <2>1. in("rehash")
    BY DEF rehash_moves, in_old_buckets
  <2>. QED
    BY <1>1, <1>2, <1>3, <2>1, RehashIsNow
<1>5. /\ kind \in Kinds /\ T \in Recs /\ M \in SUBSET Nodes
      /\ buckets \in Memories /\ hashing \in Hashings /\ stored \in [Nodes -> Nat \cup {Junk}]
      /\ call \in RehashCalls /\ T.array \in Arrays /\ call.array \in Arrays
      /\ Rehashing(kind, buckets, T, M, stored, hashing, call)
      /\ Owned(tab, call, t) = {T.array, call.array}
      /\ Worked(t, Owned(tab, call, t), buckets, tab, members, stored, hashing, linked, call)
  BY <1>4 DEF RehashingNow
<1>6. PICK b : b = buckets[T.array][call.n]
  OBVIOUS
<1>7. PICK n : n = b[call.before_i + 1]
  OBVIOUS
<1>8. PICK j : j = Target(kind, call, hashing, n)
  OBVIOUS
<1>9. rehash_bucket = b
  BY <1>1, <1>2, <1>6 DEF rehash_bucket, bucket
<1>10. ~call.fast /\ call.n < T.count /\ call.before_i < Len(b)
  BY <1>1, <1>2, <1>9 DEF rehash_moves, in_old_buckets
<1>11. call.before_i \in Nat /\ call.n \in Nat /\ call.first \in Nat
  BY <1>5 DEF RehashCalls
<1>12. /\ b \in Seq(Nodes) /\ n \in Nodes /\ n \in M /\ call.before_i + 1 \in 1..Len(b)
       /\ call.n \in indices
  <2>1. call.n \in indices
    <3>1. \A i \in 0..(T.count - 1) : i \in indices
      BY <1>5, RecIs
    <3>2. T.count \in Nat
      BY <1>5, RecIs
    <3>. QED
      BY <1>10, <1>11, <3>1, <3>2
  <2>2. b \in Seq(Nodes)
    BY <1>5, <1>6, <1>10, <2>1 DEF Rehashing, BothKept
  <2>3. Len(b) \in Nat
    BY <2>2, ElemsOfSeq
  <2>4. call.before_i + 1 \in 1..Len(b)
    BY <1>10, <1>11, <2>3
  <2>5. n \in Nodes /\ n \in Elems(b)
    BY <1>7, <2>2, <2>4, ElemsOfSeq
  <2>6. Holds(buckets, {T.array, call.array}, M)
    BY <1>5 DEF Rehashing
  <2>7. n \in M
    BY <1>6, <2>1, <2>5, <2>6 DEF Holds
  <2>. QED
    BY <2>1, <2>2, <2>4, <2>5, <2>7
<1>13. /\ (IF call.full THEN hashing[Key[n]] ELSE priv_stored_or_compute_hash(n)) = hashing[Key[n]]
       /\ new_n(hashing[Key[n]]) = j
  BY <1>4, <1>8, <1>10, <1>12, NextHash
<1>14. PICK stays \in BOOLEAN : stays <=> T.array = call.array /\ j = call.n
  BY Zenon
<1>15. PICK x \in Nat : x = IF kind.cache /\ j < call.first THEN j ELSE call.first
  <2>1. j \in Nat
    <3>1. Shaped(kind, [count |-> call.count, split |-> call.count])
      BY <1>5 DEF Rehashing
    <3>2. call.count \in Nat /\ 1 <= call.count
      BY <1>5, RehashIs, Zenon
    <3>3. j \in 0..(call.count - 1)
      BY <1>5, <1>8, <1>12, <3>1, <3>2, TargetIs
    <3>. QED
      BY <3>2, <3>3
  <2>. QED
    BY <1>11, <2>1
<1>16. PICK y \in Nat : y = IF stays THEN call.before_i + 1 ELSE call.before_i
  BY <1>11
<1>17. /\ stored' = IF call.full /\ kind.store THEN [stored EXCEPT ![n] = hashing[Key[n]]] ELSE stored
       /\ call' = [call EXCEPT !.first = x, !.before_i = y]
       /\ buckets' = IF stays THEN buckets
                     ELSE transferred(buckets, T.array, call.n, call.before_i + 1,
                                      call.before_i + 2, call.array, j)
       /\ UNCHANGED <<kind, group, linked, tab, hashing, pending, members>>
  <2>1. tab[call.table].array = T.array
    BY <1>1, <1>2
  <2>2. moved(j) = x
    BY <1>15 DEF moved
  <2>. QED
    BY <1>7, <1>9, <1>13, <1>14, <1>16, <2>1, <2>2, Zenon DEF rehash_moves
<1>18. PICK D : D = [call EXCEPT !.first = x, !.before_i = y]
  OBVIOUS
<1>19. SameRehash(call, D) /\ D.n = call.n /\ D.first = x /\ D.before_i = y
  <2>1. call \in RehashCalls
    BY <1>5
  <2>2. SetVisited(call, D, x, y)
    BY <1>18 DEF SetVisited
  <2>. QED
    BY <2>1, <2>2, RehashVisits
<1>20. PICK su : su = IF call.full /\ kind.store THEN [stored EXCEPT ![n] = hashing[Key[n]]] ELSE stored
  BY Zenon
<1>21. /\ su \in [Nodes -> Nat \cup {Junk}]
       /\ \A m \in Nodes : m # n => su[m] = stored[m]
       /\ kind.store => su[n] = hashing[Key[n]]
  <2>1. hashing[Key[n]] \in Nat
    BY <1>5, <1>12, HashIs
  <2>2. ~call.full => Hashed(kind, M, stored, hashing)
    BY <1>5, <1>10 DEF Rehashing, MovesEach
  <2>3. ~call.full /\ kind.store => stored[n] = hashing[Key[n]]
    BY <1>12, <2>2 DEF Hashed
  <2>. QED
    BY <1>5, <1>12, <1>20, <2>1, <2>3
<1>22. Visits(buckets, T, M, stored, hashing, call, b, n, j, su, D)
  BY <1>5, <1>6, <1>7, <1>8, <1>10, <1>15, <1>19, <1>21, Zenon DEF Visits, SameRehash
<1>23. PICK as : as = {T.array, call.array}
  BY Zenon
<1>24. /\ as \in SUBSET Arrays /\ T.array \in as /\ call.array \in as
       /\ Holds(buckets, as, M) /\ ApartIn(as, buckets)
  BY <1>3, <1>5, <1>23 DEF Worked
<1>25. \A m \in Nodes : m \notin M => su[m] = stored[m]
  BY <1>12, <1>21
<1>26. stored' = su /\ call' = D
  BY <1>17, <1>18, <1>20
<1>27. UNCHANGED <<kind, group, linked, tab, hashing, pending, members>>
  BY <1>17
<1>28. Visited(t, T, M, b, n, j, su, D, as)
  BY <1>4, <1>19, <1>21, <1>22, <1>23, <1>24, <1>25, <1>26, <1>27 DEF Visited
<1>29. CASE stays
  <2>1. Stays(T, j, D)
    BY <1>14, <1>16, <1>17, <1>19, <1>29 DEF Stays
  <2>. QED
    BY <1>28, <2>1, Zenon
<1>30. CASE ~stays
  <2>1. PICK p : p = call.before_i + 1
    OBVIOUS
  <2>2. PICK q : q = p + 1
    OBVIOUS
  <2>3. PICK d : d = buckets[call.array][j]
    OBVIOUS
  <2>4. PICK u : u = Cut(b, p, q)
    OBVIOUS
  <2>5. PICK v : v = Piece(b, p, q)
    OBVIOUS
  <2>6. PICK w : w = v \o d
    BY Zenon
  <2>7. PICK ns : ns = Elems(v)
    OBVIOUS
  <2>8. PICK cs : cs = transferred(buckets, T.array, call.n, p, q, call.array, j)
    OBVIOUS
  <2>9. /\ Distinct(b) /\ j \in indices /\ j < call.count /\ Len(b) \in Nat
    BY <1>22, VisitIs
  <2>10. d \in Seq(Nodes) /\ Distinct(d)
    BY <1>5, <2>3, <2>9 DEF Rehashing, BothKept
  <2>11. T.array # call.array \/ call.n # j
    BY <1>14, <1>30
  <2>12. Elems(b) \cap Elems(d) = {}
    <3> SUFFICES ASSUME NEW m, m \in Elems(b), m \in Elems(d)
                 PROVE  FALSE
      OBVIOUS
    <3>1. m \in Nodes
      BY <1>12, ElemsOfSeq
    <3>2. T.array = call.array /\ call.n = j
      BY <1>6, <1>12, <1>24, <2>3, <2>9, <3>1, Zenon DEF ApartIn
    <3>. QED
      BY <2>11, <3>2
  <2>13. p \in Nat /\ q \in Nat /\ 1 <= p /\ p <= q /\ q <= Len(b) + 1 /\ q - p = 1
    <3>1. Len(b) \in Nat /\ call.before_i \in Nat /\ p \in 1..Len(b)
      BY <1>11, <1>12, <2>1, <2>9
    <3>. QED
      BY <2>2, <3>1
  <2>14. Transfers(buckets, cs, T.array, call.n, p, q, call.array, j, b, d, u, v, w, ns)
    BY <1>5, <1>6, <1>12, <2>3, <2>4, <2>5, <2>6, <2>7, <2>8, <2>9, <2>10, <2>11, <2>12, <2>13, Zenon
       DEF Transfers
  <2>15. /\ Moved(buckets, cs, T.array, call.n, call.array, j, ns)
         /\ cs[T.array][call.n] = u /\ cs[call.array][j] = w
         /\ Len(u) = Len(b) - (q - p)
         /\ \A k \in 1..(p - 1) : u[k] = b[k]
         /\ \A m : m \in ns <=> \E k \in p..(q - 1) : m = b[k]
    BY <2>14, TransferMoves
  <2>16. Len(u) = Len(b) - 1 /\ \A k \in 1..call.before_i : u[k] = b[k]
    <3>1. Len(u) = Len(b) - 1
      BY <2>9, <2>13, <2>15
    <3>2. p - 1 = call.before_i
      BY <1>11, <2>1
    <3>. QED
      BY <2>15, <3>1, <3>2
  <2>17. \A m : m \in ns <=> m = n
    <3>1. p..(q - 1) = {p}
      BY <2>13
    <3>. QED
      BY <1>7, <2>1, <2>15, <3>1
  <2>18. MovesIn(as, buckets, cs, T.array, call.n, call.array, j, ns, M)
    BY <1>12, <1>24, <2>9, <2>11, <2>15, Zenon DEF MovesIn
  <2>19. D.before_i = call.before_i
    BY <1>16, <1>19, <1>30
  <2>20. Takes(as, buckets, cs, T, M, call, b, n, j, ns, u)
    <3>1. u = cs[T.array][call.n]
      BY <2>15
    <3>. QED
      BY <1>23, <2>16, <2>17, <2>18, <3>1 DEF Takes
  <2>21. buckets' = cs
    <3>1. q = call.before_i + 2
      BY <1>11, <2>1, <2>2
    <3>. QED
      BY <1>17, <1>30, <2>1, <2>8, <3>1
  <2>22. LeavesBucket(T, M, as, b, n, j, D, p, d, u, v, w, ns, cs)
    <3>1. Transfers(buckets, cs, T.array, call.n, p, p + 1, call.array, j, b, d, u, v, w, ns)
      BY <2>2, <2>14
    <3>. QED
      BY <2>1, <2>15, <2>19, <2>20, <2>21, <3>1 DEF LeavesBucket
  <2>. QED
    BY <1>28, <2>22, Zenon
<1>. QED
  BY <1>29, <1>30

\* rehash_moves preserves the invariant.
LEMMA RehashMovesBase ==
  ASSUME IBase, rehash_moves
  PROVE  IBase'
<1>1. PICK t, T, M, b, n, j, su, D, as :
        /\ Visited(t, T, M, b, n, j, su, D, as)
        /\ \/ Stays(T, j, D)
           \/ \E p, d, u, v, w, ns, cs : LeavesBucket(T, M, as, b, n, j, D, p, d, u, v, w, ns, cs)
  BY RehashMovesIs, Zenon
<1>2. /\ RehashingNow(t, T, M)
      /\ Visits(buckets, T, M, stored, hashing, call, b, n, j, su, D)
      /\ SameRehash(call, D)
      /\ su \in [Nodes -> Nat \cup {Junk}]
      /\ \A m \in Nodes : m \notin M => su[m] = stored[m]
      /\ as = {T.array, call.array} /\ ApartIn(as, buckets)
      /\ stored' = su /\ call' = D
      /\ UNCHANGED <<kind, group, linked, tab, hashing, pending, members>>
  BY <1>1 DEF Visited
<1>3. buckets \in Memories
  BY <1>2 DEF RehashingNow
<1>4. CASE Stays(T, j, D)
  <2>1. Rehashing(kind, buckets', T, M, stored', hashing, call')
    BY <1>2, <1>4, EachStays DEF Stays
  <2>2. /\ SameRehash(call, call')
        /\ buckets' \in Memories /\ stored' \in [Nodes -> Nat \cup {Junk}]
        /\ \A e \in Arrays \ as, i \in indices : buckets'[e][i] = buckets[e][i]
        /\ \A m \in Nodes : m \notin M => stored'[m] = stored[m]
        /\ ApartIn(as, buckets')
    BY <1>2, <1>3, <1>4 DEF Stays
  <2>. QED
    BY <1>2, <2>1, <2>2, RehashStepBase
<1>5. ASSUME NEW p, NEW d, NEW u, NEW v, NEW w, NEW ns, NEW cs,
             LeavesBucket(T, M, as, b, n, j, D, p, d, u, v, w, ns, cs)
      PROVE  IBase'
  <2>1. /\ D.before_i = call.before_i /\ buckets' = cs
        /\ Takes(as, buckets, cs, T, M, call, b, n, j, ns, u)
        /\ Moved(buckets, cs, T.array, call.n, call.array, j, ns)
    BY <1>5 DEF LeavesBucket
  <2>2. Rehashing(kind, cs, T, M, su, hashing, D)
    BY <1>2, <2>1, EachMoves, Zenon
  <2>3. ApartIn(as, cs)
    <3>1. MovesIn(as, buckets, cs, T.array, call.n, call.array, j, ns, M)
      BY <2>1 DEF Takes
    <3>. QED
      BY <3>1, MoveKeeps, Zenon
  <2>4. cs \in Memories /\ \A e \in Arrays \ as, i \in indices : cs[e][i] = buckets[e][i]
    BY <1>2, <2>1, Zenon DEF Moved
  <2>5. /\ SameRehash(call, call')
        /\ Rehashing(kind, buckets', T, M, stored', hashing, call')
        /\ buckets' \in Memories /\ stored' \in [Nodes -> Nat \cup {Junk}]
        /\ \A e \in Arrays \ as, i \in indices : buckets'[e][i] = buckets[e][i]
        /\ \A m \in Nodes : m \notin M => stored'[m] = stored[m]
        /\ ApartIn(as, buckets')
    BY <1>2, <2>1, <2>2, <2>3, <2>4, Zenon
  <2>. QED
    BY <1>2, <2>5, RehashStepBase
<1>. QED
  BY <1>1, <1>4, <1>5, Zenon

\* rehash_next_bucket preserves the invariant.
LEMMA RehashNextBucketBase ==
  ASSUME IBase, rehash_next_bucket
  PROVE  IBase'
<1>1. PICK t : t = call.table
  OBVIOUS
<1>2. PICK T : T = tab[t]
  OBVIOUS
<1>3. PICK M : M = members[t]
  OBVIOUS
<1>4. RehashingNow(t, T, M)
  <2>1. in("rehash")
    BY DEF rehash_next_bucket, in_old_buckets
  <2>. QED
    BY <1>1, <1>2, <1>3, <2>1, RehashIsNow
<1>5. /\ kind \in Kinds /\ T \in Recs /\ M \in SUBSET Nodes
      /\ buckets \in Memories /\ hashing \in Hashings /\ stored \in [Nodes -> Nat \cup {Junk}]
      /\ call \in RehashCalls
      /\ Rehashing(kind, buckets, T, M, stored, hashing, call)
      /\ Owned(tab, call, t) = {T.array, call.array}
      /\ Worked(t, Owned(tab, call, t), buckets, tab, members, stored, hashing, linked, call)
  BY <1>4 DEF RehashingNow
<1>6. /\ ~call.fast /\ call.n < T.count /\ call.before_i = Len(buckets[T.array][call.n])
  BY <1>1, <1>2 DEF rehash_next_bucket, in_old_buckets, rehash_bucket, bucket
<1>7. PICK x \in Nat : x = call.n + 1
  BY <1>5 DEF RehashCalls
<1>8. call' = [call EXCEPT !.n = x, !.before_i = 0]
  BY <1>7 DEF rehash_next_bucket
<1>9. PICK D : D = [call EXCEPT !.n = x, !.before_i = 0]
  OBVIOUS
<1>10. SameRehash(call, D) /\ D.n = x /\ D.first = call.first /\ D.before_i = 0
  <2>1. call \in RehashCalls
    BY <1>5
  <2>2. SetNext(call, D, x, 0)
    BY <1>9 DEF SetNext
  <2>. QED
    BY <2>1, <2>2, RehashNexts
<1>11. Rehashing(kind, buckets, T, M, stored, hashing, D)
  BY <1>5, <1>6, <1>7, <1>10, EachNext DEF SameRehash
<1>12. PICK as : as = {T.array, call.array}
  BY Zenon
<1>13. ApartIn(as, buckets)
  BY <1>5, <1>12 DEF Worked
<1>14. UNCHANGED <<kind, buckets, group, stored, linked, tab, hashing, pending, members>>
  BY DEF rehash_next_bucket
<1>15. call' = D
  BY <1>8, <1>9
<1>. QED
  BY <1>4, <1>5, <1>10, <1>11, <1>12, <1>13, <1>14, <1>15, RehashStepBase
-----------------------------------------------------------------------------
(* Rehash: one bucket after the other.                                      *)

FastIs(bs, T, M, st, hs, C) ==
  /\ kind \in Kinds /\ bs \in Memories /\ T \in Recs /\ M \in SUBSET Nodes /\ hs \in Hashings
  /\ Rehashing(kind, bs, T, M, st, hs, C) /\ C.fast /\ C.n < T.count

\* The bucket that comes next, and where it goes.
LEMMA FastBucket ==
  ASSUME NEW bs, NEW T, NEW M, NEW st, NEW hs, NEW C, FastIs(bs, T, M, st, hs, C)
  PROVE  /\ C.n \in Nat /\ C.n \in indices /\ C.first \in Nat
         /\ T.count \in Nat /\ 1 <= T.count /\ C.count \in Nat /\ 1 <= C.count
         /\ T.array \in Arrays /\ C.array \in Arrays
         /\ C.n % C.count \in Nat /\ C.n % C.count < C.count /\ C.n % C.count \in indices
         /\ T.count % C.count = 0
         /\ C.array = T.array => C.count <= C.n
         /\ bs[T.array][C.n] \in Seq(Nodes) /\ Distinct(bs[T.array][C.n])
         /\ bs[C.array][C.n % C.count] \in Seq(Nodes) /\ Distinct(bs[C.array][C.n % C.count])
         /\ \A k \in indices : k \in Nat
<1>0. /\ kind \in Kinds /\ bs \in Memories /\ T \in Recs /\ M \in SUBSET Nodes /\ hs \in Hashings
      /\ Rehashing(kind, bs, T, M, st, hs, C) /\ C.fast /\ C.n < T.count
  BY DEF FastIs
<1>1. /\ C.n \in Nat /\ C.first \in Nat /\ C.count \in Nat /\ 1 <= C.count /\ C.array \in Arrays
      /\ \A i \in 0..(C.count - 1) : i \in indices
  BY <1>0, RehashIs, Zenon
<1>2. /\ T.count \in Nat /\ 1 <= T.count /\ T.array \in Arrays
      /\ \A i \in 0..(T.count - 1) : i \in indices
  BY <1>0, RecIs
<1>3. C.n < T.count
  BY <1>0
<1>4. C.n \in indices
  BY <1>1, <1>2, <1>3
<1>5. C.n % C.count \in 0..(C.count - 1)
  <2>1. C.count \in Nat /\ C.count > 0 /\ C.n \in Int
    BY <1>1
  <2>. QED
    BY <2>1, DivMod
<1>6. C.n % C.count \in Nat /\ C.n % C.count < C.count /\ C.n % C.count \in indices
  BY <1>1, <1>5
<1>7. BothKept(bs, T, C)
  BY <1>0 DEF Rehashing
<1>8. bs[T.array][C.n] \in Seq(Nodes) /\ Distinct(bs[T.array][C.n])
  BY <1>3, <1>4, <1>7 DEF BothKept
<1>9. bs[C.array][C.n % C.count] \in Seq(Nodes) /\ Distinct(bs[C.array][C.n % C.count])
  BY <1>6, <1>7 DEF BothKept
<1>10. T.count % C.count = 0 /\ (C.array = T.array => C.count <= C.n)
  BY <1>0 DEF Rehashing, MovesBuckets
<1>11. \A k \in indices : k \in Nat
  BY CountIs DEF indices
<1>. QED
  BY <1>1, <1>2, <1>4, <1>6, <1>8, <1>9, <1>10, <1>11

\* The elements ns of bucket n go to bucket j.
Fills(as, bs, cs, T, M, st, hs, C, j, ns, D) ==
  /\ FastIs(bs, T, M, st, hs, C)
  /\ j = C.n % C.count
  /\ as = {T.array, C.array}
  /\ \A m : m \in ns <=> m \in Elems(bs[T.array][C.n])
  /\ MovesIn(as, bs, cs, T.array, C.n, C.array, j, ns, M)
  /\ SameRehash(C, D) /\ D.n = C.n + 1 /\ D.before_i = C.before_i
  /\ D.first = IF kind.cache /\ j < C.first THEN j ELSE C.first

\* It is their bucket among the new ones, too.
LEMMA FillsTarget ==
  ASSUME NEW bs, NEW T, NEW M, NEW st, NEW hs, NEW C, FastIs(bs, T, M, st, hs, C),
         NEW m \in Nodes, m \in Elems(bs[T.array][C.n])
  PROVE  /\ C.n % C.count = Target(kind, C, hs, m)
         /\ kind.store => st[m] = hs[Key[m]]
<1>0. /\ kind \in Kinds /\ T \in Recs /\ M \in SUBSET Nodes /\ hs \in Hashings
      /\ Rehashing(kind, bs, T, M, st, hs, C) /\ C.fast
  BY DEF FastIs
<1>1. /\ C.n \in Nat /\ C.n \in indices
      /\ T.count \in Nat /\ 1 <= T.count /\ C.count \in Nat /\ 1 <= C.count
      /\ T.count % C.count = 0
      /\ C.array = T.array => C.count <= C.n
  BY FastBucket
<1>2. /\ Shaped(kind, T) /\ Shaped(kind, [count |-> C.count, split |-> C.count])
      /\ MovesBuckets(kind, bs, T, M, st, hs, C)
      /\ Holds(bs, {T.array, C.array}, M)
  BY <1>0 DEF Rehashing
<1>3. Target(kind, C, hs, m) \in 0..(C.count - 1) /\ Target(kind, C, hs, m) = hs[Key[m]] % C.count
  BY <1>0, <1>1, <1>2, TargetIs
<1>4. ~kind.incremental /\ Hashed(kind, M, st, hs)
  BY <1>2 DEF MovesBuckets
<1>5. Home(kind, T, hs, m) = hs[Key[m]] % T.count
  BY <1>0, <1>2, <1>4, HomeIs
<1>6. \/ Settled(kind, C, st, hs, T.array, C.n, m)
      \/ C.n = Home(kind, T, hs, m)
  BY <1>1, <1>2 DEF MovesBuckets
<1>7. ~Settled(kind, C, st, hs, T.array, C.n, m)
  <2>1. Settled(kind, C, st, hs, T.array, C.n, m) => C.n < C.count /\ C.count <= C.n
    BY <1>1, <1>3 DEF Settled
  <2>. QED
    BY <1>1, <2>1
<1>8. C.n = hs[Key[m]] % T.count
  BY <1>5, <1>6, <1>7
<1>9. hs[Key[m]] \in Nat
  BY <1>0, HashIs
<1>10. (hs[Key[m]] % T.count) % C.count = hs[Key[m]] % C.count
  <2>1. PICK c : c = T.count
    OBVIOUS
  <2>2. PICK e : e = C.count
    OBVIOUS
  <2>3. PICK h : h = hs[Key[m]]
    OBVIOUS
  <2>4. c \in Nat /\ c > 0 /\ e \in Nat /\ e > 0 /\ c % e = 0 /\ h \in Nat
    BY <1>1, <1>9, <2>1, <2>2, <2>3
  <2>5. (h % c) % e = h % e
    BY <2>4, ModMod, Zenon
  <2>. QED
    BY <2>1, <2>2, <2>3, <2>5
<1>11. m \in M
  BY <1>1, <1>2 DEF Holds
<1>. QED
  BY <1>3, <1>4, <1>8, <1>10, <1>11 DEF Hashed

\* What is left of the buckets to come.
LEMMA FillsTargets ==
  ASSUME NEW T, NEW C, NEW D, NEW j, C.n \in Nat, T.count \in Nat, C.n < T.count,
         C.count \in Nat, 1 <= C.count, C.first \in Nat, j = C.n % C.count, j \in Nat,
         D.n = C.n + 1, D.count = C.count,
         D.first = IF j < C.first THEN j ELSE C.first,
         NEW m, m \in Targets(T, D), \A y \in Targets(T, D) : m <= y
  PROVE  m \in Targets(T, C) /\ \A y \in Targets(T, C) : m <= y
<1>1. C.n \in C.n..(T.count - 1) /\ \A k \in (C.n + 1)..(T.count - 1) : k \in C.n..(T.count - 1)
  OBVIOUS
<1>2. j \in Targets(T, C) /\ C.first \in Targets(T, C)
  BY <1>1 DEF Targets
<1>3. D.first \in Targets(T, C) /\ D.first \in Targets(T, D)
  BY <1>2 DEF Targets
<1>4. m \in Targets(T, C)
  BY <1>1, <1>3 DEF Targets
<1>5. \A k \in C.n..(T.count - 1) : k = C.n \/ k \in (C.n + 1)..(T.count - 1)
  OBVIOUS
<1>6. ASSUME NEW y \in Targets(T, C)
      PROVE  m <= y
  <2>0. m \in Nat
    <3>1. \A k \in C.n..(T.count - 1) : k % C.count \in Nat
      BY DivMod
    <3>. QED
      BY <1>4, <3>1 DEF Targets
  <2>1. m <= D.first /\ D.first \in Nat
    BY <1>3
  <2>2. CASE y = C.first
    BY <2>0, <2>1, <2>2
  <2>3. CASE y = j
    BY <2>0, <2>1, <2>3
  <2>4. ASSUME NEW k \in (C.n + 1)..(T.count - 1), y = k % C.count
        PROVE  m <= y
    BY <2>4 DEF Targets
  <2>. QED
    BY <1>5, <2>2, <2>3, <2>4 DEF Targets
<1>. QED
  BY <1>4, <1>6

\* A whole bucket moves, and the targets of the rest are as they were.
LEMMA BucketMoves ==
  ASSUME NEW as, NEW bs, NEW cs, NEW T, NEW M, NEW st, NEW hs, NEW C, NEW j, NEW ns, NEW D,
         Fills(as, bs, cs, T, M, st, hs, C, j, ns, D)
  PROVE  Rehashing(kind, cs, T, M, st, hs, D)
<1>0. /\ FastIs(bs, T, M, st, hs, C)
      /\ j = C.n % C.count
      /\ as = {T.array, C.array}
      /\ MovesIn(as, bs, cs, T.array, C.n, C.array, j, ns, M)
      /\ D.n = C.n + 1 /\ D.before_i = C.before_i
      /\ D.first = IF kind.cache /\ j < C.first THEN j ELSE C.first
      /\ D \in RehashCalls /\ D.array = C.array
      /\ D.count = C.count /\ D.full = C.full /\ D.fast = C.fast /\ D.size_backup = C.size_backup
  BY DEF Fills, SameRehash
<1>1. \A m : m \in ns <=> m \in Elems(bs[T.array][C.n])
  BY DEF Fills
<1>2. /\ kind \in Kinds /\ bs \in Memories /\ T \in Recs /\ M \in SUBSET Nodes /\ hs \in Hashings
      /\ Rehashing(kind, bs, T, M, st, hs, C) /\ C.fast /\ C.n < T.count
  BY <1>0 DEF FastIs
<1>3. /\ C.n \in Nat /\ C.n \in indices /\ C.first \in Nat
      /\ T.count \in Nat /\ 1 <= T.count /\ C.count \in Nat /\ 1 <= C.count
      /\ T.array \in Arrays /\ C.array \in Arrays
      /\ j \in Nat /\ j < C.count /\ j \in indices
      /\ C.array = T.array => C.count <= C.n
      /\ \A k \in indices : k \in Nat
  BY <1>0, FastBucket
<1>4. MovesBuckets(kind, bs, T, M, st, hs, C)
  BY <1>2 DEF Rehashing
<1>5. /\ as \in SUBSET Arrays
      /\ Moved(bs, cs, T.array, C.n, C.array, j, ns)
      /\ Holds(cs, as, M)
      /\ \A m \in Nodes, e \in as, k \in indices : m \in Elems(cs[e][k]) <=>
           IF m \in ns THEN e = C.array /\ k = j ELSE m \in Elems(bs[e][k])
  BY <1>0, MoveKeeps DEF MovesIn
<1>6. \A m \in Nodes : Target(kind, D, hs, m) = Target(kind, C, hs, m)
  BY <1>0 DEF Target
<1>7. D.first \in Nat /\ D.first <= C.first /\ (kind.cache => D.first <= j)
  <2>1. D.first = IF kind.cache /\ j < C.first THEN j ELSE C.first
    BY <1>0
  <2>2. C.first \in Nat /\ j \in Nat
    BY <1>3
  <2>. QED
    BY <2>1, <2>2
<1>8. ASSUME NEW a \in {T.array, D.array}, NEW i \in indices, NEW m \in Nodes,
             m \in Elems(cs[a][i])
      PROVE  \/ Settled(kind, D, st, hs, a, i, m)
             \/ a = T.array /\ D.n <= i /\ i = Home(kind, T, hs, m)
  <2>0. a \in as /\ i \in Nat
    BY <1>0, <1>3
  <2>1. CASE m \in ns
    <3>1. a = C.array /\ i = j
      BY <1>5, <1>8, <2>0, <2>1, Zenon
    <3>2. j = Target(kind, C, hs, m) /\ (kind.store => st[m] = hs[Key[m]])
      BY <1>0, <1>1, <2>1, FillsTarget
    <3>. QED
      BY <1>0, <1>6, <1>7, <3>1, <3>2 DEF Settled
  <2>2. CASE m \notin ns
    <3>1. m \in Elems(bs[a][i])
      BY <1>5, <1>8, <2>0, <2>2, Zenon
    <3>2. \/ Settled(kind, C, st, hs, a, i, m)
          \/ a = T.array /\ C.n <= i /\ i = Home(kind, T, hs, m)
      BY <1>0, <1>4, <3>1 DEF MovesBuckets
    <3>3. CASE Settled(kind, C, st, hs, a, i, m)
      <4>1. /\ a = C.array /\ i = Target(kind, C, hs, m)
            /\ kind.store => st[m] = hs[Key[m]]
            /\ kind.cache => C.first <= i
        BY <3>3 DEF Settled
      <4>2. kind.cache => D.first <= i
        BY <1>3, <1>7, <2>0, <4>1
      <4>. QED
        BY <1>0, <1>6, <4>1, <4>2 DEF Settled
    <3>4. CASE a = T.array /\ C.n <= i /\ i = Home(kind, T, hs, m)
      <4>1. i # C.n
        BY <1>1, <2>2, <3>1, <3>4
      <4>2. D.n <= i
        BY <1>0, <1>3, <2>0, <3>4, <4>1
      <4>. QED
        BY <3>4, <4>2
    <3>. QED
      BY <3>2, <3>3, <3>4
  <2>. QED
    BY <2>1, <2>2
<1>9. ASSUME kind.cache, NEW m \in Targets(T, D), m < D.count, \A y \in Targets(T, D) : m <= y
      PROVE  \/ cs[D.array][m] # <<>>
             \/ \E k \in D.n..(T.count - 1) : k % D.count = m /\ cs[T.array][k] # <<>>
  <2>1. m \in Targets(T, C) /\ \A y \in Targets(T, C) : m <= y
    <3>1. D.first = IF j < C.first THEN j ELSE C.first
      BY <1>0, <1>9
    <3>. QED
      BY <1>0, <1>2, <1>3, <1>9, <3>1, FillsTargets
  <2>2. \/ bs[C.array][m] # <<>>
        \/ \E k \in C.n..(T.count - 1) : k % C.count = m /\ bs[T.array][k] # <<>>
    BY <1>0, <1>4, <1>9, <2>1, SMTT(15) DEF MovesBuckets
  <2>3. /\ cs[C.array][j] \in Seq(Nodes) /\ bs[C.array][j] \in Seq(Nodes)
        /\ bs[T.array][C.n] \in Seq(Nodes)
        /\ \A x \in Nodes : x \in Elems(cs[C.array][j]) <=> x \in Elems(bs[C.array][j]) \/ x \in ns
    BY <1>0, <1>5, FastBucket DEF Moved
  <2>4. bs[C.array][j] # <<>> \/ bs[T.array][C.n] # <<>> => cs[C.array][j] # <<>>
    <3>1. bs[C.array][j] # <<>> => Elems(bs[C.array][j]) # {}
      BY <2>3, ElemsOfSeq
    <3>2. bs[T.array][C.n] # <<>> => Elems(bs[T.array][C.n]) # {}
      BY <2>3, ElemsOfSeq
    <3>3. cs[C.array][j] = <<>> => Elems(cs[C.array][j]) = {}
      BY <2>3, ElemsOfSeq, Zenon
    <3>4. Elems(bs[C.array][j]) \subseteq Nodes /\ Elems(bs[T.array][C.n]) \subseteq Nodes
      BY <2>3, ElemsOfSeq
    <3>. QED
      BY <1>1, <2>3, <3>1, <3>2, <3>3, <3>4
  <2>5. \A e \in Arrays, k \in indices :
          (e # T.array \/ k # C.n) /\ (e # C.array \/ k # j) => cs[e][k] = bs[e][k]
    BY <1>5 DEF Moved
  <2>6. CASE bs[C.array][m] # <<>>
    <3>1. CASE m = j
      BY <1>0, <2>4, <2>6, <3>1
    <3>2. CASE m # j
      <4>1. m \in Nat
        <5>1. \A k \in D.n..(T.count - 1) : k % D.count \in Nat
          BY <1>0, <1>3, DivMod
        <5>. QED
          BY <1>7, <5>1 DEF Targets
      <4>2. m \in indices
        <5>1. C.count <= MaxCount /\ MaxCount \in Nat
          BY <1>2, RehashIs, CountIs, Zenon
        <5>2. m < C.count
          BY <1>0, <1>9
        <5>. QED
          BY <1>3, <4>1, <5>1, <5>2 DEF indices
      <4>3. C.array # T.array \/ m # C.n
        BY <1>0, <1>3, <1>9, <4>1
      <4>4. cs[C.array][m] = bs[C.array][m]
        BY <1>3, <2>5, <3>2, <4>2, <4>3
      <4>. QED
        BY <1>0, <2>6, <4>4
    <3>. QED
      BY <3>1, <3>2
  <2>7. ASSUME NEW k \in C.n..(T.count - 1), k % C.count = m, bs[T.array][k] # <<>>
        PROVE  \/ cs[D.array][m] # <<>>
               \/ \E l \in D.n..(T.count - 1) : l % D.count = m /\ cs[T.array][l] # <<>>
    <3>1. CASE k = C.n
      BY <1>0, <2>4, <2>7, <3>1
    <3>2. CASE k # C.n
      <4>1. k \in (C.n + 1)..(T.count - 1) /\ k \in Nat
        BY <1>3, <3>2
      <4>2. k \in indices
        <5>1. \A i \in 0..(T.count - 1) : i \in indices
          BY <1>2, RecIs
        <5>. QED
          BY <1>3, <5>1
      <4>3. T.array # C.array \/ k # j
        BY <1>3, <4>1
      <4>4. cs[T.array][k] = bs[T.array][k]
        BY <1>3, <2>5, <3>2, <4>2, <4>3
      <4>. QED
        BY <1>0, <2>7, <4>1, <4>4
    <3>. QED
      BY <3>1, <3>2
  <2>. QED
    BY <2>2, <2>6, <2>7
<1>10. MovesBuckets(kind, cs, T, M, st, hs, D)
  <2>1. /\ ~kind.incremental /\ ~D.full /\ D.before_i = 0
        /\ T.count % D.count = 0 /\ D.count <= T.count
        /\ Hashed(kind, M, st, hs)
    BY <1>0, <1>4 DEF MovesBuckets
  <2>2. D.array = T.array => D.count <= D.n
    BY <1>0, <1>3
  <2>. QED
    BY <1>8, <1>9, <2>1, <2>2 DEF MovesBuckets
<1>11. /\ Shaped(kind, T) /\ Shaped(kind, [count |-> D.count, split |-> D.count])
       /\ T.cache = IF kind.cache THEN T.count ELSE 0
       /\ T.size = 0
       /\ Sized(kind, D.size_backup, M)
  BY <1>0, <1>2 DEF Rehashing
<1>12. Holds(cs, {T.array, D.array}, M)
  BY <1>0, <1>5
<1>13. BothKept(cs, T, D)
  <2>1. BothKept(bs, T, C)
    BY <1>2 DEF Rehashing
  <2>. QED
    BY <1>0, <1>2, <1>3, <1>5, <2>1, BothKeptMoved
<1>14. kind.cache => D.first <= D.count
  BY <1>0, <1>3, <1>7
<1>15. D.n <= T.count
  BY <1>0, <1>2, <1>3
<1>. QED
  BY <1>0, <1>2, <1>10, <1>11, <1>12, <1>13, <1>14, <1>15 DEF Rehashing

\* rehash_moves_bucket preserves the invariant.
\* Bucket b of the old array, as a whole, comes in front of bucket d of the new one.
Filled(t, T, M, b, d, j, q, u, v, w, ns, cs, as, D) ==
  /\ RehashingNow(t, T, M)
  /\ b = buckets[T.array][call.n] /\ d = buckets[call.array][j] /\ q = Len(b) + 1
  /\ Transfers(buckets, cs, T.array, call.n, 1, q, call.array, j, b, d, u, v, w, ns)
  /\ Moved(buckets, cs, T.array, call.n, call.array, j, ns)
  /\ cs[T.array][call.n] = u /\ cs[call.array][j] = w
  /\ Fills(as, buckets, cs, T, M, stored, hashing, call, j, ns, D)
  /\ buckets' = cs /\ call' = D
  /\ UNCHANGED <<kind, group, stored, linked, tab, hashing, pending, members>>

\* What rehash_moves_bucket does to the two buckets.
LEMMA RehashMovesBucketIs ==
  ASSUME IBase, rehash_moves_bucket
  PROVE  \E t, T, M, b, d, j, q, u, v, w, ns, cs, as, D :
           Filled(t, T, M, b, d, j, q, u, v, w, ns, cs, as, D)
<1>1. PICK t : t = call.table
  OBVIOUS
<1>2. PICK T : T = tab[t]
  OBVIOUS
<1>3. PICK M : M = members[t]
  OBVIOUS
<1>4. RehashingNow(t, T, M)
  <2>1. in("rehash")
    BY DEF rehash_moves_bucket, in_old_buckets
  <2>. QED
    BY <1>1, <1>2, <1>3, <2>1, RehashIsNow
<1>5. /\ kind \in Kinds /\ T \in Recs /\ M \in SUBSET Nodes
      /\ buckets \in Memories /\ hashing \in Hashings /\ stored \in [Nodes -> Nat \cup {Junk}]
      /\ call \in RehashCalls /\ T.array \in Arrays /\ call.array \in Arrays
      /\ Rehashing(kind, buckets, T, M, stored, hashing, call)
      /\ Owned(tab, call, t) = {T.array, call.array}
      /\ Worked(t, Owned(tab, call, t), buckets, tab, members, stored, hashing, linked, call)
  BY <1>4 DEF RehashingNow
<1>6. call.fast /\ call.n < T.count
  BY <1>1, <1>2 DEF rehash_moves_bucket, in_old_buckets
<1>7. FastIs(buckets, T, M, stored, hashing, call)
  BY <1>5, <1>6 DEF FastIs
<1>8. PICK j : j = call.n % call.count
  OBVIOUS
<1>9. PICK b : b = buckets[T.array][call.n]
  OBVIOUS
<1>10. PICK d : d = buckets[call.array][j]
  OBVIOUS
<1>11. /\ call.n \in Nat /\ call.n \in indices /\ call.first \in Nat
       /\ call.count \in Nat /\ 1 <= call.count
       /\ j \in Nat /\ j < call.count /\ j \in indices
       /\ call.array = T.array => call.count <= call.n
       /\ b \in Seq(Nodes) /\ Distinct(b) /\ d \in Seq(Nodes) /\ Distinct(d)
  BY <1>7, <1>8, <1>9, <1>10, FastBucket
<1>12. new_n(call.n) = j
  <2>1. kind.incremental \in BOOLEAN /\ ~kind.incremental
    BY <1>5, <1>6, KindIs DEF Rehashing, MovesBuckets
  <2>2. new_n(call.n) = call.n % call.count
    BY <2>1 DEF new_n, hash_to_bucket_split
  <2>. QED
    BY <1>8, <2>2
<1>13. Len(b) \in Nat
  BY <1>11, ElemsOfSeq
<1>14. PICK q \in Nat : q = Len(b) + 1
  BY <1>13
<1>15. PICK u : u = Cut(b, 1, q)
  OBVIOUS
<1>16. PICK v : v = Piece(b, 1, q)
  OBVIOUS
<1>17. PICK w : w = v \o d
  BY Zenon
<1>18. PICK ns : ns = Elems(v)
  OBVIOUS
<1>19. PICK cs : cs = transferred(buckets, T.array, call.n, 1, q, call.array, j)
  OBVIOUS
<1>20. PICK as : as = {T.array, call.array}
  BY Zenon
<1>21. /\ as \in SUBSET Arrays /\ T.array \in as /\ call.array \in as
       /\ Holds(buckets, as, M) /\ ApartIn(as, buckets)
  BY <1>3, <1>5, <1>20 DEF Worked
<1>22. T.array # call.array \/ call.n # j
  BY <1>11
<1>23. Elems(b) \cap Elems(d) = {}
  <2> SUFFICES ASSUME NEW m, m \in Elems(b), m \in Elems(d)
               PROVE  FALSE
    OBVIOUS
  <2>1. m \in Nodes
    BY <1>11, ElemsOfSeq
  <2>2. T.array = call.array /\ call.n = j
    BY <1>9, <1>10, <1>11, <1>21, <2>1, Zenon DEF ApartIn
  <2>. QED
    BY <1>22, <2>2
<1>24. 1 \in Nat /\ 1 <= 1 /\ 1 <= q /\ q <= Len(b) + 1
  BY <1>13, <1>14
<1>25. Transfers(buckets, cs, T.array, call.n, 1, q, call.array, j, b, d, u, v, w, ns)
  BY <1>5, <1>9, <1>10, <1>11, <1>15, <1>16, <1>17, <1>18, <1>19, <1>22, <1>23, <1>24, Zenon
     DEF Transfers
<1>26. /\ Moved(buckets, cs, T.array, call.n, call.array, j, ns)
       /\ \A m : m \in ns <=> \E k \in 1..(q - 1) : m = b[k]
       /\ cs[T.array][call.n] = u /\ cs[call.array][j] = w
  BY <1>25, TransferMoves
<1>27. \A m : m \in ns <=> m \in Elems(b)
  <2>1. \A m : m \in Elems(b) <=> \E k \in 1..Len(b) : b[k] = m
    BY <1>11, ElemsOfSeq
  <2>2. q - 1 = Len(b)
    BY <1>13, <1>14
  <2>. QED
    BY <1>26, <2>1, <2>2
<1>28. MovesIn(as, buckets, cs, T.array, call.n, call.array, j, ns, M)
  BY <1>11, <1>21, <1>22, <1>26, Zenon DEF MovesIn
<1>29. PICK x \in Nat : x = call.n + 1
  BY <1>11
<1>30. PICK y \in Nat : y = IF kind.cache /\ j < call.first THEN j ELSE call.first
  BY <1>11
<1>31. PICK D : SetFilled(call, D, x, y)
  BY DEF SetFilled
<1>32. SameRehash(call, D) /\ D.n = x /\ D.first = y /\ D.before_i = call.before_i
  <2>1. call \in RehashCalls
    BY <1>5
  <2>. QED
    BY <1>31, <2>1, RehashFills
<1>33. Fills(as, buckets, cs, T, M, stored, hashing, call, j, ns, D)
  BY <1>7, <1>8, <1>9, <1>20, <1>27, <1>28, <1>29, <1>30, <1>32 DEF Fills
<1>34. /\ buckets' = cs
       /\ call' = D
       /\ UNCHANGED <<kind, group, stored, linked, tab, hashing, pending, members>>
  <2>1. tab[call.table].array = T.array
    BY <1>1, <1>2
  <2>2. moved(j) = y
    BY <1>30 DEF moved
  <2>. QED
    BY <1>9, <1>12, <1>14, <1>19, <1>29, <1>31, <2>1, <2>2
       DEF rehash_moves_bucket, whole, SetFilled
<1>35. Filled(t, T, M, b, d, j, q, u, v, w, ns, cs, as, D)
  BY <1>4, <1>9, <1>10, <1>14, <1>25, <1>26, <1>33, <1>34, Zenon DEF Filled
<1>. QED
  BY <1>35

\* A rehash that pours out a whole bucket preserves the invariant.
LEMMA RehashMovesBucketBase ==
  ASSUME IBase, rehash_moves_bucket
  PROVE  IBase'
<1>1. PICK t, T, M, b, d, j, q, u, v, w, ns, cs, as, D :
        Filled(t, T, M, b, d, j, q, u, v, w, ns, cs, as, D)
  BY RehashMovesBucketIs
<1>2. /\ RehashingNow(t, T, M)
      /\ Fills(as, buckets, cs, T, M, stored, hashing, call, j, ns, D)
      /\ Moved(buckets, cs, T.array, call.n, call.array, j, ns)
      /\ buckets' = cs /\ call' = D
      /\ UNCHANGED <<kind, group, stored, linked, tab, hashing, pending, members>>
  BY <1>1 DEF Filled
<1>3. /\ as = {T.array, call.array} /\ SameRehash(call, D)
      /\ MovesIn(as, buckets, cs, T.array, call.n, call.array, j, ns, M)
  BY <1>2 DEF Fills
<1>4. Rehashing(kind, cs, T, M, stored, hashing, D)
  BY <1>2, BucketMoves, Zenon
<1>5. ApartIn(as, cs)
  BY <1>3, MoveKeeps, Zenon
<1>6. cs \in Memories /\ \A e \in Arrays \ as, i \in indices : cs[e][i] = buckets[e][i]
  BY <1>2, <1>3 DEF Moved
<1>7. stored \in [Nodes -> Nat \cup {Junk}]
  BY <1>2 DEF RehashingNow
<1>8. /\ SameRehash(call, call')
      /\ Rehashing(kind, buckets', T, M, stored', hashing, call')
      /\ buckets' \in Memories /\ stored' \in [Nodes -> Nat \cup {Junk}]
      /\ \A e \in Arrays \ as, i \in indices : buckets'[e][i] = buckets[e][i]
      /\ \A m \in Nodes : m \notin M => stored'[m] = stored[m]
      /\ ApartIn(as, buckets')
  BY <1>2, <1>3, <1>4, <1>5, <1>6, <1>7
<1>9. UNCHANGED <<kind, group, linked, tab, hashing, pending, members>>
  BY <1>2
<1>. QED
  BY <1>2, <1>3, <1>8, <1>9, RehashStepBase
-----------------------------------------------------------------------------
(* The end of a rehash.                                                     *)

\* What insert_unique_check has found is outdated from then on.
LEMMA Outdates ==
  ASSUME pending = None \/ Committable(kind, tab, hashing, call, pending), outdated,
         NEW tb, NEW C
  PROVE  pending' = None \/ Committable(kind, tb, hashing, C, pending')
<1> SUFFICES ASSUME pending # None
             PROVE  Committable(kind, tb, hashing, C, pending')
  BY DEF outdated
<1>1. Committable(kind, tab, hashing, call, pending)
  OBVIOUS
<1>2. pending \in Commits /\ pending.hash = hashing[pending.key]
  BY <1>1 DEF Committable
<1>3. pending' = [pending EXCEPT !.rehashed = TRUE]
  BY DEF outdated
<1>4. /\ pending' \in Commits /\ pending'.hash = pending.hash /\ pending'.key = pending.key
      /\ pending'.rehashed
  BY <1>2, <1>3, Zenon DEF Commits
<1>. QED
  BY <1>2, <1>4 DEF Committable

\* When the loop is through with the old buckets every element is where it goes.
LEMMA AllSettled ==
  ASSUME kind \in Kinds, NEW bs \in Memories, NEW T \in Recs, NEW M \in SUBSET Nodes, NEW st,
         NEW hs \in Hashings, NEW C, Rehashing(kind, bs, T, M, st, hs, C), C.n = T.count,
         NEW e \in {T.array, C.array}, NEW i \in indices, NEW n \in Nodes, n \in Elems(bs[e][i])
  PROVE  Settled(kind, C, st, hs, e, i, n) /\ i < C.count
<1>1. i \in Nat
  BY CountIs DEF indices
<1>2. T.count \in Nat /\ C.n \in Nat
  BY RecIs
<1>3. Settled(kind, C, st, hs, e, i, n)
  <2>1. CASE C.fast
    <3>1. MovesBuckets(kind, bs, T, M, st, hs, C) /\ Shaped(kind, T)
      BY <2>1 DEF Rehashing
    <3>2. \/ Settled(kind, C, st, hs, e, i, n)
          \/ C.n <= i /\ i = Home(kind, T, hs, n)
      BY <3>1 DEF MovesBuckets
    <3>3. Home(kind, T, hs, n) \in 0..(T.count - 1)
      BY <3>1, HomeIs
    <3>. QED
      BY <1>1, <1>2, <3>2, <3>3
  <2>2. CASE ~C.fast
    <3>1. MovesEach(kind, bs, T, M, st, hs, C)
      BY <2>2 DEF Rehashing
    <3>2. Passed(T, C, e, i)
      BY <1>1, <1>2 DEF Passed
    <3>. QED
      BY <3>1, <3>2 DEF MovesEach
  <2>. QED
    BY <2>1, <2>2
<1>4. Shaped(kind, [count |-> C.count, split |-> C.count])
  BY DEF Rehashing
<1>5. C.count \in Nat /\ 1 <= C.count
  BY RehashIs, Zenon
<1>6. Target(kind, C, hs, n) \in 0..(C.count - 1)
  BY <1>4, <1>5, TargetIs
<1>. QED
  BY <1>3, <1>5, <1>6 DEF Settled

\* The table is then U, with the buckets cs.
Rehashed(bs, T, M, st, hs, C, a, c, be, U, cs) ==
  /\ kind \in Kinds /\ bs \in Memories /\ T \in Recs /\ M \in SUBSET Nodes /\ hs \in Hashings
  /\ Rehashing(kind, bs, T, M, st, hs, C) /\ C.n = T.count
  /\ a = C.array /\ c = C.count /\ be = {a}
  /\ U \in Recs /\ U.array = a /\ U.count = c /\ U.split = c
  /\ U.size = IF kind.counted THEN C.size_backup ELSE 0
  /\ U.cache = IF kind.cache THEN C.first ELSE 0
  /\ Shortened(cs, bs, a, c)

\* When the loop is over every element is at home and the cached bucket is the first one.
LEMMA RehashedIsQuiet ==
  ASSUME NEW bs, NEW T, NEW M, NEW st, NEW hs, NEW C, NEW a, NEW c, NEW be, NEW U, NEW cs,
         Rehashed(bs, T, M, st, hs, C, a, c, be, U, cs)
  PROVE  Quiet(kind, cs, U, M, st, hs)
<1>0. /\ kind \in Kinds /\ bs \in Memories /\ T \in Recs /\ M \in SUBSET Nodes /\ hs \in Hashings
      /\ Rehashing(kind, bs, T, M, st, hs, C) /\ C.n = T.count
      /\ U \in Recs
      /\ Shortened(cs, bs, a, c)
  BY DEF Rehashed
<1>1. a = C.array /\ c = C.count /\ be = {a} /\ U.array = a /\ U.count = c /\ U.split = c
  BY DEF Rehashed
<1>2. /\ U.size = IF kind.counted THEN C.size_backup ELSE 0
      /\ U.cache = IF kind.cache THEN C.first ELSE 0
  BY DEF Rehashed
<1>3. /\ c \in Nat /\ 1 <= c /\ c <= MaxCount /\ C.first \in Nat /\ a \in Arrays
      /\ \A i \in 0..(c - 1) : i \in indices
  <2>1. /\ C.count \in Nat /\ 1 <= C.count /\ C.count <= MaxCount /\ C.first \in Nat
        /\ C.array \in Arrays
        /\ \A i \in 0..(C.count - 1) : i \in indices
    BY <1>0, RehashIs, Zenon
  <2>. QED
    BY <1>1, <2>1
<1>4. \A i \in indices : i \in Nat
  BY CountIs DEF indices
<1>5. ASSUME NEW e \in {T.array, C.array}, NEW i \in indices, NEW n \in Nodes, n \in Elems(bs[e][i])
      PROVE  Settled(kind, C, st, hs, e, i, n) /\ i < C.count
  BY <1>0, <1>5, AllSettled, Zenon
<1>6. \A i \in indices : i < c => cs[a][i] = bs[a][i] /\ bs[a][i] \in Seq(Nodes) /\ Distinct(bs[a][i])
  BY <1>0, <1>1 DEF Shortened, Rehashing, BothKept
<1>7. \A i \in indices : ~(i < c) => cs[a][i] = <<Junk>>
  BY <1>0 DEF Shortened
<1>8. Kept(cs, a, c)
  BY <1>6, <1>7 DEF Kept
<1>9. ASSUME NEW i \in indices, NEW n \in Nodes
      PROVE  n \in Elems(cs[a][i]) <=> n \in Elems(bs[a][i]) /\ i < c
  <2>1. Elems(<<Junk>>) = {Junk} /\ n # Junk
    BY SingleBucket, ElementAssumption
  <2>. QED
    BY <1>6, <1>7, <2>1
<1>10. Holds(bs, {T.array, C.array}, M)
  BY <1>0 DEF Rehashing
<1>11. ASSUME NEW n \in Nodes
       PROVE  n \in M <=> \E i \in indices : n \in Elems(cs[a][i])
  <2>1. ASSUME n \in M
        PROVE  \E i \in indices : n \in Elems(cs[a][i])
    <3>1. PICK e \in {T.array, C.array}, i \in indices : n \in Elems(bs[e][i])
      BY <1>10, <2>1 DEF Holds
    <3>2. e = a /\ i < c
      BY <1>1, <1>5, <3>1 DEF Settled
    <3>. QED
      BY <1>9, <3>1, <3>2
  <2>2. ASSUME NEW i \in indices, n \in Elems(cs[a][i])
        PROVE  n \in M
    <3>1. n \in Elems(bs[C.array][i])
      BY <1>1, <1>9, <2>2
    <3>. QED
      BY <1>10, <3>1 DEF Holds
  <2>. QED
    BY <2>1, <2>2
<1>12. Holds(cs, {a}, M)
  BY <1>11 DEF Holds
<1>13. ASSUME NEW i \in indices, NEW n \in Nodes, n \in Elems(cs[a][i])
       PROVE  Settled(kind, C, st, hs, a, i, n)
  BY <1>1, <1>5, <1>9, <1>13
<1>14. AtHome(kind, cs, U, hs)
  BY <1>1, <1>13 DEF AtHome, Settled, Target, Home
<1>15. Hashed(kind, M, st, hs)
  <2> SUFFICES ASSUME kind.store, NEW n \in M
               PROVE  st[n] = hs[Key[n]]
    BY DEF Hashed
  <2>1. n \in Nodes
    BY <1>0
  <2>2. PICK i \in indices : n \in Elems(cs[a][i])
    BY <1>11, <2>1
  <2>. QED
    BY <1>13, <2>1, <2>2 DEF Settled
<1>16. Cached(kind, cs, U)
  <2>1. CASE ~kind.cache
    BY <1>2, <2>1 DEF Cached
  <2>2. CASE kind.cache
    <3>1. U.cache = C.first /\ C.first <= c
      BY <1>0, <1>1, <1>2, <2>2 DEF Rehashing
    <3>2. C.first \in 0..c
      BY <1>3, <3>1
    <3>3. ASSUME C.first < c
          PROVE  cs[a][C.first] # <<>>
      <4>1. C.first \in indices
        BY <1>3, <3>3
      <4>2. bs[C.array][C.first] # <<>>
        <5>1. CASE C.fast
          <6>1. MovesBuckets(kind, bs, T, M, st, hs, C)
            BY <1>0, <5>1 DEF Rehashing
          <6>2. T.count \in Nat
            BY <1>0, RecIs
          <6>3. C.n..(T.count - 1) = {}
            BY <1>0, <6>2
          <6>4. Targets(T, C) = {C.first}
            BY <6>3 DEF Targets
          <6>5. C.first \in Targets(T, C) /\ \A y \in Targets(T, C) : C.first <= y
            BY <1>3, <6>4
          <6>. QED
            BY <1>1, <2>2, <3>3, <6>1, <6>3, <6>5 DEF MovesBuckets
        <5>2. CASE ~C.fast
          <6>1. MovesEach(kind, bs, T, M, st, hs, C)
            BY <1>0, <5>2 DEF Rehashing
          <6>2. PICK n : n \in Elems(bs[C.array][C.first])
            BY <1>1, <2>2, <3>3, <6>1 DEF MovesEach
          <6>. QED
            BY <6>2, EmptyBucket
        <5>. QED
          BY <5>1, <5>2
      <4>. QED
        BY <1>1, <1>6, <3>3, <4>1, <4>2
    <3>4. ASSUME NEW k \in 0..(C.first - 1)
          PROVE  cs[a][k] = <<>>
      <4>1. k \in Nat /\ k < C.first /\ k < c
        BY <1>3, <3>2
      <4>2. k \in indices
        BY <1>3, <4>1
      <4>3. cs[a][k] \in Seq(Nodes)
        BY <1>6, <4>1, <4>2
      <4>4. ASSUME NEW n \in Nodes, n \in Elems(cs[a][k])
            PROVE  FALSE
        <5>1. C.first <= k
          BY <1>13, <2>2, <4>2, <4>4 DEF Settled
        <5>. QED
          BY <1>3, <4>1, <5>1
      <4>. QED
        BY <4>3, <4>4, ElemsOfSeq
    <3>5. IsFirst(cs, a, c, C.first)
      BY <3>2, <3>3, <3>4 DEF IsFirst
    <3>. QED
      BY <1>1, <2>2, <3>1, <3>5 DEF Cached
  <2>3. kind.cache \in BOOLEAN
    BY <1>0, KindIs
  <2>. QED
    BY <2>1, <2>2, <2>3
<1>17. Sized(kind, U.size, M)
  BY <1>0, <1>2 DEF Rehashing, Sized
<1>18. Shaped(kind, U)
  <2>1. Shaped(kind, [count |-> c, split |-> c])
    BY <1>0, <1>1 DEF Rehashing
  <2>. QED
    BY <1>1, <2>1 DEF Shaped
<1>. QED
  BY <1>1, <1>8, <1>12, <1>14, <1>15, <1>16, <1>17, <1>18 DEF Quiet

\* rehash_ends preserves the invariant.
LEMMA RehashEndsBase ==
  ASSUME IBase, rehash_ends
  PROVE  IBase'
<1>1. PICK t : t = call.table
  OBVIOUS
<1>2. PICK T : T = tab[t]
  OBVIOUS
<1>3. PICK M : M = members[t]
  OBVIOUS
<1>4. RehashingNow(t, T, M)
  <2>1. in("rehash")
    BY DEF rehash_ends
  <2>. QED
    BY <1>1, <1>2, <1>3, <2>1, RehashIsNow
<1>5. /\ kind \in Kinds /\ t \in Tables /\ T \in Recs /\ M \in SUBSET Nodes
      /\ buckets \in Memories /\ hashing \in Hashings /\ stored \in [Nodes -> Nat \cup {Junk}]
      /\ tab \in [Tables -> Recs] /\ members \in [Tables -> SUBSET Nodes]
      /\ call \in RehashCalls /\ T.array \in Arrays /\ call.array \in Arrays
      /\ Rehashing(kind, buckets, T, M, stored, hashing, call)
      /\ Owned(tab, call, t) = {T.array, call.array}
      /\ Worked(t, Owned(tab, call, t), buckets, tab, members, stored, hashing, linked, call)
      /\ pending = None \/ Committable(kind, tab, hashing, call, pending)
      /\ ~kind.multi => group = [n \in Nodes |-> Junk]
  BY <1>4 DEF RehashingNow
<1>6. PICK a : a = call.array
  OBVIOUS
<1>7. PICK c : c = call.count
  OBVIOUS
<1>8. PICK be : be = {a}
  BY Zenon
<1>9. PICK S : S = [T EXCEPT !.array = a, !.count = c, !.split = c]
  OBVIOUS
<1>10. PICK R : R = priv_size_count(S, call.size_backup)
  OBVIOUS
<1>11. PICK U : U = set_cache(R, call.first)
  OBVIOUS
<1>12. call.count \in Counts /\ call.size_backup \in Nat /\ call.first \in Nat /\ c \in Nat
  BY <1>5, <1>7, CountIs DEF RehashCalls
<1>13. /\ S \in Recs /\ S.array = a /\ S.count = c /\ S.split = c /\ S.size = T.size
       /\ S.cache = T.cache
  BY <1>5, <1>6, <1>7, <1>9, <1>12, Zenon DEF Recs
<1>14. /\ R \in Recs /\ R.array = a /\ R.count = c /\ R.split = c /\ R.cache = T.cache
       /\ R.size = IF kind.counted THEN call.size_backup ELSE T.size
  BY <1>10, <1>12, <1>13, SetSize
<1>15. /\ U \in Recs /\ U.array = a /\ U.count = c /\ U.split = c
       /\ U.size = R.size
       /\ U.cache = IF kind.cache THEN call.first ELSE R.cache
  BY <1>11, <1>12, <1>14, SetCache, Zenon
<1>16. T.size = 0 /\ (~kind.cache => T.cache = 0)
  BY <1>5 DEF Rehashing
<1>17. PICK tc : tc = [tab EXCEPT ![t] = U]
  BY Zenon
<1>18. PICK cs : cs = given_up(buckets, tc)
  OBVIOUS
<1>19. /\ tab' = tc /\ buckets' = cs /\ call' = None /\ outdated /\ call.n = T.count
       /\ UNCHANGED <<kind, group, stored, linked, hashing, members>>
  BY <1>1, <1>2, <1>6, <1>7, <1>9, <1>10, <1>11, <1>17, <1>18 DEF rehash_ends, rehash_split
<1>20. PICK as : as = Owned(tab, call, t)
  OBVIOUS
<1>21. Others(t, as, buckets, tab, members, stored, hashing, linked) /\ as = {T.array, a}
  BY <1>5, <1>6, <1>20 DEF Worked
<1>22. /\ \A u \in Tables \ {t} : tab[u].array # a
       /\ \A u, v \in Tables, n \in Nodes : n \in members[u] /\ n \in members[v] => u = v
       /\ linked = UNION {members[u] : u \in Tables}
  BY <1>21 DEF Others
<1>23. linked = (linked \ members[t]) \cup M /\ members = [members EXCEPT ![t] = M]
  BY <1>3, <1>5, <1>22
<1>24. \A u \in Tables \ {t} : \A m \in members[u] : m \notin M
  BY <1>3, <1>5, <1>22
<1>25. Exchanges(t, as, buckets, tab, members, stored, hashing, linked, buckets, U, a, be, M,
                 stored, hashing, tc, members, linked, cs)
  BY <1>5, <1>8, <1>15, <1>17, <1>18, <1>21, <1>22, <1>23, <1>24 DEF Exchanges
<1>26. /\ Others(t, be, cs, tc, members, stored, hashing, linked)
       /\ Shortened(cs, buckets, a, U.count)
  BY <1>25, GivenUpOthers, Zenon
<1>27. Rehashed(buckets, T, M, stored, hashing, call, a, c, be, U, cs)
  BY <1>5, <1>6, <1>7, <1>8, <1>14, <1>15, <1>16, <1>19, <1>26 DEF Rehashed
<1>28. Quiet(kind, cs, U, M, stored, hashing)
  BY <1>27, RehashedIsQuiet
<1>29. tc[t] = U
  BY <1>5, <1>17
<1>30. Rest(cs, tc, members, stored, hashing, linked)
  <2>1. be = {tc[t].array}
    BY <1>8, <1>15, <1>29
  <2>2. Others(t, {tc[t].array}, cs, tc, members, stored, hashing, linked)
    BY <1>26, <2>1
  <2>3. Quiet(kind, cs, tc[t], members[t], stored, hashing)
    BY <1>3, <1>28, <1>29
  <2>. QED
    BY <1>5, <2>2, <2>3, OthersRest
<1>31. pending' = None \/ Committable(kind, tc, hashing, None, pending')
  BY <1>5, <1>19, Outdates
<1>32. /\ kind' = kind /\ call' = None
       /\ Rest(buckets', tab', members', stored', hashing', linked')
       /\ pending' = None \/ Committable(kind, tab', hashing', call', pending')
       /\ ~kind.multi => group' = [n \in Nodes |-> Junk]
  BY <1>5, <1>19, <1>30, <1>31
<1>. QED
  BY <1>5, <1>32, RestIsBase

-----------------------------------------------------------------------------
(* An exception in the middle of a rehash.                                  *)

\* Both arrays are emptied.
RolledBack(bs, left, T, C) ==
  /\ BothKept(bs, T, C)
  /\ bs \in Memories /\ T.array \in Arrays /\ C.array \in Arrays
  /\ left = init_buckets(init_buckets(bs, C.array, 0, C.count), T.array, 0, T.count)

\* The rollback leaves no element of the table in a bucket.
LEMMA RollbackEmpties ==
  ASSUME NEW bs, NEW left, NEW T, NEW C, RolledBack(bs, left, T, C),
         T.count \in Nat, C.count \in Nat
  PROVE  /\ left \in Memories
         /\ \A e \in Arrays, i \in indices : e # T.array /\ e # C.array => left[e][i] = bs[e][i]
         /\ \A e \in {T.array, C.array}, i \in indices : left[e][i] \in {<<>>, <<Junk>>}
         /\ \A i \in indices : i < T.count => left[T.array][i] = <<>>
<1>0. /\ BothKept(bs, T, C)
      /\ bs \in Memories /\ T.array \in Arrays /\ C.array \in Arrays
  BY DEF RolledBack
<1>1. PICK bt : bt = init_buckets(bs, C.array, 0, C.count)
  OBVIOUS
<1>2. /\ bt \in Memories
      /\ \A e \in Arrays \ {C.array}, i \in indices : bt[e][i] = bs[e][i]
      /\ \A i \in indices : bt[C.array][i] = IF i \in 0..(C.count - 1) THEN <<>> ELSE bs[C.array][i]
  BY <1>0, <1>1, InitBuckets
<1>3. left = init_buckets(bt, T.array, 0, T.count)
  BY <1>1 DEF RolledBack
<1>4. /\ left \in Memories
      /\ \A e \in Arrays \ {T.array}, i \in indices : left[e][i] = bt[e][i]
      /\ \A i \in indices : left[T.array][i] = IF i \in 0..(T.count - 1) THEN <<>> ELSE bt[T.array][i]
  BY <1>0, <1>2, <1>3, InitBuckets
<1>5. \A i \in indices : (i \in 0..(T.count - 1) <=> i < T.count) /\ (i \in 0..(C.count - 1) <=> i < C.count)
  BY CountIs DEF indices
<1>6. \A e \in {T.array, C.array}, i \in indices : left[e][i] \in {<<>>, <<Junk>>}
  <2> SUFFICES ASSUME NEW e \in {T.array, C.array}, NEW i \in indices
               PROVE  left[e][i] \in {<<>>, <<Junk>>}
    OBVIOUS
  <2>1. \/ (e = T.array /\ i < T.count) \/ (e = C.array /\ i < C.count)
        \/ bs[e][i] = <<Junk>>
    BY <1>0 DEF BothKept
  <2>2. e \in Arrays
    BY <1>0
  <2>3. ASSUME e = T.array, i < T.count
        PROVE  left[e][i] = <<>>
    BY <1>4, <1>5, <2>3
  <2>4. ASSUME ~(e = T.array /\ i < T.count)
        PROVE  left[e][i] = bt[e][i]
    BY <1>4, <1>5, <2>2, <2>4
  <2>5. ASSUME e = C.array, i < C.count
        PROVE  bt[e][i] = <<>>
    BY <1>2, <1>5, <2>5
  <2>6. ASSUME ~(e = C.array /\ i < C.count)
        PROVE  bt[e][i] = bs[e][i]
    BY <1>2, <1>5, <2>2, <2>6
  <2>7. CASE e = T.array /\ i < T.count
    BY <2>3, <2>7
  <2>8. CASE ~(e = T.array /\ i < T.count) /\ e = C.array /\ i < C.count
    BY <2>4, <2>5, <2>8
  <2>9. CASE ~(e = T.array /\ i < T.count) /\ ~(e = C.array /\ i < C.count)
    BY <2>1, <2>4, <2>6, <2>9, Zenon
  <2>. QED
    BY <2>7, <2>8, <2>9
<1>. QED
  BY <1>0, <1>2, <1>4, <1>5, <1>6

\* rehash_throws preserves the invariant.
LEMMA RehashThrowsBase ==
  ASSUME IBase, rehash_throws
  PROVE  IBase'
<1>1. PICK t : t = call.table
  OBVIOUS
<1>2. PICK T : T = tab[t]
  OBVIOUS
<1>3. PICK M : M = members[t]
  OBVIOUS
<1>4. RehashingNow(t, T, M)
  <2>1. in("rehash")
    BY DEF rehash_throws, in_old_buckets
  <2>. QED
    BY <1>1, <1>2, <1>3, <2>1, RehashIsNow
<1>5. /\ kind \in Kinds /\ t \in Tables /\ T \in Recs /\ M \in SUBSET Nodes
      /\ buckets \in Memories /\ hashing \in Hashings /\ stored \in [Nodes -> Nat \cup {Junk}]
      /\ tab \in [Tables -> Recs] /\ members \in [Tables -> SUBSET Nodes]
      /\ call \in RehashCalls /\ T.array \in Arrays /\ call.array \in Arrays
      /\ Rehashing(kind, buckets, T, M, stored, hashing, call)
      /\ Owned(tab, call, t) = {T.array, call.array}
      /\ Worked(t, Owned(tab, call, t), buckets, tab, members, stored, hashing, linked, call)
      /\ ~kind.multi => group = [n \in Nodes |-> Junk]
  BY <1>4 DEF RehashingNow
<1>6. PICK left : left = rollback_both(buckets)
  OBVIOUS
<1>7. PICK as : as = Owned(tab, call, t)
  OBVIOUS
<1>8. /\ Others(t, as, buckets, tab, members, stored, hashing, linked) /\ as = {T.array, call.array}
      /\ Holds(buckets, as, M)
  BY <1>3, <1>5, <1>7 DEF Worked
<1>9. /\ T.count \in Nat /\ call.count \in Nat
  BY <1>5, RecIs, CountIs DEF RehashCalls
<1>10. /\ left \in Memories
       /\ \A e \in Arrays, i \in indices : e # T.array /\ e # call.array => left[e][i] = buckets[e][i]
       /\ \A e \in {T.array, call.array}, i \in indices : left[e][i] \in {<<>>, <<Junk>>}
       /\ \A i \in indices : i < T.count => left[T.array][i] = <<>>
  <2>1. BothKept(buckets, T, call)
    BY <1>5 DEF Rehashing
  <2>2. RolledBack(buckets, left, T, call)
    BY <1>1, <1>2, <1>5, <1>6, <2>1 DEF RolledBack, rollback_both
  <2>. QED
    BY <1>9, <2>2, RollbackEmpties
<1>11. /\ \A u \in Tables \ {t} : tab[u].array \notin as
       /\ \A u, v \in Tables, n \in Nodes : n \in members[u] /\ n \in members[v] => u = v
       /\ linked = UNION {members[u] : u \in Tables}
       /\ \A u \in Tables \ {t} : Quiet(kind, buckets, tab[u], members[u], stored, hashing)
  BY <1>8 DEF Others
<1>12. \A u \in Tables \ {t} : \A m \in members[u] : m \notin M
  BY <1>3, <1>5, <1>11
<1>13. \A u \in Tables \ {t} : tab[u].array \in Arrays /\ tab[u].array # T.array /\ tab[u].array # call.array
  BY <1>5, <1>8, <1>11, RecIs
<1>14. PICK lc : lc = linked \ M
  BY Zenon
<1>15. linked \ (ElementsOf(buckets) \ ElementsOf(left)) = lc
  <2>1. \A bs, n : n \in ElementsOf(bs) <=>
                     n \in Nodes /\ \E e \in Arrays, i \in indices : n \in Elems(bs[e][i])
    BY DEF ElementsOf, Elems
  <2>2. ASSUME NEW n \in M
        PROVE  n \in ElementsOf(buckets) /\ n \notin ElementsOf(left)
    <3>1. n \in Nodes
      BY <1>5
    <3>2. PICK a \in as, k \in indices : n \in Elems(buckets[a][k])
      BY <1>8, <3>1, <2>2 DEF Holds
    <3>3. a \in Arrays /\ a \in {T.array, call.array}
      BY <1>5, <1>8
    <3>4. ASSUME NEW e \in Arrays, NEW i \in indices, n \in Elems(left[e][i])
          PROVE  FALSE
      <4>1. CASE e \in {T.array, call.array}
        <5>1. Elems(<<>>) = {} /\ Elems(<<Junk>>) = {Junk} /\ n # Junk
          BY <3>1, EmptyBucket, SingleBucket, ElementAssumption
        <5>2. left[e][i] \in {<<>>, <<Junk>>}
          BY <1>10, <4>1
        <5>. QED
          BY <3>4, <5>1, <5>2
      <4>2. CASE e \notin {T.array, call.array}
        <5>1. n \in Elems(buckets[e][i])
          BY <1>10, <3>4, <4>2
        <5>2. Apart(buckets)
          BY CallIs DEF rehash_throws, in_old_buckets, in
        <5>. QED
          BY <3>1, <3>2, <3>3, <4>2, <5>1, <5>2 DEF Apart
      <4>. QED
        BY <4>1, <4>2
    <3>. QED
      BY <2>1, <3>1, <3>2, <3>3, <3>4
  <2>3. ASSUME NEW n, n \in ElementsOf(buckets), n \notin M
        PROVE  n \in ElementsOf(left)
    <3>1. PICK e \in Arrays, i \in indices : n \in Nodes /\ n \in Elems(buckets[e][i])
      BY <2>1, <2>3
    <3>2. e \notin as
      BY <1>8, <2>3, <3>1 DEF Holds
    <3>3. left[e][i] = buckets[e][i]
      BY <1>8, <1>10, <3>2
    <3>. QED
      BY <2>1, <3>1, <3>3
  <2>. QED
    BY <1>14, <2>2, <2>3
<1>16. PICK N \in SUBSET Nodes : N = {}
  BY Zenon
<1>17. PICK mc : mc = [members EXCEPT ![t] = N]
  BY Zenon
<1>18. PICK su : su = gone(stored, M)
  OBVIOUS
<1>19. PICK cs : cs = given_up(left, tab)
  OBVIOUS
<1>20. PICK be : be = {T.array}
  BY Zenon
<1>21. PICK a : a = T.array
  OBVIOUS
<1>22. /\ linked' = lc /\ buckets' = cs /\ group' = gone(group, M) /\ stored' = su
       /\ members' = mc /\ call' = None /\ pending' = None /\ kind' = kind /\ tab' = tab
       /\ hashing' = hashing
  BY <1>1, <1>3, <1>6, <1>15, <1>16, <1>17, <1>18, <1>19 DEF rehash_throws
<1>23. su \in [Nodes -> Nat \cup {Junk}] /\ \A n \in Nodes \ M : su[n] = stored[n]
  BY <1>5, <1>18 DEF gone
<1>24. Exchanges(t, as, buckets, tab, members, stored, hashing, linked, left, T, a, be, N, su,
                 hashing, tab, mc, lc, cs)
  <2>1. tab = [tab EXCEPT ![t] = T]
    BY <1>2, <1>5
  <2>2. lc = (linked \ members[t]) \cup N
    BY <1>3, <1>14, <1>16
  <2>3. \A u \in Tables \ {t}, i \in indices : left[tab[u].array][i] = buckets[tab[u].array][i]
    BY <1>10, <1>13
  <2>4. \A u \in Tables \ {t} : \A m \in members[u] :
          su[m] = stored[m] /\ hashing[Key[m]] = hashing[Key[m]] /\ m \notin N
    BY <1>5, <1>12, <1>16, <1>23
  <2>. QED
    BY <1>5, <1>8, <1>10, <1>13, <1>16, <1>17, <1>19, <1>20, <1>21, <1>23, <2>1, <2>2, <2>3, <2>4
       DEF Exchanges
<1>25. /\ Others(t, be, cs, tab, mc, su, hashing, lc)
       /\ Shortened(cs, left, a, T.count)
  BY <1>24, GivenUpOthers, Zenon
<1>26. Emptied(cs, T)
  <2>1. /\ Shaped(kind, T) /\ T.size = 0 /\ T.cache = IF kind.cache THEN T.count ELSE 0
    BY <1>5 DEF Rehashing
  <2>2. /\ cs \in Memories
        /\ \A i \in indices : cs[T.array][i] = IF i < T.count THEN <<>> ELSE <<Junk>>
    BY <1>10, <1>21, <1>25 DEF Shortened
  <2>. QED
    BY <1>5, <2>1, <2>2 DEF Emptied
<1>27. Quiet(kind, cs, T, N, su, hashing)
  BY <1>16, <1>26, EmptiedIsQuiet
<1>28. Rest(cs, tab, mc, su, hashing, lc)
  <2>1. be = {tab[t].array}
    BY <1>2, <1>20
  <2>2. Others(t, {tab[t].array}, cs, tab, mc, su, hashing, lc)
    BY <1>25, <2>1
  <2>3. Quiet(kind, cs, tab[t], mc[t], su, hashing)
    BY <1>2, <1>5, <1>17, <1>27
  <2>. QED
    BY <1>5, <2>2, <2>3, OthersRest
<1>29. ~kind.multi => group' = [n \in Nodes |-> Junk]
  BY <1>5, <1>22 DEF gone
<1>30. /\ kind' = kind /\ call' = None /\ pending' = None
       /\ Rest(buckets', tab', members', stored', hashing', linked')
  BY <1>22, <1>28
<1>. QED
  BY <1>5, <1>29, <1>30, RestIsBase

-----------------------------------------------------------------------------
(* The beginning of a rehash.                                               *)

\* The first c buckets of array a are new ones for the table T, and empty.
NewBuckets(bs, bt, T, a, c) ==
  /\ bt \in Memories
  /\ \A e \in Arrays, i \in indices : e # T.array /\ e # a => bt[e][i] = bs[e][i]
  /\ \A i \in indices :
       bt[T.array][i] = IF i < T.count THEN bs[T.array][i]
                        ELSE IF a = T.array /\ i < c THEN <<>> ELSE <<Junk>>
  /\ a # T.array => \A i \in indices : bt[a][i] = IF i < c THEN <<>> ELSE <<Junk>>

\* priv_initialize_new_buckets() empties the new buckets and no other.
LEMMA InitializedIs ==
  ASSUME NEW bs \in Memories, NEW T \in Recs, NEW a \in Arrays, NEW c \in Nat,
         Kept(bs, T.array, T.count), a # T.array => Kept(bs, a, 0)
  PROVE  NewBuckets(bs, initialized(bs, T, a, c), T, a, c)
<1>1. PICK bt : bt = initialized(bs, T, a, c)
  OBVIOUS
<1>2. T.array \in Arrays /\ T.count \in Nat /\ \A i \in indices : i \in Nat /\ ~(i < 0)
  BY RecIs DEF indices
<1>3. \A i \in indices : ~(i < T.count) => bs[T.array][i] = <<Junk>>
  BY DEF Kept
<1>4. CASE a = T.array
  <2>1. bt = init_buckets(bs, a, T.count, c)
    BY <1>1, <1>4 DEF initialized
  <2>2. /\ bt \in Memories
        /\ \A e \in Arrays \ {a}, i \in indices : bt[e][i] = bs[e][i]
        /\ \A i \in indices : bt[a][i] = IF i \in T.count..(c - 1) THEN <<>> ELSE bs[a][i]
    BY <2>1, InitBuckets
  <2>3. \A i \in indices : i \in T.count..(c - 1) <=> ~(i < T.count) /\ i < c
    BY <1>2
  <2>4. \A i \in indices :
          bt[T.array][i] = IF i < T.count THEN bs[T.array][i]
                           ELSE IF a = T.array /\ i < c THEN <<>> ELSE <<Junk>>
    BY <1>3, <1>4, <2>2, <2>3
  <2>. QED
    BY <1>1, <1>4, <2>2, <2>4 DEF NewBuckets
<1>5. CASE a # T.array
  <2>1. bt = init_buckets(bs, a, 0, c)
    BY <1>1, <1>5 DEF initialized
  <2>2. /\ bt \in Memories
        /\ \A e \in Arrays \ {a}, i \in indices : bt[e][i] = bs[e][i]
        /\ \A i \in indices : bt[a][i] = IF i \in 0..(c - 1) THEN <<>> ELSE bs[a][i]
    BY <2>1, InitBuckets
  <2>3. \A i \in indices : i \in 0..(c - 1) <=> i < c
    BY <1>2
  <2>4. \A i \in indices : bs[a][i] = <<Junk>>
    BY <1>2, <1>5 DEF Kept
  <2>5. \A i \in indices : bt[T.array][i] = bs[T.array][i]
    BY <1>2, <1>5, <2>2
  <2>6. \A i \in indices :
          bt[T.array][i] = IF i < T.count THEN bs[T.array][i]
                           ELSE IF a = T.array /\ i < c THEN <<>> ELSE <<Junk>>
    BY <1>3, <1>5, <2>5
  <2>7. \A i \in indices : bt[a][i] = IF i < c THEN <<>> ELSE <<Junk>>
    BY <2>2, <2>3, <2>4
  <2>. QED
    BY <1>1, <1>5, <2>2, <2>6, <2>7 DEF NewBuckets
<1>. QED
  BY <1>4, <1>5

\* Table T, which is then U, begins the rehash D.
Begins(bs, bt, T, M, st, hs, ht, a, c, full, fast, n, first, U, D, as) ==
  /\ kind \in Kinds /\ bs \in Memories /\ T \in Recs /\ M \in SUBSET Nodes
  /\ hs \in Hashings /\ ht \in Hashings
  /\ Quiet(kind, bs, T, M, st, hs)
  /\ \A m \in Nodes, i, j \in indices :
       m \in Elems(bs[T.array][i]) /\ m \in Elems(bs[T.array][j]) => i = j
  /\ a \in Arrays /\ c \in Counts /\ c \in Nat /\ 1 <= c
  /\ Shaped(kind, [count |-> c, split |-> c])
  /\ NewBuckets(bs, bt, T, a, c)
  /\ full \in BOOLEAN /\ fast \in BOOLEAN
  /\ full => a = T.array /\ c = T.count
  /\ ~full => ht = hs
  /\ fast <=> ~full /\ ~kind.incremental /\ c <= T.count /\ T.count % c = 0
  /\ IF a = T.array /\ fast /\ T.cache < c THEN n = c /\ first = T.cache
     ELSE n = T.cache /\ first = c
  /\ U \in Recs /\ U.array = T.array /\ U.count = T.count /\ U.split = T.split
  /\ U.size = 0 /\ U.cache = IF kind.cache THEN T.count ELSE 0
  /\ D \in RehashCalls /\ D.op = "rehash" /\ D.array = a /\ D.count = c /\ D.full = full
  /\ D.fast = fast /\ D.n = n /\ D.before_i = 0 /\ D.first = first /\ D.size_backup = T.size
  /\ kind.cache /\ fast =>
       \A m \in Targets(T, D) : m # c /\ (\A y \in Targets(T, D) : m <= y) =>
         \E k \in 0..(T.count - 1) : k % c = m /\ bs[T.array][k] # <<>>
  /\ as = {T.array, a}

\* The elements stay where they are.
LEMMA BeginKeeps ==
  ASSUME NEW bs, NEW bt, NEW T, NEW M, NEW st, NEW hs, NEW ht, NEW a, NEW c, NEW full, NEW fast,
         NEW n, NEW first, NEW U, NEW D, NEW as,
         Begins(bs, bt, T, M, st, hs, ht, a, c, full, fast, n, first, U, D, as)
  PROVE  /\ \A e \in as, i \in indices, m \in Nodes :
              m \in Elems(bt[e][i]) <=> e = T.array /\ m \in Elems(bs[e][i])
         /\ \A i \in indices, m \in Nodes : m \in Elems(bs[T.array][i]) =>
              /\ i \in Nat /\ i < T.count /\ T.cache <= i
              /\ m \in M /\ i = Home(kind, T, hs, m)
         /\ T.cache \in Nat /\ T.cache <= T.count
         /\ BothKept(bt, U, D) /\ Holds(bt, as, M) /\ ApartIn(as, bt)
<1>1. /\ kind \in Kinds /\ bs \in Memories /\ T \in Recs /\ M \in SUBSET Nodes
      /\ Quiet(kind, bs, T, M, st, hs)
      /\ \A m \in Nodes, i, j \in indices :
           m \in Elems(bs[T.array][i]) /\ m \in Elems(bs[T.array][j]) => i = j
      /\ NewBuckets(bs, bt, T, a, c)
      /\ as = {T.array, a}
      /\ U.array = T.array /\ U.count = T.count /\ D.array = a /\ D.count = c
  BY DEF Begins
<1>2. /\ T.cache <= T.count
      /\ \A i \in 0..(T.count - 1) : /\ i \in indices
                                     /\ bs[T.array][i] \in Seq(Nodes) /\ Distinct(bs[T.array][i])
      /\ \A m \in M : \E i \in 0..(T.count - 1) : m \in Elems(bs[T.array][i])
      /\ \A i \in indices, m \in Nodes : m \in Elems(bs[T.array][i]) =>
           m \in M /\ i = Home(kind, T, hs, m) /\ i \in 0..(T.count - 1)
      /\ \A i \in indices : ~(i < T.count) => bs[T.array][i] = <<Junk>>
      /\ \A i \in 0..(T.cache - 1) : bs[T.array][i] = <<>>
  BY <1>1, QuietIs, Zenon
<1>3. /\ T.count \in Nat /\ T.cache \in Nat /\ \A i \in indices : i \in Nat
      /\ Elems(<<>>) = {} /\ \A m \in Nodes : m \notin Elems(<<Junk>>)
  BY <1>1, RecIs, EmptyBucket, SingleBucket, ElementAssumption DEF indices
<1>4. /\ \A i \in indices :
           bt[T.array][i] = IF i < T.count THEN bs[T.array][i]
                            ELSE IF a = T.array /\ i < c THEN <<>> ELSE <<Junk>>
      /\ a # T.array => \A i \in indices : bt[a][i] = IF i < c THEN <<>> ELSE <<Junk>>
  BY <1>1 DEF NewBuckets
<1>5. ASSUME NEW i \in indices, NEW m \in Nodes, m \in Elems(bs[T.array][i])
      PROVE  /\ i \in Nat /\ i < T.count /\ T.cache <= i
             /\ m \in M /\ i = Home(kind, T, hs, m)
  <2>1. m \in M /\ i = Home(kind, T, hs, m) /\ i \in 0..(T.count - 1)
    BY <1>2, <1>5
  <2>2. ~(i \in 0..(T.cache - 1))
    BY <1>2, <1>3, <1>5
  <2>. QED
    BY <1>3, <2>1, <2>2
<1>6. ASSUME NEW i \in indices, NEW m \in Nodes
      PROVE  /\ m \in Elems(bt[T.array][i]) <=> m \in Elems(bs[T.array][i])
             /\ a # T.array => m \notin Elems(bt[a][i])
  <2>1. ~(i < T.count) => m \notin Elems(bs[T.array][i]) /\ m \notin Elems(bt[T.array][i])
    BY <1>2, <1>3, <1>4
  <2>2. i < T.count => bt[T.array][i] = bs[T.array][i]
    BY <1>4
  <2>3. a # T.array => m \notin Elems(bt[a][i])
    BY <1>3, <1>4
  <2>. QED
    BY <2>1, <2>2, <2>3
<1>7. \A e \in as, i \in indices, m \in Nodes :
        m \in Elems(bt[e][i]) <=> e = T.array /\ m \in Elems(bs[e][i])
  BY <1>1, <1>6
<1>8. ASSUME NEW e \in {T.array, a}, NEW i \in indices
      PROVE  IF (e = T.array /\ i < T.count) \/ (e = a /\ i < c)
             THEN bt[e][i] \in Seq(Nodes) /\ Distinct(bt[e][i])
             ELSE bt[e][i] = <<Junk>>
  <2>1. i < T.count => bs[T.array][i] \in Seq(Nodes) /\ Distinct(bs[T.array][i])
    BY <1>2, <1>3
  <2>2. <<>> \in Seq(Nodes) /\ Distinct(<<>>)
    BY EmptyBucket
  <2>3. CASE e = T.array
    <3>1. CASE i < T.count
      BY <1>4, <2>1, <2>3, <3>1
    <3>2. CASE ~(i < T.count) /\ a = T.array /\ i < c
      BY <1>4, <2>2, <2>3, <3>2, Zenon
    <3>3. CASE ~(i < T.count) /\ ~(a = T.array /\ i < c)
      BY <1>4, <2>3, <3>3
    <3>. QED
      BY <3>1, <3>2, <3>3
  <2>4. CASE e # T.array
    BY <1>4, <2>2, <2>4, Zenon
  <2>. QED
    BY <2>3, <2>4
<1>9. BothKept(bt, U, D)
  BY <1>1, <1>8 DEF BothKept
<1>10. Holds(bt, as, M)
  BY <1>1, <1>2, <1>5, <1>7 DEF Holds
<1>11. ApartIn(as, bt)
  BY <1>1, <1>7 DEF ApartIn
<1>. QED
  BY <1>2, <1>3, <1>5, <1>7, <1>9, <1>10, <1>11, Zenon

\* A rehash that handles one element after another begins with no element passed.
LEMMA BeginsEach ==
  ASSUME NEW bs, NEW bt, NEW T, NEW M, NEW st, NEW hs, NEW ht, NEW a, NEW c, NEW full, NEW fast,
         NEW n, NEW first, NEW U, NEW D, NEW as,
         Begins(bs, bt, T, M, st, hs, ht, a, c, full, fast, n, first, U, D, as), ~fast
  PROVE  MovesEach(kind, bt, U, M, st, ht, D)
<1>1. /\ kind \in Kinds /\ bs \in Memories /\ bt \in Memories /\ T \in Recs
      /\ Quiet(kind, bs, T, M, st, hs)
      /\ full => a = T.array /\ c = T.count
      /\ ~full => ht = hs
      /\ n = T.cache /\ first = c /\ c \in Nat
      /\ U.array = T.array /\ U.count = T.count
      /\ D.array = a /\ D.count = c /\ D.full = full /\ full \in BOOLEAN
      /\ D.n = n /\ D.before_i = 0 /\ D.first = first
      /\ as = {T.array, a}
  BY DEF Begins, NewBuckets
<1>2. /\ \A e \in as, i \in indices, m \in Nodes :
           m \in Elems(bt[e][i]) <=> e = T.array /\ m \in Elems(bs[e][i])
      /\ \A i \in indices, m \in Nodes : m \in Elems(bs[T.array][i]) =>
           /\ i \in Nat /\ i < T.count /\ T.cache <= i
           /\ m \in M /\ i = Home(kind, T, hs, m)
      /\ T.cache \in Nat /\ T.cache <= T.count
      /\ BothKept(bt, U, D) /\ Holds(bt, as, M) /\ ApartIn(as, bt)
  BY BeginKeeps, Zenon
<1>3. D.n < U.count => D.before_i <= Len(bt[U.array][D.n])
  <2> SUFFICES ASSUME D.n < U.count
               PROVE  0 <= Len(bt[U.array][D.n])
    BY <1>1
  <2>1. D.n \in 0..(T.count - 1)
    BY <1>1, <1>2, RecIs
  <2>2. D.n \in indices
    BY <1>1, <2>1, RecIs
  <2>3. bt[U.array][D.n] \in Seq(Nodes)
    BY <1>2, <2>2 DEF BothKept
  <2>. QED
    BY <2>3, ElemsOfSeq
<1>4. IF D.full THEN D.array = U.array /\ D.count = U.count ELSE Hashed(kind, M, st, ht)
  <2>1. Hashed(kind, M, st, hs)
    BY <1>1 DEF Quiet
  <2>. QED
    BY <1>1, <2>1
<1>5. ASSUME NEW e \in {U.array, D.array}, NEW i \in indices, NEW m \in Nodes,
             m \in Elems(bt[e][i]), Passed(U, D, e, i)
      PROVE  FALSE
  <2>1. e = T.array /\ m \in Elems(bs[e][i])
    BY <1>1, <1>2, <1>5
  <2>2. i \in Nat /\ i < T.count /\ T.cache <= i
    BY <1>2, <2>1
  <2>3. ~(i >= T.count) /\ ~(i < T.cache)
    BY <1>1, <1>2, <2>2, RecIs
  <2>. QED
    BY <1>1, <1>5, <2>1, <2>3 DEF Passed
<1>6. \A x \in 1..D.before_i : FALSE
  BY <1>1
<1>7. ~(D.first < D.count)
  BY <1>1
<1>. QED
  BY <1>3, <1>4, <1>5, <1>6, <1>7 DEF MovesEach

\* A fast shrink begins with every element at its old home or its new one.
LEMMA BeginsBuckets ==
  ASSUME NEW bs, NEW bt, NEW T, NEW M, NEW st, NEW hs, NEW ht, NEW a, NEW c, NEW full, NEW fast,
         NEW n, NEW first, NEW U, NEW D, NEW as,
         Begins(bs, bt, T, M, st, hs, ht, a, c, full, fast, n, first, U, D, as), fast
  PROVE  MovesBuckets(kind, bt, U, M, st, ht, D)
<1>1. /\ kind \in Kinds /\ bs \in Memories /\ bt \in Memories /\ T \in Recs
      /\ hs \in Hashings
      /\ Quiet(kind, bs, T, M, st, hs)
      /\ ~full /\ ht = hs
      /\ ~kind.incremental /\ c <= T.count /\ T.count % c = 0
      /\ c \in Nat /\ 1 <= c
      /\ IF a = T.array /\ T.cache < c THEN n = c /\ first = T.cache
         ELSE n = T.cache /\ first = c
      /\ U.array = T.array /\ U.count = T.count /\ U.split = T.split
      /\ D.array = a /\ D.count = c /\ D.full = full
      /\ D.n = n /\ D.first = first /\ D.before_i = 0
      /\ as = {T.array, a}
      /\ T.count \in Nat /\ 1 <= T.count /\ T.cache \in Nat
  BY RecIs DEF Begins, NewBuckets
<1>2. /\ \A e \in as, i \in indices, m \in Nodes :
           m \in Elems(bt[e][i]) <=> e = T.array /\ m \in Elems(bs[e][i])
      /\ \A i \in indices, m \in Nodes : m \in Elems(bs[T.array][i]) =>
           /\ i \in Nat /\ i < T.count /\ T.cache <= i
           /\ m \in M /\ i = Home(kind, T, hs, m)
      /\ T.cache \in Nat /\ T.cache <= T.count
      /\ BothKept(bt, U, D) /\ Holds(bt, as, M) /\ ApartIn(as, bt)
  BY BeginKeeps, Zenon
<1>3. Hashed(kind, M, st, hs)
  BY <1>1 DEF Quiet
<1>4. D.array = U.array => D.count <= D.n
  BY <1>1
<1>5. ASSUME NEW e \in {U.array, D.array}, NEW i \in indices, NEW m \in Nodes,
             m \in Elems(bt[e][i])
      PROVE  \/ Settled(kind, D, st, hs, e, i, m)
             \/ e = U.array /\ D.n <= i /\ i = Home(kind, U, hs, m)
  <2>1. e = T.array /\ m \in Elems(bs[e][i])
    BY <1>1, <1>2, <1>5
  <2>2. i \in Nat /\ i < T.count /\ T.cache <= i /\ m \in M /\ i = Home(kind, T, hs, m)
    BY <1>2, <2>1
  <2>3. Home(kind, U, hs, m) = Home(kind, T, hs, m)
    BY <1>1 DEF Home
  <2>4. CASE a = T.array /\ T.cache < c /\ i < c
    <3>1. Shaped(kind, T)
      BY <1>1 DEF Quiet
    <3>2. i = hs[Key[m]] % T.count
      BY <1>1, <2>2, <3>1, HomeIs
    <3>3. hs[Key[m]] \in Nat
      BY <1>1, HashIs
    <3>4. PICK h \in Nat : h = hs[Key[m]]
      BY <3>3
    <3>5. (h % T.count) % c = h % c
      <4>1. T.count > 0 /\ c > 0
        BY <1>1
      <4>. QED
        BY <1>1, <4>1, ModMod, Zenon
    <3>6. i % c = i
      BY <1>1, <2>2, <2>4, ModSmall
    <3>7. i = h % c
      BY <3>2, <3>4, <3>5, <3>6
    <3>8. Target(kind, D, hs, m) = h % c
      <4>1. Target(kind, D, hs, m) = hash_to_bucket_split(h, c, c, kind.incremental)
        BY <1>1, <3>4 DEF Target
      <4>. QED
        BY <1>1, <4>1 DEF hash_to_bucket_split
    <3>9. kind.store => st[m] = hs[Key[m]]
      BY <1>3, <2>2 DEF Hashed
    <3>10. e = D.array /\ D.first <= i
      BY <1>1, <2>1, <2>2, <2>4
    <3>. QED
      BY <3>7, <3>8, <3>9, <3>10 DEF Settled
  <2>5. CASE ~(a = T.array /\ T.cache < c /\ i < c)
    <3>1. D.n <= i
      BY <1>1, <2>2, <2>5
    <3>. QED
      BY <1>1, <2>1, <2>2, <2>3, <3>1
  <2>. QED
    BY <2>4, <2>5
<1>6. ASSUME kind.cache, NEW m \in Targets(U, D), m < D.count, \A y \in Targets(U, D) : m <= y
      PROVE  \/ bt[D.array][m] # <<>>
             \/ \E k \in D.n..(U.count - 1) : k % D.count = m /\ bt[U.array][k] # <<>>
  <2>1. Targets(U, D) = Targets(T, D)
    BY <1>1 DEF Targets
  <2>2. m # c
    BY <1>1, <1>6
  <2>3. PICK k \in 0..(T.count - 1) : k % c = m /\ bs[T.array][k] # <<>>
    BY <1>6, <2>1, <2>2 DEF Begins
  <2>4. k \in Nat /\ k < T.count /\ k \in indices
    BY <1>1, <2>3, RecIs
  <2>5. bt[T.array][k] = bs[T.array][k]
    BY <2>4 DEF Begins, NewBuckets
  <2>6. CASE D.n <= k
    <3>1. k \in D.n..(U.count - 1)
      BY <1>1, <2>4, <2>6
    <3>. QED
      BY <1>1, <2>3, <2>5, <3>1
  <2>7. CASE k < D.n
    <3>1. T.cache <= k
      <4>1. bs[T.array][k] \in Seq(Nodes)
        BY <1>1, <2>3, QuietIs, ZenonT(40) DEF Begins
      <4>2. PICK x \in Nodes : x \in Elems(bs[T.array][k])
        BY <2>3, <4>1, ElemsOfSeq
      <4>. QED
        BY <1>2, <2>4, <4>2
    <3>2. a = T.array /\ T.cache < c /\ k < c
      BY <1>1, <2>4, <2>7, <3>1
    <3>3. k % c = k
      BY <1>1, <2>4, <3>2, ModSmall
    <3>. QED
      BY <1>1, <2>3, <2>5, <3>2, <3>3
  <2>8. D.n \in Nat
    BY <1>1
  <2>. QED
    BY <2>4, <2>6, <2>7, <2>8
<1>. QED
  BY <1>1, <1>3, <1>4, <1>5, <1>6 DEF MovesBuckets

\* A rehash has begun as the invariant asks.
LEMMA BeginsRehash ==
  ASSUME NEW bs, NEW bt, NEW T, NEW M, NEW st, NEW hs, NEW ht, NEW a, NEW c, NEW full, NEW fast,
         NEW n, NEW first, NEW U, NEW D, NEW as,
         Begins(bs, bt, T, M, st, hs, ht, a, c, full, fast, n, first, U, D, as)
  PROVE  Rehashing(kind, bt, U, M, st, ht, D)
<1>1. /\ kind \in Kinds /\ T \in Recs /\ Quiet(kind, bs, T, M, st, hs)
      /\ D \in RehashCalls /\ D.array = a /\ D.count = c /\ D.fast = fast /\ fast \in BOOLEAN
      /\ D.n = n /\ D.first = first /\ D.size_backup = T.size
      /\ Shaped(kind, [count |-> c, split |-> c])
      /\ U.array = T.array /\ U.count = T.count /\ U.split = T.split
      /\ U.size = 0 /\ U.cache = IF kind.cache THEN T.count ELSE 0
      /\ as = {T.array, a} /\ c \in Nat
      /\ fast => c <= T.count
      /\ IF a = T.array /\ fast /\ T.cache < c THEN n = c /\ first = T.cache
         ELSE n = T.cache /\ first = c
  BY DEF Begins
<1>2. T.cache \in Nat /\ T.cache <= T.count /\ BothKept(bt, U, D) /\ Holds(bt, as, M)
  BY BeginKeeps, Zenon
<1>3. Shaped(kind, T) /\ Sized(kind, T.size, M)
  BY <1>1 DEF Quiet
<1>4. Shaped(kind, U) /\ Sized(kind, D.size_backup, M)
  BY <1>1, <1>3 DEF Shaped
<1>5. D.n <= U.count /\ D.first <= D.count
  BY <1>1, <1>2
<1>6. IF D.fast THEN MovesBuckets(kind, bt, U, M, st, ht, D) ELSE MovesEach(kind, bt, U, M, st, ht, D)
  BY <1>1, BeginsEach, BeginsBuckets
<1>. QED
  BY <1>1, <1>2, <1>4, <1>5, <1>6 DEF Rehashing

\* Table t with the record T and the elements M is about to be rehashed, which has set bt and U.
Begun(t, a, c, full, bt, T, M, ht, fast, n, first, U, D, as, tc) ==
  /\ T = tab[t] /\ M = members[t]
  /\ Begins(buckets, bt, T, M, stored, hashing, ht, a, c, full, fast, n, first, U, D, as)
  /\ D.table = t
  /\ fast = fast_shrink(t, c, full)
  /\ tc = [tab EXCEPT ![t] = U]
  /\ hashing' = ht
  /\ IF full THEN pending' = None ELSE pending' = pending
  /\ buckets' = bt /\ tab' = tc /\ call' = D
  /\ UNCHANGED <<kind, group, stored, linked, members>>

\* What rehash_begins does to the table and the buckets.
LEMMA RehashBeginsIs ==
  ASSUME IBase, NEW t \in Tables, NEW a \in arrays(t), NEW c \in bucket_counts,
         NEW full \in BOOLEAN, rehash_begins(t, a, c, full)
  PROVE  \E bt, T, M, ht, fast, n, first, U, D, as, tc :
           Begun(t, a, c, full, bt, T, M, ht, fast, n, first, U, D, as, tc)
<1>1. /\ Resting /\ call = None
      /\ pending = None \/ Committable(kind, tab, hashing, call, pending)
      /\ ~kind.multi => group = [n \in Nodes |-> Junk]
  BY IdleIs DEF rehash_begins
<1>2. PICK T : T = tab[t]
  OBVIOUS
<1>3. PICK M : M = members[t]
  OBVIOUS
<1>4. /\ kind \in Kinds /\ buckets \in Memories /\ hashing \in Hashings
      /\ stored \in [Nodes -> Nat \cup {Junk}]
      /\ tab \in [Tables -> Recs] /\ members \in [Tables -> SUBSET Nodes]
      /\ T \in Recs /\ M \in SUBSET Nodes
      /\ Quiet(kind, buckets, T, M, stored, hashing)
      /\ Rest(buckets, tab, members, stored, hashing, linked)
  BY <1>1, <1>2, <1>3, RestingIs DEF Resting
<1>5. a \in Arrays /\ \A u \in Tables \ {t} : tab[u].array # a
  BY <1>1, ArraysAre
<1>6. /\ c \in Counts /\ c \in Nat /\ 1 <= c /\ c <= MaxCount
      /\ Shaped(kind, [count |-> c, split |-> c])
  BY <1>4, BucketCounts
<1>7. PICK fast \in BOOLEAN : fast = fast_shrink(t, c, full)
  BY Zenon DEF fast_shrink
<1>8. fast <=> ~full /\ ~kind.incremental /\ c <= T.count /\ T.count % c = 0
  <2>1. T.count >= c <=> c <= T.count
    BY <1>4, <1>6, RecIs
  <2>. QED
    BY <1>2, <1>7, <2>1 DEF fast_shrink
<1>9. PICK n : n = starts(t, a, c, full).n
  OBVIOUS
<1>10. PICK first : first = starts(t, a, c, full).first
  OBVIOUS
<1>11. IF a = T.array /\ fast /\ T.cache < c THEN n = c /\ first = T.cache
       ELSE n = T.cache /\ first = c
  BY <1>2, <1>7, <1>9, <1>10 DEF starts
<1>12. T.cache \in Nat /\ T.array \in Arrays /\ T.count \in Nat /\ T.size \in Nat
  BY <1>4, RecIs
<1>13. n \in Nat /\ first \in Nat
  BY <1>6, <1>11, <1>12
<1>14. PICK D : D = [op |-> "rehash", table |-> t, array |-> a, count |-> c, full |-> full,
                     fast |-> fast, n |-> n, before_i |-> 0, first |-> first,
                     size_backup |-> T.size]
  BY Zenon
<1>15. /\ D \in RehashCalls /\ D.op = "rehash" /\ D.table = t /\ D.array = a /\ D.count = c
       /\ D.full = full /\ D.fast = fast /\ D.n = n /\ D.before_i = 0 /\ D.first = first
       /\ D.size_backup = T.size
  BY <1>5, <1>6, <1>12, <1>13, <1>14 DEF RehashCalls
<1>16. PICK R : R = priv_init_cache(T)
  OBVIOUS
<1>17. PICK U : U = priv_size_count(R, 0)
  OBVIOUS
<1>18. /\ U \in Recs /\ U.array = T.array /\ U.count = T.count /\ U.split = T.split
       /\ U.size = 0 /\ U.cache = IF kind.cache THEN T.count ELSE 0
  <2>1. /\ R \in Recs /\ R.array = T.array /\ R.count = T.count /\ R.split = T.split
        /\ R.size = T.size /\ R.cache = IF kind.cache THEN T.count ELSE T.cache
    BY <1>4, <1>16, InitCache
  <2>2. /\ U \in Recs /\ U.array = R.array /\ U.count = R.count /\ U.split = R.split
        /\ U.cache = R.cache /\ U.size = IF kind.counted THEN 0 ELSE R.size
    BY <1>17, <2>1, SetSize
  <2>3. (~kind.cache => T.cache = 0) /\ (~kind.counted => T.size = 0)
    BY <1>4 DEF Quiet, Cached, Sized
  <2>. QED
    BY <2>1, <2>2, <2>3
<1>19. PICK ht : ht = hashing'
  OBVIOUS
<1>20. ht \in Hashings /\ (~full => ht = hashing /\ pending' = pending) /\ (full => pending' = None)
  BY <1>4, <1>19 DEF rehash_begins
<1>21. full => /\ a = T.array /\ c = T.count
               /\ \A u \in Tables \ {t} : members[u] = {}
  BY <1>2 DEF rehash_begins
<1>22. PICK bt : bt = IF full THEN buckets ELSE initialized(buckets, T, a, c)
  OBVIOUS
<1>23. Kept(buckets, T.array, T.count) /\ (a # T.array => Kept(buckets, a, 0))
  <2>1. Kept(buckets, T.array, T.count)
    BY <1>4 DEF Quiet
  <2>2. ASSUME a # T.array
        PROVE  Kept(buckets, a, 0)
    <3>1. \A u \in Tables : a # tab[u].array
      BY <1>2, <1>5, <2>2
    <3>. QED
      BY <1>4, <1>5, <3>1 DEF Rest
  <2>. QED
    BY <2>1, <2>2
<1>24. NewBuckets(buckets, bt, T, a, c)
  <2>1. CASE full
    <3>1. \A i \in indices :
            buckets[T.array][i] = IF i < T.count THEN buckets[T.array][i]
                                  ELSE IF a = T.array /\ i < c THEN <<>> ELSE <<Junk>>
      <4>1. \A i \in indices : ~(i < T.count) => buckets[T.array][i] = <<Junk>>
        BY <1>23 DEF Kept
      <4>. QED
        BY <1>21, <2>1, <4>1
    <3>2. bt = buckets /\ a = T.array
      BY <1>21, <1>22, <2>1
    <3>. QED
      BY <1>4, <3>1, <3>2 DEF NewBuckets
  <2>2. CASE ~full
    <3>1. bt = initialized(buckets, T, a, c)
      BY <1>22, <2>2
    <3>. QED
      BY <1>4, <1>5, <1>6, <1>23, <3>1, InitializedIs
  <2>. QED
    BY <2>1, <2>2
<1>25. PICK as : as = {T.array, a}
  BY Zenon
<1>26. kind.cache /\ fast =>
         \A m \in Targets(T, D) : m # c /\ (\A y \in Targets(T, D) : m <= y) =>
           \E k \in 0..(T.count - 1) : k % c = m /\ buckets[T.array][k] # <<>>
  <2> SUFFICES ASSUME kind.cache, fast, NEW m \in Targets(T, D), m # c,
                      \A y \in Targets(T, D) : m <= y
               PROVE  \E k \in 0..(T.count - 1) : k % c = m /\ buckets[T.array][k] # <<>>
    OBVIOUS
  <2>1. Targets(T, D) = {k % c : k \in n..(T.count - 1)} \cup {first}
    BY <1>15 DEF Targets
  <2>2. m \in {k % c : k \in {k \in used(t) : bucket(t, k) # <<>>}}
    <3>1. ~misses_first(t, a, c, full)
      BY DEF rehash_begins
    <3>. QED
      BY <1>2, <1>7, <1>9, <1>10, <2>1, <3>1, Zenon DEF misses_first
  <2>. QED
    BY <1>2, <2>2 DEF used, bucket
<1>27. \A m \in Nodes, i, j \in indices :
         m \in Elems(buckets[T.array][i]) /\ m \in Elems(buckets[T.array][j]) => i = j
  <2>1. Apart(buckets)
    BY <1>4, RestIsApart
  <2>. QED
    BY <1>12, <2>1 DEF Apart
<1>28. Begins(buckets, bt, T, M, stored, hashing, ht, a, c, full, fast, n, first, U, D, as)
  BY <1>4, <1>5, <1>6, <1>8, <1>11, <1>15, <1>18, <1>20, <1>21, <1>24, <1>25, <1>26, <1>27
     DEF Begins
<1>29. PICK tc : tc = [tab EXCEPT ![t] = U]
  BY Zenon
<1>30. /\ buckets' = bt /\ tab' = tc /\ call' = D
       /\ UNCHANGED <<kind, group, stored, linked, members>>
  BY <1>2, <1>7, <1>9, <1>10, <1>14, <1>16, <1>17, <1>22, <1>29 DEF rehash_begins
<1>31. Begun(t, a, c, full, bt, T, M, ht, fast, n, first, U, D, as, tc)
  BY <1>2, <1>3, <1>7, <1>15, <1>19, <1>20, <1>28, <1>29, <1>30 DEF Begun
<1>. QED
  BY <1>31

\* rehash_begins preserves the invariant.
LEMMA RehashBeginsBase ==
  ASSUME IBase, NEW t \in Tables, NEW a \in arrays(t), NEW c \in bucket_counts,
         NEW full \in BOOLEAN, rehash_begins(t, a, c, full)
  PROVE  IBase'
<1>1. /\ Resting /\ call = None
      /\ pending = None \/ Committable(kind, tab, hashing, call, pending)
      /\ ~kind.multi => group = [n \in Nodes |-> Junk]
  BY IdleIs DEF rehash_begins
<1>2. PICK bt, T, M, ht, fast, n, first, U, D, as, tc :
        Begun(t, a, c, full, bt, T, M, ht, fast, n, first, U, D, as, tc)
  BY RehashBeginsIs
<1>3. /\ T = tab[t] /\ M = members[t]
      /\ Begins(buckets, bt, T, M, stored, hashing, ht, a, c, full, fast, n, first, U, D, as)
      /\ D.table = t
      /\ tc = [tab EXCEPT ![t] = U]
      /\ hashing' = ht
      /\ IF full THEN pending' = None ELSE pending' = pending
      /\ buckets' = bt /\ tab' = tc /\ call' = D
      /\ UNCHANGED <<kind, group, stored, linked, members>>
  BY <1>2 DEF Begun
<1>4. /\ kind \in Kinds /\ buckets \in Memories /\ hashing \in Hashings
      /\ stored \in [Nodes -> Nat \cup {Junk}]
      /\ tab \in [Tables -> Recs] /\ members \in [Tables -> SUBSET Nodes]
      /\ T \in Recs /\ M \in SUBSET Nodes
      /\ Quiet(kind, buckets, T, M, stored, hashing)
      /\ Rest(buckets, tab, members, stored, hashing, linked)
  BY <1>1, <1>3, RestingIs DEF Resting
<1>5. a \in Arrays /\ \A u \in Tables \ {t} : tab[u].array # a
  BY <1>1, ArraysAre
<1>6. /\ c \in Counts /\ c \in Nat /\ 1 <= c /\ c <= MaxCount
      /\ Shaped(kind, [count |-> c, split |-> c])
  BY <1>4, BucketCounts
<1>7. T.cache \in Nat /\ T.array \in Arrays /\ T.count \in Nat /\ T.size \in Nat
  BY <1>4, RecIs
<1>8. /\ D \in RehashCalls /\ D.op = "rehash" /\ D.table = t /\ D.array = a /\ D.count = c
  BY <1>3 DEF Begins
<1>9. U \in Recs /\ U.array = T.array /\ U.count = T.count /\ U.split = T.split
  BY <1>3 DEF Begins
<1>10. /\ ht \in Hashings
       /\ ~full => ht = hashing /\ pending' = pending
       /\ full => pending' = None
  BY <1>3 DEF Begins
<1>11. full => \A u \in Tables \ {t} : members[u] = {}
  BY DEF rehash_begins
<1>12. NewBuckets(buckets, bt, T, a, c)
  BY <1>3 DEF Begins
<1>13. as = {T.array, a}
  BY <1>3 DEF Begins
<1>14. Begins(buckets, bt, T, M, stored, hashing, ht, a, c, full, fast, n, first, U, D, as)
  BY <1>3
<1>15. Rehashing(kind, bt, U, M, stored, ht, D) /\ Holds(bt, as, M) /\ ApartIn(as, bt)
  <2>1. Rehashing(kind, bt, U, M, stored, ht, D)
    BY <1>14, BeginsRehash, Zenon
  <2>2. BothKept(bt, U, D) /\ Holds(bt, as, M) /\ ApartIn(as, bt)
    BY <1>14, BeginKeeps
  <2>. QED
    BY <2>1, <2>2
<1>16. tc[t] = U /\ \A u \in Tables : tc[u].count = tab[u].count /\ tc[u].split = tab[u].split
  BY <1>3, <1>4, <1>9
<1>17. PICK be : be = {T.array}
  BY Zenon
<1>18. Others(t, be, buckets, tab, members, stored, hashing, linked)
  BY <1>3, <1>4, <1>17, RestIsOthers
<1>19. Others(t, as, bt, tc, members, stored, ht, linked)
  <2>1. /\ \A u, v \in Tables, m \in Nodes : m \in members[u] /\ m \in members[v] => u = v
        /\ linked = UNION {members[u] : u \in Tables}
        /\ \A u \in Tables \ {t} : tab[u].array \notin be
        /\ \A e \in Arrays \ be : (\A u \in Tables \ {t} : e # tab[u].array) => Kept(buckets, e, 0)
    BY <1>18 DEF Others
  <2>2. members = [members EXCEPT ![t] = M] /\ linked = (linked \ members[t]) \cup M
    BY <1>3, <1>4, <2>1
  <2>3. \A u \in Tables \ {t} : tab[u].array \notin as /\ tab[u].array \in Arrays
    BY <1>4, <1>5, <1>13, <1>17, <2>1, RecIs
  <2>4. \A e \in Arrays, i \in indices : e \notin as => bt[e][i] = buckets[e][i]
    BY <1>12, <1>13 DEF NewBuckets
  <2>5. \A u \in Tables \ {t}, i \in indices : bt[tab[u].array][i] = buckets[tab[u].array][i]
    BY <2>3, <2>4, Zenon
  <2>6. \A e \in Arrays \ as : (\A u \in Tables \ {t} : e # tab[u].array) => Kept(bt, e, 0)
    <3> SUFFICES ASSUME NEW e \in Arrays \ as, \A u \in Tables \ {t} : e # tab[u].array
                 PROVE  Kept(bt, e, 0)
      BY Zenon
    <3>1. Kept(buckets, e, 0)
      BY <1>13, <1>17, <2>1
    <3>. QED
      BY <2>4, <3>1, Zenon DEF Kept
  <2>7. \A u \in Tables \ {t} : \A m \in members[u] :
          stored[m] = stored[m] /\ ht[Key[m]] = hashing[Key[m]] /\ m \notin M
    <3> SUFFICES ASSUME NEW u \in Tables \ {t}, NEW m \in members[u]
                 PROVE  ht[Key[m]] = hashing[Key[m]] /\ m \notin M
      OBVIOUS
    <3>1. m \in Nodes
      BY <1>4
    <3>2. m \notin M
      BY <1>3, <2>1, <3>1
    <3>. QED
      BY <1>10, <1>11, <3>2
  <2>8. as \in SUBSET Arrays /\ bt \in Memories
    BY <1>5, <1>7, <1>12, <1>13 DEF NewBuckets
  <2>9. Leaves(t, be, as, buckets, tab, members, stored, hashing, linked, bt, U, M, stored, ht,
               tc, members, linked)
    BY <1>4, <1>9, <1>10, <1>3, <1>18, <2>2, <2>3, <2>5, <2>6, <2>7, <2>8, Zenon DEF Leaves
  <2>. QED
    BY <2>9, OthersFrame, Zenon
<1>20. as = Owned(tc, D, t) /\ as \in SUBSET Arrays
  BY <1>5, <1>7, <1>8, <1>9, <1>13, <1>16 DEF Owned
<1>21. Worked(t, as, bt, tc, members, stored, ht, linked, D)
  BY <1>3, <1>8, <1>15, <1>16, <1>19, <1>20 DEF Worked
<1>22. pending' = None \/ Committable(kind, tc, ht, D, pending')
  <2>1. CASE full \/ pending = None
    BY <1>10, <2>1
  <2>2. CASE ~full /\ pending # None
    <3>1. Committable(kind, tab, hashing, call, pending)
      BY <1>1, <2>2
    <3>2. pending.table \in Tables
      BY <3>1 DEF Committable, Commits
    <3>3. call.op # "grow" /\ D.op # "grow"
      BY <1>1, <1>8 DEF None
    <3>4. Committable(kind, tc, hashing, D, pending)
      BY <1>16, <3>1, <3>2, <3>3 DEF Committable
    <3>. QED
      BY <1>10, <2>2, <3>4
  <2>. QED
    BY <2>1, <2>2
<1>23. /\ kind' = kind
       /\ Worked(t, as, buckets', tab', members', stored', hashing', linked', call')
       /\ pending' = None \/ Committable(kind, tab', hashing', call', pending')
       /\ ~kind.multi => group' = [m \in Nodes |-> Junk]
  BY <1>1, <1>3, <1>21, <1>22
<1>. QED
  BY <1>4, <1>23, WorkedIsBase, Zenon
=============================================================================
