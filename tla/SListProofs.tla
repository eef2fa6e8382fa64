---------------------------- MODULE SListProofs -----------------------------
(***************************************************************************)
(* Proofs about SList for any number of elements and lists, circular or    *)
(* linear, with or without a cached last node, for any link mode and any   *)
(* width of the size counter.                                              *)
(***************************************************************************)
EXTENDS SList, ListFacts

\* All heaps of slist nodes.
Heaps == [next : [Addresses -> Pointers]]

\* The pointers gone the elements of r.
Chained(h, r) == \A x \in 1..(Len(r) - 1) : h.next[r[x]] = r[x + 1]

\* Heap g is h with the chain from b to c linked in behind q.
Linked(g, h, q, b, c) ==
  \A x \in Addresses :
    g.next[x] = IF x = q THEN b ELSE IF x = c THEN h.next[q] ELSE h.next[x]

\* Heap g is h with e behind a, and anything in the nodes in gone.
Bridged(g, h, a, e, gone) ==
  \A x \in Addresses \ gone : g.next[x] = IF x = a THEN e ELSE h.next[x]

\* Which node of es the cut of the elements behind i up to j has brought to
\* a position.
Shifted(fs, es, l, i, j) ==
  \A m \in Lists : \A x \in 0..(Len(fs[m]) + 1) :
    At(fs, m, x) = At(es, m, IF m = l /\ x > i THEN x + (j - i) ELSE x)

\* The hooks of the elements that es leaves out are in the default state.
Quiet(h, es) == safemode_or_autounlink => \A n \in Nodes : Out(es, n) => h.next[n] = Null

\* Heap h represents the sequences es.
Good(h, es) == /\ h \in Heaps /\ es \in Contents
               /\ Disjoint(es) /\ Spells(h, es) /\ Quiet(h, es)

\* The cached nodes are the last ones of es.
Ends(la, es) == /\ la \in [Lists -> Pointers]
                /\ CacheLast => \A l \in Lists : la[l] = At(es, l, Len(es[l]))
-----------------------------------------------------------------------------
(* The node at a position, and the one position of a node.                 *)

\* What is at a position.
LEMMA AtNode ==
  ASSUME NEW es \in Contents, NEW l \in Lists, NEW i \in Int
  PROVE  /\ i \in 1..Len(es[l]) => At(es, l, i) = es[l][i] /\ es[l][i] \in Nodes
         /\ i = 0 => At(es, l, i) = l
         /\ i \notin 0..Len(es[l]) => At(es, l, i) = end_node(l)
         /\ i \in 0..Len(es[l]) => At(es, l, i) \in Addresses
         /\ At(es, l, i) \in Pointers
<1>1. Len(es[l]) \in Nat /\ es[l] \in Seq(Nodes)
  BY DEF Contents
<1>2. i \in 0..Len(es[l]) <=> i = 0 \/ i \in 1..Len(es[l])
  BY <1>1
<1>3. 0 \notin 1..Len(es[l])
  BY <1>1
<1>. QED
  BY <1>1, <1>2, <1>3 DEF At, Addresses, Pointers, end_node

\* Different positions have different nodes, headers included.
LEMMA AtInjective ==
  ASSUME NEW es \in Contents, Disjoint(es), NEW l \in Lists, NEW m \in Lists,
         NEW i \in 0..Len(es[l]), NEW j \in 0..Len(es[m]), At(es, l, i) = At(es, m, j)
  PROVE  l = m /\ i = j
<1>1. Len(es[l]) \in Nat /\ Len(es[m]) \in Nat /\ i \in Int /\ j \in Int
  BY DEF Contents
<1>2. i = 0 \/ i \in 1..Len(es[l])
  BY <1>1
<1>3. j = 0 \/ j \in 1..Len(es[m])
  BY <1>1
<1>. QED
  BY <1>1, <1>2, <1>3, AtNode, OnePlace, HeaderAssumption

\* What the links say of a list, and where its end is.
LEMMA Neighbours ==
  ASSUME NEW h, NEW es, Good(h, es), NEW l \in Lists
  PROVE  /\ \A k \in 0..Len(es[l]) : /\ h.next[At(es, l, k)] = At(es, l, k + 1)
                                     /\ At(es, l, k) \in Addresses
         /\ Len(es[l]) \in Nat
         /\ At(es, l, 0) = l /\ At(es, l, Len(es[l]) + 1) = end_node(l)
         /\ \A k \in 0..Len(es[l]) :
              At(es, l, k + 1) = end_node(l) <=> k = Len(es[l])
<1>1. Len(es[l]) \in Nat /\ es \in Contents /\ Spells(h, es)
  BY DEF Good, Contents
<1>2. ASSUME NEW k \in 0..Len(es[l])
      PROVE  /\ h.next[At(es, l, k)] = At(es, l, k + 1) /\ At(es, l, k) \in Addresses
             /\ At(es, l, k + 1) = end_node(l) <=> k = Len(es[l])
  <2>1. k \in Int /\ k + 1 \in Int
    BY <1>1
  <2>2. h.next[At(es, l, k)] = At(es, l, k + 1) /\ At(es, l, k) \in Addresses
    BY <1>1, <2>1, AtNode DEF Spells
  <2>3. CASE k = Len(es[l])
    <3>1. k + 1 \notin 0..Len(es[l])
      BY <1>1, <2>3
    <3>. QED
      BY <1>1, <2>1, <2>2, <2>3, <3>1, AtNode
  <2>4. CASE k # Len(es[l])
    <3>1. k + 1 \in 1..Len(es[l])
      BY <1>1, <2>1, <2>4
    <3>2. At(es, l, k + 1) \in Nodes
      BY <1>1, <2>1, <3>1, AtNode
    <3>. QED
      BY <2>2, <2>4, <3>2, HeaderAssumption DEF end_node
  <2>. QED
    BY <2>3, <2>4
<1>3. At(es, l, 0) = l
  BY <1>1, AtNode
<1>4. At(es, l, Len(es[l]) + 1) = end_node(l)
  <2>1. Len(es[l]) \in 0..Len(es[l])
    BY <1>1
  <2>. QED
    BY <1>2, <2>1
<1>. QED
  BY <1>1, <1>2, <1>3, <1>4
-----------------------------------------------------------------------------
(* Linking a chain of nodes in behind position k of l: if the pointers     *)
(* inside the chain are right and the two at its ends are set, then the    *)
(* heap spells the sequences with the chain pasted in.                     *)

\* The links that pasting leaves spell the sequences it leaves.
LEMMA PasteSpells ==
  ASSUME NEW h \in Heaps, NEW g \in Heaps, NEW es \in Contents,
         Disjoint(es), Spells(h, es),
         NEW l \in Lists, NEW k \in 0..Len(es[l]),
         NEW r \in Seq(Nodes), Len(r) >= 1, Fresh(es, r), Chained(h, r),
         NEW q, NEW b, NEW c, q = At(es, l, k), b = r[1], c = r[Len(r)],
         Linked(g, h, q, b, c),
         NEW fs, Pasted(fs, es, l, k + 1, r)
  PROVE  /\ fs \in Contents /\ Disjoint(fs) /\ Spells(g, fs)
         /\ With(fs, es, r)
<1> DEFINE K == Len(r)
<1>0. /\ \A m \in Lists : Len(es[m]) \in Nat
      /\ K \in Nat /\ K >= 1
      /\ k \in Nat /\ k >= 0 /\ k <= Len(es[l]) /\ k + 1 \in 1..(Len(es[l]) + 1)
  BY DEF Contents
<1>r. \A x \in 1..K : r[x] \in Nodes /\ r[x] \in Addresses
  BY DEF Addresses
<1>1. /\ fs \in Contents
      /\ \A m \in Lists : m # l => fs[m] = es[m]
      /\ Len(fs[l]) = Len(es[l]) + K
      /\ \A i \in 1..(Len(es[l]) + K) :
           fs[l][i] = IF i < k + 1 THEN es[l][i]
                      ELSE IF i < k + 1 + K THEN r[i - (k + 1) + 1] ELSE es[l][i - K]
  BY DEF Pasted
<1>2. \A m \in Lists : \A i \in 0..Len(es[m]), x \in 1..K :
        At(es, m, i) \in Addresses /\ At(es, m, i) # r[x]
  <2>1. ASSUME NEW m \in Lists, NEW i \in 0..Len(es[m]), NEW x \in 1..K
        PROVE  At(es, m, i) \in Addresses /\ At(es, m, i) # r[x]
    <3>1. r[x] \in Nodes /\ r[x] \notin Lists /\ Out(es, r[x])
      BY <1>r, HeaderAssumption DEF Fresh
    <3>0. i \in Int /\ (i = 0 \/ i \in 1..Len(es[m]))
      BY <1>0
    <3>2. CASE i \in 1..Len(es[m])
      BY <3>0, <3>1, <3>2, AtNode, SMTT(15) DEF Out
    <3>3. CASE i = 0
      BY <3>0, <3>1, <3>3, AtNode
    <3>. QED
      BY <3>0, <3>2, <3>3
  <2>. QED
    BY <2>1
<1>3. \A m \in Lists : \A i \in 0..Len(es[m]) : At(es, m, i) = q => m = l /\ i = k
  BY AtInjective
<1>4. q \in Addresses /\ h.next[q] = At(es, l, k + 1)
  BY <1>0, <1>2 DEF Spells
<1>x. \A x \in 1..K : q # r[x]
  BY <1>0, <1>2
<1>7. Disjoint(fs) /\ With(fs, es, r)
  BY <1>0, PasteContents
<1> HIDE DEF K
<1>5. \A m \in Lists :
        /\ Len(fs[m]) \in Nat
        /\ m # l => Len(fs[m]) = Len(es[m])
        /\ m = l => Len(fs[m]) = Len(es[l]) + K
  BY <1>0, <1>1
<1>9. \A m \in Lists : \A i \in 0..(Len(fs[m]) + 1) :
        At(fs, m, i) = IF m # l \/ i <= k THEN At(es, m, i)
                       ELSE IF i <= k + K THEN r[i - k] ELSE At(es, l, i - K)
  <2>1. ASSUME NEW m \in Lists, NEW i \in 0..(Len(fs[m]) + 1)
        PROVE  At(fs, m, i) = IF m # l \/ i <= k THEN At(es, m, i)
                              ELSE IF i <= k + K THEN r[i - k]
                              ELSE At(es, l, i - K)
    <3>1. CASE m # l
      BY <1>1, <3>1 DEF At
    <3>2. CASE m = l /\ i <= k
      <4>1. i = 0 \/ (/\ i \in 1..Len(es[l]) /\ i \in 1..Len(fs[l])
                      /\ i \in 1..(Len(es[l]) + K) /\ i < k + 1)
        BY <1>0, <1>5, <3>2
      <4>2. 0 \notin 1..Len(es[l]) /\ 0 \notin 1..Len(fs[l])
        OBVIOUS
      <4>. QED
        BY <1>1, <3>2, <4>1, <4>2 DEF At
    <3>3. CASE m = l /\ i > k /\ i <= k + K
      <4>1. /\ i \in 1..Len(fs[l]) /\ i \in 1..(Len(es[l]) + K)
            /\ ~(i < k + 1) /\ i < k + 1 + K /\ i - (k + 1) + 1 = i - k
            /\ ~(i <= k)
        BY <1>0, <1>5, <3>3
      <4>2. fs[l][i] = r[i - k]
        BY <1>1, <4>1
      <4>. QED
        BY <3>3, <4>1, <4>2 DEF At
    <3>4. CASE m = l /\ i > k + K
      <4>1. /\ ~(i < k + 1) /\ ~(i < k + 1 + K) /\ Len(fs[l]) = Len(es[l]) + K
            /\ i \in 1..Len(fs[l]) <=> i - K \in 1..Len(es[l])
            /\ i \in 1..Len(fs[l]) => i \in 1..(Len(es[l]) + K)
            /\ ~(i <= k) /\ ~(i <= k + K) /\ i # 0 /\ i - K # 0
        BY <1>0, <1>5, <3>4
      <4>2. i \in 1..Len(fs[l]) => fs[l][i] = es[l][i - K]
        BY <1>1, <4>1
      <4>. QED
        BY <3>4, <4>1, <4>2 DEF At
    <3>. QED
      BY <1>0, <3>1, <3>2, <3>3, <3>4
  <2>. QED
    BY <2>1
<1>10. ASSUME NEW m \in Lists, NEW i \in 0..Len(fs[m])
       PROVE  g.next[At(fs, m, i)] = At(fs, m, i + 1)
  <2>0. /\ At(fs, m, i) = (IF m # l \/ i <= k THEN At(es, m, i)
                           ELSE IF i <= k + K THEN r[i - k] ELSE At(es, l, i - K))
        /\ At(fs, m, i + 1) = (IF m # l \/ i + 1 <= k THEN At(es, m, i + 1)
                               ELSE IF i + 1 <= k + K THEN r[i + 1 - k]
                               ELSE At(es, l, i + 1 - K))
    BY <1>0, <1>5, <1>9, SMTT(15)
  <2>a. \A x \in Addresses :
          g.next[x] = IF x = q THEN r[1]
                      ELSE IF x = r[K] THEN At(es, l, k + 1) ELSE h.next[x]
    BY <1>4 DEF Linked, K
  <2>1. CASE m # l \/ i < k
    <3>0. i \in 0..Len(es[m])
      BY <1>0, <1>5, <2>1
    <3>1. h.next[At(es, m, i)] = At(es, m, i + 1)
      BY <3>0 DEF Spells
    <3>2. At(es, m, i) # q
      BY <1>0, <1>3, <1>5, <2>1, <3>0
    <3>3. At(fs, m, i) = At(es, m, i) /\ At(fs, m, i + 1) = At(es, m, i + 1)
      BY <1>0, <2>0, <2>1
    <3>4. K \in 1..K
      BY <1>0
    <3>. QED
      BY <1>0, <1>2, <2>a, <3>0, <3>1, <3>2, <3>3, <3>4
  <2>2. CASE m = l /\ i = k
    <3>1. At(fs, m, i) = q /\ At(fs, m, i + 1) = r[1]
      BY <1>0, <2>0, <2>2
    <3>. QED
      BY <1>4, <2>a, <3>1
  <2>3. CASE m = l /\ i > k /\ i < k + K
    <3>1. PICK x \in 1..(K - 1) : x = i - k
      BY <1>0, <2>3
    <3>2. At(fs, m, i) = r[x] /\ At(fs, m, i + 1) = r[x + 1]
      BY <1>0, <2>0, <2>3, <3>1
    <3>3. r[x] \in Addresses /\ r[x] # q
      BY <1>0, <1>r, <1>x, <3>1 DEF K
    <3>4. r[x] # r[K]
      BY <1>0, <3>1 DEF Fresh, K
    <3>5. h.next[r[x]] = r[x + 1]
      BY <3>1 DEF Chained, K
    <3>. QED
      BY <2>a, <3>2, <3>3, <3>4, <3>5
  <2>4. CASE m = l /\ i = k + K
    <3>1. At(fs, m, i) = r[K] /\ At(fs, m, i + 1) = At(es, l, k + 1)
      <4>1. ~(i <= k) /\ i <= k + K /\ i - k = K /\ ~(i + 1 <= k) /\ ~(i + 1 <= k + K)
            /\ i + 1 - K = k + 1
        BY <1>0, <2>4
      <4>. QED
        BY <2>0, <2>4, <4>1
    <3>2. r[K] \in Addresses /\ r[K] # q
      BY <1>0, <1>r, <1>x DEF K
    <3>. QED
      BY <1>4, <2>a, <3>1, <3>2
  <2>5. CASE m = l /\ i > k + K
    <3>1. PICK y \in 0..Len(es[l]) : y = i - K /\ y # k
      BY <1>0, <1>5, <2>5
    <3>2. At(fs, m, i) = At(es, l, y) /\ At(fs, m, i + 1) = At(es, l, y + 1)
      <4>1. ~(i <= k) /\ ~(i <= k + K) /\ ~(i + 1 <= k) /\ ~(i + 1 <= k + K)
            /\ i + 1 - K = y + 1
        BY <1>0, <2>5, <3>1
      <4>. QED
        BY <2>0, <2>5, <3>1, <4>1
    <3>3. h.next[At(es, l, y)] = At(es, l, y + 1)
      BY DEF Spells
    <3>4. At(es, l, y) # q
      BY <1>3, <3>1
    <3>5. K \in 1..K
      BY <1>0
    <3>. QED
      BY <1>0, <1>2, <2>a, <3>2, <3>3, <3>4, <3>5
  <2>. QED
    BY <1>0, <2>1, <2>2, <2>3, <2>4, <2>5
<1>. QED
  BY <1>1, <1>7, <1>10 DEF Spells
-----------------------------------------------------------------------------
(* Cutting a range out: if the node in front of it points behind it, then  *)
(* the heap spells the sequences without the range, whatever the operation *)
(* does to the hooks of the elements it takes out.                         *)

\* So do the links that cutting leaves.
LEMMA CutSpells ==
  ASSUME NEW h \in Heaps, NEW g \in Heaps, NEW es \in Contents,
         Disjoint(es), Spells(h, es),
         NEW l \in Lists, NEW i \in 0..Len(es[l]), NEW j \in i..Len(es[l]),
         NEW a, NEW e, NEW gone,
         a = At(es, l, i), e = At(es, l, j + 1),
         gone = {es[l][y] : y \in (i + 1)..j},
         Bridged(g, h, a, e, gone),
         NEW fs, CutOut(fs, es, l, i + 1, j + 1)
  PROVE  /\ fs \in Contents /\ Disjoint(fs) /\ Spells(g, fs)
         /\ Without(fs, es, gone) /\ Shifted(fs, es, l, i, j)
<1> DEFINE D == j - i
           old(m, x) == IF m = l /\ x > i THEN x + D ELSE x
<1>0. /\ \A m \in Lists : Len(es[m]) \in Nat
      /\ i \in Nat /\ j \in Nat /\ D \in Nat /\ j = i + D
      /\ 0 <= i /\ i <= j /\ j <= Len(es[l]) /\ (j + 1) - (i + 1) = D
      /\ i + 1 \in 1..(Len(es[l]) + 1) /\ j + 1 \in (i + 1)..(Len(es[l]) + 1)
  <2>1. \A m \in Lists : Len(es[m]) \in Nat
    BY DEF Contents
  <2>2. PICK z : z = Len(es[l])
    OBVIOUS
  <2>3. z \in Nat /\ i \in 0..z /\ j \in i..z
    BY <2>1, <2>2
  <2>4. /\ i \in Nat /\ j \in Nat /\ D \in Nat /\ j = i + D
        /\ 0 <= i /\ i <= j /\ j <= z /\ (j + 1) - (i + 1) = D
        /\ i + 1 \in 1..(z + 1) /\ j + 1 \in (i + 1)..(z + 1)
    BY <2>3
  <2>. QED
    BY <2>1, <2>2, <2>4
<1>1. /\ fs \in Contents
      /\ \A m \in Lists : m # l => fs[m] = es[m]
      /\ Len(fs[l]) = Len(es[l]) - D
      /\ \A x \in 1..(Len(es[l]) - D) :
           fs[l][x] = IF x < i + 1 THEN es[l][x] ELSE es[l][x + D]
  BY <1>0 DEF CutOut
<1>b. \A n : n \in gone <=> \E y \in (i + 1)..j : n = es[l][y]
  OBVIOUS
<1>2. ASSUME NEW m \in Lists, NEW x \in 0..Len(es[m]), m = l => x <= i \/ x > j
      PROVE  At(es, m, x) \in Addresses \ gone
  <2>0. x \in Int
    BY <1>0
  <2>1. At(es, m, x) \in Addresses
    BY <2>0, AtNode
  <2>2. ASSUME NEW y \in (i + 1)..j, At(es, m, x) = es[l][y]
        PROVE  FALSE
    <3>1. y \in 1..Len(es[l]) /\ y \in 0..Len(es[l]) /\ y \in Int /\ i < y /\ y <= j
      BY <1>0
    <3>2. At(es, l, y) = es[l][y]
      BY <3>1, AtNode
    <3>3. l = m /\ y = x
      BY <2>2, <3>1, <3>2, AtInjective
    <3>. QED
      BY <1>0, <1>2, <2>0, <3>1, <3>3
  <2>. QED
    BY <1>b, <2>1, <2>2
<1>3. \A m \in Lists : \A x \in 0..Len(es[m]) : At(es, m, x) = a => m = l /\ x = i
  BY AtInjective
<1>4. a \in Addresses \ gone
  <2>1. i <= i
    BY <1>0
  <2>2. At(es, l, i) \in Addresses \ gone
    BY <1>2, <2>1
  <2>. QED
    BY <2>2
<1>7. Disjoint(fs) /\ Without(fs, es, gone)
  <2>1. PICK x \in 1..(Len(es[l]) + 1) : x = i + 1
    BY <1>0
  <2>2. PICK y \in x..(Len(es[l]) + 1) : y = j + 1
    BY <1>0, <2>1
  <2>4. y - 1 = j
    BY <1>0, <2>2
  <2>3. gone = {es[l][z] : z \in x..(y - 1)} /\ CutOut(fs, es, l, x, y)
    BY <2>1, <2>2, <2>4
  <2>. QED
    BY <2>3, CutContents
<1> HIDE DEF D
<1>5. \A m \in Lists :
        /\ Len(fs[m]) \in Nat
        /\ m # l => Len(fs[m]) = Len(es[m])
        /\ m = l => Len(fs[m]) = Len(es[l]) - D
  <2>1. \A m \in Lists : Len(fs[m]) \in Nat
    BY <1>1 DEF Contents
  <2>. QED
    BY <1>1, <2>1
<1>9. \A m \in Lists : \A x \in 0..(Len(fs[m]) + 1) :
        At(fs, m, x) = At(es, m, old(m, x))
  <2>1. ASSUME NEW m \in Lists, NEW x \in 0..(Len(fs[m]) + 1)
        PROVE  At(fs, m, x) = At(es, m, old(m, x))
    <3>1. CASE m # l
      BY <1>1, <3>1 DEF At
    <3>2. CASE m = l /\ x <= i
      <4>1. /\ x \in 1..Len(fs[l]) <=> x \in 1..Len(es[l])
            /\ x \in 1..Len(fs[l]) => x \in 1..(Len(es[l]) - D) /\ x < i + 1
            /\ ~(x > i)
            /\ x \notin 1..Len(fs[l]) => x = 0
        <5>1. PICK z, w : z = Len(es[l]) /\ w = Len(fs[l])
          OBVIOUS
        <5>2. /\ z \in Nat /\ w = z - D /\ D \in Nat /\ i \in Nat /\ i + D <= z
              /\ x \in Nat /\ x <= i
          BY <1>0, <1>1, <3>2, <5>1
        <5>. HIDE DEF D
        <5>3. /\ x \in 1..w <=> x \in 1..z
              /\ x \in 1..w => x \in 1..(z - D) /\ x < i + 1
              /\ ~(x > i)
              /\ x \notin 1..w => x = 0
          BY <5>2
        <5>. QED
          BY <5>1, <5>3
      <4>2. x \in 1..Len(fs[l]) => fs[l][x] = es[l][x]
        BY <1>1, <4>1
      <4>. QED
        BY <3>2, <4>1, <4>2 DEF At
    <3>3. CASE m = l /\ x > i
      <4>1. /\ ~(x < i + 1) /\ x # 0 /\ x + D # 0
            /\ x \in 1..Len(fs[l]) <=> x + D \in 1..Len(es[l])
            /\ x \in 1..Len(fs[l]) => x \in 1..(Len(es[l]) - D)
        BY <1>0, <1>5, <3>3
      <4>2. x \in 1..Len(fs[l]) => fs[l][x] = es[l][x + D]
        BY <1>1, <4>1
      <4>. QED
        BY <3>3, <4>1, <4>2 DEF At
    <3>. QED
      BY <1>0, <3>1, <3>2, <3>3
  <2>. QED
    BY <2>1
<1>10. ASSUME NEW m \in Lists, NEW x \in 0..Len(fs[m])
       PROVE  g.next[At(fs, m, x)] = At(fs, m, x + 1)
  <2>0. /\ At(fs, m, x) = At(es, m, old(m, x))
        /\ At(fs, m, x + 1) = At(es, m, old(m, x + 1))
    <3>1. x \in 0..(Len(fs[m]) + 1) /\ x + 1 \in 0..(Len(fs[m]) + 1)
      BY <1>5
    <3>. HIDE DEF old
    <3>. QED
      BY <1>9, <3>1
  <2>a. \A y \in Addresses \ gone : g.next[y] = IF y = a THEN e ELSE h.next[y]
    BY DEF Bridged
  <2>1. CASE m = l /\ x = i
    <3>1. x <= i /\ x + 1 > i /\ (x + 1) + D = j + 1
      BY <1>0, <2>1
    <3>2. At(fs, m, x) = a /\ At(fs, m, x + 1) = e
      BY <2>0, <2>1, <3>1
    <3>. QED
      BY <1>4, <2>a, <3>2
  <2>2. CASE ~(m = l /\ x = i)
    <3>1. PICK y \in 0..Len(es[m]) : y = old(m, x)
      <4>1. CASE m = l /\ x > i
        <5>1. x + D \in 0..Len(es[m])
          BY <1>0, <1>5, <4>1
        <5>. QED
          BY <4>1, <5>1
      <4>2. CASE ~(m = l /\ x > i)
        <5>1. x \in 0..Len(es[m])
          BY <1>0, <1>1, <4>2
        <5>. QED
          BY <4>2, <5>1
      <4>. QED
        BY <4>1, <4>2
    <3>2. y + 1 = old(m, x + 1)
      BY <1>0, <1>5, <2>2, <3>1
    <3>3. h.next[At(es, m, y)] = At(es, m, y + 1)
      BY DEF Spells
    <3>4. m = l => y # i /\ (y <= i \/ y > j)
      BY <1>0, <1>5, <2>2, <3>1
    <3>. HIDE DEF old
    <3>5. At(es, m, y) # a /\ At(es, m, y) \in Addresses \ gone
      BY <1>2, <1>3, <3>4
    <3>. QED
      BY <2>0, <2>a, <3>1, <3>2, <3>3, <3>5
  <2>. QED
    BY <2>1, <2>2
<1>. QED
  BY <1>1, <1>7, <1>9, <1>10 DEF Spells, Shifted, D
-----------------------------------------------------------------------------
(* The heap operations, pointer by pointer.                                *)

\* link_after links a chain of one node.
LEMMA LinkAfter ==
  ASSUME NEW h \in Heaps, NEW p \in Addresses, NEW n \in Addresses, p # n
  PROVE  link_after(h, p, n) \in Heaps /\ Linked(link_after(h, p, n), h, p, n, n)
  BY DEF link_after, get_next, set_next, Heaps, Pointers, Linked

\* incorporate_after links the chain from b to c.
LEMMA IncorporateAfter ==
  ASSUME NEW h \in Heaps, NEW p \in Addresses, NEW b \in Addresses, NEW c \in Addresses,
         p # c
  PROVE  /\ incorporate_after(h, p, b, c) \in Heaps
         /\ Linked(incorporate_after(h, p, b, c), h, p, b, c)
  BY DEF incorporate_after, get_next, set_next, Heaps, Pointers, Linked

\* unlink_after leads around one node.
LEMMA UnlinkAfter ==
  ASSUME NEW h \in Heaps, NEW p \in Addresses, NEW n \in Addresses, n = h.next[p], n # p
  PROVE  /\ reset(unlink_after(h, p), n) \in Heaps
         /\ Bridged(reset(unlink_after(h, p), n), h, p, h.next[n], {n})
         /\ safemode_or_autounlink => reset(unlink_after(h, p), n).next[n] = Null
         /\ reset(unlink_after(h, p), n).next[p] = h.next[n]
  BY DEF unlink_after, unlink_range_after, reset, init, get_next, set_next,
         Heaps, Pointers, Bridged

\* unlink_after of a range leads around all of it.
LEMMA UnlinkRangeAfter ==
  ASSUME NEW h \in Heaps, NEW p \in Addresses, NEW e \in Pointers, NEW gone
  PROVE  /\ unlink_range_after(h, p, e) \in Heaps
         /\ Bridged(unlink_range_after(h, p, e), h, p, e, gone)
  BY DEF unlink_range_after, set_next, Heaps, Bridged

\* init_header leads around all the elements.
LEMMA InitHeader ==
  ASSUME NEW h \in Heaps, NEW l \in Addresses, NEW gone
  PROVE  /\ init_header(h, l) \in Heaps
         /\ Bridged(init_header(h, l), h, l, end_node(l), gone)
  BY DEF init_header, end_node, set_next, Heaps, Pointers, Bridged

(* A transfer is a cut, which leaves the heap Lifted, followed by a paste. *)
Lifted(h, a, e) == [next |-> [h.next EXCEPT ![a] = e]]

\* The first half of a transfer takes the chain out.
LEMMA Lift ==
  ASSUME NEW h \in Heaps, NEW a \in Addresses, NEW e \in Pointers, NEW gone
  PROVE  Lifted(h, a, e) \in Heaps /\ Bridged(Lifted(h, a, e), h, a, e, gone)
  BY DEF Lifted, Heaps, Bridged

\* The second half links it in again.
LEMMA TransferAfter ==
  ASSUME NEW h \in Heaps, NEW p \in Addresses, NEW f \in Addresses, NEW t \in Addresses,
         p # f, p # t, f # t,
         NEW b \in Addresses, b = h.next[f]
  PROVE  /\ transfer_after(h, p, f, t) \in Heaps
         /\ Linked(transfer_after(h, p, f, t), Lifted(h, f, h.next[t]), p, b, t)
  BY DEF transfer_after, Lifted, get_next, set_next, Heaps, Pointers, Linked
-----------------------------------------------------------------------------
(* The operations keep a heap good.                                        *)

\* The heap h0 may already have the chain r, whose links nobody else reads.
LEMMA PasteGood ==
  ASSUME NEW h0, NEW es, Good(h0, es), NEW l \in Lists, NEW k \in 0..Len(es[l]),
         NEW r \in Seq(Nodes), Len(r) >= 1, Fresh(es, r),
         NEW h \in Heaps, Chained(h, r),
         \A x \in Addresses : (\A y \in 1..Len(r) : r[y] # x) => h.next[x] = h0.next[x],
         NEW q, NEW b, NEW c, q = At(es, l, k), b = r[1], c = r[Len(r)],
         NEW g \in Heaps, Linked(g, h, q, b, c),
         NEW fs, Pasted(fs, es, l, k + 1, r)
  PROVE  Good(g, fs)
<1>0. h0 \in Heaps /\ es \in Contents /\ Disjoint(es) /\ Spells(h0, es) /\ Quiet(h0, es)
  BY DEF Good
<1>1. \A m \in Lists : \A i \in 0..Len(es[m]), y \in 1..Len(r) :
        At(es, m, i) \in Addresses /\ r[y] # At(es, m, i)
  <2>1. ASSUME NEW m \in Lists, NEW i \in 0..Len(es[m]), NEW y \in 1..Len(r)
        PROVE  At(es, m, i) \in Addresses /\ r[y] # At(es, m, i)
    <3>1. r[y] \in Nodes /\ r[y] \notin Lists /\ Out(es, r[y])
      BY HeaderAssumption DEF Fresh
    <3>2. Len(es[m]) \in Nat /\ i \in Int /\ (i = 0 \/ i \in 1..Len(es[m]))
      BY <1>0 DEF Contents
    <3>3. CASE i \in 1..Len(es[m])
      BY <1>0, <3>1, <3>2, <3>3, AtNode DEF Out
    <3>4. CASE i = 0
      BY <1>0, <3>1, <3>2, <3>4, AtNode
    <3>. QED
      BY <3>2, <3>3, <3>4
  <2>. QED
    BY <2>1
<1>2. Spells(h, es)
  <2>1. ASSUME NEW m \in Lists, NEW i \in 0..Len(es[m])
        PROVE  h.next[At(es, m, i)] = At(es, m, i + 1)
    <3>1. At(es, m, i) \in Addresses /\ \A y \in 1..Len(r) : r[y] # At(es, m, i)
      <4>1. At(es, m, i) \in Addresses
        BY Neighbours
      <4>. QED
        BY <1>1, <4>1
    <3>. QED
      BY <1>0, <3>1 DEF Spells
  <2>. QED
    BY <2>1 DEF Spells
<1>3. fs \in Contents /\ Disjoint(fs) /\ Spells(g, fs) /\ With(fs, es, r)
  BY <1>0, <1>2, PasteSpells
<1>4. Quiet(g, fs)
  <2>1. SUFFICES ASSUME safemode_or_autounlink, NEW x \in Nodes, Out(fs, x)
                 PROVE  g.next[x] = Null
    BY DEF Quiet
  <2>2. Out(es, x) /\ \A y \in 1..Len(r) : r[y] # x
    BY <1>3, <2>1 DEF With
  <2>3. x # c /\ x # b
    BY <2>2
  <2>4. x # q
    <3>1. Len(es[l]) \in Nat /\ (k = 0 \/ k \in 1..Len(es[l])) /\ k \in Int
      BY <1>0 DEF Contents
    <3>2. CASE k = 0
      BY <1>0, <3>1, <3>2, AtNode, HeaderAssumption
    <3>3. CASE k \in 1..Len(es[l])
      BY <1>0, <2>2, <3>1, <3>3, AtNode DEF Out
    <3>. QED
      BY <3>1, <3>2, <3>3
  <2>5. x \in Addresses
    BY DEF Addresses
  <2>6. g.next[x] = h.next[x] /\ h.next[x] = h0.next[x] /\ h0.next[x] = Null
    BY <1>0, <2>1, <2>2, <2>3, <2>4, <2>5 DEF Quiet, Linked
  <2>. QED
    BY <2>6
<1>. QED
  BY <1>3, <1>4 DEF Good

\* An insertion keeps a heap good.
LEMMA InsertGood ==
  ASSUME NEW h, NEW es, Good(h, es), NEW l \in Lists, NEW k \in 0..Len(es[l]),
         NEW n \in Nodes, Out(es, n),
         NEW fs, fs = [es EXCEPT ![l] = Paste(@, k + 1, <<n>>)]
  PROVE  Good(link_after(h, At(es, l, k), n), fs) /\ Pasted(fs, es, l, k + 1, <<n>>)
<1>1. PICK r : r = <<n>>
  OBVIOUS
<1>2. PICK q : q = At(es, l, k)
  OBVIOUS
<1>3. PICK g : g = link_after(h, q, n)
  OBVIOUS
<1>4. /\ r \in Seq(Nodes) /\ Len(r) = 1 /\ Len(r) >= 1 /\ r[1] = n /\ r[Len(r)] = n
      /\ Fresh(es, r) /\ Chained(h, r)
  BY <1>1 DEF Fresh, Chained
<1>5. h \in Heaps /\ es \in Contents /\ Len(es[l]) \in Nat /\ k + 1 \in 1..(Len(es[l]) + 1)
  BY Neighbours DEF Good
<1>6. q \in Addresses /\ n \in Addresses /\ q # n
  <2>1. q \in Addresses
    BY <1>2, Neighbours
  <2>2. k \in Int /\ (k = 0 \/ k \in 1..Len(es[l]))
    BY <1>5
  <2>. QED
    BY <1>2, <1>5, <2>1, <2>2, AtNode, HeaderAssumption DEF Out, Addresses
<1>7. g \in Heaps /\ Linked(g, h, q, n, n)
  BY <1>3, <1>5, <1>6, LinkAfter
<1>8. Pasted(fs, es, l, k + 1, r)
  BY <1>1, <1>4, <1>5, PastePastes
<1>9. Good(g, fs)
  BY <1>2, <1>4, <1>5, <1>7, <1>8, PasteGood
<1>. QED
  BY <1>1, <1>2, <1>3, <1>8, <1>9

\* The nodes of r, which the caller has chained.
LEMMA ChainedChains ==
  ASSUME NEW h \in Heaps, NEW r \in Seq(Nodes),
         \A x, y \in 1..Len(r) : r[x] = r[y] => x = y
  PROVE  /\ chained(h, r) \in Heaps /\ Chained(chained(h, r), r)
         /\ \A x \in Addresses :
              (\A y \in 1..Len(r) : r[y] # x) => chained(h, r).next[x] = h.next[x]
<1> DEFINE at_n(n) == CHOOSE i \in DOMAIN r : r[i] = n
           c == [n \in DOMAIN h.next |-> IF \E i \in 1..(Len(r) - 1) : r[i] = n
                                         THEN r[1 + at_n(n)] ELSE h.next[n]]
<1>1. DOMAIN h.next = Addresses /\ DOMAIN r = 1..Len(r) /\ Len(r) \in Nat
      /\ \A x \in Addresses : h.next[x] \in Pointers
  BY DEF Heaps
<1>2. \A i \in 1..(Len(r) - 1) : /\ i \in 1..Len(r) /\ i + 1 \in 1..Len(r)
                                 /\ r[i] \in Addresses /\ r[i + 1] \in Pointers
  <2>1. ASSUME NEW i \in 1..(Len(r) - 1)
        PROVE  i \in 1..Len(r) /\ i + 1 \in 1..Len(r)
    BY <1>1
  <2>. QED
    BY <1>1, <2>1 DEF Addresses, Pointers
<1>3. \A i \in 1..(Len(r) - 1) : at_n(r[i]) = i
  BY <1>1, <1>2
<1>4. chained(h, r) = [next |-> c]
  BY DEF chained, get_next
<1> HIDE DEF at_n
<1>5. ASSUME NEW n \in Addresses
      PROVE  /\ c[n] \in Pointers
             /\ (\A y \in 1..Len(r) : r[y] # n) => c[n] = h.next[n]
             /\ \A i \in 1..(Len(r) - 1) : r[i] = n => c[n] = r[i + 1]
  <2>1. CASE \E i \in 1..(Len(r) - 1) : r[i] = n
    <3>1. PICK i \in 1..(Len(r) - 1) : r[i] = n
      BY <2>1
    <3>2. at_n(n) = i /\ 1 + i = i + 1
      BY <1>1, <1>3, <3>1
    <3>3. c[n] = r[i + 1]
      BY <1>1, <2>1, <3>2
    <3>4. \A x \in 1..(Len(r) - 1) : r[x] = n => x = i
      BY <1>2, <3>1
    <3>. QED
      BY <1>2, <3>1, <3>3, <3>4
  <2>2. CASE ~\E i \in 1..(Len(r) - 1) : r[i] = n
    <3>1. c[n] = h.next[n]
      BY <1>1, <2>2
    <3>. QED
      BY <1>1, <2>2, <3>1
  <2>. QED
    BY <2>1, <2>2
<1>6. c \in [Addresses -> Pointers]
  <2>1. c = [n \in Addresses |-> c[n]]
    BY <1>1
  <2>. QED
    BY <1>5, <2>1
<1> HIDE DEF c
<1>7. chained(h, r) \in Heaps
  BY <1>4, <1>6 DEF Heaps
<1>8. \A n : chained(h, r).next[n] = c[n]
  BY <1>4
<1>9. Chained(chained(h, r), r)
  BY <1>2, <1>5, <1>8 DEF Chained
<1>. QED
  BY <1>5, <1>7, <1>8, <1>9

\* So does taking in a chain of the caller.
LEMMA IncorporateGood ==
  ASSUME NEW h0, NEW es, Good(h0, es), NEW l \in Lists, NEW k \in 0..Len(es[l]),
         NEW r \in Seq(Nodes), r # <<>>, Fresh(es, r),
         NEW fs, fs = [es EXCEPT ![l] = Paste(@, k + 1, r)]
  PROVE  /\ Good(incorporate_after(chained(h0, r), At(es, l, k), r[1], r[Len(r)]), fs)
         /\ Pasted(fs, es, l, k + 1, r)
<1>1. PICK h : h = chained(h0, r)
  OBVIOUS
<1>2. PICK q : q = At(es, l, k)
  OBVIOUS
<1>3. PICK b, c : b = r[1] /\ c = r[Len(r)]
  OBVIOUS
<1>4. PICK g : g = incorporate_after(h, q, b, c)
  OBVIOUS
<1>5. /\ h0 \in Heaps /\ es \in Contents /\ Len(es[l]) \in Nat
      /\ k + 1 \in 1..(Len(es[l]) + 1)
      /\ Len(r) \in Nat /\ Len(r) >= 1 /\ 1 \in 1..Len(r) /\ Len(r) \in 1..Len(r)
  BY Neighbours, EmptySeq DEF Good
<1>6. /\ h \in Heaps /\ Chained(h, r)
      /\ \A x \in Addresses : (\A y \in 1..Len(r) : r[y] # x) => h.next[x] = h0.next[x]
  BY <1>1, <1>5, ChainedChains DEF Fresh
<1>7. q \in Addresses /\ b \in Addresses /\ c \in Addresses /\ q # c
  <2>1. q \in Addresses
    BY <1>2, Neighbours
  <2>2. k \in Int /\ (k = 0 \/ k \in 1..Len(es[l]))
    BY <1>5
  <2>3. b \in Nodes /\ c \in Nodes /\ Out(es, c)
    BY <1>3, <1>5 DEF Fresh
  <2>. QED
    BY <1>2, <1>5, <2>1, <2>2, <2>3, AtNode, HeaderAssumption DEF Out, Addresses
<1>8. g \in Heaps /\ Linked(g, h, q, b, c)
  BY <1>4, <1>6, <1>7, IncorporateAfter
<1>9. Pasted(fs, es, l, k + 1, r)
  BY <1>5, PastePastes
<1>10. Good(g, fs)
  BY <1>2, <1>3, <1>5, <1>6, <1>8, <1>9, PasteGood
<1>. QED
  BY <1>1, <1>2, <1>3, <1>4, <1>9, <1>10

\* Heap g is h with the elements gone, those behind position i of l up to j,
\* bridged and, in the modes that do so, reset.
CutAway(g, h, es, l, i, j, gone) ==
  /\ i \in 0..Len(es[l]) /\ j \in i..Len(es[l])
  /\ gone = {es[l][y] : y \in (i + 1)..j}
  /\ g \in Heaps /\ Bridged(g, h, At(es, l, i), At(es, l, j + 1), gone)
  /\ safemode_or_autounlink => \A n \in gone : g.next[n] = Null

\* Leading around a range and resetting its hooks keeps a heap good.
LEMMA CutGood ==
  ASSUME NEW h, NEW es, Good(h, es), NEW l \in Lists, NEW i, NEW j, NEW gone, NEW g,
         CutAway(g, h, es, l, i, j, gone),
         NEW fs, CutOut(fs, es, l, i + 1, j + 1)
  PROVE  Good(g, fs)
<1>0. /\ h \in Heaps /\ es \in Contents /\ Disjoint(es) /\ Spells(h, es) /\ Quiet(h, es)
      /\ i \in 0..Len(es[l]) /\ j \in i..Len(es[l]) /\ g \in Heaps
  BY DEF Good, CutAway
<1>1. PICK a, e : a = At(es, l, i) /\ e = At(es, l, j + 1)
  OBVIOUS
<1>2. /\ gone = {es[l][y] : y \in (i + 1)..j} /\ Bridged(g, h, a, e, gone)
      /\ safemode_or_autounlink => \A n \in gone : g.next[n] = Null
  BY <1>1 DEF CutAway
<1>3. fs \in Contents /\ Disjoint(fs) /\ Spells(g, fs) /\ Without(fs, es, gone)
  BY <1>0, <1>1, <1>2, CutSpells
<1>4. Quiet(g, fs)
  <2>1. SUFFICES ASSUME safemode_or_autounlink, NEW x \in Nodes, Out(fs, x)
                 PROVE  g.next[x] = Null
    BY DEF Quiet
  <2>2. CASE x \in gone
    BY <1>2, <2>1, <2>2
  <2>3. CASE x \notin gone
    <3>1. Out(es, x)
      BY <1>3, <2>1, <2>3 DEF Without
    <3>2. Len(es[l]) \in Nat /\ i \in Int /\ (i = 0 \/ i \in 1..Len(es[l]))
      BY <1>0, Neighbours
    <3>3. x # a
      BY <1>0, <1>1, <3>1, <3>2, AtNode, HeaderAssumption DEF Out
    <3>. QED
      BY <1>0, <1>2, <2>1, <2>3, <3>1, <3>3 DEF Quiet, Bridged, Addresses
  <2>. QED
    BY <2>2, <2>3
<1>. QED
  BY <1>0, <1>3, <1>4 DEF Good

\* A cut by position.
LEMMA CutIs ==
  ASSUME NEW es \in Contents, NEW l \in Lists,
         NEW i \in 0..Len(es[l]), NEW j \in i..Len(es[l]),
         NEW fs, fs = [es EXCEPT ![l] = Cut(@, i + 1, j + 1)]
  PROVE  CutOut(fs, es, l, i + 1, j + 1)
<1>1. Len(es[l]) \in Nat
  BY DEF Contents
<1>2. i + 1 \in 1..(Len(es[l]) + 1) /\ j + 1 \in (i + 1)..(Len(es[l]) + 1)
  BY <1>1
<1>. QED
  BY <1>2, CutCuts

\* An erasure of one element keeps a heap good.
LEMMA EraseGood ==
  ASSUME NEW h, NEW es, Good(h, es), NEW l \in Lists, NEW k \in 0..Len(es[l]),
         k # Len(es[l]),
         NEW fs, fs = [es EXCEPT ![l] = Cut(@, k + 1, k + 2)]
  PROVE  /\ Good(reset(unlink_after(h, At(es, l, k)), At(es, l, k + 1)), fs)
         /\ CutOut(fs, es, l, k + 1, k + 2)
<1>0. PICK p, n : p = At(es, l, k) /\ n = At(es, l, k + 1)
  OBVIOUS
<1>1. /\ h \in Heaps /\ es \in Contents /\ Disjoint(es) /\ Len(es[l]) \in Nat
      /\ k \in Nat /\ k + 1 \in 0..Len(es[l]) /\ k + 1 \in 1..Len(es[l])
  BY Neighbours DEF Good
<1>2. PICK j \in k..Len(es[l]) : j = k + 1 /\ j + 1 = k + 2
  BY <1>1
<1>3. PICK g : g = reset(unlink_after(h, p), n)
  OBVIOUS
<1>4. /\ p \in Addresses /\ n \in Addresses /\ n = h.next[p]
      /\ h.next[n] = At(es, l, j + 1) /\ n # p
  <2>1. n = h.next[p] /\ p \in Addresses
    BY <1>0, Neighbours
  <2>2. h.next[n] = At(es, l, j + 1) /\ n \in Addresses
    BY <1>0, <1>1, <1>2, Neighbours
  <2>3. k # k + 1
    BY <1>1
  <2>4. n # p
    BY <1>0, <1>1, <2>3, AtInjective
  <2>. QED
    BY <2>1, <2>2, <2>4
<1>5. /\ g \in Heaps /\ Bridged(g, h, p, h.next[n], {n})
      /\ safemode_or_autounlink => g.next[n] = Null
  <2>1. /\ reset(unlink_after(h, p), n) \in Heaps
        /\ Bridged(reset(unlink_after(h, p), n), h, p, h.next[n], {n})
        /\ safemode_or_autounlink => reset(unlink_after(h, p), n).next[n] = Null
    BY <1>1, <1>4, UnlinkAfter
  <2>. QED
    BY <1>3, <2>1
<1>6. {n} = {es[l][y] : y \in (k + 1)..j}
  <2>1. (k + 1)..j = {k + 1}
    BY <1>1, <1>2
  <2>2. n = es[l][k + 1]
    BY <1>0, <1>1, AtNode
  <2>. QED
    BY <2>1, <2>2
<1>7. CutOut(fs, es, l, k + 1, j + 1)
  <2>1. fs = [es EXCEPT ![l] = Cut(@, k + 1, j + 1)]
    BY <1>2
  <2>. QED
    BY <1>1, <1>2, <2>1, CutIs
<1>8. CutAway(g, h, es, l, k, j, {n})
  BY <1>0, <1>2, <1>4, <1>5, <1>6 DEF CutAway
<1>9. Good(g, fs)
  BY <1>7, <1>8, CutGood
<1>. QED
  BY <1>0, <1>2, <1>3, <1>7, <1>9

\* So does one of a range that is not walked.
LEMMA EraseRangeGood ==
  ASSUME NEW h, NEW es, Good(h, es), NEW l \in Lists, ~safemode_or_autounlink,
         NEW i \in 0..Len(es[l]), NEW j \in i..Len(es[l]),
         NEW fs, fs = [es EXCEPT ![l] = Cut(@, i + 1, j + 1)]
  PROVE  /\ Good(unlink_range_after(h, At(es, l, i), At(es, l, j + 1)), fs)
         /\ CutOut(fs, es, l, i + 1, j + 1)
<1>1. PICK a, e, gone : /\ a = At(es, l, i) /\ e = At(es, l, j + 1)
                           /\ gone = {es[l][y] : y \in (i + 1)..j}
  OBVIOUS
<1>2. PICK g : g = unlink_range_after(h, a, e)
  OBVIOUS
<1>3. h \in Heaps /\ es \in Contents /\ Len(es[l]) \in Nat /\ j + 1 \in Int
  BY Neighbours DEF Good
<1>4. a \in Addresses /\ e \in Pointers
  BY <1>1, <1>3, Neighbours, AtNode
<1>5. g \in Heaps /\ Bridged(g, h, a, e, gone)
  BY <1>2, <1>3, <1>4, UnlinkRangeAfter
<1>6. CutOut(fs, es, l, i + 1, j + 1)
  BY <1>3, CutIs
<1>7. CutAway(g, h, es, l, i, j, gone)
  BY <1>1, <1>5 DEF CutAway
<1>8. Good(g, fs)
  BY <1>6, <1>7, CutGood
<1>. QED
  BY <1>1, <1>2, <1>6, <1>8

\* And one of all the elements.
LEMMA ClearGood ==
  ASSUME NEW h, NEW es, Good(h, es), NEW l \in Lists, ~safemode_or_autounlink,
         NEW fs, fs = [es EXCEPT ![l] = <<>>]
  PROVE  Good(init_header(h, l), fs)
<1>1. /\ h \in Heaps /\ es \in Contents /\ es[l] \in Seq(Nodes) /\ Len(es[l]) \in Nat
      /\ l \in Addresses
  BY DEF Good, Contents, Addresses
<1>2. PICK i \in 0..Len(es[l]) : i = 0
  BY <1>1
<1>3. PICK j \in i..Len(es[l]) : j = Len(es[l])
  BY <1>1, <1>2
<1>4. PICK e, gone : e = end_node(l) /\ gone = {es[l][y] : y \in (i + 1)..j}
  OBVIOUS
<1>5. PICK g : g = init_header(h, l)
  OBVIOUS
<1>6. l = At(es, l, i) /\ e = At(es, l, j + 1)
  BY <1>2, <1>3, <1>4, Neighbours
<1>7. g \in Heaps /\ Bridged(g, h, l, e, gone)
  BY <1>1, <1>4, <1>5, InitHeader
<1>8. Cut(es[l], i + 1, j + 1) = <<>>
  <2>1. PICK x \in 1..(Len(es[l]) + 1) : x = i + 1
    BY <1>1, <1>2
  <2>2. PICK y \in x..(Len(es[l]) + 1) : y = j + 1
    BY <1>1, <1>3, <2>1
  <2>3. /\ Cut(es[l], x, y) \in Seq(Nodes)
        /\ Len(Cut(es[l], x, y)) = Len(es[l]) - (y - x)
    BY <1>1, CutProperties
  <2>4. Len(Cut(es[l], x, y)) = 0
    BY <1>1, <1>2, <1>3, <2>1, <2>2, <2>3
  <2>. QED
    BY <2>1, <2>2, <2>3, <2>4, EmptySeq
<1>9. CutOut(fs, es, l, i + 1, j + 1)
  <2>1. fs = [es EXCEPT ![l] = Cut(@, i + 1, j + 1)]
    BY <1>8
  <2>. QED
    BY <1>1, <1>2, <1>3, <2>1, CutIs
<1>10. CutAway(g, h, es, l, i, j, gone)
  BY <1>2, <1>3, <1>4, <1>6, <1>7 DEF CutAway
<1>11. Good(g, fs)
  BY <1>9, <1>10, CutGood
<1>. QED
  BY <1>5, <1>11
-----------------------------------------------------------------------------
(* Moving a range: cut it out, paste it back somewhere else.               *)

\* A chain taken out and linked in again is a move.
LEMMA MoveGood ==
  ASSUME NEW h, NEW es, Good(h, es), NEW l \in Lists, NEW m \in Lists,
         NEW k \in 0..Len(es[l]), NEW i \in 0..Len(es[m]), NEW j \in (i + 1)..Len(es[m]),
         l = m => k < i \/ j < k,
         NEW p, p = At(es, l, k), NEW f, f = At(es, m, i), NEW t, t = At(es, m, j),
         NEW b, b = At(es, m, i + 1), NEW e, e = At(es, m, j + 1),
         NEW h1, h1 = Lifted(h, f, e),
         NEW g \in Heaps, Linked(g, h1, p, b, t),
         NEW fs, fs = Moved(es, l, k + 1, m, i + 1, j + 1)
  PROVE  Good(g, fs)
<1>0. /\ h \in Heaps /\ es \in Contents /\ Disjoint(es) /\ Spells(h, es) /\ Quiet(h, es)
      /\ es[m] \in Seq(Nodes)
  BY DEF Good, Contents
<1>1. /\ Len(es[l]) \in Nat /\ Len(es[m]) \in Nat
      /\ i \in Nat /\ j \in Nat /\ k \in Nat /\ j \in i..Len(es[m])
      /\ i + 1 <= j /\ k <= Len(es[l]) /\ j <= Len(es[m])
  BY Neighbours
<1>2. PICK K, I, J : K = k + 1 /\ I = i + 1 /\ J = j + 1
  OBVIOUS
<1>3. /\ K \in 1..(Len(es[l]) + 1) /\ I \in 1..(Len(es[m]) + 1) /\ J \in I..(Len(es[m]) + 1)
      /\ l = m => K <= I \/ J <= K
      /\ J - I = j - i /\ J - 1 = j /\ I..(J - 1) = (i + 1)..j
  <2>1. J - I = j - i /\ J - 1 = j
    BY <1>1, <1>2
  <2>2. l = m => K <= I \/ J <= K
    BY <1>1, <1>2
  <2>. QED
    BY <1>1, <1>2, <2>1, <2>2
<1>7. fs = Moved(es, l, K, m, I, J)
  BY <1>2
<1>4. PICK cs, r, to : Parted(fs, cs, r, to, es, l, K, m, I, J)
  BY <1>3, <1>7 DEF Parted
<1>6. to = IF l = m /\ J <= K THEN K - (J - I) ELSE K
  BY <1>4 DEF Parted
<1>8. /\ cs \in Contents /\ Disjoint(cs) /\ CutOut(cs, es, m, I, J)
      /\ r \in Seq(Nodes) /\ Len(r) = J - I
      /\ \A x \in 1..(J - I) : I + x - 1 \in I..(J - 1) /\ r[x] = es[m][I + x - 1]
      /\ Fresh(cs, r)
      /\ to \in 1..(Len(cs[l]) + 1) /\ Pasted(fs, cs, l, to, r)
      /\ fs \in Contents /\ Disjoint(fs)
      /\ \A n \in Nodes : Out(fs, n) <=> Out(es, n)
  BY <1>0, <1>4, MoveContents
<1>9. PICK gone : gone = {es[m][y] : y \in (i + 1)..j}
  OBVIOUS
<1>10. /\ p \in Addresses /\ f \in Addresses /\ t \in Addresses /\ e \in Pointers
  <2>1. p \in Addresses /\ f \in Addresses /\ t \in Addresses
    BY <1>1, Neighbours
  <2>2. j + 1 \in Int
    BY <1>1
  <2>. QED
    BY <1>0, <2>1, <2>2, AtNode
<1>11. h1 \in Heaps /\ Bridged(h1, h, f, e, gone)
  BY <1>0, <1>10, Lift
<1>12. Spells(h1, cs) /\ Shifted(cs, es, m, i, j)
  <2>1. CutOut(cs, es, m, i + 1, j + 1)
    BY <1>2, <1>8
  <2>. QED
    BY <1>0, <1>1, <1>9, <1>11, <2>1, CutSpells
<1>13. \A x \in 1..(j - i) : /\ i + x \in 1..Len(es[m]) /\ i + x \in Int
                             /\ r[x] = At(es, m, i + x) /\ r[x] \in Nodes
  <2>1. ASSUME NEW x \in 1..(j - i)
        PROVE  /\ i + x \in 1..Len(es[m]) /\ i + x \in Int
               /\ r[x] = At(es, m, i + x) /\ r[x] \in Nodes
    <3>1. i + x \in 1..Len(es[m]) /\ i + x \in Int /\ I + x - 1 = i + x
      BY <1>1, <1>2
    <3>2. r[x] = es[m][i + x]
      BY <1>3, <1>8, <3>1
    <3>. QED
      BY <1>0, <3>1, <3>2, AtNode
  <2>. QED
    BY <2>1
<1>14. Chained(h1, r)
  <2>1. ASSUME NEW x \in 1..(Len(r) - 1)
        PROVE  h1.next[r[x]] = r[x + 1]
    <3>0. Len(r) = j - i
      BY <1>3, <1>8
    <3>1. x \in 1..(j - i) /\ x + 1 \in 1..(j - i)
      BY <1>1, <3>0
    <3>2. PICK y \in 1..Len(es[m]) : y = i + x /\ y + 1 = i + (x + 1) /\ y # i
      BY <1>1, <1>13, <3>1
    <3>3. y \in 0..Len(es[m]) /\ i \in 0..Len(es[m])
      BY <1>1
    <3>4. r[x] = At(es, m, y) /\ r[x + 1] = At(es, m, y + 1)
      BY <1>13, <3>1, <3>2
    <3>5. At(es, m, y) # f
      BY <1>0, <3>2, <3>3, AtInjective
    <3>6. h.next[At(es, m, y)] = At(es, m, y + 1) /\ At(es, m, y) \in Addresses
      BY <3>3, Neighbours
    <3>. QED
      BY <1>0, <3>4, <3>5, <3>6 DEF Lifted, Heaps
  <2>. QED
    BY <2>1 DEF Chained
<1>15. /\ to - 1 \in 0..Len(cs[l]) /\ (to - 1) + 1 = to
       /\ At(cs, l, to - 1) = p
  <2>1. Len(cs[l]) \in Nat
    BY <1>8 DEF Contents
  <2>2. to - 1 \in 0..Len(cs[l]) /\ to - 1 \in 0..(Len(cs[l]) + 1) /\ (to - 1) + 1 = to
    BY <1>8, <2>1
  <2>3. (IF l = m /\ to - 1 > i THEN to - 1 + (j - i) ELSE to - 1) = k
    BY <1>1, <1>2, <1>6
  <2>. QED
    BY <1>12, <2>2, <2>3 DEF Shifted
<1>16. r[1] = b /\ r[Len(r)] = t /\ Len(r) >= 1
  <2>1. /\ 1 \in 1..(j - i) /\ j - i \in 1..(j - i) /\ i + (j - i) = j /\ Len(r) = j - i
        /\ j - i >= 1
    BY <1>1, <1>3, <1>8
  <2>. QED
    BY <1>13, <2>1
<1>17. Spells(g, fs)
  <2>1. PICK z \in 0..Len(cs[l]) : z = to - 1 /\ z + 1 = to
    BY <1>15
  <2>2. Pasted(fs, cs, l, z + 1, r) /\ p = At(cs, l, z)
    BY <1>8, <1>15, <2>1
  <2>. QED
    BY <1>8, <1>11, <1>12, <1>14, <1>16, <2>1, <2>2, PasteSpells
<1>18. Quiet(g, fs)
  <2>1. SUFFICES ASSUME safemode_or_autounlink, NEW x \in Nodes, Out(fs, x)
                 PROVE  g.next[x] = Null
    BY DEF Quiet
  <2>2. Out(es, x)
    BY <1>8, <2>1
  <2>3. \A o \in Lists : \A y \in 0..Len(es[o]) : At(es, o, y) # x
    <3>1. ASSUME NEW o \in Lists, NEW y \in 0..Len(es[o])
          PROVE  At(es, o, y) # x
      <4>1. Len(es[o]) \in Nat
        BY <1>0 DEF Contents
      <4>2. y \in Int /\ (y = 0 \/ y \in 1..Len(es[o]))
        BY <4>1
      <4>3. x \in Nodes /\ x \notin Lists
        BY HeaderAssumption
      <4>4. CASE y = 0
        BY <1>0, <4>2, <4>3, <4>4, AtNode
      <4>5. CASE y \in 1..Len(es[o])
        <5>1. At(es, o, y) = es[o][y]
          BY <1>0, <4>2, <4>5, AtNode
        <5>. QED
          BY <2>2, <4>5, <5>1 DEF Out
      <4>. QED
        BY <4>2, <4>4, <4>5
    <3>. QED
      BY <3>1
  <2>4. x # p /\ x # f /\ x # t /\ x \in Addresses
    BY <1>1, <2>3 DEF Addresses
  <2>5. h.next[x] = Null
    BY <1>0, <2>1, <2>2 DEF Quiet
  <2>6. h1.next[x] = h.next[x]
    BY <1>0, <2>4 DEF Lifted, Heaps
  <2>. QED
    BY <2>4, <2>5, <2>6 DEF Linked
<1>. QED
  BY <1>8, <1>17, <1>18 DEF Good

\* transfer_after moves a range, or does nothing where nothing is to move.
LEMMA TransferGood ==
  ASSUME NEW h, NEW es, Good(h, es), NEW l \in Lists, NEW m \in Lists,
         NEW k \in 0..Len(es[l]), NEW i \in 0..Len(es[m]), NEW j \in i..Len(es[m]),
         l = m => k <= i \/ j <= k
  PROVE  Good(transfer_after(h, At(es, l, k), At(es, m, i), At(es, m, j)),
              Moved(es, l, k + 1, m, i + 1, j + 1))
<1>1. PICK p, f, t : p = At(es, l, k) /\ f = At(es, m, i) /\ t = At(es, m, j)
  OBVIOUS
<1>2. PICK g : g = transfer_after(h, p, f, t)
  OBVIOUS
<1>3. PICK fs : fs = Moved(es, l, k + 1, m, i + 1, j + 1)
  OBVIOUS
<1>4. /\ h \in Heaps /\ es \in Contents /\ Disjoint(es)
      /\ Len(es[l]) \in Nat /\ Len(es[m]) \in Nat
      /\ i \in Nat /\ j \in Nat /\ k \in Nat /\ i <= j
      /\ k \in 0..Len(es[l]) /\ i \in 0..Len(es[m]) /\ j \in 0..Len(es[m])
  BY Neighbours DEF Good
<1>5. /\ f = t <=> i = j
      /\ p = f <=> (l = m /\ k = i)
      /\ p = t <=> (l = m /\ k = j)
  BY <1>1, <1>4, AtInjective
<1>6. CASE i = j \/ (l = m /\ (k = i \/ k = j))
  <2>1. g = h
    BY <1>2, <1>5, <1>6 DEF transfer_after
  <2>2. PICK K, I, J : K = k + 1 /\ I = i + 1 /\ J = j + 1
    OBVIOUS
  <2>3. /\ K \in 1..(Len(es[l]) + 1) /\ I \in 1..(Len(es[m]) + 1) /\ J \in I..(Len(es[m]) + 1)
        /\ I = J \/ (l = m /\ (K = I \/ K = J))
    BY <1>4, <1>6, <2>2
  <2>4. Moved(es, l, K, m, I, J) = es
    BY <1>4, <2>3, MoveNowhere
  <2>. QED
    BY <1>1, <1>2, <2>1, <2>2, <2>4
<1>7. CASE ~(i = j \/ (l = m /\ (k = i \/ k = j)))
  <2>1. p # f /\ p # t /\ f # t
    BY <1>5, <1>7
  <2>2. j \in (i + 1)..Len(es[m]) /\ (l = m => k < i \/ j < k)
    BY <1>4, <1>7
  <2>3. PICK b, e : b = At(es, m, i + 1) /\ e = At(es, m, j + 1)
    OBVIOUS
  <2>4. /\ p \in Addresses /\ f \in Addresses /\ t \in Addresses
        /\ b = h.next[f] /\ e = h.next[t]
    BY <1>1, <1>4, <2>3, Neighbours
  <2>5. b \in Addresses
    <3>1. i + 1 \in 0..Len(es[m]) /\ i + 1 \in Int
      BY <1>4, <2>2
    <3>. QED
      BY <1>4, <2>3, <3>1, AtNode
  <2>6. PICK h1 : h1 = Lifted(h, f, e)
    OBVIOUS
  <2>7. g \in Heaps /\ Linked(g, h1, p, b, t)
    <3>1. h1 = Lifted(h, f, h.next[t])
      BY <2>4, <2>6
    <3>. QED
      BY <1>2, <1>4, <2>1, <2>4, <2>5, <3>1, TransferAfter
  <2>8. Good(g, fs)
    BY <1>1, <1>3, <2>2, <2>3, <2>6, <2>7, MoveGood
  <2>. QED
    BY <1>1, <1>2, <1>3, <2>8
<1>. QED
  BY <1>6, <1>7
-----------------------------------------------------------------------------
(* The last node of a list, and what an operation makes of it.             *)

\* The last element of l, or its header.
LastOf(es, l) == At(es, l, Len(es[l]))

\* The last nodes after a paste.
LEMMA LastPaste ==
  ASSUME NEW es \in Contents, NEW l \in Lists, NEW k \in 0..Len(es[l]),
         NEW r \in Seq(Nodes), Len(r) >= 1, NEW fs, Pasted(fs, es, l, k + 1, r)
  PROVE  /\ LastOf(fs, l) = IF k = Len(es[l]) THEN r[Len(r)] ELSE LastOf(es, l)
         /\ \A o \in Lists : o # l => LastOf(fs, o) = LastOf(es, o)
<1>1. PICK n, d, z : n = Len(es[l]) /\ d = Len(r) /\ z = Len(fs[l])
  OBVIOUS
<1>2. /\ n \in Nat /\ d \in Nat /\ d >= 1 /\ k \in Nat /\ k <= n
      /\ z = n + d
  BY <1>1 DEF Pasted, Contents
<1>3. \A i \in 1..(n + d) :
        fs[l][i] = IF i < k + 1 THEN es[l][i]
                   ELSE IF i < k + 1 + d THEN r[i - (k + 1) + 1] ELSE es[l][i - d]
  BY <1>1 DEF Pasted
<1>4. z \in 1..(n + d) /\ z \in 1..z /\ ~(z < k + 1)
  BY <1>2
<1>5. LastOf(fs, l) = fs[l][z]
  BY <1>1, <1>4 DEF LastOf, At
<1>6. LastOf(fs, l) = IF k = Len(es[l]) THEN r[Len(r)] ELSE LastOf(es, l)
  <2>1. CASE k = n
    <3>1. z < k + 1 + d /\ z - (k + 1) + 1 = d
      BY <1>2, <2>1
    <3>. QED
      BY <1>1, <1>3, <1>4, <1>5, <2>1, <3>1
  <2>2. CASE k # n
    <3>1. ~(z < k + 1 + d) /\ z - d = n /\ n \in 1..n
      BY <1>2, <2>2
    <3>2. LastOf(es, l) = es[l][n]
      BY <1>1, <3>1 DEF LastOf, At
    <3>. QED
      BY <1>1, <1>3, <1>4, <1>5, <2>2, <3>1, <3>2
  <2>. QED
    BY <2>1, <2>2
<1>7. \A o \in Lists : o # l => fs[o] = es[o]
  BY DEF Pasted
<1>. QED
  BY <1>7, <1>6 DEF LastOf, At

\* The last nodes after a cut.
LEMMA LastCut ==
  ASSUME NEW es \in Contents, NEW l \in Lists, NEW i \in 0..Len(es[l]),
         NEW j \in i..Len(es[l]), NEW fs, CutOut(fs, es, l, i + 1, j + 1)
  PROVE  /\ LastOf(fs, l) = IF j = Len(es[l]) THEN At(es, l, i) ELSE LastOf(es, l)
         /\ \A o \in Lists : o # l => LastOf(fs, o) = LastOf(es, o)
<1>1. PICK n, d, z : n = Len(es[l]) /\ d = (j + 1) - (i + 1) /\ z = Len(fs[l])
  OBVIOUS
<1>2. /\ n \in Nat /\ d \in Nat /\ i \in Nat /\ j \in Nat /\ i <= j /\ j <= n /\ d = j - i
      /\ z = n - d
  BY <1>1 DEF CutOut, Contents
<1>3. \A x \in 1..(n - d) : fs[l][x] = IF x < i + 1 THEN es[l][x] ELSE es[l][x + d]
  BY <1>1 DEF CutOut
<1>4. LastOf(fs, l) = IF j = Len(es[l]) THEN At(es, l, i) ELSE LastOf(es, l)
  <2>1. CASE j = n
    <3>1. z = i
      BY <1>2, <2>1
    <3>2. CASE i = 0
      <4>1. 0 \notin 1..z
        BY <1>2
      <4>. QED
        BY <1>1, <2>1, <3>1, <3>2, <4>1 DEF LastOf, At
    <3>3. CASE i # 0
      <4>1. i \in 1..z /\ i \in 1..(n - d) /\ i < i + 1 /\ i \in 1..n
        BY <1>2, <3>1, <3>3
      <4>2. fs[l][i] = es[l][i]
        BY <1>3, <4>1
      <4>. QED
        BY <1>1, <2>1, <3>1, <4>1, <4>2 DEF LastOf, At
    <3>. QED
      BY <3>2, <3>3
  <2>2. CASE j # n
    <3>1. z \in 1..z /\ z \in 1..(n - d) /\ ~(z < i + 1) /\ z + d = n /\ n \in 1..n
      BY <1>2, <2>2
    <3>2. fs[l][z] = es[l][n]
      BY <1>3, <3>1
    <3>. QED
      BY <1>1, <2>2, <3>1, <3>2 DEF LastOf, At
  <2>. QED
    BY <2>1, <2>2
<1>5. \A o \in Lists : o # l => fs[o] = es[o]
  BY DEF CutOut
<1>. QED
  BY <1>5, <1>4 DEF LastOf, At

\* A range behind position i of m, up to j, has gone behind position k of l.
LEMMA LastMoved ==
  ASSUME NEW es \in Contents, Disjoint(es), NEW l \in Lists, NEW m \in Lists,
         NEW k \in 0..Len(es[l]), NEW i \in 0..Len(es[m]), NEW j \in (i + 1)..Len(es[m]),
         l = m => k <= i \/ j <= k,
         NEW fs, fs = Moved(es, l, k + 1, m, i + 1, j + 1)
  PROVE  /\ \A o \in Lists : o \notin {l, m} => LastOf(fs, o) = LastOf(es, o)
         /\ l # m => /\ LastOf(fs, l) = IF k = Len(es[l]) THEN At(es, m, j)
                                        ELSE LastOf(es, l)
                     /\ LastOf(fs, m) = IF j = Len(es[m]) THEN At(es, m, i)
                                        ELSE LastOf(es, m)
         /\ l = m /\ ~(k < i /\ j = Len(es[m])) =>
              LastOf(fs, m) = IF k = Len(es[m]) THEN At(es, m, j) ELSE LastOf(es, m)
<1>1. /\ Len(es[l]) \in Nat /\ Len(es[m]) \in Nat
      /\ i \in Nat /\ j \in Nat /\ k \in Nat /\ j \in i..Len(es[m])
      /\ i + 1 <= j /\ k <= Len(es[l]) /\ j <= Len(es[m]) /\ i <= Len(es[m])
  BY DEF Contents
<1>2. PICK K, I, J : K = k + 1 /\ I = i + 1 /\ J = j + 1
  OBVIOUS
<1>3. /\ K \in 1..(Len(es[l]) + 1) /\ I \in 1..(Len(es[m]) + 1) /\ J \in I..(Len(es[m]) + 1)
      /\ l = m => K <= I \/ J <= K
      /\ J - I = j - i /\ fs = Moved(es, l, K, m, I, J)
  <2>1. l = m => K <= I \/ J <= K
    BY <1>1, <1>2
  <2>2. fs = Moved(es, l, K, m, I, J) /\ J - I = j - i
    BY <1>1, <1>2
  <2>. QED
    BY <1>1, <1>2, <2>1, <2>2
<1>4. PICK cs, r, to : Parted(fs, cs, r, to, es, l, K, m, I, J)
  BY <1>3 DEF Parted
<1>5. /\ cs \in Contents /\ Disjoint(cs) /\ CutOut(cs, es, m, I, J)
      /\ r \in Seq(Nodes) /\ Len(r) = J - I
      /\ \A x \in 1..(J - I) : I + x - 1 \in I..(J - 1) /\ r[x] = es[m][I + x - 1]
      /\ Fresh(cs, r)
      /\ to \in 1..(Len(cs[l]) + 1) /\ Pasted(fs, cs, l, to, r)
      /\ fs \in Contents /\ Disjoint(fs)
      /\ \A n \in Nodes : Out(fs, n) <=> Out(es, n)
  BY <1>4, MoveContents
<1>6. /\ LastOf(cs, m) = IF j = Len(es[m]) THEN At(es, m, i) ELSE LastOf(es, m)
      /\ \A o \in Lists : o # m => LastOf(cs, o) = LastOf(es, o)
  <2>1. CutOut(cs, es, m, i + 1, j + 1)
    BY <1>2, <1>5
  <2>. QED
    BY <1>1, <2>1, LastCut, SMTT(15)
<1>7. r[Len(r)] = At(es, m, j) /\ Len(r) >= 1
  <2>1. Len(r) = j - i /\ j - i >= 1 /\ j - i \in 1..(J - I) /\ I + (j - i) - 1 = j
    BY <1>1, <1>2, <1>3, <1>5
  <2>2. r[j - i] = es[m][j] /\ j \in 1..Len(es[m])
    BY <1>1, <1>5, <2>1
  <2>. QED
    BY <1>1, <2>1, <2>2, AtNode
<1>8. /\ Len(cs[l]) \in Nat
      /\ l # m => Len(cs[l]) = Len(es[l])
      /\ Len(cs[m]) = Len(es[m]) - (j - i)
  <2>1. Len(cs[l]) \in Nat
    BY <1>5 DEF Contents
  <2>2. l # m => cs[l] = es[l]
    BY <1>5 DEF CutOut
  <2>3. Len(cs[m]) = Len(es[m]) - (j - i)
    BY <1>3, <1>5 DEF CutOut
  <2>. QED
    BY <2>1, <2>2, <2>3
<1>9. PICK z \in 0..Len(cs[l]) : z + 1 = to
  BY <1>5, <1>8
<1>10. to = IF l = m /\ J <= K THEN K - (J - I) ELSE K
  BY <1>4 DEF Parted
<1>11. /\ LastOf(fs, l) = IF z = Len(cs[l]) THEN At(es, m, j) ELSE LastOf(cs, l)
       /\ \A o \in Lists : o # l => LastOf(fs, o) = LastOf(cs, o)
  <2>1. Pasted(fs, cs, l, z + 1, r)
    BY <1>5, <1>9
  <2>2. cs \in Contents /\ r \in Seq(Nodes) /\ Len(r) >= 1 /\ z \in 0..Len(cs[l])
    BY <1>5, <1>7, <1>9
  <2>3. /\ LastOf(fs, l) = IF z = Len(cs[l]) THEN r[Len(r)] ELSE LastOf(cs, l)
        /\ \A o \in Lists : o # l => LastOf(fs, o) = LastOf(cs, o)
    BY <2>1, <2>2, LastPaste
  <2>. QED
    BY <1>7, <2>3
<1>12. l # m => (z = Len(cs[l]) <=> k = Len(es[l]))
  BY <1>1, <1>2, <1>8, <1>9, <1>10
<1>13. l = m => (z = Len(cs[m]) <=> k = Len(es[m]) \/ (k = i /\ j = Len(es[m])))
  <2>1. CASE l = m /\ j <= k
    <3>1. z = k - (j - i)
      BY <1>1, <1>2, <1>3, <1>9, <1>10, <2>1
    <3>. QED
      BY <1>1, <1>8, <2>1, <3>1, SMTT(15)
  <2>2. CASE l = m /\ ~(j <= k)
    <3>1. z = k /\ k <= i
      BY <1>1, <1>2, <1>3, <1>9, <1>10, <2>2
    <3>. QED
      BY <1>1, <1>8, <2>2, <3>1
  <2>. QED
    BY <2>1, <2>2
<1>14. ASSUME l = m, ~(k < i /\ j = Len(es[m]))
       PROVE  LastOf(fs, m) = IF k = Len(es[m]) THEN At(es, m, j) ELSE LastOf(es, m)
  <2>1. CASE k = Len(es[m])
    BY <1>11, <1>13, <1>14, <2>1
  <2>2. CASE k # Len(es[m]) /\ k = i /\ j = Len(es[m])
    BY <1>11, <1>13, <1>14, <2>2 DEF LastOf
  <2>3. CASE k # Len(es[m]) /\ ~(k = i /\ j = Len(es[m]))
    <3>1. j # Len(es[m])
      BY <1>1, <1>14, <2>3
    <3>. QED
      BY <1>6, <1>11, <1>13, <1>14, <2>3, <3>1
  <2>. QED
    BY <2>1, <2>2, <2>3
<1>. QED
  BY <1>6, <1>11, <1>12, <1>14

\* The cached nodes after an operation that has made n the last node of l if
\* c holds.
Recached(la, l, n, c) == IF CacheLast /\ c THEN [la EXCEPT ![l] = n] ELSE la

\* What an insertion must write into the cached node.
LEMMA EndsPaste ==
  ASSUME NEW es \in Contents, NEW l \in Lists, NEW k \in 0..Len(es[l]),
         NEW r \in Seq(Nodes), Len(r) >= 1, NEW fs, Pasted(fs, es, l, k + 1, r),
         NEW la, Ends(la, es)
  PROVE  Ends(Recached(la, l, r[Len(r)], k = Len(es[l])), fs)
<1>1. la \in [Lists -> Pointers] /\ (CacheLast => \A o \in Lists : la[o] = LastOf(es, o))
  BY DEF Ends, LastOf
<1>2. r[Len(r)] \in Pointers
  BY DEF Pointers, Addresses
<1>3. /\ LastOf(fs, l) = IF k = Len(es[l]) THEN r[Len(r)] ELSE LastOf(es, l)
      /\ \A o \in Lists : o # l => LastOf(fs, o) = LastOf(es, o)
  BY LastPaste
<1>4. PICK lb : lb = Recached(la, l, r[Len(r)], k = Len(es[l]))
  OBVIOUS
<1>5. lb \in [Lists -> Pointers]
  BY <1>1, <1>2, <1>4 DEF Recached
<1>6. CacheLast => \A o \in Lists : lb[o] = LastOf(fs, o)
  BY <1>1, <1>3, <1>4 DEF Recached
<1>. QED
  BY <1>4, <1>5, <1>6 DEF Ends, LastOf

\* What an erasure must write into the cached node.
LEMMA EndsCut ==
  ASSUME NEW es \in Contents, NEW l \in Lists, NEW i \in 0..Len(es[l]),
         NEW j \in i..Len(es[l]), NEW fs, CutOut(fs, es, l, i + 1, j + 1),
         NEW la, Ends(la, es)
  PROVE  Ends(Recached(la, l, At(es, l, i), j = Len(es[l])), fs)
<1>1. la \in [Lists -> Pointers] /\ (CacheLast => \A o \in Lists : la[o] = LastOf(es, o))
  BY DEF Ends, LastOf
<1>2. At(es, l, i) \in Pointers
  <2>1. i \in Int
    BY DEF Contents
  <2>. QED
    BY <2>1, AtNode
<1>3. /\ LastOf(fs, l) = IF j = Len(es[l]) THEN At(es, l, i) ELSE LastOf(es, l)
      /\ \A o \in Lists : o # l => LastOf(fs, o) = LastOf(es, o)
  BY LastCut
<1>4. PICK lb : lb = Recached(la, l, At(es, l, i), j = Len(es[l]))
  OBVIOUS
<1>5. lb \in [Lists -> Pointers]
  BY <1>1, <1>2, <1>4 DEF Recached
<1>6. CacheLast => \A o \in Lists : lb[o] = LastOf(fs, o)
  BY <1>1, <1>3, <1>4 DEF Recached
<1>. QED
  BY <1>4, <1>5, <1>6 DEF Ends, LastOf
-----------------------------------------------------------------------------
(* The invariant.                                                          *)

(* Represented alone is not inductive: what is put at the end of a list    *)
(* goes behind the cached node, and a cut at its end makes another node    *)
(* the cached one.                                                         *)
IInv == TypeOK /\ Represented /\ LastIsCached /\ HooksTellMembership /\ SizeCounts

\* The heap h, the cached nodes la and the counters sz represent es.
Sound(h, la, es, sz) == Good(h, es) /\ Ends(la, es) /\ Sized(sz, Lengths(es))

\* The invariant in the terms of the proof.
LEMMA InvariantIsSound == IInv <=> Sound(heap, last, elems, size)
<1>1. TypeOK <=> /\ heap \in Heaps /\ elems \in Contents /\ last \in [Lists -> Pointers]
                 /\ size \in [Lists -> 0..(SizeMod - 1)]
  BY DEF TypeOK, Heaps, Contents
<1>2. ASSUME elems \in Contents
      PROVE  Sized(size, Lengths(elems)) <=>
               size \in [Lists -> 0..(SizeMod - 1)] /\ SizeCounts
  BY <1>2, LengthsType DEF Sized, Lengths, SizeCounts
<1>3. Represented <=> Disjoint(elems) /\ Spells(heap, elems)
  BY DEF Represented
<1>4. Ends(last, elems) <=> last \in [Lists -> Pointers] /\ LastIsCached
  BY DEF Ends, LastIsCached, at
<1>5. \A n \in Nodes : Detached(n) <=> Out(elems, n)
  BY DEF Detached, Positions, Out
<1>6. ASSUME heap \in Heaps, elems \in Contents, Disjoint(elems), Spells(heap, elems)
      PROVE  HooksTellMembership <=> Quiet(heap, elems)
  <2>1. ASSUME NEW l \in Lists, NEW i \in 1..Len(elems[l])
        PROVE  /\ i \in 0..Len(elems[l]) /\ i \in Int /\ Len(elems[l]) \in Nat
               /\ At(elems, l, i) = elems[l][i]
               /\ heap.next[elems[l][i]] = Null <=> Linear /\ i = Len(elems[l])
    <3>1. i \in 0..Len(elems[l]) /\ i \in Int /\ i + 1 \in Int /\ Len(elems[l]) \in Nat
      BY <1>6 DEF Contents
    <3>2. At(elems, l, i) = elems[l][i]
      BY <1>6, <3>1, AtNode
    <3>3. heap.next[elems[l][i]] = At(elems, l, i + 1)
      BY <1>6, <3>1, <3>2 DEF Spells
    <3>4. CASE i = Len(elems[l])
      <4>1. i + 1 \notin 0..Len(elems[l])
        BY <3>1, <3>4
      <4>2. At(elems, l, i + 1) = end_node(l)
        BY <1>6, <3>1, <4>1, AtNode
      <4>. QED
        BY <3>1, <3>2, <3>3, <3>4, <4>2, HeaderAssumption DEF end_node, Addresses
    <3>5. CASE i # Len(elems[l])
      <4>1. i + 1 \in 1..Len(elems[l])
        BY <3>1, <3>5
      <4>2. At(elems, l, i + 1) \in Nodes
        BY <1>6, <3>1, <4>1, AtNode
      <4>. QED
        BY <3>1, <3>2, <3>3, <3>5, <4>2, HeaderAssumption
    <3>. QED
      BY <3>4, <3>5
  <2>2. ASSUME NEW l \in Lists
        PROVE  Len(elems[l]) \in Nat /\ (elems[l] # <<>> => Len(elems[l]) \in 1..Len(elems[l]))
    <3>1. elems[l] \in Seq(Nodes)
      BY <1>6 DEF Contents
    <3>. QED
      BY <3>1, EmptySeq
  <2>3. ASSUME NEW n \in Nodes
        PROVE  (EndsALinearList(n) => heap.next[n] = Null)
               /\ (~Out(elems, n) /\ heap.next[n] = Null => EndsALinearList(n))
    <3>1. ASSUME EndsALinearList(n)
          PROVE  heap.next[n] = Null
      <4>1. PICK l \in Lists : Linear /\ elems[l] # <<>> /\ n = At(elems, l, Len(elems[l]))
        BY <3>1 DEF EndsALinearList, at
      <4>. QED
        BY <2>1, <2>2, <4>1
    <3>2. ASSUME ~Out(elems, n), heap.next[n] = Null
          PROVE  EndsALinearList(n)
      <4>0. PICK l \in Lists : \E i \in 1..Len(elems[l]) : elems[l][i] = n
        BY <3>2 DEF Out
      <4>1. PICK i \in 1..Len(elems[l]) : elems[l][i] = n
        BY <4>0
      <4>2. Linear /\ i = Len(elems[l]) /\ n = At(elems, l, i) /\ elems[l] # <<>>
        <5>1. elems[l] # <<>>
          BY <2>1, <4>1
        <5>. QED
          BY <2>1, <3>2, <4>1, <5>1
      <4>. QED
        BY <4>2 DEF EndsALinearList, at
    <3>. QED
      BY <3>1, <3>2
  <2>4. ASSUME NEW n \in Nodes
        PROVE  (inited(heap, n) <=> Detached(n) \/ EndsALinearList(n))
                 <=> (Out(elems, n) => heap.next[n] = Null)
    BY <1>5, <2>3 DEF inited, get_next
  <2>. QED
    BY <2>4 DEF HooksTellMembership, Quiet
<1>7. CASE heap \in Heaps /\ elems \in Contents /\ Disjoint(elems) /\ Spells(heap, elems)
  BY <1>1, <1>2, <1>3, <1>4, <1>6, <1>7 DEF IInv, Sound, Good
<1>8. CASE ~(heap \in Heaps /\ elems \in Contents /\ Disjoint(elems) /\ Spells(heap, elems))
  BY <1>1, <1>3, <1>8 DEF IInv, Sound, Good
<1>. QED
  BY <1>7, <1>8

\* It holds at first.
LEMMA InitSound == Init => IInv
<1> SUFFICES ASSUME Init
             PROVE  Sound(heap, last, elems, size)
  BY InvariantIsSound
<1>1. PICK fresh : fresh = IF safemode_or_autounlink THEN Null ELSE Junk
  OBVIOUS
<1>2. /\ heap = [next |-> [n \in Addresses |-> IF n \in Lists THEN end_node(n) ELSE fresh]]
      /\ last = [l \in Lists |-> IF CacheLast THEN l ELSE Null]
      /\ size = [l \in Lists |-> 0]
      /\ elems = [l \in Lists |-> <<>>]
  BY <1>1 DEF Init, AInit
<1>3. elems \in Contents /\ \A l \in Lists : elems[l] = <<>> /\ Len(elems[l]) = 0
  BY <1>2 DEF Contents
<1>4. heap \in Heaps
  BY <1>1, <1>2 DEF Heaps, Pointers, Addresses, end_node
<1>5. Disjoint(elems)
  BY <1>3 DEF Disjoint
<1>6. Spells(heap, elems)
  <2>1. ASSUME NEW l \in Lists, NEW i \in 0..Len(elems[l])
        PROVE  heap.next[At(elems, l, i)] = At(elems, l, i + 1)
    <3>1. i = 0 /\ i \notin 1..Len(elems[l]) /\ i + 1 \notin 1..Len(elems[l]) /\ i + 1 # 0
      BY <1>3
    <3>2. At(elems, l, i) = l /\ At(elems, l, i + 1) = end_node(l)
      BY <3>1 DEF At
    <3>. QED
      BY <1>2, <3>2 DEF Addresses
  <2>. QED
    BY <2>1 DEF Spells
<1>7. Quiet(heap, elems)
  BY <1>1, <1>2, HeaderAssumption DEF Quiet, Addresses
<1>8. Ends(last, elems)
  <2>1. last \in [Lists -> Pointers]
    BY <1>2 DEF Pointers, Addresses
  <2>2. ASSUME NEW l \in Lists
        PROVE  At(elems, l, Len(elems[l])) = l
    BY <1>3 DEF At
  <2>. QED
    BY <1>2, <2>1, <2>2 DEF Ends
<1>9. Sized(size, Lengths(elems))
  <2>1. Counted(0) = 0 /\ 0 \in 0..(SizeMod - 1)
    <3>1. /\ SizeMod \in Nat /\ SizeMod > 0 /\ 0 \in Int /\ 0 \in 0..(SizeMod - 1)
          /\ 0 = SizeMod * 0 + 0
      BY OptionAssumption
    <3>2. 0 % SizeMod = 0
      BY <3>1, ModIs
    <3>. QED
      BY <3>1, <3>2 DEF Counted
  <2>. QED
    BY <1>2, <1>3, <2>1, LengthsType DEF Sized, Lengths
<1>. QED
  BY <1>3, <1>4, <1>5, <1>6, <1>7, <1>8, <1>9 DEF Sound, Good
-----------------------------------------------------------------------------
(* Every action keeps the state sound.                                     *)

\* What a sound state says of the end of list l.
LEMMA EndIs ==
  ASSUME Sound(heap, last, elems, size), NEW l \in Lists
  PROVE  /\ Good(heap, elems) /\ elems \in Contents /\ Disjoint(elems)
         /\ Ends(last, elems) /\ Sized(size, Lengths(elems))
         /\ elems[l] \in Seq(Nodes) /\ Len(elems[l]) \in Nat
         /\ empty(l) <=> Len(elems[l]) = 0
         /\ CacheLast => \A k \in 0..Len(elems[l]) :
                           last[l] = At(elems, l, k) <=> k = Len(elems[l])
<1>1. /\ Good(heap, elems) /\ elems \in Contents /\ Disjoint(elems)
      /\ Ends(last, elems) /\ Sized(size, Lengths(elems))
      /\ elems[l] \in Seq(Nodes) /\ Len(elems[l]) \in Nat
  BY DEF Sound, Good, Contents
<1>2. empty(l) <=> Len(elems[l]) = 0
  <2>1. 0 \in 0..Len(elems[l]) /\ 0 + 1 = 1
    BY <1>1
  <2>2. At(elems, l, 0) = l /\ heap.next[At(elems, l, 0)] = At(elems, l, 1)
    BY <1>1, <2>1, Neighbours
  <2>3. At(elems, l, 1) = end_node(l) <=> 0 = Len(elems[l])
    BY <1>1, <2>1, Neighbours
  <2>. QED
    BY <2>2, <2>3 DEF empty, is_empty, get_next
<1>3. ASSUME CacheLast, NEW k \in 0..Len(elems[l])
      PROVE  last[l] = At(elems, l, k) <=> k = Len(elems[l])
  <2>1. last[l] = At(elems, l, Len(elems[l])) /\ Len(elems[l]) \in 0..Len(elems[l])
    BY <1>1, <1>3 DEF Ends
  <2>. QED
    BY <1>1, <2>1, AtInjective
<1>. QED
  BY <1>1, <1>2, <1>3

\* An element linked in behind position k.
LEMMA PasteOneSound ==
  ASSUME Sound(heap, last, elems, size), NEW l \in Lists, NEW k \in 0..Len(elems[l]),
         NEW n \in Nodes, Detached(n),
         elems' = [elems EXCEPT ![l] = Paste(@, k + 1, <<n>>)],
         heap' = link_after(heap, At(elems, l, k), n),
         last' = Recached(last, l, n, k = Len(elems[l])),
         size' = increase(size, l, 1)
  PROVE  Sound(heap', last', elems', size')
<1>1. /\ Good(heap, elems) /\ elems \in Contents
      /\ Ends(last, elems) /\ Sized(size, Lengths(elems))
  BY EndIs
<1>2. Out(elems, n)
  BY DEF Detached, Out, Positions
<1>3. Good(heap', elems') /\ Pasted(elems', elems, l, k + 1, <<n>>)
  BY <1>1, <1>2, InsertGood
<1>4. PICK r : r = <<n>>
  OBVIOUS
<1>5. r \in Seq(Nodes) /\ Len(r) = 1 /\ Len(r) >= 1 /\ r[Len(r)] = n
  BY <1>4
<1>6. Pasted(elems', elems, l, k + 1, r)
  BY <1>3, <1>4
<1>7. PICK d : d = Len(r)
  OBVIOUS
<1>8. Ends(last', elems')
  <2>1. Ends(Recached(last, l, r[d], k = Len(elems[l])), elems')
    <3>1. r \in Seq(Nodes) /\ Len(r) >= 1
      BY <1>5
    <3>. QED
      BY <1>1, <1>6, <1>7, <3>1, EndsPaste
  <2>. QED
    BY <1>5, <1>7, <2>1
<1>9. Sized(size', Lengths(elems'))
  <2>1. Lengths(elems') = [Lengths(elems) EXCEPT ![l] = @ + d]
    BY <1>1, <1>6, <1>7, PasteLengths
  <2>. QED
    BY <1>1, <1>5, <1>7, <2>1, Increase
<1>. QED
  BY <1>3, <1>8, <1>9 DEF Sound

\* The insertions of one element.
LEMMA InsertSound ==
  ASSUME Sound(heap, last, elems, size), NEW l \in Lists, NEW n \in Nodes,
         \/ push_front(l, n)
         \/ push_back(l, n)
         \/ \E k \in EndPositions(l) : insert_after(l, k - 1, n)
  PROVE  Sound(heap', last', elems', size')
<1>0. /\ Len(elems[l]) \in Nat
      /\ empty(l) <=> Len(elems[l]) = 0
      /\ CacheLast => \A k \in 0..Len(elems[l]) :
                        last[l] = At(elems, l, k) <=> k = Len(elems[l])
  BY EndIs
<1>1. CASE push_front(l, n)
  <2>1. PICK k \in 0..Len(elems[l]) : k = 0 /\ k + 1 = 1
    BY <1>0
  <2>2. /\ Detached(n)
        /\ elems' = [elems EXCEPT ![l] = Paste(@, k + 1, <<n>>)]
        /\ size' = increase(size, l, 1)
    BY <1>1, <2>1 DEF push_front, Insert
  <2>3. heap' = link_after(heap, At(elems, l, k), n)
    <3>1. At(elems, l, k) = l
      BY <2>1 DEF At
    <3>. QED
      BY <1>1, <3>1 DEF push_front
  <2>4. last' = Recached(last, l, n, k = Len(elems[l]))
    BY <1>0, <1>1, <2>1 DEF push_front, set_last_node, Recached
  <2>. QED
    BY <2>2, <2>3, <2>4, PasteOneSound
<1>2. CASE push_back(l, n)
  <2>1. PICK k \in 0..Len(elems[l]) : k = Len(elems[l])
    BY <1>0
  <2>2. /\ Detached(n) /\ CacheLast
        /\ elems' = [elems EXCEPT ![l] = Paste(@, k + 1, <<n>>)]
        /\ size' = increase(size, l, 1)
    BY <1>2, <2>1 DEF push_back, Insert
  <2>3. heap' = link_after(heap, At(elems, l, k), n)
    BY <1>0, <1>2, <2>1, <2>2 DEF push_back
  <2>4. last' = Recached(last, l, n, k = Len(elems[l]))
    BY <1>2, <2>1, <2>2 DEF push_back, set_last_node, Recached
  <2>. QED
    BY <2>2, <2>3, <2>4, PasteOneSound
<1>3. ASSUME NEW p \in EndPositions(l), insert_after(l, p - 1, n)
      PROVE  Sound(heap', last', elems', size')
  <2>1. PICK k \in 0..Len(elems[l]) : k = p - 1
    BY <1>0 DEF EndPositions
  <2>2. /\ Detached(n)
        /\ elems' = [elems EXCEPT ![l] = Paste(@, k + 1, <<n>>)]
        /\ size' = increase(size, l, 1)
        /\ heap' = link_after(heap, At(elems, l, k), n)
    BY <1>3, <2>1 DEF insert_after, Insert, link_element, at
  <2>3. last' = IF last[l] = At(elems, l, k) THEN set_last_node(last, l, n) ELSE last
    BY <1>3, <2>1 DEF insert_after, link_element, at
  <2>4. last' = Recached(last, l, n, k = Len(elems[l]))
    BY <1>0, <2>3 DEF set_last_node, Recached
  <2>. QED
    BY <2>2, <2>4, PasteOneSound
<1>. QED
  BY <1>1, <1>2, <1>3

\* The insertion of a chain.
LEMMA IncorporateSound ==
  ASSUME Sound(heap, last, elems, size), NEW l \in Lists, NEW p \in EndPositions(l),
         NEW r \in Seq(Nodes), incorporate_range(l, p - 1, r)
  PROVE  Sound(heap', last', elems', size')
<1>0. /\ Len(elems[l]) \in Nat
      /\ CacheLast => \A k \in 0..Len(elems[l]) :
                        last[l] = At(elems, l, k) <=> k = Len(elems[l])
      /\ Good(heap, elems) /\ elems \in Contents
      /\ Ends(last, elems) /\ Sized(size, Lengths(elems))
  BY EndIs
<1>1. PICK k \in 0..Len(elems[l]) : k = p - 1
  BY <1>0 DEF EndPositions
<1>2. /\ r # <<>> /\ Insertable(r)
      /\ elems' = [elems EXCEPT ![l] = Paste(@, k + 1, r)]
      /\ heap' = incorporate_after(chained(heap, r), At(elems, l, k), r[1], r[Len(r)])
      /\ last' = IF last[l] = At(elems, l, k) THEN set_last_node(last, l, r[Len(r)]) ELSE last
      /\ size' = increase(size, l, Len(r))
  BY <1>1 DEF incorporate_range, InsertRange, at
<1>3. Fresh(elems, r)
  <2>1. DOMAIN r = 1..Len(r)
    OBVIOUS
  <2>. QED
    BY <1>2, <2>1 DEF Insertable, Detached, Positions, Fresh, Out
<1>4. Good(heap', elems') /\ Pasted(elems', elems, l, k + 1, r)
  BY <1>0, <1>2, <1>3, IncorporateGood
<1>5. Len(r) \in Nat /\ Len(r) >= 1
  BY <1>2, EmptySeq
<1>6. Ends(last', elems')
  <2>1. Ends(Recached(last, l, r[Len(r)], k = Len(elems[l])), elems')
    BY <1>0, <1>4, <1>5, EndsPaste
  <2>2. last' = Recached(last, l, r[Len(r)], k = Len(elems[l]))
    BY <1>0, <1>2 DEF set_last_node, Recached
  <2>. QED
    BY <2>1, <2>2
<1>7. Sized(size', Lengths(elems'))
  <2>1. Lengths(elems') = [Lengths(elems) EXCEPT ![l] = @ + Len(r)]
    BY <1>0, <1>4, PasteLengths
  <2>. QED
    BY <1>0, <1>2, <1>5, <2>1, Increase
<1>. QED
  BY <1>4, <1>6, <1>7 DEF Sound

\* The element behind position k of l goes.
CutsOne(l, k) ==
  /\ k \in 0..Len(elems[l]) /\ k # Len(elems[l])
  /\ elems' = [elems EXCEPT ![l] = Cut(@, k + 1, k + 2)]
  /\ heap' = reset(unlink_after(heap, At(elems, l, k)), At(elems, l, k + 1))
  /\ last' = Recached(last, l, At(elems, l, k), k + 1 = Len(elems[l]))
  /\ size' = decrease(size, l, 1)

\* The erasure of one element.
LEMMA CutOneSound ==
  ASSUME Sound(heap, last, elems, size), NEW l \in Lists, NEW k, CutsOne(l, k)
  PROVE  Sound(heap', last', elems', size')
<1>1. /\ Good(heap, elems) /\ elems \in Contents /\ Len(elems[l]) \in Nat
      /\ Ends(last, elems) /\ Sized(size, Lengths(elems))
  BY EndIs
<1>2. k \in 0..Len(elems[l]) /\ k # Len(elems[l])
  BY DEF CutsOne
<1>3. /\ last' = Recached(last, l, At(elems, l, k), k + 1 = Len(elems[l]))
      /\ size' = decrease(size, l, 1)
  BY DEF CutsOne
<1>4. Good(heap', elems') /\ CutOut(elems', elems, l, k + 1, k + 2)
  <2>1. /\ elems' = [elems EXCEPT ![l] = Cut(@, k + 1, k + 2)]
        /\ heap' = reset(unlink_after(heap, At(elems, l, k)), At(elems, l, k + 1))
    BY DEF CutsOne
  <2>. QED
    BY <1>1, <1>2, <2>1, EraseGood
<1>5. PICK j \in k..Len(elems[l]) : j = k + 1 /\ j + 1 = k + 2 /\ (j + 1) - (k + 1) = 1
  BY <1>1, <1>2
<1>6. CutOut(elems', elems, l, k + 1, j + 1)
  BY <1>4, <1>5
<1>7. Ends(last', elems')
  <2>1. Ends(Recached(last, l, At(elems, l, k), j = Len(elems[l])), elems')
    BY <1>1, <1>2, <1>6, EndsCut
  <2>. QED
    BY <1>3, <1>5, <2>1
<1>8. Sized(size', Lengths(elems'))
  <2>1. Lengths(elems') = [Lengths(elems) EXCEPT ![l] = @ - ((j + 1) - (k + 1))]
    BY <1>1, <1>6, CutLengths
  <2>2. Lengths(elems') = [Lengths(elems) EXCEPT ![l] = @ - 1]
    BY <1>5, <2>1
  <2>3. PICK n \in 0..Lengths(elems)[l] : n = 1
    BY <1>1, <1>2 DEF Lengths
  <2>4. Sized(decrease(size, l, n), [Lengths(elems) EXCEPT ![l] = @ - n])
    BY <1>1, <2>3, Decrease
  <2>. QED
    BY <1>3, <2>2, <2>3, <2>4
<1>. QED
  BY <1>4, <1>7, <1>8 DEF Sound

\* Both operations that erase one element.
LEMMA EraseSound ==
  ASSUME Sound(heap, last, elems, size), NEW l \in Lists,
         \/ pop_front(l)
         \/ \E k \in Positions(l) : erase_after(l, k - 1)
  PROVE  Sound(heap', last', elems', size')
<1>0. /\ Len(elems[l]) \in Nat /\ elems[l] \in Seq(Nodes)
      /\ CacheLast => \A k \in 0..Len(elems[l]) :
                        last[l] = At(elems, l, k) <=> k = Len(elems[l])
      /\ Good(heap, elems) /\ elems \in Contents
  BY EndIs
<1>1. CASE pop_front(l)
  <2>0. Len(elems[l]) # 0
    BY <1>0, <1>1, EmptySeq DEF pop_front
  <2>1. PICK k \in 0..Len(elems[l]) : k = 0 /\ k + 1 = 1 /\ k + 2 = 2 /\ k # Len(elems[l])
    BY <1>0, <2>0
  <2>2. /\ elems' = [elems EXCEPT ![l] = Cut(@, k + 1, k + 2)]
        /\ size' = decrease(size, l, 1)
    BY <1>1, <2>1 DEF pop_front, EraseRange
  <2>3. At(elems, l, k) = l /\ heap.next[l] = At(elems, l, k + 1)
    BY <1>0, <2>1, Neighbours
  <2>4. heap' = reset(unlink_after(heap, At(elems, l, k)), At(elems, l, k + 1))
    BY <1>1, <2>3 DEF pop_front, get_next
  <2>5. is_empty(heap', l) <=> k + 1 = Len(elems[l])
    <3>2. Good(heap', elems') /\ CutOut(elems', elems, l, k + 1, k + 2)
      BY <1>0, <2>1, <2>2, <2>4, EraseGood
    <3>3. Len(elems'[l]) = Len(elems[l]) - 1 /\ Len(elems'[l]) \in Nat
      BY <1>0, <2>1, <2>0, <3>2 DEF CutOut
    <3>4. PICK z \in 0..Len(elems'[l]) : z = 0 /\ z + 1 = 1
      BY <3>3
    <3>5. /\ heap'.next[At(elems', l, z)] = At(elems', l, z + 1)
          /\ At(elems', l, 0) = l
          /\ At(elems', l, z + 1) = end_node(l) <=> z = Len(elems'[l])
      BY <3>2, Neighbours
    <3>. QED
      BY <1>0, <2>1, <3>3, <3>4, <3>5 DEF is_empty, get_next
  <2>6. last' = Recached(last, l, At(elems, l, k), k + 1 = Len(elems[l]))
    BY <1>1, <2>3, <2>5 DEF pop_front, set_last_node, Recached
  <2>. QED
    BY <2>1, <2>2, <2>4, <2>6, CutOneSound DEF CutsOne
<1>2. ASSUME NEW p \in Positions(l), erase_after(l, p - 1)
      PROVE  Sound(heap', last', elems', size')
  <2>1. PICK k \in 0..Len(elems[l]) : k = p - 1 /\ k # Len(elems[l]) /\ k + 1 \in 0..Len(elems[l])
    BY <1>0 DEF Positions
  <2>2. /\ elems' = [elems EXCEPT ![l] = Cut(@, k + 1, k + 2)]
        /\ erase_node_after(l, At(elems, l, k))
    BY <1>2, <2>1 DEF erase_after, EraseRange, at
  <2>3. heap.next[At(elems, l, k)] = At(elems, l, k + 1)
    BY <1>0, Neighbours
  <2>4. /\ heap' = reset(unlink_after(heap, At(elems, l, k)), At(elems, l, k + 1))
        /\ last' = IF At(elems, l, k + 1) = last[l]
                   THEN set_last_node(last, l, At(elems, l, k)) ELSE last
        /\ size' = decrease(size, l, 1)
    BY <2>2, <2>3 DEF erase_node_after, get_next
  <2>5. last' = Recached(last, l, At(elems, l, k), k + 1 = Len(elems[l]))
    BY <1>0, <2>1, <2>4 DEF set_last_node, Recached
  <2>. QED
    BY <2>1, <2>2, <2>4, <2>5, CutOneSound DEF CutsOne
<1>. QED
  BY <1>1, <1>2

\* The erasure of a range without a walk.
LEMMA EraseUnwalkedSound ==
  ASSUME Sound(heap, last, elems, size), NEW l \in Lists,
         NEW p \in EndPositions(l), NEW q \in EndPositions(l), p <= q,
         erase_unwalked(l, p - 1, q)
  PROVE  Sound(heap', last', elems', size')
<1>1. /\ Good(heap, elems) /\ elems \in Contents /\ Len(elems[l]) \in Nat
      /\ Ends(last, elems) /\ Sized(size, Lengths(elems))
  BY EndIs
<1>2. PICK i \in 0..Len(elems[l]) : i = p - 1 /\ i + 1 = p
  BY <1>1 DEF EndPositions
<1>3. PICK j \in i..Len(elems[l]) : j + 1 = q
  BY <1>1, <1>2 DEF EndPositions
<1>4. /\ ~safemode_or_autounlink
      /\ elems' = [elems EXCEPT ![l] = Cut(@, i + 1, j + 1)]
      /\ heap' = unlink_range_after(heap, At(elems, l, i), At(elems, l, j + 1))
      /\ last' = IF At(elems, l, j + 1) = end_node(l)
                 THEN set_last_node(last, l, At(elems, l, i)) ELSE last
      /\ size' = decrease(size, l, (j + 1) - i - 1)
  BY <1>2, <1>3 DEF erase_unwalked, EraseRange, at
<1>5. Good(heap', elems') /\ CutOut(elems', elems, l, i + 1, j + 1)
  BY <1>1, <1>4, EraseRangeGood
<1>6. Ends(last', elems')
  <2>1. Ends(Recached(last, l, At(elems, l, i), j = Len(elems[l])), elems')
    BY <1>1, <1>5, EndsCut
  <2>2. j \in 0..Len(elems[l])
    BY <1>1
  <2>3. At(elems, l, j + 1) = end_node(l) <=> j = Len(elems[l])
    BY <1>1, <2>2, Neighbours
  <2>4. last' = Recached(last, l, At(elems, l, i), j = Len(elems[l]))
    BY <1>4, <2>3 DEF set_last_node, Recached
  <2>. QED
    BY <2>1, <2>4
<1>7. Sized(size', Lengths(elems'))
  <2>1. Lengths(elems') = [Lengths(elems) EXCEPT ![l] = @ - ((j + 1) - (i + 1))]
    BY <1>1, <1>5, CutLengths
  <2>2. PICK d : d = (j + 1) - i - 1
    OBVIOUS
  <2>3. d = (j + 1) - (i + 1) /\ d \in 0..Lengths(elems)[l]
    BY <1>1, <2>2 DEF Lengths
  <2>. QED
    BY <1>1, <1>4, <2>1, <2>2, <2>3, Decrease
<1>. QED
  BY <1>5, <1>6, <1>7 DEF Sound

\* The erasure of everything.
LEMMA ClearSound ==
  ASSUME Sound(heap, last, elems, size), NEW l \in Lists, clear(l)
  PROVE  Sound(heap', last', elems', size')
<1>1. /\ Good(heap, elems) /\ elems \in Contents
      /\ Ends(last, elems) /\ Sized(size, Lengths(elems))
  BY EndIs
<1>2. /\ ~safemode_or_autounlink /\ elems' = [elems EXCEPT ![l] = <<>>]
      /\ heap' = init_header(heap, l)
      /\ last' = set_last_node(last, l, l)
      /\ size' = set_size(size, l, 0)
  BY DEF clear, Empty
<1>3. Good(heap', elems')
  BY <1>1, <1>2, ClearGood
<1>4. \A o \in Lists : elems'[o] = IF o = l THEN <<>> ELSE elems[o]
  BY <1>1, <1>2 DEF Contents
<1>5. Ends(last', elems')
  <2>1. l \in Pointers
    BY DEF Pointers, Addresses
  <2>2. ASSUME NEW o \in Lists, o # l
        PROVE  At(elems', o, Len(elems'[o])) = At(elems, o, Len(elems[o]))
    BY <1>4, <2>2 DEF At
  <2>3. At(elems', l, Len(elems'[l])) = l
    BY <1>4 DEF At
  <2>4. PICK la : la = [last EXCEPT ![l] = l]
    OBVIOUS
  <2>5. last \in [Lists -> Pointers] /\ la \in [Lists -> Pointers]
    BY <1>1, <2>1, <2>4 DEF Ends
  <2>6. CASE CacheLast
    <3>1. last' = la
      BY <1>2, <2>4, <2>6 DEF set_last_node
    <3>2. ASSUME NEW o \in Lists
          PROVE  la[o] = At(elems', o, Len(elems'[o]))
      <4>1. last[o] = At(elems, o, Len(elems[o]))
        BY <1>1, <2>6 DEF Ends
      <4>. QED
        BY <2>2, <2>3, <2>4, <2>5, <4>1
    <3>. QED
      BY <2>5, <3>1, <3>2 DEF Ends
  <2>7. CASE ~CacheLast
    BY <1>2, <2>5, <2>7 DEF Ends, set_last_node
  <2>. QED
    BY <2>6, <2>7
<1>6. Sized(size', Lengths(elems'))
  <2>1. Lengths(elems') = [Lengths(elems) EXCEPT ![l] = 0]
    <3>1. \A o \in Lists : Len(elems'[o]) = IF o = l THEN 0 ELSE Len(elems[o])
      BY <1>4
    <3>. QED
      BY <3>1 DEF Lengths
  <2>. QED
    BY <1>1, <1>2, <2>1, SetSize
<1>. QED
  BY <1>3, <1>5, <1>6 DEF Sound
-----------------------------------------------------------------------------
(* The two moves of which a swap of lists with cached last nodes is made.  *)

\* Pasting in front of a sequence.
LEMMA PasteFront ==
  ASSUME NEW s \in Seq(Nodes), NEW r \in Seq(Nodes)
  PROVE  Paste(s, 1, r) = r \o s
<1>1. PICK k \in 1..(Len(s) + 1) : k = 1
  OBVIOUS
<1>2. PICK c, d : c = Paste(s, k, r) /\ d = r \o s
  OBVIOUS
<1>3. /\ c \in Seq(Nodes) /\ Len(c) = Len(s) + Len(r)
      /\ \A x \in 1..(Len(s) + Len(r)) :
           c[x] = IF x < k THEN s[x]
                  ELSE IF x < k + Len(r) THEN r[x - k + 1] ELSE s[x - Len(r)]
  BY <1>2, PasteProperties
<1>4. /\ d \in Seq(Nodes) /\ Len(d) = Len(r) + Len(s)
      /\ \A x \in 1..Len(r) : d[x] = r[x]
      /\ \A x \in 1..Len(s) : d[Len(r) + x] = s[x]
  BY <1>2, ConcatProperties
<1>5. Len(s) \in Nat /\ Len(r) \in Nat
  OBVIOUS
<1>6. ASSUME NEW x \in 1..Len(c)
      PROVE  c[x] = d[x]
  <2>1. x \in 1..(Len(s) + Len(r))
    BY <1>3
  <2>2. CASE x <= Len(r)
    BY <1>1, <1>3, <1>4, <1>5, <2>1, <2>2
  <2>3. CASE x > Len(r)
    <3>0. PICK y : y = x - Len(r)
      OBVIOUS
    <3>1. y \in 1..Len(s) /\ Len(r) + y = x
      BY <1>5, <2>1, <2>3, <3>0
    <3>2. d[x] = s[y]
      BY <1>4, <3>1
    <3>. QED
      BY <1>1, <1>3, <1>5, <2>1, <2>3, <3>0, <3>1, <3>2
  <2>. QED
    BY <1>5, <2>1, <2>2, <2>3
<1>7. Len(c) = Len(d)
  BY <1>3, <1>4, <1>5
<1>8. c = d
  BY <1>3, <1>4, <1>6, <1>7, SeqEqual
<1>. QED
  BY <1>1, <1>2, <1>8

\* The sequence s is a followed by b.
Joined(s, a, b) == a \in Seq(Nodes) /\ b \in Seq(Nodes) /\ s = a \o b

\* The tail of a sequence, and what is left without it.
LEMMA TailOf ==
  ASSUME NEW s, NEW a, NEW b, Joined(s, a, b)
  PROVE  /\ Slice(s, Len(a) + 1, Len(s) + 1) = b
         /\ Cut(s, Len(a) + 1, Len(s) + 1) = a
         /\ Len(a) \in 0..Len(s) /\ Len(s) = Len(a) + Len(b) /\ s \in Seq(Nodes)
         /\ \A x \in 1..Len(a) : s[x] = a[x]
         /\ \A x \in 1..Len(b) : s[Len(a) + x] = b[x]
<1>1. /\ s \in Seq(Nodes) /\ Len(s) = Len(a) + Len(b)
      /\ \A x \in 1..Len(a) : s[x] = a[x]
      /\ \A x \in 1..Len(b) : s[Len(a) + x] = b[x]
      /\ Len(a) \in Nat /\ Len(b) \in Nat
      /\ a \in Seq(Nodes) /\ b \in Seq(Nodes)
  BY ConcatProperties DEF Joined
<1>2. PICK i \in 1..(Len(s) + 1) : i = Len(a) + 1
  BY <1>1
<1>0. PICK j : j = Len(s) + 1
  OBVIOUS
<1>3. j \in i..(Len(s) + 1) /\ j - i = Len(b) /\ Len(s) - (j - i) = Len(a)
  BY <1>0, <1>1, <1>2
<1>4. PICK c, d : c = Slice(s, i, j) /\ d = Cut(s, i, j)
  OBVIOUS
<1>5. c = b
  <2>1. /\ c \in Seq(Nodes) /\ Len(c) = j - i
        /\ \A x \in 1..(j - i) : c[x] = s[i + x - 1]
    BY <1>1, <1>3, <1>4, SliceProperties
  <2>2. ASSUME NEW x \in 1..Len(b)
        PROVE  c[x] = b[x]
    <3>1. i + x - 1 = Len(a) + x
      BY <1>1, <1>2
    <3>. QED
      BY <1>1, <1>3, <2>1, <3>1
  <2>3. b \in Seq(Nodes) /\ c \in Seq(Nodes) /\ Len(c) = Len(b)
    BY <1>1, <1>3, <2>1
  <2>4. \A x \in 1..Len(c) : c[x] = b[x]
    BY <2>2, <2>3
  <2>. QED
    BY <2>3, <2>4, SeqEqual
<1>6. d = a
  <2>1. /\ d \in Seq(Nodes) /\ Len(d) = Len(s) - (j - i)
        /\ \A x \in 1..(Len(s) - (j - i)) : d[x] = IF x < i THEN s[x] ELSE s[x + (j - i)]
    BY <1>1, <1>3, <1>4, CutProperties
  <2>2. ASSUME NEW x \in 1..Len(a)
        PROVE  d[x] = a[x]
    <3>1. x < i
      BY <1>1, <1>2
    <3>. QED
      BY <1>1, <1>3, <2>1, <3>1
  <2>3. a \in Seq(Nodes) /\ d \in Seq(Nodes) /\ Len(d) = Len(a)
    BY <1>1, <1>3, <2>1
  <2>4. \A x \in 1..Len(d) : d[x] = a[x]
    BY <2>2, <2>3
  <2>. QED
    BY <2>3, <2>4, SeqEqual
<1>7. Len(a) \in 0..Len(s)
  BY <1>1
<1>. QED
  BY <1>1, <1>2, <1>3, <1>4, <1>5, <1>6, <1>7

\* All the elements of m go to the front of l.
LEMMA MoveAllFront ==
  ASSUME NEW es \in Contents, NEW l \in Lists, NEW m \in Lists, l # m
  PROVE  Moved(es, l, 1, m, 1, Len(es[m]) + 1)
           = [es EXCEPT ![m] = <<>>, ![l] = es[m] \o es[l]]
<1>1. es[l] \in Seq(Nodes) /\ es[m] \in Seq(Nodes) /\ <<>> \in Seq(Nodes) /\ Len(<<>>) = 0
  BY EmptySeq DEF Contents
<1>2. es[m] = <<>> \o es[m]
  BY <1>1, ConcatEmptySeq
<1>0. PICK a : a = <<>>
  OBVIOUS
<1>3. Joined(es[m], a, es[m]) /\ Len(a) = 0
  BY <1>0, <1>1, <1>2 DEF Joined
<1>4. Slice(es[m], 1, Len(es[m]) + 1) = es[m] /\ Cut(es[m], 1, Len(es[m]) + 1) = <<>>
  <2>1. /\ Slice(es[m], Len(a) + 1, Len(es[m]) + 1) = es[m]
        /\ Cut(es[m], Len(a) + 1, Len(es[m]) + 1) = a
    BY <1>3, TailOf
  <2>2. Len(a) + 1 = 1
    BY <1>3
  <2>. QED
    BY <1>0, <2>1, <2>2
<1>5. Paste(es[l], 1, es[m]) = es[m] \o es[l]
  BY <1>1, PasteFront
<1>6. [es EXCEPT ![m] = Cut(@, 1, Len(es[m]) + 1)] = [es EXCEPT ![m] = <<>>]
  BY <1>4
<1>. QED
  BY <1>4, <1>5, <1>6 DEF Moved, Contents

\* The tail b of m goes to l, which is empty.
Tailing(es, l, m, a, b) ==
  es \in Contents /\ l # m /\ es[l] = <<>> /\ Joined(es[m], a, b)

\* The tail of m goes to l.
LEMMA MoveTail ==
  ASSUME NEW l \in Lists, NEW m \in Lists, NEW es, NEW a, NEW b, Tailing(es, l, m, a, b)
  PROVE  Moved(es, l, 1, m, Len(a) + 1, Len(es[m]) + 1) = [es EXCEPT ![m] = a, ![l] = b]
<1>1. Slice(es[m], Len(a) + 1, Len(es[m]) + 1) = b /\ Cut(es[m], Len(a) + 1, Len(es[m]) + 1) = a
  BY TailOf DEF Tailing
<1>2. Paste(es[l], 1, b) = b
  <2>1. b \o <<>> = b /\ <<>> \in Seq(Nodes)
    BY ConcatEmptySeq, EmptySeq DEF Tailing, Joined
  <2>2. b \in Seq(Nodes) /\ es[l] = <<>>
    BY DEF Tailing, Joined
  <2>. QED
    BY <2>1, <2>2, PasteFront
<1>3. [es EXCEPT ![m] = Cut(@, Len(a) + 1, Len(es[m]) + 1)] = [es EXCEPT ![m] = a]
  BY <1>1
<1>4. es \in Contents /\ l # m
  BY DEF Tailing
<1>. QED
  BY <1>1, <1>2, <1>3, <1>4 DEF Moved, Contents
-----------------------------------------------------------------------------
(* Transfers.                                                              *)

\* The contents after the elements of l and m have been exchanged.
Swapped(es, l, m) == [es EXCEPT ![l] = es[m], ![m] = es[l]]

\* What a transfer must write into the cached nodes of both lists.
LEMMA EndsMoved ==
  ASSUME NEW es \in Contents, Disjoint(es), NEW l \in Lists, NEW m \in Lists,
         NEW k \in 0..Len(es[l]), NEW i \in 0..Len(es[m]), NEW j \in (i + 1)..Len(es[m]),
         l = m => k <= i \/ j <= k,
         CacheLast => ~(l = m /\ k < i /\ j = Len(es[m])),
         NEW la, Ends(la, es)
  PROVE  Ends(Recached(Recached(la, l, At(es, m, j), k = Len(es[l])),
                       m, At(es, m, i), l # m /\ j = Len(es[m])),
              Moved(es, l, k + 1, m, i + 1, j + 1))
<1>1. la \in [Lists -> Pointers] /\ (CacheLast => \A o \in Lists : la[o] = LastOf(es, o))
  BY DEF Ends, LastOf
<1>2. At(es, m, i) \in Pointers /\ At(es, m, j) \in Pointers
  <2>1. i \in Int /\ j \in Int
    BY DEF Contents
  <2>. QED
    BY <2>1, AtNode
<1>3. PICK fs : fs = Moved(es, l, k + 1, m, i + 1, j + 1)
  OBVIOUS
<1>4. PICK c, f, t : c = LastOf(es, l) /\ f = At(es, m, i) /\ t = At(es, m, j)
  OBVIOUS
<1>5. PICK lb : lb = Recached(Recached(la, l, t, k = Len(es[l])), m, f, l # m /\ j = Len(es[m]))
  OBVIOUS
<1>6. /\ \A o \in Lists : o \notin {l, m} => LastOf(fs, o) = LastOf(es, o)
      /\ l # m => /\ LastOf(fs, l) = IF k = Len(es[l]) THEN t ELSE LastOf(es, l)
                  /\ LastOf(fs, m) = IF j = Len(es[m]) THEN f ELSE LastOf(es, m)
      /\ l = m /\ ~(k < i /\ j = Len(es[m])) =>
           LastOf(fs, m) = IF k = Len(es[m]) THEN t ELSE LastOf(es, m)
  BY <1>3, <1>4, LastMoved
<1>7. lb \in [Lists -> Pointers]
  BY <1>1, <1>2, <1>4, <1>5 DEF Recached
<1>8. ASSUME CacheLast, NEW o \in Lists
      PROVE  lb[o] = LastOf(fs, o)
  <2>1. CASE o \notin {l, m}
    BY <1>1, <1>5, <1>6, <1>8, <2>1 DEF Recached
  <2>2. CASE l = m /\ o = l
    BY <1>1, <1>5, <1>6, <1>8, <2>2 DEF Recached
  <2>3. CASE l # m /\ o = l
    BY <1>1, <1>5, <1>6, <1>8, <2>3 DEF Recached
  <2>4. CASE l # m /\ o = m
    BY <1>1, <1>5, <1>6, <1>8, <2>4 DEF Recached
  <2>. QED
    BY <2>1, <2>2, <2>3, <2>4
<1>. QED
  BY <1>3, <1>4, <1>5, <1>7, <1>8 DEF Ends, LastOf

\* linear lists without a cached node exchange what their headers point to.
LEMMA TrailingGood ==
  ASSUME Linear, NEW h, NEW es, Good(h, es), NEW l \in Lists, NEW m \in Lists
  PROVE  Good(swap_trailing_nodes(h, l, m), Swapped(es, l, m))
<1>1. h \in Heaps /\ es \in Contents /\ Disjoint(es) /\ Spells(h, es) /\ Quiet(h, es)
  BY DEF Good
<1>2. PICK g, fs : g = swap_trailing_nodes(h, l, m) /\ fs = Swapped(es, l, m)
  OBVIOUS
<1> DEFINE other(o) == IF o = l THEN m ELSE IF o = m THEN l ELSE o
<1>3. \A o \in Lists : other(o) \in Lists /\ fs[o] = es[other(o)] /\ other(other(o)) = o
  BY <1>1, <1>2 DEF Swapped, Contents
<1>4. fs \in Contents
  BY <1>1, <1>2 DEF Swapped, Contents
<1>5. /\ g \in Heaps
      /\ \A x \in Addresses : g.next[x] = IF x = m THEN h.next[l]
                                          ELSE IF x = l THEN h.next[m] ELSE h.next[x]
  BY <1>1, <1>2 DEF swap_trailing_nodes, set_next, get_next, Heaps, Addresses
<1>6. \A o \in Lists : g.next[o] = h.next[other(o)]
  BY <1>5 DEF Addresses
<1>7. \A n \in Nodes : n \notin Lists /\ g.next[n] = h.next[n]
  BY <1>5, HeaderAssumption DEF Addresses
<1> HIDE DEF other
<1>8. Disjoint(fs)
  <2>1. ASSUME NEW x \in Lists, NEW y \in Lists, NEW i \in 1..Len(fs[x]),
               NEW j \in 1..Len(fs[y]), fs[x][i] = fs[y][j]
        PROVE  x = y /\ i = j
    <3>1. other(x) = other(y) /\ i = j
      BY <1>1, <1>3, <2>1 DEF Disjoint
    <3>. QED
      BY <1>3, <3>1
  <2>. QED
    BY <2>1 DEF Disjoint
<1>9. Spells(g, fs)
  <2>1. ASSUME NEW o \in Lists, NEW i \in 0..Len(fs[o])
        PROVE  g.next[At(fs, o, i)] = At(fs, o, i + 1)
    <3>1. Len(fs[o]) \in Nat /\ Len(fs[o]) = Len(es[other(o)]) /\ other(o) \in Lists
          /\ fs[o] = es[other(o)]
      BY <1>3, <1>4 DEF Contents
    <3>2. i + 1 # 0 /\ i + 1 \in Int
      BY <3>1
    <3>3. At(fs, o, i + 1) = At(es, other(o), i + 1)
      BY <3>1, <3>2 DEF At, end_node
    <3>4. h.next[At(es, other(o), i)] = At(es, other(o), i + 1)
      BY <1>1, <3>1 DEF Spells
    <3>5. CASE i = 0
      <4>1. 0 \notin 1..Len(fs[o])
        OBVIOUS
      <4>2. At(fs, o, i) = o /\ At(es, other(o), i) = other(o)
        BY <3>1, <3>5, <4>1 DEF At
      <4>. QED
        BY <1>6, <3>3, <3>4, <4>2
    <3>6. CASE i # 0
      <4>1. i \in 1..Len(fs[o])
        BY <3>1, <3>6
      <4>2. At(fs, o, i) = fs[o][i] /\ At(es, other(o), i) = fs[o][i] /\ fs[o][i] \in Nodes
        BY <1>4, <3>1, <4>1 DEF At, Contents
      <4>. QED
        BY <1>7, <3>3, <3>4, <4>2
    <3>. QED
      BY <3>5, <3>6
  <2>. QED
    BY <2>1 DEF Spells
<1>10. Quiet(g, fs)
  <2>1. \A n \in Nodes : Out(fs, n) => Out(es, n)
    BY <1>3 DEF Out
  <2>. QED
    BY <1>1, <1>7, <2>1 DEF Quiet
<1>11. Good(g, fs)
  BY <1>4, <1>5, <1>8, <1>9, <1>10 DEF Good
<1>. QED
  BY <1>2, <1>11

\* The two transfers of priv_swap_cache_last, and the cached nodes it sets.
LEMMA SwapCacheGood ==
  ASSUME CacheLast, NEW h, NEW es, Good(h, es), NEW la, Ends(la, es),
         NEW t \in Lists, NEW o \in Lists, es[t] # <<>>
  PROVE  /\ Good(swap_cache_last(h, la, t, o).heap, Swapped(es, t, o))
         /\ Ends(swap_cache_last(h, la, t, o).last, Swapped(es, t, o))
<1>1. /\ es \in Contents /\ Disjoint(es) /\ la \in [Lists -> Pointers]
      /\ es[t] \in Seq(Nodes) /\ es[o] \in Seq(Nodes)
      /\ \A x \in Lists : la[x] = LastOf(es, x)
  BY DEF Good, Ends, LastOf, Contents
<1>2. PICK nt, no : nt = Len(es[t]) /\ no = Len(es[o])
  OBVIOUS
<1>3. nt \in Nat /\ no \in Nat /\ nt # 0 /\ (no = 0 <=> es[o] = <<>>)
  BY <1>1, <1>2, EmptySeq
<1>4. /\ la[t] = At(es, t, nt) /\ la[o] = At(es, o, no)
      /\ At(es, t, 0) = t /\ At(es, o, 0) = o
  BY <1>1, <1>2, Neighbours DEF LastOf
<1>5. is_empty(h, o) <=> no = 0
  <2>1. PICK z \in 0..no : z = 0 /\ z + 1 = 1
    BY <1>3
  <2>2. /\ h.next[At(es, o, z)] = At(es, o, z + 1)
        /\ At(es, o, z + 1) = end_node(o) <=> z = no
    BY <1>2, Neighbours
  <2>. QED
    BY <1>4, <2>1, <2>2 DEF is_empty, get_next
<1>6. PICK h1 : h1 = transfer_after(h, o, t, la[t])
  OBVIOUS
<1>7. Good(h1, Moved(es, o, 1, t, 1, nt + 1))
  <2>1. PICK z \in 0..no : z = 0 /\ z + 1 = 1
    BY <1>3
  <2>2. z \in 0..nt /\ nt \in z..nt /\ (o = t => z <= z \/ nt <= z)
    BY <1>3, <2>1
  <2>3. Good(transfer_after(h, At(es, o, z), At(es, t, z), At(es, t, nt)),
             Moved(es, o, z + 1, t, z + 1, nt + 1))
    BY <1>2, <2>2, TransferGood
  <2>. QED
    BY <1>4, <1>6, <2>1, <2>3
<1>8. CASE o = t
  <2>1. Moved(es, o, 1, t, 1, nt + 1) = es
    <3>1. PICK K, J : K = 1 /\ J = nt + 1
      OBVIOUS
    <3>2. K \in 1..(Len(es[t]) + 1) /\ J \in K..(Len(es[t]) + 1)
      BY <1>2, <1>3, <3>1
    <3>3. Moved(es, t, K, t, K, J) = es
      BY <1>1, <3>2, MoveNowhere
    <3>. QED
      BY <1>8, <3>1, <3>3
  <2>2. Swapped(es, t, o) = es
    BY <1>1, <1>8 DEF Swapped, Contents
  <2>3. transfer_after(h1, t, la[t], la[o]) = h1
    BY <1>8 DEF transfer_after
  <2>4. swap_cache_last(h, la, t, o)
          = [heap |-> h1, last |-> [la EXCEPT ![o] = la[t], ![t] = la[o]]]
    BY <1>2, <1>3, <1>5, <1>6, <1>8, <2>3 DEF swap_cache_last
  <2>5. [la EXCEPT ![o] = la[t], ![t] = la[o]] = la
    BY <1>1, <1>8
  <2>6. /\ swap_cache_last(h, la, t, o).heap = h1
        /\ swap_cache_last(h, la, t, o).last = la
    BY <2>4, <2>5
  <2>7. Good(h1, es) /\ Ends(la, es)
    BY <1>7, <2>1
  <2>. QED
    BY <2>2, <2>6, <2>7
<1>9. CASE o # t
  <2>1. PICK fs, e1 : fs = Swapped(es, t, o) /\ e1 = Moved(es, o, 1, t, 1, nt + 1)
    OBVIOUS
  <2>2. e1 = [es EXCEPT ![t] = <<>>, ![o] = es[t] \o es[o]]
    BY <1>1, <1>2, <1>9, <2>1, MoveAllFront
  <2>3. /\ fs \in Contents /\ fs[t] = es[o] /\ fs[o] = es[t]
        /\ \A x \in Lists \ {t, o} : fs[x] = es[x]
    BY <1>1, <1>9, <2>1 DEF Swapped, Contents
  <2>4. /\ LastOf(fs, o) = la[t]
        /\ LastOf(fs, t) = IF no = 0 THEN t ELSE la[o]
        /\ \A x \in Lists \ {t, o} : LastOf(fs, x) = la[x]
    <3>1. LastOf(fs, o) = la[t]
      <4>1. nt \in 1..nt
        BY <1>3
      <4>. QED
        BY <1>2, <1>4, <2>3, <4>1 DEF LastOf, At
    <3>2. CASE no = 0
      <4>1. 0 \notin 1..0
        OBVIOUS
      <4>2. LastOf(fs, t) = t
        BY <1>2, <2>3, <3>2, <4>1 DEF LastOf, At
      <4>. QED
        BY <1>1, <2>3, <3>1, <3>2, <4>2 DEF LastOf, At
    <3>3. CASE no # 0
      <4>1. no \in 1..no
        BY <1>3, <3>3
      <4>2. LastOf(fs, t) = la[o]
        BY <1>2, <1>4, <2>3, <4>1 DEF LastOf, At
      <4>. QED
        BY <1>1, <2>3, <3>1, <3>3, <4>2 DEF LastOf, At
    <3>. QED
      BY <3>2, <3>3
  <2>5. CASE no = 0
    <3>1. e1 = fs
      <4>1. es[t] \o es[o] = es[t]
        BY <1>1, <1>3, <2>5, ConcatEmptySeq
      <4>2. e1 = [es EXCEPT ![t] = <<>>, ![o] = es[t]]
        BY <2>2, <4>1
      <4>3. fs = [es EXCEPT ![t] = <<>>, ![o] = es[t]]
        BY <1>3, <2>1, <2>5 DEF Swapped
      <4>. QED
        BY <4>2, <4>3
    <3>2. swap_cache_last(h, la, t, o) = [heap |-> h1, last |-> [la EXCEPT ![o] = la[t], ![t] = t]]
      BY <1>5, <1>6, <2>5 DEF swap_cache_last
    <3>3. PICK lb : lb = [la EXCEPT ![o] = la[t], ![t] = t]
      OBVIOUS
    <3>4. t \in Pointers
      BY DEF Pointers, Addresses
    <3>5. lb \in [Lists -> Pointers] /\ \A x \in Lists : lb[x] = LastOf(fs, x)
      BY <1>1, <1>9, <2>4, <2>5, <3>3, <3>4
    <3>6. Ends(lb, fs)
      BY <3>5 DEF Ends, LastOf
    <3>. QED
      BY <1>7, <2>1, <3>1, <3>2, <3>3, <3>6
  <2>6. CASE no # 0
    <3>1. /\ e1 \in Contents /\ Good(h1, e1) /\ e1[t] = <<>> /\ e1[o] = es[t] \o es[o]
          /\ At(e1, t, 0) = t
      <4>1. e1 \in Contents /\ Good(h1, e1)
        BY <1>7, <2>1 DEF Good
      <4>2. e1[t] = <<>> /\ e1[o] = es[t] \o es[o]
        BY <1>1, <1>9, <2>2 DEF Contents
      <4>. QED
        BY <4>1, <4>2, Neighbours
    <3>2. PICK n1 : n1 = Len(e1[o])
      OBVIOUS
    <3> DEFINE a == es[t]
               b == es[o]
               s == e1[o]
    <3>0. Joined(s, a, b) /\ Len(a) = nt /\ Len(b) = no
      BY <1>1, <1>2, <3>1 DEF Joined
    <3> HIDE DEF a, b, s
    <3>12. /\ Len(a) \in 0..Len(s) /\ Len(s) = Len(a) + Len(b)
           /\ \A x \in 1..Len(a) : s[x] = a[x]
           /\ \A x \in 1..Len(b) : s[Len(a) + x] = b[x]
      BY <3>0, TailOf
    <3>3. nt \in 0..n1 /\ n1 = nt + no /\ n1 \in nt..n1
      <4>1. n1 = Len(s)
        BY <3>2 DEF s
      <4>. QED
        BY <1>3, <3>0, <3>12, <4>1
    <3>4. la[t] = At(e1, o, nt) /\ la[o] = At(e1, o, n1)
      <4>1. /\ \A x \in 1..nt : e1[o][x] = es[t][x]
            /\ \A x \in 1..no : e1[o][nt + x] = es[o][x]
        BY <3>0, <3>12 DEF a, b, s
      <4>2. nt \in 1..nt /\ no \in 1..no /\ nt \in 1..n1 /\ n1 \in 1..n1 /\ n1 = nt + no
        BY <1>3, <2>6, <3>3
      <4>3. la[t] = es[t][nt] /\ la[o] = es[o][no]
        BY <1>2, <1>4, <4>2 DEF At
      <4>. QED
        BY <3>2, <4>1, <4>2, <4>3 DEF At
    <3>5. PICK h2 : h2 = transfer_after(h1, t, la[t], la[o])
      OBVIOUS
    <3>6. Good(h2, Moved(e1, t, 1, o, nt + 1, n1 + 1))
      <4>1. PICK z \in 0..Len(e1[t]) : z = 0 /\ z + 1 = 1
        BY <3>1, EmptySeq
      <4>2. Good(transfer_after(h1, At(e1, t, z), At(e1, o, nt), At(e1, o, n1)),
                 Moved(e1, t, z + 1, o, nt + 1, n1 + 1))
        BY <1>9, <3>1, <3>2, <3>3, TransferGood
      <4>. QED
        BY <3>1, <3>4, <3>5, <4>1, <4>2
    <3>7. Moved(e1, t, 1, o, nt + 1, n1 + 1) = fs
      <4>1. Moved(e1, t, 1, o, Len(es[t]) + 1, Len(e1[o]) + 1)
              = [e1 EXCEPT ![o] = es[t], ![t] = es[o]]
        <5>1. Tailing(e1, t, o, a, b)
          BY <1>9, <3>0, <3>1 DEF Tailing, s
        <5>2. Moved(e1, t, 1, o, Len(a) + 1, Len(e1[o]) + 1) = [e1 EXCEPT ![o] = a, ![t] = b]
          BY <5>1, MoveTail
        <5>. QED
          BY <5>2 DEF a, b
      <4>2. [e1 EXCEPT ![o] = es[t], ![t] = es[o]] = fs
        BY <1>1, <1>9, <2>1, <2>2 DEF Swapped, Contents
      <4>. QED
        BY <1>2, <3>2, <4>1, <4>2
    <3>8. swap_cache_last(h, la, t, o)
            = [heap |-> h2, last |-> [la EXCEPT ![o] = la[t], ![t] = la[o]]]
      BY <1>5, <1>6, <2>6, <3>5 DEF swap_cache_last
    <3>9. PICK lb : lb = [la EXCEPT ![o] = la[t], ![t] = la[o]]
      OBVIOUS
    <3>10. lb \in [Lists -> Pointers] /\ \A x \in Lists : lb[x] = LastOf(fs, x)
      BY <1>1, <1>9, <2>4, <2>6, <3>9
    <3>11. Ends(lb, fs)
      BY <3>10 DEF Ends, LastOf
    <3>. QED
      BY <2>1, <3>6, <3>7, <3>8, <3>9, <3>11
  <2>. QED
    BY <2>5, <2>6
<1>. QED
  BY <1>8, <1>9

\* A swap of linear lists or of lists with cached last nodes.
LEMMA SwappedGood ==
  ASSUME Linear \/ CacheLast, NEW h, NEW es, Good(h, es), NEW la, Ends(la, es),
         NEW l \in Lists, NEW m \in Lists
  PROVE  /\ Good(swapped(h, la, l, m).heap, Swapped(es, l, m))
         /\ Ends(swapped(h, la, l, m).last, Swapped(es, l, m))
<1>1. es \in Contents
  BY DEF Good
<1>2. ASSUME NEW o \in Lists
      PROVE  is_empty(h, o) <=> es[o] = <<>>
  <2>1. es[o] \in Seq(Nodes)
    BY <1>1 DEF Contents
  <2>2. PICK z \in 0..Len(es[o]) : z = 0 /\ z + 1 = 1
    BY <2>1
  <2>3. /\ h.next[At(es, o, z)] = At(es, o, z + 1)
        /\ At(es, o, z + 1) = end_node(o) <=> z = Len(es[o])
        /\ At(es, o, 0) = o
    BY Neighbours
  <2>. QED
    BY <2>1, <2>2, <2>3, EmptySeq DEF is_empty, get_next
<1>3. CASE ~CacheLast
  <2>1. Good(swap_trailing_nodes(h, l, m), Swapped(es, l, m))
    BY <1>3, TrailingGood
  <2>2. /\ swapped(h, la, l, m).heap = swap_trailing_nodes(h, l, m)
        /\ swapped(h, la, l, m).last = la
    BY <1>3 DEF swapped
  <2>3. Ends(la, Swapped(es, l, m))
    BY <1>3 DEF Ends
  <2>. QED
    BY <2>1, <2>2, <2>3
<1>4. CASE CacheLast /\ ~is_empty(h, l)
  BY <1>2, <1>4, SwapCacheGood DEF swapped
<1>5. CASE CacheLast /\ is_empty(h, l) /\ ~is_empty(h, m)
  <2>1. Swapped(es, l, m) = Swapped(es, m, l)
    BY <1>1 DEF Swapped, Contents
  <2>2. swapped(h, la, l, m) = swap_cache_last(h, la, m, l)
    BY <1>5 DEF swapped
  <2>3. es[m] # <<>>
    BY <1>2, <1>5
  <2>4. /\ Good(swap_cache_last(h, la, m, l).heap, Swapped(es, m, l))
        /\ Ends(swap_cache_last(h, la, m, l).last, Swapped(es, m, l))
    BY <1>5, <2>3, SwapCacheGood
  <2>. QED
    BY <2>1, <2>2, <2>4
<1>6. CASE CacheLast /\ is_empty(h, l) /\ is_empty(h, m)
  <2>1. Swapped(es, l, m) = es
    BY <1>1, <1>2, <1>6 DEF Swapped, Contents
  <2>2. swapped(h, la, l, m).heap = h /\ swapped(h, la, l, m).last = la
    BY <1>6 DEF swapped
  <2>. QED
    BY <2>1, <2>2
<1>. QED
  BY <1>3, <1>4, <1>5, <1>6

\* The exchange of two lists.
LEMMA SwapSound ==
  ASSUME Sound(heap, last, elems, size), NEW l \in Lists, NEW m \in Lists, swap(l, m)
  PROVE  Sound(heap', last', elems', size')
<1>1. /\ Good(heap, elems) /\ elems \in Contents
      /\ Ends(last, elems) /\ Sized(size, Lengths(elems))
  BY EndIs
<1>2. /\ Linear \/ CacheLast
      /\ heap' = swapped(heap, last, l, m).heap
      /\ last' = swapped(heap, last, l, m).last
      /\ size' = swap_size(size, l, m)
      /\ elems' = Swapped(elems, l, m)
  BY DEF swap, SwapLists, Swapped
<1>3. Good(heap', elems') /\ Ends(last', elems')
  BY <1>1, <1>2, SwappedGood
<1>4. Sized(size', Lengths(elems'))
  BY <1>1, <1>2, SwapSizes DEF Swapped
<1>. QED
  BY <1>3, <1>4 DEF Sound

\* The transfer of a whole list.
LEMMA SpliceAllSound ==
  ASSUME Sound(heap, last, elems, size), NEW l \in Lists, NEW m \in Lists,
         NEW p \in EndPositions(l), splice_all(l, p - 1, m)
  PROVE  Sound(heap', last', elems', size')
<1>0. /\ Good(heap, elems) /\ elems \in Contents /\ Disjoint(elems)
      /\ Ends(last, elems) /\ Sized(size, Lengths(elems))
      /\ Len(elems[l]) \in Nat /\ Len(elems[m]) \in Nat
      /\ elems[l] \in Seq(Nodes) /\ elems[m] \in Seq(Nodes)
      /\ empty(l) <=> Len(elems[l]) = 0
      /\ empty(m) <=> Len(elems[m]) = 0
  BY EndIs
<1>1. PICK k \in 0..Len(elems[l]) : k = p - 1
  BY <1>0 DEF EndPositions
<1>2. CacheLast /\ l # m /\ splice_all_to(l, k, m, last[m])
  BY <1>1 DEF splice_all, splice_all_to
<1>3. PICK n, K, I, J : n = Len(elems[m]) /\ K = k + 1 /\ I = 1 /\ J = n + 1
  OBVIOUS
<1>4. /\ K \in 1..(Len(elems[l]) + 1) /\ I \in 1..(Len(elems[m]) + 1)
      /\ J \in I..(Len(elems[m]) + 1) /\ J - I = Len(elems[m])
  BY <1>0, <1>3
<1>5. elems' = Moved(elems, l, K, m, I, J)
  BY <1>2, <1>3, MoveIs DEF splice_all_to
<1>6. CASE empty(m)
  <2>1. heap' = heap /\ last' = last /\ size' = size
    BY <1>2, <1>6 DEF splice_all_to
  <2>2. I = J
    BY <1>0, <1>3, <1>6
  <2>3. elems' = elems
    BY <1>0, <1>4, <1>5, <2>2, MoveNowhere
  <2>. QED
    BY <2>1, <2>3
<1>7. CASE ~empty(m) /\ Linear /\ empty(l)
  <2>1. /\ heap' = swapped(heap, last, l, m).heap
        /\ last' = swapped(heap, last, l, m).last
        /\ size' = swap_size(size, l, m)
    BY <1>2, <1>7 DEF splice_all_to
  <2>2. elems' = Swapped(elems, l, m)
    <3>1. K = 1 /\ elems[l] = <<>>
      BY <1>0, <1>3, <1>7, EmptySeq
    <3>2. elems' = [elems EXCEPT ![m] = <<>>, ![l] = elems[m] \o elems[l]]
      <4>1. Moved(elems, l, 1, m, 1, Len(elems[m]) + 1)
              = [elems EXCEPT ![m] = <<>>, ![l] = elems[m] \o elems[l]]
        BY <1>0, <1>2, MoveAllFront
      <4>. QED
        BY <1>3, <1>5, <3>1, <4>1
    <3>3. elems[m] \o elems[l] = elems[m]
      BY <1>0, <3>1, ConcatEmptySeq
    <3>. QED
      BY <1>0, <1>2, <3>1, <3>2, <3>3 DEF Swapped, Contents
  <2>3. Good(heap', elems') /\ Ends(last', elems')
    BY <1>0, <1>7, <2>1, <2>2, SwappedGood
  <2>4. Sized(size', Lengths(elems'))
    BY <1>0, <2>1, <2>2, SwapSizes DEF Swapped
  <2>. QED
    BY <2>3, <2>4 DEF Sound
<1>8. CASE ~empty(m) /\ ~(Linear /\ empty(l))
  <2>0. n \in 1..Len(elems[m]) /\ n \in 0..Len(elems[m])
    BY <1>0, <1>3, <1>8
  <2>1. PICK z \in 0..Len(elems[m]) : z = 0 /\ z + 1 = I /\ n \in (z + 1)..Len(elems[m])
                                      /\ n \in z..Len(elems[m])
    BY <1>0, <1>3, <2>0
  <2>2. /\ At(elems, m, z) = m /\ last[m] = At(elems, m, n)
        /\ get_next(heap, At(elems, l, k)) = end_node(l) <=> k = Len(elems[l])
    <3>1. At(elems, m, z) = m
      BY <1>0, <2>1, Neighbours
    <3>2. last[m] = At(elems, m, n)
      BY <1>0, <1>2, <1>3 DEF Ends
    <3>3. /\ heap.next[At(elems, l, k)] = At(elems, l, k + 1)
          /\ At(elems, l, k + 1) = end_node(l) <=> k = Len(elems[l])
      BY <1>0, Neighbours
    <3>. QED
      BY <3>1, <3>2, <3>3 DEF get_next
  <2>3. /\ heap' = transfer_after(heap, At(elems, l, k), At(elems, m, z), At(elems, m, n))
        /\ last' = IF k = Len(elems[l])
                   THEN set_last_node(set_last_node(last, m, m), l, At(elems, m, n))
                   ELSE set_last_node(last, m, m)
        /\ size' = set_size(increase(size, l, size[m]), m, 0)
    BY <1>2, <1>8, <2>2 DEF splice_all_to, at
  <2>4. elems' = Moved(elems, l, k + 1, m, z + 1, n + 1)
    BY <1>3, <1>5, <2>1
  <2>5. Good(heap', elems')
    BY <1>0, <1>2, <2>1, <2>3, <2>4, TransferGood
  <2>6. Ends(last', elems')
    <3>1. Ends(Recached(Recached(last, l, At(elems, m, n), k = Len(elems[l])),
                        m, At(elems, m, z), l # m /\ n = Len(elems[m])), elems')
      BY <1>0, <1>2, <2>1, <2>4, EndsMoved
    <3>2. last \in [Lists -> Pointers]
      BY <1>0 DEF Ends
    <3>3. last' = Recached(Recached(last, l, At(elems, m, n), k = Len(elems[l])),
                           m, At(elems, m, z), l # m /\ n = Len(elems[m]))
      BY <1>2, <1>3, <2>2, <2>3, <3>2 DEF Recached, set_last_node
    <3>. QED
      BY <3>1, <3>3
  <2>7. Sized(size', Lengths(elems'))
    BY <1>0, <1>2, <1>4, <1>5, <2>3, TakeAllSizes
  <2>. QED
    BY <2>5, <2>6, <2>7 DEF Sound
<1>. QED
  BY <1>6, <1>7, <1>8

\* The transfer of a range, between two lists or inside one.
LEMMA SpliceRangeSound ==
  ASSUME Sound(heap, last, elems, size), NEW l \in Lists, NEW m \in Lists,
         NEW p \in EndPositions(l), NEW q \in Positions(m), NEW s \in EndPositions(m),
         q <= s, ~recedes(l, p - 1, m, q - 1, s - 1),
         splice_range(l, p - 1, m, q - 1, s - 1)
  PROVE  Sound(heap', last', elems', size')
<1>0. /\ Good(heap, elems) /\ elems \in Contents /\ Disjoint(elems)
      /\ Ends(last, elems) /\ Sized(size, Lengths(elems))
      /\ Len(elems[l]) \in Nat /\ Len(elems[m]) \in Nat
      /\ CacheLast => \A k \in 0..Len(elems[l]) :
                        last[l] = At(elems, l, k) <=> k = Len(elems[l])
  BY EndIs
<1>1. PICK k, i, j : k = p - 1 /\ i = q - 1 /\ j = s - 1
  OBVIOUS
<1>2. /\ k \in 0..Len(elems[l]) /\ i \in 0..Len(elems[m]) /\ j \in i..Len(elems[m])
      /\ j \in 0..Len(elems[m]) /\ k + 1 = p /\ i + 1 = q /\ j + 1 = s /\ j - i = s - q
      /\ i \in Int /\ j \in Int /\ k \in Int
      /\ p \in 1..(Len(elems[l]) + 1) /\ q \in 1..(Len(elems[m]) + 1)
      /\ s \in q..(Len(elems[m]) + 1)
  BY <1>0, <1>1 DEF EndPositions, Positions
<1>3. /\ elems' = Moved(elems, l, p, m, q, s) /\ (l = m => p <= q \/ s <= p)
      /\ heap' = transfer_after(heap, At(elems, l, k), At(elems, m, i), At(elems, m, j))
      /\ size' = decrease(increase(size, l, j - i), m, j - i)
      /\ last' = IF At(elems, m, i) = At(elems, m, j) THEN last
                 ELSE IF l # m /\ get_next(heap, At(elems, m, j)) = end_node(m)
                 THEN set_last_node(IF last[l] = At(elems, l, k)
                                    THEN set_last_node(last, l, At(elems, m, j)) ELSE last,
                                    m, At(elems, m, i))
                 ELSE IF last[l] = At(elems, l, k)
                 THEN set_last_node(last, l, At(elems, m, j)) ELSE last
  <2>1. splice_range(l, k, m, i, j)
    BY <1>1
  <2>2. Move(l, p, m, q, s)
    BY <1>2, <2>1 DEF splice_range
  <2>. QED
    BY <2>1, <2>2, MoveIs DEF splice_range, at
<1>4. l = m => k <= i \/ j <= k
  BY <1>2, <1>3
<1>5. elems' = Moved(elems, l, k + 1, m, i + 1, j + 1)
  BY <1>2, <1>3
<1>6. Good(heap', elems')
  BY <1>0, <1>2, <1>3, <1>4, <1>5, TransferGood
<1>7. Sized(size', Lengths(elems'))
  <2>1. PICK n : n = s - q
    OBVIOUS
  <2>2. Sized(decrease(increase(size, l, n), m, n), Lengths(Moved(elems, l, p, m, q, s)))
    BY <1>0, <1>2, <1>3, <2>1, Recount
  <2>. QED
    BY <1>2, <1>3, <2>1, <2>2
<1>8. At(elems, m, i) = At(elems, m, j) <=> i = j
  BY <1>0, <1>2, AtInjective
<1>9. Ends(last', elems')
  <2>1. CASE i = j
    <3>1. last' = last
      BY <1>3, <1>8, <2>1
    <3>2. q = s
      BY <1>2, <2>1
    <3>3. elems' = elems
      BY <1>0, <1>2, <1>3, <3>2, MoveNowhere
    <3>. QED
      BY <1>0, <3>1, <3>3
  <2>2. CASE i # j
    <3>1. j \in (i + 1)..Len(elems[m]) /\ i < j
      BY <1>0, <1>2, <2>2
    <3>2. CacheLast => ~(l = m /\ k < i /\ j = Len(elems[m]))
      BY <1>1, <3>1 DEF recedes
    <3>3. Ends(Recached(Recached(last, l, At(elems, m, j), k = Len(elems[l])),
                        m, At(elems, m, i), l # m /\ j = Len(elems[m])), elems')
      BY <1>0, <1>2, <1>4, <1>5, <3>1, <3>2, EndsMoved
    <3>4. get_next(heap, At(elems, m, j)) = end_node(m) <=> j = Len(elems[m])
      BY <1>0, <1>2, Neighbours, SMTT(15) DEF get_next
    <3>5. (IF last[l] = At(elems, l, k) THEN set_last_node(last, l, At(elems, m, j)) ELSE last)
            = Recached(last, l, At(elems, m, j), k = Len(elems[l]))
      BY <1>0, <1>2 DEF Recached, set_last_node
    <3>6. last' = Recached(Recached(last, l, At(elems, m, j), k = Len(elems[l])),
                           m, At(elems, m, i), l # m /\ j = Len(elems[m]))
      BY <1>3, <1>8, <2>2, <3>4, <3>5 DEF Recached, set_last_node
    <3>. QED
      BY <3>3, <3>6
  <2>. QED
    BY <2>1, <2>2
<1>. QED
  BY <1>6, <1>7, <1>9 DEF Sound
-----------------------------------------------------------------------------
\* The chains that a caller passes.
LEMMA RangesAreSequences == \A r \in Ranges : r \in Seq(Nodes)
<1> SUFFICES ASSUME NEW r \in Ranges
             PROVE  r \in Seq(Nodes)
  OBVIOUS
<1>1. CASE r = <<>>
  BY <1>1, EmptySeq
<1>2. ASSUME NEW a \in Nodes, NEW b \in Nodes
      PROVE  <<a>> \in Seq(Nodes) /\ <<a, b>> \in Seq(Nodes)
  OBVIOUS
<1>3. CASE r # <<>>
  <2>1. (\E a \in Nodes : r = <<a>>) \/ (\E a, b \in Nodes : r = <<a, b>>)
    BY <1>3 DEF Ranges
  <2>. QED
    BY <1>2, <2>1
<1>. QED
  BY <1>1, <1>3

\* Every step keeps the invariant.
LEMMA StepSound == IInv /\ [Next]_vars => IInv'
<1> SUFFICES ASSUME Sound(heap, last, elems, size), [Next]_vars
             PROVE  Sound(heap', last', elems', size')
  <2>1. (IInv <=> Sound(heap, last, elems, size))'
    BY InvariantIsSound, PTL
  <2>2. IInv' <=> Sound(heap', last', elems', size')
    BY <2>1
  <2>. QED
    BY <2>2, InvariantIsSound
<1>1. CASE InsertNext
  <2>1. ASSUME NEW l \in Lists, NEW n \in Nodes,
               \/ push_front(l, n)
               \/ push_back(l, n)
               \/ \E k \in EndPositions(l) : insert_after(l, k - 1, n)
        PROVE  Sound(heap', last', elems', size')
    BY <2>1, InsertSound
  <2>2. ASSUME NEW l \in Lists, NEW k \in EndPositions(l), NEW r \in Ranges,
               incorporate_range(l, k - 1, r)
        PROVE  Sound(heap', last', elems', size')
    BY <2>2, IncorporateSound, RangesAreSequences
  <2>. QED
    BY <1>1, <2>1, <2>2 DEF InsertNext
<1>2. CASE EraseNext
  <2>1. ASSUME NEW l \in Lists, pop_front(l) \/ \E k \in Positions(l) : erase_after(l, k - 1)
        PROVE  Sound(heap', last', elems', size')
    BY <2>1, EraseSound
  <2>2. ASSUME NEW l \in Lists, clear(l)
        PROVE  Sound(heap', last', elems', size')
    BY <2>2, ClearSound
  <2>3. ASSUME NEW l \in Lists, NEW i \in EndPositions(l), NEW j \in EndPositions(l),
               i <= j, erase_unwalked(l, i - 1, j)
        PROVE  Sound(heap', last', elems', size')
    BY <2>3, EraseUnwalkedSound
  <2>. QED
    BY <1>2, <2>1, <2>2, <2>3 DEF EraseNext
<1>3. CASE TransferNext
  <2>1. ASSUME NEW l \in Lists, NEW m \in Lists, swap(l, m)
        PROVE  Sound(heap', last', elems', size')
    BY <2>1, SwapSound
  <2>2. ASSUME NEW l \in Lists, NEW m \in Lists, NEW k \in EndPositions(l),
               splice_all(l, k - 1, m)
        PROVE  Sound(heap', last', elems', size')
    BY <2>2, SpliceAllSound
  <2>3. ASSUME NEW l \in Lists, NEW m \in Lists, NEW k \in EndPositions(l),
               NEW i \in Positions(m), NEW j \in EndPositions(m), i <= j,
               ~recedes(l, k - 1, m, i - 1, j - 1), splice_range(l, k - 1, m, i - 1, j - 1)
        PROVE  Sound(heap', last', elems', size')
    BY <2>3, SpliceRangeSound
  <2>. QED
    BY <1>3, <2>1, <2>2, <2>3 DEF TransferNext
<1>4. CASE UNCHANGED vars
  BY <1>4 DEF vars
<1>. QED
  BY <1>1, <1>2, <1>3, <1>4 DEF Next

(* The inductive invariant holds in every reachable state.                 *)
THEOREM Invariant == Spec => []IInv
<1>. QED
  BY InitSound, StepSound, PTL DEF Spec

(* No operation leaves a pointer to something that is no node, or a count  *)
(* that size_type does not hold.                                           *)
THEOREM TypeCorrect == Spec => []TypeOK
<1>1. IInv => TypeOK
  BY DEF IInv
<1>. QED
  BY <1>1, Invariant, PTL

(* Whatever was inserted, taken in as a chain, erased, swapped or spliced, *)
(* the next_ pointers of every list go through the elements the callers    *)
(* put there, in their order, and no element is in two places.             *)
THEOREM ListsAreRepresented == Spec => []Represented
<1>1. IInv => Represented
  BY DEF IInv
<1>. QED
  BY <1>1, Invariant, PTL

(* After every operation the cached node of a list with cache_last is its  *)
(* last element, or its header if it is empty: the next push_back goes to  *)
(* the end.  SList leaves out the splice in which the code breaks this     *)
(* (recedes).                                                              *)
THEOREM LastStaysCached == Spec => []LastIsCached
<1>1. IInv => LastIsCached
  BY DEF IInv
<1>. QED
  BY <1>1, Invariant, PTL

(* is_linked() of a safe_link or auto_unlink hook is right, but for the    *)
(* last element of a linear list, whose link is null.                      *)
THEOREM HooksAreRight == Spec => []HooksTellMembership
<1>1. IInv => HooksTellMembership
  BY DEF IInv
<1>. QED
  BY <1>1, Invariant, PTL

(* The counter of a list is the number of its elements, modulo the width   *)
(* of size_type, through every transfer between two lists.                 *)
THEOREM SizesAreRight == Spec => []SizeCounts
<1>1. IInv => SizeCounts
  BY DEF IInv
<1>. QED
  BY <1>1, Invariant, PTL
-----------------------------------------------------------------------------
(* The promise kept: what the pointers spell is edited as AbstractList     *)
(* says.                                                                   *)

\* Pointers spell one sequence per list only.
LEMMA OneSpelling ==
  ASSUME NEW h, NEW es \in Contents, NEW fs \in Contents, Spells(h, es), Spells(h, fs)
  PROVE  es = fs
<1>1. ASSUME NEW l \in Lists, NEW i \in Nat, i <= Len(es[l]) + 1, i <= Len(fs[l]) + 1
      PROVE  At(es, l, i) = At(fs, l, i)
  <2> DEFINE T == {x \in Nat : /\ x <= Len(es[l]) + 1 /\ x <= Len(fs[l]) + 1
                               /\ At(es, l, x) # At(fs, l, x)}
  <2> SUFFICES ASSUME T # {}
               PROVE  FALSE
    BY <1>1
  <2>1. PICK x \in T : \A y \in T : x <= y
    BY LeastElement
  <2>2. At(es, l, 0) = l /\ At(fs, l, 0) = l
    <3>1. 0 \notin 1..Len(es[l]) /\ 0 \notin 1..Len(fs[l])
      BY DEF Contents
    <3>. QED
      BY <3>1 DEF At
  <2>3. x \in Nat /\ x # 0
    BY <2>2
  <2>4. PICK y \in Nat : y = x - 1 /\ y + 1 = x
    BY <2>3
  <2>5. y \in 0..Len(es[l]) /\ y \in 0..Len(fs[l]) /\ y \notin T
    BY <2>1, <2>4 DEF Contents
  <2>6. At(es, l, y) = At(fs, l, y)
    BY <2>5
  <2>7. At(es, l, y + 1) = At(fs, l, y + 1)
    BY <2>5, <2>6 DEF Spells
  <2>. QED
    BY <2>4, <2>7
<1>2. ASSUME NEW l \in Lists
      PROVE  Len(es[l]) = Len(fs[l])
  <2>1. Len(es[l]) \in Nat /\ Len(fs[l]) \in Nat
    BY DEF Contents
  <2>2. CASE Len(es[l]) < Len(fs[l])
    <3>1. PICK x \in 1..Len(fs[l]) : x = Len(es[l]) + 1
      BY <2>1, <2>2
    <3>2. At(es, l, x) = end_node(l) /\ At(fs, l, x) \in Nodes
      BY <2>1, <3>1, AtNode
    <3>3. At(es, l, x) = At(fs, l, x)
      BY <1>1, <2>1, <3>1
    <3>. QED
      BY <3>2, <3>3, HeaderAssumption DEF end_node
  <2>3. CASE Len(fs[l]) < Len(es[l])
    <3>1. PICK x \in 1..Len(es[l]) : x = Len(fs[l]) + 1
      BY <2>1, <2>3
    <3>2. At(fs, l, x) = end_node(l) /\ At(es, l, x) \in Nodes
      BY <2>1, <3>1, AtNode
    <3>3. At(es, l, x) = At(fs, l, x)
      BY <1>1, <2>1, <3>1
    <3>. QED
      BY <3>2, <3>3, HeaderAssumption DEF end_node
  <2>. QED
    BY <2>1, <2>2, <2>3
<1>3. ASSUME NEW l \in Lists
      PROVE  es[l] = fs[l]
  <2>1. es[l] \in Seq(Nodes) /\ fs[l] \in Seq(Nodes) /\ Len(es[l]) \in Nat
    BY DEF Contents
  <2>2. ASSUME NEW i \in 1..Len(es[l])
        PROVE  es[l][i] = fs[l][i]
    <3>1. At(es, l, i) = At(fs, l, i) /\ i \in 1..Len(fs[l])
      BY <1>1, <1>2, <2>1
    <3>. QED
      BY <3>1 DEF At
  <2>. QED
    BY <1>2, <2>1, <2>2, SeqEqual
<1>. QED
  BY <1>3 DEF Contents

\* The sequences that the pointers of h spell.
Spelled(h) == CHOOSE es \in Contents : Spells(h, es)

\* And they are the sequences of the callers where those are spelled.
LEMMA SpelledIs ==
  ASSUME NEW h, NEW es \in Contents, Spells(h, es)
  PROVE  Spelled(h) = es
<1>1. Spelled(h) \in Contents /\ Spells(h, Spelled(h))
  BY DEF Spelled
<1>. QED
  BY <1>1, OneSpelling

\* Every operation is an edit of the abstract lists, or changes nothing.
LEMMA StepPromised ==
  ASSUME elems \in Contents, [Next]_vars
  PROVE  [ANext]_elems
<1>0. \A l \in Lists : elems[l] \in Seq(Nodes) /\ Len(elems[l]) \in Nat
  BY DEF Contents
<1>1. CASE InsertNext
  <2>1. ASSUME NEW l \in Lists, NEW n \in Nodes,
               \/ push_front(l, n)
               \/ push_back(l, n)
               \/ \E p \in EndPositions(l) : insert_after(l, p - 1, n)
        PROVE  [ANext]_elems
    <3>1. 1 \in EndPositions(l) /\ Len(elems[l]) + 1 \in EndPositions(l)
      BY <1>0 DEF EndPositions
    <3>2. \A p \in EndPositions(l) : (p - 1) + 1 = p
      BY <1>0 DEF EndPositions
    <3>3. \E k \in EndPositions(l) : Insert(l, k, n)
      BY <2>1, <3>1, <3>2 DEF push_back, push_front, insert_after
    <3>. QED
      BY <3>3 DEF ANext
  <2>2. ASSUME NEW l \in Lists, NEW p \in EndPositions(l), NEW r \in Seq(Nodes),
               incorporate_range(l, p - 1, r)
        PROVE  [ANext]_elems
    <3>1. (p - 1) + 1 = p /\ p \in 1..(Len(elems[l]) + 1)
      BY <1>0 DEF EndPositions
    <3>2. InsertRange(l, p, r)
      BY <2>2, <3>1 DEF incorporate_range
    <3>3. Pasted(elems', elems, l, p, r)
      BY <3>1, <3>2, PastePastes DEF InsertRange
    <3>4. /\ elems'[l] \in Seq(Nodes) /\ Len(elems'[l]) = Len(elems[l]) + Len(r)
          /\ Len(r) \in Nat /\ Len(elems[l]) \in Nat
      BY <1>0, <3>3 DEF Pasted, Contents
    <3>5. PICK j : j = p + Len(r)
      OBVIOUS
    <3>6. /\ p \in 1..(Len(elems'[l]) + 1) /\ j \in p..(Len(elems'[l]) + 1)
          /\ j \in 1..(Len(elems'[l]) + 1) /\ j - p = Len(r)
      BY <3>1, <3>4, <3>5
    <3>7. PICK s : s = Slice(elems'[l], p, j)
      OBVIOUS
    <3>8. /\ s \in Seq(Nodes) /\ Len(s) = j - p
          /\ \A x \in 1..(j - p) : s[x] = elems'[l][p + x - 1]
      BY <3>4, <3>6, <3>7, SliceProperties
    <3>9. ASSUME NEW x \in 1..Len(r)
          PROVE  s[x] = r[x]
      <4>1. PICK y : y = p + x - 1
        OBVIOUS
      <4>2. /\ y \in 1..(Len(elems[l]) + Len(r)) /\ ~(y < p) /\ y < p + Len(r)
            /\ y - p + 1 = x
        BY <3>1, <3>4, <4>1
      <4>3. elems'[l][y] = r[x]
        BY <3>3, <4>2 DEF Pasted
      <4>. QED
        BY <3>6, <3>8, <4>1, <4>3
    <3>10. s = r
      BY <3>6, <3>8, <3>9, SeqEqual
    <3>. QED
      BY <3>2, <3>6, <3>7, <3>10 DEF ANext
  <2>3. ASSUME NEW l \in Lists, NEW p \in EndPositions(l), NEW r \in Ranges,
               incorporate_range(l, p - 1, r)
        PROVE  [ANext]_elems
    BY <2>2, <2>3, RangesAreSequences
  <2>. QED
    BY <1>1, <2>1, <2>3 DEF InsertNext
<1>2. CASE EraseNext
  <2>1. ASSUME NEW l \in Lists, NEW i \in Positions(l), EraseRange(l, i, i + 1)
        PROVE  [ANext]_elems
    <3>1. i \in EndPositions(l) /\ i + 1 \in EndPositions(l) /\ i <= i + 1
      BY <1>0 DEF Positions, EndPositions
    <3>. QED
      BY <2>1, <3>1, ErasePromised
  <2>2. ASSUME NEW l \in Lists, pop_front(l)
        PROVE  [ANext]_elems
    <3>1. Len(elems[l]) # 0
      BY <1>0, <2>2, EmptySeq DEF pop_front
    <3>2. PICK i \in Positions(l) : i = 1 /\ i + 1 = 2
      BY <1>0, <3>1 DEF Positions
    <3>3. EraseRange(l, i, i + 1)
      BY <2>2, <3>2 DEF pop_front
    <3>. QED
      BY <2>1, <3>3
  <2>3. ASSUME NEW l \in Lists, clear(l)
        PROVE  [ANext]_elems
    BY <2>3 DEF clear, ANext
  <2>4. ASSUME NEW l \in Lists, NEW p \in Positions(l), erase_after(l, p - 1)
        PROVE  [ANext]_elems
    <3>1. (p - 1) + 1 = p /\ (p - 1) + 2 = p + 1
      BY <1>0 DEF Positions
    <3>2. EraseRange(l, p, p + 1)
      BY <2>4, <3>1 DEF erase_after
    <3>. QED
      BY <2>1, <3>2
  <2>5. ASSUME NEW l \in Lists, NEW p \in EndPositions(l), NEW q \in EndPositions(l),
               p <= q, erase_unwalked(l, p - 1, q)
        PROVE  [ANext]_elems
    <3>1. (p - 1) + 1 = p
      BY <1>0 DEF EndPositions
    <3>2. EraseRange(l, p, q)
      BY <2>5, <3>1 DEF erase_unwalked
    <3>. QED
      BY <2>5, <3>2, ErasePromised
  <2>. QED
    BY <1>2, <2>2, <2>3, <2>4, <2>5 DEF EraseNext
<1>3. CASE TransferNext
  <2>1. ASSUME NEW l \in Lists, NEW m \in Lists, swap(l, m)
        PROVE  [ANext]_elems
    BY <2>1 DEF swap, ANext
  <2>2. ASSUME NEW l \in Lists, NEW m \in Lists, NEW p \in EndPositions(l),
               splice_all(l, p - 1, m)
        PROVE  [ANext]_elems
    <3>1. PICK i \in EndPositions(m), j \in EndPositions(m) : i = 1 /\ j = Len(elems[m]) + 1
      BY <1>0 DEF EndPositions
    <3>2. i <= j /\ (p - 1) + 1 = p
      BY <1>0, <3>1 DEF EndPositions
    <3>3. Move(l, p, m, i, j)
      BY <2>2, <3>1, <3>2 DEF splice_all, splice_all_to
    <3>. QED
      BY <3>2, <3>3, MovePromised
  <2>3. ASSUME NEW l \in Lists, NEW m \in Lists, NEW p \in EndPositions(l),
               NEW q \in Positions(m), NEW s \in EndPositions(m), q <= s,
               splice_range(l, p - 1, m, q - 1, s - 1)
        PROVE  [ANext]_elems
    <3>1. /\ (p - 1) + 1 = p /\ (q - 1) + 1 = q /\ (s - 1) + 1 = s
          /\ q \in EndPositions(m)
      BY <1>0 DEF EndPositions, Positions
    <3>2. Move(l, p, m, q, s)
      BY <2>3, <3>1 DEF splice_range
    <3>. QED
      BY <2>3, <3>1, <3>2, MovePromised
  <2>. QED
    BY <1>3, <2>1, <2>2, <2>3 DEF TransferNext
<1>4. CASE UNCHANGED vars
  BY <1>4 DEF vars
<1>. QED
  BY <1>1, <1>2, <1>3, <1>4 DEF Next

\* AbstractList, with what the pointers spell as its lists.
Promise == INSTANCE AbstractList WITH elems <- Spelled(heap)

\* An edit of elems is an edit of what the pointers spell.
LEMMA EditsSpelled ==
  ASSUME Spelled(heap) = elems, Spelled(heap') = elems', [ANext]_elems
  PROVE  [Promise!ANext]_(Spelled(heap))
<1>1. /\ \A l \in Lists : Promise!Positions(l) = Positions(l)
      /\ \A l \in Lists : Promise!EndPositions(l) = EndPositions(l)
      /\ \A n \in Nodes : Promise!Detached(n) <=> Detached(n)
  BY DEF Promise!Positions, Positions, Promise!EndPositions, EndPositions,
         Promise!Detached, Detached
<1>2. /\ \A s, i, j : Promise!Slice(s, i, j) = Slice(s, i, j)
      /\ \A s, i, j : Promise!Cut(s, i, j) = Cut(s, i, j)
      /\ \A s, k, r : Promise!Paste(s, k, r) = Paste(s, k, r)
  BY DEF Promise!Slice, Slice, Promise!Cut, Cut, Promise!Paste, Paste
<1>3. CASE UNCHANGED elems
  BY <1>3
<1>4. ASSUME NEW l \in Lists, NEW k \in EndPositions(l), NEW n \in Nodes, Insert(l, k, n)
      PROVE  Promise!ANext
  <2>1. Promise!Insert(l, k, n)
    BY <1>1, <1>2, <1>4 DEF Promise!Insert, Insert
  <2>. QED
    BY <1>1, <2>1 DEF Promise!ANext
<1>5. ASSUME NEW l \in Lists, NEW i \in Positions(l), NEW j \in EndPositions(l),
             i < j, EraseRange(l, i, j)
      PROVE  Promise!ANext
  <2>1. Promise!EraseRange(l, i, j)
    BY <1>2, <1>5 DEF Promise!EraseRange, EraseRange
  <2>. QED
    BY <1>1, <1>5, <2>1 DEF Promise!ANext
<1>6. ASSUME NEW l \in Lists, NEW m \in Lists, NEW k \in EndPositions(l),
             NEW i \in Positions(m), NEW j \in EndPositions(m), i < j, Move(l, k, m, i, j)
      PROVE  Promise!ANext
  <2>1. Promise!Move(l, k, m, i, j)
    BY <1>2, <1>6 DEF Promise!Move, Move
  <2>. QED
    BY <1>1, <1>6, <2>1 DEF Promise!ANext
<1>7. ASSUME NEW l \in Lists, NEW m \in Lists, SwapLists(l, m)
      PROVE  Promise!ANext
  BY <1>7 DEF Promise!SwapLists, SwapLists, Promise!ANext
<1>8. ASSUME NEW l \in Lists, NEW m \in Lists, TakeOver(l, m)
      PROVE  Promise!ANext
  BY <1>8 DEF Promise!TakeOver, TakeOver, Promise!ANext
<1>9. ASSUME NEW l \in Lists, NEW k \in EndPositions(l), NEW j \in 1..(Len(elems'[l]) + 1),
             InsertRange(l, k, Slice(elems'[l], k, j))
      PROVE  Promise!ANext
  <2>1. PICK r : r = Slice(elems'[l], k, j)
    OBVIOUS
  <2>2. Promise!InsertRange(l, k, r)
    <3>1. InsertRange(l, k, r)
      BY <1>9, <2>1
    <3>2. Promise!Insertable(r) <=> Insertable(r)
      BY DEF Promise!Insertable, Insertable, Promise!Detached, Detached,
             Promise!Positions, Positions
    <3>. QED
      BY <1>2, <3>1, <3>2 DEF Promise!InsertRange, InsertRange
  <2>3. Promise!InsertRange(l, k, Promise!Slice(Spelled(heap')[l], k, j))
    BY <1>2, <2>1, <2>2
  <2>. QED
    BY <1>1, <2>3 DEF Promise!ANext
<1>10. ASSUME NEW l \in Lists, Empty(l)
       PROVE  Promise!ANext
  BY <1>10 DEF Promise!Empty, Empty, Promise!ANext
<1>11. ASSUME NEW l \in Lists, Turn(l)
       PROVE  Promise!ANext
  <2>1. Promise!Turn(l)
    BY <1>11 DEF Promise!Turn, Turn, Promise!Positions, Positions
  <2>. QED
    BY <2>1 DEF Promise!ANext
<1>12. ASSUME NEW l \in Lists, Assign(l, elems'[l])
       PROVE  Promise!ANext
  <2>1. PICK r : r = elems'[l]
    OBVIOUS
  <2>2. Promise!Assign(l, r)
    <3>1. Promise!Insertable(r) <=> Insertable(r)
      BY DEF Promise!Insertable, Insertable, Promise!Detached, Detached,
             Promise!Positions, Positions
    <3>. QED
      BY <1>12, <2>1, <3>1 DEF Promise!Assign, Assign
  <2>. QED
    BY <2>1, <2>2 DEF Promise!ANext
<1>13. ASSUME NEW l \in Lists, NEW k \in Positions(l), Rotate(l, k)
       PROVE  Promise!ANext
  <2>1. Promise!Rotate(l, k)
    BY <1>2, <1>13 DEF Promise!Rotate, Rotate
  <2>. QED
    BY <1>1, <2>1 DEF Promise!ANext
<1>14. ASSUME NEW a \in Nodes, NEW b \in Nodes, Exchange(a, b)
       PROVE  Promise!ANext
  <2>1. Promise!Exchange(a, b)
    BY <1>14 DEF Promise!Exchange, Exchange, Promise!Positions, Positions
  <2>. QED
    BY <2>1 DEF Promise!ANext
<1>15. CASE ANext
  BY <1>4, <1>5, <1>6, <1>7, <1>8, <1>9, <1>10, <1>11, <1>12, <1>13, <1>14, <1>15 DEF ANext
<1>. QED
  BY <1>3, <1>15

(* Seen through its next_ pointers, slist_impl does what its documentation *)
(* says: the sequences they spell start empty, and every operation makes   *)
(* of them what the "Effects" of AbstractList say, or leaves them alone.   *)
THEOREM KeepsItsPromise == Spec => Promise!ASpec
<1>1. IInv => Spelled(heap) = elems
  BY SpelledIs DEF IInv, TypeOK, Represented, Contents
<1>2. Init => Promise!AInit
  <2>1. Init => Spelled(heap) = elems
    BY <1>1, InitSound
  <2>. QED
    BY <2>1 DEF Init, AInit, Promise!AInit
<1>3. IInv /\ IInv' /\ [Next]_vars => [Promise!ANext]_(Spelled(heap))
  <2>3. (IInv => Spelled(heap) = elems)'
    BY <1>1, PTL
  <2>1. IInv' => Spelled(heap') = elems'
    BY <2>3
  <2>2. IInv => elems \in Contents
    BY DEF IInv, TypeOK, Contents
  <2>. QED
    BY <1>1, <2>1, <2>2, StepPromised, EditsSpelled
<1>. QED
  BY <1>2, <1>3, Invariant, PTL DEF Spec, Promise!ASpec
=============================================================================
