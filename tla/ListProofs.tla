----------------------------- MODULE ListProofs -----------------------------
(***************************************************************************)
(* Proofs about List for any number of elements and lists, any link mode   *)
(* and any width of the size counter.                                      *)
(***************************************************************************)
EXTENDS List, ListFacts

\* All heaps of list nodes.
Heaps == [next : [Addresses -> Pointers], prev : [Addresses -> Pointers]]

\* The pointers between the elements of r.
Chained(h, r) == \A x \in 1..(Len(r) - 1) :
                   h.next[r[x]] = r[x + 1] /\ h.prev[r[x + 1]] = r[x]

\* Heap g is h with the chain from b to c joined in between q and p.
Joined(g, h, q, b, c, p) ==
  \A x \in Addresses :
    /\ g.next[x] = IF x = q THEN b ELSE IF x = c THEN p ELSE h.next[x]
    /\ g.prev[x] = IF x = p THEN c ELSE IF x = b THEN q ELSE h.prev[x]

\* Heap g is h with a and e joined, and anything in the nodes in between.
Bridged(g, h, a, e, between) ==
  \A x \in Addresses \ between :
    /\ g.next[x] = IF x = a THEN e ELSE h.next[x]
    /\ g.prev[x] = IF x = e THEN a ELSE h.prev[x]

\* Which node of es the cut has brought to a position.
Shifted(fs, es, l, i, j) ==
  \A m \in Lists : \A x \in 0..(Len(fs[m]) + 1) :
    At(fs, m, x) = At(es, m, IF m = l /\ x >= i THEN x + (j - i) ELSE x)

\* The hooks of the elements that es leaves out are in the default state.
Quiet(h, es) == safemode_or_autounlink =>
                  \A n \in Nodes : Out(es, n) => h.next[n] = Null /\ h.prev[n] = Null

\* Heap h represents the sequences es.
Good(h, es) == /\ h \in Heaps /\ es \in Contents
               /\ Disjoint(es) /\ Spells(h, es) /\ Quiet(h, es)
-----------------------------------------------------------------------------
(* The node at a position, and the one position of a node.                 *)

\* What is at a position.
LEMMA AtNode ==
  ASSUME NEW es \in Contents, NEW l \in Lists, NEW i \in Int
  PROVE  /\ At(es, l, i) \in Addresses
         /\ i \in 1..Len(es[l]) => At(es, l, i) = es[l][i] /\ es[l][i] \in Nodes
         /\ i \notin 1..Len(es[l]) => At(es, l, i) = l
  BY DEF At, Contents, Addresses

\* Different positions have different nodes, headers included.
LEMMA AtInjective ==
  ASSUME NEW es \in Contents, Disjoint(es),
         NEW l \in Lists, NEW m \in Lists,
         NEW i \in Int, NEW j \in Int, At(es, l, i) = At(es, m, j)
  PROVE  /\ l = m
         /\ i \in 1..Len(es[l]) => i = j
         /\ i \notin 1..Len(es[l]) => j \notin 1..Len(es[m])
  BY AtNode, OnePlace, HeaderAssumption
-----------------------------------------------------------------------------
(* Putting a chain of nodes in front of position k of l: if the pointers   *)
(* inside the chain are right and the four at its ends are set, then the   *)
(* heap spells the sequences with the chain pasted in.                     *)

\* The links that pasting leaves spell the sequences it leaves.
LEMMA PasteSpells ==
  ASSUME NEW h \in Heaps, NEW g \in Heaps, NEW es \in Contents,
         Disjoint(es), Spells(h, es),
         NEW l \in Lists, NEW k \in 1..(Len(es[l]) + 1),
         NEW r \in Seq(Nodes), Len(r) >= 1, Fresh(es, r), Chained(h, r),
         NEW p, NEW q, NEW b, NEW c,
         p = At(es, l, k), q = At(es, l, k - 1), b = r[1], c = r[Len(r)],
         Joined(g, h, q, b, c, p),
         NEW fs, Pasted(fs, es, l, k, r)
  PROVE  /\ fs \in Contents /\ Disjoint(fs) /\ Spells(g, fs)
         /\ With(fs, es, r)
<1> DEFINE K == Len(r)
<1>0. /\ \A m \in Lists : Len(es[m]) \in Nat
      /\ K \in Nat /\ K >= 1
      /\ k \in Nat /\ k >= 1 /\ k <= Len(es[l]) + 1
  BY DEF Contents
<1>r. \A x \in 1..K : r[x] \in Nodes /\ r[x] \in Addresses
  BY DEF Addresses
<1>1. /\ fs \in Contents
      /\ \A m \in Lists : m # l => fs[m] = es[m]
      /\ Len(fs[l]) = Len(es[l]) + K
      /\ \A i \in 1..(Len(es[l]) + K) :
           fs[l][i] = IF i < k THEN es[l][i]
                      ELSE IF i < k + K THEN r[i - k + 1] ELSE es[l][i - K]
  BY DEF Pasted
<1>2. \A m \in Lists, i \in Int, x \in 1..K :
        At(es, m, i) \in Addresses /\ At(es, m, i) # r[x]
  <2>1. ASSUME NEW m \in Lists, NEW i \in Int, NEW x \in 1..K
        PROVE  At(es, m, i) \in Addresses /\ At(es, m, i) # r[x]
    <3>1. r[x] \in Nodes /\ r[x] \notin Lists /\ Out(es, r[x])
      BY <1>r, HeaderAssumption DEF Fresh
    <3>2. CASE i \in 1..Len(es[m])
      BY <3>1, <3>2, AtNode, SMTT(15) DEF Out
    <3>3. CASE i \notin 1..Len(es[m])
      BY <3>1, <3>3, AtNode
    <3>. QED
      BY <3>2, <3>3
  <2>. QED
    BY <2>1
<1>3. /\ \A m \in Lists : \A i \in 0..Len(es[m]) :
            At(es, m, i) = q => m = l /\ i = k - 1
      /\ \A m \in Lists : \A i \in 1..(Len(es[m]) + 1) :
            At(es, m, i) = p => m = l /\ i = k
  BY <1>0, AtInjective
<1>4. p \in Addresses /\ q \in Addresses
  BY <1>0, <1>2
<1>x. \A x \in 1..K : p # r[x] /\ q # r[x]
  BY <1>0, <1>2
<1> HIDE DEF K
<1>5. \A m \in Lists :
        /\ Len(fs[m]) \in Nat
        /\ m # l => Len(fs[m]) = Len(es[m])
        /\ m = l => Len(fs[m]) = Len(es[l]) + K
  BY <1>0, <1>1
<1>7. Disjoint(fs) /\ With(fs, es, r)
  BY PasteContents
(* The pointers, link by link.                                             *)
<1>9. \A m \in Lists : \A i \in 0..(Len(fs[m]) + 1) :
        At(fs, m, i) = IF m # l \/ i < k THEN At(es, m, i)
                       ELSE IF i < k + K THEN r[i - k + 1] ELSE At(es, l, i - K)
  <2>1. ASSUME NEW m \in Lists, NEW i \in 0..(Len(fs[m]) + 1)
        PROVE  At(fs, m, i) = IF m # l \/ i < k THEN At(es, m, i)
                              ELSE IF i < k + K THEN r[i - k + 1]
                              ELSE At(es, l, i - K)
    <3>1. CASE m # l
      BY <1>1, <3>1 DEF At
    <3>2. CASE m = l /\ i < k
      BY <1>0, <1>1, <1>5, <3>2 DEF At
    <3>3. CASE m = l /\ i >= k /\ i < k + K
      BY <1>0, <1>1, <1>5, <3>3 DEF At
    <3>4. CASE m = l /\ i >= k + K
      <4>1. /\ ~(i < k) /\ ~(i < k + K) /\ Len(fs[l]) = Len(es[l]) + K
            /\ i \in 1..Len(fs[l]) <=> i - K \in 1..Len(es[l])
            /\ i \in 1..Len(fs[l]) => i \in 1..(Len(es[l]) + K)
        BY <1>0, <1>5, <3>4
      <4>2. i \in 1..Len(fs[l]) => fs[l][i] = es[l][i - K]
        BY <1>1, <4>1
      <4>. QED
        BY <3>4, <4>1, <4>2 DEF At
    <3>. QED
      BY <1>0, <3>1, <3>2, <3>3, <3>4
  <2>. QED
    BY <2>1
<1>10. ASSUME NEW m \in Lists, NEW i \in 0..Len(fs[m])
       PROVE  /\ g.next[At(fs, m, i)] = At(fs, m, i + 1)
              /\ g.prev[At(fs, m, i + 1)] = At(fs, m, i)
  <2>0. /\ At(fs, m, i) = (IF m # l \/ i < k THEN At(es, m, i)
                           ELSE IF i < k + K THEN r[i - k + 1] ELSE At(es, l, i - K))
        /\ At(fs, m, i + 1) = (IF m # l \/ i + 1 < k THEN At(es, m, i + 1)
                               ELSE IF i + 1 < k + K THEN r[i + 1 - k + 1]
                               ELSE At(es, l, i + 1 - K))
    BY <1>0, <1>5, <1>9
  <2>a. \A x \in Addresses :
           /\ g.next[x] = IF x = q THEN r[1]
                          ELSE IF x = r[K] THEN p ELSE h.next[x]
           /\ g.prev[x] = IF x = p THEN r[K]
                          ELSE IF x = r[1] THEN q ELSE h.prev[x]
    BY DEF Joined, K
  <2>1. CASE m # l \/ i + 1 < k
    <3>1. /\ h.next[At(es, m, i)] = At(es, m, i + 1)
          /\ h.prev[At(es, m, i + 1)] = At(es, m, i)
      BY <1>0, <1>5, <2>1 DEF Spells
    <3>2. At(es, m, i) # q /\ At(es, m, i + 1) # p
      BY <1>0, <1>3, <1>5, <2>1
    <3>3. At(fs, m, i) = At(es, m, i) /\ At(fs, m, i + 1) = At(es, m, i + 1)
      BY <1>0, <2>0, <2>1
    <3>. QED
      BY <1>0, <1>2, <2>a, <3>1, <3>2, <3>3
  <2>2. CASE m = l /\ i + 1 = k
    <3>1. At(fs, m, i) = q /\ At(fs, m, i + 1) = r[1]
      BY <1>0, <2>0, <2>2
    <3>2. r[1] \in Addresses /\ r[1] # p
      BY <1>0, <1>r, <1>x
    <3>. QED
      BY <1>4, <2>a, <3>1, <3>2
  <2>3. CASE m = l /\ i >= k /\ i + 1 < k + K
    <3>1. PICK x \in 1..(K - 1) : x = i - k + 1
      BY <1>0, <2>3
    <3>2. At(fs, m, i) = r[x] /\ At(fs, m, i + 1) = r[x + 1]
      BY <1>0, <2>0, <2>3, <3>1
    <3>3. /\ r[x] \in Addresses /\ r[x + 1] \in Addresses
          /\ r[x] # q /\ r[x + 1] # p
      BY <1>0, <1>r, <1>x, <3>1
    <3>4. r[x] # r[K] /\ r[x + 1] # r[1]
      BY <1>0, <3>1 DEF Fresh, K
    <3>5. h.next[r[x]] = r[x + 1] /\ h.prev[r[x + 1]] = r[x]
      BY <3>1 DEF Chained, K
    <3>. QED
      BY <2>a, <3>2, <3>3, <3>4, <3>5
  <2>4. CASE m = l /\ i + 1 = k + K
    <3>1. At(fs, m, i) = r[K] /\ At(fs, m, i + 1) = p
      BY <1>0, <2>0, <2>4
    <3>2. r[K] \in Addresses /\ r[K] # q
      BY <1>0, <1>r, <1>x
    <3>. QED
      BY <1>4, <2>a, <3>1, <3>2
  <2>5. CASE m = l /\ i >= k + K
    <3>1. PICK y \in 1..Len(es[l]) : y = i - K
      BY <1>0, <1>5, <2>5
    <3>2. At(fs, m, i) = At(es, l, y) /\ At(fs, m, i + 1) = At(es, l, y + 1)
      BY <1>0, <2>0, <2>5, <3>1
    <3>3. h.next[At(es, l, y)] = At(es, l, y + 1)
          /\ h.prev[At(es, l, y + 1)] = At(es, l, y)
      BY <1>0, <3>1 DEF Spells
    <3>4. At(es, l, y) # q /\ At(es, l, y + 1) # p
      BY <1>0, <1>3, <2>5, <3>1
    <3>. QED
      BY <1>0, <1>2, <2>a, <3>2, <3>3, <3>4, SMTT(15)
  <2>. QED
    BY <1>0, <2>1, <2>2, <2>3, <2>4, <2>5
<1>. QED
  BY <1>1, <1>7, <1>10 DEF Spells
-----------------------------------------------------------------------------
(* Cutting a range out: if the nodes on both sides of it are joined, then  *)
(* the heap spells the sequences without the range, whatever the operation *)
(* does to the hooks of the elements it takes out.                         *)

\* So do the links that cutting leaves.
LEMMA CutSpells ==
  ASSUME NEW h \in Heaps, NEW g \in Heaps, NEW es \in Contents,
         Disjoint(es), Spells(h, es),
         NEW l \in Lists, NEW i \in 1..(Len(es[l]) + 1), NEW j \in i..(Len(es[l]) + 1),
         NEW a, NEW e, NEW between,
         a = At(es, l, i - 1), e = At(es, l, j),
         between = {es[l][y] : y \in i..(j - 1)},
         Bridged(g, h, a, e, between),
         NEW fs, CutOut(fs, es, l, i, j)
  PROVE  /\ fs \in Contents /\ Disjoint(fs) /\ Spells(g, fs)
         /\ Without(fs, es, between) /\ Shifted(fs, es, l, i, j)
<1> DEFINE D == j - i
           old(m, x) == IF m = l /\ x >= i THEN x + D ELSE x
<1>0. /\ \A m \in Lists : Len(es[m]) \in Nat
      /\ i \in Nat /\ j \in Nat /\ D \in Nat /\ j = i + D
      /\ 1 <= i /\ i <= j /\ j <= Len(es[l]) + 1
  BY DEF Contents
<1>1. /\ fs \in Contents
      /\ \A m \in Lists : m # l => fs[m] = es[m]
      /\ Len(fs[l]) = Len(es[l]) - D
      /\ \A x \in 1..(Len(es[l]) - D) :
           fs[l][x] = IF x < i THEN es[l][x] ELSE es[l][x + D]
  BY DEF CutOut
<1>b. \A n : n \in between <=> \E y \in i..(j - 1) : n = es[l][y]
  OBVIOUS
<1>2. \A m \in Lists, x \in Int :
        (m = l => x < i \/ x >= j) => At(es, m, x) \in Addresses \ between
  <2>1. ASSUME NEW m \in Lists, NEW x \in Int, m = l => x < i \/ x >= j
        PROVE  At(es, m, x) \in Addresses \ between
    <3>1. At(es, m, x) \in Addresses
      BY AtNode
    <3>2. ASSUME NEW y \in i..(j - 1), At(es, m, x) = es[l][y]
          PROVE  FALSE
      <4>1. y \in 1..Len(es[l]) /\ y \in Int /\ i <= y /\ y < j
        BY <1>0
      <4>2. At(es, l, y) = es[l][y]
        BY <4>1, AtNode
      <4>3. l = m /\ y = x
        BY <3>2, <4>1, <4>2, AtInjective
      <4>. QED
        BY <1>0, <2>1, <4>1, <4>3
    <3>. QED
      BY <1>b, <3>1, <3>2
  <2>. QED
    BY <2>1
<1>3. /\ \A m \in Lists : \A x \in 0..Len(es[m]) :
            At(es, m, x) = a => m = l /\ x = i - 1
      /\ \A m \in Lists : \A x \in 1..(Len(es[m]) + 1) :
            At(es, m, x) = e => m = l /\ x = j
  BY <1>0, AtInjective
<1>4. a \in Addresses \ between /\ e \in Addresses \ between
  BY <1>0, <1>2
<1> HIDE DEF D
<1>5. \A m \in Lists :
        /\ Len(fs[m]) \in Nat
        /\ m # l => Len(fs[m]) = Len(es[m])
        /\ m = l => Len(fs[m]) = Len(es[l]) - D
  <2>1. \A m \in Lists : Len(fs[m]) \in Nat
    BY <1>1 DEF Contents
  <2>. QED
    BY <1>1, <2>1
<1>6. \A m \in Lists : \A x \in 1..Len(fs[m]) :
        old(m, x) \in 1..Len(es[m]) /\ fs[m][x] = es[m][old(m, x)]
  <2>1. ASSUME NEW m \in Lists, NEW x \in 1..Len(fs[m])
        PROVE  old(m, x) \in 1..Len(es[m]) /\ fs[m][x] = es[m][old(m, x)]
    <3>1. CASE m # l
      BY <1>1, <1>5, <3>1
    <3>2. CASE m = l /\ x < i
      <4>1. x \in 1..(Len(es[l]) - D) /\ x \in 1..Len(es[l])
        BY <1>0, <1>5, <3>2
      <4>. QED
        BY <1>1, <3>2, <4>1
    <3>3. CASE m = l /\ x >= i
      BY <1>0, <1>1, <1>5, <3>3
    <3>. QED
      BY <1>0, <1>5, <3>1, <3>2, <3>3
  <2>. QED
    BY <2>1
<1>7. Disjoint(fs) /\ Without(fs, es, between)
  BY CutContents
(* The pointers, link by link.                                             *)
<1>9. \A m \in Lists : \A x \in 0..(Len(fs[m]) + 1) :
        At(fs, m, x) = At(es, m, old(m, x))
  <2>1. ASSUME NEW m \in Lists, NEW x \in 0..(Len(fs[m]) + 1)
        PROVE  At(fs, m, x) = At(es, m, old(m, x))
    <3>1. CASE m # l
      BY <1>1, <3>1 DEF At
    <3>2. CASE m = l /\ x < i
      <4>1. x \in 1..Len(fs[l]) <=> x \in 1..Len(es[l])
        BY <1>0, <1>5, <3>2
      <4>2. x \in 1..Len(fs[l]) => x \in 1..(Len(es[l]) - D)
        BY <1>5
      <4>. QED
        BY <1>0, <1>1, <1>5, <3>2, <4>1, <4>2 DEF At
    <3>3. CASE m = l /\ x >= i
      <4>1. /\ ~(x < i)
            /\ x \in 1..Len(fs[l]) <=> x + D \in 1..Len(es[l])
            /\ x \in 1..Len(fs[l]) => x \in 1..(Len(es[l]) - D)
        BY <1>0, <1>5, <3>3
      <4>2. x \in 1..Len(fs[l]) => fs[l][x] = es[l][x + D]
        BY <1>1, <4>1
      <4>. QED
        BY <3>3, <4>1, <4>2 DEF At
    <3>. QED
      BY <1>0, <3>1, <3>2, <3>3
  <2>. QED
    BY <2>1
<1>10. ASSUME NEW m \in Lists, NEW x \in 0..Len(fs[m])
       PROVE  /\ g.next[At(fs, m, x)] = At(fs, m, x + 1)
              /\ g.prev[At(fs, m, x + 1)] = At(fs, m, x)
  <2>0. /\ At(fs, m, x) = At(es, m, old(m, x))
        /\ At(fs, m, x + 1) = At(es, m, old(m, x + 1))
    <3>1. x \in 0..(Len(fs[m]) + 1) /\ x + 1 \in 0..(Len(fs[m]) + 1)
      BY <1>5
    <3>. HIDE DEF old
    <3>. QED
      BY <1>9, <3>1
  <2>a. \A y \in Addresses \ between :
          /\ g.next[y] = IF y = a THEN e ELSE h.next[y]
          /\ g.prev[y] = IF y = e THEN a ELSE h.prev[y]
    BY DEF Bridged
  <2>1. CASE m = l /\ x + 1 = i
    <3>1. At(fs, m, x) = a /\ At(fs, m, x + 1) = e
      BY <1>0, <2>0, <2>1
    <3>. QED
      BY <1>4, <2>a, <3>1
  <2>2. CASE ~(m = l /\ x + 1 = i)
    <3>1. PICK y \in 0..Len(es[m]) : y = old(m, x)
      BY <1>0, <1>5, SMTT(15)
    <3>2. y + 1 = old(m, x + 1)
      BY <1>0, <1>5, <2>2, <3>1
    <3>3. h.next[At(es, m, y)] = At(es, m, y + 1) /\ h.prev[At(es, m, y + 1)] = At(es, m, y)
      BY DEF Spells
    <3>4. /\ y \in Int /\ y + 1 \in Int /\ y + 1 \in 1..(Len(es[m]) + 1)
          /\ m = l => /\ y < i \/ y >= j
                      /\ y + 1 < i \/ y + 1 >= j
                      /\ y # i - 1 /\ y + 1 # j
      BY <1>0, <1>5, <2>2, <3>1
    <3>. HIDE DEF old
    <3>5. /\ At(es, m, y) # a /\ At(es, m, y + 1) # e
          /\ At(es, m, y) \in Addresses \ between
          /\ At(es, m, y + 1) \in Addresses \ between
      BY <1>2, <1>3, <3>4
    <3>. QED
      BY <2>0, <2>a, <3>1, <3>2, <3>3, <3>5
  <2>. QED
    BY <2>1, <2>2
<1>. QED
  BY <1>1, <1>7, <1>9, <1>10 DEF Spells, Shifted, D
-----------------------------------------------------------------------------
(* The heap operations, pointer by pointer.                                *)

\* link_before links a chain of one node.
LEMMA LinkBefore ==
  ASSUME NEW h \in Heaps, NEW p \in Addresses, NEW n \in Addresses, p # n,
         NEW q \in Addresses, q = h.prev[p], q # n
  PROVE  /\ link_before(h, p, n) \in Heaps
         /\ Joined(link_before(h, p, n), h, q, n, n, p)
  BY DEF link_before, get_previous, get_next, set_next, set_previous,
         Heaps, Pointers, Joined

\* unlink joins the neighbours of a node.
LEMMA Unlink ==
  ASSUME NEW h \in Heaps, NEW n \in Addresses,
         NEW a \in Addresses, a = h.prev[n], a # n,
         NEW e \in Addresses, e = h.next[n], e # n
  PROVE  /\ reset(unlink(h, n), n) \in Heaps
         /\ Bridged(reset(unlink(h, n), n), h, a, e, {n})
         /\ safemode_or_autounlink =>
              /\ reset(unlink(h, n), n).next[n] = Null
              /\ reset(unlink(h, n), n).prev[n] = Null
  BY DEF unlink, reset, init, get_previous, get_next, set_next, set_previous,
         Heaps, Pointers, Bridged

\* unlink of a range joins what is on both sides of it.
LEMMA UnlinkRange ==
  ASSUME NEW h \in Heaps, NEW b \in Addresses, NEW e \in Addresses, b # e,
         NEW a \in Addresses, a = h.prev[b], NEW between
  PROVE  /\ unlink_range(h, b, e) \in Heaps
         /\ Bridged(unlink_range(h, b, e), h, a, e, between)
  BY DEF unlink_range, get_previous, get_next, set_next, set_previous,
         Heaps, Pointers, Bridged

\* init_header joins both sides of all the elements.
LEMMA InitHeader ==
  ASSUME NEW h \in Heaps, NEW l \in Addresses, NEW between
  PROVE  /\ init_header(h, l) \in Heaps
         /\ Bridged(init_header(h, l), h, l, l, between)
  BY DEF init_header, set_next, set_previous, Heaps, Pointers, Bridged

(* A transfer is a cut, which leaves the heap c, followed by a paste.      *)
Lifted(h, a, e) == [next |-> [h.next EXCEPT ![a] = e], prev |-> [h.prev EXCEPT ![e] = a]]

\* The first half of a transfer takes the chain out.
LEMMA Lift ==
  ASSUME NEW h \in Heaps, NEW a \in Addresses, NEW e \in Addresses, NEW between
  PROVE  Lifted(h, a, e) \in Heaps /\ Bridged(Lifted(h, a, e), h, a, e, between)
  BY DEF Lifted, Heaps, Pointers, Bridged

\* The second half links it in again.
LEMMA Transfer ==
  ASSUME NEW h \in Heaps, NEW p \in Addresses, NEW b \in Addresses, NEW e \in Addresses,
         b # e, p # b, p # e,
         NEW q \in Addresses, q = h.prev[p],
         NEW a \in Addresses, a = h.prev[b],
         NEW c \in Addresses, c = h.prev[e],
         q # c, q # a, a # c
  PROVE  /\ transfer(h, p, b, e) \in Heaps
         /\ Joined(transfer(h, p, b, e), Lifted(h, a, e), q, b, c, p)
  BY DEF transfer, Lifted, get_previous, get_next, set_next, set_previous,
         Heaps, Pointers, Joined

\* The same for the transfer of one node.
LEMMA TransferOne ==
  ASSUME NEW h \in Heaps, NEW p \in Addresses, NEW b \in Addresses, NEW e \in Addresses,
         e = h.next[b], b # e, p # b, p # e,
         NEW q \in Addresses, q = h.prev[p],
         NEW a \in Addresses, a = h.prev[b],
         q # b, q # a, a # b
  PROVE  /\ transfer_one(h, p, b) \in Heaps
         /\ Joined(transfer_one(h, p, b), Lifted(h, a, e), q, b, b, p)
  BY DEF transfer_one, Lifted, get_previous, get_next, set_next, set_previous,
         Heaps, Pointers, Joined
-----------------------------------------------------------------------------
(* The operations keep a heap good.                                        *)

\* What the links say of a list.
LEMMA Neighbours ==
  ASSUME NEW h, NEW es, Good(h, es), NEW l \in Lists
  PROVE  /\ \A k \in 0..Len(es[l]) : h.next[At(es, l, k)] = At(es, l, k + 1)
         /\ \A k \in 1..(Len(es[l]) + 1) : h.prev[At(es, l, k)] = At(es, l, k - 1)
         /\ \A k \in Int : At(es, l, k) \in Addresses
         /\ Len(es[l]) \in Nat
<1>1. Len(es[l]) \in Nat /\ es \in Contents /\ Spells(h, es)
  BY DEF Good, Contents
<1>2. ASSUME NEW k \in 1..(Len(es[l]) + 1)
      PROVE  h.prev[At(es, l, k)] = At(es, l, k - 1)
  <2>1. PICK i \in 0..Len(es[l]) : i = k - 1 /\ i + 1 = k
    BY <1>1
  <2>. QED
    BY <1>1, <2>1 DEF Spells
<1>. QED
  BY <1>1, <1>2, AtNode DEF Spells

\* An insertion keeps a heap good.
LEMMA InsertGood ==
  ASSUME NEW h, NEW es, Good(h, es), NEW l \in Lists,
         NEW k \in 1..(Len(es[l]) + 1), NEW n \in Nodes, Out(es, n)
  PROVE  Good(link_before(h, At(es, l, k), n), [es EXCEPT ![l] = Paste(@, k, <<n>>)])
<1> DEFINE p == At(es, l, k)
           q == At(es, l, k - 1)
           r == <<n>>
           g == link_before(h, p, n)
           fs == [es EXCEPT ![l] = Paste(@, k, r)]
<1>0. h \in Heaps /\ es \in Contents /\ Disjoint(es) /\ Spells(h, es) /\ Quiet(h, es)
  BY DEF Good
<1>1. /\ k \in Int /\ k - 1 \in Int /\ p \in Addresses /\ q \in Addresses
      /\ q = h.prev[p] /\ n \in Addresses
  BY Neighbours DEF Addresses
<1>2. \A i \in Int : At(es, l, i) # n
  BY <1>0, HeaderAssumption DEF At, Out
<1>3. r \in Seq(Nodes) /\ Len(r) = 1 /\ r[1] = n
  OBVIOUS
<1>4. Fresh(es, r) /\ Chained(h, r)
  BY <1>3 DEF Fresh, Chained
<1>5. Pasted(fs, es, l, k, r)
  BY <1>0, <1>3, PastePastes
<1>6. g \in Heaps /\ Joined(g, h, q, n, n, p)
  BY <1>0, <1>1, <1>2, LinkBefore
<1> HIDE DEF p, q, r, g, fs
<1>7. /\ fs \in Contents /\ Disjoint(fs) /\ Spells(g, fs)
      /\ With(fs, es, r)
  BY <1>0, <1>3, <1>4, <1>5, <1>6, PasteSpells DEF p, q
<1>8. Quiet(g, fs)
  <2>1. SUFFICES ASSUME safemode_or_autounlink, NEW x \in Nodes, Out(fs, x)
                 PROVE  g.next[x] = Null /\ g.prev[x] = Null
    BY DEF Quiet
  <2>2. Out(es, x) /\ x # n
    BY <1>3, <1>7, <2>1 DEF With
  <2>3. x # p /\ x # q
    BY <2>2, <1>0, <1>1, HeaderAssumption DEF p, q, At, Out
  <2>. QED
    BY <1>0, <1>6, <2>1, <2>2, <2>3 DEF Quiet, Joined, Addresses
<1>. QED
  BY <1>6, <1>7, <1>8 DEF Good, p, r, g, fs

\* Joining both sides of a range and resetting its hooks keeps a heap good.
LEMMA CutGood ==
  ASSUME NEW h, NEW es, Good(h, es), NEW l \in Lists,
         NEW i \in 1..(Len(es[l]) + 1), NEW j \in i..(Len(es[l]) + 1),
         NEW between, between = {es[l][y] : y \in i..(j - 1)},
         NEW g \in Heaps,
         Bridged(g, h, At(es, l, i - 1), At(es, l, j), between),
         safemode_or_autounlink =>
           \A n \in between : g.next[n] = Null /\ g.prev[n] = Null
  PROVE  Good(g, [es EXCEPT ![l] = Cut(@, i, j)])
<1> DEFINE a == At(es, l, i - 1)
           e == At(es, l, j)
           fs == [es EXCEPT ![l] = Cut(@, i, j)]
<1>0. h \in Heaps /\ es \in Contents /\ Disjoint(es) /\ Spells(h, es) /\ Quiet(h, es)
  BY DEF Good
<1>1. CutOut(fs, es, l, i, j)
  BY <1>0, CutCuts
<1>2. /\ Bridged(g, h, a, e, between) /\ i - 1 \in Int /\ j \in Int
      /\ a = At(es, l, i - 1) /\ e = At(es, l, j)
  OBVIOUS
<1> HIDE DEF a, e, fs
<1>3. /\ fs \in Contents /\ Disjoint(fs) /\ Spells(g, fs)
      /\ Without(fs, es, between)
  BY <1>0, <1>1, <1>2, CutSpells
<1>4. Quiet(g, fs)
  <2>1. SUFFICES ASSUME safemode_or_autounlink, NEW x \in Nodes, Out(fs, x)
                 PROVE  g.next[x] = Null /\ g.prev[x] = Null
    BY DEF Quiet
  <2>2. CASE x \in between
    BY <2>1, <2>2
  <2>3. CASE x \notin between
    <3>1. Out(es, x)
      BY <1>3, <2>1, <2>3 DEF Without
    <3>2. x # a /\ x # e
      BY <3>1, <1>0, <1>2, HeaderAssumption DEF a, e, At, Out
    <3>. QED
      BY <1>0, <1>2, <2>1, <2>3, <3>1, <3>2 DEF Quiet, Bridged, Addresses
  <2>. QED
    BY <2>2, <2>3
<1>. QED
  BY <1>3, <1>4 DEF Good, fs

\* An erasure of one element keeps a heap good.
LEMMA EraseGood ==
  ASSUME NEW h, NEW es, Good(h, es), NEW l \in Lists, NEW i \in 1..Len(es[l])
  PROVE  Good(reset(unlink(h, At(es, l, i)), At(es, l, i)),
              [es EXCEPT ![l] = Cut(@, i, i + 1)])
<1> DEFINE n == At(es, l, i)
           a == At(es, l, i - 1)
           e == At(es, l, i + 1)
           g == reset(unlink(h, n), n)
<1>0. h \in Heaps /\ es \in Contents /\ Disjoint(es)
  BY DEF Good
<1>1. /\ i \in 0..Len(es[l]) /\ i \in 1..(Len(es[l]) + 1)
      /\ i + 1 \in i..(Len(es[l]) + 1)
      /\ i \in Int /\ i - 1 \in Int /\ i + 1 \in Int
      /\ i # i - 1 /\ i # i + 1
  BY Neighbours
<1>2. /\ n \in Addresses /\ a \in Addresses /\ e \in Addresses
      /\ a = h.prev[n] /\ e = h.next[n]
  BY <1>1, Neighbours
<1>3. a # n /\ e # n
  BY <1>0, <1>1, AtInjective
<1>4. {es[l][y] : y \in i..(i + 1 - 1)} = {n}
  <2>1. i..(i + 1 - 1) = {i}
    BY <1>1
  <2>2. n = es[l][i]
    BY <1>0, <1>1, AtNode
  <2>. QED
    BY <2>1, <2>2
<1> HIDE DEF n, a, e
<1>5. /\ g \in Heaps /\ Bridged(g, h, a, e, {n})
      /\ safemode_or_autounlink => g.next[n] = Null /\ g.prev[n] = Null
  BY <1>0, <1>2, <1>3, Unlink
<1> HIDE DEF g
<1>6. PICK j \in i..(Len(es[l]) + 1) : j = i + 1
  BY <1>1
<1>7. Bridged(g, h, At(es, l, i - 1), At(es, l, j), {n})
  BY <1>5, <1>6 DEF a, e
<1>8. {n} = {es[l][y] : y \in i..(j - 1)}
  BY <1>4, <1>6
<1>9. Good(g, [es EXCEPT ![l] = Cut(@, i, j)])
  BY <1>1, <1>5, <1>7, <1>8, CutGood
<1>. QED
  BY <1>6, <1>9 DEF g, n

\* So does one of a range that is not walked.
LEMMA EraseRangeGood ==
  ASSUME NEW h, NEW es, Good(h, es), NEW l \in Lists, ~safemode_or_autounlink,
         NEW i \in 1..(Len(es[l]) + 1), NEW j \in i..(Len(es[l]) + 1)
  PROVE  Good(unlink_range(h, At(es, l, i), At(es, l, j)),
              [es EXCEPT ![l] = Cut(@, i, j)])
<1> DEFINE b == At(es, l, i)
           a == At(es, l, i - 1)
           e == At(es, l, j)
           g == unlink_range(h, b, e)
           between == {es[l][y] : y \in i..(j - 1)}
<1>0. h \in Heaps /\ es \in Contents /\ Disjoint(es) /\ Spells(h, es)
  BY DEF Good
<1>1. i \in Int /\ j \in Int /\ i - 1 \in Int /\ Len(es[l]) \in Nat
  BY Neighbours
<1>2. /\ b \in Addresses /\ a \in Addresses /\ e \in Addresses
      /\ a = h.prev[b]
  BY <1>1, Neighbours
<1>3. g \in Heaps /\ Bridged(g, h, a, e, between)
  <2>1. CASE b # e
    <3>. HIDE DEF a, b, e, between
    <3>. QED
      BY <1>0, <1>2, <2>1, UnlinkRange
  <2>2. CASE b = e
    <3>1. h.next[a] = b
      <4>1. i - 1 \in 0..Len(es[l]) /\ i - 1 + 1 = i
        BY <1>1
      <4>. QED
        BY <4>1, Neighbours
    <3>2. g = h
      BY <2>2 DEF unlink_range
    <3>. HIDE DEF a, b, e, between, g
    <3>. QED
      BY <1>0, <1>2, <2>2, <3>1, <3>2 DEF Bridged
  <2>. QED
    BY <2>1, <2>2
<1> HIDE DEF between, g
<1>4. Good(g, [es EXCEPT ![l] = Cut(@, i, j)])
  BY <1>3, CutGood DEF between
<1>. QED
  BY <1>4 DEF g

\* And one of all the elements.
LEMMA ClearGood ==
  ASSUME NEW h, NEW es, Good(h, es), NEW l \in Lists, ~safemode_or_autounlink
  PROVE  Good(init_header(h, l), [es EXCEPT ![l] = <<>>])
<1> DEFINE g == init_header(h, l)
           between == {es[l][y] : y \in 1..(Len(es[l]) + 1 - 1)}
<1>0. h \in Heaps /\ es \in Contents /\ es[l] \in Seq(Nodes) /\ Len(es[l]) \in Nat
  BY DEF Good, Contents
<1>1. PICK i \in 1..(Len(es[l]) + 1) : i = 1
  BY <1>0
<1>2. PICK j \in i..(Len(es[l]) + 1) : j = Len(es[l]) + 1
  BY <1>0, <1>1
<1>3. At(es, l, i - 1) = l /\ At(es, l, j) = l
  BY <1>0, <1>1, <1>2 DEF At
<1>4. between = {es[l][y] : y \in i..(j - 1)}
  BY <1>1, <1>2
<1> HIDE DEF between
<1>5. g \in Heaps /\ Bridged(g, h, l, l, between)
  BY <1>0, InitHeader DEF Addresses
<1> HIDE DEF g
<1>6. Good(g, [es EXCEPT ![l] = Cut(@, i, j)])
  BY <1>3, <1>4, <1>5, CutGood
<1>7. Cut(es[l], i, j) = <<>>
  <2>1. /\ Cut(es[l], i, j) \in Seq(Nodes)
        /\ Len(Cut(es[l], i, j)) = Len(es[l]) - (j - i)
    BY <1>0, CutProperties
  <2>2. Len(Cut(es[l], i, j)) = 0
    BY <1>0, <1>1, <1>2, <2>1
  <2>. QED
    BY <2>1, <2>2, EmptySeq
<1>. QED
  BY <1>6, <1>7 DEF g
-----------------------------------------------------------------------------
(* Moving a range: cut it out, paste it back somewhere else.               *)

\* Without a range that has been taken out the links spell what is left.
LEMMA LiftSpells ==
  ASSUME NEW h, NEW es, Good(h, es), NEW m \in Lists,
         NEW i \in 1..(Len(es[m]) + 1), NEW j \in i..(Len(es[m]) + 1),
         NEW h1, h1 = Lifted(h, At(es, m, i - 1), At(es, m, j)),
         NEW cs, cs = [es EXCEPT ![m] = Cut(@, i, j)],
         NEW between, between = {es[m][y] : y \in i..(j - 1)}
  PROVE  /\ h1 \in Heaps /\ cs \in Contents /\ Disjoint(cs) /\ Spells(h1, cs)
         /\ CutOut(cs, es, m, i, j)
         /\ Without(cs, es, between) /\ Shifted(cs, es, m, i, j)
<1> DEFINE a == At(es, m, i - 1)
           e == At(es, m, j)
<1>0. h \in Heaps /\ es \in Contents /\ Disjoint(es) /\ Spells(h, es)
  BY DEF Good
<1>1. CutOut(cs, es, m, i, j)
  BY <1>0, CutCuts
<1>2. /\ a = At(es, m, i - 1) /\ e = At(es, m, j)
      /\ i - 1 \in Int /\ j \in Int
  OBVIOUS
<1>3. a \in Addresses /\ e \in Addresses
  BY <1>2, Neighbours
<1> HIDE DEF a, e
<1>4. h1 \in Heaps /\ Bridged(h1, h, a, e, between)
  BY <1>0, <1>2, <1>3, Lift
<1>5. /\ cs \in Contents /\ Disjoint(cs) /\ Spells(h1, cs)
      /\ Without(cs, es, between) /\ Shifted(cs, es, m, i, j)
  BY <1>0, <1>1, <1>2, <1>4, CutSpells
<1>. QED
  BY <1>1, <1>4, <1>5

\* A chain taken out and linked in again is a move.
LEMMA MoveGood ==
  ASSUME NEW h, NEW es, Good(h, es), NEW l \in Lists, NEW m \in Lists,
         NEW k \in 1..(Len(es[l]) + 1),
         NEW i \in 1..(Len(es[m]) + 1), NEW j \in (i + 1)..(Len(es[m]) + 1),
         l = m => k < i \/ j < k,
         NEW p, p = At(es, l, k), NEW q, q = At(es, l, k - 1),
         NEW a, a = At(es, m, i - 1), NEW e, e = At(es, m, j),
         NEW b, b = At(es, m, i), NEW c, c = At(es, m, j - 1),
         NEW g \in Heaps, Joined(g, Lifted(h, a, e), q, b, c, p),
         NEW to, to = IF l = m /\ j <= k THEN k - (j - i) ELSE k
  PROVE  Good(g, [[es EXCEPT ![m] = Cut(@, i, j)]
                     EXCEPT ![l] = Paste(@, to, Slice(es[m], i, j))])
<1> DEFINE D  == j - i
           cs == [es EXCEPT ![m] = Cut(@, i, j)]
           h1 == Lifted(h, a, e)
           r  == Slice(es[m], i, j)
           fs == [cs EXCEPT ![l] = Paste(@, to, r)]
           between == {es[m][y] : y \in i..(j - 1)}
<1>0. /\ h \in Heaps /\ es \in Contents /\ Disjoint(es) /\ Spells(h, es) /\ Quiet(h, es)
      /\ es[m] \in Seq(Nodes)
  BY DEF Good, Contents
<1>1. /\ Len(es[l]) \in Nat /\ Len(es[m]) \in Nat
      /\ i \in Nat /\ j \in Nat /\ k \in Nat /\ D \in Nat /\ D >= 1 /\ j = i + D
      /\ i >= 1 /\ k >= 1 /\ j <= Len(es[m]) + 1 /\ k <= Len(es[l]) + 1
      /\ j \in i..(Len(es[m]) + 1)
  BY Neighbours
<1>2. a \in Addresses /\ e \in Addresses /\ p \in Addresses /\ q \in Addresses
  BY <1>1, Neighbours
<1>3. /\ r \in Seq(Nodes) /\ Len(r) = D
      /\ \A x \in 1..D : r[x] = es[m][i + x - 1]
  BY <1>0, <1>1, SliceProperties
<1>4. \A n : n \in between <=> \E y \in i..(j - 1) : n = es[m][y]
  OBVIOUS
<1>5. /\ h1 = Lifted(h, At(es, m, i - 1), At(es, m, j))
      /\ between = {es[m][y] : y \in i..(j - 1)}
      /\ cs = [es EXCEPT ![m] = Cut(@, i, j)]
  OBVIOUS
<1> HIDE DEF D, h1, r, cs, between
<1>6. /\ h1 \in Heaps /\ cs \in Contents /\ Disjoint(cs) /\ Spells(h1, cs)
      /\ CutOut(cs, es, m, i, j)
      /\ Without(cs, es, between) /\ Shifted(cs, es, m, i, j)
  BY <1>1, <1>5, LiftSpells
<1>7. \A n \in Nodes : Out(cs, n) <=> Out(es, n) \/ n \in between
  BY <1>6 DEF Without
<1>8. /\ \A x \in 1..D : /\ i + x - 1 \in i..(j - 1) /\ i + x - 1 \in 1..Len(es[m])
                         /\ r[x] = At(es, m, i + x - 1)
                         /\ r[x] \in between /\ r[x] \in Nodes
      /\ \A n \in between : \E x \in 1..D : r[x] = n
  <2>1. ASSUME NEW x \in 1..D
        PROVE  /\ i + x - 1 \in i..(j - 1) /\ i + x - 1 \in 1..Len(es[m])
               /\ r[x] = At(es, m, i + x - 1)
               /\ r[x] \in between /\ r[x] \in Nodes
    <3>1. i + x - 1 \in i..(j - 1) /\ i + x - 1 \in 1..Len(es[m]) /\ i + x - 1 \in Int
      BY <1>1
    <3>2. r[x] = es[m][i + x - 1]
      BY <1>3
    <3>. QED
      BY <1>0, <1>4, <3>1, <3>2, AtNode
  <2>2. ASSUME NEW n \in between
        PROVE  \E x \in 1..D : r[x] = n
    <3>1. PICK y \in i..(j - 1) : n = es[m][y]
      BY <1>4
    <3>2. PICK x \in 1..D : x = y - i + 1
      BY <1>1
    <3>3. i + x - 1 = y
      BY <1>1, <3>2
    <3>. QED
      BY <1>3, <3>1, <3>2, <3>3
  <2>. QED
    BY <2>1, <2>2
<1>9. a \notin between /\ e \notin between
  <2>1. ASSUME NEW x \in 1..D, r[x] = a \/ r[x] = e
        PROVE  FALSE
    <3>1. /\ r[x] = At(es, m, i + x - 1) /\ i + x - 1 \in 1..Len(es[m])
          /\ i + x - 1 \in Int /\ i - 1 \in Int /\ i + x - 1 # i - 1 /\ i + x - 1 # j
      BY <1>1, <1>8
    <3>2. j \in Int
      BY <1>1
    <3>3. CASE r[x] = a
      <4>1. At(es, m, i + x - 1) = At(es, m, i - 1)
        BY <3>1, <3>3
      <4>. HIDE <2>1
      <4>. QED
        BY <1>0, <3>1, <4>1, AtInjective
    <3>4. CASE r[x] = e
      <4>1. At(es, m, i + x - 1) = At(es, m, j)
        BY <3>1, <3>4
      <4>. HIDE <2>1
      <4>. QED
        BY <1>0, <3>1, <3>2, <4>1, AtInjective
    <3>. QED
      BY <2>1, <3>3, <3>4
  <2>. QED
    BY <1>8, <2>1
<1>10. Fresh(cs, r)
  <2>1. ASSUME NEW x \in 1..D, NEW y \in 1..D, r[x] = r[y]
        PROVE  x = y
    <3>1. /\ r[x] = At(es, m, i + x - 1) /\ i + x - 1 \in 1..Len(es[m])
          /\ r[y] = At(es, m, i + y - 1) /\ i + y - 1 \in 1..Len(es[m])
          /\ i + x - 1 \in Int /\ i + y - 1 \in Int
      BY <1>1, <1>8
    <3>2. At(es, m, i + x - 1) = At(es, m, i + y - 1)
      BY <2>1, <3>1
    <3>4. i + x - 1 = i + y - 1
      BY <1>0, <3>1, <3>2, AtInjective
    <3>. QED
      BY <1>1, <3>4
  <2>2. ASSUME NEW x \in 1..D
        PROVE  Out(cs, r[x])
    BY <1>7, <1>8
  <2>. QED
    BY <1>3, <2>1, <2>2 DEF Fresh
<1>11. Chained(h1, r)
  <2>1. ASSUME NEW x \in 1..(D - 1)
        PROVE  h1.next[r[x]] = r[x + 1] /\ h1.prev[r[x + 1]] = r[x]
    <3>1. PICK y \in 1..Len(es[m]) : y = i + x - 1 /\ y + 1 = i + (x + 1) - 1
      BY <1>1
    <3>2. x \in 1..D /\ x + 1 \in 1..D
      BY <1>1
    <3>3. /\ r[x] = At(es, m, y) /\ r[x + 1] = At(es, m, y + 1)
          /\ r[x] \in between /\ r[x + 1] \in between
      BY <1>8, <3>1, <3>2
    <3>4. h.next[At(es, m, y)] = At(es, m, y + 1) /\ h.prev[At(es, m, y + 1)] = At(es, m, y)
      BY <1>0, <1>1, <3>1 DEF Spells
    <3>5. /\ r[x] \in Addresses /\ r[x + 1] \in Addresses
          /\ r[x] # a /\ r[x + 1] # e
      BY <1>8, <1>9, <3>2, <3>3 DEF Addresses
    <3>6. /\ \A n \in Addresses : n # a => h1.next[n] = h.next[n]
          /\ \A n \in Addresses : n # e => h1.prev[n] = h.prev[n]
      BY <1>0 DEF h1, Lifted, Heaps
    <3>. QED
      BY <3>3, <3>4, <3>5, <3>6
  <2>. QED
    BY <1>3, <2>1 DEF Chained
<1>12. /\ to \in 1..(Len(cs[l]) + 1)
       /\ At(cs, l, to) = p /\ At(cs, l, to - 1) = q
  <2>1. /\ Len(cs[l]) \in Nat
        /\ l # m => Len(cs[l]) = Len(es[l])
        /\ l = m => Len(cs[l]) = Len(es[l]) - D
    <3>1. Len(cs[l]) \in Nat
      BY <1>6 DEF Contents
    <3>2. l # m => cs[l] = es[l]
      BY <1>6 DEF CutOut
    <3>3. Len(cs[m]) = Len(es[m]) - D
      BY <1>6 DEF CutOut, D
    <3>. QED
      BY <3>1, <3>2, <3>3
  <2>2. to \in 1..(Len(cs[l]) + 1) /\ to \in 0..(Len(cs[l]) + 1)
        /\ to - 1 \in 0..(Len(cs[l]) + 1)
    <3>1. CASE l = m
      BY <1>1, <2>1, <3>1, SMTT(15)
    <3>2. CASE l # m
      BY <1>1, <2>1, <3>2, SMTT(15)
    <3>. QED
      BY <3>1, <3>2
  <2>3. /\ (IF l = m /\ to >= i THEN to + (j - i) ELSE to) = k
        /\ (IF l = m /\ to - 1 >= i THEN to - 1 + (j - i) ELSE to - 1) = k - 1
    BY <1>1
  <2>4. /\ At(cs, l, to) = At(es, l, IF l = m /\ to >= i THEN to + (j - i) ELSE to)
        /\ At(cs, l, to - 1) = At(es, l, IF l = m /\ to - 1 >= i THEN to - 1 + (j - i)
                                         ELSE to - 1)
    BY <1>6, <2>2 DEF Shifted
  <2>. QED
    BY <2>2, <2>3, <2>4
<1>13. /\ r[1] = b /\ r[Len(r)] = c /\ Len(r) >= 1
       /\ b \in Nodes /\ c \in Nodes /\ b \in between /\ c \in between
  <2>1. /\ 1 \in 1..D /\ D \in 1..D /\ i + 1 - 1 = i /\ i + D - 1 = j - 1
    BY <1>1
  <2>2. r[1] = At(es, m, i) /\ r[D] = At(es, m, j - 1)
    BY <1>8, <2>1
  <2>. QED
    BY <1>1, <1>3, <1>8, <2>1, <2>2
<1>14. Pasted(fs, cs, l, to, r)
  BY <1>3, <1>6, <1>12, PastePastes
<1>15. Joined(g, h1, q, b, c, p)
  BY DEF h1
<1> HIDE DEF fs
<1>16. /\ fs \in Contents /\ Disjoint(fs) /\ Spells(g, fs)
       /\ With(fs, cs, r)
  <2>1. p = At(cs, l, to) /\ q = At(cs, l, to - 1) /\ b = r[1] /\ c = r[Len(r)]
    BY <1>12, <1>13
  <2>2. to \in 1..(Len(cs[l]) + 1) /\ Len(r) >= 1 /\ r \in Seq(Nodes)
    BY <1>3, <1>12, <1>13
  <2>3. cs \in Contents /\ Disjoint(cs) /\ Spells(h1, cs) /\ h1 \in Heaps
    BY <1>6
  <2>. QED
    BY <1>10, <1>11, <1>14, <1>15, <2>1, <2>2, <2>3, PasteSpells
<1>17. Quiet(g, fs)
  <2>1. SUFFICES ASSUME safemode_or_autounlink, NEW x \in Nodes, Out(fs, x)
                 PROVE  g.next[x] = Null /\ g.prev[x] = Null
    BY DEF Quiet
  <2>2. Out(es, x) /\ x \notin between
    BY <1>3, <1>7, <1>8, <1>16, <2>1 DEF With
  <2>3. \A o \in Lists, y \in Int : At(es, o, y) # x
    BY <2>2, <1>0, HeaderAssumption DEF At, Out
  <2>4. x # p /\ x # q /\ x # a /\ x # e /\ x # b /\ x # c /\ x \in Addresses
    BY <1>1, <2>3 DEF Addresses
  <2>5. h.next[x] = Null /\ h.prev[x] = Null
    BY <1>0, <2>1, <2>2 DEF Quiet
  <2>6. h1.next[x] = h.next[x] /\ h1.prev[x] = h.prev[x]
    BY <1>0, <2>4 DEF h1, Lifted, Heaps
  <2>. QED
    BY <1>15, <2>4, <2>5, <2>6 DEF Joined
<1>. QED
  BY <1>16, <1>17 DEF Good, fs, cs, r

\* Different positions have different nodes, also where end() is one.
LEMMA Different ==
  ASSUME NEW es \in Contents, Disjoint(es), NEW l \in Lists, NEW m \in Lists
  PROVE  /\ \A x \in 1..(Len(es[l]) + 1), y \in 1..(Len(es[m]) + 1) :
              At(es, l, x) = At(es, m, y) => l = m /\ x = y
         /\ \A x \in 0..Len(es[l]), y \in 0..Len(es[m]) :
              At(es, l, x) = At(es, m, y) => l = m /\ x = y
<1>1. Len(es[l]) \in Nat /\ Len(es[m]) \in Nat
  BY DEF Contents
<1>2. ASSUME NEW x \in 1..(Len(es[l]) + 1), NEW y \in 1..(Len(es[m]) + 1),
             At(es, l, x) = At(es, m, y)
      PROVE  l = m /\ x = y
  <2>1. x \in Int /\ y \in Int
    BY <1>1
  <2>. QED
    BY <1>1, <1>2, <2>1, AtInjective
<1>3. ASSUME NEW x \in 0..Len(es[l]), NEW y \in 0..Len(es[m]),
             At(es, l, x) = At(es, m, y)
      PROVE  l = m /\ x = y
  <2>1. x \in Int /\ y \in Int
    BY <1>1
  <2>. QED
    BY <1>1, <1>3, <2>1, AtInjective
<1>. QED
  BY <1>2, <1>3

\* transfer moves a range, or does nothing where nothing is to move.
LEMMA TransferGood ==
  ASSUME NEW h, NEW es, Good(h, es), NEW l \in Lists, NEW m \in Lists,
         NEW k \in 1..(Len(es[l]) + 1),
         NEW i \in 1..(Len(es[m]) + 1), NEW j \in i..(Len(es[m]) + 1),
         l = m => k <= i \/ j <= k
  PROVE  Good(transfer(h, At(es, l, k), At(es, m, i), At(es, m, j)),
              Moved(es, l, k, m, i, j))
<1> DEFINE p == At(es, l, k)
           q == At(es, l, k - 1)
           b == At(es, m, i)
           a == At(es, m, i - 1)
           e == At(es, m, j)
           c == At(es, m, j - 1)
           g == transfer(h, p, b, e)
<1>0. h \in Heaps /\ es \in Contents /\ Disjoint(es)
  BY DEF Good
<1>1. /\ Len(es[l]) \in Nat /\ Len(es[m]) \in Nat
      /\ i \in Nat /\ j \in Nat /\ k \in Nat /\ 1 <= i /\ i <= j /\ 1 <= k
      /\ j \in 1..(Len(es[m]) + 1)
      /\ i - 1 \in 0..Len(es[m]) /\ j - 1 \in 0..Len(es[m]) /\ k - 1 \in 0..Len(es[l])
  BY Neighbours
<1>2. /\ b = e <=> i = j
      /\ p = b <=> (l = m /\ k = i)
      /\ p = e <=> (l = m /\ k = j)
  BY <1>0, <1>1, Different
<1>3. CASE i = j \/ (l = m /\ (k = i \/ k = j))
  <2>1. g = h
    BY <1>2, <1>3 DEF transfer
  <2>2. Moved(es, l, k, m, i, j) = es
    BY <1>0, <1>3, MoveNowhere
  <2>. QED
    BY <2>1, <2>2
<1>4. CASE ~(i = j \/ (l = m /\ (k = i \/ k = j)))
  <2>1. b # e /\ p # b /\ p # e
    BY <1>2, <1>4
  <2>2. /\ p \in Addresses /\ q \in Addresses /\ b \in Addresses
        /\ a \in Addresses /\ e \in Addresses /\ c \in Addresses
        /\ q = h.prev[p] /\ a = h.prev[b] /\ c = h.prev[e]
    BY <1>1, Neighbours
  <2>3. q # c /\ q # a /\ a # c
    <3>1. k - 1 = j - 1 => k = j
      BY <1>1
    <3>2. k - 1 = i - 1 => k = i
      BY <1>1
    <3>3. i - 1 = j - 1 => i = j
      BY <1>1
    <3>. QED
      BY <1>0, <1>1, <1>4, <3>1, <3>2, <3>3, Different
  <2>4. /\ p = At(es, l, k) /\ q = At(es, l, k - 1)
        /\ a = At(es, m, i - 1) /\ e = At(es, m, j)
        /\ b = At(es, m, i) /\ c = At(es, m, j - 1)
    OBVIOUS
  <2>5. /\ j \in (i + 1)..(Len(es[m]) + 1)
        /\ l = m => k < i \/ j < k
    BY <1>1, <1>4
  <2>. HIDE DEF p, q, a, b, c, e
  <2>6. g \in Heaps /\ Joined(g, Lifted(h, a, e), q, b, c, p)
    BY <1>0, <2>1, <2>2, <2>3, Transfer
  <2>. HIDE DEF g
  <2>7. Good(g, Moved(es, l, k, m, i, j))
    BY <2>4, <2>5, <2>6, MoveGood DEF Moved
  <2>. QED
    BY <2>7 DEF g, p, b, e
<1>. QED
  BY <1>3, <1>4

\* transfer_one moves one element.
LEMMA TransferOneGood ==
  ASSUME NEW h, NEW es, Good(h, es), NEW l \in Lists, NEW m \in Lists,
         NEW k \in 1..(Len(es[l]) + 1), NEW i \in 1..Len(es[m])
  PROVE  Good(transfer_one(h, At(es, l, k), At(es, m, i)),
              Moved(es, l, k, m, i, i + 1))
<1> DEFINE p == At(es, l, k)
           q == At(es, l, k - 1)
           b == At(es, m, i)
           a == At(es, m, i - 1)
           e == At(es, m, i + 1)
           g == transfer_one(h, p, b)
<1>0. h \in Heaps /\ es \in Contents /\ Disjoint(es)
  BY DEF Good
<1>1. /\ Len(es[l]) \in Nat /\ Len(es[m]) \in Nat
      /\ i \in Nat /\ i + 1 \in Nat /\ k \in Nat /\ 1 <= i /\ 1 <= k
      /\ i \in 1..(Len(es[m]) + 1) /\ i + 1 \in 1..(Len(es[m]) + 1)
      /\ i \in 0..Len(es[m]) /\ i - 1 \in 0..Len(es[m]) /\ k - 1 \in 0..Len(es[l])
      /\ i + 1 \in i..(Len(es[m]) + 1) /\ i + 1 - 1 = i
  BY Neighbours, SMTT(15)
<1>2. /\ b # e
      /\ p = b <=> (l = m /\ k = i)
      /\ p = e <=> (l = m /\ k = i + 1)
  BY <1>0, <1>1, Different
<1>3. /\ p \in Addresses /\ q \in Addresses /\ b \in Addresses
      /\ a \in Addresses /\ e \in Addresses
      /\ q = h.prev[p] /\ a = h.prev[b] /\ e = h.next[b]
  BY <1>1, Neighbours
<1>4. CASE l = m /\ (k = i \/ k = i + 1)
  <2>1. g = h
    <3>. HIDE DEF b, p, e
    <3>. QED
      BY <1>2, <1>3, <1>4 DEF transfer_one, get_next
  <2>2. Moved(es, l, k, m, i, i + 1) = es
    BY <1>0, <1>1, <1>4, MoveNowhere
  <2>. QED
    BY <2>1, <2>2
<1>5. CASE ~(l = m /\ (k = i \/ k = i + 1))
  <2>1. b # e /\ p # b /\ p # e
    BY <1>2, <1>5
  <2>3. q # b /\ q # a /\ a # b
    <3>1. k - 1 = i => k = i + 1
      BY <1>1
    <3>2. k - 1 = i - 1 => k = i
      BY <1>1
    <3>3. i - 1 # i
      BY <1>1
    <3>. QED
      BY <1>0, <1>1, <1>5, <3>1, <3>2, <3>3, Different
  <2>4. PICK j \in (i + 1)..(Len(es[m]) + 1) : j = i + 1 /\ j - 1 = i
    BY <1>1
  <2>5. /\ p = At(es, l, k) /\ q = At(es, l, k - 1)
        /\ a = At(es, m, i - 1) /\ e = At(es, m, j)
        /\ b = At(es, m, i) /\ b = At(es, m, j - 1)
    BY <2>4
  <2>6. l = m => k < i \/ j < k
    BY <1>1, <1>5, <2>4
  <2>. HIDE DEF p, q, a, b, e
  <2>7. g \in Heaps /\ Joined(g, Lifted(h, a, e), q, b, b, p)
    BY <1>0, <1>3, <2>1, <2>3, TransferOne
  <2>. HIDE DEF g
  <2>8. Good(g, Moved(es, l, k, m, i, j))
    BY <1>1, <2>5, <2>6, <2>7, MoveGood DEF Moved
  <2>. QED
    BY <2>4, <2>8 DEF g, p, b
<1>. QED
  BY <1>4, <1>5
-----------------------------------------------------------------------------
(* Two nodes, or two headers, in each other's place.                       *)

\* The node that takes the place of x when a and b trade places.
Flip(a, b, x) == IF x = a THEN b ELSE IF x = b THEN a ELSE x

\* The neighbours of x point back to it.
Mated(h, x) == /\ h.next[x] \in Addresses /\ h.prev[h.next[x]] = x
               /\ h.prev[x] \in Addresses /\ h.next[h.prev[x]] = x

\* Node x is in the default state.
IsNull(h, x) == h.next[x] = Null /\ h.prev[x] = Null

\* Heap g is h with a and b in each other's place.
Flipped(g, h, a, b) ==
  \A x \in Addresses :
    /\ Mated(h, x) => /\ g.next[Flip(a, b, x)] = Flip(a, b, h.next[x])
                      /\ g.prev[Flip(a, b, x)] = Flip(a, b, h.prev[x])
    /\ IsNull(h, x) => IsNull(g, Flip(a, b, x))

\* swap_nodes of two nodes that are linked to other nodes or to themselves.
LEMMA SwapLinked ==
  ASSUME NEW h \in Heaps, NEW a \in Addresses, NEW b \in Addresses, a # b,
         Mated(h, a), Mated(h, b)
  PROVE  swap_linked(h, a, b) \in Heaps /\ Flipped(swap_linked(h, a, b), h, a, b)
<1> DEFINE A == h.next[a]
           B == h.next[b]
           g == swap_linked(h, a, b)
<1> USE DEF swap_linked, swap_next, swap_prev, get_previous, get_next,
            set_next, set_previous, Heaps
<1>0. /\ A \in Addresses /\ B \in Addresses
      /\ h.prev[a] \in Addresses /\ h.prev[b] \in Addresses /\ Null \notin Addresses
  BY HeaderAssumption DEF Mated, Addresses
<1>1. g \in Heaps
  BY <1>0, ZenonT(40) DEF Pointers
<1>2. ASSUME NEW x \in Addresses, Mated(h, x)
      PROVE  /\ g.next[Flip(a, b, x)] = Flip(a, b, h.next[x])
             /\ g.prev[Flip(a, b, x)] = Flip(a, b, h.prev[x])
  <2>1. CASE A = b
    BY <1>0, <1>2, <2>1, ZenonT(40) DEF Mated, Flip, Pointers
  <2>2. CASE B = a
    BY <1>0, <1>2, <2>2, ZenonT(40) DEF Mated, Flip, Pointers
  <2>3. CASE A # b /\ B # a
    BY <1>0, <1>2, <2>3, ZenonT(40) DEF Mated, Flip, Pointers
  <2>. QED
    BY <2>1, <2>2, <2>3, ZenonT(40)
<1>3. ASSUME NEW x \in Addresses, IsNull(h, x)
      PROVE  IsNull(g, x) /\ Flip(a, b, x) = x
  <2>1. /\ h.next[x] = Null /\ h.prev[x] = Null
        /\ x # a /\ x # b /\ x # A /\ x # B /\ x # h.prev[a] /\ x # h.prev[b]
    BY <1>0, <1>3 DEF Mated, IsNull
  <2>2. CASE A = b
    BY <1>0, <2>1, <2>2, ZenonT(40) DEF Mated, Flip, IsNull
  <2>3. CASE B = a
    BY <1>0, <2>1, <2>3, ZenonT(40) DEF Mated, Flip, IsNull
  <2>4. CASE A # b /\ B # a
    BY <1>0, <2>1, <2>4 DEF Mated, Flip, IsNull
  <2>. QED
    BY <2>2, <2>3, <2>4
<1> HIDE DEF g, swap_linked
<1>. QED
  BY <1>1, <1>2, <1>3 DEF Flipped, g

\* swap_nodes, pointer by pointer.
LEMMA SwapNodes ==
  ASSUME NEW h \in Heaps, NEW a \in Addresses, NEW b \in Addresses,
         Mated(h, a) \/ IsNull(h, a), Mated(h, b) \/ IsNull(h, b)
  PROVE  swap_nodes(h, a, b) \in Heaps /\ Flipped(swap_nodes(h, a, b), h, a, b)
<1> DEFINE h1 == IF inited(h, a) THEN init_header(h, a) ELSE h
           h2 == IF inited(h, b) THEN init_header(h1, b) ELSE h1
           h3 == swap_linked(h2, a, b)
           h4 == IF inited(h, a) THEN init(h3, b) ELSE h3
           g  == IF inited(h, b) THEN init(h4, a) ELSE h4
<1>1. CASE a = b
  BY <1>1 DEF swap_nodes, Flipped, Flip
<1>2. CASE a # b
  <2>1. swap_nodes(h, a, b) = g
    BY <1>2 DEF swap_nodes
  <2>2. /\ inited(h, a) <=> IsNull(h, a)
        /\ inited(h, b) <=> IsNull(h, b)
        /\ Null \notin Addresses
    BY HeaderAssumption DEF Mated, IsNull, inited, get_next, Addresses
  <2>3. /\ h2 \in Heaps
        /\ \A x \in Addresses :
             /\ h2.next[x] = IF inited(h, x) /\ x \in {a, b} THEN x ELSE h.next[x]
             /\ h2.prev[x] = IF inited(h, x) /\ x \in {a, b} THEN x ELSE h.prev[x]
    BY <1>2 DEF init_header, set_next, set_previous, Heaps, Pointers
  <2>. HIDE DEF h2
  <2>4. ASSUME NEW x \in Addresses, Mated(h, x)
        PROVE  /\ Mated(h2, x) /\ h2.next[x] = h.next[x] /\ h2.prev[x] = h.prev[x]
               /\ inited(h, a) => x # a
               /\ inited(h, b) => x # b
    BY <2>2, <2>3, <2>4 DEF Mated, IsNull
  <2>5. Mated(h2, a) /\ Mated(h2, b)
    <3>1. ASSUME NEW x \in {a, b}, IsNull(h, x)
          PROVE  Mated(h2, x)
      BY <2>2, <2>3, <3>1 DEF Mated
    <3>. QED
      BY <2>4, <3>1
  <2>6. h3 \in Heaps /\ Flipped(h3, h2, a, b)
    BY <1>2, <2>3, <2>5, SwapLinked
  <2>. HIDE DEF h3
  <2>7. /\ g \in Heaps
        /\ \A x \in Addresses :
             /\ g.next[x] = IF (x = b /\ inited(h, a)) \/ (x = a /\ inited(h, b))
                            THEN Null ELSE h3.next[x]
             /\ g.prev[x] = IF (x = b /\ inited(h, a)) \/ (x = a /\ inited(h, b))
                            THEN Null ELSE h3.prev[x]
    BY <2>6 DEF init, set_next, set_previous, Heaps, Pointers
  <2>. HIDE DEF g
  <2>8. ASSUME NEW x \in Addresses, Mated(h, x)
        PROVE  /\ g.next[Flip(a, b, x)] = Flip(a, b, h.next[x])
               /\ g.prev[Flip(a, b, x)] = Flip(a, b, h.prev[x])
    <3>1. /\ Flip(a, b, x) \in Addresses
          /\ inited(h, a) => Flip(a, b, x) # b
          /\ inited(h, b) => Flip(a, b, x) # a
      BY <2>4, <2>8 DEF Flip
    <3>. QED
      BY <2>4, <2>6, <2>7, <2>8, <3>1 DEF Flipped
  <2>9. ASSUME NEW x \in Addresses, IsNull(h, x)
        PROVE  IsNull(g, Flip(a, b, x))
    <3>1. CASE x \in {a, b}
      BY <2>2, <2>7, <2>9, <3>1 DEF Flip, IsNull
    <3>2. CASE x \notin {a, b}
      <4>1. IsNull(h2, x) /\ Flip(a, b, x) = x
        BY <2>3, <2>9, <3>2 DEF IsNull, Flip
      <4>2. IsNull(h3, x)
        BY <2>6, <4>1 DEF Flipped
      <4>. QED
        BY <2>7, <3>2, <4>1, <4>2 DEF IsNull
    <3>. QED
      BY <3>1, <3>2
  <2>. QED
    BY <2>1, <2>7, <2>8, <2>9 DEF Flipped
<1>. QED
  BY <1>1, <1>2

\* The sequences fs are es with a and b in each other's place.
Relabelled(fs, es, a, b) ==
  /\ fs \in Contents
  /\ \A l \in Lists :
       /\ Len(fs[Flip(a, b, l)]) = Len(es[l])
       /\ \A i \in 1..Len(es[l]) : fs[Flip(a, b, l)][i] = Flip(a, b, es[l][i])

\* Trading a and b twice changes nothing.
LEMMA FlipProperties ==
  ASSUME NEW a, NEW b, {a, b} \subseteq Nodes \/ {a, b} \subseteq Lists
  PROVE  /\ \A x : Flip(a, b, Flip(a, b, x)) = x
         /\ \A x \in Nodes : Flip(a, b, x) \in Nodes
         /\ \A x \in Lists : Flip(a, b, x) \in Lists
         /\ a \in Addresses /\ b \in Addresses
  BY HeaderAssumption DEF Flip, Addresses

\* Headers and elements of lists are linked from both sides.
LEMMA Linked ==
  ASSUME NEW h, NEW es, Good(h, es)
  PROVE  /\ \A l \in Lists : \A i \in 0..(Len(es[l]) + 1) : Mated(h, At(es, l, i))
         /\ \A l \in Lists : Mated(h, l)
         /\ \A n \in Nodes : ~Out(es, n) => Mated(h, n)
<1>1. ASSUME NEW l \in Lists
      PROVE  Mated(h, l)
  <2>1. Len(es[l]) \in Nat
    BY Neighbours
  <2>2. /\ 0 \in 0..Len(es[l]) /\ Len(es[l]) \in 0..Len(es[l])
        /\ 1 \in 1..(Len(es[l]) + 1) /\ Len(es[l]) + 1 \in 1..(Len(es[l]) + 1)
        /\ Len(es[l]) + 1 - 1 = Len(es[l]) /\ 1 - 1 = 0
    BY <2>1
  <2>3. At(es, l, 0) = l /\ At(es, l, Len(es[l]) + 1) = l
    BY <2>1 DEF At
  <2>. QED
    BY <2>1, <2>2, <2>3, Neighbours DEF Mated
<1>2. ASSUME NEW l \in Lists, NEW i \in 1..Len(es[l])
      PROVE  Mated(h, At(es, l, i))
  <2>1. Len(es[l]) \in Nat
    BY Neighbours
  <2>2. /\ i \in 0..Len(es[l]) /\ i \in 1..(Len(es[l]) + 1)
        /\ i - 1 \in 0..Len(es[l]) /\ i + 1 \in 1..(Len(es[l]) + 1)
        /\ i + 1 - 1 = i /\ i - 1 + 1 = i /\ i - 1 \in Int /\ i + 1 \in Int
    BY <2>1
  <2>. QED
    BY <2>2, Neighbours DEF Mated
<1>3. ASSUME NEW l \in Lists, NEW i \in 0..(Len(es[l]) + 1)
      PROVE  Mated(h, At(es, l, i))
  BY <1>1, <1>2 DEF At
<1>4. ASSUME NEW n \in Nodes, ~Out(es, n)
      PROVE  Mated(h, n)
  <2>1. PICK l \in Lists : \E i \in 1..Len(es[l]) : es[l][i] = n
    BY <1>4 DEF Out
  <2>2. PICK i \in 1..Len(es[l]) : es[l][i] = n
    BY <2>1
  <2>. QED
    BY <1>2, <2>2 DEF At
<1>. QED
  BY <1>1, <1>3, <1>4

\* A heap stays good when two nodes trade places.
LEMMA SwapGood ==
  ASSUME NEW h, NEW es, Good(h, es),
         NEW a, NEW b, {a, b} \subseteq Nodes \/ {a, b} \subseteq Lists,
         ~safemode_or_autounlink => \A n \in {a, b} \cap Nodes : ~Out(es, n),
         NEW fs, Relabelled(fs, es, a, b)
  PROVE  Good(swap_nodes(h, a, b), fs)
<1> DEFINE g == swap_nodes(h, a, b)
           flip(x) == Flip(a, b, x)
<1>0. /\ h \in Heaps /\ es \in Contents /\ Disjoint(es) /\ Spells(h, es) /\ Quiet(h, es)
      /\ fs \in Contents
  BY DEF Good, Relabelled
<1>1. /\ \A x : flip(flip(x)) = x
      /\ \A x \in Nodes : flip(x) \in Nodes
      /\ \A x \in Lists : flip(x) \in Lists
      /\ a \in Addresses /\ b \in Addresses
  BY FlipProperties
<1>2. /\ \A l \in Lists : Len(es[l]) \in Nat /\ Len(fs[flip(l)]) = Len(es[l])
      /\ \A l \in Lists : \A i \in 1..Len(es[l]) : fs[flip(l)][i] = flip(es[l][i])
  BY <1>0 DEF Relabelled, Contents
<1>3. g \in Heaps /\ Flipped(g, h, a, b)
  <2>1. ASSUME NEW n \in {a, b}
        PROVE  Mated(h, n) \/ IsNull(h, n)
    <3>1. CASE n \in Lists
      BY <3>1, Linked
    <3>2. CASE n \in Nodes
      BY <1>0, <3>2, Linked DEF Quiet, IsNull
    <3>. QED
      BY <1>1, <3>1, <3>2 DEF Addresses
  <2>. QED
    BY <1>0, <1>1, <2>1, SwapNodes
<1> HIDE DEF g, flip
<1>4. \A l \in Lists, i \in Int : At(fs, flip(l), i) = flip(At(es, l, i))
  BY <1>1, <1>2 DEF At
<1>5. Spells(g, fs)
  <2>1. ASSUME NEW m \in Lists, NEW i \in 0..Len(fs[m])
        PROVE  /\ g.next[At(fs, m, i)] = At(fs, m, i + 1)
               /\ g.prev[At(fs, m, i + 1)] = At(fs, m, i)
    <3>1. PICK l \in Lists : flip(l) = m
      BY <1>1
    <3>2. /\ i \in 0..Len(es[l]) /\ i \in Int /\ i + 1 \in Int
          /\ i \in 0..(Len(es[l]) + 1) /\ i + 1 \in 0..(Len(es[l]) + 1)
      BY <1>2, <3>1
    <3>3. At(fs, m, i) = flip(At(es, l, i)) /\ At(fs, m, i + 1) = flip(At(es, l, i + 1))
      BY <1>4, <3>1, <3>2
    <3>4. /\ h.next[At(es, l, i)] = At(es, l, i + 1)
          /\ h.prev[At(es, l, i + 1)] = At(es, l, i)
      BY <1>0, <3>2 DEF Spells
    <3>5. /\ At(es, l, i) \in Addresses /\ At(es, l, i + 1) \in Addresses
          /\ Mated(h, At(es, l, i)) /\ Mated(h, At(es, l, i + 1))
      BY <3>2, Linked, Neighbours
    <3>. QED
      BY <1>3, <3>3, <3>4, <3>5 DEF Flipped, flip
  <2>. QED
    BY <2>1 DEF Spells
<1>6. Disjoint(fs)
  <2>1. SUFFICES ASSUME NEW l1 \in Lists, NEW m1 \in Lists,
                        NEW i \in 1..Len(fs[l1]), NEW j \in 1..Len(fs[m1]),
                        fs[l1][i] = fs[m1][j]
                 PROVE  l1 = m1 /\ i = j
    BY DEF Disjoint
  <2>2. PICK l \in Lists : flip(l) = l1
    BY <1>1
  <2>3. PICK m \in Lists : flip(m) = m1
    BY <1>1
  <2>4. /\ i \in 1..Len(es[l]) /\ j \in 1..Len(es[m])
        /\ flip(es[l][i]) = flip(es[m][j])
    BY <1>2, <2>1, <2>2, <2>3
  <2>5. es[l][i] = es[m][j]
    BY <1>1, <2>4
  <2>6. l = m /\ i = j
    BY <1>0, <2>4, <2>5, OnePlace
  <2>. QED
    BY <2>2, <2>3, <2>6
<1>7. Quiet(g, fs)
  <2>1. SUFFICES ASSUME safemode_or_autounlink, NEW n \in Nodes, Out(fs, n)
                 PROVE  g.next[n] = Null /\ g.prev[n] = Null
    BY DEF Quiet
  <2>2. Out(es, flip(n))
    <3>1. ASSUME NEW l \in Lists, NEW i \in 1..Len(es[l]), es[l][i] = flip(n)
          PROVE  FALSE
      <4>1. /\ flip(l) \in Lists /\ i \in 1..Len(fs[flip(l)])
            /\ fs[flip(l)][i] = n
        BY <1>1, <1>2, <3>1
      <4>. QED
        BY <2>1, <4>1 DEF Out
    <3>. QED
      BY <3>1 DEF Out
  <2>3. IsNull(h, flip(n)) /\ flip(n) \in Addresses /\ flip(flip(n)) = n
    BY <1>0, <1>1, <2>1, <2>2 DEF Quiet, IsNull, Addresses
  <2>. QED
    BY <1>3, <2>3 DEF Flipped, IsNull, flip
<1>. QED
  BY <1>0, <1>3, <1>5, <1>6, <1>7 DEF Good, g

\* An exchange of lists is a trade of their headers.
LEMMA SwapListsRelabels ==
  ASSUME NEW es \in Contents, NEW l \in Lists, NEW m \in Lists
  PROVE  Relabelled([es EXCEPT ![l] = es[m], ![m] = es[l]], es, l, m)
<1>1. \A o \in Lists : es[o] \in Seq(Nodes)
  BY DEF Contents
<1>2. \A o \in Lists : \A i \in 1..Len(es[o]) : es[o][i] \in Nodes
  BY <1>1
<1>3. \A n \in Nodes : Flip(l, m, n) = n
  BY HeaderAssumption DEF Flip
<1> DEFINE fs == [es EXCEPT ![l] = es[m], ![m] = es[l]]
<1>4. fs \in Contents /\ \A o \in Lists : fs[Flip(l, m, o)] = es[o]
  BY DEF Contents, Flip
<1> HIDE DEF fs
<1>5. Relabelled(fs, es, l, m)
  BY <1>2, <1>3, <1>4 DEF Relabelled
<1>. QED
  BY <1>5 DEF fs

\* An exchange of elements is a trade of their hooks.
LEMMA ExchangeRelabels ==
  ASSUME NEW es \in Contents, NEW a \in Nodes, NEW b \in Nodes,
         NEW fs, fs = [l \in Lists |-> [i \in 1..Len(es[l]) |-> Flip(a, b, es[l][i])]]
  PROVE  Relabelled(fs, es, a, b) /\ \A l \in Lists : Len(fs[l]) = Len(es[l])
<1>1. ASSUME NEW l \in Lists
      PROVE  /\ fs[l] \in Seq(Nodes) /\ Len(fs[l]) = Len(es[l])
             /\ \A i \in 1..Len(es[l]) : fs[l][i] = Flip(a, b, es[l][i])
             /\ Flip(a, b, l) = l
  <2>1. es[l] \in Seq(Nodes) /\ Len(es[l]) \in Nat
    BY DEF Contents
  <2>2. fs[l] = [i \in 1..Len(es[l]) |-> Flip(a, b, es[l][i])]
    OBVIOUS
  <2>3. \A i \in 1..Len(es[l]) : Flip(a, b, es[l][i]) \in Nodes
    BY <2>1 DEF Flip
  <2>4. fs[l] \in Seq(Nodes) /\ Len(fs[l]) = Len(es[l])
    BY <2>1, <2>2, <2>3
  <2>. QED
    BY <2>2, <2>4, HeaderAssumption DEF Flip
<1>. QED
  BY <1>1 DEF Relabelled, Contents
-----------------------------------------------------------------------------
(* The inductive invariant: the four invariants of List together, because  *)
(* each operation reads the pointers (Represented), decides by the state   *)
(* of a hook (HooksTellMembership) and moves counts (SizeCounts).          *)

IInv == TypeOK /\ Represented /\ HooksTellMembership /\ SizeCounts

\* The same for given heap, contents and counters.
Sound(h, es, sz) == Good(h, es) /\ Sized(sz, Lengths(es))

\* The invariant in the terms of the proof.
LEMMA InvariantIsSound == IInv <=> Sound(heap, elems, size)
<1>1. \A n \in Nodes : Detached(n) <=> Out(elems, n)
  BY DEF Detached, Out, Positions
<1>2. TypeOK <=> heap \in Heaps /\ elems \in Contents /\ size \in [Lists -> 0..(SizeMod - 1)]
  BY DEF TypeOK, Heaps, Contents
<1>3. ASSUME TypeOK
      PROVE  SizeCounts <=> Sized(size, Lengths(elems))
  BY <1>2, <1>3, LengthsType DEF SizeCounts, Sized, Lengths
<1>4. ASSUME TypeOK, Represented, HooksTellMembership
      PROVE  Good(heap, elems)
  <2>1. Quiet(heap, elems)
    BY <1>1, <1>4 DEF HooksTellMembership, Quiet, inited, get_next, get_previous
  <2>. QED
    BY <1>2, <1>4, <2>1 DEF Good, Represented
<1>5. ASSUME Good(heap, elems)
      PROVE  Represented /\ HooksTellMembership
  <2>1. Represented
    BY <1>5 DEF Good, Represented
  <2>2. ASSUME safemode_or_autounlink, NEW n \in Nodes
        PROVE  /\ inited(heap, n) <=> Detached(n)
               /\ Detached(n) => get_previous(heap, n) = Null
    <3>1. CASE Out(elems, n)
      BY <1>1, <1>5, <2>2, <3>1 DEF Good, Quiet, inited, get_next, get_previous
    <3>2. CASE ~Out(elems, n)
      <4>1. Mated(heap, n)
        BY <1>5, <3>2, Linked
      <4>. QED
        BY <1>1, <3>2, <4>1, HeaderAssumption DEF Mated, inited, get_next, Addresses
    <3>. QED
      BY <3>1, <3>2
  <2>. QED
    BY <2>1, <2>2 DEF HooksTellMembership
<1>6. Sound(heap, elems, size) => TypeOK
  BY <1>2 DEF Sound, Good, Sized
<1>. QED
  BY <1>3, <1>4, <1>5, <1>6 DEF IInv, Sound

\* It holds at first.
LEMMA InitSound == Init => IInv
<1> SUFFICES ASSUME Init PROVE Sound(heap, elems, size)
  BY InvariantIsSound
<1> DEFINE fresh == IF safemode_or_autounlink THEN Null ELSE Junk
           self  == [n \in Addresses |-> IF n \in Lists THEN n ELSE fresh]
<1>1. /\ heap = [next |-> self, prev |-> self] /\ elems = [l \in Lists |-> <<>>]
      /\ size = [l \in Lists |-> 0]
  BY DEF Init, AInit
<1>2. self \in [Addresses -> Pointers]
  BY DEF Pointers, Addresses
<1>3. heap \in Heaps /\ elems \in Contents
  BY <1>1, <1>2 DEF Heaps, Contents
<1>4. \A l \in Lists : Len(elems[l]) = 0 /\ \A i \in Int : At(elems, l, i) = l
  BY <1>1 DEF At
<1>5. Disjoint(elems)
  BY <1>4 DEF Disjoint
<1>6. Spells(heap, elems)
  BY <1>1, <1>4 DEF Spells, Addresses
<1>7. Quiet(heap, elems)
  BY <1>1, HeaderAssumption DEF Quiet, Addresses
<1>8. Sized(size, Lengths(elems))
  <2>1. Lengths(elems) = [l \in Lists |-> 0]
    BY <1>4 DEF Lengths
  <2>2. SizeMod \in Nat /\ SizeMod > 0 /\ 0 \in Int
    BY OptionAssumption
  <2>3. 0 % SizeMod = 0
    BY <2>2, ModIs
  <2>4. Counted(0) = 0
    BY <2>3 DEF Counted
  <2>. QED
    BY <1>1, <2>1, <2>2, <2>4 DEF Sized
<1>. QED
  BY <1>3, <1>5, <1>6, <1>7, <1>8 DEF Sound, Good
-----------------------------------------------------------------------------
(* Every action keeps the state sound.                                     *)

\* An element linked in at position k.
LEMMA PasteOneSound ==
  ASSUME Sound(heap, elems, size), NEW l \in Lists, NEW n \in Nodes,
         NEW k \in 1..(Len(elems[l]) + 1), Insert(l, k, n),
         heap' = link_before(heap, At(elems, l, k), n), size' = increase(size, l, 1)
  PROVE  Sound(heap', elems', size')
<1>1. /\ Good(heap, elems) /\ elems \in Contents /\ Sized(size, Lengths(elems))
      /\ <<n>> \in Seq(Nodes) /\ Len(<<n>>) = 1
  BY DEF Sound, Good
<1>2. Out(elems, n) /\ elems' = [elems EXCEPT ![l] = Paste(@, k, <<n>>)]
  BY DEF Insert, Detached, Out, Positions
<1>3. Good(heap', elems')
  BY <1>1, <1>2, InsertGood
<1>4. Lengths(elems') = [Lengths(elems) EXCEPT ![l] = @ + 1]
  <2>1. Pasted(elems', elems, l, k, <<n>>)
    BY <1>1, <1>2, PastePastes
  <2>2. \A o \in Lists : Len(elems'[o]) = IF o = l THEN Len(elems[l]) + 1 ELSE Len(elems[o])
    BY <1>1, <2>1 DEF Pasted
  <2>. QED
    BY <2>2 DEF Lengths
<1>5. Sized(increase(size, l, 1), [Lengths(elems) EXCEPT ![l] = @ + 1])
  BY <1>1, Increase
<1>. QED
  BY <1>3, <1>4, <1>5 DEF Sound

\* The insertions.
LEMMA InsertSound ==
  ASSUME Sound(heap, elems, size), NEW l \in Lists, NEW n \in Nodes,
         \/ push_back(l, n)
         \/ push_front(l, n)
         \/ \E k \in EndPositions(l) : insert(l, k, n)
  PROVE  Sound(heap', elems', size')
<1>1. /\ Good(heap, elems) /\ Len(elems[l]) \in Nat
      /\ 1 \in 1..(Len(elems[l]) + 1) /\ Len(elems[l]) + 1 \in 1..(Len(elems[l]) + 1)
  BY Neighbours DEF Sound
<1>2. CASE push_back(l, n)
  <2>1. At(elems, l, Len(elems[l]) + 1) = l
    BY <1>1 DEF At
  <2>. QED
    BY <1>1, <1>2, <2>1, PasteOneSound DEF push_back
<1>3. CASE push_front(l, n)
  <2>1. heap.next[l] = At(elems, l, 1)
    <3>1. 0 \in 0..Len(elems[l]) /\ 0 + 1 = 1 /\ At(elems, l, 0) = l
      BY <1>1 DEF At
    <3>. QED
      BY <1>1, <3>1, Neighbours
  <2>. QED
    BY <1>1, <1>3, <2>1, PasteOneSound DEF push_front, get_next
<1>4. CASE \E k \in EndPositions(l) : insert(l, k, n)
  BY <1>4, PasteOneSound DEF insert, EndPositions, at
<1>. QED
  BY <1>2, <1>3, <1>4

\* The erasure of one element.
LEMMA CutOneSound ==
  ASSUME Sound(heap, elems, size), NEW l \in Lists, NEW i \in 1..Len(elems[l]),
         heap' = reset(unlink(heap, At(elems, l, i)), At(elems, l, i)),
         size' = decrease(size, l, 1),
         EraseRange(l, i, i + 1)
  PROVE  Sound(heap', elems', size')
<1>1. Good(heap, elems) /\ elems \in Contents /\ Sized(size, Lengths(elems))
  BY DEF Sound, Good
<1>2. Good(heap', elems')
  BY <1>1, EraseGood DEF EraseRange
<1>3. /\ Lengths(elems') = [Lengths(elems) EXCEPT ![l] = @ - 1]
      /\ 1 \in 0..Lengths(elems)[l]
  <2>1. /\ i \in 1..(Len(elems[l]) + 1) /\ i + 1 \in i..(Len(elems[l]) + 1)
        /\ i + 1 - i = 1 /\ 1 \in 0..Len(elems[l])
    BY <1>1, Neighbours
  <2>2. CutOut(elems', elems, l, i, i + 1)
    BY <1>1, <2>1, CutCuts DEF EraseRange
  <2>3. \A o \in Lists : Len(elems'[o]) = IF o = l THEN Len(elems[l]) - 1 ELSE Len(elems[o])
    BY <2>1, <2>2 DEF CutOut
  <2>. QED
    BY <2>1, <2>3 DEF Lengths
<1>4. Sized(decrease(size, l, 1), [Lengths(elems) EXCEPT ![l] = @ - 1])
  BY <1>1, <1>3, Decrease
<1>. QED
  BY <1>2, <1>3, <1>4 DEF Sound

\* All the operations that erase one element.
LEMMA EraseSound ==
  ASSUME Sound(heap, elems, size), NEW l \in Lists,
         \/ pop_back(l)
         \/ pop_front(l)
         \/ \E i \in Positions(l) : erase(l, i)
  PROVE  Sound(heap', elems', size')
<1>1. Good(heap, elems) /\ Len(elems[l]) \in Nat /\ elems[l] \in Seq(Nodes)
  BY Neighbours DEF Sound, Good, Contents
<1>2. CASE pop_back(l)
  <2>1. PICK i \in 1..Len(elems[l]) : i = Len(elems[l])
    BY <1>1, <1>2 DEF pop_back
  <2>2. heap.prev[l] = At(elems, l, i)
    <3>1. /\ i + 1 \in 1..(Len(elems[l]) + 1) /\ i + 1 - 1 = i
          /\ At(elems, l, i + 1) = l
      BY <1>1, <2>1 DEF At
    <3>. QED
      BY <1>1, <3>1, Neighbours
  <2>. QED
    BY <1>2, <2>1, <2>2, CutOneSound DEF pop_back, get_previous
<1>3. CASE pop_front(l)
  <2>1. PICK i \in 1..Len(elems[l]) : i = 1 /\ i + 1 = 2
    BY <1>1, <1>3 DEF pop_front
  <2>2. heap.next[l] = At(elems, l, i)
    <3>1. 0 \in 0..Len(elems[l]) /\ 0 + 1 = i /\ At(elems, l, 0) = l
      BY <1>1, <2>1 DEF At
    <3>. QED
      BY <1>1, <3>1, Neighbours
  <2>. QED
    BY <1>3, <2>1, <2>2, CutOneSound DEF pop_front, get_next
<1>4. CASE \E i \in Positions(l) : erase(l, i)
  BY <1>4, CutOneSound DEF erase, Positions, at
<1>. QED
  BY <1>2, <1>3, <1>4

\* The erasure of a range without a walk.
LEMMA EraseRangeSound ==
  ASSUME Sound(heap, elems, size), NEW l \in Lists,
         NEW i \in EndPositions(l), NEW j \in EndPositions(l), i <= j, erase_range(l, i, j)
  PROVE  Sound(heap', elems', size')
<1>1. /\ Good(heap, elems) /\ elems \in Contents /\ Sized(size, Lengths(elems))
      /\ i \in 1..(Len(elems[l]) + 1) /\ j \in i..(Len(elems[l]) + 1)
  BY Neighbours DEF Sound, Good, EndPositions
<1>2. Good(heap', elems')
  BY <1>1, EraseRangeGood DEF erase_range, EraseRange, at
<1>3. /\ Lengths(elems') = [Lengths(elems) EXCEPT ![l] = @ - (j - i)]
      /\ j - i \in 0..Lengths(elems)[l]
  <2>1. CutOut(elems', elems, l, i, j)
    BY <1>1, CutCuts DEF erase_range, EraseRange
  <2>2. \A o \in Lists :
          Len(elems'[o]) = IF o = l THEN Len(elems[l]) - (j - i) ELSE Len(elems[o])
    BY <2>1 DEF CutOut
  <2>3. j - i \in 0..Len(elems[l])
    BY <1>1, Neighbours
  <2>. QED
    BY <2>2, <2>3 DEF Lengths
<1>4. Sized(decrease(size, l, j - i), [Lengths(elems) EXCEPT ![l] = @ - (j - i)])
  BY <1>1, <1>3, Decrease
<1>. QED
  BY <1>2, <1>3, <1>4 DEF Sound, erase_range

\* The erasure of everything.
LEMMA ClearSound ==
  ASSUME Sound(heap, elems, size), NEW l \in Lists, clear(l)
  PROVE  Sound(heap', elems', size')
<1>1. Good(heap, elems) /\ elems \in Contents /\ Sized(size, Lengths(elems))
  BY DEF Sound, Good
<1>2. Good(heap', elems')
  BY <1>1, ClearGood DEF clear, Empty
<1>3. Lengths(elems') = [Lengths(elems) EXCEPT ![l] = 0]
  BY <1>1 DEF clear, Empty, Lengths, Contents
<1>4. Sized(set_size(size, l, 0), [Lengths(elems) EXCEPT ![l] = 0])
  BY <1>1, SetSize
<1>. QED
  BY <1>2, <1>3, <1>4 DEF Sound, clear

\* An element that leaves by itself.
LEMMA HookUnlinkSound ==
  ASSUME Sound(heap, elems, size), NEW n \in Nodes, hook_unlink(n)
  PROVE  Sound(heap', elems', size')
<1>1. /\ Good(heap, elems) /\ elems \in Contents /\ Sized(size, Lengths(elems))
      /\ safemode_or_autounlink /\ ~ConstantTimeSize /\ size' = size
  BY OptionAssumption DEF Sound, Good, hook_unlink, safemode_or_autounlink
<1>2. Detached(n) <=> Out(elems, n)
  BY DEF Detached, Out, Positions
<1>3. CASE Detached(n)
  <2>1. heap.next[n] = Null
    BY <1>1, <1>2, <1>3 DEF Good, Quiet
  <2>. QED
    BY <1>1, <1>3, <2>1 DEF hook_unlink, Sound, inited, get_next
<1>4. CASE ~Detached(n)
  <2>1. heap.next[n] # Null
    BY <1>1, <1>2, <1>4, Linked, HeaderAssumption DEF Mated, Addresses
  <2>2. /\ heap' = reset(unlink(heap, n), n)
        /\ \E l \in Lists : \E i \in Positions(l) :
              elems[l][i] = n /\ EraseRange(l, i, i + 1)
    BY <1>1, <1>4, <2>1 DEF hook_unlink, inited, get_next, reset
  <2>3. PICK l \in Lists : \E i \in Positions(l) :
              elems[l][i] = n /\ EraseRange(l, i, i + 1)
    BY <2>2
  <2>4. PICK i \in 1..Len(elems[l]) : elems[l][i] = n /\ EraseRange(l, i, i + 1)
    BY <2>3 DEF Positions
  <2>5. At(elems, l, i) = n
    BY <2>4 DEF At
  <2>6. Good(heap', elems')
    BY <1>1, <2>2, <2>4, <2>5, EraseGood DEF EraseRange
  <2>7. Sized(size, Lengths(elems'))
    <3>1. Lengths(elems') \in [Lists -> Nat]
      BY <2>6, LengthsType DEF Good
    <3>. QED
      BY <1>1, <3>1, Uncounted
  <2>. QED
    BY <1>1, <2>6, <2>7 DEF Sound
<1>. QED
  BY <1>3, <1>4

\* The transfer of one element.
LEMMA SpliceOneSound ==
  ASSUME Sound(heap, elems, size), NEW l \in Lists, NEW m \in Lists,
         NEW k \in EndPositions(l), NEW i \in Positions(m), splice_one(l, k, m, i)
  PROVE  Sound(heap', elems', size')
<1>1. /\ Good(heap, elems) /\ elems \in Contents /\ Sized(size, Lengths(elems))
      /\ k \in 1..(Len(elems[l]) + 1) /\ i \in 1..Len(elems[m])
      /\ Len(elems[m]) \in Nat
  BY Neighbours DEF Sound, Good, EndPositions, Positions
<1>2. /\ elems' = Moved(elems, l, k, m, i, i + 1)
      /\ l = m => k <= i \/ i + 1 <= k
  BY MoveIs DEF splice_one
<1>3. Good(heap', elems')
  BY <1>1, <1>2, TransferOneGood DEF splice_one, at
<1>4. PICK j \in i..(Len(elems[m]) + 1) : j = i + 1 /\ 1 = j - i
  BY <1>1
<1>5. i \in 1..(Len(elems[m]) + 1)
  BY <1>1
<1>6. Sized(increase(decrease(size, m, 1), l, 1), Lengths(Moved(elems, l, k, m, i, j)))
  BY <1>1, <1>2, <1>4, <1>5, Recount
<1>. QED
  BY <1>2, <1>3, <1>4, <1>6 DEF Sound, splice_one

\* The transfer of a range, between two lists or inside one.
LEMMA SpliceRangeSound ==
  ASSUME Sound(heap, elems, size), NEW l \in Lists, NEW m \in Lists,
         NEW k \in EndPositions(l), NEW i \in EndPositions(m), NEW j \in EndPositions(m),
         i <= j, splice_range(l, k, m, i, j)
  PROVE  Sound(heap', elems', size')
<1>1. /\ Good(heap, elems) /\ elems \in Contents /\ Sized(size, Lengths(elems))
      /\ k \in 1..(Len(elems[l]) + 1) /\ i \in 1..(Len(elems[m]) + 1)
      /\ j \in i..(Len(elems[m]) + 1)
  BY Neighbours DEF Sound, Good, EndPositions
<1>2. /\ elems' = Moved(elems, l, k, m, i, j)
      /\ l = m => k <= i \/ j <= k
      /\ j - i < SizeMod
  BY MoveIs DEF splice_range
<1> DEFINE n == IF ConstantTimeSize THEN (j - i) % SizeMod ELSE 1
<1>3. ConstantTimeSize => n = j - i
  <2>1. /\ SizeMod \in Nat /\ SizeMod > 0 /\ j - i \in Int /\ j - i \in 0..(SizeMod - 1)
        /\ 0 \in Int /\ j - i = SizeMod * 0 + (j - i)
    BY <1>1, <1>2, OptionAssumption
  <2>. QED
    BY <2>1, ModIs
<1>4. CASE n = 0
  <2>1. i = j /\ heap' = heap /\ size' = size
    BY <1>1, <1>3, <1>4 DEF splice_range
  <2>2. elems' = elems
    BY <1>1, <1>2, <2>1, MoveNowhere
  <2>. QED
    BY <2>1, <2>2
<1>5. CASE n # 0
  <2>1. /\ heap' = transfer(heap, At(elems, l, k), At(elems, m, i), At(elems, m, j))
        /\ size' = decrease(increase(size, l, n), m, n)
    BY <1>5 DEF splice_range, at
  <2>2. Good(heap', elems')
    BY <1>1, <1>2, <2>1, TransferGood
  <2>. HIDE DEF n
  <2>3. Sized(size', Lengths(elems'))
    <3>1. CASE ConstantTimeSize
      BY <1>1, <1>2, <1>3, <2>1, <3>1, Recount
    <3>2. CASE ~ConstantTimeSize
      <4>1. Lengths(elems') \in [Lists -> Nat]
        BY <2>2, LengthsType DEF Good
      <4>. QED
        BY <1>1, <2>1, <3>2, <4>1, Uncounted
    <3>. QED
      BY <3>1, <3>2
  <2>. QED
    BY <2>2, <2>3 DEF Sound
<1>. QED
  BY <1>4, <1>5

\* The transfer of a whole list.
LEMMA SpliceAllSound ==
  ASSUME Sound(heap, elems, size), NEW l \in Lists, NEW m \in Lists,
         NEW k \in EndPositions(l), splice_all(l, k, m)
  PROVE  Sound(heap', elems', size')
<1>1. /\ Good(heap, elems) /\ elems \in Contents /\ Sized(size, Lengths(elems))
      /\ k \in 1..(Len(elems[l]) + 1) /\ Len(elems[m]) \in Nat /\ l # m
  BY Neighbours DEF Sound, Good, EndPositions, splice_all
<1>2. PICK i \in 1..(Len(elems[m]) + 1) : i = 1
  BY <1>1
<1>3. PICK j \in i..(Len(elems[m]) + 1) : j = Len(elems[m]) + 1 /\ j - i = Len(elems[m])
  BY <1>1, <1>2
<1>4. elems' = Moved(elems, l, k, m, i, j)
  BY <1>2, <1>3, MoveIs DEF splice_all
<1>5. heap.next[m] = At(elems, m, i) /\ At(elems, m, j) = m
  <2>1. 0 \in 0..Len(elems[m]) /\ 0 + 1 = i /\ At(elems, m, 0) = m
    BY <1>1, <1>2 DEF At
  <2>. QED
    BY <1>1, <1>3, <2>1, Neighbours DEF At
<1>6. empty(m) <=> i = j
  <2>1. i = j => At(elems, m, i) = m
    BY <1>5
  <2>2. i # j => At(elems, m, i) \in Nodes
    BY <1>1, <1>2, <1>3, AtNode
  <2>. QED
    BY <1>5, <2>1, <2>2, HeaderAssumption DEF empty, unique, get_next
<1>7. CASE empty(m)
  <2>1. heap' = heap /\ size' = size /\ elems' = elems
    BY <1>1, <1>4, <1>6, <1>7, MoveNowhere DEF splice_all
  <2>. QED
    BY <2>1
<1>8. CASE ~empty(m)
  <2>1. /\ heap' = transfer(heap, At(elems, l, k), At(elems, m, i), At(elems, m, j))
        /\ size' = set_size(increase(size, l, size[m]), m, 0)
    BY <1>5, <1>8 DEF splice_all, at, get_next
  <2>2. Good(heap', elems')
    BY <1>1, <1>4, <2>1, TransferGood
  <2>3. Sized(size', Lengths(elems'))
    <3>1. Sized(set_size(increase(size, l, size[m]), m, 0), Lengths(elems'))
      BY <1>1, <1>3, <1>4, TakeAllSizes
    <3>. QED
      BY <2>1, <3>1
  <2>. QED
    BY <2>2, <2>3 DEF Sound
<1>. QED
  BY <1>7, <1>8

\* The exchange of two lists.
LEMMA SwapSound ==
  ASSUME Sound(heap, elems, size), NEW l \in Lists, NEW m \in Lists, swap(l, m)
  PROVE  Sound(heap', elems', size')
<1>1. /\ Good(heap, elems) /\ elems \in Contents /\ Sized(size, Lengths(elems))
      /\ elems' = [elems EXCEPT ![l] = elems[m], ![m] = elems[l]]
  BY DEF Sound, Good, swap, SwapLists
<1>2. Relabelled(elems', elems, l, m)
  BY <1>1, SwapListsRelabels
<1>3. Good(heap', elems')
  <2>1. {l, m} \cap Nodes = {}
    BY HeaderAssumption
  <2>. QED
    BY <1>1, <1>2, <2>1, SwapGood DEF swap
<1>4. Sized(size', Lengths(elems'))
  BY <1>1, SwapSizes DEF swap
<1>. QED
  BY <1>3, <1>4 DEF Sound

\* The exchange of two elements.
LEMMA HookSwapSound ==
  ASSUME Sound(heap, elems, size), NEW a \in Nodes, NEW b \in Nodes, hook_swap_nodes(a, b)
  PROVE  Sound(heap', elems', size')
<1>1. /\ Good(heap, elems) /\ elems \in Contents /\ Sized(size, Lengths(elems))
      /\ heap' = swap_nodes(heap, a, b) /\ size' = size
      /\ ~safemode_or_autounlink => ~Out(elems, a) /\ ~Out(elems, b)
  BY DEF Sound, Good, hook_swap_nodes, Detached, Out, Positions
<1>2. elems' = [l \in Lists |-> [i \in 1..Len(elems[l]) |-> Flip(a, b, elems[l][i])]]
  BY DEF hook_swap_nodes, Exchange, Positions, Flip
<1>3. /\ Relabelled(elems', elems, a, b)
      /\ \A l \in Lists : Len(elems'[l]) = Len(elems[l])
  BY <1>1, <1>2, ExchangeRelabels
<1>4. Good(heap', elems')
  BY <1>1, <1>3, SwapGood
<1>5. Lengths(elems') = Lengths(elems)
  BY <1>3 DEF Lengths
<1>. QED
  BY <1>1, <1>4, <1>5 DEF Sound
-----------------------------------------------------------------------------
\* Every step keeps the invariant.
LEMMA StepSound == IInv /\ [Next]_vars => IInv'
<1> SUFFICES ASSUME Sound(heap, elems, size), [Next]_vars
             PROVE  Sound(heap', elems', size')
  <2>1. (IInv <=> Sound(heap, elems, size))'
    BY InvariantIsSound, PTL
  <2>2. IInv' <=> Sound(heap', elems', size')
    BY <2>1
  <2>. QED
    BY <2>2, InvariantIsSound
<1>1. CASE InsertNext
  BY <1>1, InsertSound DEF InsertNext
<1>2. CASE EraseNext
  <2>1. ASSUME NEW l \in Lists,
               \/ pop_back(l)
               \/ pop_front(l)
               \/ \E i \in Positions(l) : erase(l, i)
        PROVE  Sound(heap', elems', size')
    BY <2>1, EraseSound
  <2>2. ASSUME NEW l \in Lists, clear(l)
        PROVE  Sound(heap', elems', size')
    BY <2>2, ClearSound
  <2>3. ASSUME NEW l \in Lists, NEW i \in EndPositions(l), NEW j \in EndPositions(l),
               i <= j, erase_range(l, i, j)
        PROVE  Sound(heap', elems', size')
    BY <2>3, EraseRangeSound
  <2>4. ASSUME NEW n \in Nodes, hook_unlink(n)
        PROVE  Sound(heap', elems', size')
    BY <2>4, HookUnlinkSound
  <2>. QED
    BY <1>2, <2>1, <2>2, <2>3, <2>4 DEF EraseNext
<1>3. CASE TransferNext
  <2>1. ASSUME NEW l \in Lists, NEW m \in Lists, swap(l, m)
        PROVE  Sound(heap', elems', size')
    BY <2>1, SwapSound
  <2>2. ASSUME NEW l \in Lists, NEW m \in Lists, NEW k \in EndPositions(l),
               splice_all(l, k, m)
        PROVE  Sound(heap', elems', size')
    BY <2>2, SpliceAllSound
  <2>3. ASSUME NEW l \in Lists, NEW m \in Lists, NEW k \in EndPositions(l),
               NEW i \in Positions(m), splice_one(l, k, m, i)
        PROVE  Sound(heap', elems', size')
    BY <2>3, SpliceOneSound
  <2>4. ASSUME NEW l \in Lists, NEW m \in Lists, NEW k \in EndPositions(l),
               NEW i \in EndPositions(m), NEW j \in EndPositions(m),
               i <= j, splice_range(l, k, m, i, j)
        PROVE  Sound(heap', elems', size')
    BY <2>4, SpliceRangeSound
  <2>5. ASSUME NEW a \in Nodes, NEW b \in Nodes, hook_swap_nodes(a, b)
        PROVE  Sound(heap', elems', size')
    BY <2>5, HookSwapSound
  <2>. QED
    BY <1>3, <2>1, <2>2, <2>3, <2>4, <2>5 DEF TransferNext
<1>4. CASE UNCHANGED vars
  BY <1>4 DEF vars
<1>. QED
  BY <1>1, <1>2, <1>3, <1>4 DEF Next

(* The inductive invariant holds in every reachable state.                 *)
THEOREM Invariant == Spec => []IInv
<1>1. Init => IInv
  BY InitSound
<1>2. IInv /\ [Next]_vars => IInv'
  BY StepSound
<1>. QED
  BY <1>1, <1>2, PTL DEF Spec

(* The state always has its type: no operation writes anything but the     *)
(* address of an element or of a header, or null, into a hook, and no      *)
(* counter leaves the range of size_type.                                  *)
THEOREM TypeCorrect == Spec => []TypeOK
<1>1. IInv => TypeOK
  BY DEF IInv
<1>. QED
  BY <1>1, Invariant, PTL

(* list_impl's operations never lose, duplicate or reorder an element: the *)
(* pointers of all the lists spell the sequences their callers built, for  *)
(* any number of lists and elements and in every link mode.                *)
THEOREM ListsAreRepresented == Spec => []Represented
<1>1. IInv => Represented
  BY DEF IInv
<1>. QED
  BY <1>1, Invariant, PTL

(* A safe_link or auto_unlink hook tells whether its element is in a list. *)
THEOREM HooksAreRight == Spec => []HooksTellMembership
<1>1. IInv => HooksTellMembership
  BY DEF IInv
<1>. QED
  BY <1>1, Invariant, PTL

(* The size_holder of every list counts its elements, modulo 2^w, whatever *)
(* the width of size_type.                                                 *)
THEOREM SizesAreRight == Spec => []SizeCounts
<1>1. IInv => SizeCounts
  BY DEF IInv
<1>. QED
  BY <1>1, Invariant, PTL
-----------------------------------------------------------------------------
(* The promise kept: what the pointers spell is edited as AbstractList     *)
(* says.                                                                   *)

\* Pointers spell one sequence per list only.
LEMMA OneSpelling ==
  ASSUME NEW h, NEW es \in Contents, NEW fs \in Contents, Spells(h, es), Spells(h, fs)
  PROVE  es = fs
<1>1. ASSUME NEW l \in Lists, NEW i \in Nat, i <= Len(es[l]) + 1, i <= Len(fs[l]) + 1
      PROVE  At(es, l, i) = At(fs, l, i)
  <2> DEFINE T == {x \in Nat : /\ x <= Len(es[l]) + 1 /\ x <= Len(fs[l]) + 1
                               /\ At(es, l, x) # At(fs, l, x)}
  <2> SUFFICES ASSUME T # {}
               PROVE  FALSE
    BY <1>1
  <2>1. PICK x \in T : \A y \in T : x <= y
    BY LeastElement
  <2>2. At(es, l, 0) = l /\ At(fs, l, 0) = l
    BY DEF At
  <2>3. x \in Nat /\ x # 0
    BY <2>2
  <2>4. PICK y \in Nat : y = x - 1 /\ y + 1 = x
    BY <2>3
  <2>5. y \in 0..Len(es[l]) /\ y \in 0..Len(fs[l]) /\ y \notin T
    BY <2>1, <2>4 DEF Contents
  <2>6. At(es, l, y) = At(fs, l, y)
    BY <2>5
  <2>7. At(es, l, y + 1) = At(fs, l, y + 1)
    BY <2>5, <2>6 DEF Spells
  <2>. QED
    BY <2>4, <2>7
<1>2. ASSUME NEW l \in Lists
      PROVE  Len(es[l]) = Len(fs[l])
  <2>1. Len(es[l]) \in Nat /\ Len(fs[l]) \in Nat
    BY SMTT(15) DEF Contents
  <2>2. CASE Len(es[l]) < Len(fs[l])
    <3>1. PICK x \in 1..Len(fs[l]) : x = Len(es[l]) + 1
      BY <2>1, <2>2
    <3>2. At(es, l, x) = l /\ At(fs, l, x) \in Nodes
      BY <2>1, <3>1, AtNode
    <3>3. At(es, l, x) = At(fs, l, x)
      BY <1>1, <2>1, <3>1
    <3>. QED
      BY <3>2, <3>3, HeaderAssumption
  <2>3. CASE Len(fs[l]) < Len(es[l])
    <3>1. PICK x \in 1..Len(es[l]) : x = Len(fs[l]) + 1
      BY <2>1, <2>3
    <3>2. At(fs, l, x) = l /\ At(es, l, x) \in Nodes
      BY <2>1, <3>1, AtNode
    <3>3. At(es, l, x) = At(fs, l, x)
      BY <1>1, <2>1, <3>1
    <3>. QED
      BY <3>2, <3>3, HeaderAssumption
  <2>. QED
    BY <2>1, <2>2, <2>3
<1>3. ASSUME NEW l \in Lists
      PROVE  es[l] = fs[l]
  <2>1. es[l] \in Seq(Nodes) /\ fs[l] \in Seq(Nodes) /\ Len(es[l]) \in Nat
    BY DEF Contents
  <2>2. ASSUME NEW i \in 1..Len(es[l])
        PROVE  es[l][i] = fs[l][i]
    <3>1. At(es, l, i) = At(fs, l, i) /\ i \in 1..Len(fs[l])
      BY <1>1, <1>2, <2>1
    <3>. QED
      BY <3>1 DEF At
  <2>. QED
    BY <1>2, <2>1, <2>2, SeqEqual
<1>. QED
  BY <1>3 DEF Contents

\* The sequences that the pointers of h spell.
Spelled(h) == CHOOSE es \in Contents : Spells(h, es)

\* And they are the sequences of the callers where those are spelled.
LEMMA SpelledIs ==
  ASSUME NEW h, NEW es \in Contents, Spells(h, es)
  PROVE  Spelled(h) = es
<1>1. Spelled(h) \in Contents /\ Spells(h, Spelled(h))
  BY DEF Spelled
<1>. QED
  BY <1>1, OneSpelling

\* Every operation is an edit of the abstract lists, or changes nothing.
LEMMA StepPromised ==
  ASSUME elems \in Contents, [Next]_vars
  PROVE  [ANext]_elems
<1>0. \A l \in Lists : elems[l] \in Seq(Nodes) /\ Len(elems[l]) \in Nat
  BY DEF Contents
<1>1. CASE InsertNext
  <2>1. PICK l \in Lists, n \in Nodes : \/ push_back(l, n)
                                        \/ push_front(l, n)
                                        \/ \E k \in EndPositions(l) : insert(l, k, n)
    BY <1>1 DEF InsertNext
  <2>2. 1 \in EndPositions(l) /\ Len(elems[l]) + 1 \in EndPositions(l)
    BY <1>0 DEF EndPositions
  <2>3. \E k \in EndPositions(l) : Insert(l, k, n)
    BY <2>1, <2>2 DEF push_back, push_front, insert
  <2>. QED
    BY <2>3 DEF ANext
<1>2. CASE EraseNext
  <2>1. ASSUME NEW l \in Lists, NEW i \in Positions(l), EraseRange(l, i, i + 1)
        PROVE  [ANext]_elems
    <3>1. i \in EndPositions(l) /\ i + 1 \in EndPositions(l) /\ i <= i + 1
      BY <1>0 DEF Positions, EndPositions
    <3>. QED
      BY <2>1, <3>1, ErasePromised
  <2>2. ASSUME NEW l \in Lists, pop_back(l) \/ pop_front(l)
        PROVE  [ANext]_elems
    <3>1. Len(elems[l]) # 0
      BY <1>0, <2>2, EmptySeq DEF pop_back, pop_front
    <3>2. PICK i \in Positions(l), j \in Positions(l) : i = Len(elems[l]) /\ j = 1 /\ j + 1 = 2
      BY <1>0, <3>1 DEF Positions
    <3>3. EraseRange(l, i, i + 1) \/ EraseRange(l, j, j + 1)
      BY <2>2, <3>2 DEF pop_back, pop_front
    <3>. QED
      BY <2>1, <3>3
  <2>3. ASSUME NEW l \in Lists, clear(l)
        PROVE  [ANext]_elems
    BY <2>3 DEF clear, ANext
  <2>4. ASSUME NEW l \in Lists, NEW i \in Positions(l), erase(l, i)
        PROVE  [ANext]_elems
    BY <2>1, <2>4 DEF erase
  <2>5. ASSUME NEW l \in Lists, NEW i \in EndPositions(l), NEW j \in EndPositions(l),
               i <= j, erase_range(l, i, j)
        PROVE  [ANext]_elems
    BY <2>5, ErasePromised DEF erase_range
  <2>6. ASSUME NEW n \in Nodes, hook_unlink(n)
        PROVE  [ANext]_elems
    BY <2>1, <2>6 DEF hook_unlink
  <2>. QED
    BY <1>2, <2>2, <2>3, <2>4, <2>5, <2>6 DEF EraseNext
<1>3. CASE TransferNext
  <2>1. ASSUME NEW l \in Lists, NEW m \in Lists, swap(l, m)
        PROVE  [ANext]_elems
    BY <2>1 DEF swap, ANext
  <2>2. ASSUME NEW l \in Lists, NEW m \in Lists, NEW k \in EndPositions(l),
               splice_all(l, k, m)
        PROVE  [ANext]_elems
    <3>1. PICK i \in EndPositions(m), j \in EndPositions(m) : i = 1 /\ j = Len(elems[m]) + 1
      BY <1>0 DEF EndPositions
    <3>2. i <= j /\ Move(l, k, m, i, j)
      BY <1>0, <2>2, <3>1 DEF splice_all
    <3>. QED
      BY <3>2, MovePromised
  <2>3. ASSUME NEW l \in Lists, NEW m \in Lists, NEW k \in EndPositions(l),
               NEW i \in Positions(m), splice_one(l, k, m, i)
        PROVE  [ANext]_elems
    <3>1. i \in EndPositions(m) /\ i + 1 \in EndPositions(m) /\ i <= i + 1
      BY <1>0 DEF Positions, EndPositions
    <3>2. Move(l, k, m, i, i + 1)
      BY <2>3 DEF splice_one
    <3>. QED
      BY <3>1, <3>2, MovePromised
  <2>4. ASSUME NEW l \in Lists, NEW m \in Lists, NEW k \in EndPositions(l),
               NEW i \in EndPositions(m), NEW j \in EndPositions(m),
               i <= j, splice_range(l, k, m, i, j)
        PROVE  [ANext]_elems
    BY <2>4, MovePromised DEF splice_range
  <2>5. ASSUME NEW a \in Nodes, NEW b \in Nodes, hook_swap_nodes(a, b)
        PROVE  [ANext]_elems
    BY <2>5 DEF hook_swap_nodes, ANext
  <2>. QED
    BY <1>3, <2>1, <2>2, <2>3, <2>4, <2>5 DEF TransferNext
<1>4. CASE UNCHANGED vars
  BY <1>4 DEF vars
<1>. QED
  BY <1>1, <1>2, <1>3, <1>4 DEF Next

\* AbstractList, with what the pointers spell as its lists.
Promise == INSTANCE AbstractList WITH elems <- Spelled(heap)

\* An edit of elems is an edit of what the pointers spell.
LEMMA EditsSpelled ==
  ASSUME Spelled(heap) = elems, Spelled(heap') = elems', [ANext]_elems
  PROVE  [Promise!ANext]_(Spelled(heap))
<1>1. /\ \A l \in Lists : Promise!Positions(l) = Positions(l)
      /\ \A l \in Lists : Promise!EndPositions(l) = EndPositions(l)
      /\ \A n \in Nodes : Promise!Detached(n) <=> Detached(n)
  BY DEF Promise!Positions, Positions, Promise!EndPositions, EndPositions,
         Promise!Detached, Detached
<1>2. /\ \A s, i, j : Promise!Slice(s, i, j) = Slice(s, i, j)
      /\ \A s, i, j : Promise!Cut(s, i, j) = Cut(s, i, j)
      /\ \A s, k, r : Promise!Paste(s, k, r) = Paste(s, k, r)
  BY DEF Promise!Slice, Slice, Promise!Cut, Cut, Promise!Paste, Paste
<1>3. CASE UNCHANGED elems
  BY <1>3
<1>4. ASSUME NEW l \in Lists, NEW k \in EndPositions(l), NEW n \in Nodes, Insert(l, k, n)
      PROVE  Promise!ANext
  <2>1. Promise!Insert(l, k, n)
    BY <1>1, <1>2, <1>4 DEF Promise!Insert, Insert
  <2>. QED
    BY <1>1, <2>1 DEF Promise!ANext
<1>5. ASSUME NEW l \in Lists, NEW i \in Positions(l), NEW j \in EndPositions(l),
             i < j, EraseRange(l, i, j)
      PROVE  Promise!ANext
  <2>1. Promise!EraseRange(l, i, j)
    BY <1>2, <1>5 DEF Promise!EraseRange, EraseRange
  <2>. QED
    BY <1>1, <1>5, <2>1 DEF Promise!ANext
<1>6. ASSUME NEW l \in Lists, NEW m \in Lists, NEW k \in EndPositions(l),
             NEW i \in Positions(m), NEW j \in EndPositions(m), i < j, Move(l, k, m, i, j)
      PROVE  Promise!ANext
  <2>1. Promise!Move(l, k, m, i, j)
    BY <1>2, <1>6 DEF Promise!Move, Move
  <2>. QED
    BY <1>1, <1>6, <2>1 DEF Promise!ANext
<1>7. ASSUME NEW l \in Lists, NEW m \in Lists, SwapLists(l, m)
      PROVE  Promise!ANext
  BY <1>7 DEF Promise!SwapLists, SwapLists, Promise!ANext
<1>8. ASSUME NEW l \in Lists, NEW m \in Lists, TakeOver(l, m)
      PROVE  Promise!ANext
  BY <1>8 DEF Promise!TakeOver, TakeOver, Promise!ANext
<1>9. ASSUME NEW l \in Lists, NEW k \in EndPositions(l), NEW j \in 1..(Len(elems'[l]) + 1),
             InsertRange(l, k, Slice(elems'[l], k, j))
      PROVE  Promise!ANext
  <2>1. PICK r : r = Slice(elems'[l], k, j)
    OBVIOUS
  <2>2. Promise!InsertRange(l, k, r)
    <3>1. InsertRange(l, k, r)
      BY <1>9, <2>1
    <3>2. Promise!Insertable(r) <=> Insertable(r)
      BY DEF Promise!Insertable, Insertable, Promise!Detached, Detached,
             Promise!Positions, Positions
    <3>. QED
      BY <1>2, <3>1, <3>2 DEF Promise!InsertRange, InsertRange
  <2>3. Promise!InsertRange(l, k, Promise!Slice(Spelled(heap')[l], k, j))
    BY <1>2, <2>1, <2>2
  <2>. QED
    BY <1>1, <2>3 DEF Promise!ANext
<1>10. ASSUME NEW l \in Lists, Empty(l)
       PROVE  Promise!ANext
  BY <1>10 DEF Promise!Empty, Empty, Promise!ANext
<1>11. ASSUME NEW l \in Lists, Turn(l)
       PROVE  Promise!ANext
  <2>1. Promise!Turn(l)
    BY <1>11 DEF Promise!Turn, Turn, Promise!Positions, Positions
  <2>. QED
    BY <2>1 DEF Promise!ANext
<1>12. ASSUME NEW l \in Lists, Assign(l, elems'[l])
       PROVE  Promise!ANext
  <2>1. PICK r : r = elems'[l]
    OBVIOUS
  <2>2. Promise!Assign(l, r)
    <3>1. Promise!Insertable(r) <=> Insertable(r)
      BY DEF Promise!Insertable, Insertable, Promise!Detached, Detached,
             Promise!Positions, Positions
    <3>. QED
      BY <1>12, <2>1, <3>1 DEF Promise!Assign, Assign
  <2>. QED
    BY <2>1, <2>2 DEF Promise!ANext
<1>13. ASSUME NEW l \in Lists, NEW k \in Positions(l), Rotate(l, k)
       PROVE  Promise!ANext
  <2>1. Promise!Rotate(l, k)
    BY <1>2, <1>13 DEF Promise!Rotate, Rotate
  <2>. QED
    BY <1>1, <2>1 DEF Promise!ANext
<1>14. ASSUME NEW a \in Nodes, NEW b \in Nodes, Exchange(a, b)
       PROVE  Promise!ANext
  <2>1. Promise!Exchange(a, b)
    BY <1>14 DEF Promise!Exchange, Exchange, Promise!Positions, Positions
  <2>. QED
    BY <2>1 DEF Promise!ANext
<1>15. CASE ANext
  BY <1>4, <1>5, <1>6, <1>7, <1>8, <1>9, <1>10, <1>11, <1>12, <1>13, <1>14, <1>15 DEF ANext
<1>. QED
  BY <1>3, <1>15

(* Seen through its pointers, list_impl does what its documentation says:  *)
(* the sequences the pointers spell start empty, and every operation makes *)
(* of them what the "Effects" of AbstractList say, or leaves them alone.   *)
THEOREM KeepsItsPromise == Spec => Promise!ASpec
<1>1. IInv => Spelled(heap) = elems
  BY SpelledIs DEF IInv, TypeOK, Represented, Contents
<1>2. Init => Promise!AInit
  <2>1. Init => Spelled(heap) = elems
    BY <1>1, InitSound
  <2>. QED
    BY <2>1 DEF Init, AInit, Promise!AInit
<1>3. IInv /\ IInv' /\ [Next]_vars => [Promise!ANext]_(Spelled(heap))
  <2>3. (IInv => Spelled(heap) = elems)'
    BY <1>1, PTL
  <2>1. IInv' => Spelled(heap') = elems'
    BY <2>3
  <2>2. IInv => elems \in Contents
    BY DEF IInv, TypeOK, Contents
  <2>. QED
    BY <1>1, <2>1, <2>2, StepPromised, EditsSpelled
<1>. QED
  BY <1>2, <1>3, Invariant, PTL DEF Spec, Promise!ASpec
=============================================================================
