----------------------------- MODULE ListFacts ------------------------------
(***************************************************************************)
(* Facts that the proofs about list and slist share: the sequences of      *)
(* elements that an operation leaves, which elements are outside all of    *)
(* them, and the counters, for any number of elements and lists and any    *)
(* width of size_type.                                                     *)
(***************************************************************************)
EXTENDS ListOptions, Integers, SequenceTheorems, NaturalsInduction, WellFoundedInduction, TLAPS

\* What every list may hold.
Contents == [Lists -> Seq(Nodes)]

\* Element n is in none of the sequences es.
Out(es, n) == \A l \in Lists : \A i \in 1..Len(es[l]) : es[l][i] # n

\* The elements of r are different and in none of the sequences es.
Fresh(es, r) == /\ \A x \in 1..Len(r) : Out(es, r[x])
                /\ \A x, y \in 1..Len(r) : r[x] = r[y] => x = y

\* The sequences fs are es with r pasted in front of position k of l.
Pasted(fs, es, l, k, r) ==
  /\ fs \in Contents
  /\ \A m \in Lists : m # l => fs[m] = es[m]
  /\ Len(fs[l]) = Len(es[l]) + Len(r)
  /\ \A i \in 1..(Len(es[l]) + Len(r)) :
       fs[l][i] = IF i < k THEN es[l][i]
                  ELSE IF i < k + Len(r) THEN r[i - k + 1] ELSE es[l][i - Len(r)]

\* The sequences fs are es without the range [i, j) of l.
CutOut(fs, es, l, i, j) ==
  /\ fs \in Contents
  /\ \A m \in Lists : m # l => fs[m] = es[m]
  /\ Len(fs[l]) = Len(es[l]) - (j - i)
  /\ \A x \in 1..(Len(es[l]) - (j - i)) :
       fs[l][x] = IF x < i THEN es[l][x] ELSE es[l][x + (j - i)]

\* Outside fs are the elements outside es and those of the set gone.
Without(fs, es, gone) == \A n \in Nodes : Out(fs, n) <=> Out(es, n) \/ n \in gone

\* Outside fs are the elements outside es that are not in r either.
With(fs, es, r) ==
  \A n \in Nodes : Out(fs, n) <=> Out(es, n) /\ \A x \in 1..Len(r) : r[x] # n
-----------------------------------------------------------------------------
(* Pieces of sequences: lengths and elements, position by position.        *)

\* The range [i, j) of a sequence, element by element.
LEMMA SliceProperties ==
  ASSUME NEW s \in Seq(Nodes), NEW i \in 1..(Len(s) + 1), NEW j \in i..(Len(s) + 1)
  PROVE  /\ Slice(s, i, j) \in Seq(Nodes)
         /\ Len(Slice(s, i, j)) = j - i
         /\ \A x \in 1..(j - i) : Slice(s, i, j)[x] = s[i + x - 1]
<1>1. \A x \in i..(j - 1) : s[x] \in Nodes
  OBVIOUS
<1>2. /\ SubSeq(s, i, j - 1) \in Seq(Nodes)
      /\ Len(SubSeq(s, i, j - 1)) = IF i <= j - 1 THEN j - 1 - i + 1 ELSE 0
      /\ \A x \in 1..(j - 1 - i + 1) : SubSeq(s, i, j - 1)[x] = s[i + x - 1]
  BY <1>1, SubSeqProperties, i \in Int, j - 1 \in Int
<1>. QED
  BY <1>2 DEF Slice

\* Three sequences in a row.
LEMMA Concatenate3 ==
  ASSUME NEW a \in Seq(Nodes), NEW b \in Seq(Nodes), NEW c \in Seq(Nodes)
  PROVE  LET t == a \o b \o c IN
         /\ t \in Seq(Nodes)
         /\ Len(t) = Len(a) + Len(b) + Len(c)
         /\ \A i \in 1..Len(a) : t[i] = a[i]
         /\ \A i \in 1..Len(b) : t[Len(a) + i] = b[i]
         /\ \A i \in 1..Len(c) : t[Len(a) + Len(b) + i] = c[i]
<1> DEFINE d == a \o b
           t == d \o c
<1>1. /\ d \in Seq(Nodes) /\ Len(d) = Len(a) + Len(b)
      /\ \A i \in 1..Len(a) : d[i] = a[i]
      /\ \A i \in 1..Len(b) : d[Len(a) + i] = b[i]
  BY ConcatProperties
<1> HIDE DEF d
<1>2. /\ t \in Seq(Nodes) /\ Len(t) = Len(d) + Len(c)
      /\ \A i \in 1..Len(d) : t[i] = d[i]
      /\ \A i \in 1..Len(c) : t[Len(d) + i] = c[i]
  <2>1. d \in Seq(Nodes)
    BY <1>1
  <2>. QED
    BY <2>1, ConcatProperties
<1> HIDE DEF t
<1>3. Len(a) \in Nat /\ Len(b) \in Nat /\ Len(c) \in Nat
  OBVIOUS
<1>4. \A i \in 1..Len(a) : t[i] = a[i]
  BY <1>1, <1>2, <1>3
<1>5. \A i \in 1..Len(b) : t[Len(a) + i] = b[i]
  <2>1. ASSUME NEW i \in 1..Len(b)
        PROVE  t[Len(a) + i] = b[i]
    <3>1. Len(a) + i \in 1..Len(d)
      BY <1>1, <1>3
    <3>. QED
      BY <1>1, <1>2, <3>1
  <2>. QED
    BY <2>1
<1>6. \A i \in 1..Len(c) : t[Len(a) + Len(b) + i] = c[i]
  BY <1>1, <1>2, <1>3
<1>. QED
  BY <1>1, <1>2, <1>4, <1>5, <1>6 DEF t, d

\* A sequence with r put in front of its position k.
LEMMA PasteProperties ==
  ASSUME NEW s \in Seq(Nodes), NEW k \in 1..(Len(s) + 1), NEW r \in Seq(Nodes)
  PROVE  /\ Paste(s, k, r) \in Seq(Nodes)
         /\ Len(Paste(s, k, r)) = Len(s) + Len(r)
         /\ \A i \in 1..(Len(s) + Len(r)) :
              Paste(s, k, r)[i] = IF i < k THEN s[i]
                                  ELSE IF i < k + Len(r) THEN r[i - k + 1]
                                  ELSE s[i - Len(r)]
<1> DEFINE a == Slice(s, 1, k)
           c == Slice(s, k, Len(s) + 1)
           t == a \o r \o c
<1>0. /\ Len(s) \in Nat /\ Len(r) \in Nat
      /\ 1 \in 1..(Len(s) + 1) /\ k \in 1..(Len(s) + 1)
      /\ Len(s) + 1 \in k..(Len(s) + 1)
  OBVIOUS
<1>1. /\ a \in Seq(Nodes) /\ Len(a) = k - 1
      /\ \A x \in 1..(k - 1) : a[x] = s[1 + x - 1]
  BY <1>0, SliceProperties
<1>2. /\ c \in Seq(Nodes) /\ Len(c) = Len(s) + 1 - k
      /\ \A x \in 1..(Len(s) + 1 - k) : c[x] = s[k + x - 1]
  <2>1. PICK z \in k..(Len(s) + 1) : z = Len(s) + 1
    BY <1>0
  <2>2. /\ Slice(s, k, z) \in Seq(Nodes) /\ Len(Slice(s, k, z)) = z - k
        /\ \A x \in 1..(z - k) : Slice(s, k, z)[x] = s[k + x - 1]
    BY <1>0, SliceProperties
  <2>. QED
    BY <2>1, <2>2
<1>3. Paste(s, k, r) = t
  BY DEF Paste
<1> HIDE DEF a, c
<1>4. /\ t \in Seq(Nodes)
      /\ Len(t) = Len(a) + Len(r) + Len(c)
      /\ \A i \in 1..Len(a) : t[i] = a[i]
      /\ \A i \in 1..Len(r) : t[Len(a) + i] = r[i]
      /\ \A i \in 1..Len(c) : t[Len(a) + Len(r) + i] = c[i]
  BY <1>1, <1>2, Concatenate3, ZenonT(40)
<1> HIDE DEF t
<1>5. Len(t) = Len(s) + Len(r)
  BY <1>0, <1>1, <1>2, <1>4
<1>6. ASSUME NEW i \in 1..(Len(s) + Len(r))
      PROVE  t[i] = IF i < k THEN s[i]
                    ELSE IF i < k + Len(r) THEN r[i - k + 1] ELSE s[i - Len(r)]
  <2>1. CASE i < k
    BY <1>1, <1>4, <2>1, SMTT(15)
  <2>2. CASE i >= k /\ i < k + Len(r)
    <3>1. i - k + 1 \in 1..Len(r) /\ Len(a) + (i - k + 1) = i
      BY <1>0, <1>1, <2>2
    <3>2. t[i] = r[i - k + 1]
      BY <1>4, <3>1
    <3>. QED
      BY <1>0, <2>2, <3>2
  <2>3. CASE i >= k + Len(r)
    <3>1. /\ i - (k - 1) - Len(r) \in 1..Len(c)
          /\ Len(a) + Len(r) + (i - (k - 1) - Len(r)) = i
          /\ k + (i - (k - 1) - Len(r)) - 1 = i - Len(r)
      BY <1>0, <1>1, <1>2, <2>3
    <3>2. t[i] = c[i - (k - 1) - Len(r)]
      BY <1>4, <3>1
    <3>3. c[i - (k - 1) - Len(r)] = s[i - Len(r)]
      BY <1>2, <3>1
    <3>. QED
      BY <1>0, <2>3, <3>2, <3>3
  <2>. QED
    BY <1>0, <2>1, <2>2, <2>3
<1>. QED
  BY <1>3, <1>4, <1>5, <1>6

\* A sequence without its range [i, j).
LEMMA CutProperties ==
  ASSUME NEW s \in Seq(Nodes), NEW i \in 1..(Len(s) + 1), NEW j \in i..(Len(s) + 1)
  PROVE  /\ Cut(s, i, j) \in Seq(Nodes)
         /\ Len(Cut(s, i, j)) = Len(s) - (j - i)
         /\ \A x \in 1..(Len(s) - (j - i)) :
              Cut(s, i, j)[x] = IF x < i THEN s[x] ELSE s[x + (j - i)]
<1> DEFINE a == Slice(s, 1, i)
           b == Slice(s, j, Len(s) + 1)
           t == a \o b
<1>0. /\ Len(s) \in Nat
      /\ 1 \in 1..(Len(s) + 1) /\ i \in 1..(Len(s) + 1) /\ j \in 1..(Len(s) + 1)
      /\ Len(s) + 1 \in j..(Len(s) + 1)
  OBVIOUS
<1>1. /\ a \in Seq(Nodes) /\ Len(a) = i - 1
      /\ \A x \in 1..(i - 1) : a[x] = s[1 + x - 1]
  BY <1>0, SliceProperties
<1>2. /\ b \in Seq(Nodes) /\ Len(b) = Len(s) + 1 - j
      /\ \A x \in 1..(Len(s) + 1 - j) : b[x] = s[j + x - 1]
  <2>1. PICK z \in j..(Len(s) + 1) : z = Len(s) + 1
    BY <1>0
  <2>2. /\ Slice(s, j, z) \in Seq(Nodes) /\ Len(Slice(s, j, z)) = z - j
        /\ \A x \in 1..(z - j) : Slice(s, j, z)[x] = s[j + x - 1]
    BY <1>0, SliceProperties
  <2>. QED
    BY <2>1, <2>2
<1>3. Cut(s, i, j) = t
  BY DEF Cut
<1> HIDE DEF a, b
<1>4. /\ t \in Seq(Nodes) /\ Len(t) = Len(a) + Len(b)
      /\ \A x \in 1..(Len(a) + Len(b)) : t[x] = IF x <= Len(a) THEN a[x] ELSE b[x - Len(a)]
  <2>1. a \in Seq(Nodes) /\ b \in Seq(Nodes)
    BY <1>1, <1>2
  <2>. QED
    BY <2>1, ConcatProperties
<1> HIDE DEF t
<1>5. Len(t) = Len(s) - (j - i)
  BY <1>0, <1>1, <1>2, <1>4
<1>6. ASSUME NEW x \in 1..(Len(s) - (j - i))
      PROVE  t[x] = IF x < i THEN s[x] ELSE s[x + (j - i)]
  <2>1. CASE x < i
    <3>1. x \in 1..(Len(a) + Len(b)) /\ x <= Len(a) /\ x \in 1..(i - 1) /\ 1 + x - 1 = x
      BY <1>0, <1>1, <1>2, <2>1
    <3>. QED
      BY <1>1, <1>4, <2>1, <3>1
  <2>2. CASE x >= i
    <3>1. /\ x - Len(a) \in 1..(Len(s) + 1 - j)
          /\ j + (x - Len(a)) - 1 = x + (j - i)
          /\ x \in 1..(Len(a) + Len(b)) /\ ~(x <= Len(a))
      BY <1>0, <1>1, <1>2, <2>2
    <3>2. t[x] = b[x - Len(a)] /\ b[x - Len(a)] = s[x + (j - i)]
      BY <1>2, <1>4, <3>1
    <3>. QED
      BY <2>2, <3>2
  <2>. QED
    BY <2>1, <2>2
<1>. QED
  BY <1>3, <1>4, <1>5, <1>6
-----------------------------------------------------------------------------
(* What a paste and a cut do to all the sequences.                         *)

\* In disjoint sequences an element has one place.
LEMMA OnePlace ==
  ASSUME NEW es \in Contents, Disjoint(es), NEW l \in Lists, NEW m \in Lists,
         NEW i \in 1..Len(es[l]), NEW j \in 1..Len(es[m]), es[l][i] = es[m][j]
  PROVE  l = m /\ i = j
  BY DEF Disjoint

\* Paste is the pasting of one list.
LEMMA PastePastes ==
  ASSUME NEW es \in Contents, NEW l \in Lists,
         NEW k \in 1..(Len(es[l]) + 1), NEW r \in Seq(Nodes)
  PROVE  Pasted([es EXCEPT ![l] = Paste(@, k, r)], es, l, k, r)
<1>1. es[l] \in Seq(Nodes)
  BY DEF Contents
<1>2. /\ Paste(es[l], k, r) \in Seq(Nodes)
      /\ Len(Paste(es[l], k, r)) = Len(es[l]) + Len(r)
      /\ \A i \in 1..(Len(es[l]) + Len(r)) :
           Paste(es[l], k, r)[i] = IF i < k THEN es[l][i]
                                   ELSE IF i < k + Len(r) THEN r[i - k + 1]
                                   ELSE es[l][i - Len(r)]
  BY <1>1, PasteProperties
<1>. QED
  BY <1>2 DEF Contents, Pasted

\* The sequences with the chain pasted in hold every element once.
LEMMA PasteContents ==
  ASSUME NEW es \in Contents, Disjoint(es),
         NEW l \in Lists, NEW k \in 1..(Len(es[l]) + 1),
         NEW r \in Seq(Nodes), Fresh(es, r),
         NEW fs, Pasted(fs, es, l, k, r)
  PROVE  fs \in Contents /\ Disjoint(fs) /\ With(fs, es, r)
<1> DEFINE K == Len(r)
<1>0. /\ \A m \in Lists : Len(es[m]) \in Nat
      /\ K \in Nat
      /\ k \in Nat /\ k >= 1 /\ k <= Len(es[l]) + 1
  BY DEF Contents
<1>1. /\ fs \in Contents
      /\ \A m \in Lists : m # l => fs[m] = es[m]
      /\ Len(fs[l]) = Len(es[l]) + K
      /\ \A i \in 1..(Len(es[l]) + K) :
           fs[l][i] = IF i < k THEN es[l][i]
                      ELSE IF i < k + K THEN r[i - k + 1] ELSE es[l][i - K]
  BY DEF Pasted
<1> HIDE DEF K
<1>5. \A m \in Lists :
        /\ Len(fs[m]) \in Nat
        /\ m # l => Len(fs[m]) = Len(es[m])
        /\ m = l => Len(fs[m]) = Len(es[l]) + K
  BY <1>0, <1>1
(* Every position of fs holds an old element or one of the chain.          *)
<1> DEFINE old(m, i) == IF m = l /\ i >= k + K THEN i - K ELSE i
           new(m, i) == m = l /\ i >= k /\ i < k + K
<1>6. /\ \A m \in Lists : \A i \in 1..Len(fs[m]) :
           IF new(m, i) THEN i - k + 1 \in 1..K /\ fs[m][i] = r[i - k + 1]
           ELSE old(m, i) \in 1..Len(es[m]) /\ fs[m][i] = es[m][old(m, i)]
      /\ \A x \in 1..K : k + x - 1 \in 1..Len(fs[l]) /\ fs[l][k + x - 1] = r[x]
      /\ \A m \in Lists : \A i \in 1..Len(es[m]) :
           \E x \in 1..Len(fs[m]) : fs[m][x] = es[m][i]
  <2>1. ASSUME NEW m \in Lists, NEW i \in 1..Len(fs[m])
        PROVE  IF new(m, i) THEN i - k + 1 \in 1..K /\ fs[m][i] = r[i - k + 1]
               ELSE old(m, i) \in 1..Len(es[m]) /\ fs[m][i] = es[m][old(m, i)]
    <3>1. CASE m # l
      BY <1>1, <1>5, <3>1
    <3>2. CASE m = l /\ i < k
      BY <1>0, <1>1, <1>5, <3>2
    <3>3. CASE m = l /\ i >= k /\ i < k + K
      BY <1>0, <1>1, <1>5, <3>3
    <3>4. CASE m = l /\ i >= k + K
      BY <1>0, <1>1, <1>5, <3>4, SMTT(15)
    <3>. QED
      BY <1>0, <1>5, <3>1, <3>2, <3>3, <3>4
  <2>2. ASSUME NEW x \in 1..K
        PROVE  k + x - 1 \in 1..Len(fs[l]) /\ fs[l][k + x - 1] = r[x]
    <3>1. /\ k + x - 1 \in 1..(Len(es[l]) + K) /\ ~(k + x - 1 < k)
          /\ k + x - 1 < k + K /\ (k + x - 1) - k + 1 = x
      BY <1>0
    <3>. QED
      BY <1>1, <3>1
  <2>3. ASSUME NEW m \in Lists, NEW i \in 1..Len(es[m])
        PROVE  \E x \in 1..Len(fs[m]) : fs[m][x] = es[m][i]
    <3>1. CASE m # l
      BY <1>1, <3>1
    <3>2. CASE m = l /\ i < k
      <4>1. i \in 1..Len(fs[l]) /\ i \in 1..(Len(es[l]) + K)
        BY <1>0, <1>5, <3>2
      <4>2. fs[m][i] = es[m][i]
        BY <1>1, <3>2, <4>1
      <4>. QED
        BY <3>2, <4>1, <4>2
    <3>3. CASE m = l /\ i >= k
      <4>1. /\ i + K \in 1..(Len(es[l]) + K) /\ ~(i + K < k)
            /\ ~(i + K < k + K) /\ i + K - K = i
        BY <1>0, <3>3
      <4>2. PICK z \in 1..(Len(es[l]) + K) : z = i + K
        BY <4>1
      <4>5. ~(z < k) /\ ~(z < k + K) /\ z - K = i
        BY <1>0, <3>3, <4>2
      <4>4. fs[l][z] = es[l][z - K]
        BY <1>1, <4>5
      <4>3. i + K \in 1..Len(fs[m])
        BY <1>1, <3>3, <4>1
      <4>. QED
        BY <3>3, <4>2, <4>3, <4>4, <4>5
    <3>. QED
      BY <1>0, <3>1, <3>2, <3>3
  <2>. QED
    BY <2>1, <2>2, <2>3
<1>7. Disjoint(fs)
  <2>1. SUFFICES ASSUME NEW l1 \in Lists, NEW m1 \in Lists,
                        NEW i \in 1..Len(fs[l1]), NEW j \in 1..Len(fs[m1]),
                        fs[l1][i] = fs[m1][j]
                 PROVE  l1 = m1 /\ i = j
    BY DEF Disjoint
  <2>2. CASE new(l1, i) /\ new(m1, j)
    <3>1. PICK x, y \in 1..K : /\ x = i - k + 1 /\ y = j - k + 1
                               /\ fs[l1][i] = r[x] /\ fs[m1][j] = r[y]
      BY <1>6, <2>2
    <3>2. x = y
      BY <2>1, <3>1 DEF Fresh, K
    <3>. QED
      BY <1>0, <1>5, <2>2, <3>1, <3>2, SMTT(15)
  <2>3. CASE new(l1, i) /\ ~new(m1, j)
    <3>1. fs[l1][i] = r[i - k + 1] /\ i - k + 1 \in 1..K
          /\ fs[m1][j] = es[m1][old(m1, j)] /\ old(m1, j) \in 1..Len(es[m1])
      BY <1>6, <2>3
    <3>. HIDE DEF old, new
    <3>. QED
      BY <2>1, <3>1 DEF Fresh, Out, K
  <2>4. CASE ~new(l1, i) /\ new(m1, j)
    <3>1. fs[m1][j] = r[j - k + 1] /\ j - k + 1 \in 1..K
          /\ fs[l1][i] = es[l1][old(l1, i)] /\ old(l1, i) \in 1..Len(es[l1])
      BY <1>6, <2>4
    <3>. HIDE DEF old, new
    <3>. QED
      BY <2>1, <3>1 DEF Fresh, Out, K
  <2>5. CASE ~new(l1, i) /\ ~new(m1, j)
    <3>1. /\ fs[l1][i] = es[l1][old(l1, i)] /\ old(l1, i) \in 1..Len(es[l1])
          /\ fs[m1][j] = es[m1][old(m1, j)] /\ old(m1, j) \in 1..Len(es[m1])
      BY <1>6, <2>5
    <3>2. l1 = m1 /\ old(l1, i) = old(m1, j)
      <4>. HIDE DEF old, new
      <4>1. es[l1][old(l1, i)] = es[m1][old(m1, j)]
        BY <2>1, <3>1
      <4>. QED
        BY <3>1, <4>1, OnePlace
    <3>. QED
      BY <1>0, <1>5, <2>5, <3>2
  <2>. QED
    BY <2>2, <2>3, <2>4, <2>5
<1>8. ASSUME NEW n \in Nodes
      PROVE  Out(fs, n) <=> Out(es, n) /\ \A x \in 1..Len(r) : r[x] # n
  <2>1. ASSUME Out(fs, n)
        PROVE  Out(es, n) /\ \A x \in 1..K : r[x] # n
    <3>1. ASSUME NEW m \in Lists, NEW i \in 1..Len(es[m])
          PROVE  es[m][i] # n
      <4>1. PICK x \in 1..Len(fs[m]) : fs[m][x] = es[m][i]
        BY <1>6
      <4>. QED
        BY <2>1, <4>1 DEF Out
    <3>2. ASSUME NEW x \in 1..K
          PROVE  r[x] # n
      <4>1. PICK y \in 1..Len(fs[l]) : fs[l][y] = r[x]
        BY <1>6
      <4>. QED
        BY <2>1, <4>1 DEF Out
    <3>. QED
      BY <3>1, <3>2 DEF Out
  <2>2. ASSUME Out(es, n), \A x \in 1..K : r[x] # n,
               NEW m \in Lists, NEW i \in 1..Len(fs[m])
        PROVE  fs[m][i] # n
    <3>1. IF new(m, i) THEN i - k + 1 \in 1..K /\ fs[m][i] = r[i - k + 1]
          ELSE old(m, i) \in 1..Len(es[m]) /\ fs[m][i] = es[m][old(m, i)]
      BY <1>6
    <3>. HIDE DEF old, new
    <3>. QED
      BY <2>2, <3>1 DEF Out
  <2>. QED
    BY <2>1, <2>2 DEF Out, K
<1>. QED
  BY <1>1, <1>7, <1>8 DEF With

\* Cut is the cutting of one list.
LEMMA CutCuts ==
  ASSUME NEW es \in Contents, NEW l \in Lists,
         NEW i \in 1..(Len(es[l]) + 1), NEW j \in i..(Len(es[l]) + 1)
  PROVE  CutOut([es EXCEPT ![l] = Cut(@, i, j)], es, l, i, j)
<1>1. es[l] \in Seq(Nodes)
  BY DEF Contents
<1>2. /\ Cut(es[l], i, j) \in Seq(Nodes)
      /\ Len(Cut(es[l], i, j)) = Len(es[l]) - (j - i)
      /\ \A x \in 1..(Len(es[l]) - (j - i)) :
           Cut(es[l], i, j)[x] = IF x < i THEN es[l][x] ELSE es[l][x + (j - i)]
  BY <1>1, CutProperties
<1>. QED
  BY <1>2 DEF Contents, CutOut

\* So do the sequences without the range, which is in none of them.
LEMMA CutContents ==
  ASSUME NEW es \in Contents, Disjoint(es),
         NEW l \in Lists, NEW i \in 1..(Len(es[l]) + 1), NEW j \in i..(Len(es[l]) + 1),
         NEW between, between = {es[l][y] : y \in i..(j - 1)},
         NEW fs, CutOut(fs, es, l, i, j)
  PROVE  fs \in Contents /\ Disjoint(fs) /\ Without(fs, es, between)
<1> DEFINE D == j - i
           old(m, x) == IF m = l /\ x >= i THEN x + D ELSE x
<1>0. /\ \A m \in Lists : Len(es[m]) \in Nat
      /\ i \in Nat /\ j \in Nat /\ D \in Nat /\ j = i + D
      /\ 1 <= i /\ i <= j /\ j <= Len(es[l]) + 1
  BY DEF Contents
<1>1. /\ fs \in Contents
      /\ \A m \in Lists : m # l => fs[m] = es[m]
      /\ Len(fs[l]) = Len(es[l]) - D
      /\ \A x \in 1..(Len(es[l]) - D) :
           fs[l][x] = IF x < i THEN es[l][x] ELSE es[l][x + D]
  BY DEF CutOut
<1>b. \A n : n \in between <=> \E y \in i..(j - 1) : n = es[l][y]
  OBVIOUS
<1> HIDE DEF D
<1>5. \A m \in Lists :
        /\ Len(fs[m]) \in Nat
        /\ m # l => Len(fs[m]) = Len(es[m])
        /\ m = l => Len(fs[m]) = Len(es[l]) - D
  <2>1. \A m \in Lists : Len(fs[m]) \in Nat
    BY <1>1 DEF Contents
  <2>. QED
    BY <1>1, <2>1
<1>6. \A m \in Lists : \A x \in 1..Len(fs[m]) :
        old(m, x) \in 1..Len(es[m]) /\ fs[m][x] = es[m][old(m, x)]
  <2>1. ASSUME NEW m \in Lists, NEW x \in 1..Len(fs[m])
        PROVE  old(m, x) \in 1..Len(es[m]) /\ fs[m][x] = es[m][old(m, x)]
    <3>1. CASE m # l
      BY <1>1, <1>5, <3>1
    <3>2. CASE m = l /\ x < i
      <4>1. x \in 1..(Len(es[l]) - D) /\ x \in 1..Len(es[l])
        BY <1>0, <1>5, <3>2
      <4>. QED
        BY <1>1, <3>2, <4>1
    <3>3. CASE m = l /\ x >= i
      BY <1>0, <1>1, <1>5, <3>3
    <3>. QED
      BY <1>0, <1>5, <3>1, <3>2, <3>3
  <2>. QED
    BY <2>1
<1>7. Disjoint(fs)
  <2>1. SUFFICES ASSUME NEW l1 \in Lists, NEW m1 \in Lists,
                        NEW x \in 1..Len(fs[l1]), NEW y \in 1..Len(fs[m1]),
                        fs[l1][x] = fs[m1][y]
                 PROVE  l1 = m1 /\ x = y
    BY DEF Disjoint
  <2>2. /\ old(l1, x) \in 1..Len(es[l1]) /\ fs[l1][x] = es[l1][old(l1, x)]
        /\ old(m1, y) \in 1..Len(es[m1]) /\ fs[m1][y] = es[m1][old(m1, y)]
    BY <1>6
  <2>3. l1 = m1 /\ old(l1, x) = old(m1, y)
    <3>. HIDE DEF old
    <3>1. es[l1][old(l1, x)] = es[m1][old(m1, y)]
      BY <2>1, <2>2
    <3>. QED
      BY <2>2, <3>1, OnePlace
  <2>. QED
    BY <1>0, <1>5, <2>3
(* What is not in fs is not in es or was in the range.                     *)
<1>8. ASSUME NEW n \in Nodes
      PROVE  Out(fs, n) <=> Out(es, n) \/ n \in between
  <2>1. ASSUME Out(es, n) \/ n \in between, NEW m \in Lists, NEW x \in 1..Len(fs[m])
        PROVE  fs[m][x] # n
    <3>1. old(m, x) \in 1..Len(es[m]) /\ fs[m][x] = es[m][old(m, x)]
      BY <1>6
    <3>2. CASE Out(es, n)
      <4>. HIDE DEF old
      <4>. QED
        BY <3>1, <3>2 DEF Out
    <3>3. CASE n \in between
      <4>1. PICK y \in i..(j - 1) : n = es[l][y]
        BY <1>b, <3>3
      <4>2. y \in 1..Len(es[l]) /\ (m = l => old(m, x) # y)
        BY <1>0, <1>5
      <4>. HIDE DEF old
      <4>3. ~(es[l][y] = es[m][old(m, x)])
        BY <3>1, <4>2, OnePlace
      <4>. QED
        BY <3>1, <4>1, <4>3
    <3>. QED
      BY <2>1, <3>2, <3>3
  <2>2. ASSUME Out(fs, n), NEW m \in Lists, NEW x \in 1..Len(es[m]), es[m][x] = n
        PROVE  n \in between
    <3>1. CASE m # l
      BY <1>1, <2>2, <3>1 DEF Out
    <3>2. CASE m = l /\ x < i
      <4>1. x \in 1..Len(fs[l]) /\ x \in 1..(Len(es[l]) - D)
        BY <1>0, <1>5, <3>2
      <4>2. fs[l][x] = es[l][x]
        BY <1>1, <3>2, <4>1
      <4>. QED
        BY <2>2, <3>2, <4>1, <4>2 DEF Out
    <3>3. CASE m = l /\ x >= j
      <4>1. PICK y \in 1..(Len(es[l]) - D) : y = x - D
        BY <1>0, <3>3
      <4>2. ~(y < i) /\ y + D = x /\ y \in 1..Len(fs[l])
        BY <1>0, <1>5, <3>3, <4>1
      <4>3. fs[l][y] = es[l][y + D]
        BY <1>1, <4>2
      <4>. QED
        BY <2>2, <3>3, <4>2, <4>3 DEF Out
    <3>4. CASE m = l /\ x >= i /\ x < j
      <4>1. x \in i..(j - 1)
        BY <1>0, <3>4
      <4>. QED
        BY <1>b, <2>2, <3>4, <4>1
    <3>. QED
      BY <1>0, <3>1, <3>2, <3>3, <3>4
  <2>. QED
    BY <2>1, <2>2 DEF Out
<1>. QED
  BY <1>1, <1>7, <1>8 DEF Without
-----------------------------------------------------------------------------
(* Moving a range: cut it out, paste it back somewhere else.               *)

\* What has been cut out, pasted back where it was.
LEMMA PasteBack ==
  ASSUME NEW s \in Seq(Nodes), NEW i \in 1..(Len(s) + 1), NEW j \in i..(Len(s) + 1)
  PROVE  Paste(Cut(s, i, j), i, Slice(s, i, j)) = s
<1> DEFINE c == Cut(s, i, j)
           r == Slice(s, i, j)
           t == Paste(c, i, r)
<1>0. Len(s) \in Nat /\ i \in Nat /\ j \in Nat /\ i >= 1 /\ i <= j /\ j <= Len(s) + 1
  OBVIOUS
<1>1. /\ c \in Seq(Nodes) /\ Len(c) = Len(s) - (j - i)
      /\ \A x \in 1..(Len(s) - (j - i)) : c[x] = IF x < i THEN s[x] ELSE s[x + (j - i)]
  BY CutProperties
<1>2. /\ r \in Seq(Nodes) /\ Len(r) = j - i
      /\ \A x \in 1..(j - i) : r[x] = s[i + x - 1]
  BY SliceProperties
<1> HIDE DEF c, r
<1>3. i \in 1..(Len(c) + 1)
  BY <1>0, <1>1
<1>4. /\ t \in Seq(Nodes) /\ Len(t) = Len(c) + Len(r)
      /\ \A x \in 1..(Len(c) + Len(r)) :
           t[x] = IF x < i THEN c[x]
                  ELSE IF x < i + Len(r) THEN r[x - i + 1] ELSE c[x - Len(r)]
  BY <1>1, <1>2, <1>3, PasteProperties
<1> HIDE DEF t
<1>5. Len(t) = Len(s)
  BY <1>0, <1>1, <1>2, <1>4
<1>6. ASSUME NEW x \in 1..Len(t)
      PROVE  t[x] = s[x]
  <2>0. /\ x \in Nat /\ x >= 1 /\ x <= Len(s) /\ x \in 1..(Len(c) + Len(r))
        /\ Len(r) = j - i /\ Len(c) = Len(s) - (j - i)
    BY <1>0, <1>1, <1>2, <1>4, <1>5
  <2>1. CASE x < i
    <3>1. x \in 1..(Len(s) - (j - i))
      BY <1>0, <2>0, <2>1
    <3>. QED
      BY <1>1, <1>4, <2>0, <2>1, <3>1
  <2>2. CASE x >= i /\ x < j
    <3>1. PICK y \in 1..(j - i) : y = x - i + 1 /\ i + y - 1 = x
      BY <1>0, <2>0, <2>2
    <3>2. ~(x < i) /\ x < i + Len(r)
      BY <1>0, <2>0, <2>2
    <3>3. t[x] = r[y]
      BY <1>4, <2>0, <3>1, <3>2
    <3>. QED
      BY <1>2, <3>1, <3>3
  <2>3. CASE x >= j
    <3>1. PICK y \in 1..(Len(s) - (j - i)) : y = x - (j - i)
      BY <1>0, <2>0, <2>3
    <3>2. ~(x < i) /\ ~(x < i + Len(r)) /\ ~(y < i) /\ y + (j - i) = x
      BY <1>0, <2>0, <2>3, <3>1
    <3>3. t[x] = c[y]
      BY <1>4, <2>0, <3>1, <3>2
    <3>. QED
      BY <1>1, <3>1, <3>2, <3>3
  <2>4. x < i \/ (x >= i /\ x < j) \/ x >= j
    BY <1>0, <2>0
  <2>. QED
    BY <2>1, <2>2, <2>3, <2>4
<1>. QED
  BY <1>4, <1>5, <1>6, SeqEqual DEF t, c, r

\* An empty range changes nothing when it is cut out.
LEMMA CutNothing ==
  ASSUME NEW s \in Seq(Nodes), NEW i \in 1..(Len(s) + 1)
  PROVE  Cut(s, i, i) = s
<1>1. PICK j \in i..(Len(s) + 1) : j = i
  OBVIOUS
<1>2. /\ Cut(s, i, j) \in Seq(Nodes)
      /\ Len(Cut(s, i, j)) = Len(s) - (j - i)
      /\ \A x \in 1..(Len(s) - (j - i)) :
           Cut(s, i, j)[x] = IF x < i THEN s[x] ELSE s[x + (j - i)]
  BY CutProperties
<1> DEFINE c == Cut(s, i, j)
<1>3. c \in Seq(Nodes) /\ Len(c) = Len(s) /\ \A x \in 1..Len(s) : c[x] = s[x]
  <2>1. Len(s) \in Nat /\ j - i = 0 /\ i \in Int /\ j \in Int
    BY <1>1
  <2>2. Len(s) - (j - i) = Len(s) /\ \A x \in Int : x + (j - i) = x
    BY <2>1
  <2>3. \A x \in 1..Len(s) : c[x] = IF x < i THEN s[x] ELSE s[x + (j - i)]
    BY <1>2, <2>2
  <2>4. \A x \in 1..Len(s) : x \in Int
    BY <2>1
  <2>5. c \in Seq(Nodes) /\ Len(c) = Len(s)
    BY <1>2, <2>2
  <2>. HIDE DEF c
  <2>. QED
    BY <2>2, <2>3, <2>4, <2>5
<1> HIDE DEF c
<1>4. c = s
  BY <1>3, SeqEqual
<1>. QED
  BY <1>1, <1>4 DEF c

\* Nor when it is pasted somewhere.
LEMMA PasteNothing ==
  ASSUME NEW s \in Seq(Nodes), NEW k \in 1..(Len(s) + 1),
         NEW t \in Seq(Nodes), NEW j \in 1..(Len(t) + 1)
  PROVE  Paste(s, k, Slice(t, j, j)) = s
<1> DEFINE r == Slice(t, j, j)
           c == Paste(s, k, r)
<1>1. r \in Seq(Nodes) /\ Len(r) = 0
  <2>1. PICK x \in j..(Len(t) + 1) : x = j
    OBVIOUS
  <2>2. Slice(t, j, x) \in Seq(Nodes) /\ Len(Slice(t, j, x)) = x - j
    BY SliceProperties
  <2>. QED
    BY <2>1, <2>2
<1> HIDE DEF r
<1>2. /\ c \in Seq(Nodes) /\ Len(c) = Len(s) + Len(r)
      /\ \A x \in 1..(Len(s) + Len(r)) :
           c[x] = IF x < k THEN s[x]
                  ELSE IF x < k + Len(r) THEN r[x - k + 1] ELSE s[x - Len(r)]
  BY <1>1, PasteProperties
<1> HIDE DEF c
<1>3. Len(c) = Len(s) /\ \A x \in 1..Len(s) : c[x] = s[x]
  BY <1>1, <1>2
<1>4. c = s
  BY <1>2, <1>3, SeqEqual
<1>. QED
  BY <1>4 DEF c, r

\* The contents after the range [i, j) of m has moved to position k of l.
Moved(es, l, k, m, i, j) ==
  [[es EXCEPT ![m] = Cut(@, i, j)]
      EXCEPT ![l] = Paste(@, IF l = m /\ j <= k THEN k - (j - i) ELSE k,
                          Slice(es[m], i, j))]

(* Moving nothing, or a range to one of its own ends, changes nothing.     *)
LEMMA MoveNowhere ==
  ASSUME NEW es \in Contents, NEW l \in Lists, NEW m \in Lists,
         NEW k \in 1..(Len(es[l]) + 1),
         NEW i \in 1..(Len(es[m]) + 1), NEW j \in i..(Len(es[m]) + 1),
         i = j \/ (l = m /\ (k = i \/ k = j))
  PROVE  Moved(es, l, k, m, i, j) = es
<1>0. /\ es[l] \in Seq(Nodes) /\ es[m] \in Seq(Nodes)
      /\ Len(es[l]) \in Nat /\ Len(es[m]) \in Nat
      /\ i \in Nat /\ j \in Nat /\ k \in Nat
  BY DEF Contents
<1> DEFINE to == IF l = m /\ j <= k THEN k - (j - i) ELSE k
           cs == [es EXCEPT ![m] = Cut(@, i, j)]
           r  == Slice(es[m], i, j)
<1>1. CASE i = j
  <2>1. to = k
    BY <1>0, <1>1
  <2>2. cs = es
    <3>1. Cut(es[m], i, j) = es[m]
      BY <1>0, <1>1, CutNothing
    <3>. QED
      BY <3>1 DEF Contents
  <2>3. Paste(es[l], k, r) = es[l]
    BY <1>0, <1>1, PasteNothing
  <2>. QED
    BY <2>1, <2>2, <2>3 DEF Moved, Contents
<1>2. CASE l = m /\ (k = i \/ k = j)
  <2>1. to = i
    BY <1>0, <1>2
  <2>2. Paste(Cut(es[m], i, j), i, r) = es[m]
    BY <1>0, PasteBack
  <2>3. [cs EXCEPT ![m] = Paste(@, i, r)] = es
    <3>. HIDE DEF r
    <3>. QED
      BY <2>2 DEF Contents
  <2>. QED
    BY <1>2, <2>1, <2>3 DEF Moved
<1>. QED
  BY <1>1, <1>2

\* A move from es to fs in its parts: cs is es without r, the range [i, j) of
\* m, which goes to position to of what cs has of l.
Parted(fs, cs, r, to, es, l, k, m, i, j) ==
  /\ k \in 1..(Len(es[l]) + 1)
  /\ i \in 1..(Len(es[m]) + 1) /\ j \in i..(Len(es[m]) + 1)
  /\ l = m => k <= i \/ j <= k
  /\ fs = Moved(es, l, k, m, i, j)
  /\ cs = [es EXCEPT ![m] = Cut(@, i, j)]
  /\ r = Slice(es[m], i, j)
  /\ to = IF l = m /\ j <= k THEN k - (j - i) ELSE k

(* A move in its two steps: cs is es without the range r, fs has it again. *)
LEMMA MoveContents ==
  ASSUME NEW es \in Contents, Disjoint(es), NEW l \in Lists, NEW m \in Lists,
         NEW k, NEW i, NEW j, NEW cs, NEW r, NEW to, NEW fs,
         Parted(fs, cs, r, to, es, l, k, m, i, j)
  PROVE  /\ cs \in Contents /\ Disjoint(cs) /\ CutOut(cs, es, m, i, j)
         /\ r \in Seq(Nodes) /\ Len(r) = j - i
         /\ \A x \in 1..(j - i) : i + x - 1 \in i..(j - 1) /\ r[x] = es[m][i + x - 1]
         /\ Fresh(cs, r)
         /\ to \in 1..(Len(cs[l]) + 1) /\ Pasted(fs, cs, l, to, r)
         /\ fs \in Contents /\ Disjoint(fs)
         /\ \A n \in Nodes : Out(fs, n) <=> Out(es, n)
<1> DEFINE between == {es[m][y] : y \in i..(j - 1)}
<1>0. /\ cs = [es EXCEPT ![m] = Cut(@, i, j)]
      /\ r = Slice(es[m], i, j)
      /\ to = IF l = m /\ j <= k THEN k - (j - i) ELSE k
      /\ fs = Moved(es, l, k, m, i, j)
      /\ k \in 1..(Len(es[l]) + 1)
      /\ i \in 1..(Len(es[m]) + 1) /\ j \in i..(Len(es[m]) + 1)
      /\ l = m => k <= i \/ j <= k
  BY DEF Parted
<1>1. /\ es[m] \in Seq(Nodes) /\ Len(es[m]) \in Nat /\ Len(es[l]) \in Nat
      /\ i \in Nat /\ j \in Nat /\ k \in Nat
      /\ 1 <= i /\ i <= j /\ j <= Len(es[m]) + 1 /\ 1 <= k /\ k <= Len(es[l]) + 1
  BY <1>0 DEF Contents
<1>2. CutOut(cs, es, m, i, j)
  BY <1>0, CutCuts
<1>3. \A n : n \in between <=> \E y \in i..(j - 1) : n = es[m][y]
  OBVIOUS
<1> HIDE DEF between
<1>4. cs \in Contents /\ Disjoint(cs) /\ Without(cs, es, between)
  BY <1>0, <1>2, CutContents DEF between
<1>5. /\ r \in Seq(Nodes) /\ Len(r) = j - i
      /\ \A x \in 1..(j - i) : r[x] = es[m][i + x - 1]
  BY <1>0, <1>1, SliceProperties
<1>6. \A x \in 1..(j - i) : /\ i + x - 1 \in i..(j - 1) /\ i + x - 1 \in 1..Len(es[m])
                            /\ r[x] \in between /\ r[x] \in Nodes
  <2>1. ASSUME NEW x \in 1..(j - i)
        PROVE  /\ i + x - 1 \in i..(j - 1) /\ i + x - 1 \in 1..Len(es[m])
               /\ r[x] \in between /\ r[x] \in Nodes
    <3>1. i + x - 1 \in i..(j - 1) /\ i + x - 1 \in 1..Len(es[m])
      BY <1>1
    <3>2. r[x] = es[m][i + x - 1]
      BY <1>5
    <3>. QED
      BY <1>1, <1>3, <3>1, <3>2
  <2>. QED
    BY <2>1
<1>7. Fresh(cs, r)
  <2>1. ASSUME NEW x \in 1..(j - i), NEW y \in 1..(j - i), r[x] = r[y]
        PROVE  x = y
    <3>1. es[m][i + x - 1] = es[m][i + y - 1]
      BY <1>5, <2>1
    <3>2. i + x - 1 = i + y - 1
      BY <1>6, <3>1, OnePlace
    <3>. QED
      BY <1>1, <3>2
  <2>2. ASSUME NEW x \in 1..(j - i)
        PROVE  Out(cs, r[x])
    BY <1>4, <1>6 DEF Without
  <2>. QED
    BY <1>5, <2>1, <2>2 DEF Fresh
<1>8. to \in 1..(Len(cs[l]) + 1)
  <2>1. /\ Len(cs[l]) \in Nat
        /\ Len(cs[l]) = IF l = m THEN Len(es[m]) - (j - i) ELSE Len(es[l])
    <3>1. Len(cs[l]) \in Nat
      BY <1>4 DEF Contents
    <3>. QED
      BY <1>2, <3>1 DEF CutOut
  <2>2. CASE l = m
    BY <1>0, <1>1, <2>1, <2>2
  <2>3. CASE l # m
    BY <1>0, <1>1, <2>1, <2>3
  <2>. QED
    BY <2>2, <2>3
<1>9. Pasted(fs, cs, l, to, r)
  BY <1>0, <1>4, <1>5, <1>8, PastePastes DEF Moved
<1>10. fs \in Contents /\ Disjoint(fs) /\ With(fs, cs, r)
  BY <1>4, <1>5, <1>7, <1>8, <1>9, PasteContents
<1>11. ASSUME NEW n \in Nodes
       PROVE  Out(fs, n) <=> Out(es, n)
  <2>1. Out(fs, n) <=> (Out(es, n) \/ n \in between) /\ \A x \in 1..(j - i) : r[x] # n
    BY <1>4, <1>5, <1>10 DEF With, Without
  <2>2. ASSUME n \in between
        PROVE  ~Out(es, n) /\ \E x \in 1..(j - i) : r[x] = n
    <3>1. PICK y \in i..(j - 1) : n = es[m][y]
      BY <1>3, <2>2
    <3>2. PICK x \in 1..(j - i) : x = y - i + 1 /\ i + x - 1 = y
      BY <1>1
    <3>3. y \in 1..Len(es[m])
      BY <1>1
    <3>. QED
      BY <1>5, <3>1, <3>2, <3>3 DEF Out
  <2>3. ASSUME NEW x \in 1..(j - i), r[x] = n
        PROVE  n \in between
    BY <1>6, <2>3
  <2>. QED
    BY <2>1, <2>2, <2>3
<1>. QED
  BY <1>2, <1>4, <1>5, <1>6, <1>7, <1>8, <1>9, <1>10, <1>11

\* The Move of AbstractList.
LEMMA MoveIs ==
  ASSUME NEW l, NEW k, NEW m, NEW i, NEW j, Move(l, k, m, i, j)
  PROVE  elems' = Moved(elems, l, k, m, i, j) /\ (l = m => k <= i \/ j <= k)
  BY DEF Move, Moved

-----------------------------------------------------------------------------
(* The size counters: arithmetic modulo 2^w.                               *)

\* Quotient and remainder.
LEMMA DivMod ==
  ASSUME NEW M \in Nat, M > 0, NEW a \in Int
  PROVE  a % M \in 0..(M - 1) /\ a = M * (a \div M) + (a % M) /\ a \div M \in Int
  OBVIOUS

\* There is one way only to write a number as M * p + r.
LEMMA DivModUnique ==
  ASSUME NEW M \in Nat, M > 0, NEW p \in Int, NEW q \in Int,
         NEW r \in 0..(M - 1), NEW s \in 0..(M - 1), M * p + r = M * q + s
  PROVE  r = s
<1>1. ASSUME NEW x \in Int, NEW y \in Int, x < y, NEW u \in 0..(M - 1), NEW v \in 0..(M - 1),
             M * x + u = M * y + v
      PROVE  FALSE
  <2>1. M * (y - x) >= M
    <3>1. ASSUME NEW d \in Nat, d >= 1
          PROVE  M * d >= M
      BY <3>1
    <3>. QED
      BY <1>1, <3>1
  <2>2. M * (y - x) = M * y - M * x
    OBVIOUS
  <2>3. M * x \in Int /\ M * y \in Int
    OBVIOUS
  <2>. QED
    BY <1>1, <2>1, <2>2, <2>3
<1>2. p = q
  BY <1>1
<1>. QED
  BY <1>2

\* How to recognise a remainder.
LEMMA ModIs ==
  ASSUME NEW M \in Nat, M > 0, NEW a \in Int, NEW q \in Int,
         NEW r \in 0..(M - 1), a = M * q + r
  PROVE  a % M = r
<1> DEFINE x == a \div M
           y == a % M
<1>1. x \in Int /\ y \in 0..(M - 1) /\ a = M * x + y
  BY DivMod
<1> HIDE DEF x, y
<1>2. y = r
  BY <1>1, DivModUnique
<1>. QED
  BY <1>2 DEF y

\* A remainder may be taken before an addition.
LEMMA ModAdd ==
  ASSUME NEW M \in Nat, M > 0, NEW a \in Int, NEW b \in Int
  PROVE  ((a % M) + b) % M = (a + b) % M
<1> DEFINE x == a \div M
           c == (a % M) + b
           z == c \div M
           w == c % M
<1>1. x \in Int /\ a % M \in Int /\ a = M * x + (a % M)
  BY DivMod
<1>2. c \in Int /\ a + b = M * x + c
  BY <1>1
<1>3. z \in Int /\ w \in 0..(M - 1) /\ c = M * z + w
  BY <1>2, DivMod
<1> HIDE DEF c, x, z, w
<1>4. M * (x + z) = M * x + M * z /\ x + z \in Int /\ a + b \in Int
  BY <1>1, <1>3
<1>5. a + b = M * (x + z) + w
  BY <1>1, <1>2, <1>3, <1>4
<1>6. (a + b) % M = w
  BY <1>3, <1>4, <1>5, ModIs
<1>. QED
  BY <1>6 DEF w, c

\* And before a subtraction that wraps around.
LEMMA ModSubtract ==
  ASSUME NEW M \in Nat, M > 0, NEW a \in Int, NEW b \in Int
  PROVE  ((a % M) + M - (b % M)) % M = (a - b) % M
<1> DEFINE x == a \div M
           y == b \div M
           r == a % M
           s == b % M
           c == r + M - s
           z == c \div M
           w == c % M
<1>1. x \in Int /\ r \in Int /\ a = M * x + r
  BY DivMod
<1>2. y \in Int /\ s \in Int /\ b = M * y + s
  BY DivMod
<1> HIDE DEF x, y, r, s
<1>3. c \in Int
  BY <1>1, <1>2
<1>4. z \in Int /\ w \in 0..(M - 1) /\ c = M * z + w
  BY <1>3, DivMod
<1> HIDE DEF z, w
<1>5. M * (x - y - 1 + z) = M * x - M * y - M + M * z
  BY <1>1, <1>2, <1>4
<1>6. /\ M * x \in Int /\ M * y \in Int /\ M * z \in Int
      /\ x - y - 1 + z \in Int /\ a - b \in Int
  BY <1>1, <1>2, <1>4
<1>7. a - b = M * (x - y - 1 + z) + w
  BY <1>1, <1>2, <1>4, <1>5, <1>6
<1>8. (a - b) % M = w
  BY <1>4, <1>6, <1>7, ModIs
<1>. QED
  BY <1>8 DEF w, c, r, s

\* The counters sz hold the lengths ln.
Sized(sz, ln) == /\ sz \in [Lists -> 0..(SizeMod - 1)] /\ ln \in [Lists -> Nat]
                 /\ \A l \in Lists : sz[l] = Counted(ln[l])

\* The numbers of elements.
Lengths(es) == [l \in Lists |-> Len(es[l])]

\* increase counts n more elements.
LEMMA Increase ==
  ASSUME NEW sz, NEW ln, Sized(sz, ln), NEW l \in Lists, NEW n \in Nat
  PROVE  Sized(increase(sz, l, n), [ln EXCEPT ![l] = @ + n])
<1>1. ln[l] \in Nat /\ sz[l] = Counted(ln[l])
  BY DEF Sized
<1>2. Counted(sz[l] + n) = Counted(ln[l] + n) /\ Counted(ln[l] + n) \in 0..(SizeMod - 1)
  <2>1. CASE ConstantTimeSize
    <3>1. SizeMod \in Nat /\ SizeMod > 0 /\ ln[l] \in Int /\ n \in Int /\ ln[l] + n \in Int
      BY <1>1, OptionAssumption
    <3>2. ((ln[l] % SizeMod) + n) % SizeMod = (ln[l] + n) % SizeMod
      BY <3>1, ModAdd
    <3>3. (ln[l] + n) % SizeMod \in 0..(SizeMod - 1)
      BY <3>1, DivMod
    <3>. QED
      BY <1>1, <2>1, <3>2, <3>3 DEF Counted
  <2>2. CASE ~ConstantTimeSize
    BY <2>2, OptionAssumption DEF Counted
  <2>. QED
    BY <2>1, <2>2
<1>. HIDE DEF Counted
<1>. QED
  BY <1>1, <1>2 DEF Sized, increase

\* decrease counts n fewer, wrapping around as the unsigned type does.
LEMMA Decrease ==
  ASSUME NEW sz, NEW ln, Sized(sz, ln), NEW l \in Lists, NEW n \in 0..ln[l]
  PROVE  Sized(decrease(sz, l, n), [ln EXCEPT ![l] = @ - n])
<1>1. ln[l] \in Nat /\ sz[l] = Counted(ln[l]) /\ n \in Nat
  BY DEF Sized
<1>2. /\ Counted(sz[l] + SizeMod - (n % SizeMod)) = Counted(ln[l] - n)
      /\ Counted(ln[l] - n) \in 0..(SizeMod - 1) /\ ln[l] - n \in Nat
  <2>1. CASE ConstantTimeSize
    <3>1. SizeMod \in Nat /\ SizeMod > 0 /\ ln[l] \in Int /\ n \in Int /\ ln[l] - n \in Int
      BY <1>1, OptionAssumption
    <3>2. ((ln[l] % SizeMod) + SizeMod - (n % SizeMod)) % SizeMod = (ln[l] - n) % SizeMod
      BY <3>1, ModSubtract
    <3>3. (ln[l] - n) % SizeMod \in 0..(SizeMod - 1)
      BY <3>1, DivMod
    <3>4. ln[l] - n \in Nat
      BY <1>1
    <3>. QED
      BY <1>1, <2>1, <3>2, <3>3, <3>4 DEF Counted
  <2>2. CASE ~ConstantTimeSize
    BY <1>1, <2>2, OptionAssumption DEF Counted
  <2>. QED
    BY <2>1, <2>2
<1>. QED
  BY <1>1, <1>2 DEF Sized, decrease

\* set_size(0) counts none.
LEMMA SetSize ==
  ASSUME NEW sz, NEW ln, Sized(sz, ln), NEW l \in Lists
  PROVE  Sized(set_size(sz, l, 0), [ln EXCEPT ![l] = 0])
<1>1. Counted(0) \in 0..(SizeMod - 1)
  <2>1. SizeMod \in Nat /\ SizeMod > 0 /\ 0 \in Int
    BY OptionAssumption
  <2>2. 0 % SizeMod \in 0..(SizeMod - 1) /\ 0 \in 0..(SizeMod - 1)
    BY <2>1, DivMod
  <2>. QED
    BY <2>2 DEF Counted
<1>. HIDE DEF Counted
<1>. QED
  BY <1>1 DEF Sized, set_size

\* In a program whose lists do not count, every counter is right.
LEMMA Uncounted ==
  ASSUME NEW sz, NEW ln, Sized(sz, ln), ~ConstantTimeSize,
         NEW l \in Lists, NEW m \in Lists, NEW n, NEW gn \in [Lists -> Nat]
  PROVE  Sized(sz, gn) /\ Sized(decrease(increase(sz, l, n), m, n), gn)
  BY OptionAssumption DEF Sized, increase, decrease, Counted

\* Lengths are natural numbers.
LEMMA LengthsType ==
  ASSUME NEW es \in Contents
  PROVE  Lengths(es) \in [Lists -> Nat]
  BY DEF Lengths, Contents

\* A list that has lost or got a range of elements.
LEMMA PasteLengths ==
  ASSUME NEW es \in Contents, NEW l \in Lists, NEW k, NEW r, NEW fs, Pasted(fs, es, l, k, r)
  PROVE  Lengths(fs) = [Lengths(es) EXCEPT ![l] = @ + Len(r)]
<1>1. \A o \in Lists : Len(fs[o]) = IF o = l THEN Len(es[l]) + Len(r) ELSE Len(es[o])
  BY DEF Pasted
<1>. QED
  BY <1>1 DEF Lengths

\* And one that has lost a range.
LEMMA CutLengths ==
  ASSUME NEW es \in Contents, NEW l \in Lists, NEW i, NEW j, NEW fs, CutOut(fs, es, l, i, j)
  PROVE  Lengths(fs) = [Lengths(es) EXCEPT ![l] = @ - (j - i)]
<1>1. \A o \in Lists : Len(fs[o]) = IF o = l THEN Len(es[l]) - (j - i) ELSE Len(es[o])
  BY DEF CutOut
<1>. QED
  BY <1>1 DEF Lengths

\* A move takes from one list what it gives to the other.
LEMMA MovedLengths ==
  ASSUME NEW es \in Contents, NEW l \in Lists, NEW m \in Lists,
         NEW k \in 1..(Len(es[l]) + 1),
         NEW i \in 1..(Len(es[m]) + 1), NEW j \in i..(Len(es[m]) + 1),
         l = m => k <= i \/ j <= k
  PROVE  Lengths(Moved(es, l, k, m, i, j))
           = [[Lengths(es) EXCEPT ![m] = @ - (j - i)] EXCEPT ![l] = @ + (j - i)]
<1> DEFINE cs == [es EXCEPT ![m] = Cut(@, i, j)]
           r  == Slice(es[m], i, j)
           to == IF l = m /\ j <= k THEN k - (j - i) ELSE k
           fs == Moved(es, l, k, m, i, j)
<1>1. /\ es[m] \in Seq(Nodes) /\ Len(es[m]) \in Nat /\ Len(es[l]) \in Nat
      /\ i \in Nat /\ j \in Nat /\ k \in Nat
  BY DEF Contents
<1>2. CutOut(cs, es, m, i, j)
  BY CutCuts
<1>3. r \in Seq(Nodes) /\ Len(r) = j - i
  BY <1>1, SliceProperties
<1> HIDE DEF cs
<1>4. /\ cs \in Contents
      /\ \A o \in Lists : Len(cs[o]) = IF o = m THEN Len(es[m]) - (j - i) ELSE Len(es[o])
  BY <1>2 DEF CutOut
<1>5. to \in 1..(Len(cs[l]) + 1)
  <2>1. CASE l = m
    BY <1>1, <1>4, <2>1
  <2>2. CASE l # m
    BY <1>1, <1>4, <2>2
  <2>. QED
    BY <2>1, <2>2
<1>6. fs = [cs EXCEPT ![l] = Paste(@, to, r)]
  BY DEF Moved, cs
<1> HIDE DEF r, to, fs
<1>7. Pasted(fs, cs, l, to, r)
  BY <1>3, <1>4, <1>5, <1>6, PastePastes
<1>8. \A o \in Lists : Len(fs[o]) = IF o = l THEN Len(cs[l]) + (j - i) ELSE Len(cs[o])
  BY <1>3, <1>7 DEF Pasted
<1>. QED
  BY <1>4, <1>8 DEF Lengths, fs

\* The counters after n elements have gone from m to l, in either order.
LEMMA Recount ==
  ASSUME NEW sz, NEW es \in Contents, Sized(sz, Lengths(es)), NEW l \in Lists, NEW m \in Lists,
         NEW k \in 1..(Len(es[l]) + 1),
         NEW i \in 1..(Len(es[m]) + 1), NEW j \in i..(Len(es[m]) + 1),
         l = m => k <= i \/ j <= k,
         NEW n, n = j - i
  PROVE  /\ Sized(increase(decrease(sz, m, n), l, n), Lengths(Moved(es, l, k, m, i, j)))
         /\ Sized(decrease(increase(sz, l, n), m, n), Lengths(Moved(es, l, k, m, i, j)))
<1> DEFINE ln == Lengths(es)
           fn == Lengths(Moved(es, l, k, m, i, j))
           dn == [ln EXCEPT ![m] = @ - n]
           un == [ln EXCEPT ![l] = @ + n]
<1>1. /\ ln \in [Lists -> Nat] /\ ln[m] = Len(es[m]) /\ n \in Nat /\ n <= Len(es[m])
      /\ Len(es[m]) \in Nat
  BY LengthsType DEF Lengths, Contents
<1>2. fn = [dn EXCEPT ![l] = @ + n]
  BY MovedLengths
<1> HIDE DEF ln, fn
<1>3. un \in [Lists -> Nat] /\ n \in 0..ln[m] /\ n \in 0..un[m]
  BY <1>1
<1>4. fn = [un EXCEPT ![m] = @ - n]
  <2>1. CASE l = m
    <3>1. ln[l] - n + n = ln[l] /\ ln[l] + n - n = ln[l]
      BY <1>1, <2>1
    <3>2. fn = ln /\ [un EXCEPT ![m] = @ - n] = ln
      BY <1>1, <1>2, <2>1, <3>1
    <3>. QED
      BY <3>2
  <2>2. CASE l # m
    BY <1>1, <1>2, <2>2
  <2>. QED
    BY <2>1, <2>2
<1>5. Sized(decrease(sz, m, n), dn) /\ Sized(increase(sz, l, n), un)
  BY <1>1, <1>3, Increase, Decrease DEF ln
<1> HIDE DEF dn, un
<1>6. /\ Sized(increase(decrease(sz, m, n), l, n), [dn EXCEPT ![l] = @ + n])
      /\ Sized(decrease(increase(sz, l, n), m, n), [un EXCEPT ![m] = @ - n])
  BY <1>1, <1>3, <1>5, Increase, Decrease
<1>. QED
  BY <1>2, <1>4, <1>6 DEF fn

\* The counters after all the elements of m have gone to l.
LEMMA TakeAllSizes ==
  ASSUME NEW es \in Contents, NEW sz, Sized(sz, Lengths(es)),
         NEW l \in Lists, NEW m \in Lists, l # m,
         NEW k \in 1..(Len(es[l]) + 1),
         NEW i \in 1..(Len(es[m]) + 1), NEW j \in i..(Len(es[m]) + 1), j - i = Len(es[m])
  PROVE  Sized(set_size(increase(sz, l, sz[m]), m, 0), Lengths(Moved(es, l, k, m, i, j)))
<1> DEFINE ln == Lengths(es)
           un == [ln EXCEPT ![l] = @ + ln[m]]
           fn == Lengths(Moved(es, l, k, m, i, j))
<1>1. /\ ln \in [Lists -> Nat] /\ ln[m] = Len(es[m]) /\ sz[m] \in Nat
      /\ Sized(sz, ln)
  BY LengthsType DEF Sized, Lengths
<1>2. fn = [un EXCEPT ![m] = 0]
  <2>1. fn = [[ln EXCEPT ![m] = @ - (j - i)] EXCEPT ![l] = @ + (j - i)]
    BY MovedLengths
  <2>. HIDE DEF ln, fn
  <2>2. ln[m] - (j - i) = 0 /\ j - i = ln[m]
    BY <1>1
  <2>. QED
    BY <1>1, <2>1, <2>2
<1> HIDE DEF ln, fn
<1>3. ln[l] \in Nat /\ ln[m] \in Nat /\ sz[l] = Counted(ln[l]) /\ sz[m] = Counted(ln[m])
  BY <1>1 DEF Sized
<1>4. Counted(sz[l] + sz[m]) = Counted(ln[l] + ln[m])
  <2>1. CASE ConstantTimeSize
    <3>1. /\ SizeMod \in Nat /\ SizeMod > 0 /\ ln[l] \in Int /\ ln[m] \in Int
          /\ ln[l] + ln[m] \in Int
      BY <1>3, OptionAssumption
    <3>2. sz[l] = ln[l] % SizeMod /\ sz[m] = ln[m] % SizeMod
      BY <1>3, <2>1 DEF Counted
    <3>3. ln[m] % SizeMod \in Int
      BY <3>1, DivMod
    <3>4. /\ ((ln[l] % SizeMod) + (ln[m] % SizeMod)) % SizeMod
               = (ln[l] + (ln[m] % SizeMod)) % SizeMod
          /\ ((ln[m] % SizeMod) + ln[l]) % SizeMod = (ln[m] + ln[l]) % SizeMod
      BY <3>1, <3>3, ModAdd
    <3>5. /\ (ln[m] % SizeMod) + ln[l] = ln[l] + (ln[m] % SizeMod)
          /\ ln[m] + ln[l] = ln[l] + ln[m]
      BY <3>1, <3>3
    <3>. QED
      BY <2>1, <3>2, <3>4, <3>5 DEF Counted
  <2>2. CASE ~ConstantTimeSize
    BY <2>2 DEF Counted
  <2>. QED
    BY <2>1, <2>2
<1>5. Sized(increase(sz, l, ln[m]), un)
  BY <1>1, <1>3, Increase
<1>6. Counted(sz[l] + ln[m]) = Counted(ln[l] + ln[m])
  <2>1. sz \in [Lists -> 0..(SizeMod - 1)] /\ un[l] = ln[l] + ln[m]
    BY <1>1 DEF Sized
  <2>. HIDE DEF un
  <2>. QED
    BY <1>5, <2>1 DEF Sized, increase
<1>7. increase(sz, l, sz[m]) = increase(sz, l, ln[m])
  BY <1>4, <1>6 DEF increase
<1> HIDE DEF un
<1>8. Sized(set_size(increase(sz, l, sz[m]), m, 0), [un EXCEPT ![m] = 0])
  BY <1>5, <1>7, SetSize
<1>. QED
  BY <1>2, <1>8 DEF fn

\* The counters after l and m have exchanged their contents.
LEMMA SwapSizes ==
  ASSUME NEW es \in Contents, NEW sz, Sized(sz, Lengths(es)),
         NEW l \in Lists, NEW m \in Lists
  PROVE  Sized(swap_size(sz, l, m), Lengths([es EXCEPT ![l] = es[m], ![m] = es[l]]))
<1> DEFINE fs == [es EXCEPT ![l] = es[m], ![m] = es[l]]
<1>1. fs \in Contents
  BY DEF Contents
<1>2. \A o \in Lists : fs[o] = IF o = m THEN es[l] ELSE IF o = l THEN es[m] ELSE es[o]
  BY DEF Contents
<1> HIDE DEF fs
<1>3. Lengths(fs) \in [Lists -> Nat] /\ \A o \in Lists : Lengths(fs)[o] = Len(fs[o])
  BY <1>1, LengthsType DEF Lengths
<1>4. \A o \in Lists : sz[o] \in 0..(SizeMod - 1) /\ sz[o] = Counted(Len(es[o]))
  BY DEF Sized, Lengths
<1>5. swap_size(sz, l, m) = [o \in Lists |-> IF o = m THEN sz[l] ELSE IF o = l THEN sz[m]
                                             ELSE sz[o]]
  BY DEF swap_size, Sized
<1>6. Sized(swap_size(sz, l, m), Lengths(fs))
  BY <1>2, <1>3, <1>4, <1>5, ZenonT(40) DEF Sized
<1>. QED
  BY <1>6 DEF fs
-----------------------------------------------------------------------------
(* The promise of AbstractList.                                            *)

\* The order of the natural numbers, as a set of pairs.
Less == {ss \in Nat \X Nat : ss[1] < ss[2]}

\* A set of natural numbers that is not empty has a least element.
LEMMA LeastElement ==
  ASSUME NEW T \in SUBSET Nat, T # {}
  PROVE  \E x \in T : \A y \in T : x <= y
<1>1. Less = OpToRel(<, Nat)
  BY DEF Less, OpToRel
<1>2. IsWellFoundedOn(Less, Nat)
  BY <1>1, NatLessThanWellFounded
<1>3. PICK x \in T : \A y \in T : ~(<<y, x>> \in Less)
  BY <1>2, WFMin
<1>4. ASSUME NEW y \in T
      PROVE  x <= y
  <2>1. x \in Nat /\ y \in Nat
    OBVIOUS
  <2>2. <<y, x>> \in Less <=> y < x
    BY <2>1 DEF Less
  <2>. QED
    BY <1>3, <2>1, <2>2
<1>. QED
  BY <1>4

\* An erasure of a range is one edit of the abstract list, or none.
LEMMA ErasePromised ==
  ASSUME elems \in Contents, NEW l \in Lists, NEW i \in EndPositions(l),
         NEW j \in EndPositions(l), i <= j, EraseRange(l, i, j)
  PROVE  [ANext]_elems
<1>1. /\ elems[l] \in Seq(Nodes) /\ Len(elems[l]) \in Nat
      /\ i \in 1..(Len(elems[l]) + 1) /\ j \in 1..(Len(elems[l]) + 1)
  BY DEF Contents, EndPositions
<1>2. CASE i = j
  <2>1. Cut(elems[l], i, j) = elems[l]
    BY <1>1, <1>2, CutNothing
  <2>2. elems' = elems
    BY <2>1 DEF EraseRange, Contents
  <2>. QED
    BY <2>2
<1>3. CASE i < j
  <2>1. i \in Positions(l)
    BY <1>1, <1>3 DEF Positions
  <2>. QED
    BY <1>3, <2>1 DEF ANext
<1>. QED
  BY <1>1, <1>2, <1>3

\* So is a move.
LEMMA MovePromised ==
  ASSUME elems \in Contents, NEW l \in Lists, NEW m \in Lists, NEW k \in EndPositions(l),
         NEW i \in EndPositions(m), NEW j \in EndPositions(m), i <= j, Move(l, k, m, i, j)
  PROVE  [ANext]_elems
<1>1. /\ elems[m] \in Seq(Nodes) /\ Len(elems[m]) \in Nat
      /\ k \in 1..(Len(elems[l]) + 1)
      /\ i \in 1..(Len(elems[m]) + 1) /\ j \in i..(Len(elems[m]) + 1)
  BY DEF Contents, EndPositions
<1>2. CASE i = j
  <2>1. elems' = elems
    BY <1>1, <1>2, MoveIs, MoveNowhere
  <2>. QED
    BY <2>1
<1>3. CASE i < j
  <2>1. i \in Positions(m)
    BY <1>1, <1>3 DEF Positions
  <2>. QED
    BY <1>3, <2>1 DEF ANext
<1>. QED
  BY <1>1, <1>2, <1>3
=============================================================================
