--------------------------- MODULE HashTableProofs ---------------------------
(***************************************************************************)
(* The inductive invariant of the hash table, IBase about its elements and *)
(* IGroups about their groups, and that the operations of HashTable, which *)
(* run without interruption, preserve IBase.  The first half states what   *)
(* that rests on: what cutting, inserting and concatenating make of the    *)
(* elements of a bucket and of the links of its groups, in which bucket a  *)
(* hash belongs, and how a search goes from group to group; and facts      *)
(* about natural numbers: least elements, induction and remainders.        *)
(***************************************************************************)
EXTENDS HashCalls, Integers, NaturalsInduction, WellFoundedInduction, SequenceTheorems,
        FiniteSetTheorems, TLAPS

(* The least element of a set of natural numbers, and induction over them. *)

Less == {ss \in Nat \X Nat : ss[1] < ss[2]}

\* There is no endless descent in the natural numbers.
LEMMA LessIsWellFounded == IsWellFoundedOn(Less, Nat)
<1>1. Less = OpToRel(<, Nat)
  BY DEF Less, OpToRel
<1>. QED
  BY <1>1, NatLessThanWellFounded

\* A set of natural numbers that is not empty has a least element.
LEMMA LeastElement ==
  ASSUME NEW T \in SUBSET Nat, T # {}
  PROVE  \E x \in T : \A y \in T : x <= y
<1>1. PICK x \in T : \A y \in T : ~(<<y, x>> \in Less)
  BY LessIsWellFounded, WFMin
<1>2. ASSUME NEW y \in T
      PROVE  x <= y
  <2>1. x \in Nat /\ y \in Nat
    OBVIOUS
  <2>2. ~(<<y, x>> \in Less)
    BY <1>1
  <2>3. <<y, x>> \in Less <=> y < x
    BY <2>1 DEF Less
  <2>. QED
    BY <2>1, <2>2, <2>3
<1>. QED
  BY <1>2

\* A set that has 0 and with a number its successor has all numbers.
LEMMA SetInduction ==
  ASSUME NEW S \in SUBSET Nat, 0 \in S, \A n \in S : n + 1 \in S
  PROVE  S = Nat
<1> SUFFICES ASSUME Nat \ S # {}
             PROVE  FALSE
  OBVIOUS
<1>1. PICK x \in Nat \ S : \A y \in Nat \ S : x <= y
  BY LeastElement
<1>2. x # 0
  OBVIOUS
<1>3. x - 1 \in S
  BY <1>1, <1>2
<1>. QED
  BY <1>3
-----------------------------------------------------------------------------
(* Remainders.                                                             *)

\* A natural number is its quotient times the divisor, and its remainder.
LEMMA DivMod ==
  ASSUME NEW M \in Nat, M > 0, NEW a \in Int
  PROVE  a % M \in 0..(M - 1) /\ a = M * (a \div M) + (a % M) /\ a \div M \in Int
  OBVIOUS

\* And it is so in one way only.
LEMMA DivModUnique ==
  ASSUME NEW M \in Nat, M > 0, NEW p \in Int, NEW q \in Int,
         NEW r \in 0..(M - 1), NEW s \in 0..(M - 1), M * p + r = M * q + s
  PROVE  r = s
<1>1. ASSUME NEW x \in Int, NEW y \in Int, x < y, NEW u \in 0..(M - 1), NEW v \in 0..(M - 1),
             M * x + u = M * y + v
      PROVE  FALSE
  <2>1. M * (y - x) >= M
    <3>1. ASSUME NEW d \in Nat, d >= 1
          PROVE  M * d >= M
      BY <3>1
    <3>. QED
      BY <1>1, <3>1
  <2>2. M * (y - x) = M * y - M * x
    OBVIOUS
  <2>3. M * x \in Int /\ M * y \in Int
    OBVIOUS
  <2>. QED
    BY <1>1, <2>1, <2>2, <2>3
<1>2. p = q
  BY <1>1
<1>. QED
  BY <1>2

\* The remainder is what a multiple of the divisor leaves.
LEMMA ModIs ==
  ASSUME NEW M \in Nat, M > 0, NEW a \in Int, NEW q \in Int,
         NEW r \in 0..(M - 1), a = M * q + r
  PROVE  a % M = r
<1> DEFINE x == a \div M
           y == a % M
<1>1. x \in Int /\ y \in 0..(M - 1) /\ a = M * x + y
  BY DivMod
<1> HIDE DEF x, y
<1>2. y = r
  BY <1>1, DivModUnique
<1>. QED
  BY <1>2 DEF y

\* A number below the divisor is its own remainder.
LEMMA ModSmall ==
  ASSUME NEW M \in Nat, NEW a \in 0..(M - 1)
  PROVE  a % M = a
<1>1. M > 0 /\ 0 \in Int /\ a = M * 0 + a /\ a \in Int
  OBVIOUS
<1>. QED
  BY <1>1, ModIs

\* The remainder of a remainder, if one divisor divides the other.
LEMMA ModMod ==
  ASSUME NEW M \in Nat, NEW m \in Nat, M > 0, m > 0, M % m = 0, NEW a \in Nat
  PROVE  (a % M) % m = a % m
<1> DEFINE q == M \div m
           x == a \div M
           r == a % M
           y == r \div m
           w == r % m
<1>1. q \in Int /\ M = m * q
  <2>1. M = m * q + (M % m) /\ q \in Int
    BY DivMod
  <2>2. m * q \in Int
    BY <2>1
  <2>. QED
    BY <2>1, <2>2
<1>2. x \in Int /\ r \in Int /\ a = M * x + r
  BY DivMod
<1> HIDE DEF q, x, r
<1>3. y \in Int /\ w \in 0..(m - 1) /\ r = m * y + w
  BY <1>2, DivMod
<1> HIDE DEF y, w
<1>4. M * x = m * (q * x) /\ q * x \in Int /\ m * (q * x + y) = m * (q * x) + m * y
  BY <1>1, <1>2, <1>3
<1>5. a = m * (q * x + y) + w /\ q * x + y \in Int
  <2>1. m * (q * x) \in Int /\ m * y \in Int
    BY <1>3, <1>4
  <2>. QED
    BY <1>2, <1>3, <1>4, <2>1
<1>6. PICK e \in Int : a = m * e + w
  BY <1>5
<1>7. a \in Int
  OBVIOUS
<1>8. a % m = w
  BY <1>3, <1>6, <1>7, ModIs
<1>. QED
  BY <1>8 DEF w, r

\* The remainder by twice the divisor is the one by the divisor, or that and the divisor.
LEMMA ModDoubled ==
  ASSUME NEW m \in Nat, m > 0, NEW a \in Nat
  PROVE  /\ a % (2 * m) \in 0..(2 * m - 1) /\ a % m \in 0..(m - 1)
         /\ a % m = IF a % (2 * m) >= m THEN (a % (2 * m)) - m ELSE a % (2 * m)
<1> DEFINE r == a % (2 * m)
<1>1. 2 * m \in Nat /\ 2 * m > 0
  OBVIOUS
<1>2. (2 * m) % m = 0
  <2>1. 2 \in Int /\ 0 \in 0..(m - 1) /\ 2 * m = m * 2 + 0 /\ 2 * m \in Int
    OBVIOUS
  <2>. QED
    BY <2>1, ModIs
<1>3. r % m = a % m
  BY <1>1, <1>2, ModMod
<1>4. r \in 0..(2 * m - 1) /\ a % m \in 0..(m - 1)
  BY <1>1, DivMod
<1> HIDE DEF r
<1>5. CASE r >= m
  <2>1. 1 \in Int /\ r - m \in 0..(m - 1) /\ r = m * 1 + (r - m) /\ r \in Int
    BY <1>4, <1>5
  <2>2. r % m = r - m
    BY <2>1, ModIs
  <2>. QED
    BY <1>3, <1>4, <1>5, <2>2 DEF r
<1>6. CASE ~(r >= m)
  <2>1. r \in 0..(m - 1)
    BY <1>4, <1>6
  <2>2. r % m = r
    BY <2>1, ModSmall
  <2>. QED
    BY <1>3, <1>4, <1>6, <2>2 DEF r
<1>. QED
  BY <1>5, <1>6
-----------------------------------------------------------------------------

\* The elements of a bucket, and that it holds each of them once.
Elems(b)    == {b[x] : x \in DOMAIN b}
Distinct(b) == \A x, y \in DOMAIN b : b[x] = b[y] => x = y
-----------------------------------------------------------------------------
(* Cutting a bucket and putting elements into it.                          *)

\* What SubSeq is, for bounds in the sequence or just outside of it.
LEMMA SliceProperties ==
  ASSUME NEW S, NEW b \in Seq(S), NEW i \in Nat, NEW j \in Nat,
         1 <= i, i <= j + 1, j <= Len(b)
  PROVE  /\ SubSeq(b, i, j) \in Seq(S)
         /\ Len(SubSeq(b, i, j)) = j - i + 1
         /\ \A x \in 1..(j - i + 1) : SubSeq(b, i, j)[x] = b[i + x - 1]
<1>1. Len(b) \in Nat /\ \A x \in i..j : b[x] \in S
  <2>1. Len(b) \in Nat
    OBVIOUS
  <2>2. ASSUME NEW x \in i..j
        PROVE  b[x] \in S
    <3>1. x \in 1..Len(b)
      BY <2>1
    <3>. QED
      BY <3>1, ElementOfSeq
  <2>. QED
    BY <2>1, <2>2
<1>2. /\ SubSeq(b, i, j) \in Seq(S)
      /\ Len(SubSeq(b, i, j)) = IF i <= j THEN j - i + 1 ELSE 0
      /\ \A x \in 1..(j - i + 1) : SubSeq(b, i, j)[x] = b[i + x - 1]
  BY <1>1, SubSeqProperties, i \in Int, j \in Int
<1>. QED
  BY <1>2

(* c is b without the elements at the positions i, ..., j - 1. *)
IsCut(c, b, i, j) ==
  \A x \in 1..(Len(b) - (j - i)) : c[x] = IF x < i THEN b[x] ELSE b[x + (j - i)]

\* What remains of a bucket without some of its positions.
LEMMA CutProperties ==
  ASSUME NEW S, NEW b \in Seq(S), NEW i \in Nat, NEW j \in Nat,
         1 <= i, i <= j, j <= Len(b) + 1
  PROVE  /\ Cut(b, i, j) \in Seq(S)
         /\ Len(Cut(b, i, j)) = Len(b) - (j - i)
         /\ \A x \in 1..(Len(b) - (j - i)) :
              Cut(b, i, j)[x] = IF x < i THEN b[x] ELSE b[x + (j - i)]
<1> DEFINE u == SubSeq(b, 1, i - 1)
           v == SubSeq(b, j, Len(b))
           t == u \o v
<1>0. Len(b) \in Nat /\ i - 1 \in Nat /\ 1 \in Nat
  OBVIOUS
<1>1. /\ u \in Seq(S) /\ Len(u) = i - 1
      /\ \A x \in 1..(i - 1) : u[x] = b[1 + x - 1]
  <2>1. /\ u \in Seq(S) /\ Len(u) = i - 1 - 1 + 1
        /\ \A x \in 1..(i - 1 - 1 + 1) : u[x] = b[1 + x - 1]
    <3>1. 1 <= (i - 1) + 1 /\ i - 1 <= Len(b)
      BY <1>0
    <3>. QED
      BY <1>0, <3>1, SliceProperties
  <2>2. i - 1 - 1 + 1 = i - 1
    OBVIOUS
  <2>. QED
    BY <2>1, <2>2
<1>2. /\ v \in Seq(S) /\ Len(v) = Len(b) - j + 1
      /\ \A x \in 1..(Len(b) - j + 1) : v[x] = b[j + x - 1]
  BY <1>0, SliceProperties
<1>3. Cut(b, i, j) = t
  BY DEF Cut
<1> HIDE DEF u, v
<1>4. /\ t \in Seq(S) /\ Len(t) = Len(u) + Len(v)
      /\ \A x \in 1..(Len(u) + Len(v)) : t[x] = IF x <= Len(u) THEN u[x] ELSE v[x - Len(u)]
  <2>1. u \in Seq(S) /\ v \in Seq(S)
    BY <1>1, <1>2
  <2>. QED
    BY <2>1, ConcatProperties
<1> HIDE DEF t
<1>5. Len(t) = Len(b) - (j - i)
  BY <1>0, <1>1, <1>2, <1>4
<1>6. ASSUME NEW x \in 1..(Len(b) - (j - i))
      PROVE  t[x] = IF x < i THEN b[x] ELSE b[x + (j - i)]
  <2>1. CASE x < i
    <3>1. x \in 1..(Len(u) + Len(v)) /\ x <= Len(u) /\ x \in 1..(i - 1) /\ 1 + x - 1 = x
      BY <1>0, <1>1, <1>2, <2>1
    <3>. QED
      BY <1>1, <1>4, <2>1, <3>1
  <2>2. CASE x >= i
    <3>1. /\ x - Len(u) \in 1..(Len(b) - j + 1)
          /\ j + (x - Len(u)) - 1 = x + (j - i)
          /\ x \in 1..(Len(u) + Len(v)) /\ ~(x <= Len(u))
      BY <1>0, <1>1, <1>2, <2>2
    <3>2. t[x] = v[x - Len(u)] /\ v[x - Len(u)] = b[x + (j - i)]
      BY <1>2, <1>4, <3>1
    <3>. QED
      BY <2>2, <3>2
  <2>. QED
    BY <2>1, <2>2
<1>. QED
  BY <1>3, <1>4, <1>5, <1>6

\* What was taken out of it.
LEMMA PieceProperties ==
  ASSUME NEW S, NEW b \in Seq(S), NEW i \in Nat, NEW j \in Nat,
         1 <= i, i <= j, j <= Len(b) + 1
  PROVE  /\ Piece(b, i, j) \in Seq(S)
         /\ Len(Piece(b, i, j)) = j - i
         /\ \A x \in 1..(j - i) : Piece(b, i, j)[x] = b[i + x - 1]
<1>1. j - 1 \in Nat /\ i <= (j - 1) + 1 /\ j - 1 <= Len(b) /\ (j - 1) - i + 1 = j - i
  OBVIOUS
<1>2. /\ SubSeq(b, i, j - 1) \in Seq(S)
      /\ Len(SubSeq(b, i, j - 1)) = (j - 1) - i + 1
      /\ \A x \in 1..((j - 1) - i + 1) : SubSeq(b, i, j - 1)[x] = b[i + x - 1]
  BY <1>1, SliceProperties
<1>. QED
  BY <1>1, <1>2 DEF Piece

\* What a bucket is with one element more.
LEMMA PutInProperties ==
  ASSUME NEW S, NEW b \in Seq(S), NEW i \in Nat, NEW n \in S, 1 <= i, i <= Len(b) + 1
  PROVE  /\ PutIn(b, i, n) \in Seq(S)
         /\ Len(PutIn(b, i, n)) = Len(b) + 1
         /\ \A x \in 1..(Len(b) + 1) :
              PutIn(b, i, n)[x] = IF x < i THEN b[x] ELSE IF x = i THEN n ELSE b[x - 1]
<1> DEFINE u == SubSeq(b, 1, i - 1)
           v == SubSeq(b, i, Len(b))
           w == u \o <<n>>
           t == w \o v
<1>0. Len(b) \in Nat /\ i - 1 \in Nat /\ 1 \in Nat
  OBVIOUS
<1>1. /\ u \in Seq(S) /\ Len(u) = i - 1
      /\ \A x \in 1..(i - 1) : u[x] = b[1 + x - 1]
  <2>1. /\ u \in Seq(S) /\ Len(u) = i - 1 - 1 + 1
        /\ \A x \in 1..(i - 1 - 1 + 1) : u[x] = b[1 + x - 1]
    <3>1. 1 <= (i - 1) + 1 /\ i - 1 <= Len(b)
      BY <1>0
    <3>. QED
      BY <1>0, <3>1, SliceProperties
  <2>2. i - 1 - 1 + 1 = i - 1
    OBVIOUS
  <2>. QED
    BY <2>1, <2>2
<1>2. /\ v \in Seq(S) /\ Len(v) = Len(b) - i + 1
      /\ \A x \in 1..(Len(b) - i + 1) : v[x] = b[i + x - 1]
  BY <1>0, SliceProperties
<1>3. PutIn(b, i, n) = t
  BY DEF PutIn
<1> HIDE DEF u, v
<1>4. /\ w \in Seq(S) /\ Len(w) = i
      /\ \A x \in 1..i : w[x] = IF x < i THEN b[x] ELSE n
  <2>1. u \in Seq(S) /\ <<n>> \in Seq(S) /\ Len(<<n>>) = 1 /\ <<n>>[1] = n
    BY <1>1
  <2>2. /\ w \in Seq(S) /\ Len(w) = Len(u) + 1
        /\ \A x \in 1..(Len(u) + 1) : w[x] = IF x <= Len(u) THEN u[x] ELSE <<n>>[x - Len(u)]
    BY <2>1, ConcatProperties
  <2> HIDE DEF w
  <2>3. ASSUME NEW x \in 1..i
        PROVE  w[x] = IF x < i THEN b[x] ELSE n
    <3>1. CASE x < i
      BY <1>0, <1>1, <2>2, <3>1
    <3>2. CASE x = i
      <4>1. x - Len(u) = 1 /\ x \in 1..(Len(u) + 1) /\ ~(x <= Len(u))
        BY <1>0, <1>1, <3>2
      <4>. QED
        BY <2>1, <2>2, <3>2, <4>1
    <3>. QED
      BY <3>1, <3>2
  <2>. QED
    BY <1>0, <1>1, <2>2, <2>3
<1> HIDE DEF w
<1>5. /\ t \in Seq(S) /\ Len(t) = Len(w) + Len(v)
      /\ \A x \in 1..(Len(w) + Len(v)) : t[x] = IF x <= Len(w) THEN w[x] ELSE v[x - Len(w)]
  BY <1>2, <1>4, ConcatProperties
<1> HIDE DEF t
<1>6. ASSUME NEW x \in 1..(Len(b) + 1)
      PROVE  t[x] = IF x < i THEN b[x] ELSE IF x = i THEN n ELSE b[x - 1]
  <2>1. CASE x <= i
    BY <1>0, <1>2, <1>4, <1>5, <2>1
  <2>2. CASE x > i
    <3>1. /\ x - Len(w) \in 1..(Len(b) - i + 1)
          /\ i + (x - Len(w)) - 1 = x - 1
          /\ x \in 1..(Len(w) + Len(v)) /\ ~(x <= Len(w))
      BY <1>0, <1>2, <1>4, <2>2
    <3>2. t[x] = v[x - Len(w)] /\ v[x - Len(w)] = b[x - 1]
      BY <1>2, <1>5, <3>1
    <3>. QED
      BY <2>2, <3>2
  <2>. QED
    BY <2>1, <2>2
<1>7. Len(t) = Len(b) + 1
  BY <1>0, <1>2, <1>4, <1>5
<1>. QED
  BY <1>3, <1>5, <1>6, <1>7
-----------------------------------------------------------------------------
(* The elements of a bucket.                                               *)

\* The elements of a bucket are what stands at its positions.
LEMMA ElemsOfSeq ==
  ASSUME NEW S, NEW b \in Seq(S)
  PROVE  /\ Len(b) \in Nat /\ DOMAIN b = 1..Len(b)
         /\ Elems(b) \subseteq S
         /\ \A n : n \in Elems(b) <=> \E x \in 1..Len(b) : b[x] = n
         /\ b = <<>> <=> Len(b) = 0
         /\ b = <<>> <=> Elems(b) = {}
<1>1. Len(b) \in Nat /\ DOMAIN b = 1..Len(b)
  OBVIOUS
<1>2. Elems(b) \subseteq S
  BY <1>1, ElementOfSeq DEF Elems
<1>3. \A n : n \in Elems(b) <=> \E x \in 1..Len(b) : b[x] = n
  BY <1>1 DEF Elems
<1>4. b = <<>> <=> Len(b) = 0
  BY EmptySeq
<1>5. b = <<>> <=> Elems(b) = {}
  <2>1. ASSUME Len(b) # 0
        PROVE  b[1] \in Elems(b)
    BY <1>1, <1>3, <2>1
  <2>2. ASSUME Len(b) = 0
        PROVE  Elems(b) = {}
    BY <1>1, <1>3, <2>2
  <2>. QED
    BY <1>4, <2>1, <2>2
<1>. QED
  BY <1>1, <1>2, <1>3, <1>4, <1>5

\* An empty bucket has no elements.
LEMMA EmptyBucket ==
  ASSUME NEW S
  PROVE  <<>> \in Seq(S) /\ Distinct(<<>>) /\ Elems(<<>>) = {} /\ Len(<<>>) = 0
BY DEF Distinct, Elems

\* A bucket of one element.
LEMMA SingleBucket ==
  ASSUME NEW n
  PROVE  <<n>> \in Seq({n}) /\ Elems(<<n>>) = {n} /\ Len(<<n>>) = 1 /\ <<n>>[1] = n
BY DEF Elems

\* A bucket has as many elements as positions.
LEMMA ElemsCount ==
  ASSUME NEW S, NEW b \in Seq(S), Distinct(b)
  PROVE  IsFiniteSet(Elems(b)) /\ Cardinality(Elems(b)) = Len(b)
<1>1. Len(b) \in Nat /\ DOMAIN b = 1..Len(b) /\ b \in [1..Len(b) -> S]
  OBVIOUS
<1>2. b \in Bijection(1..Len(b), Elems(b))
  <2>1. b \in [1..Len(b) -> Elems(b)]
    BY <1>1 DEF Elems
  <2>2. \A x, y \in 1..Len(b) : b[x] = b[y] => x = y
    BY <1>1 DEF Distinct
  <2>3. \A n \in Elems(b) : \E x \in 1..Len(b) : b[x] = n
    BY <1>1 DEF Elems
  <2>. QED
    BY <1>1, <2>1, <2>2, <2>3 DEF Bijection, Injection, IsInjective, Surjection
<1>3. ExistsBijection(1..Len(b), Elems(b))
  BY <1>2 DEF ExistsBijection
<1>4. IsFiniteSet(1..Len(b))
  BY <1>1, FS_Interval
<1>. QED
  BY <1>1, <1>3, <1>4, FS_Bijection, FS_CountingElements

\* A cut takes out the elements of the piece, and no other.
LEMMA CutElems ==
  ASSUME NEW S, NEW b \in Seq(S), Distinct(b), NEW i \in Nat, NEW j \in Nat,
         1 <= i, i <= j, j <= Len(b) + 1
  PROVE  /\ Distinct(Cut(b, i, j))
         /\ Elems(Cut(b, i, j)) = Elems(b) \ Elems(Piece(b, i, j))
         /\ Elems(Cut(b, i, j)) = Elems(b) \ {b[x] : x \in i..(j - 1)}
<1> DEFINE c == Cut(b, i, j)
           p == Piece(b, i, j)
<1>1. /\ c \in Seq(S) /\ Len(c) = Len(b) - (j - i)
      /\ \A x \in 1..(Len(b) - (j - i)) : c[x] = IF x < i THEN b[x] ELSE b[x + (j - i)]
  BY CutProperties
<1>2. p \in Seq(S) /\ Len(p) = j - i /\ \A x \in 1..(j - i) : p[x] = b[i + x - 1]
  BY PieceProperties
<1> HIDE DEF c, p
<1>3. Len(b) \in Nat /\ DOMAIN b = 1..Len(b) /\ DOMAIN c = 1..Len(c) /\ DOMAIN p = 1..Len(p)
  BY <1>1, <1>2
<1>4. Distinct(c)
  <2> SUFFICES ASSUME NEW x \in 1..Len(c), NEW y \in 1..Len(c), c[x] = c[y]
               PROVE  x = y
    BY <1>3 DEF Distinct
  <2>1. /\ x \in 1..Len(b) /\ x + (j - i) \in 1..Len(b)
        /\ y \in 1..Len(b) /\ y + (j - i) \in 1..Len(b)
    BY <1>1, <1>3
  <2>2. PICK v \in 1..Len(b) : c[x] = b[v] /\ v = IF x < i THEN x ELSE x + (j - i)
    BY <1>1, <1>3, <2>1
  <2>3. PICK w \in 1..Len(b) : c[y] = b[w] /\ w = IF y < i THEN y ELSE y + (j - i)
    BY <1>1, <1>3, <2>1
  <2>4. v = w
    BY <1>3, <2>2, <2>3 DEF Distinct
  <2>. QED
    BY <1>3, <2>2, <2>3, <2>4
<1>5. Elems(p) = {b[x] : x \in i..(j - 1)}
  <2>1. ASSUME NEW x \in 1..Len(p)
        PROVE  p[x] \in {b[y] : y \in i..(j - 1)}
    <3>1. i + x - 1 \in i..(j - 1)
      BY <1>2
    <3>. QED
      BY <1>2, <3>1
  <2>2. ASSUME NEW x \in i..(j - 1)
        PROVE  b[x] \in Elems(p)
    <3>1. x - i + 1 \in 1..Len(p) /\ i + (x - i + 1) - 1 = x
      BY <1>2
    <3>2. p[x - i + 1] = b[x]
      BY <1>2, <3>1
    <3>. QED
      BY <1>3, <3>1, <3>2 DEF Elems
  <2>. QED
    BY <1>3, <2>1, <2>2 DEF Elems
<1>6. Elems(c) = Elems(b) \ {b[x] : x \in i..(j - 1)}
  <2>1. ASSUME NEW x \in 1..Len(c)
        PROVE  c[x] \in Elems(b) \ {b[y] : y \in i..(j - 1)}
    <3>1. PICK z \in 1..Len(b) : c[x] = b[z] /\ z \notin i..(j - 1)
      <4>1. CASE x < i
        <5>1. x \in 1..Len(b) /\ x \notin i..(j - 1)
          BY <1>1, <1>3, <4>1
        <5>. QED
          BY <1>1, <4>1, <5>1
      <4>2. CASE x >= i
        <5>1. x + (j - i) \in 1..Len(b) /\ x + (j - i) \notin i..(j - 1) /\ ~(x < i)
          BY <1>1, <1>3, <4>2
        <5>. QED
          BY <1>1, <4>2, <5>1
      <4>. QED
        BY <4>1, <4>2
    <3>2. ASSUME NEW y \in i..(j - 1)
          PROVE  b[y] # b[z]
      <4>1. y \in 1..Len(b)
        BY <1>3
      <4>. QED
        BY <1>3, <3>1, <4>1 DEF Distinct
    <3>. QED
      BY <1>3, <3>1, <3>2 DEF Elems
  <2>2. ASSUME NEW x \in 1..Len(b), x \notin i..(j - 1)
        PROVE  b[x] \in Elems(c)
    <3>1. CASE x < i
      <4>1. x \in 1..Len(c)
        BY <1>1, <1>3, <3>1
      <4>. QED
        BY <1>1, <1>3, <3>1, <4>1 DEF Elems
    <3>2. CASE x >= j
      <4>1. x - (j - i) \in 1..Len(c) /\ ~(x - (j - i) < i) /\ (x - (j - i)) + (j - i) = x
        BY <1>1, <1>3, <3>2
      <4>2. c[x - (j - i)] = b[x]
        BY <1>1, <4>1
      <4>. QED
        BY <1>3, <4>1, <4>2 DEF Elems
    <3>. QED
      BY <1>3, <2>2, <3>1, <3>2
  <2>. QED
    BY <1>3, <2>1, <2>2 DEF Elems
<1>. QED
  BY <1>4, <1>5, <1>6 DEF c, p

(* The elements of b at the positions i, ..., j - 1. *)
Stretch(b, i, j) == {b[x] : x \in i..(j - 1)}

(* A piece of a bucket holds the elements of its stretch, each once. *)
LEMMA PieceElems ==
  ASSUME NEW S, NEW b \in Seq(S), Distinct(b), NEW i \in Nat, NEW j \in Nat,
         1 <= i, i <= j, j <= Len(b) + 1
  PROVE  /\ Distinct(Piece(b, i, j))
         /\ Elems(Piece(b, i, j)) = Stretch(b, i, j)
         /\ Elems(Piece(b, i, j)) \subseteq Elems(b)
         /\ IsFiniteSet(Elems(Piece(b, i, j)))
         /\ Cardinality(Elems(Piece(b, i, j))) = j - i
<1> DEFINE p == Piece(b, i, j)
<1>2. p \in Seq(S) /\ Len(p) = j - i /\ \A x \in 1..(j - i) : p[x] = b[i + x - 1]
  BY PieceProperties
<1> HIDE DEF p
<1>3. Len(b) \in Nat /\ DOMAIN b = 1..Len(b) /\ DOMAIN p = 1..Len(p)
  BY <1>2
<1>4. Distinct(p)
  <2> SUFFICES ASSUME NEW x \in 1..Len(p), NEW y \in 1..Len(p), p[x] = p[y]
               PROVE  x = y
    BY <1>3 DEF Distinct
  <2>1. i + x - 1 \in 1..Len(b) /\ i + y - 1 \in 1..Len(b)
    BY <1>2, <1>3
  <2>2. i + x - 1 = i + y - 1
    BY <1>2, <1>3, <2>1 DEF Distinct
  <2>. QED
    BY <1>2, <1>3, <2>2
<1>5. Elems(p) = {b[x] : x \in i..(j - 1)}
  <2>1. ASSUME NEW x \in 1..Len(p)
        PROVE  p[x] \in {b[y] : y \in i..(j - 1)}
    <3>1. i + x - 1 \in i..(j - 1)
      BY <1>2
    <3>. QED
      BY <1>2, <3>1
  <2>2. ASSUME NEW x \in i..(j - 1)
        PROVE  b[x] \in Elems(p)
    <3>1. x - i + 1 \in 1..Len(p) /\ i + (x - i + 1) - 1 = x
      BY <1>2
    <3>2. p[x - i + 1] = b[x]
      BY <1>2, <3>1
    <3>. QED
      BY <1>3, <3>1, <3>2 DEF Elems
  <2>. QED
    BY <1>3, <2>1, <2>2 DEF Elems
<1>6. Elems(p) \subseteq Elems(b)
  <2>1. \A x \in i..(j - 1) : x \in 1..Len(b)
    BY <1>3
  <2>. QED
    BY <1>3, <1>5, <2>1 DEF Elems
<1>7. IsFiniteSet(Elems(p)) /\ Cardinality(Elems(p)) = j - i
  BY <1>2, <1>4, ElemsCount
<1>8. Elems(p) = Stretch(b, i, j)
  BY <1>5 DEF Stretch
<1>. QED
  BY <1>4, <1>6, <1>7, <1>8 DEF p

(* CutProperties, as one fact about a cut that is named. *)
LEMMA CutIs ==
  ASSUME NEW S, NEW b \in Seq(S), NEW i \in Nat, NEW j \in Nat,
         1 <= i, i <= j, j <= Len(b) + 1
  PROVE  /\ Cut(b, i, j) \in Seq(S)
         /\ Len(Cut(b, i, j)) = Len(b) - (j - i)
         /\ IsCut(Cut(b, i, j), b, i, j)
  BY CutProperties DEF IsCut

\* An insertion adds one element, and a bucket keeps holding each once.
LEMMA PutInElems ==
  ASSUME NEW S, NEW b \in Seq(S), Distinct(b), NEW i \in Nat, NEW n \in S,
         1 <= i, i <= Len(b) + 1, n \notin Elems(b)
  PROVE  /\ PutIn(b, i, n) \in Seq(S)
         /\ Distinct(PutIn(b, i, n))
         /\ Elems(PutIn(b, i, n)) = Elems(b) \cup {n}
         /\ PutIn(b, i, n) # <<>>
<1> DEFINE c == PutIn(b, i, n)
<1>1. /\ c \in Seq(S)
      /\ Len(c) = Len(b) + 1
      /\ \A x \in 1..(Len(b) + 1) :
           c[x] = IF x < i THEN b[x] ELSE IF x = i THEN n ELSE b[x - 1]
  <2>1. /\ PutIn(b, i, n) \in Seq(S)
        /\ Len(PutIn(b, i, n)) = Len(b) + 1
        /\ \A x \in 1..(Len(b) + 1) :
             PutIn(b, i, n)[x] = IF x < i THEN b[x] ELSE IF x = i THEN n ELSE b[x - 1]
    BY PutInProperties, SMTT(30)
  <2>. QED
    BY <2>1
<1> HIDE DEF c
<1>2. Len(b) \in Nat /\ DOMAIN b = 1..Len(b) /\ DOMAIN c = 1..Len(c)
  BY <1>1
<1>3. \A x \in 1..Len(b) : b[x] # n
  BY <1>2 DEF Elems
<1>4. Distinct(c)
  <2> SUFFICES ASSUME NEW x \in 1..Len(c), NEW y \in 1..Len(c), c[x] = c[y]
               PROVE  x = y
    BY <1>2 DEF Distinct
  <2>1. /\ (x < i => x \in 1..Len(b)) /\ (x > i => x - 1 \in 1..Len(b))
        /\ (y < i => y \in 1..Len(b)) /\ (y > i => y - 1 \in 1..Len(b))
    BY <1>1, <1>2
  <2>2. CASE x = i \/ y = i
    BY <1>1, <1>2, <1>3, <2>1, <2>2
  <2>3. CASE x # i /\ y # i
    <3>1. PICK v \in 1..Len(b) : c[x] = b[v] /\ v = IF x < i THEN x ELSE x - 1
      BY <1>1, <1>2, <2>1, <2>3
    <3>2. PICK w \in 1..Len(b) : c[y] = b[w] /\ w = IF y < i THEN y ELSE y - 1
      BY <1>1, <1>2, <2>1, <2>3
    <3>3. v = w
      BY <1>2, <3>1, <3>2 DEF Distinct
    <3>. QED
      BY <1>1, <1>2, <2>3, <3>1, <3>2, <3>3
  <2>. QED
    BY <2>2, <2>3
<1>5. Elems(c) = Elems(b) \cup {n}
  <2>1. ASSUME NEW x \in 1..Len(c)
        PROVE  c[x] \in Elems(b) \cup {n}
    <3>1. /\ (x < i => x \in 1..Len(b)) /\ (x > i => x - 1 \in 1..Len(b))
      BY <1>1, <1>2
    <3>. QED
      BY <1>1, <1>2, <3>1 DEF Elems
  <2>2. ASSUME NEW x \in 1..Len(b)
        PROVE  b[x] \in Elems(c)
    <3>1. CASE x < i
      <4>1. x \in 1..Len(c)
        BY <1>1, <1>2
      <4>. QED
        BY <1>1, <1>2, <3>1, <4>1 DEF Elems
    <3>2. CASE x >= i
      <4>1. x + 1 \in 1..Len(c) /\ ~(x + 1 < i) /\ x + 1 # i /\ (x + 1) - 1 = x
        BY <1>1, <1>2, <3>2
      <4>2. c[x + 1] = b[x]
        BY <1>1, <4>1
      <4>. QED
        BY <1>2, <4>1, <4>2 DEF Elems
    <3>. QED
      BY <1>2, <3>1, <3>2
  <2>3. n \in Elems(c)
    <3>1. i \in 1..Len(c) /\ c[i] = n
      BY <1>1, <1>2
    <3>. QED
      BY <1>2, <3>1 DEF Elems
  <2>. QED
    BY <1>2, <2>1, <2>2, <2>3 DEF Elems
<1>6. c # <<>>
  BY <1>1, <1>2
<1>. QED
  BY <1>1, <1>4, <1>5, <1>6 DEF c

\* Two buckets without a common element make one that holds each once.
LEMMA JoinedElems ==
  ASSUME NEW S, NEW b \in Seq(S), NEW c \in Seq(S)
  PROVE  /\ b \o c \in Seq(S)
         /\ Elems(b \o c) = Elems(b) \cup Elems(c)
         /\ Distinct(b) /\ Distinct(c) /\ Elems(b) \cap Elems(c) = {} => Distinct(b \o c)
<1> DEFINE d == b \o c
<1>1. /\ d \in Seq(S) /\ Len(d) = Len(b) + Len(c)
      /\ \A i \in 1..(Len(b) + Len(c)) : d[i] = IF i <= Len(b) THEN b[i] ELSE c[i - Len(b)]
  BY ConcatProperties
<1> HIDE DEF d
<1>2. /\ Len(b) \in Nat /\ DOMAIN b = 1..Len(b) /\ Len(c) \in Nat /\ DOMAIN c = 1..Len(c)
      /\ DOMAIN d = 1..Len(d)
  BY <1>1
<1>3. \A x \in 1..Len(d) : /\ x <= Len(b) => x \in 1..Len(b)
                           /\ ~(x <= Len(b)) => x - Len(b) \in 1..Len(c)
  BY <1>1, <1>2
<1>4. Elems(d) = Elems(b) \cup Elems(c)
  <2>1. \A x \in 1..Len(d) : d[x] \in Elems(b) \cup Elems(c)
    BY <1>1, <1>2, <1>3 DEF Elems
  <2>2. ASSUME NEW x \in 1..Len(b)
        PROVE  b[x] \in Elems(d)
    <3>1. x \in 1..Len(d) /\ d[x] = b[x]
      BY <1>1, <1>2
    <3>. QED
      BY <1>2, <3>1 DEF Elems
  <2>3. ASSUME NEW x \in 1..Len(c)
        PROVE  c[x] \in Elems(d)
    <3>1. x + Len(b) \in 1..Len(d) /\ ~(x + Len(b) <= Len(b)) /\ (x + Len(b)) - Len(b) = x
      BY <1>1, <1>2
    <3>2. d[x + Len(b)] = c[x]
      BY <1>1, <3>1
    <3>. QED
      BY <1>2, <3>1, <3>2 DEF Elems
  <2>. QED
    BY <1>2, <2>1, <2>2, <2>3 DEF Elems
<1>5. ASSUME Distinct(b), Distinct(c), Elems(b) \cap Elems(c) = {}
      PROVE  Distinct(d)
  <2> SUFFICES ASSUME NEW x \in 1..Len(d), NEW y \in 1..Len(d), d[x] = d[y]
               PROVE  x = y
    BY <1>2 DEF Distinct
  <2>0. \A v \in 1..Len(b), w \in 1..Len(c) : b[v] # c[w]
    BY <1>2, <1>5 DEF Elems
  <2>1. CASE x <= Len(b) /\ y <= Len(b)
    BY <1>1, <1>2, <1>3, <1>5, <2>1 DEF Distinct
  <2>2. CASE ~(x <= Len(b)) /\ ~(y <= Len(b))
    <3>1. x - Len(b) = y - Len(b)
      BY <1>1, <1>2, <1>3, <1>5, <2>2 DEF Distinct
    <3>. QED
      BY <1>1, <1>2, <3>1
  <2>3. CASE x <= Len(b) /\ ~(y <= Len(b))
    BY <1>1, <1>2, <1>3, <2>0, <2>3
  <2>4. CASE ~(x <= Len(b)) /\ y <= Len(b)
    BY <1>1, <1>2, <1>3, <2>0, <2>4
  <2>. QED
    BY <2>1, <2>2, <2>3, <2>4
<1>. QED
  BY <1>1, <1>4, <1>5 DEF d

\* Where an element stands.
LEMMA PlaceIs ==
  ASSUME NEW S, NEW b \in Seq(S), NEW n \in Elems(b)
  PROVE  Place(b, n) \in 1..Len(b) /\ b[Place(b, n)] = n
BY DEF Place, Elems

\* Without finds the element, and takes it out.
LEMMA WithoutElems ==
  ASSUME NEW S, NEW b \in Seq(S), Distinct(b), NEW n
  PROVE  /\ Without(b, n) \in Seq(S)
         /\ Distinct(Without(b, n))
         /\ Elems(Without(b, n)) = Elems(b) \ {n}
         /\ n \notin Elems(b) => Without(b, n) = b
<1>1. CASE n \in Elems(b)
  <2> DEFINE p == Place(b, n)
  <2>1. p \in 1..Len(b) /\ b[p] = n /\ Len(b) \in Nat
    BY <1>1, PlaceIs
  <2>2. Without(b, n) = Cut(b, p, p + 1)
    BY <1>1 DEF Without, Elems
  <2> HIDE DEF p
  <2>3. p \in Nat /\ p + 1 \in Nat /\ 1 <= p /\ p <= p + 1 /\ p + 1 <= Len(b) + 1
    BY <2>1
  <2>4. {b[x] : x \in p..((p + 1) - 1)} = {n}
    <3>1. p..((p + 1) - 1) = {p}
      BY <2>3
    <3>. QED
      BY <2>1, <3>1
  <2>5. Cut(b, p, p + 1) \in Seq(S)
    BY <2>3, CutProperties
  <2>6. /\ Distinct(Cut(b, p, p + 1))
        /\ Elems(Cut(b, p, p + 1)) = Elems(b) \ {b[x] : x \in p..((p + 1) - 1)}
    BY <2>3, CutElems
  <2>. QED
    BY <1>1, <2>2, <2>4, <2>5, <2>6
<1>2. CASE n \notin Elems(b)
  BY <1>2 DEF Without, Elems
<1>. QED
  BY <1>1, <1>2
-----------------------------------------------------------------------------
(* In which bucket a hash belongs.                                         *)

\* Half of an even number of buckets.
LEMMA SplitIn ==
  ASSUME NEW h \in Nat, NEW c \in Nat, NEW s \in Nat, c > 0, NEW incremental \in BOOLEAN,
         incremental => c = 2 * (c \div 2) /\ c \div 2 <= s /\ s <= c
  PROVE  /\ h % c \in 0..(c - 1)
         /\ hash_to_bucket_split(h, c, s, incremental) \in 0..(c - 1)
         /\ incremental => hash_to_bucket_split(h, c, s, incremental) \in 0..(s - 1)
         /\ ~incremental => hash_to_bucket_split(h, c, s, incremental) = h % c
         /\ s = c => hash_to_bucket_split(h, c, s, incremental) = h % c
<1>1. h % c \in 0..(c - 1)
  BY DivMod
<1>2. c \div 2 \in Nat
  OBVIOUS
<1>. QED
  BY <1>1, <1>2 DEF hash_to_bucket_split

\* Where the buckets are halves of the old ones and none of the upper half is in
\* use, or where the lower half is all the old ones.
LEMMA SplitDoubled ==
  ASSUME NEW h \in Nat, NEW m \in Nat, m > 0, NEW incremental \in BOOLEAN
  PROVE  hash_to_bucket_split(h, 2 * m, m, TRUE) = hash_to_bucket_split(h, m, m, incremental)
<1>1. /\ h % (2 * m) \in 0..(2 * m - 1) /\ h % m \in 0..(m - 1)
      /\ h % m = IF h % (2 * m) >= m THEN (h % (2 * m)) - m ELSE h % (2 * m)
  BY ModDoubled
<1>2. (2 * m) \div 2 = m
  OBVIOUS
<1>. QED
  BY <1>1, <1>2 DEF hash_to_bucket_split

(* Buckets as rings of group hooks: whole groups, and what the operations  *)
(* make of them.                                                           *)

\* What Cut, PutIn, Piece and a concatenation make of a bucket.
CutOf(c, b, p, q) ==
  /\ b \in Seq(Nodes) /\ c \in Seq(Nodes) /\ p \in Nat /\ q \in Nat
  /\ 1 <= p /\ p <= q /\ q <= Len(b) + 1
  /\ Len(c) = Len(b) - (q - p)
  /\ \A x \in 1..Len(c) : c[x] = IF x < p THEN b[x] ELSE b[x + (q - p)]

PutOf(c, b, p, n) ==
  /\ b \in Seq(Nodes) /\ c \in Seq(Nodes) /\ n \in Nodes /\ p \in Nat
  /\ 1 <= p /\ p <= Len(b) + 1
  /\ Len(c) = Len(b) + 1
  /\ \A x \in 1..Len(c) : c[x] = IF x < p THEN b[x] ELSE IF x = p THEN n ELSE b[x - 1]

PieceOf(c, b, p, q) ==
  /\ b \in Seq(Nodes) /\ c \in Seq(Nodes) /\ p \in Nat /\ q \in Nat
  /\ 1 <= p /\ p <= q /\ q <= Len(b) + 1
  /\ Len(c) = q - p
  /\ \A x \in 1..Len(c) : c[x] = b[x + (p - 1)]

JoinOf(d, b, c) ==
  /\ b \in Seq(Nodes) /\ c \in Seq(Nodes) /\ d \in Seq(Nodes)
  /\ Len(d) = Len(b) + Len(c)
  /\ \A x \in 1..Len(d) : d[x] = IF x <= Len(b) THEN b[x] ELSE c[x - Len(b)]

\* A bucket without some of its positions.
LEMMA CutIsCut ==
  ASSUME NEW b \in Seq(Nodes), NEW p \in Nat, NEW q \in Nat,
         1 <= p, p <= q, q <= Len(b) + 1
  PROVE  CutOf(Cut(b, p, q), b, p, q)
<1>1. /\ Cut(b, p, q) \in Seq(Nodes)
      /\ Len(Cut(b, p, q)) = Len(b) - (q - p)
      /\ \A x \in 1..(Len(b) - (q - p)) :
           Cut(b, p, q)[x] = IF x < p THEN b[x] ELSE b[x + (q - p)]
  BY CutProperties
<1>. QED
  BY <1>1 DEF CutOf

\* A bucket with one more element.
LEMMA PutIsPut ==
  ASSUME NEW b \in Seq(Nodes), NEW p \in Nat, NEW n \in Nodes, 1 <= p, p <= Len(b) + 1
  PROVE  PutOf(PutIn(b, p, n), b, p, n)
<1>1. /\ PutIn(b, p, n) \in Seq(Nodes)
      /\ Len(PutIn(b, p, n)) = Len(b) + 1
      /\ \A x \in 1..(Len(b) + 1) :
           PutIn(b, p, n)[x] = IF x < p THEN b[x] ELSE IF x = p THEN n ELSE b[x - 1]
  BY PutInProperties
<1>. QED
  BY <1>1 DEF PutOf

\* Some positions of a bucket.
LEMMA PieceIsPiece ==
  ASSUME NEW b \in Seq(Nodes), NEW p \in Nat, NEW q \in Nat,
         1 <= p, p <= q, q <= Len(b) + 1
  PROVE  PieceOf(Piece(b, p, q), b, p, q)
<1>1. /\ Piece(b, p, q) \in Seq(Nodes)
      /\ Len(Piece(b, p, q)) = q - p
      /\ \A x \in 1..(q - p) : Piece(b, p, q)[x] = b[p + x - 1]
  BY PieceProperties, ZenonT(40)
<1>2. \A x \in 1..(q - p) : p + x - 1 = x + (p - 1)
  OBVIOUS
<1>. QED
  BY <1>1, <1>2 DEF PieceOf

\* Two buckets in a row.
LEMMA JoinIsJoin ==
  ASSUME NEW b \in Seq(Nodes), NEW c \in Seq(Nodes)
  PROVE  JoinOf(b \o c, b, c)
<1>1. /\ b \o c \in Seq(Nodes) /\ Len(b \o c) = Len(b) + Len(c)
      /\ \A i \in 1..(Len(b) + Len(c)) : (b \o c)[i] = IF i <= Len(b) THEN b[i] ELSE c[i - Len(b)]
  BY ConcatProperties
<1>. QED
  BY <1>1 DEF JoinOf
-----------------------------------------------------------------------------
(* Groups: equal elements side by side, and the links of a group.          *)

\* Equal elements stand side by side.
Together(b) ==
  \A x, y, z \in DOMAIN b : x <= y /\ y <= z /\ Key[b[x]] = Key[b[z]] => Key[b[y]] = Key[b[x]]

\* Where the elements of another key begin.
Starts(b) == {x \in DOMAIN b : x > 1 => Key[b[x]] # Key[b[x - 1]]}

\* The group that begins at x, of those that begin at S, ends at y.
EndsAt(b, S, x, y) == /\ x <= y /\ \A z \in (x + 1)..y : z \notin S
                      /\ y + 1 \in DOMAIN b => y + 1 \in S

\* The first of a group leads to the last one, and the others to the one before.
RingAt(g, b, S, x) ==
  IF x \in S THEN \A y \in DOMAIN b : EndsAt(b, S, x, y) => g[b[x]] = b[y]
  ELSE g[b[x]] = b[x - 1]
Ring(g, b, S) == \A x \in DOMAIN b : RingAt(g, b, S, x)

\* No element of b has a key of c.
Unlike(b, c) == \A x \in DOMAIN b, y \in DOMAIN c : Key[b[x]] # Key[c[y]]

\* Whatever is cut out, the others stay side by side.
LEMMA TogetherCut ==
  ASSUME NEW b, NEW c, NEW p, NEW q, CutOf(c, b, p, q), Together(b)
  PROVE  Together(c)
<1> SUFFICES ASSUME NEW x \in DOMAIN c, NEW y \in DOMAIN c, NEW z \in DOMAIN c,
                    x <= y, y <= z, Key[c[x]] = Key[c[z]]
             PROVE  Key[c[y]] = Key[c[x]]
  BY DEF Together
<1> DEFINE at(i) == IF i < p THEN i ELSE i + (q - p)
<1>1. /\ Len(b) \in Nat /\ DOMAIN b = 1..Len(b) /\ Len(c) \in Nat /\ DOMAIN c = 1..Len(c)
      /\ p \in Nat /\ q \in Nat /\ p <= q /\ Len(c) = Len(b) - (q - p) /\ 1 <= p
      /\ q <= Len(b) + 1
  BY DEF CutOf
<1>2. \A i \in 1..Len(c) : c[i] = b[at(i)]
  BY DEF CutOf
<1>3. \A i \in 1..Len(c) : at(i) \in 1..Len(b)
  BY <1>1
<1>4. at(x) <= at(y) /\ at(y) <= at(z)
  BY <1>1
<1>5. /\ at(x) \in DOMAIN b /\ at(y) \in DOMAIN b /\ at(z) \in DOMAIN b
      /\ c[x] = b[at(x)] /\ c[y] = b[at(y)] /\ c[z] = b[at(z)]
  BY <1>1, <1>2, <1>3
<1> HIDE DEF at
<1>6. Key[b[at(x)]] = Key[b[at(z)]]
  BY <1>5
<1>7. Key[b[at(y)]] = Key[b[at(x)]]
  BY <1>4, <1>5, <1>6 DEF Together
<1>. QED
  BY <1>5, <1>7

\* Where n may be put: in front of the elements of its key, or of all.
InFront(b, p, n) ==
  IF \E x \in DOMAIN b : Key[b[x]] = Key[n] THEN p \in Starts(b) /\ Key[b[p]] = Key[n] ELSE p = 1

\* An element is put in front of its equals.
LEMMA TogetherPut ==
  ASSUME NEW b, NEW c, NEW p, NEW n, PutOf(c, b, p, n), Together(b), InFront(b, p, n)
  PROVE  Together(c)
<1> SUFFICES ASSUME NEW x \in DOMAIN c, NEW y \in DOMAIN c, NEW z \in DOMAIN c,
                    x <= y, y <= z, Key[c[x]] = Key[c[z]]
             PROVE  Key[c[y]] = Key[c[x]]
  BY DEF Together
<1> DEFINE at(i) == IF i < p THEN i ELSE i - 1
<1>1. /\ Len(b) \in Nat /\ DOMAIN b = 1..Len(b) /\ Len(c) \in Nat /\ DOMAIN c = 1..Len(c)
      /\ p \in Nat /\ Len(c) = Len(b) + 1 /\ 1 <= p /\ p <= Len(b) + 1
  BY DEF PutOf
<1>2. \A i \in 1..Len(c) : i # p => c[i] = b[at(i)] /\ at(i) \in 1..Len(b)
  BY <1>1 DEF PutOf
<1>3. c[p] = n
  BY <1>1 DEF PutOf
<1>4. /\ x # p /\ y # p => at(x) <= at(y) 
      /\ y # p /\ z # p => at(y) <= at(z)
      /\ x # p /\ z # p => at(x) <= at(z)
  BY <1>1
<1>5. \A i, j, k \in 1..Len(b) : i <= j /\ j <= k /\ Key[b[i]] = Key[b[k]] => Key[b[j]] = Key[b[i]]
  BY <1>1 DEF Together
<1>6. CASE x # p /\ y # p /\ z # p
  <2> HIDE DEF at
  <2>. QED
    BY <1>1, <1>2, <1>4, <1>5, <1>6
<1>7. CASE x = p
  <2>1. CASE y = p
    BY <1>7, <2>1
  <2>2. CASE y # p
    <3>1. z # p /\ at(y) <= at(z) /\ at(y) \in 1..Len(b) /\ at(z) \in 1..Len(b) /\ p <= at(y)
      BY <1>1, <1>2, <1>7, <2>2
    <3>2. Key[b[at(z)]] = Key[n]
      BY <1>1, <1>2, <1>3, <1>7, <3>1
    <3> HIDE DEF at
    <3>3. p \in 1..Len(b) /\ Key[b[p]] = Key[n]
      BY <1>1, <3>1, <3>2 DEF InFront, Starts
    <3>4. Key[b[at(y)]] = Key[b[p]]
      BY <1>5, <3>1, <3>2, <3>3
    <3>. QED
      BY <1>1, <1>2, <1>3, <1>7, <2>2, <3>3, <3>4
  <2>. QED
    BY <2>1, <2>2
<1>8. CASE x # p /\ z = p
  <2>1. CASE y = p
    BY <1>8, <2>1
  <2>2. CASE y # p
    <3>1. at(x) = x /\ x \in 1..Len(b) /\ x < p /\ Key[b[x]] = Key[n] /\ c[x] = b[x]
      BY <1>1, <1>2, <1>3, <1>8
    <3>2. p \in Starts(b) /\ Key[b[p]] = Key[n]
      BY <1>1, <3>1 DEF InFront
    <3>3. p - 1 \in 1..Len(b) /\ x <= p - 1 /\ p - 1 <= p /\ p > 1 /\ p \in 1..Len(b)
      BY <1>1, <3>1, <3>2 DEF Starts
    <3>4. Key[b[p - 1]] = Key[b[x]]
      BY <1>5, <3>1, <3>2, <3>3
    <3>. QED
      BY <3>1, <3>2, <3>3, <3>4 DEF Starts
  <2>. QED
    BY <2>1, <2>2
<1>9. CASE x # p /\ z # p /\ y = p
  <2>1. /\ at(x) = x /\ x \in 1..Len(b) /\ x < p /\ c[x] = b[x]
        /\ at(z) \in 1..Len(b) /\ p <= at(z) /\ c[z] = b[at(z)]
    BY <1>1, <1>2, <1>9
  <2>2. Key[b[x]] = Key[b[at(z)]]
    BY <2>1
  <2> HIDE DEF at
  <2>3. p - 1 \in 1..Len(b) /\ x <= p - 1 /\ p - 1 <= at(z) /\ p > 1 /\ p \in 1..Len(b) /\ x <= p
    BY <1>1, <2>1
  <2>4. Key[b[p - 1]] = Key[b[x]] /\ Key[b[p]] = Key[b[x]]
    BY <1>5, <2>1, <2>2, <2>3
  <2>5. p \notin Starts(b)
    BY <2>3, <2>4 DEF Starts
  <2>. QED
    BY <2>3, <2>5 DEF InFront
<1>. QED
  BY <1>6, <1>7, <1>8, <1>9
-----------------------------------------------------------------------------

\* Positions among which no other key begins have one key.
LEMMA RunIs ==
  ASSUME NEW b \in Seq(Nodes), NEW x \in DOMAIN b, NEW y \in DOMAIN b, x <= y,
         \A z \in (x + 1)..y : z \notin Starts(b)
  PROVE  \A z \in x..y : Key[b[z]] = Key[b[x]]
<1>1. Len(b) \in Nat /\ DOMAIN b = 1..Len(b) /\ x \in Nat /\ y \in Nat
  OBVIOUS
<1> DEFINE P == {i \in Nat : x + i <= y => Key[b[x + i]] = Key[b[x]]}
<1>2. 0 \in P
  BY <1>1
<1>3. ASSUME NEW i \in P
      PROVE  i + 1 \in P
  <2> SUFFICES ASSUME x + (i + 1) <= y
               PROVE  Key[b[x + (i + 1)]] = Key[b[x]]
    OBVIOUS
  <2>1. /\ x + (i + 1) \in (x + 1)..y /\ x + (i + 1) \in DOMAIN b
        /\ x + (i + 1) > 1 /\ (x + (i + 1)) - 1 = x + i /\ x + i <= y
    BY <1>1
  <2>2. x + (i + 1) \notin Starts(b)
    BY <2>1
  <2>3. Key[b[x + (i + 1)]] = Key[b[x + i]]
    BY <2>1, <2>2 DEF Starts
  <2>. QED
    BY <2>1, <2>3
<1> HIDE DEF P
<1>4. P = Nat
  <2>1. P \in SUBSET Nat
    BY DEF P
  <2>. QED
    BY <1>2, <1>3, <2>1, SetInduction, Zenon
<1>5. ASSUME NEW z \in x..y
      PROVE  Key[b[z]] = Key[b[x]]
  <2>1. z - x \in Nat /\ x + (z - x) = z /\ z <= y
    BY <1>1
  <2>2. z - x \in P
    BY <1>4, <2>1
  <2>. QED
    BY <2>1, <2>2 DEF P
<1>. QED
  BY <1>5

\* The last element of the key that begins at x is at y.
LastOf(b, x, y) == /\ x <= y /\ Key[b[y]] = Key[b[x]]
                   /\ y + 1 \in DOMAIN b => Key[b[y + 1]] # Key[b[x]]

\* A group of equal elements ends where their key does.
LEMMA EndsIs ==
  ASSUME NEW b \in Seq(Nodes), Together(b), NEW x \in DOMAIN b, NEW y \in DOMAIN b
  PROVE  EndsAt(b, Starts(b), x, y) <=> LastOf(b, x, y)
<1>1. Len(b) \in Nat /\ DOMAIN b = 1..Len(b) /\ x \in Nat /\ y \in Nat
  OBVIOUS
<1>2. ASSUME EndsAt(b, Starts(b), x, y)
      PROVE  LastOf(b, x, y)
  <2>1. x <= y /\ \A z \in (x + 1)..y : z \notin Starts(b)
    BY <1>2 DEF EndsAt
  <2>2. \A z \in x..y : Key[b[z]] = Key[b[x]]
    BY <2>1, RunIs
  <2>3. Key[b[y]] = Key[b[x]]
    BY <1>1, <2>1, <2>2
  <2>4. ASSUME y + 1 \in DOMAIN b
        PROVE  Key[b[y + 1]] # Key[b[y]]
    <3>1. y + 1 \in Starts(b) /\ y + 1 > 1 /\ (y + 1) - 1 = y
      BY <1>1, <1>2, <2>4 DEF EndsAt
    <3>. QED
      BY <3>1 DEF Starts
  <2>. QED
    BY <2>1, <2>3, <2>4 DEF LastOf
<1>3. ASSUME LastOf(b, x, y)
      PROVE  EndsAt(b, Starts(b), x, y)
  <2>1. x <= y /\ Key[b[y]] = Key[b[x]]
    BY <1>3 DEF LastOf
  <2>2. ASSUME NEW z \in (x + 1)..y
        PROVE  z \notin Starts(b)
    <3>1. z \in DOMAIN b /\ z - 1 \in DOMAIN b /\ x <= z /\ z <= y /\ x <= z - 1 /\ z - 1 <= y /\ z > 1
      BY <1>1
    <3>2. Key[b[z]] = Key[b[x]] /\ Key[b[z - 1]] = Key[b[x]]
      BY <2>1, <3>1 DEF Together
    <3>. QED
      BY <3>1, <3>2 DEF Starts
  <2>3. ASSUME y + 1 \in DOMAIN b
        PROVE  y + 1 \in Starts(b)
    <3>1. Key[b[y + 1]] # Key[b[y]] /\ (y + 1) - 1 = y
      BY <1>1, <1>3, <2>1, <2>3 DEF LastOf
    <3>. QED
      BY <2>3, <3>1 DEF Starts
  <2>. QED
    BY <2>1, <2>2, <2>3 DEF EndsAt
<1>. QED
  BY <1>2, <1>3

\* The links of equal elements, in terms of their keys.
RingIn(g, b, x) ==
  IF x \in Starts(b) THEN \A y \in DOMAIN b : LastOf(b, x, y) => g[b[x]] = b[y]
  ELSE g[b[x]] = b[x - 1]

\* Links inside a group, told from the group's first position.
LEMMA RingInIs ==
  ASSUME NEW b \in Seq(Nodes), Together(b), NEW g, NEW x \in DOMAIN b
  PROVE  RingAt(g, b, Starts(b), x) <=> RingIn(g, b, x)
<1>1. \A y \in DOMAIN b : EndsAt(b, Starts(b), x, y) <=> LastOf(b, x, y)
  BY EndsIs
<1>. QED
  BY <1>1 DEF RingAt, RingIn

\* The group of an element has a last one.
LEMMA LastExists ==
  ASSUME NEW b \in Seq(Nodes), Together(b), NEW x \in DOMAIN b
  PROVE  \E y \in DOMAIN b : LastOf(b, x, y)
<1>1. Len(b) \in Nat /\ DOMAIN b = 1..Len(b) /\ x \in Nat
  OBVIOUS
<1> DEFINE T == {y \in Nat : x <= y /\ (y + 1 \in DOMAIN b => Key[b[y + 1]] # Key[b[x]])}
<1>2. T \in SUBSET Nat /\ Len(b) \in T
  BY <1>1
<1>3. PICK y \in T : \A z \in T : y <= z
  <2> HIDE DEF T
  <2>. QED
    BY <1>2, LeastElement
<1>4. y \in Nat /\ x <= y /\ y <= Len(b) /\ y \in DOMAIN b
  BY <1>1, <1>2, <1>3
<1>5. Key[b[y]] = Key[b[x]]
  <2>1. CASE y = x
    BY <2>1
  <2>2. CASE y # x
    <3>1. y - 1 \in Nat /\ x <= y - 1 /\ (y - 1) + 1 = y /\ ~(y <= y - 1)
      BY <1>1, <1>4, <2>2
    <3>2. y - 1 \notin T
      BY <1>3, <3>1
    <3>. QED
      BY <3>1, <3>2
  <2>. QED
    BY <2>1, <2>2
<1>. QED
  BY <1>3, <1>4, <1>5 DEF LastOf

\* Cutting out elements of other keys leaves the links of a group as they are.
LEMMA RingCut ==
  ASSUME NEW b, NEW c, NEW p, NEW q, CutOf(c, b, p, q), Together(b), NEW g,
         NEW x \in DOMAIN c, \A z \in p..(q - 1) : Key[b[z]] # Key[c[x]],
         RingIn(g, b, IF x < p THEN x ELSE x + (q - p))
  PROVE  RingIn(g, c, x)
<1> DEFINE at(i) == IF i < p THEN i ELSE i + (q - p)
<1>1. /\ Len(b) \in Nat /\ DOMAIN b = 1..Len(b) /\ Len(c) \in Nat /\ DOMAIN c = 1..Len(c)
      /\ p \in Nat /\ q \in Nat /\ p <= q /\ Len(c) = Len(b) - (q - p) /\ 1 <= p
      /\ q <= Len(b) + 1
  BY DEF CutOf
<1>2. \A i \in DOMAIN c : at(i) \in DOMAIN b /\ c[i] = b[at(i)]
  BY <1>1 DEF CutOf
<1>3. RingIn(g, b, at(x))
  OBVIOUS
<1>4. x \in Nat /\ x <= Len(c)
  BY <1>1
<1>5. x # p \/ p = q => (x > 1 => at(x) > 1 /\ x - 1 \in DOMAIN c /\ at(x - 1) = at(x) - 1)
  BY <1>1, <1>4, SMTT(15)
<1>6. x \in Starts(c) <=> at(x) \in Starts(b)
  <2>1. CASE x = 1 /\ at(x) = 1
    BY <1>1, <1>2, <2>1 DEF Starts
  <2>2. CASE x > 1 /\ (x # p \/ p = q)
    <3>1. at(x) > 1 /\ x - 1 \in DOMAIN c /\ at(x - 1) = at(x) - 1
      BY <1>5, <2>2
    <3>2. c[x] = b[at(x)] /\ c[x - 1] = b[at(x) - 1] /\ at(x) \in DOMAIN b
      BY <1>2, <3>1
    <3> HIDE DEF at
    <3>. QED
      BY <2>2, <3>1, <3>2 DEF Starts
  <2>3. CASE x = p /\ p # q
    <3>1. at(x) = q /\ q \in DOMAIN b /\ q > 1 /\ q - 1 \in p..(q - 1) /\ p \in p..(q - 1) /\ c[x] = b[q]
      BY <1>1, <1>2, <2>3
    <3>2. Key[b[q - 1]] # Key[b[q]] /\ Key[b[p]] # Key[b[q]]
      BY <3>1
    <3>3. q \in Starts(b)
      BY <3>1, <3>2 DEF Starts
    <3>4. CASE p > 1
      <4>1. p - 1 \in DOMAIN b /\ p \in DOMAIN b /\ p - 1 <= p /\ p <= q /\ x - 1 \in DOMAIN c /\ at(x - 1) = p - 1
        BY <1>1, <2>3, <3>1, <3>4
      <4>2. Key[b[p - 1]] # Key[b[q]]
        BY <3>1, <3>2, <4>1 DEF Together
      <4>3. c[x - 1] = b[p - 1]
        BY <1>2, <4>1
      <4>. QED
        BY <2>3, <3>1, <3>3, <4>2, <4>3 DEF Starts
    <3>5. CASE p = 1
      BY <2>3, <3>1, <3>3, <3>5 DEF Starts
    <3>. QED
      BY <1>1, <3>4, <3>5
  <2>4. x = 1 \/ x > 1
    BY <1>1
  <2>5. x = 1 /\ (x # p \/ p = q) => at(x) = 1
    BY <1>1
  <2>. QED
    BY <2>1, <2>2, <2>3, <2>4, <2>5
<1>7. CASE x \in Starts(c)
  <2>1. ASSUME NEW y \in DOMAIN c, LastOf(c, x, y)
        PROVE  g[c[x]] = c[y]
    <3>1. x <= y /\ Key[c[y]] = Key[c[x]] /\ y \in Nat /\ y <= Len(c)
      BY <1>1, <2>1 DEF LastOf
    <3>2. at(x) <= at(y) /\ Key[b[at(y)]] = Key[b[at(x)]]
      BY <1>1, <1>2, <1>4, <3>1
    <3>3. ASSUME at(y) + 1 \in DOMAIN b
          PROVE  Key[b[at(y) + 1]] # Key[b[at(x)]]
      <4>1. CASE at(y) + 1 \in p..(q - 1)
        BY <1>2, <4>1
      <4>2. CASE at(y) + 1 \notin p..(q - 1)
        <5>1. y + 1 \in DOMAIN c /\ at(y + 1) = at(y) + 1
          <6>1. CASE y + 1 < p
            BY <1>1, <3>1, <3>3, <6>1
          <6>2. CASE y + 1 = p
            <7>1. at(y) + 1 = p /\ p = q /\ p \in 1..Len(b)
              BY <1>1, <3>1, <3>3, <4>2, <6>2
            <7>. QED
              BY <1>1, <6>2, <7>1
          <6>3. CASE y + 1 > p
            BY <1>1, <3>1, <3>3, <6>3
          <6>. QED
            BY <1>1, <3>1, <6>1, <6>2, <6>3
        <5>2. Key[c[y + 1]] # Key[c[x]] /\ c[y + 1] = b[at(y) + 1] /\ c[x] = b[at(x)]
          BY <1>2, <2>1, <5>1 DEF LastOf
        <5>. QED
          BY <5>2
      <4>. QED
        BY <4>1, <4>2
    <3>4. at(x) \in DOMAIN b /\ at(y) \in DOMAIN b /\ c[x] = b[at(x)] /\ c[y] = b[at(y)]
      BY <1>2
    <3>5. at(x) \in Starts(b)
      BY <1>6, <1>7
    <3> HIDE DEF at
    <3>6. LastOf(b, at(x), at(y))
      BY <3>2, <3>3 DEF LastOf
    <3>. QED
      BY <1>3, <3>4, <3>5, <3>6 DEF RingIn
  <2>. QED
    BY <1>7, <2>1 DEF RingIn
<1>8. CASE x \notin Starts(c)
  <2>1. at(x) \notin Starts(b)
    BY <1>6, <1>8
  <2>2. x > 1
    BY <1>1, <1>8 DEF Starts
  <2>3. x # p \/ p = q
    <3>1. ASSUME x = p, p # q
          PROVE  FALSE
      <4>1. at(x) = q /\ q \in DOMAIN b /\ q > 1 /\ q - 1 \in p..(q - 1) /\ c[x] = b[q]
        BY <1>1, <1>2, <3>1
      <4>. QED
        BY <2>1, <4>1 DEF Starts
    <3>. QED
      BY <3>1
  <2>4. x - 1 \in DOMAIN c /\ at(x - 1) = at(x) - 1
    BY <1>5, <2>2, <2>3
  <2>5. c[x] = b[at(x)] /\ c[x - 1] = b[at(x) - 1]
    BY <1>2, <2>4
  <2> HIDE DEF at
  <2>6. g[b[at(x)]] = b[at(x) - 1]
    BY <1>3, <2>1 DEF RingIn
  <2>. QED
    BY <1>8, <2>5, <2>6 DEF RingIn
<1>. QED
  BY <1>7, <1>8

\* Elements of other keys behind the ones of a group leave its links alone.
LEMMA RingJoinFirst ==
  ASSUME NEW b, NEW c, NEW d, JoinOf(d, b, c), NEW g, NEW x \in DOMAIN b,
         \A z \in DOMAIN c : Key[c[z]] # Key[b[x]], RingIn(g, b, x)
  PROVE  RingIn(g, d, x)
<1>1. /\ Len(b) \in Nat /\ DOMAIN b = 1..Len(b) /\ Len(c) \in Nat /\ DOMAIN c = 1..Len(c)
      /\ Len(d) = Len(b) + Len(c) /\ DOMAIN d = 1..Len(d)
  BY DEF JoinOf
<1>2. \A i \in DOMAIN b : i \in DOMAIN d /\ d[i] = b[i]
  BY <1>1 DEF JoinOf
<1>3. x \in Nat /\ (x > 1 => x - 1 \in DOMAIN b)
  BY <1>1
<1>4. x \in Starts(d) <=> x \in Starts(b)
  BY <1>2, <1>3 DEF Starts
<1>5. CASE x \in Starts(b)
  <2>1. ASSUME NEW y \in DOMAIN d, LastOf(d, x, y)
        PROVE  g[d[x]] = d[y]
    <3>1. y \in DOMAIN b
      <4>1. ASSUME y > Len(b)
            PROVE  FALSE
        <5>1. y - Len(b) \in DOMAIN c /\ d[y] = c[y - Len(b)]
          BY <1>1, <4>1 DEF JoinOf
        <5>. QED
          BY <1>2, <2>1, <5>1 DEF LastOf
      <4>. QED
        BY <1>1, <4>1
    <3>2. LastOf(b, x, y)
      BY <1>2, <2>1, <3>1 DEF LastOf
    <3>. QED
      BY <1>2, <1>5, <3>1, <3>2 DEF RingIn
  <2>. QED
    BY <1>4, <1>5, <2>1 DEF RingIn
<1>6. CASE x \notin Starts(b)
  <2>1. x > 1
    BY <1>3, <1>6 DEF Starts
  <2>. QED
    BY <1>2, <1>3, <1>4, <1>6, <2>1 DEF RingIn
<1>. QED
  BY <1>5, <1>6

\* Neither do elements of other keys in front of them.
LEMMA RingJoinSecond ==
  ASSUME NEW b, NEW c, NEW d, JoinOf(d, b, c), NEW g, NEW x \in DOMAIN c,
         \A z \in DOMAIN b : Key[b[z]] # Key[c[x]], RingIn(g, c, x)
  PROVE  RingIn(g, d, x + Len(b))
<1> DEFINE w == x + Len(b)
<1>1. /\ Len(b) \in Nat /\ DOMAIN b = 1..Len(b) /\ Len(c) \in Nat /\ DOMAIN c = 1..Len(c)
      /\ Len(d) = Len(b) + Len(c) /\ DOMAIN d = 1..Len(d)
  BY DEF JoinOf
<1>2. \A i \in DOMAIN c : i + Len(b) \in DOMAIN d /\ d[i + Len(b)] = c[i]
  <2> SUFFICES ASSUME NEW i \in DOMAIN c
               PROVE  i + Len(b) \in DOMAIN d /\ d[i + Len(b)] = c[i]
    OBVIOUS
  <2>1. i + Len(b) \in 1..Len(d) /\ ~(i + Len(b) <= Len(b)) /\ (i + Len(b)) - Len(b) = i
    BY <1>1
  <2>. QED
    BY <1>1, <2>1 DEF JoinOf
<1>3. \A i \in DOMAIN b : d[i] = b[i]
  BY <1>1 DEF JoinOf
<1>4. w \in DOMAIN d /\ d[w] = c[x] /\ x \in Nat
  BY <1>1, <1>2
<1>5. x > 1 => w > 1 /\ x - 1 \in DOMAIN c /\ d[w - 1] = c[x - 1]
  <2>1. ASSUME x > 1
        PROVE  w > 1 /\ x - 1 \in DOMAIN c /\ (x - 1) + Len(b) = w - 1
    BY <1>1, <2>1
  <2>. QED
    BY <1>2, <2>1
<1>6. x = 1 /\ w > 1 => Key[d[w - 1]] # Key[d[w]]
  <2>1. x = 1 /\ w > 1 => w - 1 \in DOMAIN b
    BY <1>1
  <2>. QED
    BY <1>3, <1>4, <2>1
<1>7. w \in Starts(d) <=> x \in Starts(c)
  <2>1. x = 1 \/ x > 1
    BY <1>1
  <2> HIDE DEF w
  <2>. QED
    BY <1>4, <1>5, <1>6, <2>1 DEF Starts
<1>8. CASE x \in Starts(c)
  <2>1. ASSUME NEW y \in DOMAIN d, LastOf(d, w, y)
        PROVE  g[d[w]] = d[y]
    <3>1. w <= y /\ Key[d[y]] = Key[c[x]] /\ y \in Nat
      BY <1>1, <1>4, <2>1 DEF LastOf
    <3>2. y - Len(b) \in DOMAIN c /\ d[y] = c[y - Len(b)] /\ x <= y - Len(b)
      BY <1>1, <1>4, <3>1 DEF JoinOf
    <3>3. ASSUME (y - Len(b)) + 1 \in DOMAIN c
          PROVE  Key[c[(y - Len(b)) + 1]] # Key[c[x]]
      <4>1. y + 1 = ((y - Len(b)) + 1) + Len(b)
        BY <1>1, <3>1
      <4>2. y + 1 \in DOMAIN d /\ d[y + 1] = c[(y - Len(b)) + 1]
        BY <1>2, <3>3, <4>1
      <4>. QED
        BY <1>4, <2>1, <4>2 DEF LastOf
    <3>4. LastOf(c, x, y - Len(b))
      BY <3>1, <3>2, <3>3 DEF LastOf
    <3>. QED
      BY <1>4, <1>8, <3>2, <3>4 DEF RingIn
  <2> HIDE DEF w
  <2>2. RingIn(g, d, w)
    BY <1>7, <1>8, <2>1 DEF RingIn
  <2>. QED
    BY <2>2 DEF w
<1>9. CASE x \notin Starts(c)
  <2>1. x > 1
    BY <1>4, <1>9 DEF Starts
  <2>2. g[c[x]] = c[x - 1]
    BY <1>9 DEF RingIn
  <2> HIDE DEF w
  <2>3. g[d[w]] = d[w - 1] /\ w \notin Starts(d)
    BY <1>4, <1>5, <1>7, <1>9, <2>1, <2>2
  <2>4. RingIn(g, d, w)
    BY <2>3 DEF RingIn
  <2>. QED
    BY <2>4 DEF w
<1>. QED
  BY <1>8, <1>9

\* The links of all groups of b.
Ringed(g, b) == \A x \in DOMAIN b : RingIn(g, b, x)

\* Only the links of the elements in b matter.
LEMMA RingFrame ==
  ASSUME NEW b \in Seq(Nodes), NEW g, NEW h, NEW x \in DOMAIN b, RingIn(g, b, x),
         h[b[x]] = g[b[x]]
  PROVE  RingIn(h, b, x)
BY DEF RingIn

\* The first of equal elements is one of them only.
LEMMA StartsDiffer ==
  ASSUME NEW b \in Seq(Nodes), Together(b), NEW x \in Starts(b), NEW y \in Starts(b),
         Key[b[x]] = Key[b[y]]
  PROVE  x = y
<1>1. Len(b) \in Nat /\ DOMAIN b = 1..Len(b) /\ x \in DOMAIN b /\ y \in DOMAIN b
  BY DEF Starts
<1>2. \A u, v \in DOMAIN b : u < v /\ Key[b[u]] = Key[b[v]] => v \notin Starts(b)
  <2> SUFFICES ASSUME NEW u \in DOMAIN b, NEW v \in DOMAIN b, u < v, Key[b[u]] = Key[b[v]]
               PROVE  v \notin Starts(b)
    OBVIOUS
  <2>1. v - 1 \in DOMAIN b /\ u <= v - 1 /\ v - 1 <= v /\ v > 1 /\ u <= v
    BY <1>1
  <2>2. Key[b[v - 1]] = Key[b[u]]
    BY <2>1 DEF Together
  <2>. QED
    BY <2>1, <2>2 DEF Starts
<1>3. ~(x < y) /\ ~(y < x)
  BY <1>1, <1>2
<1>. QED
  BY <1>1, <1>3

\* An element joins the group of its equals, or is a new one.
LEMMA RingPut ==
  ASSUME NEW b, NEW c, NEW p, NEW n, PutOf(c, b, p, n), Together(b), InFront(b, p, n),
         Distinct(b), n \notin Elems(b), NEW g \in [Nodes -> Memory], Ringed(g, b),
         NEW first, first = IF \E x \in DOMAIN b : Key[b[x]] = Key[n] THEN b[p] ELSE n
  PROVE  Ringed(insert_in_group(g, first, n), c)
<1> DEFINE h == insert_in_group(g, first, n)
<1>1. /\ Len(b) \in Nat /\ DOMAIN b = 1..Len(b) /\ Len(c) \in Nat /\ DOMAIN c = 1..Len(c)
      /\ p \in Nat /\ Len(c) = Len(b) + 1 /\ 1 <= p /\ p <= Len(b) + 1 /\ n \in Nodes
  BY DEF PutOf
<1>2. /\ c[p] = n
      /\ \A i \in DOMAIN c : i < p => i \in DOMAIN b /\ c[i] = b[i]
      /\ \A i \in DOMAIN c : i > p => i - 1 \in DOMAIN b /\ c[i] = b[i - 1]
  BY <1>1 DEF PutOf
<1>3. \A i \in DOMAIN b : b[i] # n /\ b[i] \in Nodes
  <2>1. \A i \in DOMAIN b : b[i] \in Elems(b)
    BY DEF Elems
  <2>2. b \in Seq(Nodes)
    BY DEF PutOf
  <2>. QED
    BY <2>1, <2>2, ElemsOfSeq
<1>4. CASE ~\E x \in DOMAIN b : Key[b[x]] = Key[n]
  <2>1. p = 1 /\ first = n
    BY <1>4 DEF InFront
  <2>2. h = [g EXCEPT ![n] = n]
    BY <2>1 DEF insert_in_group
  <2>3. h[n] = n /\ \A i \in DOMAIN b : h[b[i]] = g[b[i]]
    BY <1>1, <1>3, <2>2
  <2> HIDE DEF h
  <2>4. ASSUME NEW i \in DOMAIN c
        PROVE  RingIn(h, c, i)
    <3>1. CASE i = 1
      <4>1. ASSUME NEW y \in DOMAIN c, LastOf(c, 1, y)
            PROVE  y = 1
        <5>1. CASE y > 1
          BY <1>2, <1>4, <2>1, <4>1, <5>1 DEF LastOf
        <5>. QED
          BY <1>1, <5>1
      <4>2. 1 \in Starts(c)
        BY <3>1 DEF Starts
      <4>. QED
        BY <1>2, <2>1, <2>3, <3>1, <4>1, <4>2 DEF RingIn
    <3>2. CASE i > 1
      <4>1. i - 1 \in DOMAIN b /\ c[i] = b[i - 1] /\ RingIn(g, b, i - 1)
        BY <1>2, <2>1, <3>2 DEF Ringed
      <4>2. h[c[i]] = g[b[i - 1]]
        BY <2>3, <4>1
      <4>3. i \in Starts(c) <=> i - 1 \in Starts(b)
        <5>1. CASE i = 2
          BY <1>2, <1>4, <2>1, <4>1, <5>1 DEF Starts
        <5>2. CASE i > 2
          <6>1. i - 1 \in DOMAIN c /\ i - 1 > 1
            BY <1>1, <5>2
          <6>2. c[i - 1] = b[(i - 1) - 1]
            BY <1>2, <2>1, <6>1
          <6>. QED
            BY <3>2, <4>1, <6>1, <6>2 DEF Starts
        <5>. QED
          BY <1>1, <3>2, <5>1, <5>2
      <4>4. CASE i \in Starts(c)
        <5>1. ASSUME NEW y \in DOMAIN c, LastOf(c, i, y)
              PROVE  h[c[i]] = c[y]
          <6>1. y > 1 /\ y - 1 \in DOMAIN b /\ c[y] = b[y - 1] /\ i - 1 <= y - 1
            BY <1>1, <1>2, <2>1, <3>2, <5>1 DEF LastOf
          <6>2. (y - 1) + 1 \in DOMAIN b => y + 1 \in DOMAIN c /\ c[y + 1] = b[(y - 1) + 1]
            BY <1>1, <1>2, <2>1, <6>1
          <6>3. LastOf(b, i - 1, y - 1)
            BY <4>1, <5>1, <6>1, <6>2 DEF LastOf
          <6>. QED
            BY <4>1, <4>2, <4>3, <4>4, <6>1, <6>3 DEF RingIn
        <5>. QED
          BY <4>4, <5>1 DEF RingIn
      <4>5. CASE i \notin Starts(c)
        <5>1. i - 1 > 1 /\ i - 1 \in DOMAIN c
          BY <1>1, <3>2, <4>1, <4>3, <4>5 DEF Starts
        <5>2. c[i - 1] = b[(i - 1) - 1]
          BY <1>2, <2>1, <5>1
        <5>. QED
          BY <4>1, <4>2, <4>3, <4>5, <5>2 DEF RingIn
      <4>. QED
        BY <4>4, <4>5
    <3>. QED
      BY <1>1, <3>1, <3>2
  <2>. QED
    BY <2>4 DEF Ringed, h
<1>5. CASE \E x \in DOMAIN b : Key[b[x]] = Key[n]
  <2>1. p \in Starts(b) /\ Key[b[p]] = Key[n] /\ first = b[p] /\ p \in DOMAIN b
    BY <1>5 DEF InFront, Starts
  <2>2. h = [g EXCEPT ![n] = g[first], ![first] = n]
    BY <1>3, <2>1 DEF insert_in_group
  <2>3. /\ h[n] = g[b[p]] /\ h[b[p]] = n
        /\ \A i \in DOMAIN b : i # p => h[b[i]] = g[b[i]]
    <3>1. \A i \in DOMAIN b : i # p => b[i] # b[p]
      BY <2>1 DEF Distinct
    <3>2. first \in Nodes /\ n \in Nodes /\ first # n /\ first = b[p]
      BY <1>1, <1>3, <2>1
    <3> HIDE DEF h
    <3>3. \A m \in Nodes : h[m] = IF m = first THEN n ELSE IF m = n THEN g[first] ELSE g[m]
      BY <2>2, <3>2
    <3>. QED
      BY <1>3, <3>1, <3>2, <3>3
  <2>4. \A i \in DOMAIN b : i < p => Key[b[i]] # Key[n]
    <3> SUFFICES ASSUME NEW i \in DOMAIN b, i < p, Key[b[i]] = Key[n]
                 PROVE  FALSE
      OBVIOUS
    <3>1. p - 1 \in DOMAIN b /\ i <= p - 1 /\ p - 1 <= p /\ p > 1
      BY <1>1
    <3>2. Key[b[p - 1]] = Key[b[i]]
      BY <2>1, <3>1 DEF Together
    <3>. QED
      BY <2>1, <3>1, <3>2 DEF Starts
  <2> HIDE DEF h
  <2>5. p + 1 \in DOMAIN c /\ c[p + 1] = b[p] /\ p \in DOMAIN c /\ (p + 1) - 1 = p
    BY <1>1, <1>2, <2>1
  <2>6. ASSUME NEW i \in DOMAIN c
        PROVE  RingIn(h, c, i)
    <3>1. CASE i = p
      <4>1. i \in Starts(c)
        <5>1. p > 1 => p - 1 \in DOMAIN c /\ p - 1 \in DOMAIN b /\ p - 1 < p
          BY <1>1
        <5>. QED
          BY <1>2, <2>4, <3>1, <5>1 DEF Starts
      <4>2. ASSUME NEW y \in DOMAIN c, LastOf(c, p, y)
            PROVE  h[n] = c[y]
        <5>1. y # p
          BY <1>2, <2>1, <2>5, <4>2 DEF LastOf
        <5>2. y > p /\ y - 1 \in DOMAIN b /\ c[y] = b[y - 1] /\ p <= y - 1
          BY <1>1, <1>2, <4>2, <5>1 DEF LastOf
        <5>3. (y - 1) + 1 \in DOMAIN b => y + 1 \in DOMAIN c /\ c[y + 1] = b[(y - 1) + 1]
          BY <1>1, <1>2, <5>2
        <5>4. LastOf(b, p, y - 1)
          BY <1>2, <2>1, <4>2, <5>2, <5>3 DEF LastOf
        <5>. QED
          BY <2>1, <2>3, <5>2, <5>4 DEF Ringed, RingIn
      <4>. QED
        BY <1>2, <3>1, <4>1, <4>2 DEF RingIn
    <3>2. CASE i = p + 1
      <4>1. p + 1 \notin Starts(c)
        <5>1. p + 1 > 1
          BY <1>1
        <5>. QED
          BY <1>2, <2>1, <2>5, <5>1 DEF Starts
      <4>. QED
        BY <1>2, <2>3, <2>5, <3>2, <4>1 DEF RingIn
    <3>3. CASE i < p
      <4>1. i \in DOMAIN b /\ c[i] = b[i] /\ h[b[i]] = g[b[i]] /\ RingIn(g, b, i)
        BY <1>1, <1>2, <2>3, <3>3 DEF Ringed
      <4>2. i > 1 => i - 1 \in DOMAIN c /\ c[i - 1] = b[i - 1]
        BY <1>1, <1>2, <3>3
      <4>3. i \in Starts(c) <=> i \in Starts(b)
        BY <4>1, <4>2 DEF Starts
      <4>4. CASE i \in Starts(c)
        <5>1. ASSUME NEW y \in DOMAIN c, LastOf(c, i, y)
              PROVE  h[c[i]] = c[y]
          <6>1. y < p
            <7>1. ASSUME y >= p
                  PROVE  FALSE
              <8>1. y # p
                BY <1>2, <2>4, <4>1, <3>3, <5>1 DEF LastOf
              <8>2. y > p /\ y - 1 \in DOMAIN b /\ c[y] = b[y - 1] /\ p <= y - 1 /\ i <= p
                BY <1>1, <1>2, <3>3, <7>1, <8>1
              <8>3. Key[b[y - 1]] = Key[b[i]]
                BY <4>1, <5>1, <8>2 DEF LastOf
              <8>4. Key[b[p]] = Key[b[i]]
                BY <2>1, <4>1, <8>2, <8>3 DEF Together
              <8>. QED
                BY <2>1, <2>4, <3>3, <4>1, <8>4
            <7>. QED
              BY <1>1, <7>1
          <6>2. y \in DOMAIN b /\ c[y] = b[y]
            BY <1>2, <6>1
          <6>3. ASSUME y + 1 \in DOMAIN b
                PROVE  Key[b[y + 1]] # Key[b[i]]
            <7>1. CASE y + 1 < p
              <8>1. y + 1 \in DOMAIN c
                BY <1>1, <6>3
              <8>. QED
                BY <1>2, <4>1, <5>1, <7>1, <8>1 DEF LastOf
            <7>2. CASE y + 1 = p
              BY <2>1, <2>4, <3>3, <4>1, <7>2
            <7>. QED
              BY <1>1, <6>1, <7>1, <7>2
          <6>4. LastOf(b, i, y)
            BY <4>1, <5>1, <6>2, <6>3 DEF LastOf
          <6>. QED
            BY <4>1, <4>3, <4>4, <6>2, <6>4 DEF RingIn
        <5>. QED
          BY <4>4, <5>1 DEF RingIn
      <4>5. CASE i \notin Starts(c)
        <5>1. i > 1
          BY <1>1, <4>5 DEF Starts
        <5>. QED
          BY <4>1, <4>2, <4>3, <4>5, <5>1 DEF RingIn
      <4>. QED
        BY <4>4, <4>5
    <3>4. CASE i > p + 1
      <4>1. i - 1 \in DOMAIN b /\ c[i] = b[i - 1] /\ i - 1 # p /\ i > 1
        BY <1>1, <1>2, <3>4
      <4>2. h[c[i]] = g[b[i - 1]] /\ RingIn(g, b, i - 1)
        BY <2>3, <4>1 DEF Ringed
      <4>3. i - 1 \in DOMAIN c /\ c[i - 1] = b[(i - 1) - 1] /\ i - 1 > 1
        BY <1>1, <1>2, <3>4
      <4>4. i \in Starts(c) <=> i - 1 \in Starts(b)
        BY <4>1, <4>3 DEF Starts
      <4>5. CASE i \in Starts(c)
        <5>1. ASSUME NEW y \in DOMAIN c, LastOf(c, i, y)
              PROVE  h[c[i]] = c[y]
          <6>1. y > p /\ y - 1 \in DOMAIN b /\ c[y] = b[y - 1] /\ i - 1 <= y - 1
            BY <1>1, <1>2, <3>4, <5>1 DEF LastOf
          <6>2. (y - 1) + 1 \in DOMAIN b => y + 1 \in DOMAIN c /\ c[y + 1] = b[(y - 1) + 1]
            BY <1>1, <1>2, <6>1
          <6>3. LastOf(b, i - 1, y - 1)
            BY <4>1, <5>1, <6>1, <6>2 DEF LastOf
          <6>. QED
            BY <4>1, <4>2, <4>4, <4>5, <6>1, <6>3 DEF RingIn
        <5>. QED
          BY <4>5, <5>1 DEF RingIn
      <4>6. CASE i \notin Starts(c)
        BY <4>1, <4>2, <4>3, <4>4, <4>6 DEF RingIn
      <4>. QED
        BY <4>5, <4>6
    <3>. QED
      BY <1>1, <3>1, <3>2, <3>3, <3>4
  <2>. QED
    BY <2>6 DEF Ringed, h
<1>. QED
  BY <1>4, <1>5

\* Which element of a group leads to which one.
LEMMA RingLeads ==
  ASSUME NEW b \in Seq(Nodes), Together(b), Distinct(b), NEW g, Ringed(g, b),
         NEW x \in DOMAIN b, NEW j \in DOMAIN b, g[b[j]] = b[x]
  PROVE  \/ j = x + 1 /\ j \notin Starts(b)
         \/ j \in Starts(b) /\ LastOf(b, j, x)
<1>1. Len(b) \in Nat /\ DOMAIN b = 1..Len(b)
  OBVIOUS
<1>2. RingIn(g, b, j)
  BY DEF Ringed
<1>3. CASE j \in Starts(b)
  <2>1. PICK y \in DOMAIN b : LastOf(b, j, y)
    BY LastExists
  <2>2. b[y] = b[x]
    BY <1>2, <1>3, <2>1 DEF RingIn
  <2>3. y = x
    BY <2>2 DEF Distinct
  <2>. QED
    BY <1>3, <2>1, <2>3
<1>4. CASE j \notin Starts(b)
  <2>1. j > 1 /\ j - 1 \in DOMAIN b
    BY <1>1, <1>4 DEF Starts
  <2>2. b[j - 1] = b[x]
    BY <1>2, <1>4 DEF RingIn
  <2>3. j - 1 = x
    BY <2>1, <2>2 DEF Distinct
  <2>. QED
    BY <1>1, <1>4, <2>3
<1>. QED
  BY <1>3, <1>4

\* The links of b in which m leads to what the erased element led to.
Skips(g, b, x, m) == [g EXCEPT ![m] = g[b[x]]]

\* The element before it takes over the link of an element that leaves.
LEMMA RingErase ==
  ASSUME NEW b, NEW c, NEW x \in DOMAIN b, CutOf(c, b, x, x + 1), Together(b), Distinct(b),
         NEW g \in [Nodes -> Memory], Ringed(g, b), NEW m \in Elems(b), g[m] = b[x]
  PROVE  Ringed(Skips(g, b, x, m), c)
<1> DEFINE h == Skips(g, b, x, m)
<1>0. b \in Seq(Nodes) /\ c \in Seq(Nodes)
  BY DEF CutOf
<1>1. /\ Len(b) \in Nat /\ DOMAIN b = 1..Len(b) /\ Len(c) \in Nat /\ DOMAIN c = 1..Len(c)
      /\ Len(c) = Len(b) - 1 /\ x \in 1..Len(b)
  <2>1. Len(b) \in Nat /\ DOMAIN b = 1..Len(b) /\ Len(c) \in Nat /\ DOMAIN c = 1..Len(c)
    BY <1>0
  <2>2. Len(c) = Len(b) - ((x + 1) - x)
    BY DEF CutOf
  <2>. QED
    BY <2>1, <2>2
<1>2. /\ \A i \in DOMAIN c : i < x => i \in DOMAIN b /\ c[i] = b[i]
      /\ \A i \in DOMAIN c : i >= x => i + 1 \in DOMAIN b /\ c[i] = b[i + 1]
  BY <1>1 DEF CutOf
<1>3. \A i \in DOMAIN b : b[i] \in Nodes
  BY <1>0, <1>1, ElementOfSeq
<1>4. PICK j \in DOMAIN b : m = b[j]
  BY DEF Elems
<1>5. \/ j = x + 1 /\ j \notin Starts(b)
      \/ j \in Starts(b) /\ LastOf(b, j, x)
  BY <1>0, <1>4, RingLeads
<1>6. Key[b[j]] = Key[b[x]]
  <2>1. j = x + 1 => j - 1 = x /\ j > 1
    BY <1>1
  <2>. QED
    BY <1>5, <2>1 DEF Starts, LastOf
<1>7. /\ h[b[j]] = g[b[x]]
      /\ \A i \in DOMAIN b : i # j => h[b[i]] = g[b[i]]
  <2>1. \A i \in DOMAIN b : i # j => b[i] # b[j]
    BY DEF Distinct
  <2>2. \A n \in Nodes : h[n] = IF n = b[j] THEN g[b[x]] ELSE g[n]
    BY <1>3, <1>4 DEF Skips
  <2>. QED
    BY <1>3, <2>1, <2>2
<1> HIDE DEF h
<1>8. ASSUME NEW i \in DOMAIN c, Key[c[i]] # Key[b[x]]
      PROVE  RingIn(h, c, i)
  <2>1. \A z \in x..((x + 1) - 1) : Key[b[z]] # Key[c[i]]
    <3>1. x..((x + 1) - 1) = {x}
      BY <1>1
    <3>. QED
      BY <1>8, <3>1
  <2> DEFINE s == IF i < x THEN i ELSE i + ((x + 1) - x)
  <2>2. s \in DOMAIN b /\ c[i] = b[s]
    BY <1>1, <1>2
  <2>3. RingIn(g, b, s)
    BY <2>2 DEF Ringed
  <2>4. RingIn(g, c, i)
    BY <2>1, <2>3, RingCut
  <2>5. s # j
    BY <1>6, <1>8, <2>2
  <2> HIDE DEF s
  <2>6. h[c[i]] = g[c[i]]
    BY <1>7, <2>2, <2>5
  <2>. QED
    BY <1>0, <2>4, <2>6, RingFrame
<1>9. CASE j = x + 1 /\ j \notin Starts(b)
  <2>1. h[b[x + 1]] = g[b[x]] /\ x + 1 \in DOMAIN b /\ x \in DOMAIN c /\ c[x] = b[x + 1]
    BY <1>1, <1>2, <1>7, <1>9
  <2>2. ASSUME NEW i \in DOMAIN c, Key[c[i]] = Key[b[x]]
        PROVE  RingIn(h, c, i)
    <3>0. i \in Nat
      BY <1>1
    <3>1. CASE i < x
      <4>1. /\ i \in DOMAIN b /\ c[i] = b[i] /\ h[b[i]] = g[b[i]] /\ RingIn(g, b, i)
            /\ i > 1 => i - 1 \in DOMAIN c /\ c[i - 1] = b[i - 1]
        BY <1>1, <1>2, <1>7, <1>9, <3>1 DEF Ringed
      <4>2. i \in Starts(c) <=> i \in Starts(b)
        BY <4>1 DEF Starts
      <4>3. CASE i \in Starts(c)
        <5>1. ASSUME NEW y \in DOMAIN c, LastOf(c, i, y)
              PROVE  h[c[i]] = c[y]
          <6>1. CASE y < x
            <7>1. y + 1 # x
              BY <1>2, <1>6, <1>9, <2>1, <2>2, <5>1 DEF LastOf
            <7>2. y \in DOMAIN b /\ c[y] = b[y] /\ y + 1 < x /\ y + 1 \in DOMAIN c /\ c[y + 1] = b[y + 1]
              BY <1>1, <1>2, <6>1, <7>1
            <7>3. i <= y /\ Key[b[y + 1]] # Key[b[i]] /\ Key[b[y]] = Key[b[i]]
              BY <4>1, <5>1, <7>2 DEF LastOf
            <7>4. x \in DOMAIN b /\ i <= y + 1 /\ y + 1 <= x /\ y + 1 \in DOMAIN b
              BY <1>1, <5>1, <7>2, <7>3
            <7>5. FALSE
              BY <2>2, <4>1, <7>3, <7>4 DEF Together
            <7>. QED
              BY <7>5
          <6>2. CASE y >= x
            <7>1. y + 1 \in DOMAIN b /\ c[y] = b[y + 1] /\ i <= y + 1
              BY <1>1, <1>2, <3>1, <6>2
            <7>2. (y + 1) + 1 \in DOMAIN b => y + 1 \in DOMAIN c /\ c[y + 1] = b[(y + 1) + 1]
              BY <1>1, <1>2, <6>2
            <7>3. LastOf(b, i, y + 1)
              BY <4>1, <5>1, <7>1, <7>2 DEF LastOf
            <7>. QED
              BY <4>1, <4>2, <4>3, <7>1, <7>3 DEF RingIn
          <6>. QED
            BY <1>1, <6>1, <6>2
        <5>. QED
          BY <4>3, <5>1 DEF RingIn
      <4>4. CASE i \notin Starts(c)
        <5>1. i > 1
          BY <3>0, <1>1, <4>4 DEF Starts
        <5>. QED
          BY <4>1, <4>2, <4>4, <5>1 DEF RingIn
      <4>. QED
        BY <4>3, <4>4
    <3>2. CASE i = x
      <4>1. x > 1 => x - 1 \in DOMAIN c /\ c[x - 1] = b[x - 1]
        BY <1>1, <1>2
      <4>2. x \in Starts(c) <=> x \in Starts(b)
        BY <1>6, <1>9, <2>1, <4>1 DEF Starts
      <4>3. RingIn(g, b, x) /\ h[c[x]] = g[b[x]]
        BY <2>1 DEF Ringed
      <4>4. CASE x \in Starts(c)
        <5>1. ASSUME NEW y \in DOMAIN c, LastOf(c, x, y)
              PROVE  h[c[x]] = c[y]
          <6>1. y >= x /\ y + 1 \in DOMAIN b /\ c[y] = b[y + 1] /\ x <= y + 1
            BY <1>1, <1>2, <5>1 DEF LastOf
          <6>2. (y + 1) + 1 \in DOMAIN b => y + 1 \in DOMAIN c /\ c[y + 1] = b[(y + 1) + 1]
            BY <1>1, <1>2, <6>1
          <6>3. LastOf(b, x, y + 1)
            BY <1>6, <1>9, <2>1, <5>1, <6>1, <6>2 DEF LastOf
          <6>. QED
            BY <4>2, <4>3, <4>4, <6>1, <6>3 DEF RingIn
        <5>. QED
          BY <3>2, <4>4, <5>1 DEF RingIn
      <4>5. CASE x \notin Starts(c)
        <5>1. x > 1
          BY <1>1, <2>1, <4>5 DEF Starts
        <5>. QED
          BY <3>2, <4>1, <4>2, <4>3, <4>5, <5>1 DEF RingIn
      <4>. QED
        BY <4>4, <4>5
    <3>3. CASE i > x
      <4>1. /\ i + 1 \in DOMAIN b /\ c[i] = b[i + 1] /\ i + 1 # j /\ i > 1 /\ i + 1 > 1
            /\ i - 1 \in DOMAIN c /\ c[i - 1] = b[(i - 1) + 1] /\ (i - 1) + 1 = (i + 1) - 1
        BY <1>1, <1>2, <1>9, <3>3
      <4>2. h[c[i]] = g[b[i + 1]] /\ RingIn(g, b, i + 1)
        BY <1>7, <4>1 DEF Ringed
      <4>3. i \in Starts(c) <=> i + 1 \in Starts(b)
        BY <4>1 DEF Starts
      <4>4. CASE i \in Starts(c)
        <5>1. ASSUME NEW y \in DOMAIN c, LastOf(c, i, y)
              PROVE  h[c[i]] = c[y]
          <6>1. y >= x /\ y + 1 \in DOMAIN b /\ c[y] = b[y + 1] /\ i + 1 <= y + 1
            BY <1>1, <1>2, <3>3, <5>1 DEF LastOf
          <6>2. (y + 1) + 1 \in DOMAIN b => y + 1 \in DOMAIN c /\ c[y + 1] = b[(y + 1) + 1]
            BY <1>1, <1>2, <6>1
          <6>3. LastOf(b, i + 1, y + 1)
            BY <4>1, <5>1, <6>1, <6>2 DEF LastOf
          <6>. QED
            BY <4>1, <4>2, <4>3, <4>4, <6>1, <6>3 DEF RingIn
        <5>. QED
          BY <4>4, <5>1 DEF RingIn
      <4>5. CASE i \notin Starts(c)
        BY <4>1, <4>2, <4>3, <4>5 DEF RingIn
      <4>. QED
        BY <4>4, <4>5
    <3>. QED
      BY <1>1, <3>0, <3>1, <3>2, <3>3
  <2>. QED
    BY <1>8, <2>2 DEF Ringed, h
<1>10. CASE j \in Starts(b) /\ LastOf(b, j, x)
  <2>1. /\ j <= x /\ Key[b[x]] = Key[b[j]] /\ j \in Nat /\ j >= 1
        /\ x + 1 \in DOMAIN b => Key[b[x + 1]] # Key[b[j]]
    BY <1>1, <1>10 DEF LastOf
  <2>2. ASSUME NEW v \in DOMAIN b, v > x
        PROVE  Key[b[v]] # Key[b[x]]
    <3>1. x + 1 \in DOMAIN b /\ x <= x + 1 /\ x + 1 <= v
      BY <1>1, <2>2
    <3>. QED
      BY <2>1, <3>1 DEF Together
  <2>3. ASSUME NEW i \in DOMAIN c, Key[c[i]] = Key[b[x]]
        PROVE  i < x
    <3>1. i >= x => i + 1 \in DOMAIN b /\ c[i] = b[i + 1] /\ i + 1 > x
      BY <1>1, <1>2
    <3>. QED
      BY <1>1, <2>2, <2>3, <3>1
  <2>4. ASSUME NEW i \in DOMAIN c, Key[c[i]] = Key[b[x]]
        PROVE  RingIn(h, c, i)
    <3>1. i < x /\ i \in Nat
      BY <1>1, <2>3, <2>4
    <3>2. /\ i \in DOMAIN b /\ c[i] = b[i] /\ RingIn(g, b, i)
          /\ i > 1 => i - 1 \in DOMAIN c /\ c[i - 1] = b[i - 1]
      BY <1>1, <1>2, <3>1 DEF Ringed
    <3>3. i \in Starts(c) <=> i \in Starts(b)
      BY <3>2 DEF Starts
    <3>4. CASE i \in Starts(c)
      <4>1. i = j
        BY <1>0, <1>10, <2>1, <2>4, <3>2, <3>3, <3>4, StartsDiffer
      <4>2. ASSUME NEW y \in DOMAIN c, LastOf(c, i, y)
            PROVE  y = x - 1
        <5>1. y < x /\ i <= y /\ y \in Nat
          BY <1>1, <2>3, <2>4, <4>2 DEF LastOf
        <5>2. ASSUME y + 1 < x
              PROVE  FALSE
          <6>1. y + 1 \in DOMAIN c /\ y + 1 \in DOMAIN b /\ c[y + 1] = b[y + 1] /\ i <= y + 1 /\ y + 1 <= x
            BY <1>1, <1>2, <5>1, <5>2
          <6>2. Key[b[y + 1]] = Key[b[i]]
            BY <2>4, <3>2, <6>1 DEF Together
          <6>. QED
            BY <3>2, <4>2, <6>1, <6>2 DEF LastOf
        <5>. QED
          BY <1>1, <5>1, <5>2
      <4>3. x \notin Starts(b)
        BY <1>0, <1>1, <1>10, <2>1, <3>1, <4>1, StartsDiffer
      <4>4. g[b[x]] = b[x - 1]
        BY <4>3 DEF Ringed, RingIn
      <4>5. x - 1 \in DOMAIN c /\ c[x - 1] = b[x - 1]
        BY <1>1, <1>2, <3>1
      <4>. QED
        BY <1>7, <3>2, <3>4, <4>1, <4>2, <4>4, <4>5 DEF RingIn
    <3>5. CASE i \notin Starts(c)
      <4>1. i > 1 /\ i # j
        BY <1>10, <3>1, <1>1, <3>3, <3>5 DEF Starts
      <4>. QED
        BY <1>7, <3>2, <3>3, <3>5, <4>1 DEF RingIn
    <3>. QED
      BY <3>4, <3>5
  <2>. QED
    BY <1>8, <2>4 DEF Ringed, h
<1>. QED
  BY <1>5, <1>9, <1>10

\* Two buckets of different keys in a row.
LEMMA TogetherJoin ==
  ASSUME NEW b, NEW c, NEW d, JoinOf(d, b, c), Together(b), Together(c), Unlike(b, c)
  PROVE  Together(d)
<1> SUFFICES ASSUME NEW x \in DOMAIN d, NEW y \in DOMAIN d, NEW z \in DOMAIN d,
                    x <= y, y <= z, Key[d[x]] = Key[d[z]]
             PROVE  Key[d[y]] = Key[d[x]]
  BY DEF Together
<1>1. /\ Len(b) \in Nat /\ DOMAIN b = 1..Len(b) /\ Len(c) \in Nat /\ DOMAIN c = 1..Len(c)
      /\ Len(d) = Len(b) + Len(c) /\ DOMAIN d = 1..Len(d)
  BY DEF JoinOf
<1>2. /\ \A i \in DOMAIN d : i <= Len(b) => i \in DOMAIN b /\ d[i] = b[i]
      /\ \A i \in DOMAIN d : i > Len(b) => i - Len(b) \in DOMAIN c /\ d[i] = c[i - Len(b)]
  BY <1>1 DEF JoinOf
<1>3. CASE z <= Len(b)
  <2>1. x <= Len(b) /\ y <= Len(b)
    BY <1>1, <1>3
  <2>2. /\ x \in DOMAIN b /\ y \in DOMAIN b /\ z \in DOMAIN b
        /\ d[x] = b[x] /\ d[y] = b[y] /\ d[z] = b[z]
    BY <1>2, <1>3, <2>1
  <2>. QED
    BY <2>2 DEF Together
<1>4. CASE x > Len(b)
  <2>1. z > Len(b) /\ y > Len(b) /\ x - Len(b) <= y - Len(b) /\ y - Len(b) <= z - Len(b)
    BY <1>1, <1>4
  <2>2. /\ x - Len(b) \in DOMAIN c /\ y - Len(b) \in DOMAIN c /\ z - Len(b) \in DOMAIN c
        /\ d[x] = c[x - Len(b)] /\ d[y] = c[y - Len(b)] /\ d[z] = c[z - Len(b)]
    BY <1>2, <1>4, <2>1
  <2>. QED
    BY <2>1, <2>2 DEF Together
<1>5. CASE x <= Len(b) /\ z > Len(b)
  BY <1>2, <1>5 DEF Unlike
<1>. QED
  BY <1>1, <1>3, <1>4, <1>5

\* Two buckets with different keys make one bucket whose groups are linked.
LEMMA RingJoin ==
  ASSUME NEW b, NEW c, NEW d, JoinOf(d, b, c), Unlike(b, c), NEW g, Ringed(g, b), Ringed(g, c)
  PROVE  Ringed(g, d)
<1>1. /\ Len(b) \in Nat /\ DOMAIN b = 1..Len(b) /\ Len(c) \in Nat /\ DOMAIN c = 1..Len(c)
      /\ Len(d) = Len(b) + Len(c) /\ DOMAIN d = 1..Len(d)
  BY DEF JoinOf
<1>2. ASSUME NEW x \in DOMAIN d
      PROVE  RingIn(g, d, x)
  <2>1. CASE x <= Len(b)
    <3>1. x \in DOMAIN b /\ RingIn(g, b, x)
      BY <1>1, <2>1 DEF Ringed
    <3>2. \A z \in DOMAIN c : Key[c[z]] # Key[b[x]]
      BY <3>1 DEF Unlike
    <3>. QED
      BY <3>1, <3>2, RingJoinFirst
  <2>2. CASE x > Len(b)
    <3>1. x - Len(b) \in DOMAIN c /\ (x - Len(b)) + Len(b) = x
      BY <1>1, <2>2
    <3>2. RingIn(g, c, x - Len(b)) /\ \A z \in DOMAIN b : Key[b[z]] # Key[c[x - Len(b)]]
      BY <3>1 DEF Ringed, Unlike
    <3>3. RingIn(g, d, (x - Len(b)) + Len(b))
      BY <3>1, <3>2, RingJoinSecond
    <3>. QED
      BY <3>1, <3>3
  <2>. QED
    BY <1>1, <2>1, <2>2
<1>. QED
  BY <1>2 DEF Ringed

\* Some positions of a bucket.
LEMMA TogetherPiece ==
  ASSUME NEW b, NEW c, NEW p, NEW q, PieceOf(c, b, p, q), Together(b)
  PROVE  Together(c)
<1> SUFFICES ASSUME NEW x \in DOMAIN c, NEW y \in DOMAIN c, NEW z \in DOMAIN c,
                    x <= y, y <= z, Key[c[x]] = Key[c[z]]
             PROVE  Key[c[y]] = Key[c[x]]
  BY DEF Together
<1>1. /\ Len(b) \in Nat /\ DOMAIN b = 1..Len(b) /\ Len(c) \in Nat /\ DOMAIN c = 1..Len(c)
      /\ p \in Nat /\ q \in Nat /\ p <= q /\ Len(c) = q - p /\ 1 <= p /\ q <= Len(b) + 1
  BY DEF PieceOf
<1>2. \A i \in DOMAIN c : i + (p - 1) \in DOMAIN b /\ c[i] = b[i + (p - 1)]
  BY <1>1 DEF PieceOf
<1>3. x + (p - 1) <= y + (p - 1) /\ y + (p - 1) <= z + (p - 1)
  BY <1>1
<1>4. Key[b[x + (p - 1)]] = Key[b[z + (p - 1)]]
  BY <1>2
<1>5. Key[b[y + (p - 1)]] = Key[b[x + (p - 1)]]
  BY <1>2, <1>3, <1>4 DEF Together
<1>. QED
  BY <1>2, <1>5

\* A group is the same without the other elements of the bucket.
LEMMA RingPiece ==
  ASSUME NEW b, NEW c, NEW p, NEW q, PieceOf(c, b, p, q), Together(b), NEW g,
         NEW x \in DOMAIN c, RingIn(g, b, x + (p - 1)),
         \A z \in DOMAIN b : z < p \/ z >= q => Key[b[z]] # Key[c[x]]
  PROVE  RingIn(g, c, x)
<1> DEFINE w == x + (p - 1)
<1>1. /\ Len(b) \in Nat /\ DOMAIN b = 1..Len(b) /\ Len(c) \in Nat /\ DOMAIN c = 1..Len(c)
      /\ p \in Nat /\ q \in Nat /\ p <= q /\ Len(c) = q - p /\ 1 <= p /\ q <= Len(b) + 1
      /\ x \in Nat
  BY DEF PieceOf
<1>2. \A i \in DOMAIN c : i + (p - 1) \in DOMAIN b /\ c[i] = b[i + (p - 1)]
  BY <1>1 DEF PieceOf
<1>3. w \in DOMAIN b /\ c[x] = b[w]
  BY <1>2
<1>4. x > 1 => w > 1 /\ x - 1 \in DOMAIN c /\ c[x - 1] = b[w - 1]
  <2>1. x > 1 => w > 1 /\ x - 1 \in DOMAIN c /\ (x - 1) + (p - 1) = w - 1
    BY <1>1
  <2>. QED
    BY <1>2, <2>1
<1>5. x = 1 => w = p /\ (p > 1 => w > 1 /\ w - 1 \in DOMAIN b /\ w - 1 < p)
  BY <1>1
<1>6. x \in Starts(c) <=> w \in Starts(b)
  <2>1. x = 1 \/ x > 1
    BY <1>1
  <2>2. x = 1 => (w > 1 => Key[b[w]] # Key[b[w - 1]])
    BY <1>1, <1>3, <1>5
  <2> HIDE DEF w
  <2>. QED
    BY <1>3, <1>4, <2>1, <2>2 DEF Starts
<1>7. CASE x \in Starts(c)
  <2>1. ASSUME NEW y \in DOMAIN c, LastOf(c, x, y)
        PROVE  g[c[x]] = c[y]
    <3> DEFINE v == y + (p - 1)
    <3>1. v \in DOMAIN b /\ c[y] = b[v] /\ w <= v /\ y \in Nat /\ y <= q - p
      BY <1>1, <1>2, <2>1 DEF LastOf
    <3>2. ASSUME v + 1 \in DOMAIN b
          PROVE  Key[b[v + 1]] # Key[b[w]]
      <4>1. CASE y + 1 \in DOMAIN c
        <5>1. (y + 1) + (p - 1) = v + 1
          BY <1>1, <3>1
        <5>2. c[y + 1] = b[v + 1]
          BY <1>2, <4>1, <5>1
        <5>. QED
          BY <1>3, <2>1, <4>1, <5>2 DEF LastOf
      <4>2. CASE y + 1 \notin DOMAIN c
        <5>1. v + 1 >= q
          BY <1>1, <3>1, <4>2
        <5>. QED
          BY <1>3, <3>2, <5>1
      <4>. QED
        BY <4>1, <4>2
    <3> HIDE DEF v, w
    <3>3. LastOf(b, w, v)
      BY <1>3, <2>1, <3>1, <3>2 DEF LastOf
    <3>4. RingIn(g, b, w)
      BY DEF w
    <3>. QED
      BY <1>3, <1>6, <1>7, <3>1, <3>3, <3>4 DEF RingIn
  <2>. QED
    BY <1>7, <2>1 DEF RingIn
<1>8. CASE x \notin Starts(c)
  <2>1. x > 1
    BY <1>1, <1>8 DEF Starts
  <2>2. RingIn(g, b, w)
    OBVIOUS
  <2> HIDE DEF w
  <2>. QED
    BY <1>3, <1>4, <1>6, <1>8, <2>1, <2>2 DEF RingIn
<1>. QED
  BY <1>7, <1>8
-----------------------------------------------------------------------------
(* Groups of one or two elements do not depend on where they stand.        *)

\* The elements of M with the key of n.
Alike(M, n) == {m \in M : Key[m] = Key[n]}

\* Together again, one or two equal elements are a group.
LEMMA PairRings ==
  ASSUME NEW b \in Seq(Nodes), Together(b), Distinct(b), NEW g, NEW x \in DOMAIN b,
         \A y \in DOMAIN b : Key[b[y]] = Key[b[x]] => b[y] \in {b[x], g[b[x]]},
         g[b[x]] \in Elems(b), Key[g[b[x]]] = Key[b[x]]
  PROVE  RingIn(g, b, x)
<1>1. Len(b) \in Nat /\ DOMAIN b = 1..Len(b) /\ x \in Nat
  OBVIOUS
<1>2. PICK j \in DOMAIN b : g[b[x]] = b[j]
  BY DEF Elems
<1>3. \A y \in DOMAIN b : Key[b[y]] = Key[b[x]] => y = x \/ y = j
  BY <1>2 DEF Distinct
<1>4. CASE x \in Starts(b)
  <2>1. ASSUME NEW y \in DOMAIN b, LastOf(b, x, y)
        PROVE  y = j
    <3>1. x <= y /\ Key[b[y]] = Key[b[x]] /\ (y + 1 \in DOMAIN b => Key[b[y + 1]] # Key[b[x]])
      BY <2>1 DEF LastOf
    <3>2. ASSUME y # j
          PROVE  FALSE
      <4>1. y = x
        BY <1>3, <3>1, <3>2
      <4>2. CASE j > x
        <5>1. x + 1 \in DOMAIN b /\ x <= x + 1 /\ x + 1 <= j
          BY <1>1, <4>2
        <5>2. Key[b[j]] = Key[b[x]]
          BY <1>2
        <5>3. Key[b[x + 1]] = Key[b[x]]
          BY <5>1, <5>2 DEF Together
        <5>. QED
          BY <3>1, <4>1, <5>1, <5>3
      <4>3. CASE j < x
        <5>1. x - 1 \in DOMAIN b /\ j <= x - 1 /\ x - 1 <= x /\ x > 1
          BY <1>1, <4>3
        <5>2. Key[b[j]] = Key[b[x]]
          BY <1>2
        <5>3. Key[b[x - 1]] = Key[b[j]]
          BY <5>1, <5>2 DEF Together
        <5>. QED
          BY <1>4, <5>1, <5>2, <5>3 DEF Starts
      <4>. QED
        BY <1>1, <3>2, <4>1, <4>2, <4>3
    <3>. QED
      BY <3>2
  <2>. QED
    BY <1>2, <1>4, <2>1 DEF RingIn
<1>5. CASE x \notin Starts(b)
  <2>1. x > 1 /\ Key[b[x - 1]] = Key[b[x]]
    BY <1>1, <1>5 DEF Starts
  <2>2. x - 1 \in DOMAIN b /\ x - 1 # x
    BY <1>1, <2>1
  <2>3. x - 1 = j
    BY <1>3, <2>1, <2>2
  <2>. QED
    BY <1>2, <1>5, <2>3 DEF RingIn
<1>. QED
  BY <1>4, <1>5

\* An element and its link are all of a group of one or two.
LEMMA RingPairs ==
  ASSUME NEW b \in Seq(Nodes), Together(b), Distinct(b), NEW g, NEW x \in DOMAIN b,
         RingIn(g, b, x), NEW M \in SUBSET Elems(b),
         M = Alike(Elems(b), b[x]), Cardinality(M) <= 2
  PROVE  M = {b[x], g[b[x]]}
<1>1. Len(b) \in Nat /\ DOMAIN b = 1..Len(b) /\ x \in Nat
  OBVIOUS
<1>2. \A i \in DOMAIN b : b[i] \in M <=> Key[b[i]] = Key[b[x]]
  BY DEF Alike, Elems
<1>3. ASSUME NEW i \in DOMAIN b, NEW j \in DOMAIN b, NEW k \in DOMAIN b,
             b[i] \in M, b[j] \in M, b[k] \in M, i # j, j # k, i # k
      PROVE  FALSE
  <2>1. b[i] # b[j] /\ b[j] # b[k] /\ b[i] # b[k]
    BY <1>3 DEF Distinct
  <2>2. IsFiniteSet(Elems(b)) 
    BY <1>1, ElemsCount
  <2>3. IsFiniteSet(M)
    BY <2>2, FS_Subset
  <2>4. {b[i], b[j], b[k]} \subseteq M
    BY <1>3
  <2>5. Cardinality({b[i], b[j], b[k]}) = 3
    <3>1. /\ IsFiniteSet({}) /\ Cardinality({}) = 0
      BY FS_EmptySet
    <3>2. IsFiniteSet({b[i]}) /\ Cardinality({b[i]}) = 1
      BY FS_Singleton
    <3>3. IsFiniteSet({b[i]} \cup {b[j]}) /\ Cardinality({b[i]} \cup {b[j]}) = 2
      <4>1. /\ IsFiniteSet({b[i]} \cup {b[j]})
            /\ Cardinality({b[i]} \cup {b[j]}) =
                 IF b[j] \in {b[i]} THEN Cardinality({b[i]}) ELSE Cardinality({b[i]}) + 1
        BY <3>2, FS_AddElement
      <4>2. b[j] \notin {b[i]}
        BY <2>1
      <4>. QED
        BY <3>2, <4>1, <4>2
    <3>4. Cardinality(({b[i]} \cup {b[j]}) \cup {b[k]}) = 3
      <4> DEFINE D == {b[i]} \cup {b[j]}
      <4>0. IsFiniteSet(D) /\ Cardinality(D) = 2 /\ b[k] \notin D
        BY <2>1, <3>3
      <4> HIDE DEF D
      <4>1. Cardinality(D \cup {b[k]}) = IF b[k] \in D THEN Cardinality(D) ELSE Cardinality(D) + 1
        BY <4>0, FS_AddElement
      <4>2. Cardinality(D \cup {b[k]}) = 3
        BY <4>0, <4>1
      <4>. QED
        BY <4>2 DEF D
    <3>5. ({b[i]} \cup {b[j]}) \cup {b[k]} = {b[i], b[j], b[k]}
      OBVIOUS
    <3>. QED
      BY <3>4, <3>5
  <2>6. Cardinality({b[i], b[j], b[k]}) <= Cardinality(M)
    BY <2>3, <2>4, FS_Subset
  <2>7. Cardinality(M) \in Nat
    BY <2>3, FS_CardinalityType
  <2>. QED
    BY <2>5, <2>6, <2>7
<1>4. \E j \in DOMAIN b : /\ g[b[x]] = b[j] /\ b[j] \in M
                          /\ j = x => \A i \in DOMAIN b : b[i] \in M => i = x
  <2>1. CASE x \in Starts(b)
    <3>1. PICK y \in DOMAIN b : LastOf(b, x, y)
      BY LastExists
    <3>2. g[b[x]] = b[y]
      BY <2>1, <3>1 DEF RingIn
    <3>3. b[y] \in M
      BY <1>2, <3>1 DEF LastOf
    <3>4. ASSUME y = x, NEW i \in DOMAIN b, b[i] \in M
          PROVE  i = x
      <4>1. Key[b[i]] = Key[b[x]]
        BY <1>2, <3>4
      <4>2. CASE i > x
        <5>1. x + 1 \in DOMAIN b /\ x <= x + 1 /\ x + 1 <= i
          BY <1>1, <4>2
        <5>2. Key[b[x + 1]] = Key[b[x]]
          BY <4>1, <5>1 DEF Together
        <5>. QED
          BY <3>1, <3>4, <5>1, <5>2 DEF LastOf
      <4>3. CASE i < x
        <5>1. x - 1 \in DOMAIN b /\ i <= x - 1 /\ x - 1 <= x /\ x > 1
          BY <1>1, <4>3
        <5>2. Key[b[x - 1]] = Key[b[i]]
          BY <4>1, <5>1 DEF Together
        <5>. QED
          BY <2>1, <4>1, <5>1, <5>2 DEF Starts
      <4>. QED
        BY <1>1, <4>2, <4>3
    <3>. QED
      BY <3>2, <3>3, <3>4
  <2>2. CASE x \notin Starts(b)
    <3>1. x > 1 /\ Key[b[x - 1]] = Key[b[x]]
      BY <1>1, <2>2 DEF Starts
    <3>2. x - 1 \in DOMAIN b /\ x - 1 # x
      BY <1>1, <3>1
    <3>3. g[b[x]] = b[x - 1]
      BY <2>2 DEF RingIn
    <3>. QED
      BY <1>2, <3>1, <3>2, <3>3
  <2>. QED
    BY <2>1, <2>2
<1>5. PICK j \in DOMAIN b : /\ g[b[x]] = b[j] /\ b[j] \in M
                            /\ j = x => \A i \in DOMAIN b : b[i] \in M => i = x
  BY <1>4
<1>6. \A i \in DOMAIN b : b[i] \in M => i = x \/ i = j
  BY <1>2, <1>3, <1>5
<1>7. \A n \in M : \E i \in DOMAIN b : n = b[i]
  BY DEF Elems
<1>. QED
  BY <1>2, <1>5, <1>6, <1>7
-----------------------------------------------------------------------------
(* Searches, that go from group to group.                                  *)

\* A function that is computed step by step.
Iterates(f, N, start, F) == f = [i \in 0..N |-> IF i = 0 THEN start ELSE F[f[i - 1]]]

\* There is one.
LEMMA IterationExists ==
  ASSUME NEW N \in Nat, NEW start \in Nat, NEW F \in [Nat -> Nat]
  PROVE  \E f \in [0..N -> Nat] : Iterates(f, N, start, F)
<1> DEFINE P == {n \in Nat : \E f \in [0..n -> Nat] : Iterates(f, n, start, F)}
<1>1. 0 \in P
  <2> DEFINE f == [i \in 0..0 |-> start]
  <2>1. f \in [0..0 -> Nat]
    OBVIOUS
  <2>2. f = [i \in 0..0 |-> IF i = 0 THEN start ELSE F[f[i - 1]]]
    <3>1. \A i \in 0..0 : i = 0
      OBVIOUS
    <3>. QED
      BY <3>1
  <2>3. Iterates(f, 0, start, F)
    BY <2>2 DEF Iterates
  <2>. QED
    BY <2>1, <2>3
<1>2. ASSUME NEW n \in P
      PROVE  n + 1 \in P
  <2>1. n \in Nat
    OBVIOUS
  <2>2. PICK f \in [0..n -> Nat] : Iterates(f, n, start, F)
    OBVIOUS
  <2>3. PICK v \in Nat : v = F[f[n]]
    BY <2>1
  <2> DEFINE e == [i \in 0..(n + 1) |-> IF i = n + 1 THEN v ELSE f[i]]
  <2>4. e \in [0..(n + 1) -> Nat]
    <3>1. ASSUME NEW i \in 0..(n + 1)
          PROVE  (IF i = n + 1 THEN v ELSE f[i]) \in Nat
      <4>1. i # n + 1 => i \in 0..n
        BY <2>1
      <4>. QED
        BY <4>1
    <3>. QED
      BY <3>1
  <2>5. \A i \in 0..(n + 1) : e[i] = IF i = 0 THEN start ELSE F[e[i - 1]]
    <3> SUFFICES ASSUME NEW i \in 0..(n + 1)
                 PROVE  e[i] = IF i = 0 THEN start ELSE F[e[i - 1]]
      OBVIOUS
    <3>1. \A j \in 0..n : f[j] = IF j = 0 THEN start ELSE F[f[j - 1]]
      BY <2>2 DEF Iterates
    <3>2. CASE i = n + 1
      <4>1. i # 0 /\ i - 1 = n /\ i - 1 \in 0..(n + 1) /\ i - 1 # n + 1 /\ e[i] = v /\ e[i - 1] = f[n]
        BY <2>1, <3>2
      <4>. QED
        BY <2>3, <4>1
    <3>3. CASE i # n + 1
      <4>1. i \in 0..n /\ e[i] = f[i] /\ (i # 0 => i - 1 \in 0..(n + 1) /\ i - 1 # n + 1 /\ e[i - 1] = f[i - 1])
        BY <2>1, <3>3
      <4>. QED
        BY <3>1, <4>1
    <3>. QED
      BY <3>2, <3>3
  <2>6. Iterates(e, n + 1, start, F)
    BY <2>5 DEF Iterates
  <2> HIDE DEF e
  <2>7. n + 1 \in Nat
    BY <2>1
  <2>8. \E d \in [0..(n + 1) -> Nat] : Iterates(d, n + 1, start, F)
    BY <2>4, <2>6, Zenon
  <2>. QED
    BY <2>7, <2>8
<1>3. P \in SUBSET Nat
  OBVIOUS
<1> HIDE DEF P
<1>4. P = Nat
  BY <1>1, <1>2, <1>3, SetInduction, Zenon
<1>. QED
  BY <1>4 DEF P

\* With groups priv_find looks at the first element of every group.
LEMMA VisitsStarts ==
  ASSUME kind.multi, NEW b \in Seq(Nodes), Distinct(b), Together(b), Ringed(group, b)
  PROVE  {x \in visits(b) : x <= Len(b)} = Starts(b)
<1> DEFINE I == 0..Len(b)
           F == [x \in Nat |-> IF x > Len(b) THEN x
                               ELSE IF x = 0 THEN 0 ELSE Place(b, group[b[x]]) + 1]
           Next_(at, i) == IF i = 0 THEN 1
                           ELSE IF at[i - 1] > Len(b) THEN at[i - 1]
                           ELSE Place(b, last_in_group(b[at[i - 1]])) + 1
           at == CHOOSE f : f = [i \in I |-> Next_(f, i)]
<1>1. Len(b) \in Nat /\ DOMAIN b = 1..Len(b)
  OBVIOUS
<1>2. \A x \in DOMAIN b : \E y \in DOMAIN b : /\ group[b[x]] = b[y] /\ Place(b, group[b[x]]) = y
                                              /\ x \in Starts(b) => LastOf(b, x, y)
  <2> SUFFICES ASSUME NEW x \in DOMAIN b
               PROVE  \E y \in DOMAIN b : /\ group[b[x]] = b[y] /\ Place(b, group[b[x]]) = y
                                          /\ x \in Starts(b) => LastOf(b, x, y)
    OBVIOUS
  <2>1. PICK y \in DOMAIN b : group[b[x]] = b[y] /\ (x \in Starts(b) => LastOf(b, x, y))
    <3>1. CASE x \in Starts(b)
      <4>1. PICK y \in DOMAIN b : LastOf(b, x, y)
        BY LastExists
      <4>. QED
        BY <3>1, <4>1 DEF Ringed, RingIn
    <3>2. CASE x \notin Starts(b)
      <4>1. x > 1 /\ x - 1 \in DOMAIN b
        BY <1>1, <3>2 DEF Starts
      <4>. QED
        BY <3>2, <4>1 DEF Ringed, RingIn
    <3>. QED
      BY <3>1, <3>2
  <2>2. b[y] \in Elems(b)
    BY DEF Elems
  <2>3. Place(b, b[y]) \in DOMAIN b /\ b[Place(b, b[y])] = b[y]
    BY <1>1, <2>2, PlaceIs
  <2>4. Place(b, b[y]) = y
    BY <2>3 DEF Distinct
  <2>. QED
    BY <2>1, <2>4
<1>3. F \in [Nat -> Nat]
  <2>1. \A x \in Nat : x > Len(b) \/ x = 0 \/ x \in DOMAIN b
    BY <1>1
  <2>2. \A x \in DOMAIN b : Place(b, group[b[x]]) + 1 \in Nat
    BY <1>1, <1>2
  <2>. QED
    BY <2>1, <2>2
<1>4. \E f : f = [i \in I |-> Next_(f, i)]
  <2>1. 1 \in Nat
    OBVIOUS
  <2> HIDE DEF F
  <2>2. PICK f \in [0..Len(b) -> Nat] : Iterates(f, Len(b), 1, F)
    BY <1>1, <1>3, <2>1, IterationExists
  <2>3. \A i \in I : f[i] = IF i = 0 THEN 1 ELSE F[f[i - 1]]
    BY <2>2 DEF Iterates
  <2> DEFINE Q == {i \in Nat : i \in I => f[i] > 0}
  <2>4. Q = Nat
    <3>1. 0 \in Q
      BY <1>1, <2>3
    <3>2. ASSUME NEW i \in Q
          PROVE  i + 1 \in Q
      <4> SUFFICES ASSUME i + 1 \in I
                   PROVE  f[i + 1] > 0
        OBVIOUS
      <4>1. i \in I /\ f[i] > 0 /\ f[i] \in Nat /\ f[i + 1] = F[f[i]]
        BY <1>1, <2>2, <2>3
      <4>2. CASE f[i] > Len(b)
        BY <1>1, <4>1, <4>2 DEF F
      <4>3. CASE f[i] <= Len(b)
        <5>1. f[i] \in DOMAIN b
          BY <1>1, <4>1, <4>3
        <5>2. Place(b, group[b[f[i]]]) \in Nat
          BY <1>1, <1>2, <5>1
        <5>. QED
          BY <1>1, <4>1, <4>3, <5>2 DEF F
      <4>. QED
        BY <1>1, <4>1, <4>2, <4>3
    <3> HIDE DEF Q
    <3>3. Q \in SUBSET Nat
      BY DEF Q
    <3>. QED
      BY <3>1, <3>2, <3>3, SetInduction, Zenon
  <2>5. \A i \in I : f[i] = Next_(f, i)
    <3> SUFFICES ASSUME NEW i \in I
                 PROVE  f[i] = Next_(f, i)
      OBVIOUS
    <3>1. CASE i = 0
      BY <2>3, <3>1
    <3>2. CASE i # 0
      <4>1. i - 1 \in I /\ i - 1 \in Nat /\ f[i] = F[f[i - 1]]
        BY <1>1, <2>3, <3>2
      <4>2. f[i - 1] \in Nat /\ f[i - 1] > 0
        BY <2>2, <2>4, <4>1
      <4>3. F[f[i - 1]] = IF f[i - 1] > Len(b) THEN f[i - 1] ELSE Place(b, group[b[f[i - 1]]]) + 1
        BY <4>2 DEF F
      <4>. QED
        BY <3>2, <4>1, <4>3 DEF last_in_group
    <3>. QED
      BY <3>1, <3>2
  <2>6. f = [i \in I |-> f[i]]
    BY <2>2
  <2>7. f = [i \in I |-> Next_(f, i)]
    BY <2>5, <2>6
  <2>. QED
    BY <2>7
<1>5. at = [i \in I |-> Next_(at, i)]
  BY <1>4, Zenon
<1>6. visits(b) = {at[i] : i \in I}
  BY DEF visits
<1>7. \A i \in I : at[i] = Next_(at, i)
  BY <1>5
<1> HIDE DEF at, F
<1> DEFINE Met(i) == /\ at[i] = Len(b) + 1 \/ at[i] \in Starts(b)
                     /\ at[i] = Len(b) + 1 \/ at[i] >= i + 1
                     /\ \A s \in Starts(b) : s < at[i] => \E k \in I : s = at[k]
           P == {i \in Nat : i \in I => Met(i)}
<1>8. 0 \in P
  <2>1. at[0] = 1
    BY <1>1, <1>7
  <2>2. Met(0)
    BY <1>1, <2>1 DEF Starts
  <2>. QED
    BY <2>2
<1>9. ASSUME NEW i \in P
      PROVE  i + 1 \in P
  <2> SUFFICES ASSUME i + 1 \in I
               PROVE  Met(i + 1)
    OBVIOUS
  <2>1. i \in I /\ Met(i) /\ i + 1 # 0 /\ (i + 1) - 1 = i
    BY <1>1
  <2>2. at[i + 1] = IF at[i] > Len(b) THEN at[i] ELSE Place(b, last_in_group(b[at[i]])) + 1
    BY <1>7, <2>1
  <2>3. CASE at[i] = Len(b) + 1
    <3>1. at[i + 1] = at[i]
      BY <1>1, <2>2, <2>3
    <3>. QED
      BY <2>1, <2>3, <3>1
  <2>4. CASE at[i] # Len(b) + 1
    <3>1. at[i] \in Starts(b) /\ at[i] \in DOMAIN b /\ at[i] >= i + 1
      BY <2>1, <2>4 DEF Starts
    <3>2. PICK x \in DOMAIN b : x = at[i]
      BY <3>1
    <3>3. PICK y \in DOMAIN b : Place(b, group[b[x]]) = y /\ LastOf(b, x, y)
      BY <1>2, <3>1, <3>2
    <3>4. at[i + 1] = y + 1
      BY <1>1, <2>2, <3>2, <3>3 DEF last_in_group
    <3>5. x <= y
      BY <3>3 DEF LastOf
    <3>6. y + 1 = Len(b) + 1 \/ y + 1 \in Starts(b)
      <4>1. ASSUME y # Len(b)
            PROVE  y + 1 \in Starts(b)
        <5>1. y + 1 \in DOMAIN b /\ (y + 1) - 1 = y
          BY <1>1, <4>1
        <5>. QED
          BY <3>3, <5>1 DEF LastOf, Starts
      <4>. QED
        BY <4>1
    <3>7. ASSUME NEW s \in Starts(b), s < y + 1
          PROVE  \E k \in I : s = at[k]
      <4>1. CASE s < x
        BY <2>1, <3>2, <4>1
      <4>2. CASE s = x
        BY <2>1, <3>2, <4>2
      <4>3. CASE s > x
        <5>1. s \in DOMAIN b /\ s - 1 \in DOMAIN b /\ x <= s - 1 /\ s - 1 <= y /\ x <= s /\ s <= y /\ s > 1
          BY <1>1, <3>7, <4>3 DEF Starts
        <5>2. Key[b[x]] = Key[b[y]]
          BY <3>3 DEF LastOf
        <5>3. Key[b[s]] = Key[b[x]] /\ Key[b[s - 1]] = Key[b[x]]
          BY <5>1, <5>2 DEF Together
        <5>. QED
          BY <5>1, <5>3 DEF Starts
      <4>4. s \in Nat
        BY <1>1 DEF Starts
      <4>. QED
        BY <1>1, <4>1, <4>2, <4>3, <4>4
    <3>8. y + 1 >= (i + 1) + 1
      BY <1>1, <3>1, <3>2, <3>5
    <3>. QED
      BY <3>4, <3>6, <3>7, <3>8
  <2>. QED
    BY <2>3, <2>4
<1>10. \A i \in I : Met(i)
  <2> HIDE DEF Met
  <2>1. P \in SUBSET Nat
    OBVIOUS
  <2> HIDE DEF P
  <2>2. P = Nat
    BY <1>8, <1>9, <2>1, SetInduction, Zenon
  <2>3. \A i \in I : i \in Nat
    BY <1>1
  <2>. QED
    BY <2>2, <2>3 DEF P
<1>11. ASSUME NEW s \in Starts(b)
       PROVE  s \in visits(b) /\ s <= Len(b)
  <2>1. Len(b) \in I /\ s <= Len(b) /\ s \in Nat
    BY <1>1 DEF Starts
  <2>2. at[Len(b)] = Len(b) + 1
    <3>1. at[Len(b)] = Len(b) + 1 \/ (at[Len(b)] \in Starts(b) /\ at[Len(b)] >= Len(b) + 1)
      BY <1>10, <2>1
    <3>. QED
      BY <1>1, <3>1 DEF Starts
  <2>3. s < at[Len(b)]
    BY <1>1, <2>1, <2>2
  <2>. QED
    BY <1>6, <1>10, <2>1, <2>3
<1>12. ASSUME NEW s \in visits(b), s <= Len(b)
       PROVE  s \in Starts(b)
  <2>1. PICK i \in I : s = at[i]
    BY <1>6
  <2>2. s = Len(b) + 1 \/ s \in Starts(b)
    BY <1>10, <2>1
  <2>. QED
    BY <1>1, <1>12, <2>2
<1>. QED
  BY <1>11, <1>12

\* Without groups priv_find looks at every element of the bucket.
LEMMA VisitsAll ==
  ASSUME ~kind.multi, NEW b \in Seq(Nodes), Distinct(b)
  PROVE  visits(b) = 1..(Len(b) + 1)
<1> DEFINE Next_(at, i) == IF i = 0 THEN 1
                           ELSE IF at[i - 1] > Len(b) THEN at[i - 1]
                           ELSE Place(b, last_in_group(b[at[i - 1]])) + 1
           I  == 0..Len(b)
           up == [i \in I |-> i + 1]
           at == CHOOSE f : f = [i \in I |-> Next_(f, i)]
<1>1. Len(b) \in Nat /\ DOMAIN b = 1..Len(b)
  OBVIOUS
<1>2. \A x \in 1..Len(b) : Place(b, last_in_group(b[x])) = x
  <2> SUFFICES ASSUME NEW x \in 1..Len(b)
               PROVE  Place(b, b[x]) = x
    BY DEF last_in_group
  <2>1. b[x] \in Elems(b)
    BY <1>1 DEF Elems
  <2>2. Place(b, b[x]) \in 1..Len(b) /\ b[Place(b, b[x])] = b[x]
    BY <2>1, PlaceIs
  <2>. QED
    BY <1>1, <2>2 DEF Distinct
<1>3. up = [i \in I |-> Next_(up, i)]
  <2>1. ASSUME NEW i \in I
        PROVE  i + 1 = Next_(up, i)
    <3>1. CASE i = 0
      BY <3>1
    <3>2. CASE i # 0
      <4>1. i - 1 \in I /\ up[i - 1] = i /\ i \in 1..Len(b)
        BY <1>1, <3>2
      <4>. QED
        BY <1>1, <1>2, <3>2, <4>1
    <3>. QED
      BY <3>1, <3>2
  <2>. QED
    BY <2>1
<1>4. at = [i \in I |-> Next_(at, i)]
  BY <1>3, Zenon
<1> DEFINE P == {i \in Nat : i \in I => at[i] = i + 1}
<1>5. P = Nat
  <2> HIDE DEF at
  <2>1. 0 \in P
    BY <1>1, <1>4
  <2>2. ASSUME NEW i \in P
        PROVE  i + 1 \in P
    <3> SUFFICES ASSUME i + 1 \in I
                 PROVE  at[i + 1] = i + 2
      OBVIOUS
    <3>1. i \in I /\ at[i] = i + 1 /\ i + 1 \in 1..Len(b) /\ i + 1 - 1 = i /\ i + 1 # 0
      BY <1>1
    <3>2. at[i + 1] = Next_(at, i + 1)
      BY <1>4
    <3>. QED
      BY <1>1, <1>2, <3>1, <3>2
  <2> HIDE DEF P
  <2>. QED
    BY <2>1, <2>2, SetInduction, Zenon DEF P
<1>6. \A i \in I : at[i] = i + 1
  BY <1>1, <1>5
<1>7. visits(b) = {at[i] : i \in I}
  BY DEF visits
<1> HIDE DEF at
<1>8. {at[i] : i \in I} = 1..(Len(b) + 1)
  <2>1. ASSUME NEW x \in 1..(Len(b) + 1)
        PROVE  x \in {at[i] : i \in I}
    <3>1. x - 1 \in I /\ at[x - 1] = x
      BY <1>1, <1>6
    <3>. QED
      BY <3>1
  <2>2. ASSUME NEW x \in {at[i] : i \in I}
        PROVE  x \in 1..(Len(b) + 1)
    BY <1>1, <1>6
  <2>. QED
    BY <2>1, <2>2
<1>. QED
  BY <1>7, <1>8

\* past_equal() finds the end of the equal elements.
LEMMA EqualsEnd ==
  ASSUME ~kind.multi, NEW b \in Seq(Nodes), NEW p \in 1..Len(b), NEW key, NEW h
  PROVE  LET q == past_equal(b, p, key, h)
         IN  /\ q \in (p + 1)..(Len(b) + 1)
             /\ q <= Len(b) => ~priv_is_value_equal_to_key(b[q], key, h)
             /\ \A k \in (p + 1)..(q - 1) : priv_is_value_equal_to_key(b[k], key, h)
<1> DEFINE Eq(k) == priv_is_value_equal_to_key(b[k], key, h)
           S == {j \in (p + 1)..(Len(b) + 1) : j <= Len(b) => ~Eq(j)}
<1>1. Len(b) \in Nat
  OBVIOUS
<1>2. S \in SUBSET Nat /\ Len(b) + 1 \in S
  BY <1>1
<1>3. PICK q \in S : \A j \in S : q <= j
  <2> HIDE DEF S
  <2>. QED
    BY <1>2, LeastElement
<1>4. \A k \in (p + 1)..(q - 1) : Eq(k)
  <2>1. ASSUME NEW k \in (p + 1)..(q - 1), ~Eq(k)
        PROVE  FALSE
    <3>1. k \in S
      BY <1>1, <1>3, <2>1
    <3>. QED
      BY <1>1, <1>3, <3>1
  <2>. QED
    BY <2>1
<1>5. \E j \in (p + 1)..(Len(b) + 1) : /\ j <= Len(b) => ~Eq(j)
                                       /\ \A k \in (p + 1)..(j - 1) : Eq(k)
  BY <1>3, <1>4
<1>. QED
  BY <1>5, Zenon DEF past_equal

\* Equal elements stand together, and with optimize_multikey in the order that
\* their links tell.
Grouped(K, g, b) == Together(b) /\ (K.multi => Ringed(g, b))

\* The elements of b with the key are the ones from p to q - 1.
RangeOf(b, p, q, key) == /\ p \in 1..Len(b) /\ q \in (p + 1)..(Len(b) + 1)
                        /\ \A x \in DOMAIN b : Key[b[x]] = key <=> p <= x /\ x < q

\* priv_find finds the first element with the key.
LEMMA FindsFirst ==
  ASSUME kind \in Kinds, NEW b \in Seq(Nodes), Distinct(b), Grouped(kind, group, b), NEW key, NEW h,
         \A x \in DOMAIN b : Key[b[x]] = key => (kind.store => stored[b[x]] = h),
         NEW p, p = priv_find(b, key, h)
  PROVE  /\ p \in 0..Len(b)
         /\ p = 0 => \A x \in DOMAIN b : Key[b[x]] # key
         /\ p # 0 => p \in Starts(b) /\ Key[b[p]] = key
<1> DEFINE found == {i \in visits(b) : i <= Len(b) /\ priv_is_value_equal_to_key(b[i], key, h)}
<1>1. Len(b) \in Nat /\ DOMAIN b = 1..Len(b) /\ Together(b)
  BY DEF Grouped
<1>2. \A i \in DOMAIN b : priv_is_value_equal_to_key(b[i], key, h) <=> Key[b[i]] = key
  BY DEF priv_is_value_equal_to_key
<1>3. p = IF found = {} THEN 0 ELSE CHOOSE i \in found : \A j \in found : i <= j
  BY DEF priv_find
<1>4. /\ found \subseteq DOMAIN b
      /\ \A i \in found : Key[b[i]] = key
      /\ \A i \in Starts(b) : Key[b[i]] = key => i \in found
  <2>1. CASE kind.multi
    <3>1. Ringed(group, b)
      BY <2>1 DEF Grouped
    <3>2. {x \in visits(b) : x <= Len(b)} = Starts(b)
      BY <1>1, <2>1, <3>1, VisitsStarts
    <3>3. found = {i \in Starts(b) : priv_is_value_equal_to_key(b[i], key, h)}
      BY <3>2
    <3>4. Starts(b) \subseteq DOMAIN b
      BY DEF Starts
    <3>. QED
      BY <1>2, <3>3, <3>4
  <2>2. CASE ~kind.multi
    <3>1. visits(b) = 1..(Len(b) + 1)
      BY <2>2, VisitsAll
    <3>2. found = {i \in DOMAIN b : priv_is_value_equal_to_key(b[i], key, h)}
      BY <1>1, <3>1
    <3>3. Starts(b) \subseteq DOMAIN b
      BY DEF Starts
    <3>. QED
      BY <1>2, <3>2, <3>3
  <2>. QED
    BY <2>1, <2>2
<1> HIDE DEF found
<1>5. ASSUME NEW x \in DOMAIN b, Key[b[x]] = key
      PROVE  \E i \in Starts(b) : Key[b[i]] = key /\ i <= x
  <2> DEFINE T == {i \in DOMAIN b : Key[b[i]] = key}
  <2>1. T \in SUBSET Nat /\ x \in T
    BY <1>1, <1>5
  <2>2. PICK i \in T : \A j \in T : i <= j
    <3> HIDE DEF T
    <3>. QED
      BY <2>1, LeastElement
  <2>3. i \in Starts(b)
    <3>1. ASSUME i > 1
          PROVE  Key[b[i - 1]] # key
      <4>1. i - 1 \in DOMAIN b /\ ~(i <= i - 1)
        BY <1>1, <3>1
      <4>. QED
        BY <2>2, <4>1
    <3>. QED
      BY <3>1 DEF Starts
  <2>. QED
    BY <2>1, <2>2, <2>3
<1>6. CASE found = {}
  BY <1>1, <1>3, <1>4, <1>5, <1>6
<1>7. CASE found # {}
  <2>1. found \in SUBSET Nat
    BY <1>1, <1>4
  <2>2. \E i \in found : \A j \in found : i <= j
    BY <1>7, <2>1, LeastElement
  <2>3. p \in found /\ \A j \in found : p <= j
    BY <1>3, <1>7, <2>2
  <2>4. p \in DOMAIN b /\ Key[b[p]] = key
    BY <1>4, <2>3
  <2>5. PICK i \in Starts(b) : Key[b[i]] = key /\ i <= p
    BY <1>5, <2>4
  <2>6. i = p
    <3>1. p <= i
      BY <1>4, <2>3, <2>5
    <3>. QED
      BY <1>1, <2>4, <2>5, <3>1 DEF Starts
  <2>. QED
    BY <1>1, <2>4, <2>5, <2>6
<1>. QED
  BY <1>6, <1>7

\* past_equal finds the end of the elements with the key.
LEMMA FindsEnd ==
  ASSUME kind \in Kinds, NEW b \in Seq(Nodes), Distinct(b), Grouped(kind, group, b), NEW key, NEW h,
         \A x \in DOMAIN b : Key[b[x]] = key => (kind.store => stored[b[x]] = h),
         NEW p \in Starts(b), Key[b[p]] = key, NEW q, q = past_equal(b, p, key, h)
  PROVE  RangeOf(b, p, q, key)
<1>1. Len(b) \in Nat /\ DOMAIN b = 1..Len(b) /\ Together(b) /\ p \in DOMAIN b /\ p \in Nat
  BY DEF Grouped, Starts
<1>2. \A i \in DOMAIN b : priv_is_value_equal_to_key(b[i], key, h) <=> Key[b[i]] = key
  BY DEF priv_is_value_equal_to_key
<1>3. /\ q \in (p + 1)..(Len(b) + 1)
      /\ q <= Len(b) => Key[b[q]] # key
      /\ Key[b[q - 1]] = key
  <2>1. CASE kind.multi
    <3>1. PICK y \in DOMAIN b : LastOf(b, p, y)
      BY <1>1, LastExists
    <3>2. group[b[p]] = b[y]
      BY <1>1, <2>1, <3>1 DEF Grouped, Ringed, RingIn
    <3>3. Place(b, b[y]) \in DOMAIN b /\ b[Place(b, b[y])] = b[y]
      <4>1. b[y] \in Elems(b)
        BY DEF Elems
      <4>. QED
        BY <1>1, <4>1, PlaceIs
    <3>4. Place(b, b[y]) = y
      BY <3>3 DEF Distinct
    <3>5. q = y + 1
      BY <2>1, <3>2, <3>4 DEF past_equal, last_in_group
    <3>6. p <= y /\ Key[b[y]] = key /\ (y + 1 \in DOMAIN b => Key[b[y + 1]] # key)
      BY <3>1 DEF LastOf
    <3>. QED
      BY <1>1, <3>5, <3>6
  <2>2. CASE ~kind.multi
    <3>1. /\ q \in (p + 1)..(Len(b) + 1)
          /\ q <= Len(b) => ~priv_is_value_equal_to_key(b[q], key, h)
          /\ \A k \in (p + 1)..(q - 1) : priv_is_value_equal_to_key(b[k], key, h)
      BY <1>1, <2>2, EqualsEnd
    <3>2. q <= Len(b) => q \in DOMAIN b
      BY <1>1, <3>1
    <3>3. q - 1 = p \/ (q - 1 \in (p + 1)..(q - 1) /\ q - 1 \in DOMAIN b)
      BY <1>1, <3>1
    <3>. QED
      BY <1>2, <3>1, <3>2, <3>3
  <2>. QED
    BY <2>1, <2>2
<1>4. ASSUME NEW x \in DOMAIN b
      PROVE  Key[b[x]] = key <=> p <= x /\ x < q
  <2>1. q - 1 \in DOMAIN b /\ q \in Nat /\ x \in Nat /\ p <= q - 1
    BY <1>1, <1>3
  <2>2. CASE p <= x /\ x < q
    <3>1. x <= q - 1
      BY <2>1, <2>2
    <3>. QED
      BY <1>1, <1>3, <2>1, <2>2, <3>1 DEF Together
  <2>3. CASE x < p
    <3>1. ASSUME Key[b[x]] = key
          PROVE  FALSE
      <4>1. p - 1 \in DOMAIN b /\ x <= p - 1 /\ p - 1 <= p /\ p > 1
        BY <1>1, <2>3
      <4>2. Key[b[p - 1]] = Key[b[x]]
        BY <1>1, <3>1, <4>1 DEF Together
      <4>. QED
        BY <3>1, <4>1, <4>2 DEF Starts
    <3>. QED
      BY <1>1, <2>3, <3>1
  <2>4. CASE x >= q
    <3>1. q \in DOMAIN b /\ p <= q /\ q <= x /\ q <= Len(b)
      BY <1>1, <1>3, <2>4
    <3>2. Key[b[x]] # key
      BY <1>1, <1>3, <3>1 DEF Together
    <3>. QED
      BY <2>1, <2>4, <3>2
  <2>. QED
    BY <2>1, <2>2, <2>3, <2>4, <1>1
<1>. QED
  BY <1>1, <1>3, <1>4 DEF RangeOf
-----------------------------------------------------------------------------
(* Splitting groups, for which they may begin anywhere.                    *)

\* Groups may begin at S, and the first of them does at 1.
StartSet(b, S) == S \subseteq DOMAIN b /\ (1 \in DOMAIN b => 1 \in S)

\* The group of the element at x begins at f.
BeginsAt(S, x, f) == f \in S /\ f <= x /\ \A z \in (f + 1)..x : z \notin S

\* Every position belongs to the group of a first position.
LEMMA BeginExists ==
  ASSUME NEW b \in Seq(Nodes), NEW S, StartSet(b, S), NEW x \in DOMAIN b
  PROVE  \E f \in DOMAIN b : BeginsAt(S, x, f)
<1>1. Len(b) \in Nat /\ DOMAIN b = 1..Len(b) /\ S \subseteq DOMAIN b /\ x \in Nat
  BY DEF StartSet
<1> DEFINE P == {i \in Nat : i + 1 \in DOMAIN b => \E f \in DOMAIN b : BeginsAt(S, i + 1, f)}
<1>2. 0 \in P
  <2> SUFFICES ASSUME 0 + 1 \in DOMAIN b
               PROVE  \E f \in DOMAIN b : BeginsAt(S, 0 + 1, f)
    OBVIOUS
  <2>1. 0 + 1 = 1 /\ 1 \in DOMAIN b /\ 1 \in S /\ 1 <= 1 /\ (1 + 1)..1 = {}
    BY DEF StartSet
  <2>2. BeginsAt(S, 0 + 1, 1)
    BY <2>1 DEF BeginsAt
  <2>. QED
    BY <2>1, <2>2
<1>3. ASSUME NEW i \in P
      PROVE  i + 1 \in P
  <2> SUFFICES ASSUME (i + 1) + 1 \in DOMAIN b
               PROVE  \E f \in DOMAIN b : BeginsAt(S, (i + 1) + 1, f)
    OBVIOUS
  <2>1. i \in Nat /\ i + 1 \in DOMAIN b
    BY <1>1
  <2>2. CASE (i + 1) + 1 \in S
    <3>1. (((i + 1) + 1) + 1)..((i + 1) + 1) = {} /\ (i + 1) + 1 <= (i + 1) + 1
      BY <2>1
    <3>2. BeginsAt(S, (i + 1) + 1, (i + 1) + 1)
      BY <2>2, <3>1 DEF BeginsAt
    <3>. QED
      BY <3>2
  <2>3. CASE (i + 1) + 1 \notin S
    <3>1. PICK f \in DOMAIN b : BeginsAt(S, i + 1, f)
      BY <2>1
    <3>2. f \in Nat /\ f <= i + 1
      BY <1>1, <3>1 DEF BeginsAt
    <3>3. f <= (i + 1) + 1 /\ \A z \in (f + 1)..((i + 1) + 1) : z \in (f + 1)..(i + 1) \/ z = (i + 1) + 1
      BY <2>1, <3>2
    <3>4. BeginsAt(S, (i + 1) + 1, f)
      BY <2>3, <3>1, <3>3 DEF BeginsAt
    <3>. QED
      BY <3>4
  <2>. QED
    BY <2>2, <2>3
<1>4. P \in SUBSET Nat
  OBVIOUS
<1> HIDE DEF P
<1>5. P = Nat
  BY <1>2, <1>3, <1>4, SetInduction, Zenon
<1>6. x - 1 \in Nat /\ (x - 1) + 1 = x
  BY <1>1
<1>. QED
  BY <1>5, <1>6 DEF P

\* A position belongs to one group only.
LEMMA BeginsOnce ==
  ASSUME NEW S \in SUBSET Nat, NEW x \in Nat, NEW e, BeginsAt(S, x, e), NEW f, BeginsAt(S, x, f)
  PROVE  e = f
<1>1. e \in Nat /\ f \in Nat /\ e \in S /\ f \in S /\ e <= x /\ f <= x
  BY DEF BeginsAt
<1>2. ~(e < f) /\ ~(f < e)
  BY <1>1 DEF BeginsAt
<1>. QED
  BY <1>1, <1>2

\* And it ends somewhere.
LEMMA EndExists ==
  ASSUME NEW b \in Seq(Nodes), NEW S, NEW x \in DOMAIN b
  PROVE  \E y \in DOMAIN b : EndsAt(b, S, x, y)
<1>1. Len(b) \in Nat /\ DOMAIN b = 1..Len(b) /\ x \in Nat
  OBVIOUS
<1> DEFINE T == {y \in Nat : x <= y /\ (y + 1 \in DOMAIN b => y + 1 \in S)}
<1>2. T \in SUBSET Nat /\ Len(b) \in T
  BY <1>1
<1>3. PICK y \in T : \A z \in T : y <= z
  <2> HIDE DEF T
  <2>. QED
    BY <1>2, LeastElement
<1>4. y \in Nat /\ x <= y /\ y <= Len(b) /\ y \in DOMAIN b /\ (y + 1 \in DOMAIN b => y + 1 \in S)
  BY <1>1, <1>2, <1>3
<1>5. ASSUME NEW z \in (x + 1)..y
      PROVE  z \notin S
  <2>1. z - 1 \in Nat /\ x <= z - 1 /\ (z - 1) + 1 = z /\ ~(y <= z - 1) /\ z \in DOMAIN b
    BY <1>1, <1>4
  <2>2. z - 1 \notin T
    BY <1>3, <2>1
  <2>. QED
    BY <2>1, <2>2
<1>. QED
  BY <1>4, <1>5 DEF EndsAt

\* Where the next element is, and which elements are the first of a group.
LEMMA FirstIs ==
  ASSUME NEW b \in Seq(Nodes), Distinct(b), NEW S, StartSet(b, S), NEW g, Ring(g, b, S),
         NEW x \in DOMAIN b
  PROVE  /\ Place(b, b[x]) = x
         /\ next(b, b[x]) = NodeAt(b, x + 1)
         /\ is_first_in_group(b, g, b[x]) <=> x \in S
         /\ x \notin S => x - 1 \in DOMAIN b /\ g[b[x]] = b[x - 1] /\ Place(b, g[b[x]]) = x - 1
<1>1. Len(b) \in Nat /\ DOMAIN b = 1..Len(b) /\ S \subseteq DOMAIN b /\ (1 \in DOMAIN b => 1 \in S)
  BY DEF StartSet
<1>2. \A i \in DOMAIN b : Place(b, b[i]) = i /\ next(b, b[i]) = NodeAt(b, i + 1)
  <2> SUFFICES ASSUME NEW i \in DOMAIN b
               PROVE  Place(b, b[i]) = i
    BY DEF next
  <2>1. b[i] \in Elems(b)
    BY DEF Elems
  <2>2. Place(b, b[i]) \in DOMAIN b /\ b[Place(b, b[i])] = b[i]
    BY <1>1, <2>1, PlaceIs
  <2>. QED
    BY <2>2 DEF Distinct
<1>3. RingAt(g, b, S, x)
  BY DEF Ring
<1>4. CASE x \in S
  <2>1. PICK y \in DOMAIN b : EndsAt(b, S, x, y)
    BY EndExists
  <2>2. g[b[x]] = b[y] /\ x <= y
    BY <1>3, <1>4, <2>1 DEF RingAt, EndsAt
  <2>3. next(b, g[b[x]]) = NodeAt(b, y + 1)
    BY <1>2, <2>2
  <2>4. NodeAt(b, y + 1) # b[x]
    <3>1. CASE y + 1 \in DOMAIN b
      <4>1. y + 1 # x
        BY <1>1, <2>2
      <4>2. b[y + 1] # b[x]
        BY <3>1, <4>1 DEF Distinct
      <4>. QED
        BY <3>1, <4>2 DEF NodeAt
    <3>2. CASE y + 1 \notin DOMAIN b
      <4>1. b[x] \in Nodes
        BY <1>1, ElementOfSeq
      <4>2. End \notin Nodes
        BY ElementAssumption
      <4>. QED
        BY <3>2, <4>1, <4>2 DEF NodeAt
    <3>. QED
      BY <3>1, <3>2
  <2>. QED
    BY <1>2, <1>4, <2>3, <2>4 DEF is_first_in_group
<1>5. CASE x \notin S
  <2>1. x # 1
    BY <1>1, <1>5
  <2>2. x - 1 \in DOMAIN b /\ (x - 1) + 1 = x
    BY <1>1, <2>1
  <2>3. g[b[x]] = b[x - 1]
    BY <1>3, <1>5 DEF RingAt
  <2>4. next(b, g[b[x]]) = b[x]
    BY <1>2, <2>2, <2>3 DEF NodeAt
  <2>. QED
    BY <1>2, <1>5, <2>2, <2>3, <2>4 DEF is_first_in_group
<1>. QED
  BY <1>4, <1>5

\* get_first_in_group goes back to the first of the group.
LEMMA FirstInGroup ==
  ASSUME NEW b \in Seq(Nodes), Distinct(b), NEW S, StartSet(b, S), NEW g, Ring(g, b, S),
         NEW x \in DOMAIN b, NEW f \in DOMAIN b, BeginsAt(S, x, f)
  PROVE  get_first_in_group(b, g, b[x]) = b[f]
<1> DEFINE Up(u, i) == IF is_first_in_group(b, g, b[i]) THEN b[i] ELSE u[Place(b, g[b[i]])]
           begin(i) == CHOOSE e \in DOMAIN b : BeginsAt(S, i, e)
           W == [i \in DOMAIN b |-> b[begin(i)]]
           up == CHOOSE u : u = [i \in DOMAIN b |-> Up(u, i)]
<1>1. Len(b) \in Nat /\ DOMAIN b = 1..Len(b) /\ S \subseteq DOMAIN b /\ (1 \in DOMAIN b => 1 \in S)
      /\ S \in SUBSET Nat
  BY DEF StartSet
<1>2. \A i \in DOMAIN b : begin(i) \in DOMAIN b /\ BeginsAt(S, i, begin(i))
  BY BeginExists
<1>3. \A i \in DOMAIN b, e \in DOMAIN b : BeginsAt(S, i, e) => begin(i) = e
  BY <1>1, <1>2, BeginsOnce
<1> HIDE DEF begin
<1>4. \A u : \A i \in DOMAIN b : Up(u, i) = IF i \in S THEN b[i] ELSE u[i - 1]
  BY FirstIs
<1>5. \A i \in DOMAIN b : i \notin S => i - 1 \in DOMAIN b
  BY FirstIs
<1>6. \A i \in DOMAIN b : W[i] = Up(W, i)
  <2> SUFFICES ASSUME NEW i \in DOMAIN b
               PROVE  b[begin(i)] = Up(W, i)
    OBVIOUS
  <2>1. CASE i \in S
    <3>1. i <= i /\ (i + 1)..i = {}
      BY <1>1
    <3>2. BeginsAt(S, i, i)
      BY <2>1, <3>1 DEF BeginsAt
    <3>. QED
      BY <1>3, <1>4, <2>1, <3>2
  <2>2. CASE i \notin S
    <3>1. i - 1 \in DOMAIN b /\ Up(W, i) = W[i - 1] /\ W[i - 1] = b[begin(i - 1)]
      BY <1>4, <1>5, <2>2
    <3>2. BeginsAt(S, i - 1, begin(i - 1)) /\ begin(i - 1) \in DOMAIN b
      BY <1>2, <3>1
    <3> DEFINE e == begin(i - 1)
    <3>3. e \in S /\ e <= i - 1 /\ e <= i /\ \A z \in (e + 1)..i : z \in (e + 1)..(i - 1) \/ z = i
      BY <1>1, <3>1, <3>2 DEF BeginsAt
    <3>4. BeginsAt(S, i, e)
      BY <2>2, <3>2, <3>3 DEF BeginsAt
    <3>. QED
      BY <1>3, <3>1, <3>2, <3>4
  <2>. QED
    BY <2>1, <2>2
<1>7. W = [i \in DOMAIN b |-> Up(W, i)]
  BY <1>6
<1>8. up = [i \in DOMAIN b |-> Up(up, i)]
  BY <1>7, Zenon
<1>9. get_first_in_group(b, g, b[x]) = up[x]
  <2>1. Place(b, b[x]) = x
    BY FirstIs
  <2>. QED
    BY <2>1 DEF get_first_in_group
<1>10. \A i \in DOMAIN b : up[i] = IF i \in S THEN b[i] ELSE up[i - 1]
  BY <1>4, <1>8
<1>11. \A i \in DOMAIN b : W[i] = IF i \in S THEN b[i] ELSE W[i - 1]
  BY <1>4, <1>6
<1> HIDE DEF up, W
<1> DEFINE P == {i \in Nat : i + 1 \in DOMAIN b => up[i + 1] = W[i + 1]}
<1>12. 0 \in P
  <2>1. 0 + 1 = 1 /\ (1 \in DOMAIN b => 1 \in S)
    BY <1>1
  <2>. QED
    BY <1>10, <1>11, <2>1
<1>13. ASSUME NEW i \in P
       PROVE  i + 1 \in P
  <2> SUFFICES ASSUME (i + 1) + 1 \in DOMAIN b
               PROVE  up[(i + 1) + 1] = W[(i + 1) + 1]
    OBVIOUS
  <2>1. i + 1 \in DOMAIN b /\ ((i + 1) + 1) - 1 = i + 1 /\ up[i + 1] = W[i + 1]
    BY <1>1
  <2>. QED
    BY <1>10, <1>11, <2>1
<1>14. P \in SUBSET Nat
  OBVIOUS
<1> HIDE DEF P
<1>15. P = Nat
  BY <1>12, <1>13, <1>14, SetInduction, Zenon
<1>16. x - 1 \in Nat /\ (x - 1) + 1 = x
  BY <1>1
<1>17. up[x] = W[x]
  BY <1>15, <1>16 DEF P
<1>18. W[x] = b[f]
  BY <1>3 DEF W
<1>. QED
  BY <1>9, <1>17, <1>18
-----------------------------------------------------------------------------
(* Cutting groups in two.                                                  *)

\* The links of the groups that begin at S.
Chained(g, b, S) == /\ b \in Seq(Nodes) /\ Distinct(b) /\ StartSet(b, S)
                   /\ g \in [Nodes -> Memory] /\ Ring(g, b, S)

\* The links h, where groups begin at S and y, and g are those outside of b.
Splits(h, g, b, S, y) == /\ Chained(h, b, S \cup {y})
                         /\ \A n \in Nodes : n \notin Elems(b) => h[n] = g[n]

\* split_group cuts a group in two, and changes nothing but links in b.
LEMMA SplitRings ==
  ASSUME NEW b, NEW S, NEW g, Chained(g, b, S), NEW y \in DOMAIN b
  PROVE  Splits(split_group(b, g, b[y]), g, b, S, y)
<1>0. /\ b \in Seq(Nodes) /\ Distinct(b) /\ StartSet(b, S)
      /\ g \in [Nodes -> Memory] /\ Ring(g, b, S)
  BY DEF Chained
<1> DEFINE h == split_group(b, g, b[y])
<1>1. PICK f \in DOMAIN b : BeginsAt(S, y, f)
  BY <1>0, BeginExists
<1>2. get_first_in_group(b, g, b[y]) = b[f]
  BY <1>0, <1>1, FirstInGroup
<1>3. /\ \A x \in DOMAIN b : b[x] \in Nodes /\ b[x] \in Elems(b) /\ x \in Nat
      /\ DOMAIN b = 1..Len(b) /\ Len(b) \in Nat /\ S \subseteq DOMAIN b
  BY <1>0 DEF Elems, StartSet
<1>4. CASE b[f] = b[y]
  <2>1. f = y
    BY <1>0, <1>4 DEF Distinct
  <2>2. S \cup {y} = S
    BY <1>1, <2>1 DEF BeginsAt
  <2>3. h = g
    BY <1>2, <1>4 DEF split_group
  <2> QED
    BY <1>0, <2>2, <2>3 DEF Splits, Chained
<1>5. CASE b[f] # b[y]
  <2>1. f # y /\ f < y /\ f \in S /\ \A z \in (f + 1)..y : z \notin S
    BY <1>1, <1>3, <1>5 DEF BeginsAt
  <2>2. y \notin S
    BY <1>3, <2>1
  <2>3. g[b[y]] = b[y - 1] /\ y - 1 \in DOMAIN b
    <3>1. g[b[y]] = b[y - 1]
      BY <1>0, <2>2 DEF Ring, RingAt
    <3>2. y - 1 \in DOMAIN b
      BY <1>3, <2>1
    <3> QED
      BY <3>1, <3>2
  <2>4. h = [g EXCEPT ![b[f]] = g[b[y]], ![b[y]] = g[b[f]]]
    BY <1>2, <1>5 DEF split_group
  <2>5. b[f] \in Nodes /\ b[y] \in Nodes /\ g[b[f]] \in Memory /\ g[b[y]] \in Memory
    BY <1>0, <1>3
  <2>6. /\ h \in [Nodes -> Memory] /\ h[b[f]] = b[y - 1] /\ h[b[y]] = g[b[f]]
        /\ \A n \in Nodes : n # b[f] /\ n # b[y] => h[n] = g[n]
    BY <1>0, <1>5, <2>3, <2>4, <2>5
  <2>7. ASSUME NEW x \in DOMAIN b, x # f, x # y
        PROVE  h[b[x]] = g[b[x]]
    <3>1. b[x] # b[f] /\ b[x] # b[y]
      BY <1>0, <2>7 DEF Distinct
    <3> QED
      BY <1>3, <2>6, <3>1
  <2> DEFINE R == S \cup {y}
  <2> HIDE DEF h
  <2>8. ASSUME NEW x \in DOMAIN b
        PROVE  RingAt(h, b, R, x)
    <3>1. CASE x = f
      <4>1. ASSUME NEW z \in DOMAIN b, EndsAt(b, R, x, z)
            PROVE  h[b[x]] = b[z]
        <5>1. x <= z /\ (\A w \in (x + 1)..z : w \notin R) /\ (z + 1 \in DOMAIN b => z + 1 \in R)
          BY <4>1 DEF EndsAt
        <5>2. z < y
          BY <1>3, <2>1, <3>1, <5>1
        <5>3. z + 1 \in R
          BY <1>3, <5>1, <5>2
        <5>4. z + 1 = y
          BY <1>3, <2>1, <3>1, <5>1, <5>2, <5>3
        <5>5. z = y - 1
          BY <1>3, <5>4
        <5> QED
          BY <2>6, <3>1, <5>5
      <4>2. x \in R
        BY <2>1, <3>1
      <4> QED
        BY <4>1, <4>2 DEF RingAt
    <3>2. CASE x = y
      <4>1. ASSUME NEW z \in DOMAIN b, EndsAt(b, R, x, z)
            PROVE  h[b[x]] = b[z]
        <5>1. x <= z /\ (\A w \in (x + 1)..z : w \notin R) /\ (z + 1 \in DOMAIN b => z + 1 \in R)
          BY <4>1 DEF EndsAt
        <5>2. f <= z /\ z + 1 # y
          BY <1>3, <2>1, <3>2, <5>1
        <5>3. ASSUME NEW w \in (f + 1)..z
              PROVE  w \notin S
          BY <1>3, <2>1, <3>2, <5>1
        <5>4. EndsAt(b, S, f, z)
          BY <5>1, <5>2, <5>3 DEF EndsAt
        <5>5. g[b[f]] = b[z]
          BY <1>0, <2>1, <5>4 DEF Ring, RingAt
        <5> QED
          BY <2>6, <3>2, <5>5
      <4>2. x \in R
        BY <3>2
      <4> QED
        BY <4>1, <4>2 DEF RingAt
    <3>3. CASE x # f /\ x # y
      <4>1. h[b[x]] = g[b[x]] /\ (x \in R <=> x \in S)
        BY <2>7, <3>3
      <4>2. CASE x \in S
        <5>1. ASSUME NEW z \in DOMAIN b, EndsAt(b, R, x, z)
              PROVE  h[b[x]] = b[z]
          <6>1. x <= z /\ (\A w \in (x + 1)..z : w \notin R) /\ (z + 1 \in DOMAIN b => z + 1 \in R)
            BY <5>1 DEF EndsAt
          <6>2. ASSUME z + 1 = y
                PROVE  FALSE
            <7>1. x < y
              BY <1>3, <6>1, <6>2
            <7>2. x < f
              BY <1>3, <2>1, <3>3, <4>2, <7>1
            <7>3. f \in (x + 1)..z
              BY <1>3, <2>1, <6>2, <7>2
            <7> QED
              BY <2>1, <6>1, <7>3
          <6>3. EndsAt(b, S, x, z)
            BY <6>1, <6>2 DEF EndsAt
          <6> QED
            BY <1>0, <4>1, <4>2, <6>3 DEF Ring, RingAt
        <5> QED
          BY <4>1, <4>2, <5>1 DEF RingAt
      <4>3. CASE x \notin S
        BY <1>0, <4>1, <4>3 DEF Ring, RingAt
      <4> QED
        BY <4>2, <4>3
    <3> QED
      BY <3>1, <3>2, <3>3
  <2>9. Ring(h, b, S \cup {y})
    BY <2>8 DEF Ring
  <2>10. \A n \in Nodes : n \notin Elems(b) => h[n] = g[n]
    BY <1>3, <2>6
  <2>11. StartSet(b, S \cup {y})
    BY <1>0 DEF StartSet
  <2> HIDE DEF R
  <2> QED
    BY <1>0, <2>6, <2>9, <2>10, <2>11 DEF Splits, Chained, h
<1> QED
  BY <1>4, <1>5

\* Whole groups may be cut out.
LEMMA RingCutOut ==
  ASSUME NEW b, NEW c, NEW p, NEW q, CutOf(c, b, p, q), p < q, NEW S, StartSet(b, S), p \in S,
         q \in DOMAIN b => q \in S, NEW g, Ring(g, b, S),
         NEW R, R = {x \in DOMAIN c : (IF x < p THEN x ELSE x + (q - p)) \in S}
  PROVE  Ring(g, c, R)
<1>1. /\ DOMAIN b = 1..Len(b) /\ DOMAIN c = 1..Len(c) /\ Len(b) \in Nat /\ Len(c) \in Nat
      /\ p \in Nat /\ q \in Nat /\ p < q /\ Len(c) = Len(b) - (q - p) /\ 1 <= p
      /\ q <= Len(b) + 1 /\ S \subseteq DOMAIN b /\ (1 \in DOMAIN b => 1 \in S)
  BY DEF CutOf, StartSet
<1>2. \A i \in DOMAIN c : /\ i < p => i \in DOMAIN b /\ c[i] = b[i] /\ (i \in R <=> i \in S)
                          /\ i >= p => /\ i + (q - p) \in DOMAIN b /\ c[i] = b[i + (q - p)]
                                       /\ (i \in R <=> i + (q - p) \in S)
  <2>1. \A i \in DOMAIN c : c[i] = IF i < p THEN b[i] ELSE b[i + (q - p)]
    BY <1>1 DEF CutOf
  <2>2. \A i \in DOMAIN c : /\ i < p => i \in DOMAIN b
                            /\ i >= p => i + (q - p) \in DOMAIN b /\ ~(i < p)
    BY <1>1
  <2>3. \A i \in DOMAIN c : i \in R <=> (IF i < p THEN i ELSE i + (q - p)) \in S
    OBVIOUS
  <2> QED
    BY <2>1, <2>2, <2>3
<1>3. ASSUME p \in DOMAIN c
      PROVE  p \in R
  <2>1. p + (q - p) = q /\ q \in DOMAIN b
    BY <1>1, <1>3
  <2> QED
    BY <1>1, <1>2, <1>3, <2>1
<1>4. ASSUME NEW x \in DOMAIN c, x < p, x \in R, NEW y \in DOMAIN c, EndsAt(c, R, x, y)
      PROVE  g[c[x]] = c[y]
  <2>1. x <= y /\ (\A z \in (x + 1)..y : z \notin R) /\ (y + 1 \in DOMAIN c => y + 1 \in R)
    BY <1>4 DEF EndsAt
  <2>2. y < p
    BY <1>1, <1>3, <1>4, <2>1, SMTT(15)
  <2>3. ASSUME NEW z \in (x + 1)..y
        PROVE  z \notin S
    <3>1. z \in DOMAIN c /\ z < p
      BY <1>1, <2>2
    <3> QED
      BY <1>2, <2>1, <3>1
  <2>4. ASSUME y + 1 \in DOMAIN b
        PROVE  y + 1 \in S
    <3>1. CASE y + 1 = p
      BY <3>1
    <3>2. CASE y + 1 # p
      <4>1. y + 1 \in DOMAIN c /\ y + 1 < p
        BY <1>1, <2>2, <3>2
      <4> QED
        BY <1>2, <2>1, <4>1
    <3> QED
      BY <3>1, <3>2
  <2>5. EndsAt(b, S, x, y)
    BY <2>1, <2>3, <2>4 DEF EndsAt
  <2>6. x \in DOMAIN b /\ y \in DOMAIN b /\ c[x] = b[x] /\ c[y] = b[y] /\ x \in S
    BY <1>2, <1>4, <2>2
  <2> QED
    BY <2>5, <2>6 DEF Ring, RingAt
<1>5. ASSUME NEW x \in DOMAIN c, x < p, x \notin R
      PROVE  g[c[x]] = c[x - 1]
  <2>1. x \in DOMAIN b /\ c[x] = b[x] /\ x \notin S
    BY <1>2, <1>5
  <2>2. x - 1 \in DOMAIN c /\ x - 1 < p
    BY <1>1, <1>5, <2>1
  <2>3. c[x - 1] = b[x - 1]
    BY <1>2, <2>2
  <2> QED
    BY <2>1, <2>3 DEF Ring, RingAt
<1>6. ASSUME NEW x \in DOMAIN c, x >= p, x \in R, NEW y \in DOMAIN c, EndsAt(c, R, x, y)
      PROVE  g[c[x]] = c[y]
  <2> DEFINE v == x + (q - p)
             w == y + (q - p)
  <2>1. x <= y /\ (\A z \in (x + 1)..y : z \notin R) /\ (y + 1 \in DOMAIN c => y + 1 \in R)
    BY <1>6 DEF EndsAt
  <2>2. v <= w /\ y >= p /\ v \in Int /\ w \in Int
    BY <1>1, <1>6, <2>1
  <2>3. ASSUME NEW z \in (v + 1)..w
        PROVE  z \notin S
    <3>1. z - (q - p) \in (x + 1)..y /\ z - (q - p) \in DOMAIN c /\ z - (q - p) >= p
          /\ (z - (q - p)) + (q - p) = z
      BY <1>1, <1>6
    <3> QED
      BY <1>2, <2>1, <3>1
  <2>4. ASSUME w + 1 \in DOMAIN b
        PROVE  w + 1 \in S
    <3>1. y \in Nat /\ (y + 1) + (q - p) = w + 1 /\ y + 1 >= p
      BY <1>1, <2>2
    <3>2. w + 1 <= Len(b)
      BY <1>1, <2>4
    <3>3. y + 1 \in DOMAIN c
      BY <1>1, <3>1, <3>2
    <3> QED
      BY <1>2, <2>1, <3>1, <3>3
  <2>5. EndsAt(b, S, v, w)
    BY <2>2, <2>3, <2>4 DEF EndsAt
  <2>6. v \in DOMAIN b /\ w \in DOMAIN b /\ c[x] = b[v] /\ c[y] = b[w] /\ v \in S
    BY <1>2, <1>6, <2>2
  <2> HIDE DEF v, w
  <2> QED
    BY <2>5, <2>6 DEF Ring, RingAt
<1>7. ASSUME NEW x \in DOMAIN c, x >= p, x \notin R
      PROVE  g[c[x]] = c[x - 1]
  <2>1. x + (q - p) \in DOMAIN b /\ c[x] = b[x + (q - p)] /\ x + (q - p) \notin S
    BY <1>2, <1>7
  <2>2. x - 1 \in DOMAIN c /\ x - 1 >= p /\ (x - 1) + (q - p) = (x + (q - p)) - 1
    BY <1>1, <1>3, <1>7
  <2>3. c[x - 1] = b[(x + (q - p)) - 1]
    BY <1>2, <2>2
  <2> QED
    BY <2>1, <2>3 DEF Ring, RingAt
<1>8. ASSUME NEW x \in DOMAIN c
      PROVE  RingAt(g, c, R, x)
  <2>1. CASE x < p
    BY <1>4, <1>5, <2>1 DEF RingAt
  <2>2. CASE x >= p
    BY <1>6, <1>7, <2>2 DEF RingAt
  <2> QED
    BY <1>1, <2>1, <2>2
<1> QED
  BY <1>8 DEF Ring

\* Where keys begin in what remains of a bucket.
LEMMA CutStarts ==
  ASSUME NEW b, NEW c, NEW p, NEW q, CutOf(c, b, p, q), p < q, Together(b),
         ~(p \notin Starts(b) /\ q \in DOMAIN b /\ Key[b[q]] = Key[b[p]]),
         NEW S, S \subseteq DOMAIN b, Starts(b) \subseteq S, S \subseteq Starts(b) \cup {p, q},
         q \in DOMAIN b => q \in S
  PROVE  Starts(c) = {x \in DOMAIN c : (IF x < p THEN x ELSE x + (q - p)) \in S}
<1>1. /\ DOMAIN b = 1..Len(b) /\ DOMAIN c = 1..Len(c) /\ Len(b) \in Nat /\ Len(c) \in Nat
      /\ p \in Nat /\ q \in Nat /\ p < q /\ Len(c) = Len(b) - (q - p) /\ 1 <= p
      /\ q <= Len(b) + 1
  BY DEF CutOf
<1>2. \A i \in DOMAIN c : /\ i < p => i \in DOMAIN b /\ c[i] = b[i]
                          /\ i >= p => i + (q - p) \in DOMAIN b /\ c[i] = b[i + (q - p)]
  BY <1>1 DEF CutOf
<1>3. ASSUME NEW x \in DOMAIN c
      PROVE  x \in Starts(c) <=> (IF x < p THEN x ELSE x + (q - p)) \in S
  <2>1. CASE x < p
    <3>1. x \in S <=> x \in Starts(b)
      BY <1>1, <2>1
    <3>2. x \in DOMAIN b /\ c[x] = b[x] /\ (x > 1 => x - 1 \in DOMAIN c /\ x - 1 < p)
      BY <1>1, <1>2, <2>1
    <3>3. x > 1 => c[x - 1] = b[x - 1]
      BY <1>2, <3>2
    <3> QED
      BY <2>1, <3>1, <3>2, <3>3 DEF Starts
  <2>2. CASE x = p
    <3>1. x + (q - p) = q /\ q \in DOMAIN b /\ c[p] = b[q] /\ p \in DOMAIN b
      BY <1>1, <1>2, <2>2
    <3>2. ASSUME p > 1
          PROVE  Key[c[p]] # Key[c[p - 1]]
      <4>1. p - 1 \in DOMAIN c /\ p - 1 < p /\ p - 1 <= p /\ p <= q /\ p - 1 \in DOMAIN b
        BY <1>1, <2>2, <3>2
      <4>2. c[p - 1] = b[p - 1]
        BY <1>2, <4>1
      <4>3. ASSUME Key[b[q]] = Key[b[p - 1]]
            PROVE  FALSE
        <5>1. Key[b[p]] = Key[b[p - 1]]
          BY <3>1, <4>1, <4>3 DEF Together
        <5> QED
          BY <3>1, <3>2, <4>3, <5>1 DEF Starts
      <4> QED
        BY <3>1, <4>2, <4>3
    <3> QED
      BY <2>2, <3>1, <3>2, <1>1 DEF Starts
  <2>3. CASE x > p
    <3> DEFINE v == x + (q - p)
    <3>1. v \in DOMAIN b /\ c[x] = b[v] /\ v # p /\ v # q /\ v > 1 /\ x > 1
          /\ x - 1 \in DOMAIN c /\ x - 1 >= p /\ (x - 1) + (q - p) = v - 1
      BY <1>1, <1>2, <2>3
    <3>2. v \in S <=> v \in Starts(b)
      BY <3>1
    <3>3. c[x - 1] = b[v - 1]
      BY <1>2, <3>1
    <3>4. ~(x < p)
      BY <1>1, <2>3
    <3> HIDE DEF v
    <3>5. x \in Starts(c) <=> v \in S
      BY <3>1, <3>2, <3>3 DEF Starts
    <3> QED
      BY <3>4, <3>5 DEF v
  <2> QED
    BY <1>1, <2>1, <2>2, <2>3
<1>4. Starts(c) \subseteq DOMAIN c
  BY DEF Starts
<1> QED
  BY <1>3, <1>4

\* priv_erase_from_single_bucket leaves whole groups, unless it takes the middle of one.
LEMMA RangeErases ==
  ASSUME NEW b, NEW c, NEW p, NEW q, CutOf(c, b, p, q), p < q, Together(b), Distinct(b),
         NEW g \in [Nodes -> Memory], Ringed(g, b),
         ~(p \notin Starts(b) /\ q \in DOMAIN b /\ Key[b[q]] = Key[b[p]]),
         NEW h, h = groups_after_range(b, g, p, q)
  PROVE  /\ Ringed(h, c)
         /\ h \in [Nodes -> Memory]
         /\ \A n \in Nodes : n \notin Elems(b) => h[n] = g[n]
<1>1. /\ b \in Seq(Nodes) /\ c \in Seq(Nodes) /\ DOMAIN b = 1..Len(b) /\ Len(b) \in Nat
      /\ p \in DOMAIN b /\ q \in Nat /\ p \in Nat /\ q <= Len(b) + 1
  BY DEF CutOf
<1> DEFINE Z == Starts(b)
<1>2. StartSet(b, Z) /\ \A x \in DOMAIN b : StartSet(b, Z \cup {x})
  BY <1>1 DEF StartSet, Starts
<1>3. Ring(g, b, Z)
  BY <1>1, RingInIs DEF Ring, Ringed
<1>4. is_first_in_group(b, g, b[p]) <=> p \in Z
  BY <1>1, <1>2, <1>3, FirstIs
<1>5. /\ q \notin DOMAIN b => NodeAt(b, q) = End
      /\ q \in DOMAIN b => NodeAt(b, q) = b[q] /\ NodeAt(b, q) # End
  BY <1>1, ElementAssumption DEF NodeAt
<1> DEFINE Holds(k, S) == /\ StartSet(b, S) /\ p \in S /\ (q \in DOMAIN b => q \in S)
                          /\ Z \subseteq S /\ S \subseteq Z \cup {p, q}
                          /\ Ring(k, b, S) /\ k \in [Nodes -> Memory]
                          /\ \A n \in Nodes : n \notin Elems(b) => k[n] = g[n]
<1>6. ASSUME NEW S, Holds(h, S)
      PROVE  Ringed(h, c)
  <2> DEFINE R == {x \in DOMAIN c : (IF x < p THEN x ELSE x + (q - p)) \in S}
  <2>1. Ring(h, c, R)
    BY <1>6, RingCutOut
  <2>2. S \subseteq DOMAIN b
    BY <1>6 DEF StartSet
  <2>3. Starts(c) = R
    BY <1>6, <2>2, CutStarts
  <2>4. Together(c)
    BY TogetherCut
  <2> HIDE DEF R
  <2> QED
    BY <1>1, <2>1, <2>3, <2>4, RingInIs DEF Ring, Ringed
<1>7. CASE p \in Z /\ q \notin DOMAIN b
  <2>1. h = g
    BY <1>4, <1>5, <1>7 DEF groups_after_range
  <2>2. Holds(h, Z)
    BY <1>2, <1>3, <1>7, <2>1
  <2> QED
    BY <1>6, <2>2
<1>8. CASE p \in Z /\ q \in DOMAIN b
  <2>1. h = split_group(b, g, b[q])
    BY <1>4, <1>5, <1>8 DEF groups_after_range
  <2>2. Chained(g, b, Z)
    BY <1>1, <1>2, <1>3 DEF Chained
  <2>3. Splits(h, g, b, Z, q)
    BY <1>8, <2>1, <2>2, SplitRings
  <2>4. Holds(h, Z \cup {q})
    BY <1>8, <2>3 DEF Splits, Chained
  <2> QED
    BY <1>6, <2>4
<1> DEFINE k == split_group(b, g, b[p])
<1>9. /\ Ring(k, b, Z \cup {p}) /\ k \in [Nodes -> Memory] /\ StartSet(b, Z \cup {p})
      /\ Chained(k, b, Z \cup {p}) /\ \A n \in Nodes : n \notin Elems(b) => k[n] = g[n]
  <2>1. Chained(g, b, Z)
    BY <1>1, <1>2, <1>3 DEF Chained
  <2>2. Splits(k, g, b, Z, p)
    BY <1>1, <2>1, SplitRings
  <2> QED
    BY <2>2 DEF Splits, Chained
<1>10. CASE p \notin Z /\ q \notin DOMAIN b
  <2>1. h = k
    BY <1>4, <1>5, <1>10 DEF groups_after_range
  <2>2. Holds(h, Z \cup {p})
    BY <1>9, <1>10, <2>1
  <2> QED
    BY <1>6, <2>2
<1>11. CASE p \notin Z /\ q \in DOMAIN b
  <2> HIDE DEF k
  <2>1. PICK f \in DOMAIN b : BeginsAt(Z \cup {p}, q, f)
    BY <1>1, <1>9, <1>11, BeginExists
  <2>2. get_first_in_group(b, k, b[q]) = b[f]
    BY <1>1, <1>9, <1>11, <2>1, FirstInGroup
  <2>3. f # p
    <3>1. SUFFICES ASSUME f = p PROVE FALSE
      OBVIOUS
    <3>2. \A z \in (p + 1)..q : z \notin Starts(b)
      BY <2>1, <3>1 DEF BeginsAt
    <3>3. p <= q /\ q \in p..q
      BY <1>1
    <3>4. Key[b[q]] = Key[b[p]]
      BY <1>1, <1>11, <3>2, <3>3, RunIs
    <3> QED
      BY <1>11, <3>4
  <2>4. b[f] # b[p]
    BY <1>1, <2>3 DEF Distinct
  <2>5. h = split_group(b, k, b[q])
    BY <1>4, <1>5, <1>11, <2>2, <2>4 DEF groups_after_range, k
  <2>6. Splits(h, k, b, Z \cup {p}, q)
    BY <1>9, <1>11, <2>5, SplitRings
  <2>7. Holds(h, (Z \cup {p}) \cup {q})
    BY <1>9, <2>6 DEF Splits, Chained
  <2> QED
    BY <1>6, <2>7
<1> QED
  BY <1>7, <1>8, <1>10, <1>11

\* Some element leads to every one of a group.
LEMMA SomeLeads ==
  ASSUME NEW b \in Seq(Nodes), Together(b), NEW g, Ringed(g, b), NEW x \in DOMAIN b
  PROVE  \E j \in DOMAIN b : g[b[j]] = b[x]
<1>1. Len(b) \in Nat /\ DOMAIN b = 1..Len(b)
  OBVIOUS
<1>2. CASE x + 1 \in DOMAIN b /\ x + 1 \notin Starts(b)
  <2>1. g[b[x + 1]] = b[(x + 1) - 1]
    BY <1>2 DEF Ringed, RingIn
  <2>2. (x + 1) - 1 = x
    BY <1>1
  <2> QED
    BY <1>2, <2>1, <2>2
<1>3. CASE x + 1 \in DOMAIN b => x + 1 \in Starts(b)
  <2>1. StartSet(b, Starts(b))
    BY <1>1 DEF StartSet, Starts
  <2>2. PICK f \in DOMAIN b : BeginsAt(Starts(b), x, f)
    BY <2>1, BeginExists
  <2>3. f <= x /\ f \in Starts(b) /\ \A z \in (f + 1)..x : z \notin Starts(b)
    BY <2>2 DEF BeginsAt
  <2>4. EndsAt(b, Starts(b), f, x)
    BY <1>3, <2>3 DEF EndsAt
  <2>5. LastOf(b, f, x)
    BY <2>4, EndsIs
  <2> QED
    BY <2>3, <2>5 DEF Ringed, RingIn
<1> QED
  BY <1>2, <1>3

\* The link of the element that leads to b[x] skips it.
TakesOut(h, g, b, x) == \E m \in Elems(b) : g[m] = b[x] /\ h = Skips(g, b, x, m)

\* unlink() of a hook.
LEMMA UnlinkLeaves ==
  ASSUME NEW b \in Seq(Nodes), Together(b), NEW g \in [Nodes -> Memory], Ringed(g, b),
         NEW x \in DOMAIN b, \A m \in Nodes : g[m] = b[x] => m \in Elems(b)
  PROVE  TakesOut(unlink_from_group_after(g, CHOOSE m \in Nodes : g[m] = b[x]), g, b, x)
<1>1. PICK j \in DOMAIN b : g[b[j]] = b[x]
  BY SomeLeads
<1>2. b[j] \in Nodes
  OBVIOUS
<1> DEFINE m == CHOOSE m \in Nodes : g[m] = b[x]
<1>3. m \in Nodes /\ g[m] = b[x]
  BY <1>1, <1>2
<1>4. m \in Elems(b)
  BY <1>3
<1>5. unlink_from_group_after(g, m) = Skips(g, b, x, m)
  BY <1>3 DEF unlink_from_group_after, Skips
<1> QED
  BY <1>3, <1>4, <1>5 DEF TakesOut

\* priv_erase_node().
LEMMA NodeLeaves ==
  ASSUME NEW b \in Seq(Nodes), Together(b), Distinct(b), NEW g \in [Nodes -> Memory],
         Ringed(g, b), NEW x \in DOMAIN b, \A m \in Nodes : g[m] = b[x] => m \in Elems(b)
  PROVE  TakesOut(groups_after_node(b, g, b[x]), g, b, x)
<1>1. Len(b) \in Nat /\ DOMAIN b = 1..Len(b) /\ b[x] \in Nodes /\ b[x] \in Elems(b) /\ x \in Nat
  BY DEF Elems
<1> DEFINE Z == Starts(b)
<1>2. StartSet(b, Z) /\ Ring(g, b, Z)
  BY <1>1, RingInIs DEF StartSet, Starts, Ring, Ringed
<1>3. next(b, b[x]) = NodeAt(b, x + 1) /\ (is_first_in_group(b, g, b[x]) <=> x \in Z)
  BY <1>2, FirstIs
<1>4. /\ x + 1 \in DOMAIN b => NodeAt(b, x + 1) = b[x + 1] /\ b[x + 1] # End /\ b[x + 1] \in Elems(b)
      /\ x + 1 \notin DOMAIN b => NodeAt(b, x + 1) = End
  BY <1>1, ElementAssumption DEF NodeAt, Elems
<1>5. CASE x + 1 \in DOMAIN b /\ g[b[x + 1]] = b[x]
  <2>1. groups_after_node(b, g, b[x]) = unlink_from_group_after(g, b[x + 1])
    BY <1>3, <1>4, <1>5 DEF groups_after_node
  <2>2. unlink_from_group_after(g, b[x + 1]) = Skips(g, b, x, b[x + 1])
    BY <1>5 DEF unlink_from_group_after, Skips
  <2> QED
    BY <1>4, <1>5, <2>1, <2>2 DEF TakesOut
<1>6. CASE ~(x + 1 \in DOMAIN b /\ g[b[x + 1]] = b[x]) /\ x \in Z
  <2>1. groups_after_node(b, g, b[x]) = g
    BY <1>3, <1>4, <1>6 DEF groups_after_node
  <2>2. PICK j \in DOMAIN b : g[b[j]] = b[x]
    BY SomeLeads
  <2>3. j \in Z /\ LastOf(b, j, x)
    BY <1>6, <2>2, RingLeads
  <2>4. j = x
    BY <1>6, <2>3, StartsDiffer DEF LastOf
  <2>5. Skips(g, b, x, b[x]) = g
    BY <1>1, <2>2, <2>4 DEF Skips
  <2> QED
    BY <1>1, <2>1, <2>2, <2>4, <2>5 DEF TakesOut
<1>7. CASE ~(x + 1 \in DOMAIN b /\ g[b[x + 1]] = b[x]) /\ x \notin Z
  <2>1. groups_after_node(b, g, b[x]) = unlink_from_group_after(g, CHOOSE m \in Nodes : g[m] = b[x])
    BY <1>3, <1>4, <1>7 DEF groups_after_node
  <2> QED
    BY <2>1, UnlinkLeaves
<1> QED
  BY <1>5, <1>6, <1>7

\* An element leaves its group.
LEMMA NodeErases ==
  ASSUME NEW b, NEW c, NEW x \in DOMAIN b, CutOf(c, b, x, x + 1), Together(b), Distinct(b),
         NEW g \in [Nodes -> Memory], Ringed(g, b), NEW h, TakesOut(h, g, b, x)
  PROVE  /\ Ringed(h, c)
         /\ h \in [Nodes -> Memory]
         /\ \A n \in Nodes : n \notin Elems(b) => h[n] = g[n]
<1>1. PICK m \in Elems(b) : g[m] = b[x] /\ h = Skips(g, b, x, m)
  BY DEF TakesOut
<1>2. Ringed(Skips(g, b, x, m), c)
  BY <1>1, RingErase
<1>3. m \in Nodes /\ b[x] \in Nodes
  BY DEF Elems, CutOf
<1> QED
  BY <1>1, <1>2, <1>3 DEF Skips
-----------------------------------------------------------------------------
(* The inductive invariant and the operations that preserve it. *)

Recs == [array : Arrays, count : Counts, split : Nat, size : Nat, cache : Nat]

\* A table with an even number of buckets of which the first half is in use, or
\* all of them if it does not grow incrementally.
Shaped(K, T) ==
  IF K.incremental THEN /\ T.count = 2 * (T.count \div 2)
                        /\ T.count \div 2 <= T.split /\ T.split <= T.count
  ELSE T.split = T.count

\* The first c buckets of array a hold elements, each once, the others nothing.
Kept(bs, a, c) ==
  \A i \in indices : IF i < c THEN bs[a][i] \in Seq(Nodes) /\ Distinct(bs[a][i])
                     ELSE bs[a][i] = <<Junk>>

\* No element is in two buckets.
Apart(bs) ==
  \A n \in Nodes, a, e \in Arrays, i, j \in indices :
    n \in Elems(bs[a][i]) /\ n \in Elems(bs[e][j]) => a = e /\ i = j

\* The buckets of the arrays as hold the elements M.
Holds(bs, as, M) ==
  \A n \in Nodes : n \in M <=> \E a \in as, i \in indices : n \in Elems(bs[a][i])

Home(K, T, hs, n) == hash_to_bucket_split(hs[Key[n]], T.count, T.split, K.incremental)

AtHome(K, bs, T, hs) ==
  \A i \in indices, n \in Nodes : n \in Elems(bs[T.array][i]) => i = Home(K, T, hs, n)

Hashed(K, M, st, hs) == K.store => \A n \in M : st[n] = hs[Key[n]]

\* Bucket i of the first c of array a is the first one with an element.
IsFirst(bs, a, c, i) ==
  /\ i \in 0..c
  /\ i < c => bs[a][i] # <<>>
  /\ \A k \in 0..(i - 1) : bs[a][k] = <<>>

Cached(K, bs, T) == IF K.cache THEN IsFirst(bs, T.array, T.count, T.cache) ELSE T.cache = 0

Sized(K, size_, M) == size_ = IF K.counted THEN Cardinality(M) ELSE 0

\* A table that no call is working on.
Quiet(K, bs, T, M, st, hs) ==
  /\ Shaped(K, T)
  /\ Kept(bs, T.array, T.count)
  /\ Holds(bs, {T.array}, M)
  /\ AtHome(K, bs, T, hs)
  /\ Hashed(K, M, st, hs)
  /\ Cached(K, bs, T)
  /\ Sized(K, T.size, M)

RehashCalls == [op : {"rehash"}, table : Tables, array : Arrays, count : Counts, full : BOOLEAN,
                fast : BOOLEAN, n : Nat, before_i : Nat, first : Nat, size_backup : Nat]

\* Where element n goes, and that it is there.
Target(K, C, hs, n) == hash_to_bucket_split(hs[Key[n]], C.count, C.count, K.incremental)
Settled(K, C, st, hs, a, i, n) ==
  /\ a = C.array
  /\ i = Target(K, C, hs, n)
  /\ K.store => st[n] = hs[Key[n]]
  /\ K.cache => C.first <= i

\* The loop of priv_rehash_impl will not come to bucket i of array a any more.
Passed(T, C, a, i) == a # T.array \/ i >= T.count \/ i < C.n

MovesEach(K, bs, T, M, st, hs, C) ==
  /\ C.n < T.count => C.before_i <= Len(bs[T.array][C.n])
  /\ IF C.full THEN C.array = T.array /\ C.count = T.count ELSE Hashed(K, M, st, hs)
  /\ \A a \in {T.array, C.array}, i \in indices, n \in Nodes :
       n \in Elems(bs[a][i]) /\ Passed(T, C, a, i) => Settled(K, C, st, hs, a, i, n)
  /\ C.n < T.count =>
       \A x \in 1..C.before_i : Settled(K, C, st, hs, T.array, C.n, bs[T.array][C.n][x])
  /\ K.cache /\ C.first < C.count =>
       \E n \in Elems(bs[C.array][C.first]) : Target(K, C, hs, n) = C.first

\* The buckets that the rest of a fast shrink will call used, and the one that
\* is called the first one so far.
Targets(T, C) == {k % C.count : k \in C.n..(T.count - 1)} \cup {C.first}

MovesBuckets(K, bs, T, M, st, hs, C) ==
  /\ ~K.incremental /\ ~C.full /\ C.before_i = 0
  /\ T.count % C.count = 0 /\ C.count <= T.count
  /\ C.array = T.array => C.count <= C.n
  /\ Hashed(K, M, st, hs)
  /\ \A a \in {T.array, C.array}, i \in indices, n \in Nodes :
       n \in Elems(bs[a][i]) => \/ Settled(K, C, st, hs, a, i, n)
                                \/ a = T.array /\ C.n <= i /\ i = Home(K, T, hs, n)
  /\ K.cache => \A m \in Targets(T, C) :
       m < C.count /\ (\A y \in Targets(T, C) : m <= y) =>
         \/ bs[C.array][m] # <<>>
         \/ \E k \in C.n..(T.count - 1) : k % C.count = m /\ bs[T.array][k] # <<>>

\* The buckets of both arrays.
BothKept(bs, T, C) ==
  \A a \in {T.array, C.array}, i \in indices :
    IF (a = T.array /\ i < T.count) \/ (a = C.array /\ i < C.count)
    THEN bs[a][i] \in Seq(Nodes) /\ Distinct(bs[a][i])
    ELSE bs[a][i] = <<Junk>>

Rehashing(K, bs, T, M, st, hs, C) ==
  /\ C \in RehashCalls
  /\ Shaped(K, T)
  /\ Shaped(K, [count |-> C.count, split |-> C.count])
  /\ BothKept(bs, T, C)
  /\ Holds(bs, {T.array, C.array}, M)
  /\ T.cache = IF K.cache THEN T.count ELSE 0
  /\ T.size = 0
  /\ Sized(K, C.size_backup, M)
  /\ C.n <= T.count
  /\ K.cache => C.first <= C.count
  /\ IF C.fast THEN MovesBuckets(K, bs, T, M, st, hs, C) ELSE MovesEach(K, bs, T, M, st, hs, C)

GrowCalls == [op : {"grow"}, table : Tables, from : Nat, to : Nat, before_i : Nat]

Growing(K, bs, T, M, st, hs, C) ==
  /\ C \in GrowCalls
  /\ K.incremental
  /\ Shaped(K, T)
  /\ C.to + 1 = T.split /\ C.from + T.count \div 2 = C.to
  /\ Kept(bs, T.array, T.count)
  /\ Holds(bs, {T.array}, M)
  /\ Hashed(K, M, st, hs)
  /\ Sized(K, T.size, M)
  /\ C.before_i <= Len(bs[T.array][C.from])
  /\ \A i \in indices, n \in Nodes :
       n \in Elems(bs[T.array][i]) =>
         i = Home(K, T, hs, n) \/ (i = C.from /\ C.to = Home(K, T, hs, n))
  /\ \A x \in 1..C.before_i : C.from = Home(K, T, hs, bs[T.array][C.from][x])
  /\ IF K.cache THEN /\ T.cache <= T.count /\ T.cache # C.to
                     /\ \A k \in 0..(T.cache - 1) : bs[T.array][k] = <<>>
                     /\ T.cache < T.count /\ T.cache # C.from => bs[T.array][T.cache] # <<>>
     ELSE T.cache = 0

CloneCalls == [op : {"clone"}, table : Tables, src : Tables, todo : Seq(Nodes), structural : BOOLEAN]

Cloning(K, tb, ms, C) ==
  /\ C \in CloneCalls
  /\ C.table # C.src
  /\ Elems(C.todo) \subseteq ms[C.src]
  /\ Len(C.todo) + Cardinality(ms[C.table]) = Cardinality(ms[C.src])
  /\ C.structural => ~K.incremental /\ tb[C.src].count % tb[C.table].count = 0

Commits == [op : {"commit"}, table : Tables, key : Keys, hash : Nat, bucket_idx : Nat,
            rehashed : BOOLEAN]

\* What insert_unique_check has found holds until the table is rehashed.
Committable(K, tb, hs, C, P) ==
  /\ P \in Commits
  /\ P.hash = hs[P.key]
  /\ ~P.rehashed =>
       P.bucket_idx = hash_to_bucket_split(P.hash, tb[P.table].count,
                        IF C.op = "grow" THEN IF C.table = P.table THEN tb[P.table].split - 1
                                              ELSE tb[P.table].split
                        ELSE tb[P.table].split, K.incremental)

\* The arrays of table t.
Owned(tb, C, t) == {tb[t].array} \cup (IF C.op = "rehash" THEN IF C.table = t THEN {C.array} ELSE {} ELSE {})

Types ==
  /\ kind \in Kinds
  /\ buckets \in [Arrays -> [indices -> Seq(Memory)]]
  /\ stored \in [Nodes -> Nat \cup {Junk}]
  /\ hashing \in Hashings
  /\ tab \in [Tables -> Recs]
  /\ members \in [Tables -> SUBSET Nodes]

Exclusive ==
  /\ \A t, u \in Tables : Owned(tab, call, t) \cap Owned(tab, call, u) # {} => t = u
  /\ \A a \in Arrays : (\A t \in Tables : a \notin Owned(tab, call, t)) => Kept(buckets, a, 0)
  /\ Apart(buckets)
  /\ linked = UNION {members[t] : t \in Tables}

\* A call is working on table t.
Busy(C, t) == C.op \in {"rehash", "grow"} /\ C.table = t

IBase ==
  /\ Types
  /\ Exclusive
  /\ \A t \in Tables : ~Busy(call, t) => Quiet(kind, buckets, tab[t], members[t], stored, hashing)
  /\ \/ call = None
     \/ /\ call.op = "rehash"
        /\ Rehashing(kind, buckets, tab[call.table], members[call.table], stored, hashing, call)
     \/ /\ call.op = "grow"
        /\ Growing(kind, buckets, tab[call.table], members[call.table], stored, hashing, call)
     \/ /\ call.op = "clone"
        /\ pending = None
        /\ Cloning(kind, tab, members, call)
  /\ pending = None \/ Committable(kind, tab, hashing, call, pending)
  /\ ~kind.multi => group = [n \in Nodes |-> Junk]
-----------------------------------------------------------------------------
(* What the invariant adds for equal elements.                             *)

\* The elements of a bucket, if it holds some, in groups.
Fits(K, g, b) == b \in Seq(Nodes) => Grouped(K, g, b)

\* All groups are whole, except for those in the arrays as; an element in no
\* table has no link.
WholeBut(K, g, L, bs, as) ==
  /\ g \in [Nodes -> Memory]
  /\ K.multi => \A n \in Nodes \ L : g[n] = Junk
  /\ \A a \in Arrays \ as, i \in indices : Fits(K, g, bs[a][i])

\* A rehash has moved the first elements with the key of n, and n is one of the rest.
Split(K, T, C, hs, bs, a, i, n) ==
  /\ ~C.fast
  /\ a = C.array /\ i = Target(K, C, hs, n)
  /\ C.n < T.count /\ C.before_i < Len(bs[T.array][C.n])
  /\ Key[bs[T.array][C.n][C.before_i + 1]] = Key[n]
  /\ Key[bs[a][i][1]] = Key[n]

\* A rehash that moves one element after the other moves n.
Moves(K, T, C, hs, n) == C.full \/ C.array # T.array \/ Target(K, C, hs, n) # Home(K, T, hs, n)

\* Elements with the key of n are being moved between bucket i of a and bucket j of e.
Crosses(K, T, C, hs, bs, a, i, e, j, n) ==
  \/ a = T.array /\ i = C.n /\ Split(K, T, C, hs, bs, e, j, n)
  \/ e = T.array /\ j = C.n /\ Split(K, T, C, hs, bs, a, i, n)

\* Equal elements are in one bucket, unless the rehash is just moving them.
RehashTogether(K, T, C, hs, bs, M) ==
  /\ \A a \in {T.array, C.array}, i \in indices : bs[a][i] \in Seq(Nodes) => Together(bs[a][i])
  /\ \A a, e \in {T.array, C.array}, i, j \in indices, n, m \in M :
       n \in Elems(bs[a][i]) /\ m \in Elems(bs[e][j]) /\ Key[m] = Key[n] /\ (a # e \/ i # j) =>
         Crosses(K, T, C, hs, bs, a, i, e, j, n)

\* The groups that are moved as they are or stay, and the pairs that are moved one by one.
RehashRings(K, T, C, hs, g, bs, M) ==
  /\ C.fast => \A a \in {T.array, C.array}, i \in indices :
                 bs[a][i] \in Seq(Nodes) => Ringed(g, bs[a][i])
  /\ ~C.fast =>
       /\ \A n \in M : Moves(K, T, C, hs, n) => Alike(M, n) = {n, g[n]}
       /\ \A a \in {T.array, C.array}, i \in indices : bs[a][i] \in Seq(Nodes) =>
            \A x \in DOMAIN bs[a][i] :
              ~Moves(K, T, C, hs, bs[a][i][x]) => RingIn(g, bs[a][i], x)
       /\ \A i \in indices, n \in Nodes : n \in Elems(bs[T.array][i]) =>
            \/ C.full
            \/ i = Home(K, T, hs, n)
            \/ C.array = T.array /\ i = Target(K, C, hs, n)

RehashGroups(K, T, C, hs, g, bs, M) ==
  /\ RehashTogether(K, T, C, hs, bs, M)
  /\ K.multi => RehashRings(K, T, C, hs, g, bs, M)

\* A growth moves groups; without links it moves equal elements one by one.
GrowGroups(K, T, C, bs) ==
  LET b == bs[T.array][C.from]
      c == bs[T.array][C.to]
  IN  /\ \A x \in DOMAIN b, y \in DOMAIN c : Key[b[x]] = Key[c[y]] =>
           /\ ~K.multi /\ C.before_i < Len(b)
           /\ Key[b[C.before_i + 1]] = Key[b[x]] /\ Key[c[1]] = Key[b[x]]
      /\ K.multi /\ C.before_i < Len(b) => C.before_i + 1 \in Starts(b)

\* What is still to be cloned has equals among the clones only if it comes next,
\* and they are at the front of their bucket.
CloneGroups(T, C, bs) ==
  /\ Together(C.todo)
  /\ \A y \in DOMAIN C.todo, i \in 0..(T.count - 1) : \A x \in DOMAIN bs[T.array][i] :
       Key[bs[T.array][i][x]] = Key[C.todo[y]] =>
         Key[C.todo[1]] = Key[C.todo[y]] /\ Key[bs[T.array][i][1]] = Key[C.todo[y]]

IGroups ==
  /\ WholeBut(kind, group, linked, buckets,
              IF call.op = "rehash" THEN {tab[call.table].array, call.array} ELSE {})
  /\ call.op = "rehash" =>
       RehashGroups(kind, tab[call.table], call, hashing, group, buckets, members[call.table])
  /\ call.op = "grow" => GrowGroups(kind, tab[call.table], call, buckets)
  /\ call.op = "clone" => CloneGroups(tab[call.table], call, buckets)
  /\ pending # None => \A n \in members[pending.table] : Key[n] # pending.key
-----------------------------------------------------------------------------
(* The options, and the records of the tables.                             *)

\* The options are Booleans, and do not contradict each other.
LEMMA KindIs ==
  ASSUME kind \in Kinds
  PROVE  /\ kind.unique \in BOOLEAN /\ kind.multi \in BOOLEAN /\ kind.store \in BOOLEAN
         /\ kind.counted \in BOOLEAN /\ kind.cache \in BOOLEAN /\ kind.incremental \in BOOLEAN
         /\ kind.auto \in BOOLEAN
         /\ kind.auto => ~kind.counted /\ ~kind.cache
         /\ kind.unique => ~kind.multi
<1>1. kind \in [unique : BOOLEAN, multi : BOOLEAN, store : BOOLEAN, counted : BOOLEAN,
               cache : BOOLEAN, incremental : BOOLEAN, auto : BOOLEAN]
  BY KindAssumption
<1>. QED
  BY <1>1, KindAssumption

\* A table has at least one bucket and at most MaxCount.
LEMMA CountIs ==
  /\ MaxCount \in Nat
  /\ \A c \in Counts : c \in Nat /\ 1 <= c /\ c <= MaxCount
BY CountAssumption

\* Every element has a hash.
LEMMA HashIs ==
  ASSUME NEW hs \in Hashings, NEW n \in Nodes
  PROVE  Key[n] \in Keys /\ hs[Key[n]] \in Nat
<1>1. hs \in [Keys -> Nat]
  BY ElementAssumption
<1>. QED
  BY <1>1, ElementAssumption

\* The fields of a table, and that its buckets are in its array.
LEMMA RecIs ==
  ASSUME NEW T \in Recs
  PROVE  /\ T.array \in Arrays /\ T.count \in Counts /\ T.count \in Nat /\ 1 <= T.count
         /\ T.count <= MaxCount
         /\ T.split \in Nat /\ T.size \in Nat /\ T.cache \in Nat
         /\ \A i \in 0..(T.count - 1) : i \in indices
BY CountIs DEF Recs, indices

\* What set_cache changes.
LEMMA SetCache ==
  ASSUME NEW T \in Recs, NEW i \in Nat
  PROVE  LET U == set_cache(T, i) IN
         /\ U \in Recs
         /\ U.array = T.array /\ U.count = T.count /\ U.split = T.split /\ U.size = T.size
         /\ U.cache = IF kind.cache THEN i ELSE T.cache
BY DEF set_cache, Recs

\* What priv_size_count changes.
LEMMA SetSize ==
  ASSUME NEW T \in Recs, NEW k, kind.counted => k \in Nat
  PROVE  LET U == priv_size_count(T, k) IN
         /\ U \in Recs
         /\ U.array = T.array /\ U.count = T.count /\ U.split = T.split /\ U.cache = T.cache
         /\ U.size = IF kind.counted THEN k ELSE T.size
BY DEF priv_size_count, Recs

\* What priv_init_cache changes.
LEMMA InitCache ==
  ASSUME NEW T \in Recs
  PROVE  LET U == priv_init_cache(T) IN
         /\ U \in Recs
         /\ U.array = T.array /\ U.count = T.count /\ U.split = T.split /\ U.size = T.size
         /\ U.cache = IF kind.cache THEN T.count ELSE T.cache
BY RecIs, SetCache, Zenon DEF priv_init_cache

\* What priv_insertion_update_cache changes.
LEMMA InsertionCache ==
  ASSUME NEW T \in Recs, NEW i \in Nat
  PROVE  LET U == priv_insertion_update_cache(T, i) IN
         /\ U \in Recs
         /\ U.array = T.array /\ U.count = T.count /\ U.split = T.split /\ U.size = T.size
         /\ U.cache = IF kind.cache /\ i < T.cache THEN i ELSE T.cache
BY SetCache DEF priv_insertion_update_cache

\* The first used bucket from i on is the first one from there.
LEMMA FirstUsed ==
  ASSUME NEW bs, NEW T \in Recs, NEW i \in 0..T.count
  PROVE  LET j == first_used(bs, T, i) IN
         /\ j \in i..T.count
         /\ j < T.count => bs[T.array][j] # <<>>
         /\ \A k \in i..(j - 1) : bs[T.array][k] = <<>>
<1> DEFINE S == {j \in i..T.count : j < T.count => bs[T.array][j] # <<>>}
<1>1. T.count \in Nat /\ i \in Nat
  BY RecIs
<1>2. T.count \in S /\ S \in SUBSET Nat
  BY <1>1
<1>3. PICK j \in S : \A y \in S : j <= y
  BY <1>2, LeastElement, Zenon
<1>4. \A k \in i..(j - 1) : bs[T.array][k] = <<>>
  <2>1. ASSUME NEW k \in i..(j - 1), bs[T.array][k] # <<>>
        PROVE  FALSE
    <3>1. k \in S
      BY <1>1, <1>3, <2>1
    <3>. QED
      BY <1>1, <1>3, <3>1
  <2>. QED
    BY <2>1
<1>5. \E x \in i..T.count : /\ x < T.count => bs[T.array][x] # <<>>
                            /\ \A k \in i..(x - 1) : bs[T.array][k] = <<>>
  BY <1>3, <1>4
<1>. QED
  BY <1>5, Zenon DEF first_used

\* What priv_erasure_update_cache changes, and that it finds the first used bucket.
LEMMA ErasureCache ==
  ASSUME NEW bs, NEW T \in Recs, T.cache <= T.count
  PROVE  LET U == priv_erasure_update_cache(bs, T) IN
         /\ U \in Recs
         /\ U.array = T.array /\ U.count = T.count /\ U.split = T.split /\ U.size = T.size
         /\ U.cache = IF kind.cache THEN first_used(bs, T, T.cache) ELSE T.cache
<1>1. T.cache \in 0..T.count
  BY RecIs
<1>2. first_used(bs, T, T.cache) \in Nat
  <2>1. first_used(bs, T, T.cache) \in T.cache..T.count
    BY <1>1, FirstUsed, Zenon
  <2>. QED
    BY <1>1, <2>1, RecIs
<1>. QED
  BY <1>2, SetCache DEF priv_erasure_update_cache
-----------------------------------------------------------------------------
(* The buckets of all arrays.                                              *)

Memories == [Arrays -> [indices -> Seq(Memory)]]

\* The buckets cs are bs with new as bucket i of array a.
Updated(cs, bs, a, i, new) ==
  /\ cs \in Memories
  /\ \A e \in Arrays, k \in indices : cs[e][k] = IF e = a /\ k = i THEN new ELSE bs[e][k]

\* An update of one bucket changes that bucket only.
LEMMA ExceptUpdates ==
  ASSUME NEW bs \in Memories, NEW a \in Arrays, NEW i \in indices, NEW new \in Seq(Memory)
  PROVE  Updated([bs EXCEPT ![a][i] = new], bs, a, i, new)
<1> DEFINE cs == [bs EXCEPT ![a][i] = new]
<1>1. cs \in Memories
  BY DEF Memories
<1>2. \A e \in Arrays, k \in indices : cs[e][k] = IF e = a /\ k = i THEN new ELSE bs[e][k]
  BY DEF Memories
<1>. QED
  BY <1>1, <1>2 DEF Updated

\* A bucket of elements is a piece of memory.
LEMMA InMemory == \A b \in Seq(Nodes) : b \in Seq(Memory)
BY SeqMonotonic DEF Memory

\* The buckets of a table hold elements, each once.
LEMMA KeptIs ==
  ASSUME NEW bs \in Memories, NEW a \in Arrays, NEW c \in Nat, c <= MaxCount, Kept(bs, a, c)
  PROVE  /\ \A i \in 0..(c - 1) : /\ i \in indices
                                  /\ bs[a][i] \in Seq(Nodes) /\ Distinct(bs[a][i])
                                  /\ Elems(bs[a][i]) \subseteq Nodes
                                  /\ bs[a][i] = <<>> <=> Elems(bs[a][i]) = {}
         /\ \A i \in indices, n \in Nodes : n \in Elems(bs[a][i]) => i \in 0..(c - 1)
         /\ \A i \in indices : ~(i < c) => bs[a][i] = <<Junk>>
<1>1. ASSUME NEW i \in 0..(c - 1)
      PROVE  i \in indices /\ bs[a][i] \in Seq(Nodes) /\ Distinct(bs[a][i])
  BY CountIs DEF Kept, indices
<1>2. ASSUME NEW i \in 0..(c - 1)
      PROVE  Elems(bs[a][i]) \subseteq Nodes /\ (bs[a][i] = <<>> <=> Elems(bs[a][i]) = {})
  <2>1. bs[a][i] \in Seq(Nodes)
    BY <1>1
  <2>. QED
    BY <2>1, ElemsOfSeq
<1>3. ASSUME NEW i \in indices, ~(i < c)
      PROVE  bs[a][i] = <<Junk>>
  BY <1>3 DEF Kept
<1>4. ASSUME NEW i \in indices, NEW n \in Nodes, n \in Elems(bs[a][i])
      PROVE  i \in 0..(c - 1)
  <2>1. CASE ~(i < c)
    <3>1. n = Junk
      BY <1>3, <1>4, <2>1, SingleBucket
    <3>. QED
      BY <3>1, ElementAssumption
  <2>2. CASE i < c
    BY <2>2, CountIs DEF indices
  <2>. QED
    BY <2>1, <2>2
<1>. QED
  BY <1>1, <1>2, <1>3, <1>4, Zenon

\* The bucket of a hash is one that is in use.
LEMMA HomeIs ==
  ASSUME kind \in Kinds, NEW T \in Recs, Shaped(kind, T), NEW hs \in Hashings, NEW n \in Nodes
  PROVE  /\ Home(kind, T, hs, n) \in 0..(T.count - 1)
         /\ Home(kind, T, hs, n) \in indices
         /\ kind.incremental => Home(kind, T, hs, n) < T.split
         /\ ~kind.incremental => Home(kind, T, hs, n) = hs[Key[n]] % T.count
<1>1. kind.incremental \in BOOLEAN
  BY KindIs
<1>2. hs[Key[n]] \in Nat
  BY HashIs
<1>3. T.count \in Nat /\ T.split \in Nat /\ T.count > 0
  BY RecIs
<1>4. kind.incremental => /\ T.count = 2 * (T.count \div 2)
                          /\ T.count \div 2 <= T.split /\ T.split <= T.count
  BY DEF Shaped
<1>5. /\ Home(kind, T, hs, n) \in 0..(T.count - 1)
      /\ kind.incremental => Home(kind, T, hs, n) \in 0..(T.split - 1)
      /\ ~kind.incremental => Home(kind, T, hs, n) = hs[Key[n]] % T.count
  BY <1>1, <1>2, <1>3, <1>4, SplitIn, Zenon DEF Home
<1>. QED
  BY <1>3, <1>5, RecIs
-----------------------------------------------------------------------------
(* Tables that no call is working on.                                      *)

\* A table is left alone by what happens elsewhere.
LEMMA QuietFrame ==
  ASSUME NEW K, NEW bs, NEW cs, NEW T, NEW M \in SUBSET Nodes, NEW st, NEW su, NEW hs, NEW ht,
         Quiet(K, bs, T, M, st, hs),
         \A i \in indices : cs[T.array][i] = bs[T.array][i],
         \A n \in M : su[n] = st[n] /\ ht[Key[n]] = hs[Key[n]],
         T.count \in Nat, T.count <= MaxCount, T.cache \in Nat
  PROVE  Quiet(K, cs, T, M, su, ht)
<1>1. Shaped(K, T) /\ Sized(K, T.size, M)
  BY DEF Quiet
<1>2. Kept(cs, T.array, T.count)
  BY DEF Quiet, Kept
<1>3. Holds(cs, {T.array}, M)
  BY DEF Quiet, Holds
<1>4. AtHome(K, cs, T, ht)
  <2> SUFFICES ASSUME NEW i \in indices, NEW n \in Nodes, n \in Elems(cs[T.array][i])
               PROVE  i = Home(K, T, ht, n)
    BY DEF AtHome
  <2>1. n \in Elems(bs[T.array][i])
    OBVIOUS
  <2>2. n \in M /\ i = Home(K, T, hs, n)
    BY <2>1 DEF Quiet, Holds, AtHome
  <2>. QED
    BY <2>2 DEF Home
<1>5. Hashed(K, M, su, ht)
  BY DEF Quiet, Hashed
<1>6. Cached(K, cs, T)
  <2>1. \A i \in 0..(T.count - 1) : i \in indices
    BY CountIs DEF indices
  <2>2. ASSUME K.cache
        PROVE  IsFirst(cs, T.array, T.count, T.cache)
    <3>1. IsFirst(bs, T.array, T.count, T.cache)
      BY <2>2 DEF Quiet, Cached
    <3>2. \A k \in 0..(T.cache - 1) : k \in indices
      BY <2>1, <3>1 DEF IsFirst
    <3>3. T.cache < T.count => T.cache \in indices
      BY <2>1
    <3>. QED
      BY <3>1, <3>2, <3>3 DEF IsFirst
  <2>. QED
    BY <2>2 DEF Quiet, Cached
<1>. QED
  BY <1>1, <1>2, <1>3, <1>4, <1>5, <1>6 DEF Quiet

\* What a quiet table is.
LEMMA QuietIs ==
  ASSUME kind \in Kinds, NEW bs \in Memories, NEW T \in Recs, NEW M \in SUBSET Nodes, NEW st,
         NEW hs, Quiet(kind, bs, T, M, st, hs)
  PROVE  /\ IsFiniteSet(M) /\ Cardinality(M) \in Nat
         /\ kind.cache => IsFirst(bs, T.array, T.count, T.cache)
         /\ ~kind.cache => T.cache = 0
         /\ T.cache <= T.count
         /\ T.size = IF kind.counted THEN Cardinality(M) ELSE 0
         /\ \A i \in 0..(T.count - 1) : /\ i \in indices
                                        /\ bs[T.array][i] \in Seq(Nodes)
                                        /\ Distinct(bs[T.array][i])
                                        /\ Elems(bs[T.array][i]) \subseteq M
                                        /\ bs[T.array][i] = <<>> <=> Elems(bs[T.array][i]) = {}
         /\ \A n \in M : \E i \in 0..(T.count - 1) : n \in Elems(bs[T.array][i])
         /\ \A i \in indices, n \in Nodes :
              n \in Elems(bs[T.array][i]) =>
                n \in M /\ i = Home(kind, T, hs, n) /\ i \in 0..(T.count - 1)
         /\ kind.store => \A n \in M : st[n] = hs[Key[n]]
         /\ \A i \in indices : ~(i < T.count) => bs[T.array][i] = <<Junk>>
         /\ \A i \in 0..(T.cache - 1) : bs[T.array][i] = <<>>
<1>1. IsFiniteSet(M) /\ Cardinality(M) \in Nat
  BY ElementAssumption, FS_Subset, FS_CardinalityType
<1>2. T.count \in Nat /\ T.count <= MaxCount /\ T.cache \in Nat /\ T.array \in Arrays
  BY RecIs
<1>3. /\ kind.cache => IsFirst(bs, T.array, T.count, T.cache)
      /\ ~kind.cache => T.cache = 0
      /\ T.size = IF kind.counted THEN Cardinality(M) ELSE 0
      /\ kind.store => \A n \in M : st[n] = hs[Key[n]]
  BY DEF Quiet, Cached, Sized, Hashed
<1>4. Kept(bs, T.array, T.count)
  BY DEF Quiet
<1>5. \A i \in indices, n \in Nodes :
        n \in Elems(bs[T.array][i]) => n \in M /\ i = Home(kind, T, hs, n) /\ i \in 0..(T.count - 1)
  BY <1>2, <1>4, KeptIs DEF Quiet, Holds, AtHome
<1>6. \A n \in M : \E i \in indices : n \in Elems(bs[T.array][i])
  BY DEF Quiet, Holds
<1>7. /\ T.cache <= T.count
      /\ \A i \in 0..(T.cache - 1) : bs[T.array][i] = <<>>
  BY <1>2, <1>3 DEF IsFirst
<1>8. ASSUME NEW i \in 0..(T.count - 1)
      PROVE  /\ i \in indices
             /\ bs[T.array][i] \in Seq(Nodes)
             /\ Distinct(bs[T.array][i])
             /\ Elems(bs[T.array][i]) \subseteq M
             /\ bs[T.array][i] = <<>> <=> Elems(bs[T.array][i]) = {}
  BY <1>2, <1>4, <1>5, KeptIs, Zenon
<1>9. \A n \in M : \E i \in 0..(T.count - 1) : n \in Elems(bs[T.array][i])
  BY <1>5, <1>6
<1>10. \A i \in indices : ~(i < T.count) => bs[T.array][i] = <<Junk>>
  BY <1>2, <1>4, KeptIs
<1>. QED
  BY <1>1, <1>3, <1>5, <1>7, <1>8, <1>9, <1>10, Zenon
Linked(T, i)         == priv_insertion_update_cache(priv_size_count(T, T.size + 1), i)
HashStored(st, n, h) == IF kind.store THEN [st EXCEPT ![n] = h] ELSE st
WithBucket(bs, a, i, new) == [bs EXCEPT ![a][i] = new]

\* A free element n comes into bucket i, its own.
Joins(bs, cs, T, U, M, N, st, su, hs, n, i, p) ==
  /\ kind \in Kinds
  /\ Quiet(kind, bs, T, M, st, hs)
  /\ bs \in Memories /\ T \in Recs /\ M \in SUBSET Nodes
  /\ st \in [Nodes -> Nat \cup {Junk}] /\ hs \in Hashings
  /\ n \in Nodes /\ n \notin M
  /\ i = Home(kind, T, hs, n)
  /\ p \in Nat /\ 1 <= p /\ p <= Len(bs[T.array][i]) + 1
  /\ Updated(cs, bs, T.array, i, PutIn(bs[T.array][i], p, n))
  /\ U = Linked(T, i) /\ N = M \cup {n} /\ su = HashStored(st, n, hs[Key[n]])

\* A table with one element more at home is as quiet as before.
LEMMA QuietLink ==
  ASSUME NEW bs, NEW cs, NEW T, NEW U, NEW M, NEW N, NEW st, NEW su, NEW hs, NEW n, NEW i,
         NEW p, Joins(bs, cs, T, U, M, N, st, su, hs, n, i, p)
  PROVE  /\ U \in Recs /\ U.array = T.array /\ U.count = T.count /\ U.split = T.split
         /\ su \in [Nodes -> Nat \cup {Junk}]
         /\ \A m \in Nodes : m # n => su[m] = st[m]
         /\ Quiet(kind, cs, U, N, su, hs)
<1> DEFINE V == priv_size_count(T, T.size + 1)
           b == bs[T.array][i]
           c == PutIn(b, p, n)
<1>0. /\ kind \in Kinds
      /\ Quiet(kind, bs, T, M, st, hs)
      /\ bs \in Memories /\ T \in Recs /\ M \in SUBSET Nodes
      /\ st \in [Nodes -> Nat \cup {Junk}] /\ hs \in Hashings
      /\ n \in Nodes /\ n \notin M
      /\ i = Home(kind, T, hs, n)
      /\ p \in Nat /\ 1 <= p /\ p <= Len(bs[T.array][i]) + 1
      /\ Updated(cs, bs, T.array, i, PutIn(bs[T.array][i], p, n))
  BY DEF Joins
<1> USE <1>0
<1>00. /\ U = priv_insertion_update_cache(V, i)
       /\ N = M \cup {n}
       /\ su = IF kind.store THEN [st EXCEPT ![n] = hs[Key[n]]] ELSE st
  BY DEF Joins, Linked, HashStored
<1>1. Shaped(kind, T)
  BY DEF Quiet
<1>2. i \in 0..(T.count - 1) /\ i \in indices
  BY <1>1, HomeIs
<1>3. b \in Seq(Nodes) /\ Distinct(b) /\ n \notin Elems(b)
  BY <1>2, QuietIs, Zenon
<1>4. /\ c \in Seq(Nodes) /\ Distinct(c) /\ Elems(c) = Elems(b) \cup {n} /\ c # <<>>
  BY <1>3, PutInElems
<1>5. /\ U \in Recs /\ U.array = T.array /\ U.count = T.count /\ U.split = T.split
      /\ U.size = IF kind.counted THEN T.size + 1 ELSE T.size
      /\ U.cache = IF kind.cache /\ i < T.cache THEN i ELSE T.cache
  <2>1. T.size + 1 \in Nat
    BY RecIs
  <2>2. /\ V \in Recs /\ V.array = T.array /\ V.count = T.count /\ V.split = T.split
        /\ V.cache = T.cache /\ V.size = IF kind.counted THEN T.size + 1 ELSE T.size
    BY <2>1, SetSize
  <2> HIDE DEF V
  <2>3. i \in Nat
    BY <1>2
  <2>. QED
    BY <1>00, <2>2, <2>3, InsertionCache, Zenon
<1> HIDE DEF V
<1>6. /\ su \in [Nodes -> Nat \cup {Junk}]
      /\ \A m \in Nodes : m # n => su[m] = st[m]
      /\ kind.store => su[n] = hs[Key[n]]
  BY <1>00, HashIs
<1>7. \A k \in indices : cs[T.array][k] = IF k = i THEN c ELSE bs[T.array][k]
  BY RecIs DEF Updated
<1> HIDE DEF c
<1>8. \A k \in indices, m \in Nodes :
        m \in Elems(cs[T.array][k]) <=> m \in Elems(bs[T.array][k]) \/ (m = n /\ k = i)
  BY <1>4, <1>7
<1>9. Shaped(kind, U)
  BY <1>1, <1>5 DEF Shaped
<1>10. Kept(cs, U.array, U.count)
  <2>1. Kept(bs, T.array, T.count)
    BY DEF Quiet
  <2>2. ASSUME NEW k \in indices
        PROVE  IF k < U.count THEN cs[U.array][k] \in Seq(Nodes) /\ Distinct(cs[U.array][k])
               ELSE cs[U.array][k] = <<Junk>>
    <3>1. CASE k = i
      <4>1. k < T.count
        BY <1>2, <3>1, RecIs
      <4>. QED
        BY <1>4, <1>5, <1>7, <3>1, <4>1
    <3>2. CASE k # i
      BY <1>5, <1>7, <2>1, <3>2 DEF Kept
    <3>. QED
      BY <3>1, <3>2
  <2>. QED
    BY <2>2 DEF Kept
<1>11. Holds(cs, {U.array}, N)
  <2>1. Holds(bs, {T.array}, M)
    BY DEF Quiet
  <2>. QED
    BY <1>00, <1>2, <1>5, <1>8, <2>1 DEF Holds
<1>12. AtHome(kind, cs, U, hs)
  <2> SUFFICES ASSUME NEW k \in indices, NEW m \in Nodes, m \in Elems(cs[U.array][k])
               PROVE  k = Home(kind, U, hs, m)
    BY DEF AtHome
  <2>1. k = Home(kind, T, hs, m)
    <3>1. CASE m \in Elems(bs[T.array][k])
      BY <3>1 DEF Quiet, AtHome
    <3>2. CASE m = n /\ k = i
      BY <3>2
    <3>. QED
      BY <1>5, <1>8, <3>1, <3>2
  <2>. QED
    BY <1>5, <2>1 DEF Home
<1>13. Hashed(kind, N, su, hs)
  <2>1. kind.store => \A m \in M : st[m] = hs[Key[m]]
    BY DEF Quiet, Hashed
  <2>2. N = M \cup {n}
    BY <1>00
  <2>. QED
    BY <1>6, <2>1, <2>2 DEF Hashed
<1>14. Cached(kind, cs, U)
  <2>1. CASE ~kind.cache
    BY <1>5, <2>1 DEF Quiet, Cached
  <2>2. CASE kind.cache
    <3>1. IsFirst(bs, T.array, T.count, T.cache)
      BY <2>2 DEF Quiet, Cached
    <3>2. T.count \in Nat /\ T.cache \in Nat /\ \A k \in 0..(T.count - 1) : k \in indices
      BY RecIs
    <3>3. IsFirst(cs, T.array, T.count, U.cache)
      <4>1. CASE i < T.cache
        <5>1. U.cache = i /\ i \in 0..T.count /\ cs[T.array][i] # <<>>
          BY <1>2, <1>4, <1>5, <1>7, <2>2, <3>2, <4>1
        <5>2. \A k \in 0..(i - 1) : cs[T.array][k] = <<>>
          <6>1. \A k \in 0..(i - 1) : k \in indices /\ k # i /\ bs[T.array][k] = <<>>
            BY <1>2, <3>1, <3>2, <4>1 DEF IsFirst
          <6>. QED
            BY <1>7, <6>1
        <5>. QED
          BY <5>1, <5>2 DEF IsFirst
      <4>2. CASE ~(i < T.cache)
        <5>1. U.cache = T.cache /\ T.cache \in 0..T.count
          BY <1>5, <3>1, <4>2 DEF IsFirst
        <5>2. T.cache < T.count => cs[T.array][T.cache] # <<>>
          <6>1. T.cache < T.count => T.cache \in indices /\ bs[T.array][T.cache] # <<>>
            BY <3>1, <3>2 DEF IsFirst
          <6>. QED
            BY <1>4, <1>7, <6>1
        <5>3. \A k \in 0..(T.cache - 1) : cs[T.array][k] = <<>>
          <6>1. \A k \in 0..(T.cache - 1) : k \in indices /\ k # i /\ bs[T.array][k] = <<>>
            BY <1>2, <3>1, <3>2, <4>2 DEF IsFirst
          <6>. QED
            BY <1>7, <6>1
        <5>. QED
          BY <5>1, <5>2, <5>3 DEF IsFirst
      <4>. QED
        BY <4>1, <4>2
    <3>. QED
      BY <1>5, <2>2, <3>3 DEF Cached
  <2>. QED
    BY <2>1, <2>2
<1>15. Sized(kind, U.size, N)
  <2>1. Cardinality(M \cup {n}) = Cardinality(M) + 1
    BY QuietIs, FS_AddElement, Zenon
  <2>. QED
    BY <1>00, <1>5, <2>1, QuietIs DEF Sized
<1>16. Quiet(kind, cs, U, N, su, hs)
  BY <1>9, <1>10, <1>11, <1>12, <1>13, <1>14, <1>15 DEF Quiet
<1>. QED
  BY <1>5, <1>6, <1>16

\* The elements ns leave the table T with the elements M, which is then U with N.
Departs(bs, cs, T, U, M, N, ns, st, su, hs) ==
  /\ kind \in Kinds
  /\ bs \in Memories
  /\ cs \in Memories
  /\ T \in Recs
  /\ U \in Recs
  /\ M \in SUBSET Nodes /\ N = M \ ns
  /\ Quiet(kind, bs, T, M, st, hs)
  /\ U.array = T.array
  /\ U.count = T.count
  /\ U.split = T.split
  /\ Kept(cs, T.array, T.count)
  /\ \A i \in indices, n \in Nodes :
       n \in Elems(cs[T.array][i]) <=> n \in Elems(bs[T.array][i]) /\ n \notin ns
  /\ \A n \in N : su[n] = st[n]
  /\ Cached(kind, cs, U)
  /\ Sized(kind, U.size, N)

\* Elements leave a table.
LEMMA QuietRemove ==
  ASSUME NEW bs, NEW cs, NEW T, NEW U, NEW M, NEW N, NEW ns, NEW st, NEW su, NEW hs,
         Departs(bs, cs, T, U, M, N, ns, st, su, hs)
  PROVE  Quiet(kind, cs, U, N, su, hs)
<1>0. /\ kind \in Kinds
      /\ bs \in Memories
      /\ cs \in Memories
      /\ T \in Recs
      /\ U \in Recs
      /\ M \in SUBSET Nodes /\ N = M \ ns
      /\ Quiet(kind, bs, T, M, st, hs)
      /\ U.array = T.array
      /\ U.count = T.count
      /\ U.split = T.split
      /\ Kept(cs, T.array, T.count)
      /\ \A i \in indices, n \in Nodes :
            n \in Elems(cs[T.array][i]) <=> n \in Elems(bs[T.array][i]) /\ n \notin ns
      /\ \A n \in N : su[n] = st[n]
      /\ Cached(kind, cs, U)
      /\ Sized(kind, U.size, N)
  BY DEF Departs
<1> USE <1>0
<1>1. Shaped(kind, U)
  BY DEF Quiet, Shaped
<1>2. Holds(cs, {U.array}, N)
  BY DEF Quiet, Holds
<1>3. AtHome(kind, cs, U, hs)
  BY DEF Quiet, AtHome, Home
<1>4. Hashed(kind, N, su, hs)
  BY DEF Quiet, Hashed
<1>. QED
  BY <1>1, <1>2, <1>3, <1>4 DEF Quiet

\* The first used bucket after elements have gone, none of them in front of it.
LEMMA FirstAfter ==
  ASSUME kind \in Kinds, NEW cs, NEW T \in Recs, NEW i \in 0..T.count,
         \A k \in 0..(i - 1) : cs[T.array][k] = <<>>
  PROVE  IsFirst(cs, T.array, T.count, first_used(cs, T, i))
<1>1. /\ first_used(cs, T, i) \in i..T.count
      /\ first_used(cs, T, i) < T.count => cs[T.array][first_used(cs, T, i)] # <<>>
      /\ \A k \in i..(first_used(cs, T, i) - 1) : cs[T.array][k] = <<>>
  BY FirstUsed, Zenon
<1>. QED
  BY <1>1, RecIs DEF IsFirst
-----------------------------------------------------------------------------
(* The whole state while no call is in the middle of a table.              *)

Rest(bs, tb, ms, st, hs, lk) ==
  /\ bs \in Memories
  /\ st \in [Nodes -> Nat \cup {Junk}]
  /\ hs \in Hashings
  /\ tb \in [Tables -> Recs]
  /\ ms \in [Tables -> SUBSET Nodes]
  /\ \A t, u \in Tables : tb[t].array = tb[u].array => t = u
  /\ \A a \in Arrays : (\A t \in Tables : a # tb[t].array) => Kept(bs, a, 0)
  /\ \A t, u \in Tables, n \in Nodes : n \in ms[t] /\ n \in ms[u] => t = u
  /\ lk = UNION {ms[t] : t \in Tables}
  /\ \A t \in Tables : Quiet(kind, bs, tb[t], ms[t], st, hs)

Resting == kind \in Kinds /\ Rest(buckets, tab, members, stored, hashing, linked)

\* Tables at rest share no element and hold each in one bucket.
LEMMA RestIsApart ==
  ASSUME kind \in Kinds, NEW bs, NEW tb, NEW ms, NEW st, NEW hs, NEW lk,
         Rest(bs, tb, ms, st, hs, lk)
  PROVE  Apart(bs)
<1> SUFFICES ASSUME NEW n \in Nodes, NEW a \in Arrays, NEW e \in Arrays,
                    NEW i \in indices, NEW j \in indices,
                    n \in Elems(bs[a][i]), n \in Elems(bs[e][j])
             PROVE  a = e /\ i = j
  BY DEF Apart
<1>1. ASSUME NEW b \in Arrays, NEW k \in indices, n \in Elems(bs[b][k])
      PROVE  \E t \in Tables : b = tb[t].array /\ n \in ms[t] /\ k = Home(kind, tb[t], hs, n)
  <2>1. CASE \A t \in Tables : b # tb[t].array
    <3>1. Kept(bs, b, 0)
      BY <2>1 DEF Rest
    <3>2. bs \in Memories /\ 0 \in Nat /\ 0 <= MaxCount
      BY CountIs DEF Rest
    <3>3. k \in 0..(0 - 1)
      BY <1>1, <3>1, <3>2, KeptIs
    <3>. QED
      BY <3>3
  <2>2. ASSUME NEW t \in Tables, b = tb[t].array
        PROVE  n \in ms[t] /\ k = Home(kind, tb[t], hs, n)
    BY <1>1, <2>2 DEF Rest, Quiet, Holds, AtHome
  <2>. QED
    BY <2>1, <2>2
<1>2. PICK t \in Tables : a = tb[t].array /\ n \in ms[t] /\ i = Home(kind, tb[t], hs, n)
  BY <1>1
<1>3. PICK u \in Tables : e = tb[u].array /\ n \in ms[u] /\ j = Home(kind, tb[u], hs, n)
  BY <1>1
<1>4. t = u
  BY <1>2, <1>3 DEF Rest
<1>. QED
  BY <1>2, <1>3, <1>4

\* While no rehash and no growth is in progress every table is at rest.
LEMMA BaseRests ==
  ASSUME IBase, call.op # "rehash", call.op # "grow"
  PROVE  Resting
<1>1. \A t \in Tables : Owned(tab, call, t) = {tab[t].array} /\ ~Busy(call, t)
  BY DEF Owned, Busy
<1>2. \A t, u \in Tables : tab[t].array = tab[u].array => t = u
  BY <1>1 DEF IBase, Exclusive
<1>3. \A a \in Arrays : (\A t \in Tables : a # tab[t].array) => Kept(buckets, a, 0)
  BY <1>1 DEF IBase, Exclusive
<1>4. \A t \in Tables : Quiet(kind, buckets, tab[t], members[t], stored, hashing)
  BY <1>1 DEF IBase
<1>5. ASSUME NEW t \in Tables, NEW u \in Tables, NEW n \in Nodes, n \in members[t], n \in members[u]
      PROVE  t = u
  <2>1. PICK i \in indices : n \in Elems(buckets[tab[t].array][i])
    BY <1>4, <1>5 DEF Quiet, Holds
  <2>2. PICK j \in indices : n \in Elems(buckets[tab[u].array][j])
    BY <1>4, <1>5 DEF Quiet, Holds
  <2>3. tab[t].array \in Arrays /\ tab[u].array \in Arrays
    BY RecIs DEF IBase, Types
  <2>4. tab[t].array = tab[u].array
    BY <2>1, <2>2, <2>3 DEF IBase, Exclusive, Apart
  <2>. QED
    BY <1>2, <2>4
<1>. QED
  BY <1>2, <1>3, <1>4, <1>5 DEF IBase, Types, Exclusive, Resting, Rest, Memories

\* And follows from that and from what it says of the last one.
LEMMA RestIsBase ==
  ASSUME kind' = kind, kind \in Kinds,
         Rest(buckets', tab', members', stored', hashing', linked'),
         \/ call' = None
         \/ call'.op = "clone" /\ pending' = None /\ Cloning(kind, tab', members', call'),
         pending' = None \/ Committable(kind, tab', hashing', call', pending'),
         ~kind.multi => group' = [n \in Nodes |-> Junk]
  PROVE  IBase'
<1>1. call'.op # "rehash" /\ call'.op # "grow"
  BY DEF None
<1>2. \A t \in Tables : Owned(tab', call', t) = {tab'[t].array} /\ ~Busy(call', t)
  BY <1>1 DEF Owned, Busy
<1>3. Types'
  BY DEF Types, Rest, Memories
<1>4. Exclusive'
  <2>1. Apart(buckets')
    BY RestIsApart
  <2>. QED
    BY <1>2, <2>1 DEF Exclusive, Rest
<1>5. \A t \in Tables : Quiet(kind', buckets', tab'[t], members'[t], stored', hashing')
  BY DEF Rest
<1>. QED
  BY <1>3, <1>4, <1>5 DEF IBase
-----------------------------------------------------------------------------
(* The tables other than t, which has the arrays as.                       *)

Others(t, as, bs, tb, ms, st, hs, lk) ==
  /\ bs \in Memories
  /\ st \in [Nodes -> Nat \cup {Junk}]
  /\ hs \in Hashings
  /\ tb \in [Tables -> Recs]
  /\ ms \in [Tables -> SUBSET Nodes]
  /\ \A u, v \in Tables \ {t} : tb[u].array = tb[v].array => u = v
  /\ \A u \in Tables \ {t} : tb[u].array \notin as
  /\ \A e \in Arrays \ as : (\A u \in Tables \ {t} : e # tb[u].array) => Kept(bs, e, 0)
  /\ \A u, v \in Tables, n \in Nodes : n \in ms[u] /\ n \in ms[v] => u = v
  /\ lk = UNION {ms[u] : u \in Tables}
  /\ \A u \in Tables \ {t} : Quiet(kind, bs, tb[u], ms[u], st, hs)

\* If every table is at rest then so are the others.
LEMMA RestIsOthers ==
  ASSUME NEW t \in Tables, NEW bs, NEW tb, NEW ms, NEW st, NEW hs, NEW lk,
         Rest(bs, tb, ms, st, hs, lk)
  PROVE  Others(t, {tb[t].array}, bs, tb, ms, st, hs, lk)
<1>1. \A u \in Tables \ {t} : tb[u].array \notin {tb[t].array}
  BY DEF Rest
<1>2. \A e \in Arrays \ {tb[t].array} :
        (\A u \in Tables \ {t} : e # tb[u].array) => Kept(bs, e, 0)
  BY DEF Rest
<1>. QED
  BY <1>1, <1>2 DEF Rest, Others

\* And if the others are and this one is quiet, every table is at rest.
LEMMA OthersRest ==
  ASSUME NEW t \in Tables, NEW bs, NEW tb, NEW ms, NEW st, NEW hs, NEW lk,
         Others(t, {tb[t].array}, bs, tb, ms, st, hs, lk),
         Quiet(kind, bs, tb[t], ms[t], st, hs)
  PROVE  Rest(bs, tb, ms, st, hs, lk)
<1>1. \A u, v \in Tables : tb[u].array = tb[v].array => u = v
  BY DEF Others
<1>2. \A e \in Arrays : (\A u \in Tables : e # tb[u].array) => Kept(bs, e, 0)
  BY DEF Others
<1>3. \A u \in Tables : Quiet(kind, bs, tb[u], ms[u], st, hs)
  BY DEF Others
<1>. QED
  BY <1>1, <1>2, <1>3 DEF Rest, Others

\* A call on table t leaves the others alone.
Leaves(t, as, bt, bs, tb, ms, st, hs, lk, cs, U, N, su, ht, tc, mc, lc) ==
  /\ kind \in Kinds
  /\ t \in Tables
  /\ bt \in SUBSET Arrays
  /\ Others(t, as, bs, tb, ms, st, hs, lk)
  /\ cs \in Memories
  /\ U \in Recs
  /\ N \in SUBSET Nodes
  /\ su \in [Nodes -> Nat \cup {Junk}]
  /\ ht \in Hashings
  /\ tc = [tb EXCEPT ![t] = U]
  /\ mc = [ms EXCEPT ![t] = N]
  /\ lc = (lk \ ms[t]) \cup N
  /\ \A u \in Tables \ {t} : tb[u].array \notin bt
  /\ \A u \in Tables \ {t}, i \in indices : cs[tb[u].array][i] = bs[tb[u].array][i]
  /\ \A e \in Arrays \ bt : (\A u \in Tables \ {t} : e # tb[u].array) => Kept(cs, e, 0)
  /\ \A u \in Tables \ {t} : \A m \in ms[u] :
       su[m] = st[m] /\ ht[Key[m]] = hs[Key[m]] /\ m \notin N

\* What a call on t leaves to the others.
LEMMA OthersFrame ==
  ASSUME NEW t, NEW as, NEW bt, NEW bs, NEW tb, NEW ms, NEW st, NEW hs, NEW lk, NEW cs,
         NEW U, NEW N, NEW su, NEW ht, NEW tc, NEW mc, NEW lc, Leaves(t, as, bt, bs, tb, ms,
         st, hs, lk, cs, U, N, su, ht, tc, mc, lc)
  PROVE  Others(t, bt, cs, tc, mc, su, ht, lc)
<1>0. /\ kind \in Kinds
      /\ t \in Tables
      /\ bt \in SUBSET Arrays
      /\ Others(t, as, bs, tb, ms, st, hs, lk)
      /\ cs \in Memories
      /\ U \in Recs
      /\ N \in SUBSET Nodes
      /\ su \in [Nodes -> Nat \cup {Junk}]
      /\ ht \in Hashings
      /\ tc = [tb EXCEPT ![t] = U]
      /\ mc = [ms EXCEPT ![t] = N]
      /\ lc = (lk \ ms[t]) \cup N
      /\ \A u \in Tables \ {t} : tb[u].array \notin bt
      /\ \A u \in Tables \ {t}, i \in indices : cs[tb[u].array][i] = bs[tb[u].array][i]
      /\ \A e \in Arrays \ bt : (\A u \in Tables \ {t} : e # tb[u].array) => Kept(cs, e, 0)
      /\ \A u \in Tables \ {t} : \A m \in ms[u] :
            su[m] = st[m] /\ ht[Key[m]] = hs[Key[m]] /\ m \notin N
  BY DEF Leaves
<1> USE <1>0
<1>1. /\ tb \in [Tables -> Recs] /\ ms \in [Tables -> SUBSET Nodes]
      /\ \A u, v \in Tables, n \in Nodes : n \in ms[u] /\ n \in ms[v] => u = v
      /\ lk = UNION {ms[u] : u \in Tables}
      /\ \A u, v \in Tables \ {t} : tb[u].array = tb[v].array => u = v
  BY DEF Others
<1>2. /\ tc \in [Tables -> Recs] /\ mc \in [Tables -> SUBSET Nodes]
      /\ tc[t] = U /\ mc[t] = N
      /\ \A u \in Tables \ {t} : tc[u] = tb[u] /\ mc[u] = ms[u]
  BY <1>1
<1>3. \A u, v \in Tables, n \in Nodes : n \in mc[u] /\ n \in mc[v] => u = v
  BY <1>1, <1>2
<1>4. lc = UNION {mc[u] : u \in Tables}
  <2>1. ASSUME NEW n \in lc
        PROVE  n \in UNION {mc[u] : u \in Tables}
    <3>1. CASE n \in N
      BY <1>2, <3>1
    <3>2. CASE n \notin N
      <4>1. PICK u \in Tables : n \in ms[u]
        BY <1>1, <3>2
      <4>2. u # t
        BY <3>2, <4>1
      <4>. QED
        BY <1>2, <4>1, <4>2
    <3>. QED
      BY <3>1, <3>2
  <2>2. ASSUME NEW n \in UNION {mc[u] : u \in Tables}
        PROVE  n \in lc
    <3>1. PICK u \in Tables : n \in mc[u]
      OBVIOUS
    <3>. QED
      BY <1>1, <1>2, <3>1
  <2>. QED
    BY <2>1, <2>2
<1>5. ASSUME NEW u \in Tables \ {t}
      PROVE  Quiet(kind, cs, tc[u], mc[u], su, ht)
  <2> DEFINE T == tb[u]
             M == ms[u]
  <2>1. Quiet(kind, bs, T, M, st, hs) /\ T \in Recs /\ M \in SUBSET Nodes
    BY <1>1 DEF Others
  <2>2. /\ \A i \in indices : cs[T.array][i] = bs[T.array][i]
        /\ \A m \in M : su[m] = st[m] /\ ht[Key[m]] = hs[Key[m]]
    OBVIOUS
  <2>3. tc[u] = T /\ mc[u] = M
    BY <1>2
  <2> HIDE DEF T, M
  <2>4. T.count \in Nat /\ T.count <= MaxCount /\ T.cache \in Nat
    BY <2>1, RecIs
  <2>5. Quiet(kind, cs, T, M, su, ht)
    BY <2>1, <2>2, <2>4, QuietFrame
  <2>. QED
    BY <2>3, <2>5
<1>6. \A u, v \in Tables \ {t} : tc[u].array = tc[v].array => u = v
  BY <1>1, <1>2
<1>7. \A u \in Tables \ {t} : tc[u].array \notin bt
  BY <1>2
<1>8. \A e \in Arrays \ bt : (\A u \in Tables \ {t} : e # tc[u].array) => Kept(cs, e, 0)
  BY <1>2
<1>. QED
  BY <1>2, <1>3, <1>4, <1>5, <1>6, <1>7, <1>8 DEF Others

\* A call changes t alone, and the buckets of its array.
Changes(t, bs, tb, ms, st, hs, lk, cs, U, N, su, tc, mc, lc) ==
  /\ kind \in Kinds
  /\ t \in Tables
  /\ Rest(bs, tb, ms, st, hs, lk)
  /\ cs \in Memories
  /\ U \in Recs
  /\ N \in SUBSET Nodes
  /\ su \in [Nodes -> Nat \cup {Junk}]
  /\ tc = [tb EXCEPT ![t] = U]
  /\ mc = [ms EXCEPT ![t] = N]
  /\ lc = (lk \ ms[t]) \cup N
  /\ U.array = tb[t].array
  /\ \A e \in Arrays \ {U.array}, i \in indices : cs[e][i] = bs[e][i]
  /\ \A u \in Tables \ {t} : \A m \in ms[u] : su[m] = st[m] /\ m \notin N
  /\ Quiet(kind, cs, U, N, su, hs)

\* A call that changes t alone, and the buckets of its array.
LEMMA RestChanges ==
  ASSUME NEW t, NEW bs, NEW tb, NEW ms, NEW st, NEW hs, NEW lk, NEW cs, NEW U, NEW N, NEW su,
         NEW tc, NEW mc, NEW lc, Changes(t, bs, tb, ms, st, hs, lk, cs, U, N, su, tc, mc,
         lc)
  PROVE  Rest(cs, tc, mc, su, hs, lc)
<1>0. /\ kind \in Kinds
      /\ t \in Tables
      /\ Rest(bs, tb, ms, st, hs, lk)
      /\ cs \in Memories
      /\ U \in Recs
      /\ N \in SUBSET Nodes
      /\ su \in [Nodes -> Nat \cup {Junk}]
      /\ tc = [tb EXCEPT ![t] = U]
      /\ mc = [ms EXCEPT ![t] = N]
      /\ lc = (lk \ ms[t]) \cup N
      /\ U.array = tb[t].array
      /\ \A e \in Arrays \ {U.array}, i \in indices : cs[e][i] = bs[e][i]
      /\ \A u \in Tables \ {t} : \A m \in ms[u] : su[m] = st[m] /\ m \notin N
      /\ Quiet(kind, cs, U, N, su, hs)
  BY DEF Changes
<1> USE <1>0
<1> DEFINE as == {tb[t].array}
<1>1. Others(t, as, bs, tb, ms, st, hs, lk)
  BY RestIsOthers
<1>2. /\ hs \in Hashings /\ tb \in [Tables -> Recs] /\ ms \in [Tables -> SUBSET Nodes]
      /\ \A u \in Tables : tb[u].array \in Arrays
  BY RecIs DEF Rest
<1>3. as \in SUBSET Arrays /\ as = {U.array}
  BY <1>2
<1>4. \A u \in Tables \ {t} : tb[u].array \notin as
  BY <1>1 DEF Others
<1>5. \A u \in Tables \ {t}, i \in indices : cs[tb[u].array][i] = bs[tb[u].array][i]
  BY <1>2, <1>3, <1>4
<1>6. \A e \in Arrays \ as : (\A u \in Tables \ {t} : e # tb[u].array) => Kept(cs, e, 0)
  <2> SUFFICES ASSUME NEW e \in Arrays \ as, \A u \in Tables \ {t} : e # tb[u].array
               PROVE  Kept(cs, e, 0)
    OBVIOUS
  <2>1. Kept(bs, e, 0)
    BY <1>1 DEF Others
  <2>. QED
    BY <1>3, <2>1 DEF Kept
<1> HIDE DEF as
<1>7. Others(t, as, cs, tc, mc, su, hs, lc)
  <2>1. Leaves(t, as, as, bs, tb, ms, st, hs, lk, cs, U, N, su, hs, tc, mc, lc)
    BY <1>1, <1>2, <1>3, <1>4, <1>5, <1>6 DEF Leaves
  <2>. QED
    BY <2>1, OthersFrame, Zenon
<1>8. tc[t] = U /\ mc[t] = N
  BY <1>2
<1>9. Others(t, {tc[t].array}, cs, tc, mc, su, hs, lc)
  BY <1>3, <1>7, <1>8, Zenon
<1>. QED
  BY <1>8, <1>9, OthersRest, Zenon
-----------------------------------------------------------------------------
(* Insertion.                                                              *)

\* Element n comes into table t, which has the record T and the elements M.
LinksIn(t, bs, tb, ms, st, hs, lk, T, M, n, i, p, cs, U, N, tc, mc, su, lc) ==
  /\ kind \in Kinds
  /\ t \in Tables
  /\ Rest(bs, tb, ms, st, hs, lk)
  /\ T \in Recs
  /\ M \in SUBSET Nodes
  /\ T = tb[t]
  /\ M = ms[t]
  /\ n \in Nodes
  /\ n \notin lk
  /\ i = Home(kind, T, hs, n)
  /\ p \in Nat
  /\ 1 <= p
  /\ p <= Len(bs[T.array][i]) + 1
  /\ cs = WithBucket(bs, T.array, i, PutIn(bs[T.array][i], p, n))
  /\ U = Linked(T, i) /\ su = HashStored(st, n, hs[Key[n]])
  /\ N = M \cup {n} /\ lc = lk \cup {n}
  /\ tc = [tb EXCEPT ![t] = U] /\ mc = [ms EXCEPT ![t] = N]

\* All tables are at rest after an element has entered one of them.
LEMMA RestLink ==
  ASSUME NEW t, NEW bs, NEW tb, NEW ms, NEW st, NEW hs, NEW lk, NEW T, NEW M, NEW n, NEW i,
         NEW p, NEW cs, NEW U, NEW N, NEW tc, NEW mc, NEW su, NEW lc,
         LinksIn(t, bs, tb, ms, st, hs, lk, T, M, n, i, p, cs, U, N, tc, mc, su, lc)
  PROVE  /\ Rest(cs, tc, mc, su, hs, lc)
         /\ U.array = T.array /\ U.count = T.count /\ U.split = T.split
<1>0. /\ kind \in Kinds
      /\ t \in Tables
      /\ Rest(bs, tb, ms, st, hs, lk)
      /\ T \in Recs
      /\ M \in SUBSET Nodes
      /\ n \in Nodes
      /\ n \notin lk
      /\ i = Home(kind, T, hs, n)
      /\ p \in Nat
      /\ 1 <= p
      /\ p <= Len(bs[T.array][i]) + 1
  BY DEF LinksIn
<1> USE <1>0
<1>1. /\ T = tb[t] /\ M = ms[t]
      /\ cs = WithBucket(bs, T.array, i, PutIn(bs[T.array][i], p, n))
      /\ U = Linked(T, i) /\ su = HashStored(st, n, hs[Key[n]])
      /\ N = M \cup {n} /\ lc = lk \cup {n}
      /\ tc = [tb EXCEPT ![t] = U] /\ mc = [ms EXCEPT ![t] = N]
  BY DEF LinksIn
<1> DEFINE a  == T.array
           b  == bs[a][i]
<1>2. /\ bs \in Memories /\ hs \in Hashings /\ st \in [Nodes -> Nat \cup {Junk}]
      /\ tb \in [Tables -> Recs] /\ ms \in [Tables -> SUBSET Nodes]
      /\ lk = UNION {ms[u] : u \in Tables}
      /\ \A u, v \in Tables, m \in Nodes : m \in ms[u] /\ m \in ms[v] => u = v
      /\ Quiet(kind, bs, T, M, st, hs)
  BY <1>1 DEF Rest
<1>3. n \notin M /\ \A u \in Tables : n \notin ms[u]
  BY <1>1, <1>2
<1>4. Shaped(kind, T)
  BY <1>2 DEF Quiet
<1>5. i \in 0..(T.count - 1) /\ i \in indices
  BY <1>2, <1>4, HomeIs
<1>6. b \in Seq(Nodes) /\ Distinct(b) /\ n \notin Elems(b) /\ a \in Arrays
  <2>1. b \in Seq(Nodes) /\ Distinct(b) /\ Elems(b) \subseteq M
    <3> HIDE DEF a
    <3>1. kind \in Kinds /\ T \in Recs /\ M \in SUBSET Nodes
      BY <1>0
    <3> HIDE <1>0
    <3>. QED
      BY <1>2, <1>5, <3>1, QuietIs, Zenon DEF a
  <2>. QED
    BY <1>3, <2>1, RecIs
<1>7. PutIn(b, p, n) \in Seq(Nodes)
  BY <1>6, PutInElems
<1>8. Updated(cs, bs, a, i, PutIn(b, p, n))
  BY <1>1, <1>2, <1>5, <1>6, <1>7, InMemory, ExceptUpdates, Zenon DEF WithBucket
<1>9. /\ U \in Recs /\ U.array = T.array /\ U.count = T.count /\ U.split = T.split
      /\ su \in [Nodes -> Nat \cup {Junk}]
      /\ \A m \in Nodes : m # n => su[m] = st[m]
      /\ Quiet(kind, cs, U, N, su, hs)
  <2>1. Joins(bs, cs, T, U, M, N, st, su, hs, n, i, p)
    BY <1>1, <1>2, <1>3, <1>8 DEF Joins
  <2> HIDE <1>0
  <2>. QED
    BY <2>1, QuietLink
<1>10. cs \in Memories /\ \A e \in Arrays \ {U.array}, k \in indices : cs[e][k] = bs[e][k]
  BY <1>8, <1>9 DEF Updated
<1>11. \A u \in Tables \ {t} : \A m \in ms[u] : su[m] = st[m] /\ m \notin N
  BY <1>1, <1>2, <1>3, <1>9
<1>12. lc = (lk \ ms[t]) \cup N
  BY <1>1, <1>2
<1>13. U.array = tb[t].array /\ N \in SUBSET Nodes
  BY <1>1, <1>9
<1>14. Rest(cs, tc, mc, su, hs, lc)
  <2>1. Changes(t, bs, tb, ms, st, hs, lk, cs, U, N, su, tc, mc, lc)
    BY <1>1, <1>9, <1>10, <1>11, <1>12, <1>13, Zenon DEF Changes
  <2> HIDE <1>0
  <2>. QED
    BY <2>1, RestChanges
<1>. QED
  BY <1>9, <1>14

\* Element n may come to position p of its bucket i of table t.
MayEnter(t, n, i, p) ==
  /\ Resting
  /\ t \in Tables /\ n \in Nodes /\ n \notin linked
  /\ i = Home(kind, tab[t], hashing, n)
  /\ p \in Nat /\ 1 <= p /\ p <= Len(buckets[tab[t].array][i]) + 1

\* link() leaves every table at rest.
LEMMA LinkRests ==
  ASSUME NEW t, NEW n, NEW i, NEW p, MayEnter(t, n, i, p),
         NEW first, link(t, i, p, n, first, hashing[Key[n]])
  PROVE  /\ kind' = kind /\ hashing' = hashing
         /\ Rest(buckets', tab', members', stored', hashing', linked')
         /\ ~kind.multi => group' = group
         /\ members' = [members EXCEPT ![t] = @ \cup {n}]
         /\ tab' \in [Tables -> Recs]
         /\ \A u \in Tables : /\ tab'[u].array = tab[u].array /\ tab'[u].count = tab[u].count
                              /\ tab'[u].split = tab[u].split
<1> DEFINE T == tab[t]
           M == members[t]
           U == Linked(T, i)
           N == M \cup {n}
           su == HashStored(stored, n, hashing[Key[n]])
<1>1. /\ kind' = kind /\ hashing' = hashing
      /\ buckets' = WithBucket(buckets, T.array, i, PutIn(buckets[T.array][i], p, n))
      /\ tab' = [tab EXCEPT ![t] = U] /\ members' = [members EXCEPT ![t] = N]
      /\ linked' = linked \cup {n} /\ stored' = su
      /\ ~kind.multi => group' = group
  BY DEF link, WithBucket, Linked, HashStored
<1>2. /\ kind \in Kinds /\ tab \in [Tables -> Recs] /\ members \in [Tables -> SUBSET Nodes]
      /\ Rest(buckets, tab, members, stored, hashing, linked)
      /\ t \in Tables /\ T \in Recs /\ M \in SUBSET Nodes
  BY DEF MayEnter, Resting, Rest
<1>3. /\ Rest(buckets', tab', members', stored', hashing, linked')
      /\ U.array = T.array /\ U.count = T.count /\ U.split = T.split
  <2>1. LinksIn(t, buckets, tab, members, stored, hashing, linked, T, M, n, i, p,
                buckets', U, N, tab', members', stored', linked')
    BY <1>1, <1>2 DEF LinksIn, MayEnter
  <2> HIDE DEF T, M, U, N
  <2>. QED
    BY <2>1, RestLink
<1>4. Rest(buckets', tab', members', stored', hashing', linked')
  BY <1>1, <1>3
<1>5. \A u \in Tables : /\ tab'[u].array = tab[u].array /\ tab'[u].count = tab[u].count
                        /\ tab'[u].split = tab[u].split
  BY <1>1, <1>2, <1>3
<1>6. tab' \in [Tables -> Recs]
  BY <1>4 DEF Rest
<1>. QED
  BY <1>1, <1>4, <1>5, <1>6
-----------------------------------------------------------------------------
(* The operations that insert.                                             *)

\* No call is in progress.
LEMMA IdleIs ==
  ASSUME IBase, idle
  PROVE  /\ call = None /\ Resting
         /\ pending = None \/ Committable(kind, tab, hashing, call, pending)
         /\ ~kind.multi => group = [n \in Nodes |-> Junk]
<1>1. call.op = "none"
  BY DEF idle
<1>2. Resting
  BY <1>1, BaseRests
<1>. QED
  BY <1>1, <1>2 DEF IBase

\* What the invariant says of a table between two calls.
LEMMA RestingIs ==
  ASSUME Resting, NEW t \in Tables
  PROVE  /\ kind \in Kinds /\ buckets \in Memories /\ hashing \in Hashings
         /\ stored \in [Nodes -> Nat \cup {Junk}]
         /\ tab \in [Tables -> Recs] /\ members \in [Tables -> SUBSET Nodes]
         /\ linked = UNION {members[u] : u \in Tables}
         /\ tab[t] \in Recs /\ members[t] \in SUBSET Nodes
         /\ Quiet(kind, buckets, tab[t], members[t], stored, hashing)
         /\ Shaped(kind, tab[t])
         /\ \A i \in 0..(tab[t].count - 1) :
              /\ i \in indices
              /\ bucket(t, i) \in Seq(Nodes) /\ Distinct(bucket(t, i))
              /\ Elems(bucket(t, i)) \subseteq members[t]
<1> DEFINE T == tab[t]
           M == members[t]
<1>1. /\ kind \in Kinds /\ buckets \in Memories /\ hashing \in Hashings
      /\ stored \in [Nodes -> Nat \cup {Junk}]
      /\ tab \in [Tables -> Recs] /\ members \in [Tables -> SUBSET Nodes]
      /\ linked = UNION {members[u] : u \in Tables}
      /\ T \in Recs /\ M \in SUBSET Nodes
      /\ Quiet(kind, buckets, T, M, stored, hashing)
  BY DEF Resting, Rest
<1>2. Shaped(kind, T)
  BY <1>1 DEF Quiet
<1>3. \A i \in 0..(T.count - 1) :
        /\ i \in indices
        /\ buckets[T.array][i] \in Seq(Nodes) /\ Distinct(buckets[T.array][i])
        /\ Elems(buckets[T.array][i]) \subseteq M
  <2> HIDE DEF T, M
  <2>. QED
    BY <1>1, QuietIs, Zenon
<1>. QED
  BY <1>1, <1>2, <1>3 DEF bucket

\* The hash of a key leads to the bucket of the elements with the key.
LEMMA HashIsHome ==
  \A t \in Tables, n \in Nodes :
    priv_hash_to_nbucket(t, hashing[Key[n]]) = Home(kind, tab[t], hashing, n)
BY DEF priv_hash_to_nbucket, Home

\* A link into a table that nobody is working on.
LEMMA LinkIsBase ==
  ASSUME IBase, idle, NEW t, NEW n, NEW i, NEW p, MayEnter(t, n, i, p),
         NEW first, link(t, i, p, n, first, hashing[Key[n]]), pending' = None, call' = call
  PROVE  IBase'
<1>1. Resting /\ call = None /\ (~kind.multi => group = [x \in Nodes |-> Junk])
  BY IdleIs
<1>2. /\ kind' = kind
      /\ Rest(buckets', tab', members', stored', hashing', linked')
      /\ ~kind.multi => group' = group
  BY LinkRests
<1>3. kind \in Kinds
  BY <1>1 DEF Resting
<1>. QED
  BY <1>1, <1>2, <1>3, RestIsBase

\* Between two calls the buckets of a table consist of groups.
LEMMA GroupsRest ==
  ASSUME IBase, IGroups, idle, NEW t \in Tables, NEW i \in 0..(tab[t].count - 1)
  PROVE  /\ Grouped(kind, group, bucket(t, i))
         /\ \A x \in DOMAIN bucket(t, i) :
              kind.store => stored[bucket(t, i)[x]] = hashing[Key[bucket(t, i)[x]]]
<1>1. Resting /\ call.op # "rehash"
  BY IdleIs DEF idle
<1>2. /\ tab[t] \in Recs /\ i \in indices /\ bucket(t, i) \in Seq(Nodes)
      /\ Elems(bucket(t, i)) \subseteq members[t]
      /\ Quiet(kind, buckets, tab[t], members[t], stored, hashing)
  BY <1>1, RestingIs
<1>3. tab[t].array \in Arrays
  BY <1>2, RecIs
<1>4. Fits(kind, group, bucket(t, i))
  BY <1>1, <1>2, <1>3 DEF IGroups, WholeBut, bucket
<1>5. Hashed(kind, members[t], stored, hashing)
  BY <1>2 DEF Quiet
<1>6. \A x \in DOMAIN bucket(t, i) : bucket(t, i)[x] \in members[t]
  BY <1>2 DEF Elems
<1>. QED
  BY <1>2, <1>4, <1>5, <1>6 DEF Fits, Hashed

\* insert_equal() preserves the invariant.
LEMMA InsertEqualBase ==
  ASSUME IBase, IGroups, idle, NEW t \in Tables, NEW n \in Nodes, free(n), insert_equal(t, n)
  PROVE  IBase'
<1> DEFINE h == hashing[Key[n]]
           i == priv_hash_to_nbucket(t, h)
           b == bucket(t, i)
           p == priv_find(b, Key[n], h)
<1>1. Resting
  BY IdleIs
<1>2. i = Home(kind, tab[t], hashing, n)
  BY HashIsHome
<1>3. i \in 0..(tab[t].count - 1)
  BY <1>1, <1>2, RestingIs, HomeIs
<1>4. b \in Seq(Nodes) /\ Distinct(b)
  BY <1>1, <1>3, RestingIs
<1>5. p \in 0..Len(b)
  <2>1. Grouped(kind, group, b) /\ kind \in Kinds
    BY <1>1, <1>3, GroupsRest, RestingIs
  <2>2. \A x \in DOMAIN b : Key[b[x]] = Key[n] => (kind.store => stored[b[x]] = h)
    BY <1>3, GroupsRest
  <2> HIDE DEF b, h
  <2>. QED
    BY <1>4, <2>1, <2>2, FindsFirst, Zenon
<1>6. /\ IF p = 0 THEN link(t, i, 1, n, n, h) ELSE link(t, i, p, n, b[p], h)
      /\ pending' = None /\ call' = call
  BY DEF insert_equal
<1> HIDE DEF h, i, b, p
<1>7. CASE p = 0
  <2>1. 1 \in Nat /\ 1 <= 1 /\ 1 <= Len(b) + 1
    BY <1>4
  <2>2. MayEnter(t, n, i, 1)
    BY <1>1, <1>2, <2>1 DEF MayEnter, b, bucket, free
  <2>. QED
    BY <1>6, <1>7, <2>2, LinkIsBase DEF h
<1>8. CASE p # 0
  <2>1. p \in Nat /\ 1 <= p /\ p <= Len(b) + 1
    BY <1>4, <1>5, <1>8
  <2>2. MayEnter(t, n, i, p)
    BY <1>1, <1>2, <2>1 DEF MayEnter, b, bucket, free
  <2>. QED
    BY <1>6, <1>8, <2>2, LinkIsBase DEF h
<1>. QED
  BY <1>7, <1>8

\* insert_unique() preserves the invariant.
LEMMA InsertUniqueBase ==
  ASSUME IBase, idle, NEW t \in Tables, NEW n \in Nodes, free(n), insert_unique(t, n)
  PROVE  IBase'
<1> DEFINE h == hashing[Key[n]]
           i == priv_hash_to_nbucket(t, h)
           b == bucket(t, i)
<1>1. Resting
  BY IdleIs
<1>2. i = Home(kind, tab[t], hashing, n)
  BY HashIsHome
<1>3. i \in 0..(tab[t].count - 1)
  BY <1>1, <1>2, RestingIs, HomeIs
<1>4. b \in Seq(Nodes)
  BY <1>1, <1>3, RestingIs
<1>5. link(t, i, 1, n, n, h) /\ pending' = None /\ call' = call
  BY DEF insert_unique
<1> HIDE DEF h, i, b
<1>6. 1 \in Nat /\ 1 <= 1 /\ 1 <= Len(b) + 1
  BY <1>4
<1>7. MayEnter(t, n, i, 1)
  BY <1>1, <1>2, <1>6 DEF MayEnter, b, bucket, free
<1>. QED
  BY <1>5, <1>7, LinkIsBase DEF h

\* insert_unique_check() preserves the invariant, and what it has filled can be committed.
LEMMA InsertUniqueCheckBase ==
  ASSUME IBase, idle, NEW t \in Tables, NEW key \in Keys, insert_unique_check(t, key)
  PROVE  IBase'
<1>1. /\ Resting /\ call = None /\ (~kind.multi => group = [x \in Nodes |-> Junk])
  BY IdleIs
<1>2. /\ kind \in Kinds /\ Rest(buckets, tab, members, stored, hashing, linked)
      /\ Shaped(kind, tab[t]) /\ tab[t] \in Recs /\ hashing \in Hashings
  BY <1>1, RestingIs DEF Resting
<1>3. /\ kind' = kind /\ buckets' = buckets /\ tab' = tab /\ members' = members
      /\ stored' = stored /\ hashing' = hashing /\ linked' = linked /\ group' = group
      /\ call' = call
      /\ pending' = [op |-> "commit", table |-> t, key |-> key, hash |-> hashing[key],
                     bucket_idx |-> priv_hash_to_nbucket(t, hashing[key]), rehashed |-> FALSE]
  BY DEF insert_unique_check
<1>4. hashing[key] \in Nat
  BY <1>2, ElementAssumption
<1>5. priv_hash_to_nbucket(t, hashing[key]) \in Nat
  <2> DEFINE T == tab[t]
             h == hashing[key]
             inc == kind.incremental
  <2>1. h \in Nat /\ T.count \in Nat /\ T.split \in Nat /\ T.count > 0 /\ inc \in BOOLEAN
    BY <1>2, <1>4, RecIs, KindIs
  <2>2. inc => T.count = 2 * (T.count \div 2) /\ T.count \div 2 <= T.split /\ T.split <= T.count
    BY <1>2 DEF Shaped
  <2>3. priv_hash_to_nbucket(t, h) = hash_to_bucket_split(h, T.count, T.split, inc)
    BY DEF priv_hash_to_nbucket
  <2> HIDE DEF T, h, inc
  <2>4. hash_to_bucket_split(h, T.count, T.split, inc) \in 0..(T.count - 1)
    BY <2>1, <2>2, SplitIn, Zenon
  <2>. QED
    BY <2>1, <2>3, <2>4 DEF h
<1>6. Committable(kind, tab, hashing, call, pending')
  BY <1>1, <1>3, <1>4, <1>5 DEF Committable, Commits, None, priv_hash_to_nbucket
<1>. QED
  BY <1>1, <1>2, <1>3, <1>6, RestIsBase

\* Both commits preserve the invariant: what the check has found still holds.
LEMMA CommitBase ==
  ASSUME IBase, idle, NEW n \in Nodes,
         insert_unique_commit(n) \/ insert_unique_fast_commit(n)
  PROVE  IBase'
<1> DEFINE t == pending.table
           i == priv_hash_to_nbucket(t, pending.hash)
           b == bucket(t, i)
<1>1. Resting /\ call = None
  BY IdleIs
<1>2. /\ Committable(kind, tab, hashing, call, pending)
      /\ n \in spare(pending.key)
  BY IdleIs DEF insert_unique_commit, insert_unique_fast_commit
<1>3. /\ free(n) /\ Key[n] = pending.key /\ t \in Tables /\ pending.hash = hashing[Key[n]]
  BY <1>2 DEF spare, Committable, Commits
<1>4. i = Home(kind, tab[t], hashing, n)
  BY <1>3, HashIsHome
<1>5. i \in 0..(tab[t].count - 1)
  BY <1>1, <1>3, <1>4, RestingIs, HomeIs
<1>6. b \in Seq(Nodes)
  BY <1>1, <1>3, <1>5, RestingIs
<1>7. ~pending.rehashed => pending.bucket_idx = i
  BY <1>1, <1>2 DEF Committable, priv_hash_to_nbucket, None
<1>8. link(t, i, 1, n, n, pending.hash) /\ pending' = None /\ call' = call
  BY <1>7 DEF insert_unique_commit, insert_unique_fast_commit
<1> HIDE DEF i, b, t
<1>9. 1 \in Nat /\ 1 <= 1 /\ 1 <= Len(b) + 1
  BY <1>6
<1>10. MayEnter(t, n, i, 1)
  BY <1>1, <1>3, <1>4, <1>9 DEF MayEnter, b, bucket, free
<1>11. link(t, i, 1, n, n, hashing[Key[n]])
  BY <1>3, <1>8
<1>. QED
  BY <1>8, <1>10, <1>11, LinkIsBase

\* Every insertion preserves the invariant.
LEMMA InsertNextBase ==
  ASSUME IBase, IGroups, InsertNext \/ CommitNext
  PROVE  IBase'
<1>1. \A key : spare(key) # {} => any(key) \in spare(key)
  BY DEF any
<1>2. \A key, n : n \in spare(key) => n \in Nodes /\ free(n)
  BY DEF spare
<1>3. CASE InsertNext
  <2>1. PICK t \in Tables, key \in Keys :
          /\ idle
          /\ \/ spare(key) # {} /\ (insert_equal(t, any(key)) \/ insert_unique(t, any(key)))
             \/ pending = None /\ insert_unique_check(t, key)
    BY <1>3 DEF InsertNext
  <2>. QED
    BY <1>1, <1>2, <2>1, InsertEqualBase, InsertUniqueBase, InsertUniqueCheckBase
<1>4. CASE CommitNext
  <2>1. /\ idle /\ any(pending.key) \in spare(pending.key)
        /\ insert_unique_commit(any(pending.key)) \/ insert_unique_fast_commit(any(pending.key))
    BY <1>1, <1>4 DEF CommitNext
  <2>. QED
    BY <1>2, <2>1, CommitBase
<1>. QED
  BY <1>3, <1>4
-----------------------------------------------------------------------------
(* The operations that remove.                                             *)

\* How many elements there are without some of them.
LEMMA CountRest ==
  ASSUME NEW M, IsFiniteSet(M), NEW N \in SUBSET M
  PROVE  /\ IsFiniteSet(N) /\ Cardinality(N) \in Nat /\ Cardinality(M) \in Nat
         /\ Cardinality(M \ N) = Cardinality(M) - Cardinality(N)
         /\ Cardinality(M) - Cardinality(N) \in Nat
<1> DEFINE P == M \ N
<1>1. IsFiniteSet(N) /\ IsFiniteSet(P)
  BY FS_Subset
<1>2. Cardinality(N) \in Nat /\ Cardinality(M) \in Nat /\ Cardinality(P) \in Nat
  BY <1>1, FS_CardinalityType
<1>3. P \cup N = M /\ P \cap N = {}
  OBVIOUS
<1> HIDE DEF P
<1>4. Cardinality(P \cup N) = Cardinality(P) + Cardinality(N) - Cardinality(P \cap N)
  BY <1>1, FS_Union
<1>5. Cardinality({}) = 0
  BY FS_EmptySet
<1>6. Cardinality(M) = Cardinality(P) + Cardinality(N)
  <2>1. Cardinality(M) = Cardinality(P) + Cardinality(N) - 0
    BY <1>3, <1>4, <1>5, Zenon
  <2>. QED
    BY <1>2, <2>1
<1>. QED
  BY <1>1, <1>2, <1>6 DEF P

\* The elements ns may leave table t, whose buckets are then those of cs and
\* whose record is U.
MayLeave(t, ns, cs, U) ==
  /\ Resting
  /\ t \in Tables /\ ns \in SUBSET members[t] /\ cs \in Memories /\ U \in Recs
  /\ U.array = tab[t].array /\ U.count = tab[t].count /\ U.split = tab[t].split
  /\ \A e \in Arrays \ {tab[t].array}, i \in indices : cs[e][i] = buckets[e][i]
  /\ Kept(cs, tab[t].array, tab[t].count)
  /\ \A i \in indices, n \in Nodes :
       n \in Elems(cs[tab[t].array][i]) <=> n \in Elems(buckets[tab[t].array][i]) /\ n \notin ns
  /\ Cached(kind, cs, U)
  /\ Sized(kind, U.size, members[t] \ ns)

\* What disposed() leaves in the tables.
LEMMA DisposedMembers ==
  ASSUME Resting, NEW t \in Tables, NEW ns \in SUBSET members[t], NEW g, disposed(ns, g)
  PROVE  members' = [members EXCEPT ![t] = members[t] \ ns]
<1> DEFINE mc == [members EXCEPT ![t] = members[t] \ ns]
<1>1. members \in [Tables -> SUBSET Nodes]
  BY RestingIs
<1>2. \A u \in Tables \ {t} : \A n \in members[u] : n \notin members[t]
  BY DEF Resting, Rest
<1>3. ASSUME NEW u \in Tables
      PROVE  members[u] \ ns = mc[u]
  BY <1>1, <1>2
<1>4. mc = [u \in Tables |-> mc[u]]
  BY <1>1, Zenon
<1>5. members' = [u \in Tables |-> members[u] \ ns]
  BY DEF disposed
<1>. QED
  BY <1>3, <1>4, <1>5, Zenon

\* Elements of one table leave it: every table is at rest after that.
LEMMA RemoveRests ==
  ASSUME NEW t, NEW ns, NEW cs, NEW U, MayLeave(t, ns, cs, U),
         NEW g, disposed(ns, g), buckets' = cs, tab' = [tab EXCEPT ![t] = U]
  PROVE  /\ kind' = kind /\ hashing' = hashing /\ pending' = None
         /\ Rest(buckets', tab', members', stored', hashing', linked')
         /\ ~kind.multi /\ g = [n \in Nodes |-> Junk] => group' = [n \in Nodes |-> Junk]
<1> DEFINE T == tab[t]
           M == members[t]
           N == M \ ns
           su == gone(stored, ns)
<1>1. /\ Resting /\ t \in Tables /\ ns \in SUBSET M
      /\ kind \in Kinds /\ buckets \in Memories /\ hashing \in Hashings
      /\ stored \in [Nodes -> Nat \cup {Junk}]
      /\ tab \in [Tables -> Recs] /\ members \in [Tables -> SUBSET Nodes]
      /\ linked = UNION {members[u] : u \in Tables}
      /\ T \in Recs /\ M \in SUBSET Nodes /\ N \in SUBSET Nodes
      /\ Quiet(kind, buckets, T, M, stored, hashing)
  <2>1. Resting /\ t \in Tables /\ ns \in SUBSET M
    BY DEF MayLeave
  <2>. QED
    BY <2>1, RestingIs
<1>2. \A u \in Tables \ {t} : \A n \in members[u] : n \notin M
  BY <1>1 DEF Resting, Rest
<1>3. /\ kind' = kind /\ hashing' = hashing /\ pending' = None
      /\ linked' = linked \ ns /\ stored' = su
      /\ group' = gone(g, ns)
  BY DEF disposed
<1>4. members' = [members EXCEPT ![t] = N]
  BY <1>1, DisposedMembers
<1>5. su \in [Nodes -> Nat \cup {Junk}] /\ \A n \in Nodes \ ns : su[n] = stored[n]
  BY <1>1 DEF gone
<1>6. linked' = (linked \ M) \cup N
  BY <1>1, <1>3
<1>7. \A u \in Tables \ {t} : \A n \in members[u] : stored'[n] = stored[n] /\ n \notin N
  BY <1>1, <1>2, <1>3, <1>5
<1>8. \A n \in N : stored'[n] = stored[n]
  BY <1>1, <1>3, <1>5
<1>9. Rest(buckets, tab, members, stored, hashing, linked)
  BY <1>1 DEF Resting
<1>10. stored' \in [Nodes -> Nat \cup {Junk}]
  BY <1>3, <1>5
<1>11. Quiet(kind, cs, U, N, stored', hashing)
  <2>1. Departs(buckets, cs, T, U, M, N, ns, stored, stored', hashing)
    BY <1>1, <1>8 DEF Departs, MayLeave
  <2> HIDE DEF T, M, N
  <2>. QED
    BY <2>1, QuietRemove
<1>12. Rest(cs, tab', members', stored', hashing, linked')
  <2>1. Changes(t, buckets, tab, members, stored, hashing, linked, cs, U, N, stored',
                tab', members', linked')
    BY <1>1, <1>4, <1>6, <1>7, <1>9, <1>10, <1>11 DEF Changes, MayLeave
  <2> HIDE DEF N
  <2>. QED
    BY <2>1, RestChanges
<1>13. ~kind.multi /\ g = [n \in Nodes |-> Junk] => group' = [n \in Nodes |-> Junk]
  BY <1>3 DEF gone
<1>. QED
  BY <1>3, <1>12, <1>13

\* The invariant holds after elements have left one table.
LEMMA RemoveIsBase ==
  ASSUME IBase, idle, NEW t, NEW ns, NEW cs, NEW U, MayLeave(t, ns, cs, U),
         NEW g, ~kind.multi => g = group,
         disposed(ns, g), buckets' = cs, tab' = [tab EXCEPT ![t] = U], call' = call
  PROVE  IBase'
<1>1. Resting /\ call = None /\ (~kind.multi => group = [x \in Nodes |-> Junk])
  BY IdleIs
<1>2. /\ kind' = kind /\ pending' = None
      /\ Rest(buckets', tab', members', stored', hashing', linked')
      /\ ~kind.multi /\ g = [n \in Nodes |-> Junk] => group' = [n \in Nodes |-> Junk]
  BY RemoveRests, Zenon
<1>3. kind \in Kinds
  BY <1>1 DEF Resting
<1>. QED
  BY <1>1, <1>2, <1>3, RestIsBase

\* Positions p to q - 1 are cut from bucket i of an array.
Cuts(bs, cs, a, c, b, i, p, q, ns) ==
  /\ bs \in Memories /\ a \in Arrays /\ c \in Nat /\ c <= MaxCount /\ Kept(bs, a, c)
  /\ i \in 0..(c - 1) /\ b = bs[a][i]
  /\ p \in Nat /\ q \in Nat /\ 1 <= p /\ p <= q /\ q <= Len(b) + 1
  /\ cs = WithBucket(bs, a, i, Cut(b, p, q))
  /\ ns = {b[x] : x \in p..(q - 1)}

\* The buckets of a table after a cut in one of them.
LEMMA CutKept ==
  ASSUME NEW bs, NEW cs, NEW a, NEW c, NEW b, NEW i, NEW p, NEW q, NEW ns,
         Cuts(bs, cs, a, c, b, i, p, q, ns)
  PROVE  /\ cs \in Memories
         /\ \A e \in Arrays, k \in indices : e # a \/ k # i => cs[e][k] = bs[e][k]
         /\ cs[a][i] = Cut(b, p, q)
         /\ Kept(cs, a, c)
         /\ ns \subseteq Elems(b) /\ Cardinality(ns) = q - p
         /\ Elems(cs[a][i]) = Elems(b) \ ns
<1>0. /\ bs \in Memories /\ a \in Arrays /\ c \in Nat /\ c <= MaxCount /\ Kept(bs, a, c)
      /\ i \in 0..(c - 1)
      /\ p \in Nat /\ q \in Nat /\ 1 <= p /\ p <= q /\ q <= Len(b) + 1
  BY DEF Cuts
<1> USE <1>0
<1>1. i \in indices /\ b \in Seq(Nodes) /\ Distinct(b)
  BY KeptIs DEF Cuts
<1>11. ns = Elems(Piece(b, p, q))
  <2>1. Elems(Piece(b, p, q)) = {b[x] : x \in p..(q - 1)}
    <3>1. Elems(Piece(b, p, q)) = Stretch(b, p, q)
      BY <1>0, <1>1, PieceElems
    <3>. QED
      BY <3>1 DEF Stretch
  <2>. QED
    BY <2>1 DEF Cuts
<1>2. /\ Cut(b, p, q) \in Seq(Nodes)
      /\ Distinct(Cut(b, p, q)) /\ Elems(Cut(b, p, q)) = Elems(b) \ ns
  <2>1. Elems(Cut(b, p, q)) = Elems(b) \ Elems(Piece(b, p, q)) /\ Distinct(Cut(b, p, q))
    BY <1>1, CutElems
  <2>2. Cut(b, p, q) \in Seq(Nodes)
    BY <1>1, CutProperties
  <2>. QED
    BY <1>11, <2>1, <2>2
<1>3. ns \subseteq Elems(b) /\ Cardinality(ns) = q - p
  BY <1>1, <1>11, PieceElems
<1>4. Updated(cs, bs, a, i, Cut(b, p, q))
  BY <1>1, <1>2, InMemory, ExceptUpdates, Zenon DEF WithBucket, Cuts
<1>5. /\ cs \in Memories /\ cs[a][i] = Cut(b, p, q)
      /\ \A e \in Arrays, k \in indices : e # a \/ k # i => cs[e][k] = bs[e][k]
  BY <1>1, <1>4 DEF Updated
<1>6. Kept(cs, a, c)
  <2> SUFFICES ASSUME NEW k \in indices
               PROVE  IF k < c THEN cs[a][k] \in Seq(Nodes) /\ Distinct(cs[a][k])
                      ELSE cs[a][k] = <<Junk>>
    BY DEF Kept
  <2>1. CASE k = i
    BY <1>2, <1>5, <2>1
  <2>2. CASE k # i
    BY <1>5, <2>2 DEF Kept
  <2>. QED
    BY <2>1, <2>2
<1>. QED
  BY <1>2, <1>3, <1>5, <1>6

\* The same for a bucket of a table that no call is working on.
CutsOut(bs, cs, T, M, st, hs, b, i, p, q, ns) ==
  /\ kind \in Kinds /\ bs \in Memories /\ T \in Recs /\ M \in SUBSET Nodes
  /\ Quiet(kind, bs, T, M, st, hs)
  /\ i \in 0..(T.count - 1) /\ b = bs[T.array][i]
  /\ p \in Nat /\ q \in Nat /\ 1 <= p /\ p <= q /\ q <= Len(b) + 1
  /\ cs = WithBucket(bs, T.array, i, Cut(b, p, q))
  /\ ns = {b[x] : x \in p..(q - 1)}

\* A cut in one bucket takes elements out of one table.
LEMMA CutOut ==
  ASSUME NEW bs, NEW cs, NEW T, NEW M, NEW st, NEW hs, NEW b, NEW i, NEW p, NEW q, NEW ns,
         CutsOut(bs, cs, T, M, st, hs, b, i, p, q, ns)
  PROVE  /\ cs \in Memories
         /\ \A e \in Arrays \ {T.array}, k \in indices : cs[e][k] = bs[e][k]
         /\ \A k \in indices : k # i => cs[T.array][k] = bs[T.array][k]
         /\ cs[T.array][i] = Cut(b, p, q)
         /\ Kept(cs, T.array, T.count)
         /\ \A k \in indices, n \in Nodes :
              n \in Elems(cs[T.array][k]) <=> n \in Elems(bs[T.array][k]) /\ n \notin ns
         /\ ns \subseteq M
         /\ Cardinality(M \ ns) = Cardinality(M) - (q - p)
         /\ Cardinality(M) - (q - p) \in Nat
<1> DEFINE a == T.array
<1>0. /\ kind \in Kinds /\ bs \in Memories /\ T \in Recs /\ M \in SUBSET Nodes
      /\ Quiet(kind, bs, T, M, st, hs)
      /\ i \in 0..(T.count - 1)
      /\ p \in Nat /\ q \in Nat /\ 1 <= p /\ p <= q /\ q <= Len(b) + 1
  BY DEF CutsOut
<1> USE <1>0
<1>00. b = bs[a][i]
  BY DEF CutsOut
<1>1. a \in Arrays /\ T.count \in Nat /\ T.count <= MaxCount /\ i \in indices
  BY RecIs
<1>2. Kept(bs, a, T.count)
  BY DEF Quiet
<1>3. /\ IsFiniteSet(M) /\ Elems(b) \subseteq M
      /\ \A k \in indices, n \in Nodes : n \in Elems(bs[a][k]) => k = Home(kind, T, hs, n)
  <2>1. /\ IsFiniteSet(M)
        /\ Elems(bs[T.array][i]) \subseteq M
        /\ \A k \in indices, n \in Nodes : n \in Elems(bs[T.array][k]) => k = Home(kind, T, hs, n)
    BY QuietIs
  <2>. QED
    BY <1>00, <2>1
<1>4. /\ cs \in Memories
      /\ \A e \in Arrays, k \in indices : e # a \/ k # i => cs[e][k] = bs[e][k]
      /\ cs[a][i] = Cut(b, p, q)
      /\ Kept(cs, a, T.count)
      /\ ns \subseteq Elems(b) /\ Cardinality(ns) = q - p
      /\ Elems(cs[a][i]) = Elems(b) \ ns
  <2>1. Cuts(bs, cs, a, T.count, b, i, p, q, ns)
    BY <1>1, <1>2 DEF Cuts, CutsOut
  <2> HIDE <1>0 DEF a
  <2>. QED
    BY <2>1, CutKept
<1> HIDE DEF a
<1>5. ASSUME NEW k \in indices, NEW n \in Nodes
      PROVE  n \in Elems(cs[a][k]) <=> n \in Elems(bs[a][k]) /\ n \notin ns
  <2>1. CASE k = i
    BY <1>00, <1>4, <2>1
  <2>2. CASE k # i
    <3>1. cs[a][k] = bs[a][k]
      BY <1>1, <1>4, <2>2
    <3>2. n \in Elems(bs[a][k]) => n \notin Elems(b)
      BY <1>00, <1>1, <1>3, <2>2
    <3>. QED
      BY <1>4, <3>1, <3>2
  <2>. QED
    BY <2>1, <2>2
<1>6. ns \in SUBSET M
  BY <1>3, <1>4
<1>7. /\ Cardinality(M \ ns) = Cardinality(M) - Cardinality(ns)
      /\ Cardinality(M) - Cardinality(ns) \in Nat
  BY <1>3, <1>6, CountRest, Zenon
<1>8. Cardinality(M \ ns) = Cardinality(M) - (q - p) /\ Cardinality(M) - (q - p) \in Nat
  BY <1>4, <1>7
<1>. QED
  BY <1>1, <1>4, <1>5, <1>6, <1>8 DEF a

\* Elements have left bucket i of the table T, which is U but for the cached bucket.
Thinned(bs, T, M, st, hs, cs, U, i) ==
  /\ kind \in Kinds
  /\ bs \in Memories
  /\ T \in Recs
  /\ M \in SUBSET Nodes
  /\ Quiet(kind, bs, T, M, st, hs)
  /\ U \in Recs
  /\ U.array = T.array
  /\ U.count = T.count
  /\ U.cache = T.cache
  /\ i \in 0..(T.count - 1)
  /\ bs[T.array][i] # <<>>
  /\ \A k \in indices : k # i => cs[T.array][k] = bs[T.array][k]

\* The cached bucket after elements have left bucket i.
LEMMA CachedAfter ==
  ASSUME NEW bs, NEW T, NEW M, NEW st, NEW hs, NEW cs, NEW U, NEW i, Thinned(bs, T, M, st,
         hs, cs, U, i)
  PROVE  /\ Cached(kind, cs, priv_erasure_update_cache(cs, U))
         /\ T.cache # i \/ cs[T.array][i] # <<>> => Cached(kind, cs, U)
<1>0. /\ kind \in Kinds
      /\ bs \in Memories
      /\ T \in Recs
      /\ M \in SUBSET Nodes
      /\ Quiet(kind, bs, T, M, st, hs)
      /\ U \in Recs
      /\ U.array = T.array
      /\ U.count = T.count
      /\ U.cache = T.cache
      /\ i \in 0..(T.count - 1)
      /\ bs[T.array][i] # <<>>
      /\ \A k \in indices : k # i => cs[T.array][k] = bs[T.array][k]
  BY DEF Thinned
<1> USE <1>0
<1> DEFINE V == priv_erasure_update_cache(cs, U)
<1>1. /\ kind.cache => IsFirst(bs, T.array, T.count, T.cache)
      /\ ~kind.cache => T.cache = 0
      /\ T.cache <= T.count
      /\ \A k \in 0..(T.cache - 1) : bs[T.array][k] = <<>>
  BY QuietIs, Zenon
<1>2. /\ T.count \in Nat /\ T.cache \in Nat /\ \A k \in 0..(T.count - 1) : k \in indices
  BY RecIs
<1>3. /\ V \in Recs /\ V.array = T.array /\ V.count = T.count
      /\ V.cache = IF kind.cache THEN first_used(cs, U, T.cache) ELSE T.cache
  BY <1>1, ErasureCache
<1> HIDE DEF V
<1>4. \A k \in 0..(T.cache - 1) : cs[T.array][k] = <<>>
  BY <1>1, <1>2
<1>5. T.cache \in 0..U.count
  BY <1>1, <1>2
<1>6. kind.cache => IsFirst(cs, U.array, U.count, first_used(cs, U, T.cache))
  BY <1>4, <1>5, FirstAfter, Zenon
<1>7. Cached(kind, cs, V)
  BY <1>1, <1>3, <1>6 DEF Cached
<1>8. ASSUME T.cache # i \/ cs[T.array][i] # <<>>, kind.cache
      PROVE  IsFirst(cs, T.array, T.count, T.cache)
  BY <1>1, <1>2, <1>4, <1>8 DEF IsFirst
<1>9. T.cache # i \/ cs[T.array][i] # <<>> => Cached(kind, cs, U)
  BY <1>1, <1>8 DEF Cached
<1>. QED
  BY <1>7, <1>9 DEF V

\* Positions p to q - 1 of bucket i leave table t, whose record is then V, or S
\* if the bucket is not the cached one or not empty.
CutsFrom(t, i, p, q, k, b, cs, ns, S, V) ==
  /\ Resting /\ t \in Tables
  /\ i \in 0..(tab[t].count - 1) /\ b = buckets[tab[t].array][i]
  /\ p \in Nat /\ q \in Nat /\ 1 <= p /\ p < q /\ q <= Len(b) + 1 /\ k = q - p
  /\ cs = WithBucket(buckets, tab[t].array, i, Cut(b, p, q))
  /\ ns = {b[x] : x \in p..(q - 1)}
  /\ S = priv_size_count(tab[t], tab[t].size - k)
  /\ V = priv_erasure_update_cache(cs, S)

\* A cut leaves the table at rest if the cached bucket is updated.
LEMMA CutLeaves ==
  ASSUME NEW t, NEW i, NEW p, NEW q, NEW k, NEW b, NEW cs, NEW ns, NEW S, NEW V,
         CutsFrom(t, i, p, q, k, b, cs, ns, S, V)
  PROVE  /\ MayLeave(t, ns, cs, V)
         /\ S.cache # i \/ Len(b) # k => MayLeave(t, ns, cs, S)
<1> DEFINE T == tab[t]
           M == members[t]
<1>1. /\ Resting /\ t \in Tables /\ i \in 0..(T.count - 1)
      /\ p \in Nat /\ q \in Nat /\ 1 <= p /\ p < q /\ q <= Len(b) + 1 /\ k = q - p
  BY DEF CutsFrom
<1>2. /\ kind \in Kinds /\ buckets \in Memories /\ T \in Recs /\ M \in SUBSET Nodes
      /\ Quiet(kind, buckets, T, M, stored, hashing)
  BY <1>1, RestingIs
<1>3. /\ b = buckets[T.array][i]
      /\ cs = WithBucket(buckets, T.array, i, Cut(b, p, q))
      /\ ns = {b[x] : x \in p..(q - 1)}
      /\ S = priv_size_count(T, T.size - k)
      /\ V = priv_erasure_update_cache(cs, S)
  BY DEF CutsFrom
<1> HIDE DEF T, M
<1>4. b \in Seq(Nodes) /\ Len(b) \in Nat
  <2>1. i \in 0..(T.count - 1)
    BY <1>1
  <2>2. buckets[T.array][i] \in Seq(Nodes)
    BY <1>2, <2>1, QuietIs, Zenon
  <2>3. b \in Seq(Nodes)
    BY <1>3, <2>2
  <2>. QED
    BY <2>3, ElemsOfSeq
<1>5. p <= q /\ k \in Nat
  BY <1>1
<1>6. /\ cs \in Memories
      /\ \A e \in Arrays \ {T.array}, j \in indices : cs[e][j] = buckets[e][j]
      /\ \A j \in indices : j # i => cs[T.array][j] = buckets[T.array][j]
      /\ cs[T.array][i] = Cut(b, p, q)
      /\ Kept(cs, T.array, T.count)
      /\ \A j \in indices, n \in Nodes :
           n \in Elems(cs[T.array][j]) <=> n \in Elems(buckets[T.array][j]) /\ n \notin ns
      /\ ns \subseteq M
      /\ Cardinality(M \ ns) = Cardinality(M) - k
      /\ Cardinality(M) - k \in Nat
  <2>1. CutsOut(buckets, cs, T, M, stored, hashing, b, i, p, q, ns)
    BY <1>1, <1>2, <1>3, <1>5 DEF CutsOut
  <2>2. /\ cs \in Memories
        /\ \A e \in Arrays \ {T.array}, j \in indices : cs[e][j] = buckets[e][j]
        /\ \A j \in indices : j # i => cs[T.array][j] = buckets[T.array][j]
        /\ cs[T.array][i] = Cut(b, p, q)
        /\ Kept(cs, T.array, T.count)
        /\ \A j \in indices, n \in Nodes :
             n \in Elems(cs[T.array][j]) <=> n \in Elems(buckets[T.array][j]) /\ n \notin ns
        /\ ns \subseteq M
        /\ Cardinality(M \ ns) = Cardinality(M) - (q - p)
        /\ Cardinality(M) - (q - p) \in Nat
    BY <2>1, CutOut, ZenonT(40)
  <2>3. k = q - p
    BY <1>1
  <2>. QED
    BY <2>2, <2>3
<1>7. T.size = (IF kind.counted THEN Cardinality(M) ELSE 0) /\ T.cache <= T.count
  BY <1>2, QuietIs
<1>8. /\ S \in Recs /\ S.array = T.array /\ S.count = T.count /\ S.split = T.split
      /\ S.cache = T.cache /\ S.size = IF kind.counted THEN T.size - k ELSE T.size
  <2>1. kind.counted => T.size - k \in Nat
    BY <1>6, <1>7
  <2>. QED
    BY <1>2, <1>3, <2>1, SetSize
<1>9. /\ V \in Recs /\ V.array = T.array /\ V.count = T.count /\ V.split = T.split
      /\ V.size = S.size
  BY <1>3, <1>7, <1>8, ErasureCache
<1>10. /\ Cached(kind, cs, V)
       /\ T.cache # i \/ cs[T.array][i] # <<>> => Cached(kind, cs, S)
  <2>1. buckets[T.array][i] # <<>>
    BY <1>1, <1>3, <1>4
  <2>2. Thinned(buckets, T, M, stored, hashing, cs, S, i)
    BY <1>1, <1>2, <1>6, <1>8, <2>1 DEF Thinned
  <2>. QED
    BY <1>3, <2>2, CachedAfter
<1>11. Len(b) # k => cs[T.array][i] # <<>>
  <2>1. Len(Cut(b, p, q)) = Len(b) - (q - p)
    BY <1>1, <1>4, <1>5, CutProperties
  <2>2. Len(b) # k => Len(Cut(b, p, q)) # 0
    BY <1>1, <1>4, <2>1
  <2>3. Len(<<>>) = 0
    OBVIOUS
  <2>. QED
    BY <1>6, <2>2, <2>3
<1>12. Sized(kind, S.size, M \ ns) /\ Sized(kind, V.size, M \ ns)
  BY <1>6, <1>7, <1>8, <1>9 DEF Sized
<1>. QED
  BY <1>1, <1>6, <1>8, <1>9, <1>10, <1>11, <1>12 DEF MayLeave, T, M

\* erase() of one element preserves the invariant.
LEMMA EraseBase ==
  ASSUME IBase, idle, NEW t \in Tables, NEW i \in used(t), NEW p \in DOMAIN bucket(t, i),
         erase(t, i, p)
  PROVE  IBase'
<1> DEFINE b  == bucket(t, i)
           q  == p + 1
           S  == priv_size_count(tab[t], tab[t].size - 1)
           cs == WithBucket(buckets, tab[t].array, i, Cut(b, p, q))
           ns == {b[p]}
           V  == priv_erasure_update_cache(cs, S)
           U  == IF S.cache = i /\ Len(b) = 1 THEN V ELSE S
           g  == IF kind.multi THEN groups_after_node(b, group, b[p]) ELSE group
<1>1. Resting
  BY IdleIs
<1>2. i \in 0..(tab[t].count - 1) /\ b \in Seq(Nodes)
  BY <1>1, RestingIs DEF used
<1>3. b = buckets[tab[t].array][i] /\ p \in DOMAIN b
  BY DEF bucket
<1>4. buckets' = cs
  BY DEF erase, bucket, WithBucket
<1>5. disposed(ns, g) /\ tab' = [tab EXCEPT ![t] = U] /\ call' = call
  BY <1>4, Zenon DEF erase
<1> HIDE DEF b
<1>6. p \in Nat /\ q \in Nat /\ 1 <= p /\ p < q /\ q <= Len(b) + 1 /\ 1 = q - p
  <2>1. Len(b) \in Nat /\ DOMAIN b = 1..Len(b)
    BY <1>2, ElemsOfSeq
  <2>2. p \in 1..Len(b)
    BY <1>3, <2>1
  <2>. QED
    BY <2>1, <2>2
<1>7. p..(q - 1) = {p}
  BY <1>6
<1> HIDE DEF q
<1>8. ns = {b[x] : x \in p..(q - 1)}
  BY <1>7
<1> HIDE DEF cs, ns, g, S, V
<1>9. CutsFrom(t, i, p, q, 1, b, cs, ns, S, V)
  BY <1>1, <1>2, <1>3, <1>6, <1>8 DEF CutsFrom, cs, S, V
<1>10. /\ MayLeave(t, ns, cs, V)
       /\ S.cache # i \/ Len(b) # 1 => MayLeave(t, ns, cs, S)
  BY <1>9, CutLeaves, Zenon
<1>11. MayLeave(t, ns, cs, U)
  BY <1>10
<1>12. ~kind.multi => g = group
  BY DEF g
<1> HIDE DEF U
<1>. QED
  BY <1>4, <1>5, <1>11, <1>12, RemoveIsBase, Zenon

\* The home of a key is a bucket in use.
LEMMA KeyHome ==
  ASSUME Resting, NEW t \in Tables, NEW key \in Keys
  PROVE  priv_hash_to_nbucket(t, hashing[key]) \in 0..(tab[t].count - 1)
<1> DEFINE T == tab[t]
           h == hashing[key]
           i == priv_hash_to_nbucket(t, h)
           inc == kind.incremental
<1>1. /\ kind \in Kinds /\ hashing \in Hashings /\ T \in Recs /\ Shaped(kind, T)
  BY RestingIs
<1>2. h \in Nat /\ T.count \in Nat /\ T.split \in Nat /\ T.count > 0 /\ inc \in BOOLEAN
  BY <1>1, RecIs, KindIs, ElementAssumption
<1>3. inc => T.count = 2 * (T.count \div 2) /\ T.count \div 2 <= T.split /\ T.split <= T.count
  BY <1>1 DEF Shaped
<1>4. i = hash_to_bucket_split(h, T.count, T.split, inc)
  BY DEF priv_hash_to_nbucket
<1> HIDE DEF T, h, inc, i
<1>5. hash_to_bucket_split(h, T.count, T.split, inc) \in 0..(T.count - 1)
  BY <1>2, <1>3, SplitIn, Zenon
<1>6. i \in 0..(T.count - 1)
  BY <1>4, <1>5
<1>. QED
  BY <1>6 DEF i, T, h

\* erase() of a key preserves the invariant.
LEMMA EraseKeyBase ==
  ASSUME IBase, IGroups, idle, NEW t \in Tables, NEW key \in Keys, erase_key(t, key)
  PROVE  IBase'
<1> DEFINE h  == hashing[key]
           i  == priv_hash_to_nbucket(t, h)
           b  == bucket(t, i)
           p  == priv_find(b, key, h)
           q  == past_equal(b, p, key, h)
           S  == priv_size_count(tab[t], tab[t].size - (q - p))
           cs == WithBucket(buckets, tab[t].array, i, Cut(b, p, q))
           ns == {b[x] : x \in p..(q - 1)}
           V  == priv_erasure_update_cache(cs, S)
           g  == groups_after(b, group, p, q)
<1>1. Resting
  BY IdleIs
<1>2. i \in 0..(tab[t].count - 1)
  BY <1>1, KeyHome
<1> HIDE DEF h, i
<1>3. b \in Seq(Nodes) /\ Distinct(b) /\ b = buckets[tab[t].array][i]
  BY <1>1, <1>2, RestingIs DEF bucket
<1>4. buckets' = cs /\ disposed(ns, g) /\ tab' = [tab EXCEPT ![t] = V] /\ call' = call /\ p # 0
  BY Zenon DEF erase_key, bucket, WithBucket, h, i
<1> HIDE DEF b, p
<1>e. /\ kind \in Kinds /\ Grouped(kind, group, b)
      /\ \A x \in DOMAIN b : Key[b[x]] = key => (kind.store => stored[b[x]] = h)
  <2>1. bucket(t, i) = b
    BY DEF b
  <2>. QED
    BY <1>1, <1>2, <2>1, GroupsRest, RestingIs DEF h
<1>5. p \in 1..Len(b) /\ Len(b) \in Nat /\ p \in Starts(b) /\ Key[b[p]] = key
  <2>1. /\ p \in 0..Len(b)
        /\ p # 0 => p \in Starts(b) /\ Key[b[p]] = key
    <3>1. p = priv_find(b, key, h)
      BY DEF p
    <3>. QED
      BY <1>3, <1>e, <3>1, FindsFirst
  <2>2. Len(b) \in Nat
    BY <1>3, ElemsOfSeq
  <2>. QED
    BY <1>4, <2>1, <2>2
<1>6. q \in (p + 1)..(Len(b) + 1)
  <2>1. q = past_equal(b, p, key, h)
    OBVIOUS
  <2> HIDE DEF q
  <2>2. RangeOf(b, p, q, key)
    BY <1>3, <1>5, <1>e, <2>1, FindsEnd, Zenon
  <2>. QED
    BY <2>2 DEF RangeOf
<1> HIDE DEF q
<1>7. p \in Nat /\ q \in Nat /\ 1 <= p /\ p < q /\ q <= Len(b) + 1
  BY <1>5, <1>6
<1> HIDE DEF cs, ns, g, S, V
<1>8. CutsFrom(t, i, p, q, q - p, b, cs, ns, S, V)
  BY <1>1, <1>2, <1>3, <1>7 DEF CutsFrom, cs, ns, S, V
<1>9. MayLeave(t, ns, cs, V)
  BY <1>8, CutLeaves
<1>10. ~kind.multi => g = group
  BY DEF g, groups_after
<1>. QED
  BY <1>4, <1>9, <1>10, RemoveIsBase, Zenon

\* A table without elements.
LEMMA ClearedIs ==
  ASSUME kind \in Kinds, NEW bs \in Memories, NEW T \in Recs, NEW M \in SUBSET Nodes, NEW st,
         NEW hs, Quiet(kind, bs, T, M, st, hs)
  PROVE  LET cs == cleared(bs, T)
             U  == priv_size_count(priv_init_cache(T), 0)
         IN  /\ cs \in Memories
             /\ \A e \in Arrays \ {T.array}, k \in indices : cs[e][k] = bs[e][k]
             /\ \A k \in 0..(T.count - 1) : cs[T.array][k] = <<>>
             /\ Kept(cs, T.array, T.count)
             /\ \A k \in indices, n \in Nodes : n \notin Elems(cs[T.array][k])
             /\ U \in Recs /\ U.array = T.array /\ U.count = T.count /\ U.split = T.split
             /\ U.size = 0 /\ U.cache = IF kind.cache THEN T.count ELSE 0
             /\ Cached(kind, cs, U) /\ Sized(kind, U.size, {})
<1> DEFINE a  == T.array
           cs == cleared(bs, T)
           U  == priv_size_count(priv_init_cache(T), 0)
<1>1. /\ T.count \in Nat /\ T.cache \in Nat /\ T.count <= MaxCount /\ a \in Arrays
      /\ \A k \in 0..(T.count - 1) : k \in indices
      /\ \A k \in indices : k \in Nat
  BY RecIs DEF indices
<1>2. /\ \A k \in 0..(T.cache - 1) : bs[a][k] = <<>>
      /\ \A k \in indices : ~(k < T.count) => bs[a][k] = <<Junk>>
      /\ ~kind.cache => T.cache = 0
      /\ T.size = IF kind.counted THEN Cardinality(M) ELSE 0
  <2> HIDE DEF a
  <2>. QED
    BY QuietIs, Zenon DEF a
<1>3. /\ cs \in Memories
      /\ \A e \in Arrays \ {a}, k \in indices : cs[e][k] = bs[e][k]
      /\ \A k \in indices : cs[a][k] = IF k \in T.cache..(T.count - 1) THEN <<>> ELSE bs[a][k]
  BY <1>1 DEF cleared, Memories
<1> HIDE DEF cs
<1>4. \A k \in indices : cs[a][k] = IF k < T.count THEN <<>> ELSE <<Junk>>
  <2> SUFFICES ASSUME NEW k \in indices
               PROVE  cs[a][k] = IF k < T.count THEN <<>> ELSE <<Junk>>
    OBVIOUS
  <2>1. CASE k < T.cache
    <3>1. k \in 0..(T.cache - 1)
      BY <1>1, <2>1
    <3>2. T.cache <= T.count
      BY QuietIs, Zenon
    <3>. QED
      BY <1>1, <1>2, <1>3, <2>1, <3>1, <3>2
  <2>2. CASE ~(k < T.cache)
    BY <1>1, <1>2, <1>3, <2>2
  <2>. QED
    BY <2>1, <2>2
<1>5. Kept(cs, a, T.count)
  BY <1>4, EmptyBucket, Zenon DEF Kept
<1>6. ASSUME NEW k \in indices, NEW n \in Nodes
      PROVE  n \notin Elems(cs[a][k])
  <2>1. Elems(<<>>) = {} /\ Elems(<<Junk>>) = {Junk}
    BY EmptyBucket, SingleBucket
  <2>2. n # Junk
    BY ElementAssumption
  <2>. QED
    BY <1>4, <2>1, <2>2
<1>7. /\ U \in Recs /\ U.array = a /\ U.count = T.count /\ U.split = T.split
      /\ U.cache = IF kind.cache THEN T.count ELSE T.cache
      /\ U.size = IF kind.counted THEN 0 ELSE T.size
  <2> DEFINE W == priv_init_cache(T)
  <2>1. /\ W \in Recs /\ W.array = a /\ W.count = T.count /\ W.split = T.split
        /\ W.size = T.size /\ W.cache = IF kind.cache THEN T.count ELSE T.cache
    BY InitCache
  <2> HIDE DEF W
  <2>2. /\ priv_size_count(W, 0) \in Recs /\ priv_size_count(W, 0).array = W.array
        /\ priv_size_count(W, 0).count = W.count /\ priv_size_count(W, 0).split = W.split
        /\ priv_size_count(W, 0).cache = W.cache
        /\ priv_size_count(W, 0).size = IF kind.counted THEN 0 ELSE W.size
    BY <2>1, SetSize
  <2>. QED
    BY <2>1, <2>2 DEF W
<1> HIDE DEF U
<1>8. Cardinality({}) = 0
  BY FS_EmptySet
<1>9. U.size = 0 /\ Sized(kind, U.size, {}) /\ U.cache = IF kind.cache THEN T.count ELSE 0
  BY <1>2, <1>7, <1>8 DEF Sized
<1>10. Cached(kind, cs, U)
  <2>1. IsFirst(cs, a, T.count, T.count)
    <3>1. \A k \in 0..(T.count - 1) : cs[a][k] = <<>>
      BY <1>1, <1>4
    <3>. QED
      BY <1>1, <3>1 DEF IsFirst
  <2>. QED
    BY <1>7, <1>9, <2>1 DEF Cached
<1>11. \A k \in 0..(T.count - 1) : cs[a][k] = <<>>
  BY <1>1, <1>4
<1>. QED
  BY <1>3, <1>5, <1>6, <1>7, <1>9, <1>10, <1>11 DEF cs, U

\* All elements of a table are in the buckets from the cached one on.
LEMMA FromCached ==
  ASSUME Resting, NEW t \in Tables
  PROVE  from_cached(tab[t]) = members[t]
<1> DEFINE T == tab[t]
           M == members[t]
<1>1. /\ kind \in Kinds /\ buckets \in Memories /\ T \in Recs /\ M \in SUBSET Nodes
      /\ Quiet(kind, buckets, T, M, stored, hashing)
  BY RestingIs
<1> HIDE DEF T, M
<1>2. /\ \A k \in 0..(T.cache - 1) : buckets[T.array][k] = <<>>
      /\ \A k \in 0..(T.count - 1) : /\ Elems(buckets[T.array][k]) \subseteq M
                                     /\ buckets[T.array][k] = <<>> <=> Elems(buckets[T.array][k]) = {}
      /\ \A n \in M : \E k \in 0..(T.count - 1) : n \in Elems(buckets[T.array][k])
  BY <1>1, QuietIs, Zenon
<1>3. T.count \in Nat /\ T.cache \in Nat
  BY <1>1, RecIs
<1>4. from_cached(T) = UNION {Elems(buckets[T.array][k]) : k \in T.cache..(T.count - 1)}
  BY DEF from_cached, Elems
<1>5. ASSUME NEW n \in M
      PROVE  n \in UNION {Elems(buckets[T.array][k]) : k \in T.cache..(T.count - 1)}
  <2>1. PICK k \in 0..(T.count - 1) : n \in Elems(buckets[T.array][k])
    BY <1>2
  <2>2. Elems(<<>>) = {}
    BY EmptyBucket
  <2>3. k \in T.cache..(T.count - 1)
    BY <1>2, <1>3, <2>1, <2>2
  <2>. QED
    BY <2>1, <2>3
<1>6. \A k \in T.cache..(T.count - 1) : k \in 0..(T.count - 1)
  BY <1>3
<1>. QED
  BY <1>2, <1>4, <1>5, <1>6 DEF T, M

\* What clear leaves, which the beginning and the rollback of a clone share.
LEMMA ClearRests ==
  ASSUME Resting, NEW t \in Tables,
         buckets' = cleared(buckets, tab[t]),
         disposed(from_cached(tab[t]), group),
         tab' = [tab EXCEPT ![t] = priv_size_count(priv_init_cache(@), 0)]
  PROVE  /\ kind' = kind /\ hashing' = hashing /\ pending' = None
         /\ Rest(buckets', tab', members', stored', hashing', linked')
         /\ members' = [members EXCEPT ![t] = {}]
         /\ \A u \in Tables : tab'[u].count = tab[u].count
         /\ ~kind.multi /\ group = [n \in Nodes |-> Junk] => group' = [n \in Nodes |-> Junk]
<1> DEFINE T  == tab[t]
           M  == members[t]
           cs == cleared(buckets, T)
           U  == priv_size_count(priv_init_cache(T), 0)
<1>1. /\ kind \in Kinds /\ buckets \in Memories /\ T \in Recs /\ M \in SUBSET Nodes
      /\ tab \in [Tables -> Recs] /\ Quiet(kind, buckets, T, M, stored, hashing)
  BY RestingIs
<1>2. /\ disposed(M, group) /\ buckets' = cs /\ tab' = [tab EXCEPT ![t] = U]
  BY FromCached
<1> HIDE DEF T, M, cs, U
<1>3. /\ cs \in Memories
      /\ \A e \in Arrays \ {T.array}, k \in indices : cs[e][k] = buckets[e][k]
      /\ Kept(cs, T.array, T.count)
      /\ \A k \in indices, n \in Nodes : n \notin Elems(cs[T.array][k])
      /\ U \in Recs /\ U.array = T.array /\ U.count = T.count /\ U.split = T.split
      /\ Cached(kind, cs, U) /\ Sized(kind, U.size, {})
  BY <1>1, ClearedIs, Zenon DEF cs, U
<1>4. \A k \in indices, n \in Nodes :
        n \in Elems(cs[T.array][k]) <=> n \in Elems(buckets[T.array][k]) /\ n \notin M
  <2> SUFFICES ASSUME NEW k \in indices, NEW n \in Nodes, n \in Elems(buckets[T.array][k])
               PROVE  n \in M
    BY <1>3
  <2>. QED
    BY <1>1, QuietIs, Zenon
<1>5. M \ M = {} /\ M \in SUBSET members[t]
  BY DEF M
<1>6. MayLeave(t, M, cs, U)
  BY <1>3, <1>4, <1>5, Zenon DEF MayLeave, T, M
<1>7. /\ kind' = kind /\ hashing' = hashing /\ pending' = None
      /\ Rest(buckets', tab', members', stored', hashing', linked')
      /\ ~kind.multi /\ group = [n \in Nodes |-> Junk] => group' = [n \in Nodes |-> Junk]
  <2>1. /\ kind' = kind /\ hashing' = hashing /\ pending' = None
        /\ Rest(buckets', tab', members', stored', hashing', linked')
    BY <1>2, <1>6, RemoveRests, Zenon
  <2>2. ~kind.multi /\ group = [n \in Nodes |-> Junk] => group' = [n \in Nodes |-> Junk]
    BY <1>2 DEF disposed, gone
  <2>. QED
    BY <2>1, <2>2
<1>8. members' = [members EXCEPT ![t] = members[t] \ M]
  BY <1>2, <1>5, DisposedMembers
<1>9. members[t] \ M = {}
  BY DEF M
<1>10. \A u \in Tables : tab'[u].count = tab[u].count
  BY <1>1, <1>2, <1>3 DEF T
<1>. QED
  BY <1>7, <1>8, <1>9, <1>10, Zenon

\* clear() preserves the invariant: nothing is before the cached bucket.
LEMMA ClearBase ==
  ASSUME IBase, idle, NEW t \in Tables, clear(t)
  PROVE  IBase'
<1>1. Resting /\ call = None /\ (~kind.multi => group = [n \in Nodes |-> Junk])
  BY IdleIs
<1>2. /\ kind' = kind /\ pending' = None /\ call' = call
      /\ Rest(buckets', tab', members', stored', hashing', linked')
      /\ ~kind.multi /\ group = [n \in Nodes |-> Junk] => group' = [n \in Nodes |-> Junk]
  BY <1>1, ClearRests, Zenon DEF clear
<1>3. kind \in Kinds
  BY <1>1 DEF Resting
<1>. QED
  BY <1>1, <1>2, <1>3, RestIsBase

\* unlink() of a hook preserves the invariant.
LEMMA UnlinkBase ==
  ASSUME IBase, idle, NEW n \in Nodes, hook_unlink(n)
  PROVE  IBase'
<1> DEFINE cs == [a \in Arrays |-> [i \in indices |-> Without(buckets[a][i], n)]]
           g  == IF kind.multi THEN unlink_from_group_after(group, CHOOSE m \in Nodes : group[m] = n)
                 ELSE group
<1>1. Resting
  BY IdleIs
<1>2. /\ kind.auto /\ n \in linked /\ buckets' = cs /\ disposed({n}, g) /\ tab' = tab
      /\ call' = call
  BY DEF hook_unlink
<1>3. /\ kind \in Kinds /\ buckets \in Memories /\ hashing \in Hashings
      /\ tab \in [Tables -> Recs] /\ members \in [Tables -> SUBSET Nodes]
      /\ linked = UNION {members[u] : u \in Tables}
      /\ Rest(buckets, tab, members, stored, hashing, linked)
  BY <1>1, <1>2, RestingIs DEF Resting, Rest
<1>4. PICK t \in Tables : n \in members[t]
  BY <1>2, <1>3
<1> DEFINE T  == tab[t]
           M  == members[t]
           ns == {n}
<1>5. /\ T \in Recs /\ M \in SUBSET Nodes /\ n \in M /\ ns \in SUBSET M
      /\ Quiet(kind, buckets, T, M, stored, hashing)
  BY <1>1, <1>4, RestingIs
<1>6. ~kind.counted /\ ~kind.cache
  BY <1>2, <1>3, KindIs
<1>7. Apart(buckets)
  BY <1>3, RestIsApart
<1> HIDE DEF T, M, g
<1>8. T.count \in Nat /\ T.count <= MaxCount /\ T.array \in Arrays
  BY <1>5, RecIs
<1>9. PICK i \in 0..(T.count - 1) : n \in Elems(buckets[T.array][i])
  <2>1. \A m \in M : \E i \in 0..(T.count - 1) : m \in Elems(buckets[T.array][i])
    BY <1>3, <1>5, QuietIs, Zenon
  <2>. QED
    BY <1>5, <2>1
<1>10. /\ i \in indices /\ buckets[T.array][i] \in Seq(Nodes) /\ Distinct(buckets[T.array][i])
  BY <1>3, <1>5, <1>9, QuietIs, Zenon
<1>11. /\ cs[T.array][i] \in Seq(Nodes) /\ Distinct(cs[T.array][i])
       /\ Elems(cs[T.array][i]) = Elems(buckets[T.array][i]) \ ns
  BY <1>8, <1>10, WithoutElems
<1>12. ASSUME NEW a \in Arrays, NEW k \in indices, ~(a = T.array /\ k = i)
       PROVE  cs[a][k] = buckets[a][k] /\ n \notin Elems(buckets[a][k])
  <2>1. n \notin Elems(buckets[a][k])
    BY <1>7, <1>8, <1>9, <1>10, <1>12 DEF Apart
  <2>. QED
    BY <2>1 DEF Without, Elems
<1>13. cs \in Memories
  <2>1. ASSUME NEW a \in Arrays, NEW k \in indices
        PROVE  cs[a][k] \in Seq(Memory)
    <3>1. CASE a = T.array /\ k = i
      <4>1. cs[a][k] \in Seq(Nodes)
        BY <1>11, <3>1
      <4>. QED
        BY <4>1, InMemory
    <3>2. CASE ~(a = T.array /\ k = i)
      BY <1>3, <1>12, <3>2 DEF Memories
    <3>. QED
      BY <3>1, <3>2
  <2>. QED
    BY <2>1 DEF Memories
<1> HIDE DEF cs
<1>14. Kept(cs, T.array, T.count)
  <2>1. Kept(buckets, T.array, T.count)
    BY <1>5 DEF Quiet
  <2> SUFFICES ASSUME NEW k \in indices
               PROVE  IF k < T.count THEN cs[T.array][k] \in Seq(Nodes) /\ Distinct(cs[T.array][k])
                      ELSE cs[T.array][k] = <<Junk>>
    BY DEF Kept
  <2>2. CASE k = i
    BY <1>8, <1>11, <2>2
  <2>3. CASE k # i
    BY <1>8, <1>12, <2>1, <2>3 DEF Kept
  <2>. QED
    BY <2>2, <2>3
<1>15. \A k \in indices, m \in Nodes :
         m \in Elems(cs[T.array][k]) <=> m \in Elems(buckets[T.array][k]) /\ m \notin ns
  <2> SUFFICES ASSUME NEW k \in indices, NEW m \in Nodes
               PROVE  m \in Elems(cs[T.array][k]) <=> m \in Elems(buckets[T.array][k]) /\ m \notin ns
    OBVIOUS
  <2>1. CASE k = i
    BY <1>11, <2>1
  <2>2. CASE k # i
    BY <1>8, <1>12, <2>2
  <2>. QED
    BY <2>1, <2>2
<1>16. \A a \in Arrays \ {T.array}, k \in indices : cs[a][k] = buckets[a][k]
  BY <1>12
<1>17. Cached(kind, cs, T) /\ Sized(kind, T.size, M \ ns)
  BY <1>5, <1>6 DEF Quiet, Cached, Sized
<1>18. tab' = [tab EXCEPT ![t] = T]
  BY <1>2, <1>3 DEF T
<1>19. ~kind.multi => g = group
  BY DEF g
<1>. QED
  <2>1. MayLeave(t, ns, cs, T)
    BY <1>1, <1>4, <1>5, <1>13, <1>14, <1>15, <1>16, <1>17 DEF MayLeave, T, M
  <2> HIDE DEF ns
  <2>2. disposed(ns, g)
    BY <1>2 DEF ns
  <2>. QED
    BY <1>2, <1>18, <1>19, <2>1, <2>2, RemoveIsBase, Zenon

\* erase() of a range over several buckets preserves the invariant.
LEMMA EraseRangeBase ==
  ASSUME IBase, idle, NEW t \in Tables, NEW i \in used(t), NEW p \in DOMAIN bucket(t, i),
         NEW j \in i..(tab[t].count - 1), NEW q \in 1..(Len(bucket(t, j)) + 1),
         i = j => p < q, erase_range(t, i, p, j, q)
  PROVE  IBase'
<1> DEFINE T  == tab[t]
           M  == members[t]
           a  == T.array
           b(k) == buckets[a][k]
           last(k)  == IF k = j THEN q ELSE Len(b(k)) + 1
           first(k) == IF k = i THEN p ELSE 1
           piece(k) == {b(k)[x] : x \in first(k)..(last(k) - 1)}
           part(k)  == Elems(Piece(b(k), first(k), last(k)))
           ns == UNION {piece(k) : k \in i..j}
           S  == priv_size_count(T, T.size - Cardinality(ns))
           cs == [buckets EXCEPT ![a] =
                    [k \in indices |-> IF k \in i..j THEN Cut(@[k], first(k), last(k)) ELSE @[k]]]
           V  == priv_erasure_update_cache(cs, set_cache(S, j))
           U  == IF S.cache = i /\ cs[S.array][i] = <<>> THEN V ELSE S
           g0 == groups_after(bucket(t, i), group, p, last(i))
           g  == IF i = j THEN g0 ELSE groups_after(bucket(t, j), g0, 1, q)
<1>1. Resting
  BY IdleIs
<1>2. /\ kind \in Kinds /\ buckets \in Memories /\ hashing \in Hashings
      /\ T \in Recs /\ M \in SUBSET Nodes
      /\ Quiet(kind, buckets, T, M, stored, hashing)
      /\ \A k \in 0..(T.count - 1) : k \in indices /\ b(k) \in Seq(Nodes) /\ Distinct(b(k))
  BY <1>1, RestingIs DEF bucket
<1>3. /\ T.count \in Nat /\ T.count <= MaxCount /\ T.cache \in Nat /\ a \in Arrays
      /\ i \in 0..(T.count - 1) /\ j \in 0..(T.count - 1) /\ i <= j
      /\ \A k \in i..j : k \in 0..(T.count - 1)
  BY <1>2, RecIs DEF used
<1>4. buckets' = cs
  BY Zenon DEF erase_range, bucket
<1>5. disposed(ns, g) /\ tab' = [tab EXCEPT ![t] = U] /\ call' = call
  BY <1>4, Zenon DEF erase_range, bucket
<1>6. ASSUME NEW k \in i..j
      PROVE  /\ first(k) \in Nat /\ last(k) \in Nat /\ 1 <= first(k) /\ first(k) <= last(k)
             /\ last(k) <= Len(b(k)) + 1
  <2>1. /\ b(i) \in Seq(Nodes) /\ b(j) \in Seq(Nodes) /\ b(k) \in Seq(Nodes)
        /\ b(i) = bucket(t, i) /\ b(j) = bucket(t, j)
    BY <1>2, <1>3 DEF bucket
  <2>2. p \in DOMAIN b(i) /\ q \in 1..(Len(b(j)) + 1)
    BY <2>1
  <2> HIDE DEF b
  <2>3. /\ Len(b(i)) \in Nat /\ Len(b(j)) \in Nat /\ Len(b(k)) \in Nat
        /\ DOMAIN b(i) = 1..Len(b(i))
    BY <2>1, ElemsOfSeq
  <2>4. /\ p \in Nat /\ 1 <= p /\ p <= Len(b(i))
        /\ q \in Nat /\ 1 <= q /\ q <= Len(b(j)) + 1
    BY <2>2, <2>3
  <2>5. i = j => p < q
    OBVIOUS
  <2>6. CASE k = i
    BY <2>3, <2>4, <2>5, <2>6
  <2>7. CASE k # i
    BY <2>3, <2>4, <2>7
  <2>. QED
    BY <2>6, <2>7
<1>7. ASSUME NEW k \in i..j
      PROVE  /\ Cut(b(k), first(k), last(k)) \in Seq(Nodes)
             /\ Distinct(Cut(b(k), first(k), last(k)))
             /\ Elems(Cut(b(k), first(k), last(k))) = Elems(b(k)) \ piece(k)
             /\ piece(k) \subseteq Elems(b(k))
  <2>0. piece(k) = part(k)
    <3>1. b(k) \in Seq(Nodes) /\ Distinct(b(k))
      BY <1>2, <1>3
    <3> HIDE DEF b, first, last
    <3>2. Elems(Piece(b(k), first(k), last(k))) = Stretch(b(k), first(k), last(k))
      BY <1>6, <3>1, PieceElems
    <3>. QED
      BY <3>2 DEF Stretch
  <2>1. b(k) \in Seq(Nodes) /\ Distinct(b(k))
    BY <1>2, <1>3
  <2> HIDE DEF b, first, last
  <2>2. /\ Cut(b(k), first(k), last(k)) \in Seq(Nodes)
        /\ Distinct(Cut(b(k), first(k), last(k)))
        /\ Elems(Cut(b(k), first(k), last(k))) = Elems(b(k)) \ part(k)
    <3>1. Cut(b(k), first(k), last(k)) \in Seq(Nodes)
      BY <1>6, <2>1, CutProperties
    <3>2. /\ Distinct(Cut(b(k), first(k), last(k)))
          /\ Elems(Cut(b(k), first(k), last(k))) = Elems(b(k)) \ part(k)
      BY <1>6, <2>1, CutElems
    <3>. QED
      BY <3>1, <3>2
  <2>3. part(k) \subseteq Elems(b(k))
    BY <1>6, <2>1, PieceElems
  <2> HIDE DEF part, piece
  <2>. QED
    BY <2>0, <2>2, <2>3
<1> HIDE DEF first, last, piece, T, M, g
<1>8. /\ \A e \in Arrays \ {a}, k \in indices : cs[e][k] = buckets[e][k]
      /\ \A k \in indices : cs[a][k] = IF k \in i..j THEN Cut(b(k), first(k), last(k)) ELSE b(k)
  BY <1>2, <1>3 DEF Memories
<1>9. cs \in Memories
  <2>1. ASSUME NEW k \in indices
        PROVE  (IF k \in i..j THEN Cut(b(k), first(k), last(k)) ELSE b(k)) \in Seq(Memory)
    <3>1. CASE k \in i..j
      BY <1>7, <3>1, InMemory
    <3>2. CASE k \notin i..j
      BY <1>2, <1>3, <3>2 DEF Memories
    <3>. QED
      BY <3>1, <3>2
  <2>. QED
    BY <1>2, <1>3, <2>1 DEF Memories
<1> HIDE DEF cs
<1>10. Kept(cs, a, T.count)
  <2>1. Kept(buckets, a, T.count)
    BY <1>2 DEF Quiet
  <2> SUFFICES ASSUME NEW k \in indices
               PROVE  IF k < T.count THEN cs[a][k] \in Seq(Nodes) /\ Distinct(cs[a][k])
                      ELSE cs[a][k] = <<Junk>>
    BY DEF Kept
  <2>2. CASE k \in i..j
    BY <1>3, <1>7, <1>8, <2>2
  <2>3. CASE k \notin i..j
    BY <1>8, <2>1, <2>3 DEF Kept
  <2>. QED
    BY <2>2, <2>3
<1>11. \A k \in indices, n \in Nodes : n \in Elems(b(k)) => n \in M /\ k = Home(kind, T, hashing, n)
  <2>1. /\ kind \in Kinds /\ buckets \in Memories /\ T \in Recs /\ M \in SUBSET Nodes
        /\ Quiet(kind, buckets, T, M, stored, hashing)
    BY <1>2
  <2>2. Holds(buckets, {T.array}, M) /\ AtHome(kind, buckets, T, hashing)
    BY <2>1 DEF Quiet
  <2>. QED
    BY <2>2 DEF Holds, AtHome
<1>12. ASSUME NEW k \in indices, NEW n \in Nodes
       PROVE  n \in Elems(cs[a][k]) <=> n \in Elems(b(k)) /\ n \notin ns
  <2>1. ASSUME NEW l \in i..j, n \in piece(l), n \in Elems(b(k))
        PROVE  l = k
    <3>1. l \in indices /\ n \in Elems(b(l))
      BY <1>2, <1>3, <1>7, <2>1
    <3>. QED
      BY <1>11, <2>1, <3>1
  <2>2. CASE k \in i..j
    <3>1. Elems(cs[a][k]) = Elems(b(k)) \ piece(k)
      BY <1>7, <1>8, <2>2, Zenon
    <3>. QED
      BY <2>1, <2>2, <3>1
  <2>3. CASE k \notin i..j
    <3>1. cs[a][k] = b(k)
      BY <1>8, <2>3
    <3>. QED
      BY <2>1, <2>3, <3>1
  <2>. QED
    BY <2>2, <2>3
<1>13. ns \in SUBSET M
  <2>1. ASSUME NEW l \in i..j, NEW n \in piece(l)
        PROVE  n \in M
    <3>1. l \in indices /\ n \in Elems(b(l)) /\ n \in Nodes
      <4>1. l \in indices /\ n \in Elems(b(l)) /\ b(l) \in Seq(Nodes)
        BY <1>2, <1>3, <1>7
      <4>. QED
        BY <4>1, ElemsOfSeq
    <3>. QED
      BY <1>11, <3>1
  <2>. QED
    BY <2>1
<1> HIDE DEF ns
<1>14. /\ T.size = IF kind.counted THEN Cardinality(M) ELSE 0
       /\ IsFiniteSet(M) /\ T.cache <= T.count
       /\ kind.cache => IsFirst(buckets, a, T.count, T.cache)
       /\ ~kind.cache => T.cache = 0
       /\ \A k \in 0..(T.cache - 1) : b(k) = <<>>
  BY <1>2, QuietIs, Zenon
<1>15. /\ Cardinality(M \ ns) = Cardinality(M) - Cardinality(ns)
       /\ Cardinality(M) - Cardinality(ns) \in Nat
  BY <1>13, <1>14, CountRest, Zenon
<1>16. /\ S \in Recs /\ S.array = a /\ S.count = T.count /\ S.split = T.split
       /\ S.cache = T.cache /\ S.size = IF kind.counted THEN T.size - Cardinality(ns) ELSE T.size
  <2>1. kind.counted => T.size - Cardinality(ns) \in Nat
    BY <1>14, <1>15
  <2>. QED
    BY <1>2, <2>1, SetSize
<1> HIDE DEF S
<1>17. b(i) # <<>>
  BY <1>2, <1>3 DEF bucket, T
<1>18. ASSUME cs[a][i] = <<>>
       PROVE  \A k \in indices : i <= k /\ k < j => cs[a][k] = <<>>
  <2> SUFFICES ASSUME NEW k \in indices, i <= k, k < j, k # i
               PROVE  cs[a][k] = <<>>
    BY <1>18
  <2>1. k \in i..j /\ k \in 0..(T.count - 1)
    BY <1>3 DEF indices
  <2>2. cs[a][k] = Cut(b(k), 1, Len(b(k)) + 1)
    BY <1>8, <2>1 DEF first, last
  <2>3. b(k) \in Seq(Nodes) /\ Len(b(k)) \in Nat
    BY <1>2, <2>1
  <2>4. /\ Cut(b(k), 1, Len(b(k)) + 1) \in Seq(Nodes)
        /\ Len(Cut(b(k), 1, Len(b(k)) + 1)) = Len(b(k)) - (Len(b(k)) + 1 - 1)
    <3>1. 1 \in Nat /\ Len(b(k)) + 1 \in Nat /\ 1 <= 1 /\ 1 <= Len(b(k)) + 1
          /\ Len(b(k)) + 1 <= Len(b(k)) + 1
      BY <2>3
    <3>2. b(k) \in Seq(Nodes)
      BY <2>3
    <3> HIDE DEF b
    <3> DEFINE e == Len(b(k)) + 1
    <3>3. e \in Nat /\ 1 <= e /\ e <= Len(b(k)) + 1
      BY <3>1
    <3> HIDE DEF e
    <3>4. Cut(b(k), 1, e) \in Seq(Nodes) /\ Len(Cut(b(k), 1, e)) = Len(b(k)) - (e - 1)
      BY <3>1, <3>2, <3>3, CutProperties
    <3>. QED
      BY <3>4 DEF e
  <2>5. Len(Cut(b(k), 1, Len(b(k)) + 1)) = 0
    BY <2>3, <2>4
  <2>. QED
    BY <2>2, <2>4, <2>5, ElemsOfSeq
<1> DEFINE W == set_cache(S, j)
<1>19. /\ W \in Recs /\ W.array = a /\ W.count = T.count /\ W.split = T.split /\ W.size = S.size
       /\ W.cache = IF kind.cache THEN j ELSE S.cache
  BY <1>3, <1>16, SetCache
<1> HIDE DEF W
<1>20. W.cache \in 0..T.count /\ W.cache <= W.count
  BY <1>3, <1>14, <1>16, <1>19
<1>21. /\ V \in Recs /\ V.array = a /\ V.count = T.count /\ V.split = T.split /\ V.size = S.size
       /\ V.cache = IF kind.cache THEN first_used(cs, W, W.cache) ELSE W.cache
  <2>1. V = priv_erasure_update_cache(cs, W)
    BY DEF W
  <2>. QED
    BY <1>19, <1>20, <2>1, ErasureCache
<1> HIDE DEF V
<1>22. ASSUME T.cache = i, cs[a][i] = <<>>
       PROVE  Cached(kind, cs, V)
  <2>1. CASE kind.cache
    <3>1. W.cache = j /\ W.cache \in 0..W.count
      BY <1>3, <1>19, <1>20, <2>1
    <3>2. \A k \in 0..(W.cache - 1) : cs[W.array][k] = <<>>
      <4> SUFFICES ASSUME NEW k \in 0..(j - 1)
                   PROVE  cs[a][k] = <<>>
        BY <1>19, <3>1
      <4>1. k \in indices
        BY <1>2, <1>3
      <4>2. CASE k < i
        <5>1. k \in 0..(T.cache - 1) /\ k \notin i..j
          BY <1>3, <1>22, <4>2
        <5>. QED
          BY <1>8, <1>14, <4>1, <5>1
      <4>3. CASE ~(k < i)
        BY <1>3, <1>18, <1>22, <4>1, <4>3
      <4>. QED
        BY <4>2, <4>3
    <3>3. IsFirst(cs, W.array, W.count, first_used(cs, W, W.cache))
      BY <1>2, <1>19, <3>1, <3>2, FirstAfter, Zenon
    <3>. QED
      BY <1>19, <1>21, <2>1, <3>3 DEF Cached
  <2>2. CASE ~kind.cache
    BY <1>14, <1>16, <1>19, <1>21, <2>2 DEF Cached
  <2>. QED
    BY <2>1, <2>2
<1>23. ASSUME ~(T.cache = i /\ cs[a][i] = <<>>)
       PROVE  Cached(kind, cs, S)
  <2>1. CASE kind.cache
    <3>1. T.cache <= i
      BY <1>3, <1>14, <1>17
    <3>2. \A k \in 0..(T.cache - 1) : cs[a][k] = <<>>
      <4> SUFFICES ASSUME NEW k \in 0..(T.cache - 1)
                   PROVE  cs[a][k] = <<>>
        OBVIOUS
      <4>1. k \in indices /\ k \notin i..j
        BY <1>2, <1>3, <3>1
      <4>. QED
        BY <1>8, <1>14, <4>1
    <3>3. cs[a][T.cache] # <<>>
      <4>1. CASE T.cache = i
        BY <1>23, <4>1
      <4>2. CASE T.cache # i
        <5>1. T.cache \in 0..(T.count - 1) /\ T.cache \notin i..j
          BY <1>3, <3>1, <4>2
        <5>2. T.cache \in indices /\ b(T.cache) # <<>>
          <6>1. T.cache \in indices
            BY <1>2, <5>1
          <6>2. IsFirst(buckets, a, T.count, T.cache) /\ T.cache < T.count
            BY <1>3, <1>14, <2>1, <5>1
          <6>3. buckets[a][T.cache] # <<>>
            BY <6>2 DEF IsFirst
          <6>. QED
            BY <6>1, <6>3
        <5>. QED
          BY <1>8, <5>1, <5>2
      <4>. QED
        BY <4>1, <4>2
    <3>4. IsFirst(cs, a, T.count, T.cache)
      BY <1>3, <1>14, <3>2, <3>3 DEF IsFirst
    <3>. QED
      BY <1>16, <2>1, <3>4 DEF Cached
  <2>2. CASE ~kind.cache
    BY <1>14, <1>16, <2>2 DEF Cached
  <2>. QED
    BY <2>1, <2>2
<1>24. /\ U \in Recs /\ U.array = a /\ U.count = T.count /\ U.split = T.split /\ U.size = S.size
       /\ Cached(kind, cs, U)
  BY <1>16, <1>21, <1>22, <1>23
<1> HIDE DEF U
<1>25. Sized(kind, U.size, M \ ns)
  BY <1>14, <1>15, <1>16, <1>24 DEF Sized
<1>26. ~kind.multi => g = group
  BY DEF g, groups_after
<1>. QED
  <2>1. MayLeave(t, ns, cs, U)
    BY <1>1, <1>8, <1>9, <1>10, <1>12, <1>13, <1>24, <1>25 DEF MayLeave, T, M
  <2>. QED
    BY <1>4, <1>5, <1>26, <2>1, RemoveIsBase, Zenon

\* Every erasure preserves the invariant.
LEMMA EraseNextBase ==
  ASSUME IBase, IGroups, EraseNext
  PROVE  IBase'
<1>1. PICK t \in Tables :
        /\ idle
        /\ \/ clear(t)
           \/ \E key \in Keys : erase_key(t, key)
           \/ \E n \in Nodes : hook_unlink(n)
           \/ \E i \in used(t) : \E p \in DOMAIN bucket(t, i) :
                \/ erase(t, i, p)
                \/ \E j \in i..(tab[t].count - 1) : \E q \in 1..(Len(bucket(t, j)) + 1) :
                     /\ i = j => p < q
                     /\ erase_range(t, i, p, j, q)
  BY DEF EraseNext
<1>2. CASE clear(t)
  BY <1>1, <1>2, ClearBase
<1>3. ASSUME NEW key \in Keys, erase_key(t, key)
      PROVE  IBase'
  BY <1>1, <1>3, EraseKeyBase
<1>4. ASSUME NEW n \in Nodes, hook_unlink(n)
      PROVE  IBase'
  BY <1>1, <1>4, UnlinkBase
<1>5. ASSUME NEW i \in used(t), NEW p \in DOMAIN bucket(t, i), erase(t, i, p)
      PROVE  IBase'
  BY <1>1, <1>5, EraseBase
<1>6. ASSUME NEW i \in used(t), NEW p \in DOMAIN bucket(t, i),
             NEW j \in i..(tab[t].count - 1), NEW q \in 1..(Len(bucket(t, j)) + 1),
             i = j => p < q, erase_range(t, i, p, j, q)
      PROVE  IBase'
  BY <1>1, <1>6, EraseRangeBase
<1>. QED
  BY <1>1, <1>2, <1>3, <1>4, <1>5, <1>6
-----------------------------------------------------------------------------
(* Other buckets for a table, and other tables for the buckets.            *)

\* swap() preserves the invariant.
LEMMA SwapBase ==
  ASSUME IBase, idle, NEW t \in Tables, NEW u \in Tables, swap(t, u)
  PROVE  IBase'
<1>1. Resting /\ call = None /\ (~kind.multi => group = [n \in Nodes |-> Junk])
  BY IdleIs
<1>2. /\ tab' = [tab EXCEPT ![t] = tab[u], ![u] = tab[t]]
      /\ members' = [members EXCEPT ![t] = members[u], ![u] = members[t]]
      /\ pending' = None /\ kind' = kind /\ buckets' = buckets /\ group' = group
      /\ stored' = stored /\ linked' = linked /\ hashing' = hashing /\ call' = call
  BY DEF swap
<1>3. /\ kind \in Kinds /\ Rest(buckets, tab, members, stored, hashing, linked)
      /\ tab \in [Tables -> Recs] /\ members \in [Tables -> SUBSET Nodes]
  BY <1>1 DEF Resting, Rest
<1> DEFINE f(v) == IF v = t THEN u ELSE IF v = u THEN t ELSE v
<1>4. \A v \in Tables : f(v) \in Tables /\ f(f(v)) = v
  OBVIOUS
<1>5. /\ tab' \in [Tables -> Recs] /\ members' \in [Tables -> SUBSET Nodes]
      /\ \A v \in Tables : tab'[v] = tab[f(v)] /\ members'[v] = members[f(v)]
  BY <1>2, <1>3
<1> HIDE DEF f
<1>6. \A v, w \in Tables : tab'[v].array = tab'[w].array => v = w
  <2> SUFFICES ASSUME NEW v \in Tables, NEW w \in Tables, tab'[v].array = tab'[w].array
               PROVE  v = w
    OBVIOUS
  <2>1. f(v) = f(w)
    BY <1>3, <1>4, <1>5 DEF Rest
  <2>. QED
    BY <1>4, <2>1
<1>7. \A e \in Arrays : (\A v \in Tables : e # tab'[v].array) => Kept(buckets', e, 0)
  <2> SUFFICES ASSUME NEW e \in Arrays, \A v \in Tables : e # tab'[v].array
               PROVE  Kept(buckets', e, 0)
    OBVIOUS
  <2>1. \A v \in Tables : e # tab[v].array
    <3> SUFFICES ASSUME NEW v \in Tables
                 PROVE  e # tab[v].array
      OBVIOUS
    <3>1. f(v) \in Tables /\ tab'[f(v)] = tab[v]
      BY <1>4, <1>5
    <3>. QED
      BY <3>1
  <2>. QED
    BY <1>2, <1>3, <2>1 DEF Rest
<1>8. \A v, w \in Tables, n \in Nodes : n \in members'[v] /\ n \in members'[w] => v = w
  <2> SUFFICES ASSUME NEW v \in Tables, NEW w \in Tables, NEW n \in Nodes,
                      n \in members'[v], n \in members'[w]
               PROVE  v = w
    OBVIOUS
  <2>1. f(v) = f(w)
    BY <1>3, <1>4, <1>5 DEF Rest
  <2>. QED
    BY <1>4, <2>1
<1>9. linked' = UNION {members'[v] : v \in Tables}
  <2>1. linked = UNION {members[v] : v \in Tables}
    BY <1>3 DEF Rest
  <2>2. ASSUME NEW n, NEW v \in Tables, n \in members[v]
        PROVE  n \in UNION {members'[w] : w \in Tables}
    <3>1. f(v) \in Tables /\ n \in members'[f(v)]
      BY <1>4, <1>5, <2>2
    <3>. QED
      BY <3>1
  <2>3. ASSUME NEW n, NEW v \in Tables, n \in members'[v]
        PROVE  n \in UNION {members[w] : w \in Tables}
    <3>1. f(v) \in Tables /\ n \in members[f(v)]
      BY <1>4, <1>5, <2>3
    <3>. QED
      BY <3>1
  <2>. QED
    BY <1>2, <2>1, <2>2, <2>3, Zenon
<1>10. \A v \in Tables : Quiet(kind, buckets', tab'[v], members'[v], stored', hashing')
  <2> SUFFICES ASSUME NEW v \in Tables
               PROVE  Quiet(kind, buckets', tab'[v], members'[v], stored', hashing')
    OBVIOUS
  <2>1. Quiet(kind, buckets, tab[f(v)], members[f(v)], stored, hashing)
    BY <1>3, <1>4 DEF Rest
  <2>. QED
    BY <1>2, <1>5, <2>1
<1>11. /\ buckets' \in Memories /\ hashing' \in Hashings /\ stored' \in [Nodes -> Nat \cup {Junk}]
  BY <1>2, <1>3 DEF Rest
<1>12. Rest(buckets', tab', members', stored', hashing', linked')
  BY <1>5, <1>6, <1>7, <1>8, <1>9, <1>10, <1>11 DEF Rest
<1>. QED
  BY <1>1, <1>2, <1>3, <1>12, RestIsBase

\* What the user may do with the buckets that no table uses.
LEMMA GivenUp ==
  ASSUME NEW bs \in Memories, NEW tb, NEW cs, cs = given_up(bs, tb)
  PROVE  /\ cs \in Memories
         /\ \A a \in Arrays, i \in indices :
              cs[a][i] = IF \E t \in Tables : tb[t].array = a /\ i < tb[t].count THEN bs[a][i]
                         ELSE <<Junk>>
<1>1. <<Junk>> \in Seq(Memory)
  BY DEF Memory
<1>. QED
  BY <1>1 DEF given_up, Memories

\* Array a has the first c buckets of bt and no others.
Shortened(cs, bt, a, c) ==
  /\ cs \in Memories
  /\ \A i \in indices : cs[a][i] = IF i < c THEN bt[a][i] ELSE <<Junk>>

\* Table t exchanges its buckets for others, those that no table uses are given up.
Exchanges(t, as, bs, tb, ms, st, hs, lk, bt, U, a, be, N, su, ht, tc, mc, lc, cs) ==
  /\ kind \in Kinds
  /\ t \in Tables
  /\ Others(t, as, bs, tb, ms, st, hs, lk)
  /\ bt \in Memories
  /\ U \in Recs /\ a = U.array /\ be = {a}
  /\ N \in SUBSET Nodes
  /\ su \in [Nodes -> Nat \cup {Junk}]
  /\ ht \in Hashings
  /\ tc = [tb EXCEPT ![t] = U]
  /\ mc = [ms EXCEPT ![t] = N]
  /\ lc = (lk \ ms[t]) \cup N
  /\ cs = given_up(bt, tc)
  /\ \A u \in Tables \ {t} : tb[u].array # a
  /\ \A u \in Tables \ {t}, i \in indices : bt[tb[u].array][i] = bs[tb[u].array][i]
  /\ \A u \in Tables \ {t} : \A m \in ms[u] :
       su[m] = st[m] /\ ht[Key[m]] = hs[Key[m]] /\ m \notin N

\* The user overwrites no bucket that is in use.
LEMMA GivenUpOthers ==
  ASSUME NEW t, NEW as, NEW bs, NEW tb, NEW ms, NEW st, NEW hs, NEW lk, NEW bt, NEW U, NEW a,
         NEW be, NEW N, NEW su, NEW ht, NEW tc, NEW mc, NEW lc, NEW cs,
         Exchanges(t, as, bs, tb, ms, st, hs, lk, bt, U, a, be, N, su, ht, tc, mc, lc, cs)
  PROVE  /\ Others(t, be, cs, tc, mc, su, ht, lc)
         /\ Shortened(cs, bt, a, U.count)
<1>0. /\ kind \in Kinds /\ t \in Tables
      /\ Others(t, as, bs, tb, ms, st, hs, lk)
      /\ bt \in Memories /\ U \in Recs /\ N \in SUBSET Nodes
      /\ su \in [Nodes -> Nat \cup {Junk}] /\ ht \in Hashings
      /\ \A u \in Tables \ {t} : tb[u].array # a
      /\ \A u \in Tables \ {t}, i \in indices : bt[tb[u].array][i] = bs[tb[u].array][i]
      /\ \A u \in Tables \ {t} : \A m \in ms[u] :
           su[m] = st[m] /\ ht[Key[m]] = hs[Key[m]] /\ m \notin N
  BY DEF Exchanges
<1>00. /\ a = U.array /\ be = {a} /\ tc = [tb EXCEPT ![t] = U] /\ cs = given_up(bt, tc)
       /\ mc = [ms EXCEPT ![t] = N] /\ lc = (lk \ ms[t]) \cup N
  BY DEF Exchanges
<1>1. /\ tb \in [Tables -> Recs] /\ ms \in [Tables -> SUBSET Nodes] /\ bs \in Memories
      /\ \A u, v \in Tables \ {t} : tb[u].array = tb[v].array => u = v
      /\ \A u \in Tables \ {t} : Quiet(kind, bs, tb[u], ms[u], st, hs)
  BY <1>0 DEF Others
<1>2. /\ tc[t] = U /\ \A u \in Tables \ {t} : tc[u] = tb[u]
      /\ a \in Arrays /\ \A u \in Tables : tb[u].array \in Arrays
  <2>1. tc[t] = U /\ \A u \in Tables \ {t} : tc[u] = tb[u]
    BY <1>0, <1>00, <1>1
  <2>2. a \in Arrays
    BY <1>0, <1>00, RecIs
  <2>3. \A u \in Tables : tb[u].array \in Arrays
    BY <1>1, RecIs
  <2>. QED
    BY <2>1, <2>2, <2>3
<1>3. /\ cs \in Memories
      /\ \A e \in Arrays, i \in indices :
           cs[e][i] = IF \E u \in Tables : tc[u].array = e /\ i < tc[u].count THEN bt[e][i]
                      ELSE <<Junk>>
  <2>1. bt \in Memories /\ cs = given_up(bt, tc)
    BY <1>0, <1>00
  <2>. QED
    BY <2>1, GivenUp
<1>4. \A i \in indices : cs[a][i] = IF i < U.count THEN bt[a][i] ELSE <<Junk>>
  <2> SUFFICES ASSUME NEW i \in indices
               PROVE  cs[a][i] = IF i < U.count THEN bt[a][i] ELSE <<Junk>>
    OBVIOUS
  <2>1. cs[a][i] = IF \E u \in Tables : tc[u].array = a /\ i < tc[u].count THEN bt[a][i]
                   ELSE <<Junk>>
    BY <1>2, <1>3
  <2>2. (\E u \in Tables : tc[u].array = a /\ i < tc[u].count) <=> i < U.count
    BY <1>0, <1>00, <1>2
  <2>. QED
    BY <2>1, <2>2
<1>5. ASSUME NEW u \in Tables \ {t}, NEW i \in indices
      PROVE  cs[tb[u].array][i] = bs[tb[u].array][i]
  <2> DEFINE T == tb[u]
             M == ms[u]
             e == T.array
  <2>1. /\ Quiet(kind, bs, T, M, st, hs) /\ T \in Recs /\ M \in SUBSET Nodes /\ bs \in Memories
        /\ kind \in Kinds
    BY <1>0, <1>1
  <2>2. \A v \in Tables : tc[v].array = e => v = u
    BY <1>0, <1>00, <1>1, <1>2
  <2>3. tc[u] = T /\ e \in Arrays /\ bt[e][i] = bs[e][i]
    BY <1>0, <1>2
  <2>4. cs[e][i] = IF \E v \in Tables : tc[v].array = e /\ i < tc[v].count THEN bt[e][i]
                   ELSE <<Junk>>
    BY <1>3, <2>3
  <2> HIDE DEF T, M
  <2>5. ~(i < T.count) => bs[T.array][i] = <<Junk>>
    <3>1. Kept(bs, T.array, T.count)
      BY <2>1 DEF Quiet
    <3>. QED
      BY <3>1 DEF Kept
  <2>6. (\E v \in Tables : tc[v].array = e /\ i < tc[v].count) <=> i < T.count
    BY <2>2, <2>3
  <2> HIDE DEF e
  <2>7. cs[e][i] = bs[e][i]
    BY <2>3, <2>4, <2>5, <2>6 DEF e
  <2>. QED
    BY <2>7 DEF e, T
<1>6. \A e \in Arrays \ {a} : (\A u \in Tables \ {t} : e # tb[u].array) => Kept(cs, e, 0)
  <2> SUFFICES ASSUME NEW e \in Arrays \ {a}, \A u \in Tables \ {t} : e # tb[u].array
               PROVE  Kept(cs, e, 0)
    OBVIOUS
  <2>1. \A u \in Tables : tc[u].array # e
    BY <1>00, <1>2
  <2>2. \A i \in indices : cs[e][i] = <<Junk>>
    BY <1>3, <2>1
  <2>3. \A i \in indices : ~(i < 0)
    BY DEF indices
  <2>. QED
    BY <2>2, <2>3 DEF Kept
<1>7. {a} \in SUBSET Arrays /\ \A u \in Tables \ {t} : tb[u].array \notin {a}
  BY <1>0, <1>2
<1>8. Others(t, be, cs, tc, mc, su, ht, lc)
  <2>1. /\ be \in SUBSET Arrays /\ \A u \in Tables \ {t} : tb[u].array \notin be
        /\ \A e \in Arrays \ be : (\A u \in Tables \ {t} : e # tb[u].array) => Kept(cs, e, 0)
    BY <1>00, <1>6, <1>7, Zenon
  <2>2. Leaves(t, as, be, bs, tb, ms, st, hs, lk, cs, U, N, su, ht, tc, mc, lc)
    BY <1>0, <1>00, <1>3, <1>5, <2>1, Zenon DEF Leaves
  <2>. QED
    BY <2>2, OthersFrame, Zenon
<1>. QED
  BY <1>3, <1>4, <1>8 DEF Shortened

\* A table is given its own array or one that nobody has.
LEMMA ArraysAre ==
  ASSUME Resting, NEW t \in Tables, NEW a \in arrays(t)
  PROVE  a \in Arrays /\ \A u \in Tables \ {t} : tab[u].array # a
<1>1. /\ tab \in [Tables -> Recs]
      /\ \A u, v \in Tables : tab[u].array = tab[v].array => u = v
  BY DEF Resting, Rest
<1>2. taken(tab) \subseteq Arrays
  BY <1>1, RecIs DEF taken
<1>3. CASE a = tab[t].array
  BY <1>1, <1>3, RecIs
<1>4. CASE a # tab[t].array
  <2>1. Arrays # taken(tab) /\ a = CHOOSE e \in Arrays \ taken(tab) : TRUE
    BY <1>4 DEF arrays
  <2>2. a \in Arrays \ taken(tab)
    BY <1>2, <2>1
  <2>. QED
    BY <2>2 DEF taken
<1>. QED
  BY <1>3, <1>4

\* The number of buckets a table is given, and its first split count.
LEMMA BucketCounts ==
  ASSUME kind \in Kinds, NEW c \in bucket_counts
  PROVE  /\ c \in Counts /\ c \in Nat /\ 1 <= c /\ c <= MaxCount
         /\ kind.incremental => c = 2 * (c \div 2)
         /\ initial_split(c) \in Nat
         /\ Shaped(kind, [count |-> c, split |-> c])
         /\ \A T : T.count = c /\ T.split = initial_split(c) => Shaped(kind, T)
<1>1. c \in Counts /\ c \in Nat /\ 1 <= c /\ c <= MaxCount
  BY CountIs DEF bucket_counts
<1>2. kind.incremental => c = 2 * (c \div 2)
  <2> SUFFICES ASSUME kind.incremental
               PROVE  c = 2 * (c \div 2)
    OBVIOUS
  <2>1. c > 1 /\ \A d \in 2..c : c % d = 0 => d % 2 = 0
    BY DEF bucket_counts, power_of_two
  <2>2. c % c = 0
    <3>1. c = c * 1 + 0 /\ 0 \in 0..(c - 1) /\ c > 0
      BY <1>1
    <3>. QED
      BY <1>1, <3>1, ModIs
  <2>3. c % 2 = 0
    BY <1>1, <2>1, <2>2
  <2>. QED
    BY <1>1, <2>3
<1>3. initial_split(c) \in Nat
  BY <1>1 DEF initial_split
<1>4. c \div 2 <= c
  BY <1>1
<1>5. Shaped(kind, [count |-> c, split |-> c])
  BY <1>1, <1>2, <1>4 DEF Shaped
<1>6. ASSUME NEW T, T.count = c, T.split = initial_split(c)
      PROVE  Shaped(kind, T)
  BY <1>1, <1>2, <1>4, <1>6 DEF Shaped, initial_split
<1>. QED
  BY <1>1, <1>2, <1>3, <1>5, <1>6

\* What init_buckets() empties.
LEMMA InitBuckets ==
  ASSUME NEW bs \in Memories, NEW a \in Arrays, NEW from, NEW to
  PROVE  LET cs == init_buckets(bs, a, from, to)
         IN  /\ cs \in Memories
             /\ \A e \in Arrays \ {a}, i \in indices : cs[e][i] = bs[e][i]
             /\ \A i \in indices : cs[a][i] = IF i \in from..(to - 1) THEN <<>> ELSE bs[a][i]
BY DEF init_buckets, Memories

\* A table whose buckets are all empty.
Emptied(cs, U) ==
  /\ kind \in Kinds /\ cs \in Memories /\ U \in Recs
  /\ Shaped(kind, U) /\ U.size = 0 /\ U.cache = IF kind.cache THEN U.count ELSE 0
  /\ \A i \in indices : cs[U.array][i] = IF i < U.count THEN <<>> ELSE <<Junk>>

\* A new table is at rest.
LEMMA EmptiedIsQuiet ==
  ASSUME NEW cs, NEW U, Emptied(cs, U), NEW st, NEW hs, NEW N, N = {}
  PROVE  Quiet(kind, cs, U, N, st, hs)
<1>0. /\ Shaped(kind, U) /\ U.size = 0 /\ U.cache = IF kind.cache THEN U.count ELSE 0
      /\ \A i \in indices : cs[U.array][i] = IF i < U.count THEN <<>> ELSE <<Junk>>
      /\ U.count \in Nat /\ 1 <= U.count /\ \A i \in 0..(U.count - 1) : i \in indices
  BY RecIs DEF Emptied
<1>1. Kept(cs, U.array, U.count)
  BY <1>0, EmptyBucket, Zenon DEF Kept
<1>2. ASSUME NEW i \in indices, NEW n \in Nodes
      PROVE  n \notin Elems(cs[U.array][i])
  <2>1. Elems(<<>>) = {} /\ Elems(<<Junk>>) = {Junk} /\ n # Junk
    BY EmptyBucket, SingleBucket, ElementAssumption
  <2>. QED
    BY <1>0, <2>1
<1>3. Holds(cs, {U.array}, N) /\ AtHome(kind, cs, U, hs)
  BY <1>2 DEF Holds, AtHome
<1>4. Hashed(kind, N, st, hs)
  BY DEF Hashed
<1>5. Cached(kind, cs, U)
  <2>1. \A i \in 0..(U.count - 1) : cs[U.array][i] = <<>>
    BY <1>0
  <2>2. IsFirst(cs, U.array, U.count, U.count)
    BY <1>0, <2>1 DEF IsFirst
  <2>. QED
    BY <1>0, <2>2 DEF Cached
<1>6. Sized(kind, U.size, N)
  BY <1>0, FS_EmptySet DEF Sized
<1>. QED
  BY <1>0, <1>1, <1>3, <1>4, <1>5, <1>6 DEF Quiet

\* The destructor and the constructor preserve the invariant.
LEMMA ConstructBase ==
  ASSUME IBase, idle, NEW t \in Tables, NEW a \in arrays(t), NEW c \in bucket_counts,
         construct(t, a, c)
  PROVE  IBase'
<1> DEFINE M  == members[t]
           U  == [array |-> a, count |-> c, split |-> initial_split(c), size |-> 0,
                  cache |-> IF kind.cache THEN c ELSE 0]
           bt == init_buckets(buckets, a, 0, c)
           tc == [tab EXCEPT ![t] = U]
           mc == [members EXCEPT ![t] = {}]
           su == gone(stored, M)
           lc == linked \ M
           cs == given_up(bt, tc)
<1>1. Resting /\ call = None /\ (~kind.multi => group = [n \in Nodes |-> Junk])
  BY IdleIs
<1>2. /\ kind \in Kinds /\ buckets \in Memories /\ hashing \in Hashings
      /\ stored \in [Nodes -> Nat \cup {Junk}]
      /\ tab \in [Tables -> Recs] /\ members \in [Tables -> SUBSET Nodes]
      /\ Rest(buckets, tab, members, stored, hashing, linked)
  BY <1>1, RestingIs DEF Resting
<1>3. \A u \in Tables \ {t} : \A n \in members[u] : n \notin M
  BY <1>2 DEF Rest
<1>4. /\ tab' = tc /\ buckets' = given_up(bt, tab') /\ disposed(M, group) /\ call' = call
  BY <1>1, FromCached DEF construct
<1>5. /\ kind' = kind /\ hashing' = hashing /\ pending' = None /\ stored' = su /\ linked' = lc
      /\ group' = gone(group, M) /\ buckets' = cs
  BY <1>4 DEF disposed
<1>6. members' = mc
  <2>1. members' = [u \in Tables |-> members[u] \ M]
    BY <1>4 DEF disposed
  <2>2. ASSUME NEW u \in Tables
        PROVE  members[u] \ M = mc[u]
    BY <1>2, <1>3
  <2>3. mc = [u \in Tables |-> mc[u]]
    BY <1>2, Zenon
  <2>. QED
    BY <2>1, <2>2, <2>3, Zenon
<1>7. /\ c \in Counts /\ c \in Nat /\ 1 <= c /\ c <= MaxCount /\ initial_split(c) \in Nat
      /\ \A T : T.count = c /\ T.split = initial_split(c) => Shaped(kind, T)
  BY <1>2, BucketCounts, Zenon
<1>8. a \in Arrays /\ \A u \in Tables \ {t} : tab[u].array # a
  BY <1>1, ArraysAre
<1>9. /\ U \in Recs /\ U.array = a /\ U.count = c /\ Shaped(kind, U) /\ U.size = 0
      /\ U.cache = IF kind.cache THEN c ELSE 0
  <2>1. U \in Recs
    BY <1>7, <1>8 DEF Recs
  <2>2. Shaped(kind, U)
    BY <1>7
  <2>. QED
    BY <2>1, <2>2
<1>10. su \in [Nodes -> Nat \cup {Junk}] /\ \A n \in Nodes \ M : su[n] = stored[n]
  BY <1>2 DEF gone
<1> HIDE DEF su, U, bt, cs, tc, mc, lc
<1>11. /\ bt \in Memories
       /\ \A e \in Arrays \ {a}, i \in indices : bt[e][i] = buckets[e][i]
       /\ \A i \in indices : bt[a][i] = IF i \in 0..(c - 1) THEN <<>> ELSE buckets[a][i]
  BY <1>2, <1>8, InitBuckets DEF bt
<1>12. Others(t, {tab[t].array}, buckets, tab, members, stored, hashing, linked)
  BY <1>2, RestIsOthers
<1>13. \A u \in Tables \ {t}, i \in indices : bt[tab[u].array][i] = buckets[tab[u].array][i]
  BY <1>2, <1>8, <1>11, RecIs
<1>14. \A u \in Tables \ {t} : \A n \in members[u] : su[n] = stored[n] /\ n \notin {}
  BY <1>2, <1>3, <1>10
<1>15. tc = [tab EXCEPT ![t] = U] /\ mc = [members EXCEPT ![t] = {}] /\ cs = given_up(bt, tc)
       /\ lc = (linked \ members[t]) \cup {} /\ {} \in SUBSET Nodes
  BY DEF tc, mc, cs, lc
<1>16. /\ Others(t, {a}, cs, tc, mc, su, hashing, lc)
       /\ cs \in Memories
       /\ \A i \in indices : cs[a][i] = IF i < U.count THEN bt[a][i] ELSE <<Junk>>
  <2> DEFINE as == {tab[t].array}
             be == {a}
             N  == {}
  <2>1. N \in SUBSET Nodes /\ \A u \in Tables \ {t} : \A n \in members[u] : n \notin N
    OBVIOUS
  <2>2. Others(t, as, buckets, tab, members, stored, hashing, linked)
    BY <1>12
  <2>3. tc = [tab EXCEPT ![t] = U] /\ mc = [members EXCEPT ![t] = N]
        /\ lc = (linked \ members[t]) \cup N
    BY <1>15
  <2> HIDE DEF as, N
  <2>4. Exchanges(t, as, buckets, tab, members, stored, hashing, linked, bt, U, a, be, N, su, hashing,
                  tc, mc, lc, cs)
    BY <1>2, <1>8, <1>9, <1>10, <1>11, <1>13, <1>14, <1>15, <2>1, <2>2, <2>3, Zenon DEF Exchanges, be
  <2> HIDE DEF be
  <2>5. /\ Others(t, be, cs, tc, mc, su, hashing, lc)
        /\ Shortened(cs, bt, a, U.count)
    BY <2>4, GivenUpOthers, Zenon
  <2>. QED
    BY <2>5 DEF be, Shortened
<1>17. \A i \in indices : cs[a][i] = IF i < c THEN <<>> ELSE <<Junk>>
  BY <1>7, <1>9, <1>11, <1>16 DEF indices
<1>18. Quiet(kind, cs, U, {}, su, hashing)
  <2>1. Emptied(cs, U)
    BY <1>2, <1>9, <1>16, <1>17 DEF Emptied
  <2>. QED
    BY <2>1, EmptiedIsQuiet
<1>19. tc[t] = U /\ mc[t] = {}
  BY <1>2 DEF tc, mc
<1>20. Rest(cs, tc, mc, su, hashing, lc)
  <2>1. {tc[t].array} = {a}
    BY <1>9, <1>19
  <2>2. Others(t, {tc[t].array}, cs, tc, mc, su, hashing, lc)
    BY <1>16, <2>1, Zenon
  <2>3. Quiet(kind, cs, tc[t], mc[t], su, hashing)
    BY <1>18, <1>19
  <2>. QED
    BY <2>2, <2>3, OthersRest
<1>21. ~kind.multi => group' = [n \in Nodes |-> Junk]
  BY <1>1, <1>5 DEF gone
<1>. QED
  BY <1>1, <1>2, <1>4, <1>5, <1>6, <1>20, <1>21, RestIsBase

\* Tables that trade their contents or are made anew preserve the invariant.
LEMMA ExchangeNextBase ==
  ASSUME IBase, ExchangeNext
  PROVE  IBase'
<1>1. PICK t \in Tables :
        /\ idle
        /\ \/ \E u \in Tables : swap(t, u)
           \/ \E a \in arrays(t), c \in bucket_counts : construct(t, a, c)
  BY DEF ExchangeNext
<1>. QED
  BY <1>1, SwapBase, ConstructBase
=============================================================================
