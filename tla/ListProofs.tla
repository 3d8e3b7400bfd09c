----------------------------- MODULE ListProofs -----------------------------
(***************************************************************************)
(* What the list operators used by the models return, for every list, and  *)
(* what those on lists of blocks keep: which pages the list holds and how  *)
(* its blocks lie to each other.                                           *)
(***************************************************************************)
EXTENDS BlockLists, SequenceTheorems, WellFoundedInduction, TLAPS

\* RemoveAt keeps the elements before position i and shifts the later ones.
LEMMA RemoveAtElements ==
  ASSUME NEW S, NEW q \in Seq(S), NEW i \in 1..Len(q)
  PROVE  /\ RemoveAt(q, i) \in Seq(S)
         /\ Len(RemoveAt(q, i)) = Len(q) - 1
         /\ \A j \in 1..Len(q) - 1 :
              RemoveAt(q, i)[j] = IF j < i THEN q[j] ELSE q[j + 1]
<1> DEFINE a == SubSeq(q, 1, i - 1)
           b == SubSeq(q, i + 1, Len(q))
<1>1. /\ a \in Seq(S) /\ Len(a) = i - 1
      /\ \A j \in 1..i - 1 : a[j] = q[j]
  BY SubSeqProperties
<1>2. /\ b \in Seq(S) /\ Len(b) = Len(q) - i
      /\ \A j \in 1..Len(q) - i : b[j] = q[i + j]
  BY SubSeqProperties
<1>3. RemoveAt(q, i) = a \o b
  BY DEF RemoveAt
<1> HIDE DEF a, b
<1>4. /\ a \o b \in Seq(S) /\ Len(a \o b) = Len(a) + Len(b)
      /\ \A j \in 1..Len(a) + Len(b) :
           (a \o b)[j] = IF j <= Len(a) THEN a[j] ELSE b[j - Len(a)]
  BY <1>1, <1>2, ConcatProperties
<1>5. QED
  BY <1>1, <1>2, <1>3, <1>4

\* InsertAt puts e at position i and shifts the later elements.
LEMMA InsertAtElements ==
  ASSUME NEW S, NEW q \in Seq(S), NEW i \in 1..Len(q), NEW e \in S
  PROVE  /\ InsertAt(q, i, e) \in Seq(S)
         /\ Len(InsertAt(q, i, e)) = Len(q) + 1
         /\ \A j \in 1..Len(q) + 1 :
              InsertAt(q, i, e)[j] = IF j < i THEN q[j]
                                     ELSE IF j = i THEN e ELSE q[j - 1]
<1> DEFINE a == SubSeq(q, 1, i - 1)
           b == SubSeq(q, i, Len(q))
           c == a \o <<e>>
<1>1. /\ a \in Seq(S) /\ Len(a) = i - 1
      /\ \A j \in 1..i - 1 : a[j] = q[j]
  BY SubSeqProperties
<1>2. /\ b \in Seq(S) /\ Len(b) = Len(q) - i + 1
      /\ \A j \in 1..Len(q) - i + 1 : b[j] = q[i + j - 1]
  BY SubSeqProperties
<1>3. InsertAt(q, i, e) = c \o b
  BY DEF InsertAt
<1> HIDE DEF a, b
<1>4. /\ c \in Seq(S) /\ Len(c) = i
      /\ \A j \in 1..i - 1 : c[j] = q[j]
      /\ c[i] = e
  BY <1>1
<1> HIDE DEF c
<1> DEFINE d == c \o b
<1>5. /\ d \in Seq(S) /\ Len(d) = Len(c) + Len(b)
      /\ \A j \in 1..Len(c) + Len(b) : d[j] = IF j <= Len(c) THEN c[j] ELSE b[j - Len(c)]
  BY <1>2, <1>4, ConcatProperties
<1> HIDE DEF d
<1>6. ASSUME NEW j \in 1..Len(q) + 1
      PROVE  d[j] = IF j < i THEN q[j] ELSE IF j = i THEN e ELSE q[j - 1]
  <2>1. CASE j <= i
    BY <1>2, <1>4, <1>5, <2>1
  <2>2. CASE j > i
    <3>1. j - i \in 1..Len(q) - i + 1 /\ j \in 1..Len(c) + Len(b)
      BY <1>2, <1>4, <2>2
    <3>2. d[j] = b[j - i]
      BY <1>4, <1>5, <2>2, <3>1
    <3>3. b[j - i] = q[i + (j - i) - 1]
      BY <1>2, <3>1
    <3>4. QED
      BY <2>2, <3>2, <3>3
  <2>3. QED
    BY <2>1, <2>2
<1>7. QED
  BY <1>2, <1>3, <1>4, <1>5, <1>6 DEF d

\* Putting e at the head of a list shifts its elements.
LEMMA ConsElements ==
  ASSUME NEW S, NEW q \in Seq(S), NEW e \in S
  PROVE  /\ <<e>> \o q \in Seq(S)
         /\ Len(<<e>> \o q) = Len(q) + 1
         /\ \A j \in 1..Len(q) + 1 :
              (<<e>> \o q)[j] = IF j = 1 THEN e ELSE q[j - 1]
OBVIOUS

\* A concatenation holds the elements of the one and then those of the other.
LEMMA ConcatParts ==
  ASSUME NEW S, NEW p \in Seq(S), NEW q \in Seq(S)
  PROVE  /\ p \o q \in Seq(S) /\ Len(p \o q) = Len(p) + Len(q)
         /\ \A k \in 1..Len(p) : (p \o q)[k] = p[k]
         /\ \A k \in 1..Len(q) : (p \o q)[Len(p) + k] = q[k]
<1> DEFINE r == p \o q
<1>1. r \in Seq(S) /\ Len(r) = Len(p) + Len(q) /\ Len(p) \in Nat /\ Len(q) \in Nat
  BY ConcatProperties
<1>2. \A k \in 1..Len(p) : r[k] = p[k]
  BY ConcatProperties
<1>3. ASSUME NEW k \in 1..Len(q) PROVE r[Len(p) + k] = q[k]
  <2>1. /\ Len(p) + k \in 1..Len(p) + Len(q) /\ ~(Len(p) + k <= Len(p))
        /\ Len(p) + k - Len(p) = k
    BY <1>1
  <2>2. QED
    BY <1>1, <2>1, ConcatProperties
<1>4. QED
  BY <1>1, <1>2, <1>3

\* Front drops the last element.
LEMMA FrontElements ==
  ASSUME NEW S, NEW q \in Seq(S), q # <<>>
  PROVE  /\ Front(q) \in Seq(S)
         /\ Len(Front(q)) = Len(q) - 1
         /\ \A j \in 1..Len(q) - 1 : Front(q)[j] = q[j]
         /\ Last(q) = q[Len(q)] /\ Last(q) \in S
<1>1. Len(q) \in Nat \ {0} /\ \A j \in 1..Len(q) : q[j] \in S
  BY EmptySeq, ElementOfSeq
<1>2. /\ SubSeq(q, 1, Len(q) - 1) \in Seq(S)
      /\ Len(SubSeq(q, 1, Len(q) - 1)) = Len(q) - 1
      /\ \A j \in 1..Len(q) - 1 : SubSeq(q, 1, Len(q) - 1)[j] = q[j]
  BY <1>1, SubSeqProperties
<1>3. q[Len(q)] \in S
  BY <1>1
<1>4. QED
  BY <1>2, <1>3 DEF Front, Last

\* Reverse reads a list from its end.
LEMMA ReverseElements ==
  ASSUME NEW S, NEW q \in Seq(S)
  PROVE  /\ Reverse(q) \in Seq(S)
         /\ Len(Reverse(q)) = Len(q)
         /\ \A j \in 1..Len(q) : Reverse(q)[j] = q[Len(q) - j + 1]
BY DEF Reverse

\* A list read backwards grows at its end when it grows at its head.
LEMMA ReverseCons ==
  ASSUME NEW S, NEW q \in Seq(S), NEW e \in S
  PROVE  Reverse(<<e>> \o q) = Append(Reverse(q), e)
<1> DEFINE r == <<e>> \o q
           v == Reverse(q)
<1>1. /\ r \in Seq(S) /\ Len(r) = Len(q) + 1
      /\ \A j \in 1..Len(q) + 1 : r[j] = IF j = 1 THEN e ELSE q[j - 1]
  BY ConsElements
<1>2. /\ v \in Seq(S) /\ Len(v) = Len(q)
      /\ \A j \in 1..Len(q) : v[j] = q[Len(q) - j + 1]
  BY ReverseElements
<1> HIDE DEF r, v
<1>3. /\ Reverse(r) \in Seq(S) /\ Len(Reverse(r)) = Len(q) + 1
      /\ \A j \in 1..Len(q) + 1 : Reverse(r)[j] = r[Len(q) + 1 - j + 1]
  BY <1>1, ReverseElements
<1>4. /\ Append(v, e) \in Seq(S) /\ Len(Append(v, e)) = Len(q) + 1
      /\ \A j \in 1..Len(q) + 1 : Append(v, e)[j] = IF j = Len(q) + 1 THEN e ELSE v[j]
  BY <1>2
<1>5. \A j \in 1..Len(q) + 1 : Reverse(r)[j] = Append(v, e)[j]
  <2> TAKE j \in 1..Len(q) + 1
  <2>1. CASE j = Len(q) + 1
    BY <1>1, <1>3, <1>4, <2>1
  <2>2. CASE j # Len(q) + 1
    <3>1. j \in 1..Len(q) /\ Len(q) + 1 - j + 1 \in 2..Len(q) + 1
      BY <2>2
    <3>2. Reverse(r)[j] = q[Len(q) - j + 1]
      BY <1>1, <1>3, <3>1
    <3>3. Append(v, e)[j] = q[Len(q) - j + 1]
      BY <1>2, <1>4, <3>1
    <3>4. QED
      BY <3>2, <3>3
  <2>3. QED
    BY <2>1, <2>2
<1>6. Reverse(r) = Append(v, e)
  BY <1>3, <1>4, <1>5, SeqEqual
<1>7. QED
  BY <1>6 DEF r, v

\* And it loses its first element when it loses its last.
LEMMA ReverseFront ==
  ASSUME NEW S, NEW q \in Seq(S), q # <<>>
  PROVE  Reverse(Front(q)) = Tail(Reverse(q)) /\ Reverse(q) # <<>>
<1> DEFINE r == Front(q)
           v == Reverse(q)
<1>1. /\ r \in Seq(S) /\ Len(r) = Len(q) - 1
      /\ \A j \in 1..Len(q) - 1 : r[j] = q[j]
  BY FrontElements
<1>2. /\ v \in Seq(S) /\ Len(v) = Len(q) /\ v # <<>>
      /\ \A j \in 1..Len(q) : v[j] = q[Len(q) - j + 1]
  BY ReverseElements
<1> HIDE DEF r, v
<1>3. /\ Reverse(r) \in Seq(S) /\ Len(Reverse(r)) = Len(q) - 1
      /\ \A j \in 1..Len(q) - 1 : Reverse(r)[j] = r[Len(q) - 1 - j + 1]
  BY <1>1, ReverseElements
<1>4. /\ Tail(v) \in Seq(S) /\ Len(Tail(v)) = Len(q) - 1
      /\ \A j \in 1..Len(q) - 1 : Tail(v)[j] = v[j + 1]
  BY <1>2
<1>5. \A j \in 1..Len(q) - 1 : Reverse(r)[j] = Tail(v)[j]
  <2> TAKE j \in 1..Len(q) - 1
  <2>1. Len(q) - 1 - j + 1 \in 1..Len(q) - 1 /\ j + 1 \in 1..Len(q)
    BY <1>2
  <2>2. Reverse(r)[j] = q[Len(q) - j]
    <3>1. Reverse(r)[j] = q[Len(q) - 1 - j + 1]
      BY <1>1, <1>3, <2>1
    <3>2. Len(q) - 1 - j + 1 = Len(q) - j
      BY <1>2
    <3>3. QED
      BY <3>1, <3>2
  <2>3. Tail(v)[j] = q[Len(q) - j]
    BY <1>2, <1>4, <2>1
  <2>4. QED
    BY <2>2, <2>3
<1>6. Reverse(r) = Tail(v)
  BY <1>3, <1>4, <1>5, SeqEqual
<1>7. QED
  BY <1>2, <1>6 DEF r, v

-----------------------------------------------------------------------------
(***************************************************************************)
(* Lists of blocks.                                                        *)
(***************************************************************************)
\* The blocks of at least one page from lo on and below hi.
Inside(lo, hi) == {b \in [start: Int, size: Nat \ {0}] : lo <= b.start /\ End(b) <= hi}

Held(q) == UNION {Pages(b.start, b.size) : b \in ToSet(q)}

\* No page is in two blocks of the list.
Disjoint(q) ==
  \A i, j \in 1..Len(q) :
    i # j => Pages(q[i].start, q[i].size) \cap Pages(q[j].start, q[j].size) = {}

\* The blocks lie by rising address, with at least a page between any two.
Spread(q) == \A i, j \in 1..Len(q) : i < j => End(q[i]) < q[j].start

\* The list r is q with b as its k-th element.
Placed(q, r, k, b) ==
  /\ k \in 1..Len(q) + 1
  /\ Len(r) = Len(q) + 1
  /\ \A j \in 1..Len(q) + 1 : r[j] = IF j < k THEN q[j] ELSE IF j = k THEN b ELSE q[j - 1]

\* Every set of natural numbers that has one has a least one.
LEMMA LeastOf ==
  ASSUME NEW T \in SUBSET Nat, T # {}
  PROVE  \E m \in T : \A n \in T : m <= n
<1> DEFINE R == {xy \in Nat \X Nat : xy[1] < xy[2]}
<1>1. IsWellFoundedOn(R, Nat)
  BY NatLessThanWellFounded DEF OpToRel
<1>2. PICK m \in T : \A n \in T : <<n, m>> \notin R
  BY <1>1, WFMin
<1>3. \A n \in T : n < m => <<n, m>> \in R
  OBVIOUS
<1>4. \A n \in T : ~(n < m)
  BY <1>2, <1>3, Zenon
<1>5. \A n \in T : m <= n
  BY <1>4
<1>6. QED
  BY <1>5

\* A block of the kind is a record of two integers.
LEMMA BlockFields ==
  ASSUME NEW lo \in Int, NEW hi \in Int, NEW b \in Inside(lo, hi)
  PROVE  /\ b.start \in Int /\ b.size \in Nat \ {0} /\ End(b) = b.start + b.size
         /\ lo <= b.start /\ b.start + b.size <= hi
         /\ b = [start |-> b.start, size |-> b.size]
BY DEF Inside, End

\* So have the elements of a list.
LEMMA ListFields ==
  ASSUME NEW lo \in Int, NEW hi \in Int, NEW q \in Seq(Inside(lo, hi)), NEW i \in 1..Len(q)
  PROVE  /\ q[i].start \in Int /\ q[i].size \in Nat \ {0}
         /\ End(q[i]) = q[i].start + q[i].size
         /\ lo <= q[i].start /\ q[i].start + q[i].size <= hi
<1>1. q[i] \in Inside(lo, hi)
  BY ElementOfSeq
<1>2. QED
  BY <1>1, BlockFields

\* A record with those fields is such a block.
LEMMA BlockIs ==
  ASSUME NEW lo \in Int, NEW hi \in Int, NEW a \in Int, NEW n \in Nat \ {0}, lo <= a,
         a + n <= hi
  PROVE  [start |-> a, size |-> n] \in Inside(lo, hi)
BY DEF Inside, End

\* A page is held when it is in one of the blocks.
LEMMA HeldPages ==
  ASSUME NEW lo \in Int, NEW hi \in Int, NEW q \in Seq(Inside(lo, hi)), NEW p
  PROVE  p \in Held(q) <=> /\ p \in Int
                           /\ \E i \in 1..Len(q) : q[i].start <= p /\ p < q[i].start + q[i].size
<1>1. \A i \in 1..Len(q) : q[i].start \in Int /\ q[i].size \in Nat
  BY ListFields
<1>2. \A b : b \in ToSet(q) <=> \E i \in 1..Len(q) : b = q[i]
  BY DEF ToSet
<1>3. p \in Held(q) <=> \E i \in 1..Len(q) : p \in Pages(q[i].start, q[i].size)
  BY <1>2 DEF Held
<1>4. \A i \in 1..Len(q) :
        p \in Pages(q[i].start, q[i].size) <=>
          p \in Int /\ q[i].start <= p /\ p < q[i].start + q[i].size
  <2> SUFFICES ASSUME NEW i \in 1..Len(q), NEW a \in Int, NEW n \in Nat
               PROVE  p \in Pages(a, n) <=> p \in Int /\ a <= p /\ p < a + n
    BY <1>1
  <2>1. QED
    BY DEF Pages
<1>5. QED
  BY <1>3, <1>4

\* Two blocks share no page when one ends before the other starts.
LEMMA DisjointBlocks ==
  ASSUME NEW a \in Int, NEW n \in Nat \ {0}, NEW c \in Int, NEW m \in Nat \ {0}
  PROVE  Pages(a, n) \cap Pages(c, m) = {} <=> a + n <= c \/ c + m <= a
<1>1. CASE c <= a /\ a < c + m
  BY <1>1 DEF Pages
<1>2. CASE a <= c /\ c < a + n
  BY <1>2 DEF Pages
<1>3. CASE a + n <= c \/ c + m <= a
  BY <1>3 DEF Pages
<1>4. QED
  BY <1>1, <1>2, <1>3

\* The scan for an address stops at the first block that starts above it.
LEMMA PassedIs ==
  ASSUME NEW lo \in Int, NEW hi \in Int, NEW q \in Seq(Inside(lo, hi)), NEW a \in Int
  PROVE  /\ Passed(q, a) \in 0..Len(q)
         /\ \A i \in 1..Passed(q, a) : q[i].start <= a
         /\ Passed(q, a) < Len(q) => q[Passed(q, a) + 1].start > a
<1> DEFINE Stops(k) == /\ \A i \in 1..k : q[i].start <= a
                       /\ k < Len(q) => q[k + 1].start > a
           Above == {i \in 1..Len(q) : q[i].start > a}
<1>1. Len(q) \in Nat /\ \A i \in 1..Len(q) : q[i].start \in Int
  BY ListFields
<1>2. \E k \in 0..Len(q) : Stops(k)
  <2>1. CASE Above = {}
    <3>1. Stops(Len(q))
      BY <1>1, <2>1
    <3>2. QED
      BY <1>1, <3>1
  <2>2. CASE Above # {}
    <3>1. PICK m \in Above : \A i \in Above : m <= i
      <4>1. Above \in SUBSET Nat
        BY <1>1
      <4> HIDE DEF Above
      <4>2. QED
        BY <4>1, <2>2, LeastOf
    <3>2. m - 1 \in 0..Len(q) /\ \A i \in 1..m - 1 : i \in 1..Len(q) /\ i \notin Above
      BY <1>1, <3>1
    <3>3. Stops(m - 1)
      BY <1>1, <3>1, <3>2
    <3>4. QED
      BY <3>2, <3>3
  <2>3. QED
    BY <2>1, <2>2
<1>3. Passed(q, a) = CHOOSE k \in 0..Len(q) : Stops(k)
  BY DEF Passed
<1>4. Passed(q, a) \in 0..Len(q) /\ Stops(Passed(q, a))
  <2> HIDE DEF Stops
  <2>1. QED
    BY <1>2, <1>3
<1>5. QED
  BY <1>4

\* A block goes where its address belongs, in a list that is sorted.
LEMMA InsertSorted ==
  ASSUME NEW lo \in Int, NEW hi \in Int, NEW q \in Seq(Inside(lo, hi)), q # <<>>,
         NEW b \in Inside(lo, hi)
  PROVE  /\ insert_sorted(q, b) \in Seq(Inside(lo, hi))
         /\ \E k \in 1..Len(q) + 1 :
              /\ Placed(q, insert_sorted(q, b), k, b)
              /\ Spread(q) => /\ \A i \in 1..k - 1 : q[i].start <= b.start
                              /\ \A i \in k..Len(q) : b.start <= q[i].start
<1> DEFINE S == Inside(lo, hi)
           r == insert_sorted(q, b)
           n == Len(q)
<1>1. /\ n \in Nat \ {0} /\ b.start \in Int
      /\ \A i \in 1..n : q[i].start \in Int /\ q[i].size \in Nat \ {0}
  <2>1. n \in Nat \ {0}
    BY EmptySeq
  <2>2. b.start \in Int
    BY BlockFields
  <2>3. \A i \in 1..n : q[i].start \in Int /\ q[i].size \in Nat \ {0}
    BY ListFields
  <2>4. QED
    BY <2>1, <2>2, <2>3
<1>2. Head(q) = q[1] /\ Last(q) = q[n]
  BY <1>1 DEF Last
<1>3. Spread(q) => \A i, j \in 1..n : i < j => q[i].start < q[j].start
  BY <1>1 DEF Spread, End
<1>4. CASE b.start <= q[1].start
  <2>1. r = <<b>> \o q
    BY <1>2, <1>4 DEF insert_sorted
  <2>2. r \in Seq(S) /\ Placed(q, r, 1, b)
    BY <1>1, <2>1, ConsElements DEF Placed
  <2>3. Spread(q) => \A i \in 1..n : b.start <= q[i].start
    BY <1>1, <1>3, <1>4
  <2>4. QED
    BY <1>1, <2>2, <2>3
<1>5. CASE ~(b.start <= q[1].start) /\ b.start >= q[n].start
  <2>1. r = Append(q, b)
    BY <1>2, <1>5 DEF insert_sorted
  <2>2. r \in Seq(S) /\ Placed(q, r, n + 1, b)
    BY <1>1, <2>1 DEF Placed
  <2>3. Spread(q) => \A i \in 1..n : q[i].start <= b.start
    BY <1>1, <1>3, <1>5
  <2>4. QED
    BY <1>1, <2>2, <2>3
<1>6. CASE ~(b.start <= q[1].start) /\ ~(b.start >= q[n].start)
  <2> DEFINE k == Passed(q, b.start)
  <2>1. /\ k \in 0..n
        /\ \A i \in 1..k : q[i].start <= b.start
        /\ k < n => q[k + 1].start > b.start
    BY <1>1, PassedIs
  <2> HIDE DEF k
  <2>2. k + 1 \in 1..n
    BY <1>1, <1>6, <2>1
  <2>3. r = InsertAt(q, k + 1, b)
    BY <1>2, <1>6 DEF insert_sorted, k
  <2>4. r \in Seq(S) /\ Placed(q, r, k + 1, b)
    <3> HIDE DEF S, n
    <3>1. PICK m \in 1..Len(q) : m = k + 1
      BY <2>2 DEF n
    <3>2. /\ InsertAt(q, m, b) \in Seq(S) /\ Len(InsertAt(q, m, b)) = Len(q) + 1
          /\ \A j \in 1..Len(q) + 1 :
               InsertAt(q, m, b)[j] = IF j < m THEN q[j] ELSE IF j = m THEN b ELSE q[j - 1]
      BY InsertAtElements DEF S
    <3>3. m \in 1..Len(q) + 1
      BY <1>1 DEF n
    <3>4. QED
      BY <2>3, <3>1, <3>2, <3>3 DEF Placed
  <2>5. Spread(q) => \A i \in k + 1..n : b.start <= q[i].start
    BY <1>1, <1>3, <2>1, <2>2
  <2>6. QED
    BY <1>1, <2>1, <2>2, <2>4, <2>5
<1>7. QED
  BY <1>1, <1>4, <1>5, <1>6

\* A list that grows by a block holds that block's pages too.
LEMMA PlacedHolds ==
  ASSUME NEW lo \in Int, NEW hi \in Int, NEW q \in Seq(Inside(lo, hi)),
         NEW r \in Seq(Inside(lo, hi)), NEW b \in Inside(lo, hi),
         NEW k \in 1..Len(q) + 1, Placed(q, r, k, b)
  PROVE  /\ ToSet(r) = ToSet(q) \cup {b}
         /\ Held(r) = Held(q) \cup Pages(b.start, b.size)
<1>1. Len(q) \in Nat /\ DOMAIN q = 1..Len(q) /\ DOMAIN r = 1..Len(r)
  OBVIOUS
<1>2. \A x : x \in ToSet(r) <=> \E i \in 1..Len(q) + 1 : r[i] = x
  BY <1>1 DEF ToSet, Placed
<1>3. \A x : x \in ToSet(q) <=> \E i \in 1..Len(q) : q[i] = x
  BY <1>1 DEF ToSet
<1>4. ASSUME NEW x \in ToSet(r) PROVE x \in ToSet(q) \cup {b}
  <2>1. PICK i \in 1..Len(q) + 1 : r[i] = x
    BY <1>2
  <2>2. r[i] = IF i < k THEN q[i] ELSE IF i = k THEN b ELSE q[i - 1]
    BY <2>1 DEF Placed
  <2>3. CASE i < k
    BY <1>1, <1>3, <2>1, <2>2, <2>3
  <2>4. CASE i = k
    BY <2>1, <2>2, <2>4
  <2>5. CASE i > k
    <3>1. i - 1 \in 1..Len(q) /\ ~(i < k) /\ i # k
      BY <1>1, <2>1, <2>5
    <3>2. QED
      BY <1>3, <2>1, <2>2, <3>1
  <2>6. QED
    BY <1>1, <2>1, <2>3, <2>4, <2>5
<1>5. ASSUME NEW x \in ToSet(q) PROVE x \in ToSet(r)
  <2>1. PICK i \in 1..Len(q) : q[i] = x
    BY <1>3
  <2>2. i < k => r[i] = x
    BY <1>1, <2>1 DEF Placed
  <2>3. i >= k => r[i + 1] = x
    BY <1>1, <2>1 DEF Placed
  <2>4. QED
    BY <1>1, <1>2, <2>2, <2>3
<1>6. b \in ToSet(r)
  BY <1>1, <1>2 DEF Placed
<1>7. ToSet(r) = ToSet(q) \cup {b}
  BY <1>4, <1>5, <1>6
<1>8. QED
  BY <1>7 DEF Held

\* It stays without overlap when the block overlaps none of the others.
LEMMA PlacedDisjoint ==
  ASSUME NEW lo \in Int, NEW hi \in Int, NEW q \in Seq(Inside(lo, hi)),
         NEW r \in Seq(Inside(lo, hi)), NEW b \in Inside(lo, hi),
         NEW k \in 1..Len(q) + 1, Placed(q, r, k, b), Disjoint(q),
         Pages(b.start, b.size) \cap Held(q) = {}
  PROVE  Disjoint(r)
<1>1. /\ Len(q) \in Nat
      /\ \A x : x \in ToSet(q) <=> \E i \in 1..Len(q) : q[i] = x
  BY DEF ToSet
<1>2. \A i \in 1..Len(q) : Pages(q[i].start, q[i].size) \cap Pages(b.start, b.size) = {}
  BY <1>1 DEF Held
<1>3. SUFFICES ASSUME NEW i \in 1..Len(q) + 1, NEW j \in 1..Len(q) + 1, i # j
               PROVE  Pages(r[i].start, r[i].size) \cap Pages(r[j].start, r[j].size) = {}
  BY DEF Disjoint, Placed
<1> DEFINE from(m) == IF m < k THEN m ELSE m - 1
<1>4. \A m \in 1..Len(q) + 1 : m # k => r[m] = q[from(m)] /\ from(m) \in 1..Len(q)
  BY <1>1 DEF Placed
<1>5. r[k] = b
  BY <1>1 DEF Placed
<1>6. i # k /\ j # k => from(i) # from(j)
  BY <1>1, <1>3
<1>7. QED
  <2> HIDE DEF from
  <2>1. CASE i = k
    BY <1>2, <1>3, <1>4, <1>5, <2>1
  <2>2. CASE j = k
    BY <1>2, <1>3, <1>4, <1>5, <2>2
  <2>3. CASE i # k /\ j # k
    BY <1>4, <1>6, <2>3 DEF Disjoint
  <2>4. QED
    BY <2>1, <2>2, <2>3

\* A list without a block holds all pages but that block's.
LEMMA RemovedHolds ==
  ASSUME NEW lo \in Int, NEW hi \in Int, NEW q \in Seq(Inside(lo, hi)),
         NEW i \in 1..Len(q), Disjoint(q)
  PROVE  /\ RemoveAt(q, i) \in Seq(Inside(lo, hi))
         /\ ToSet(RemoveAt(q, i)) = ToSet(q) \ {q[i]}
         /\ Held(RemoveAt(q, i)) = Held(q) \ Pages(q[i].start, q[i].size)
         /\ Disjoint(RemoveAt(q, i))
<1> DEFINE r == RemoveAt(q, i)
           from(m) == IF m < i THEN m ELSE m + 1
           to(m) == IF m < i THEN m ELSE m - 1
<1>1. /\ r \in Seq(Inside(lo, hi)) /\ Len(r) = Len(q) - 1
      /\ \A j \in 1..Len(q) - 1 : r[j] = IF j < i THEN q[j] ELSE q[j + 1]
  BY RemoveAtElements
<1> HIDE DEF r
<1>2. Len(q) \in Nat /\ \A j \in 1..Len(q) : q[j].start \in Int /\ q[j].size \in Nat \ {0}
  BY ListFields
<1>3. /\ \A x : x \in ToSet(q) <=> \E j \in 1..Len(q) : q[j] = x
      /\ \A x : x \in ToSet(r) <=> \E j \in 1..Len(r) : r[j] = x
  BY <1>1 DEF ToSet
<1>4. \A j \in 1..Len(r) : from(j) \in 1..Len(q) /\ from(j) # i /\ r[j] = q[from(j)]
  BY <1>1, <1>2
<1>5. \A j, m \in 1..Len(r) : from(j) = from(m) => j = m
  BY <1>1, <1>2
<1>6. \A j \in 1..Len(q) : j # i => to(j) \in 1..Len(r) /\ r[to(j)] = q[j]
  BY <1>1, <1>2
<1> HIDE DEF from, to
<1>7. \A j, m \in 1..Len(q) : j # m => q[j] # q[m]
  <2> SUFFICES ASSUME NEW j \in 1..Len(q), NEW m \in 1..Len(q), j # m, q[j] = q[m]
               PROVE  FALSE
    OBVIOUS
  <2>1. Pages(q[j].start, q[j].size) \cap Pages(q[m].start, q[m].size) = {}
    BY DEF Disjoint
  <2>2. q[j].start \in Pages(q[j].start, q[j].size)
    BY <1>2 DEF Pages
  <2>3. QED
    BY <2>1, <2>2
<1>8. ToSet(r) = ToSet(q) \ {q[i]}
  <2>1. ASSUME NEW x \in ToSet(r) PROVE x \in ToSet(q) /\ x # q[i]
    BY <1>3, <1>4, <1>7
  <2>2. ASSUME NEW x \in ToSet(q), x # q[i] PROVE x \in ToSet(r)
    <3>1. PICK j \in 1..Len(q) : q[j] = x
      BY <1>3
    <3>2. to(j) \in 1..Len(r) /\ r[to(j)] = x
      BY <1>6, <2>2, <3>1
    <3>3. QED
      BY <1>3, <3>2
  <2>3. QED
    BY <2>1, <2>2
<1>9. \A b \in ToSet(r) : Pages(b.start, b.size) \cap Pages(q[i].start, q[i].size) = {}
  <2> SUFFICES ASSUME NEW b \in ToSet(r)
               PROVE  Pages(b.start, b.size) \cap Pages(q[i].start, q[i].size) = {}
    OBVIOUS
  <2>1. PICK j \in 1..Len(r) : r[j] = b
    BY <1>3
  <2>2. from(j) \in 1..Len(q) /\ from(j) # i /\ b = q[from(j)]
    BY <1>4, <2>1
  <2>3. QED
    BY <2>2 DEF Disjoint
<1>10. Held(r) = Held(q) \ Pages(q[i].start, q[i].size)
  BY <1>8, <1>9 DEF Held
<1>11. Disjoint(r)
  BY <1>4, <1>5 DEF Disjoint
<1>12. QED
  BY <1>1, <1>8, <1>10, <1>11 DEF r

\* Blocks that lie apart share no page.
LEMMA SpreadIsDisjoint ==
  ASSUME NEW lo \in Int, NEW hi \in Int, NEW q \in Seq(Inside(lo, hi)), Spread(q)
  PROVE  Disjoint(q)
<1> SUFFICES ASSUME NEW i \in 1..Len(q), NEW j \in 1..Len(q), i # j
             PROVE  Pages(q[i].start, q[i].size) \cap Pages(q[j].start, q[j].size) = {}
  BY Zenon DEF Disjoint
<1>1. /\ q[i].start \in Int /\ q[i].size \in Nat \ {0}
      /\ q[j].start \in Int /\ q[j].size \in Nat \ {0}
  <2>1. q[i] \in Inside(lo, hi) /\ q[j] \in Inside(lo, hi)
    BY ElementOfSeq
  <2>2. QED
    BY <2>1, BlockFields
<1>2. i < j \/ j < i
  OBVIOUS
<1>3. q[i].start + q[i].size <= q[j].start \/ q[j].start + q[j].size <= q[i].start
  <2>1. q[i].start + q[i].size < q[j].start \/ q[j].start + q[j].size < q[i].start
    BY <1>2 DEF Spread, End
  <2>2. QED
    BY <1>1, <2>1
<1>4. QED
  BY <1>1, <1>3, DisjointBlocks

\* They still do when one of them goes.
LEMMA RemovedSpread ==
  ASSUME NEW lo \in Int, NEW hi \in Int, NEW q \in Seq(Inside(lo, hi)),
         NEW i \in 1..Len(q), Spread(q)
  PROVE  Spread(RemoveAt(q, i))
<1> DEFINE r == RemoveAt(q, i)
           from(m) == IF m < i THEN m ELSE m + 1
<1>1. /\ Len(r) = Len(q) - 1 /\ Len(q) \in Nat
      /\ \A j \in 1..Len(q) - 1 : r[j] = IF j < i THEN q[j] ELSE q[j + 1]
  <2>1. Len(q) \in Nat
    OBVIOUS
  <2>2. QED
    BY <2>1, RemoveAtElements
<1> HIDE DEF r
<1>2. \A j \in 1..Len(r) : from(j) \in 1..Len(q) /\ r[j] = q[from(j)]
  BY <1>1
<1>3. \A j, m \in 1..Len(r) : j < m => from(j) < from(m)
  BY <1>1
<1> HIDE DEF from
<1>4. Spread(r)
  BY <1>2, <1>3 DEF Spread
<1>5. QED
  BY <1>4 DEF r

\* A block that is replaced leaves the others where they are.
LEMMA ReplacedElements ==
  ASSUME NEW S, NEW q \in Seq(S), NEW k \in 1..Len(q), NEW b \in S
  PROVE  /\ [q EXCEPT ![k] = b] \in Seq(S)
         /\ Len([q EXCEPT ![k] = b]) = Len(q)
         /\ \A j \in 1..Len(q) : [q EXCEPT ![k] = b][j] = IF j = k THEN b ELSE q[j]
BY ExceptSeq

\* Taking the first pages of a free block takes exactly those.
LEMMA CutHolds ==
  ASSUME NEW lo \in Int, NEW hi \in Int, NEW q \in Seq(Inside(lo, hi)), Spread(q),
         NEW i \in 1..Len(q), NEW n \in Nat \ {0}, n <= q[i].size
  PROVE  /\ Cut(q, i, n) \in Seq(Inside(lo, hi))
         /\ Spread(Cut(q, i, n))
         /\ Held(Cut(q, i, n)) = Held(q) \ Pages(q[i].start, n)
<1> DEFINE S == Inside(lo, hi)
           b == [start |-> q[i].start + n, size |-> q[i].size - n]
           r == [q EXCEPT ![i] = b]
<1>1. CASE q[i].size = n
  <2>1. Cut(q, i, n) = RemoveAt(q, i)
    BY <1>1 DEF Cut
  <2>2. QED
    BY <1>1, <2>1, RemovedHolds, RemovedSpread, SpreadIsDisjoint
<1>2. CASE q[i].size # n
  <2>1. /\ Len(q) \in Nat
        /\ \A j \in 1..Len(q) : q[j].start \in Int /\ q[j].size \in Nat \ {0}
                                 /\ lo <= q[j].start /\ q[j].start + q[j].size <= hi
    BY ListFields
  <2>2. Cut(q, i, n) = r
    BY <1>2 DEF Cut
  <2>3. b \in S /\ b.start = q[i].start + n /\ b.size = q[i].size - n
    BY <1>2, <2>1, BlockIs
  <2>4. /\ r \in Seq(S) /\ Len(r) = Len(q)
        /\ \A j \in 1..Len(q) : r[j] = IF j = i THEN b ELSE q[j]
    <3>1. q \in Seq(S)
      OBVIOUS
    <3> HIDE DEF b, S
    <3>2. QED
      BY <2>3, <3>1, ReplacedElements
  <2> HIDE DEF b, r, S
  <2>5. r[i].start = q[i].start + n /\ r[i].size = q[i].size - n
    BY <2>3, <2>4
  <2>6. \A j \in 1..Len(q) : j # i => r[j] = q[j]
    BY <2>4
  <2>0. /\ q[i].start \in Int /\ q[i].size \in Nat \ {0} /\ n \in Int
        /\ r[i].start \in Int /\ r[i].size \in Int
    BY <2>1, <2>5
  <2>7. Spread(r)
    <3> SUFFICES ASSUME NEW j \in 1..Len(q), NEW m \in 1..Len(q), j < m
                 PROVE  End(r[j]) < r[m].start
      BY <2>4 DEF Spread
    <3>1. q[j].start + q[j].size < q[m].start
      BY DEF Spread, End
    <3>2. r[j].start + r[j].size = q[j].start + q[j].size
      <4>1. CASE j = i
        <5>1. PICK s \in Int, z \in Int : s = q[i].start /\ z = q[i].size
          BY <2>0
        <5>2. r[i].start = s + n /\ r[i].size = z - n
          BY <2>5, <5>1
        <5>3. n \in Int /\ (s + n) + (z - n) = s + z
          BY <2>0
        <5>4. QED
          BY <4>1, <5>1, <5>2, <5>3
      <4>2. CASE j # i
        BY <2>6, <4>2
      <4>3. QED
        BY <4>1, <4>2
    <3>3. r[m].start >= q[m].start /\ r[m].start \in Int
      <4>1. CASE m = i
        <5>1. PICK s \in Int : s = q[i].start
          BY <2>0
        <5>2. s + n >= s /\ s + n \in Int
          OBVIOUS
        <5>3. QED
          BY <2>5, <4>1, <5>1, <5>2
      <4>2. CASE m # i
        <5>1. PICK s \in Int : s = q[m].start
          BY <2>1
        <5>2. QED
          BY <2>6, <4>2, <5>1
      <4>3. QED
        BY <4>1, <4>2
    <3>4. q[j].start \in Int /\ q[j].size \in Int /\ q[m].start \in Int
      BY <2>1
    <3>5. PICK x \in Int, y \in Int, z \in Int :
            x = q[j].start + q[j].size /\ y = q[m].start /\ z = r[m].start
      <4>1. q[j].start + q[j].size \in Int
        BY <3>4
      <4>2. QED
        BY <3>3, <3>4, <4>1
    <3>6. x < y /\ y <= z
      BY <3>1, <3>3, <3>5
    <3>7. x < z
      BY <3>6
    <3>8. End(r[j]) = x
      BY <3>2, <3>5 DEF End
    <3>9. QED
      BY <3>5, <3>7, <3>8
  <2>8. ASSUME NEW p \in Int
        PROVE  p \in Held(r) <=> p \in Held(q) /\ p \notin Pages(q[i].start, n)
    <3>1. p \in Held(r) <=> \E j \in 1..Len(q) : r[j].start <= p /\ p < r[j].start + r[j].size
      BY <2>4, HeldPages DEF S
    <3>2. p \in Held(q) <=> \E j \in 1..Len(q) : q[j].start <= p /\ p < q[j].start + q[j].size
      BY HeldPages
    <3>3. p \in Pages(q[i].start, n) <=> q[i].start <= p /\ p < q[i].start + n
      <4>1. PICK s \in Int : s = q[i].start
        BY <2>0
      <4>2. p \in Pages(s, n) <=> s <= p /\ p < s + n
        BY DEF Pages
      <4>3. QED
        BY <4>1, <4>2
    <3>4. ASSUME p \in Held(r) PROVE p \in Held(q) /\ p \notin Pages(q[i].start, n)
      <4>1. PICK j \in 1..Len(q) : r[j].start <= p /\ p < r[j].start + r[j].size
        BY <3>1, <3>4
      <4>2. CASE j = i
        <5>1. r[i].start <= p /\ p < r[i].start + r[i].size
          BY <4>1, <4>2
        <5>2. q[i].start <= p /\ p < q[i].start + q[i].size /\ ~(p < q[i].start + n)
          <6>1. PICK s \in Int, z \in Int : s = q[i].start /\ z = q[i].size
            BY <2>0
          <6>2. n \in Int /\ s + n <= p /\ p < s + n + (z - n) /\ n > 0
            BY <2>5, <5>1, <6>1
          <6>3. s <= p /\ p < s + z /\ ~(p < s + n)
            BY <6>2
          <6>4. QED
            BY <6>1, <6>3
        <5>3. QED
          BY <3>2, <3>3, <5>2
      <4>3. CASE j # i
        <5>1. q[j].start <= p /\ p < q[j].start + q[j].size
          BY <2>6, <4>1, <4>3
        <5>2. q[i].start + q[i].size < q[j].start \/ q[j].start + q[j].size < q[i].start
          BY <4>3 DEF Spread, End
        <5>3. q[j].start \in Int /\ q[j].size \in Int
          BY <2>1
        <5>4. ~(q[i].start <= p /\ p < q[i].start + n)
          <6>1. PICK s \in Int, z \in Int, t \in Int, y \in Int :
                       /\ s = q[i].start /\ z = q[i].size
                       /\ t = q[j].start /\ y = q[j].size
            BY <2>0, <5>3, SMTT(30)
          <6>2. n \in Int /\ n <= z /\ t <= p /\ p < t + y /\ (s + z < t \/ t + y < s)
            BY <5>1, <5>2, <6>1
          <6>3. ~(s <= p /\ p < s + n)
            BY <6>2
          <6>4. QED
            BY <6>1, <6>3
        <5>5. QED
          BY <3>2, <3>3, <5>1, <5>4
      <4>4. QED
        BY <4>2, <4>3
    <3>5. ASSUME p \in Held(q), p \notin Pages(q[i].start, n) PROVE p \in Held(r)
      <4>1. PICK j \in 1..Len(q) : q[j].start <= p /\ p < q[j].start + q[j].size
        BY <3>2, <3>5
      <4>2. CASE j # i
        BY <2>6, <3>1, <4>1, <4>2
      <4>3. CASE j = i
        <5>1. q[i].start <= p /\ p < q[i].start + q[i].size /\ ~(p < q[i].start + n)
          BY <2>0, <3>3, <3>5, <4>1, <4>3
        <5>2. r[i].start <= p /\ p < r[i].start + r[i].size
          <6>1. PICK s \in Int, z \in Int : s = q[i].start /\ z = q[i].size
            BY <2>0
          <6>2. r[i].start = s + n /\ r[i].size = z - n
            BY <2>5, <6>1
          <6>3. s <= p /\ p < s + z /\ ~(p < s + n)
            BY <5>1, <6>1
          <6>4. n \in Int /\ s + n <= p /\ p < (s + n) + (z - n)
            BY <2>0, <6>3
          <6>5. QED
            BY <6>2, <6>4
        <5>3. QED
          BY <3>1, <5>2
      <4>4. QED
        BY <4>2, <4>3
    <3>6. QED
      BY <3>4, <3>5
  <2>9. Held(r) = Held(q) \ Pages(q[i].start, n)
    <3>1. Held(r) \subseteq Int
      BY <2>4, HeldPages DEF S
    <3>2. Held(q) \subseteq Int
      BY HeldPages
    <3>3. QED
      BY <2>8, <3>1, <3>2
  <2>10. QED
    BY <2>2, <2>4, <2>7, <2>9 DEF S
<1>3. QED
  BY <1>1, <1>2

\* The list r is q with the one block m in the place of those from a to c - 1.
Merged(q, r, a, c, m) ==
  /\ a \in 1..Len(q) + 1 /\ c \in a..Len(q) + 1
  /\ Len(r) = Len(q) - (c - a) + 1
  /\ \A j \in 1..a - 1 : r[j] = q[j]
  /\ r[a] = m
  /\ \A j \in c..Len(q) : r[j - (c - a) + 1] = q[j]

\* The block m takes the pages of those and of b and reaches no other.
Joins(q, a, c, m, b) ==
  /\ \A i \in 1..a - 1 : End(q[i]) < m.start
  /\ \A i \in c..Len(q) : End(m) < q[i].start
  /\ \A p \in Int : p \in Pages(m.start, m.size) <=>
                      p \in Pages(b.start, b.size)
                      \/ \E i \in a..c - 1 : p \in Pages(q[i].start, q[i].size)

\* Merging blocks into one adds the pages of b and keeps the blocks apart.
LEMMA MergedHolds ==
  ASSUME NEW lo \in Int, NEW hi \in Int, NEW q \in Seq(Inside(lo, hi)),
         NEW r \in Seq(Inside(lo, hi)), Spread(q), NEW b \in Inside(lo, hi),
         NEW m \in Inside(lo, hi), NEW a \in Int, NEW c \in Int,
         Merged(q, r, a, c, m), Joins(q, a, c, m, b)
  PROVE  /\ Spread(r)
         /\ Held(r) = Held(q) \cup Pages(b.start, b.size)
<1> DEFINE from(j) == IF j < a THEN j ELSE j + (c - a) - 1
           to(j) == IF j < a THEN j ELSE j - (c - a) + 1
<1>1. /\ Len(q) \in Nat /\ Len(r) \in Nat /\ a \in 1..Len(q) + 1 /\ c \in a..Len(q) + 1
      /\ Len(r) = Len(q) - (c - a) + 1
  BY DEF Merged
<1>2. \A j \in 1..Len(r) : j # a =>
        /\ from(j) \in 1..Len(q)
        /\ j < a => from(j) \in 1..a - 1
        /\ a < j => from(j) \in c..Len(q)
        /\ r[j] = q[from(j)]
  <2> SUFFICES ASSUME NEW j \in 1..Len(r), j # a
               PROVE  /\ from(j) \in 1..Len(q)
                      /\ j < a => from(j) \in 1..a - 1
                      /\ a < j => from(j) \in c..Len(q)
                      /\ r[j] = q[from(j)]
    OBVIOUS
  <2>1. CASE j < a
    BY <1>1, <2>1 DEF Merged
  <2>2. CASE a < j
    <3>1. from(j) = j + (c - a) - 1 /\ from(j) \in c..Len(q)
      BY <1>1, <2>2
    <3>2. from(j) - (c - a) + 1 = j
      BY <1>1, <3>1
    <3>3. \A i \in c..Len(q) : r[i - (c - a) + 1] = q[i]
      BY DEF Merged
    <3> HIDE DEF from
    <3>4. r[j] = q[from(j)]
      BY <3>1, <3>2, <3>3
    <3>5. QED
      BY <1>1, <2>2, <3>1, <3>4, SMTT(20)
  <2>3. QED
    BY <1>1, <2>1, <2>2
<1>3. \A i, j \in 1..Len(r) : i < j /\ i # a /\ j # a => from(i) < from(j)
  BY <1>1
<1>4. \A j \in 1..Len(q) : j \notin a..c - 1 => to(j) \in 1..Len(r) /\ r[to(j)] = q[j]
  BY <1>1 DEF Merged
<1> HIDE DEF from, to
<1>5. r[a] = m /\ a \in 1..Len(r)
  BY <1>1 DEF Merged
<1>6. /\ \A i \in 1..a - 1 : End(q[i]) < m.start
      /\ \A i \in c..Len(q) : End(m) < q[i].start
  BY DEF Joins
<1>7. Spread(r)
  <2> SUFFICES ASSUME NEW i \in 1..Len(r), NEW j \in 1..Len(r), i < j
               PROVE  End(r[i]) < r[j].start
    BY DEF Spread
  <2>1. CASE i = a
    <3>1. from(j) \in c..Len(q) /\ r[j] = q[from(j)]
      <4>1. j # a /\ a < j
        BY <1>1, <2>1
      <4>2. QED
        BY <1>2, <4>1, Zenon
    <3>2. QED
      BY <1>5, <1>6, <2>1, <3>1
  <2>2. CASE j = a
    <3>1. from(i) \in 1..a - 1 /\ r[i] = q[from(i)]
      <4>1. i # a /\ i < a
        BY <1>1, <2>2
      <4>2. QED
        BY <1>2, <4>1, Zenon
    <3>2. QED
      BY <1>5, <1>6, <2>2, <3>1
  <2>3. CASE i # a /\ j # a
    <3>1. /\ from(i) \in 1..Len(q) /\ from(j) \in 1..Len(q)
          /\ r[i] = q[from(i)] /\ r[j] = q[from(j)]
      BY <1>2, <2>3, Zenon
    <3>2. from(i) < from(j)
      BY <1>3, <2>3
    <3>3. QED
      BY <3>1, <3>2 DEF Spread
  <2>4. QED
    BY <2>1, <2>2, <2>3
<1>8. /\ \A x : x \in ToSet(q) <=> \E j \in 1..Len(q) : q[j] = x
      /\ \A x : x \in ToSet(r) <=> \E j \in 1..Len(r) : r[j] = x
  BY DEF ToSet
<1>9. /\ \A p : p \in Held(q) <=> \E j \in 1..Len(q) : p \in Pages(q[j].start, q[j].size)
      /\ \A p : p \in Held(r) <=> \E j \in 1..Len(r) : p \in Pages(r[j].start, r[j].size)
  BY <1>8 DEF Held
<1>10. /\ Held(q) \subseteq Int /\ Held(r) \subseteq Int
       /\ Pages(b.start, b.size) \subseteq Int
  <2>1. Held(q) \subseteq Int /\ Held(r) \subseteq Int
    BY HeldPages
  <2>2. b.start \in Int /\ b.size \in Int
    BY BlockFields
  <2>3. QED
    BY <2>1, <2>2 DEF Pages
<1>11. \A p \in Int : p \in Pages(m.start, m.size) <=>
                       p \in Pages(b.start, b.size)
                       \/ \E i \in a..c - 1 : p \in Pages(q[i].start, q[i].size)
  BY DEF Joins
<1>12. ASSUME NEW p \in Held(r) PROVE p \in Held(q) \cup Pages(b.start, b.size)
  <2>1. p \in Int
    BY <1>10
  <2>2. PICK j \in 1..Len(r) : p \in Pages(r[j].start, r[j].size)
    BY <1>9
  <2>3. CASE j = a
    <3>1. p \in Pages(b.start, b.size) \/ \E i \in a..c - 1 : p \in Pages(q[i].start, q[i].size)
      BY <1>5, <1>11, <2>1, <2>2, <2>3
    <3>2. \A i \in a..c - 1 : i \in 1..Len(q)
      BY <1>1
    <3>3. QED
      BY <1>9, <3>1, <3>2
  <2>4. CASE j # a
    <3>1. from(j) \in 1..Len(q) /\ r[j] = q[from(j)]
      BY <1>2, <2>4, Zenon
    <3>2. QED
      BY <1>9, <2>2, <3>1
  <2>5. QED
    BY <2>3, <2>4
<1>13. ASSUME NEW p \in Held(q) PROVE p \in Held(r)
  <2>1. p \in Int
    BY <1>10
  <2>2. PICK j \in 1..Len(q) : p \in Pages(q[j].start, q[j].size)
    BY <1>9
  <2>3. CASE j \in a..c - 1
    BY <1>5, <1>9, <1>11, <2>1, <2>2, <2>3
  <2>4. CASE j \notin a..c - 1
    <3>1. to(j) \in 1..Len(r) /\ r[to(j)] = q[j]
      BY <1>4, <2>4
    <3>2. QED
      BY <1>9, <2>2, <3>1
  <2>5. QED
    BY <2>3, <2>4
<1>14. ASSUME NEW p \in Pages(b.start, b.size) PROVE p \in Held(r)
  BY <1>5, <1>9, <1>10, <1>11, <1>14
<1>15. QED
  BY <1>7, <1>12, <1>13, <1>14

\* Where a block that overlaps none of them lies among the free blocks.
LEMMA PassedParts ==
  ASSUME NEW lo \in Int, NEW hi \in Int, NEW q \in Seq(Inside(lo, hi)), Spread(q),
         NEW b \in Inside(lo, hi), Pages(b.start, b.size) \cap Held(q) = {},
         NEW k \in Nat, k = Passed(q, b.start)
  PROVE  /\ \A i \in 1..k : /\ i \in 1..Len(q) /\ End(q[i]) <= b.start
                            /\ End(q[k]) # b.start => End(q[i]) < b.start
         /\ \A i \in k + 1..Len(q) :
              /\ End(b) <= q[i].start
              /\ End(b) # q[k + 1].start => End(b) < q[i].start
<1>1. /\ Len(q) \in Nat /\ b.start \in Int /\ b.size \in Nat \ {0}
      /\ \A i \in 1..Len(q) : q[i].start \in Int /\ q[i].size \in Nat \ {0}
  <2>1. Len(q) \in Nat
    OBVIOUS
  <2>2. b.start \in Int /\ b.size \in Nat \ {0}
    BY BlockFields
  <2>3. \A i \in 1..Len(q) : q[i].start \in Int /\ q[i].size \in Nat \ {0}
    BY ListFields
  <2>4. QED
    BY <2>1, <2>2, <2>3
<1>2. /\ k \in 0..Len(q)
      /\ \A i \in 1..k : q[i].start <= b.start
      /\ k < Len(q) => q[k + 1].start > b.start
  BY <1>1, PassedIs
<1>3. \A x : x \in ToSet(q) <=> \E i \in 1..Len(q) : q[i] = x
  BY DEF ToSet
<1>4. ASSUME NEW i \in 1..Len(q)
      PROVE  /\ q[i].start <= b.start => q[i].start + q[i].size <= b.start
             /\ b.start < q[i].start => b.start + b.size <= q[i].start
  <2>1. Pages(q[i].start, q[i].size) \cap Pages(b.start, b.size) = {}
    BY <1>3 DEF Held
  <2>2. PICK s \in Int, z \in Nat \ {0}, t \in Int, y \in Nat \ {0} :
               s = q[i].start /\ z = q[i].size /\ t = b.start /\ y = b.size
    BY <1>1
  <2>3. s + z <= t \/ t + y <= s
    BY <2>1, <2>2, DisjointBlocks
  <2>4. (s <= t => s + z <= t) /\ (t < s => t + y <= s)
    BY <2>3
  <2>5. QED
    BY <2>2, <2>4
<1>5. ASSUME NEW i \in 1..Len(q), NEW j \in 1..Len(q), i < j
      PROVE  q[i].start + q[i].size < q[j].start
  BY <1>5 DEF Spread, End
<1>6. ASSUME NEW i \in 1..k
      PROVE  /\ i \in 1..Len(q) /\ End(q[i]) <= b.start
             /\ End(q[k]) # b.start => End(q[i]) < b.start
  <2>1. i \in 1..Len(q) /\ k \in 1..Len(q)
    BY <1>1, <1>2
  <2>2. q[i].start <= b.start /\ q[k].start <= b.start
    BY <1>2, <2>1
  <2>3. q[i].start + q[i].size <= b.start /\ q[k].start + q[k].size <= b.start
    BY <1>4, <2>1, <2>2
  <2>4. i < k => q[i].start + q[i].size < b.start
    <3>1. i < k => q[i].start + q[i].size < q[k].start
      BY <1>5, <2>1
    <3>2. q[i].start \in Int /\ q[i].size \in Int /\ q[k].start \in Int /\ b.start \in Int
      BY <1>1, <2>1
    <3>3. QED
      BY <2>2, <3>1, <3>2
  <2>5. QED
    <3>1. End(q[i]) <= b.start /\ End(q[k]) <= b.start
      BY <2>3 DEF End
    <3>2. End(q[i]) \in Int /\ End(q[k]) \in Int
      <4>1. q[i].start \in Int /\ q[i].size \in Int /\ q[k].start \in Int /\ q[k].size \in Int
        BY <1>1, <2>1
      <4>2. /\ End(q[i]) = q[i].start + q[i].size
            /\ End(q[k]) = q[k].start + q[k].size
        BY Zenon DEF End
      <4>3. \A x, y \in Int : x + y \in Int
        OBVIOUS
      <4>4. QED
        BY <4>1, <4>2, <4>3, Zenon
    <3>3. CASE i = k
      BY <1>1, <2>1, <3>1, <3>2, <3>3
    <3>4. CASE i < k
      BY <2>1, <2>4, <3>1, <3>4 DEF End
    <3>5. QED
      BY <2>1, <3>3, <3>4
<1>7. ASSUME NEW i \in k + 1..Len(q)
      PROVE  /\ End(b) <= q[i].start
             /\ End(b) # q[k + 1].start => End(b) < q[i].start
  <2>1. i \in 1..Len(q) /\ k + 1 \in 1..Len(q) /\ k < Len(q)
    BY <1>1, <1>2
  <2>2. b.start < q[k + 1].start
    BY <1>2, <2>1
  <2>3. b.start + b.size <= q[k + 1].start
    BY <1>4, <2>1, <2>2
  <2>4. k + 1 < i => q[k + 1].start < q[i].start
    <3>1. k + 1 < i => q[k + 1].start + q[k + 1].size < q[i].start
      BY <1>5, <2>1
    <3>2. q[k + 1].start \in Int /\ q[k + 1].size \in Nat /\ q[i].start \in Int
      BY <1>1, <2>1
    <3>3. QED
      BY <3>1, <3>2
  <2>5. /\ b.start \in Int /\ b.size \in Int /\ q[k + 1].start \in Int /\ q[i].start \in Int
        /\ i \in Int /\ k \in Int /\ k + 1 <= i
    BY <1>1, <2>1
  <2>6. End(b) = b.start + b.size
    BY DEF End
  <2>7. CASE i = k + 1
    BY <2>3, <2>5, <2>6, <2>7
  <2>8. CASE k + 1 < i
    <3>1. End(b) \in Int
      BY <2>5, <2>6
    <3>2. End(b) <= q[k + 1].start
      BY <2>3, <2>6, Zenon
    <3>3. q[k + 1].start < q[i].start
      BY <2>4, <2>8, Zenon
    <3>4. \A x, y, z \in Int : x <= y /\ y < z => x <= z /\ x < z
      OBVIOUS
    <3>5. End(b) <= q[i].start /\ End(b) < q[i].start
      BY <2>5, <3>1, <3>2, <3>3, <3>4, Zenon
    <3>6. QED
      BY <3>5
  <2>9. QED
    BY <2>5, <2>7, <2>8
<1>8. QED
  BY <1>6, <1>7

\* A page is in a block that ends where another starts, or in that one, when it
\* is in their union.
LEMMA PagesJoin ==
  ASSUME NEW a \in Int, NEW n \in Nat, NEW m \in Nat, NEW p \in Int
  PROVE  p \in Pages(a, n + m) <=> p \in Pages(a, n) \/ p \in Pages(a + n, m)
BY DEF Pages

\* Freeing a block gives a list of blocks again; of blocks that lie apart it gives
\* such blocks, which hold its pages beside the others.
LEMMA CoalescedHolds ==
  ASSUME NEW lo \in Int, NEW hi \in Int, NEW q \in Seq(Inside(lo, hi)), q # <<>>,
         NEW b \in Inside(lo, hi)
  PROVE  /\ Coalesced(q, b) \in Seq(Inside(lo, hi))
         /\ Spread(q) /\ Pages(b.start, b.size) \cap Held(q) = {} =>
              /\ Spread(Coalesced(q, b))
              /\ Held(Coalesced(q, b)) = Held(q) \cup Pages(b.start, b.size)
<1> DEFINE S == Inside(lo, hi)
           k == Passed(q, b.start)
           r == Coalesced(q, b)
           pre == k > 0 /\ End(q[k]) = b.start
           next == k < Len(q) /\ End(b) = q[k + 1].start
           Free == Spread(q) /\ Pages(b.start, b.size) \cap Held(q) = {}
<1>1. /\ Len(q) \in Nat /\ b.start \in Int /\ b.size \in Nat \ {0}
      /\ lo <= b.start /\ b.start + b.size <= hi
      /\ \A i \in 1..Len(q) : /\ q[i].start \in Int /\ q[i].size \in Nat \ {0}
                              /\ lo <= q[i].start /\ q[i].start + q[i].size <= hi
  <2>1. Len(q) \in Nat
    OBVIOUS
  <2>2. b.start \in Int /\ b.size \in Nat \ {0} /\ lo <= b.start /\ b.start + b.size <= hi
    BY BlockFields
  <2>3. \A i \in 1..Len(q) : /\ q[i].start \in Int /\ q[i].size \in Nat \ {0}
                             /\ lo <= q[i].start /\ q[i].start + q[i].size <= hi
    BY ListFields
  <2> HIDE DEF k, r, pre, next, Free
  <2>4. QED
    BY <2>1, <2>2, <2>3, Zenon
<1>2. k \in 0..Len(q) /\ k \in Nat
  <2>1. k \in 0..Len(q)
    BY <1>1, PassedIs
  <2> HIDE DEF k
  <2>2. QED
    BY <1>1, <2>1
<1>3. Free => /\ \A i \in 1..k : /\ i \in 1..Len(q) /\ End(q[i]) <= b.start
                                 /\ End(q[k]) # b.start => End(q[i]) < b.start
              /\ \A i \in k + 1..Len(q) :
                   /\ End(b) <= q[i].start
                   /\ End(b) # q[k + 1].start => End(b) < q[i].start
  BY <1>2, PassedParts
<1>4. SUFFICES /\ r \in Seq(S)
               /\ Free => \E a \in Int, c \in Int, m \in S : Merged(q, r, a, c, m)
                                                            /\ Joins(q, a, c, m, b)
  BY MergedHolds
<1>5. q \in Seq(S) /\ b \in S
  OBVIOUS
<1>6. CASE pre /\ next
  <2>1. k \in 1..Len(q) /\ k + 1 \in 1..Len(q)
    BY <1>2, <1>6
  <2>2. PICK s \in Int, z \in Nat \ {0}, t \in Int, y \in Nat \ {0}, u \in Int, w \in Nat \ {0} :
               /\ s = q[k].start /\ z = q[k].size /\ t = b.start /\ y = b.size
               /\ u = q[k + 1].start /\ w = q[k + 1].size
    BY <1>1, <2>1
  <2>3. s + z = t /\ t + y = u /\ lo <= s /\ u + w <= hi
    BY <1>1, <1>6, <2>1, <2>2 DEF End
  <2> DEFINE m == [start |-> s, size |-> z + y + w]
             f == [q EXCEPT ![k] = m]
  <2>4. m \in S
    BY <2>3, BlockIs
  <2>5. r = RemoveAt(f, k + 1)
    <3>1. r = RemoveAt([q EXCEPT ![k].size = q[k].size + b.size + q[k + 1].size], k + 1)
      BY <1>6 DEF Coalesced
    <3>2. [q EXCEPT ![k].size = z + y + w] = f
      <4> HIDE DEF k
      <4>1. [q EXCEPT ![k].size = z + y + w] =
            [q EXCEPT ![k] = [start |-> q[k].start, size |-> z + y + w]]
        <5>1. PICK n \in Int : n = z + y + w
          OBVIOUS
        <5>2. PICK i \in 1..Len(q) : i = k
          BY <2>1
        <5>3. [q EXCEPT ![i].size = n] = [q EXCEPT ![i] = [start |-> q[i].start, size |-> n]]
          <6>1. q[i] = [start |-> q[i].start, size |-> q[i].size]
            <7>1. q[i] \in Inside(lo, hi)
              BY ElementOfSeq
            <7>2. QED
              BY <7>1, BlockFields
          <6>2. [q[i] EXCEPT !.size = n] = [start |-> q[i].start, size |-> n]
            BY <6>1
          <6>3. QED
            BY <6>2, Zenon
        <5>4. QED
          BY <5>1, <5>2, <5>3, Zenon
      <4>2. QED
        BY <2>2, <4>1, Zenon
    <3>3. QED
      BY <2>2, <3>1, <3>2
  <2>6. m.start = s /\ End(m) = u + w
    BY <2>3 DEF End
  <2> DEFINE P(p) == p \in Pages(m.start, m.size)
  <2>7. \A p \in Int : P(p) <=> \/ p \in Pages(b.start, b.size)
                                \/ p \in Pages(q[k].start, q[k].size)
                                \/ p \in Pages(q[k + 1].start, q[k + 1].size)
    <3>1. \A p \in Int : p \in Pages(s, z + y + w) <=>
             p \in Pages(t, y) \/ p \in Pages(s, z) \/ p \in Pages(u, w)
      BY <2>3 DEF Pages
    <3>2. QED
      BY <2>2, <3>1
  <2> HIDE DEF m, S, k, r
  <2>8. /\ f \in Seq(S) /\ Len(f) = Len(q)
        /\ \A j \in 1..Len(q) : f[j] = IF j = k THEN m ELSE q[j]
    BY <1>5, <2>1, <2>4, ReplacedElements
  <2> HIDE DEF f
  <2>9. /\ r \in Seq(S) /\ Len(r) = Len(q) - 1
        /\ \A j \in 1..Len(q) - 1 : r[j] = IF j < k + 1 THEN f[j] ELSE f[j + 1]
    <3>1. k + 1 \in 1..Len(f)
      BY <2>1, <2>8
    <3>2. QED
      BY <2>5, <2>8, <3>1, RemoveAtElements
  <2>10. Merged(q, r, k, k + 2, m)
    <3>1. k \in Nat /\ k + 2 - k = 2
      BY <1>1, <2>1
    <3>2. \A j \in 1..k - 1 : r[j] = q[j]
      <4> SUFFICES ASSUME NEW j \in 1..k - 1 PROVE r[j] = q[j]
        OBVIOUS
      <4>1. j \in 1..Len(q) - 1 /\ j < k + 1 /\ j \in 1..Len(q) /\ j # k
        BY <1>1, <2>1
      <4>2. QED
        BY <2>8, <2>9, <4>1
    <3>3. r[k] = m
      BY <1>1, <2>1, <2>8, <2>9
    <3>4. \A j \in k + 2..Len(q) : r[j - 2 + 1] = q[j]
      <4> SUFFICES ASSUME NEW j \in k + 2..Len(q) PROVE r[j - 2 + 1] = q[j]
        OBVIOUS
      <4>1. j - 1 \in 1..Len(q) - 1 /\ ~(j - 1 < k + 1) /\ j - 1 + 1 = j
        BY <1>1, <2>1
      <4>2. r[j - 1] = f[j]
        BY <2>9, <4>1
      <4>3. f[j] = q[j]
        BY <1>1, <2>1, <2>8
      <4>4. QED
        BY <4>2, <4>3
    <3>5. Len(r) = Len(q) - 2 + 1 /\ k \in 1..Len(q) + 1 /\ k + 2 \in k..Len(q) + 1
      BY <1>1, <2>1, <2>9
    <3>6. QED
      BY <3>1, <3>2, <3>3, <3>4, <3>5 DEF Merged
  <2>11. Free => Joins(q, k, k + 2, m, b)
    <3> SUFFICES ASSUME Free PROVE Joins(q, k, k + 2, m, b)
      OBVIOUS
    <3>1. \A i \in 1..k - 1 : End(q[i]) < m.start
      <4>1. m.start = q[k].start
        BY <2>2, <2>6
      <4>2. \A i \in 1..k - 1 : i \in 1..Len(q) /\ i < k
        BY <1>1, <2>1
      <4>3. QED
        BY <2>1, <4>1, <4>2 DEF Spread
    <3>2. End(q[k + 1]) = End(m)
      BY <2>2, <2>6 DEF End
    <3>3. \A i \in k + 2..Len(q) : End(m) < q[i].start
      BY <1>1, <2>1, <3>2 DEF Spread
    <3>4. \A i : i \in k..(k + 2) - 1 <=> i = k \/ i = k + 1
      BY <1>1, <2>1
    <3>5. \A p : (\E i \in k..(k + 2) - 1 : p \in Pages(q[i].start, q[i].size)) <=>
              \/ p \in Pages(q[k].start, q[k].size)
              \/ p \in Pages(q[k + 1].start, q[k + 1].size)
      BY <3>4, Zenon
    <3>6. \A p \in Int : p \in Pages(m.start, m.size) <=>
            \/ p \in Pages(b.start, b.size)
            \/ \E i \in k..(k + 2) - 1 : p \in Pages(q[i].start, q[i].size)
      BY <2>7, <3>5, Zenon
    <3>7. QED
      BY <3>1, <3>3, <3>6 DEF Joins
  <2>12. QED
    <3>1. k \in Int /\ k + 2 \in Int
      BY <1>2
    <3>2. QED
      BY <2>4, <2>9, <2>10, <2>11, <3>1
<1>7. CASE ~pre /\ next
  <2>1. k + 1 \in 1..Len(q)
    BY <1>2, <1>7
  <2>2. PICK t \in Int, y \in Nat \ {0}, u \in Int, w \in Nat \ {0} :
               t = b.start /\ y = b.size /\ u = q[k + 1].start /\ w = q[k + 1].size
    BY <1>1, <2>1
  <2>3. t + y = u /\ lo <= t /\ u + w <= hi
    BY <1>1, <1>7, <2>1, <2>2 DEF End
  <2> DEFINE m == [start |-> t, size |-> w + y]
  <2>4. m \in S
    BY <2>3, BlockIs
  <2>5. r = [q EXCEPT ![k + 1] = m]
    BY <1>7, <2>2 DEF Coalesced
  <2>6. m.start = t /\ End(m) = u + w
    BY <2>3 DEF End
  <2> DEFINE P(p) == p \in Pages(m.start, m.size)
  <2>7. \A p \in Int : P(p) <=> \/ p \in Pages(b.start, b.size)
                                \/ p \in Pages(q[k + 1].start, q[k + 1].size)
    <3>1. \A p \in Int : p \in Pages(t, w + y) <=> p \in Pages(t, y) \/ p \in Pages(u, w)
      BY <2>3 DEF Pages
    <3>2. QED
      BY <2>2, <3>1
  <2> HIDE DEF m, S, k, r
  <2>8. /\ r \in Seq(S) /\ Len(r) = Len(q)
        /\ \A j \in 1..Len(q) : r[j] = IF j = k + 1 THEN m ELSE q[j]
    BY <1>5, <2>1, <2>4, <2>5, ReplacedElements
  <2>9. Merged(q, r, k + 1, k + 2, m)
    <3>1. k \in Nat /\ k + 2 - (k + 1) = 1
      BY <1>1, <1>2
    <3>2. \A j \in 1..(k + 1) - 1 : r[j] = q[j]
      BY <1>1, <2>1, <2>8, <3>1
    <3>3. r[k + 1] = m
      BY <1>1, <2>1, <2>8
    <3>4. \A j \in k + 2..Len(q) : r[j - 1 + 1] = q[j]
      BY <1>1, <2>1, <2>8, <3>1
    <3>5. Len(r) = Len(q) - 1 + 1 /\ k + 1 \in 1..Len(q) + 1 /\ k + 2 \in k + 1..Len(q) + 1
      BY <1>1, <2>1, <2>8, <3>1
    <3>6. QED
      BY <3>1, <3>2, <3>3, <3>4, <3>5 DEF Merged
  <2>10. Free => Joins(q, k + 1, k + 2, m, b)
    <3> SUFFICES ASSUME Free PROVE Joins(q, k + 1, k + 2, m, b)
      OBVIOUS
    <3>1. \A i \in 1..(k + 1) - 1 : End(q[i]) < m.start
      BY <1>2, <1>3, <1>7, <2>2, <2>6, SMTT(20) DEF k
    <3>2. End(q[k + 1]) = End(m)
      BY <2>2, <2>6 DEF End
    <3>3. \A i \in k + 2..Len(q) : End(m) < q[i].start
      BY <1>1, <1>2, <2>1, <3>2 DEF Spread
    <3>4. \A i : i \in k + 1..(k + 2) - 1 <=> i = k + 1
      BY <1>1, <1>2, <2>1
    <3>5. \A p : (\E i \in k + 1..(k + 2) - 1 : p \in Pages(q[i].start, q[i].size)) <=>
              p \in Pages(q[k + 1].start, q[k + 1].size)
      BY <3>4, Zenon
    <3>6. \A p \in Int : p \in Pages(m.start, m.size) <=>
            \/ p \in Pages(b.start, b.size)
            \/ \E i \in k + 1..(k + 2) - 1 : p \in Pages(q[i].start, q[i].size)
      BY <2>7, <3>5, Zenon
    <3>7. QED
      BY <3>1, <3>3, <3>6 DEF Joins
  <2>11. QED
    BY <1>2, <2>4, <2>8, <2>9, <2>10
<1>8. CASE pre /\ ~next
  <2>1. k \in 1..Len(q)
    BY <1>2, <1>8
  <2>2. PICK s \in Int, z \in Nat \ {0}, t \in Int, y \in Nat \ {0} :
               s = q[k].start /\ z = q[k].size /\ t = b.start /\ y = b.size
    BY <1>1, <2>1
  <2>3. s + z = t /\ lo <= s /\ t + y <= hi
    BY <1>1, <1>8, <2>1, <2>2 DEF End
  <2> DEFINE m == [start |-> s, size |-> z + y]
  <2>4. m \in S
    BY <2>3, BlockIs
  <2>5. r = [q EXCEPT ![k] = m]
    <3>1. r = [q EXCEPT ![k].size = q[k].size + b.size]
      BY <1>8 DEF Coalesced
    <3>2. [q EXCEPT ![k].size = z + y] = [q EXCEPT ![k] = m]
      <4> HIDE DEF k
      <4>1. [q EXCEPT ![k].size = z + y] =
            [q EXCEPT ![k] = [start |-> q[k].start, size |-> z + y]]
        <5>1. PICK n \in Int : n = z + y
          OBVIOUS
        <5>2. PICK i \in 1..Len(q) : i = k
          BY <2>1
        <5>3. [q EXCEPT ![i].size = n] = [q EXCEPT ![i] = [start |-> q[i].start, size |-> n]]
          <6>1. q[i] = [start |-> q[i].start, size |-> q[i].size]
            <7>1. q[i] \in Inside(lo, hi)
              BY ElementOfSeq
            <7>2. QED
              BY <7>1, BlockFields
          <6>2. [q[i] EXCEPT !.size = n] = [start |-> q[i].start, size |-> n]
            BY <6>1
          <6>3. QED
            BY <6>2, Zenon
        <5>4. QED
          BY <5>1, <5>2, <5>3, Zenon
      <4>2. QED
        BY <2>2, <4>1, Zenon
    <3>3. QED
      BY <2>2, <3>1, <3>2
  <2>6. m.start = s /\ End(m) = t + y
    BY <2>3 DEF End
  <2> DEFINE P(p) == p \in Pages(m.start, m.size)
  <2>7. \A p \in Int : P(p) <=> \/ p \in Pages(b.start, b.size)
                                \/ p \in Pages(q[k].start, q[k].size)
    <3>1. \A p \in Int : p \in Pages(s, z + y) <=> p \in Pages(t, y) \/ p \in Pages(s, z)
      BY <2>3 DEF Pages
    <3>2. QED
      BY <2>2, <3>1
  <2> HIDE DEF m, S, k, r
  <2>8. /\ r \in Seq(S) /\ Len(r) = Len(q)
        /\ \A j \in 1..Len(q) : r[j] = IF j = k THEN m ELSE q[j]
    BY <1>5, <2>1, <2>4, <2>5, ReplacedElements
  <2>9. Merged(q, r, k, k + 1, m)
    BY <1>1, <2>1, <2>8 DEF Merged
  <2>10. Free => Joins(q, k, k + 1, m, b)
    <3> SUFFICES ASSUME Free PROVE Joins(q, k, k + 1, m, b)
      OBVIOUS
    <3>1. \A i \in 1..k - 1 : End(q[i]) < m.start
      <4>1. m.start = q[k].start
        BY <2>2, <2>6
      <4>2. \A i \in 1..k - 1 : i \in 1..Len(q) /\ i < k
        BY <1>1, <2>1
      <4>3. QED
        BY <2>1, <4>1, <4>2 DEF Spread
    <3>2. End(b) = End(m)
      BY <2>2, <2>6 DEF End
    <3>3. \A i \in k + 1..Len(q) : End(m) < q[i].start
      BY <1>1, <1>3, <1>8, <2>1, <3>2 DEF k
    <3>4. \A i : i \in k..(k + 1) - 1 <=> i = k
      BY <1>1, <2>1
    <3>5. \A p : (\E i \in k..(k + 1) - 1 : p \in Pages(q[i].start, q[i].size)) <=>
              p \in Pages(q[k].start, q[k].size)
      BY <3>4, Zenon
    <3>6. \A p \in Int : p \in Pages(m.start, m.size) <=>
            \/ p \in Pages(b.start, b.size)
            \/ \E i \in k..(k + 1) - 1 : p \in Pages(q[i].start, q[i].size)
      BY <2>7, <3>5, Zenon
    <3>7. QED
      BY <3>1, <3>3, <3>6 DEF Joins
  <2>11. QED
    BY <1>2, <2>4, <2>8, <2>9, <2>10
<1>9. CASE ~pre /\ ~next
  <2>1. r = insert_sorted(q, b)
    BY <1>9 DEF Coalesced
  <2>2. r \in Seq(S)
    BY <2>1, InsertSorted
  <2>3. PICK a \in 1..Len(q) + 1 :
               /\ Placed(q, r, a, b)
               /\ Spread(q) => /\ \A i \in 1..a - 1 : q[i].start <= b.start
                               /\ \A i \in a..Len(q) : b.start <= q[i].start
    BY <2>1, InsertSorted
  <2>4. Merged(q, r, a, a, b)
    <3>1. a - a = 0 /\ a \in 1..Len(q) + 1 /\ a \in a..Len(q) + 1
      BY <1>1
    <3>2. \A j \in 1..a - 1 : r[j] = q[j]
      BY <1>1, <2>3 DEF Placed
    <3>3. r[a] = b
      BY <1>1, <2>3 DEF Placed
    <3>4. \A j \in a..Len(q) : r[j - 0 + 1] = q[j]
      BY <1>1, <2>3 DEF Placed
    <3>5. Len(r) = Len(q) - 0 + 1
      BY <1>1, <2>3 DEF Placed
    <3>6. QED
      BY <3>1, <3>2, <3>3, <3>4, <3>5 DEF Merged
  <2> HIDE DEF S, r
  <2>5. Free => Joins(q, a, a, b, b)
    <3> SUFFICES ASSUME Free PROVE Joins(q, a, a, b, b)
      OBVIOUS
    <3>1. \A i \in 1..Len(q) : End(q[i]) < b.start \/ End(b) < q[i].start
      <4> SUFFICES ASSUME NEW i \in 1..Len(q)
                   PROVE  End(q[i]) < b.start \/ End(b) < q[i].start
        OBVIOUS
      <4>1. CASE i \in 1..k
        <5>1. k > 0
          BY <1>2, <4>1
        <5>2. QED
          BY <1>3, <1>9, <4>1, <5>1
      <4>2. CASE i \in k + 1..Len(q)
        <5>1. k < Len(q)
          BY <1>1, <1>2, <4>2
        <5>2. QED
          BY <1>3, <1>9, <4>2, <5>1
      <4>3. QED
        BY <1>1, <1>2, <4>1, <4>2
    <3>2. \A i \in 1..Len(q) : q[i].start < End(q[i]) /\ End(q[i]) \in Int
      <4> SUFFICES ASSUME NEW i \in 1..Len(q)
                   PROVE  q[i].start < End(q[i]) /\ End(q[i]) \in Int
        OBVIOUS
      <4>1. q[i].start \in Int /\ q[i].size \in Nat \ {0}
        BY <1>1
      <4>2. QED
        BY <4>1 DEF End
    <3>3. b.start < End(b) /\ End(b) \in Int
      BY <1>1 DEF End
    <3>4. \A i \in 1..a - 1 : End(q[i]) < b.start
      <4> SUFFICES ASSUME NEW i \in 1..a - 1 PROVE End(q[i]) < b.start
        OBVIOUS
      <4>1. i \in 1..Len(q) /\ q[i].start <= b.start
        BY <1>1, <2>3
      <4>2. QED
        BY <1>1, <3>1, <3>3, <4>1
    <3>5. \A i \in a..Len(q) : End(b) < q[i].start
      <4> SUFFICES ASSUME NEW i \in a..Len(q) PROVE End(b) < q[i].start
        OBVIOUS
      <4>1. i \in 1..Len(q) /\ b.start <= q[i].start
        BY <1>1, <2>3
      <4>2. QED
        BY <1>1, <3>1, <3>2, <4>1
    <3>6. \A i : i \notin a..a - 1
      BY <1>1
    <3>7. QED
      BY <3>4, <3>5, <3>6 DEF Joins
  <2>6. QED
    BY <1>5, <2>2, <2>4, <2>5
<1>10. QED
  BY <1>6, <1>7, <1>8, <1>9

\* The same, of free blocks that lie apart.
LEMMA CoalescedApart ==
  ASSUME NEW lo \in Int, NEW hi \in Int, NEW q \in Seq(Inside(lo, hi)), q # <<>>,
         NEW b \in Inside(lo, hi), Spread(q), Pages(b.start, b.size) \cap Held(q) = {}
  PROVE  /\ Spread(Coalesced(q, b))
         /\ Held(Coalesced(q, b)) = Held(q) \cup Pages(b.start, b.size)
BY CoalescedHolds

\* Pages in a row that are all held lie in one block, when the blocks lie apart.
LEMMA RunInOneBlock ==
  ASSUME NEW lo \in Int, NEW hi \in Int, NEW q \in Seq(Inside(lo, hi)), Spread(q),
         NEW a \in Int, NEW n \in Nat \ {0}, Pages(a, n) \subseteq Held(q)
  PROVE  \E i \in 1..Len(q) : q[i].start <= a /\ a + n <= End(q[i]) /\ n <= q[i].size
<1>1. \A i \in 1..Len(q) : /\ q[i].start \in Int /\ q[i].size \in Nat
                           /\ End(q[i]) = q[i].start + q[i].size
  BY ListFields
<1>2. \A p \in Held(q) : \E i \in 1..Len(q) : q[i].start <= p /\ p < q[i].start + q[i].size
  BY HeldPages
<1>3. a \in Held(q)
  BY DEF Pages
<1>4. PICK i \in 1..Len(q) : q[i].start <= a /\ a < q[i].start + q[i].size
  BY <1>2, <1>3
<1>5. PICK s \in Int, z \in Nat : s = q[i].start /\ z = q[i].size
  BY <1>1
<1>6. CASE s + z < a + n
  <2>1. s + z \in Pages(a, n)
    BY <1>4, <1>5, <1>6 DEF Pages
  <2>2. PICK j \in 1..Len(q) : q[j].start <= s + z /\ s + z < q[j].start + q[j].size
    BY <1>2, <2>1
  <2>3. PICK t \in Int, y \in Nat : t = q[j].start /\ y = q[j].size
    BY <1>1
  <2>4. t <= s + z /\ s + z < t + y
    BY <2>2, <2>3
  <2>5. CASE i < j
    <3>1. s + z < t
      BY <1>1, <1>5, <2>3, <2>5 DEF Spread
    <3>2. QED
      BY <2>4, <3>1
  <2>6. CASE j < i
    <3>1. t + y < s
      BY <1>1, <1>5, <2>3, <2>6 DEF Spread
    <3>2. QED
      BY <2>4, <3>1
  <2>7. CASE i = j
    BY <1>5, <2>3, <2>4, <2>7
  <2>8. QED
    BY <2>5, <2>6, <2>7
<1>7. CASE a + n <= s + z
  <2>1. n <= z
    BY <1>4, <1>5, <1>7
  <2>2. QED
    BY <1>1, <1>4, <1>5, <1>7, <2>1
<1>8. QED
  BY <1>6, <1>7
=============================================================================
