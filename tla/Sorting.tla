------------------------------ MODULE Sorting ------------------------------
(***************************************************************************)
(* The sorting programs' algorithms.  Element i of a C array of N elements *)
(* is A[i + 1] here.  QuickSort comes in two forms: with the first element *)
(* as pivot, and with one chosen by the clock, which RAND takes from       *)
(* start .. end - 1; the operators give the set of all possible results.   *)
(***************************************************************************)
EXTENDS Integers, Sequences, SequencesExt, FiniteSetsExt, Functions

Swap(A, first, second) == [A EXCEPT ![first] = A[second], ![second] = A[first]]

RAND(s, e) == s .. e - 1

Pivots(random, s, e) == IF random THEN RAND(s, e) ELSE {s}

MutStopsEarly(A, s, e, i, j) ==
  LET up   == Min({k \in i .. e + 1 : k > e \/ A[s] < A[k]})
      down == Max({k \in s .. j : k = s \/ A[s] > A[k]})
  IN  [array |-> Swap(A, s, down), i |-> up, j |-> down]

\* The two indexes move towards each other and swap what is on the wrong side.
RECURSIVE Partition(_, _, _, _, _)
Partition(A, s, e, i, j) ==
  LET up   == Min({k \in i .. e + 1 : k > e \/ A[s] < A[k]})
      down == Max({k \in s .. j : k = s \/ A[s] > A[k]})
  IN  IF i > j THEN [array |-> Swap(A, s, j), i |-> i, j |-> j]
      ELSE Partition(IF up <= down THEN Swap(A, up, down) ELSE A, s, e, up, down)

\* What partitioning around pivot p leads to.
Parted(A, s, e, p) == Partition(Swap(A, s, p), s, e, s + 1, e)

RECURSIVE QSort(_, _, _, _)
QSort(random, A, s, e) ==
  IF s >= e THEN {A}
  ELSE UNION {LET P == Parted(A, s, e, p)
              IN  UNION {QSort(random, L, P.i, e) : L \in QSort(random, P.array, s, P.j - 1)}
              : p \in Pivots(random, s, e)}

QuickSort(random, A) == QSort(random, A, 1, Len(A))

\* KthElement's search goes into one part only.
RECURSIVE Select(_, _, _, _)
Select(A, s, e, k) ==
  IF s >= e THEN {A[e]}
  ELSE UNION {LET P == Parted(A, s, e, p)
              IN  IF k = P.j THEN {P.array[k]}
                  ELSE IF k < P.j THEN Select(P.array, s, P.j - 1, k)
                  ELSE Select(P.array, P.i, e, k)
              : p \in RAND(s, e)}

KthElement(A, k) == Select(A, 1, Len(A), k)

RECURSIVE Merged(_, _)
Merged(Left, Right) ==
  IF Left = <<>> THEN Right
  ELSE IF Right = <<>> THEN Left
  ELSE IF Head(Left) < Head(Right) THEN <<Head(Left)>> \o Merged(Tail(Left), Right)
  ELSE <<Head(Right)>> \o Merged(Left, Tail(Right))

Merge(A, p, q, r) ==
  SubSeq(A, 1, p - 1) \o Merged(SubSeq(A, p, q), SubSeq(A, q + 1, r))
    \o SubSeq(A, r + 1, Len(A))

RECURSIVE MSort(_, _, _)
MSort(A, p, r) ==
  IF p >= r THEN A
  ELSE LET q == (p + r) \div 2 IN Merge(MSort(MSort(A, p, q), q + 1, r), p, q, r)

MergeSort(A) == MSort(A, 1, Len(A))

\* How many calls of Merge an MSort of n elements makes.
Merges(n) == IF n = 0 THEN 0 ELSE n - 1

CheckSorted(A) == \A i \in 1 .. Len(A) - 1 : A[i] <= A[i + 1]

-----------------------------------------------------------------------------
Total(A) == FoldFunction(+, 0, A)

\* ArrayStats of arrayOperations_stats.c; the median depends on the pivots.
Mean(A) == Total(A) \div Len(A)
Variance(A) == Total([i \in DOMAIN A |-> (A[i] - Mean(A)) * (A[i] - Mean(A))]) \div Len(A)

ArrayStats(A) == [mean : {Mean(A)}, var : {Variance(A)}, min : {Min(Range(A))},
                  max : {Max(Range(A))}, med : KthElement(A, Len(A) \div 2)]

\* What arrayOperations_Master.c compares the statistics with.
ExpectedStats(A, sorted) ==
  [mean |-> Mean(A), var |-> Variance(A), min |-> sorted[1], max |-> sorted[Len(A)],
   med |-> sorted[(Len(A) - 1) \div 2 + 1]]

-----------------------------------------------------------------------------
\* The three ways to fill the array.  InitializeSemiRandom takes a remainder
\* by N / 3, which is 0 for fewer than 3 elements: the processor then raises
\* a divide error, unless there is no element.
InitializeAscending(n) == [i \in 1..n |-> i - 1]
InitializeDescending(n) == [i \in 1..n |-> n - i]
InitializeSemiRandom(n) == [i \in 1..n |-> (i - 1) % (n \div 3)]

DivideError(method, n) == method = "c" /\ n \in 1..2

Initialized(method, n) ==
  CASE method = "a" -> InitializeAscending(n)
    [] method = "b" -> InitializeDescending(n)
    [] method = "c" -> InitializeSemiRandom(n)

Methods == {"a", "b", "c"}

\* All the arrays a program can fill when it may have one of these sizes.
Fillings(sizes) == {Initialized(c[1], c[2]) :
                      c \in {d \in Methods \X sizes : ~DivideError(d[1], d[2])}}

\* The reference: the same elements, in order.
Sorts(A, B) ==
  /\ CheckSorted(B)
  /\ \A v \in Range(A) \cup Range(B) :
       Cardinality({i \in DOMAIN A : A[i] = v}) = Cardinality({i \in DOMAIN B : B[i] = v})
=============================================================================
