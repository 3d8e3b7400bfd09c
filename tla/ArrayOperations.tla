--------------------------- MODULE ArrayOperations ---------------------------
(***************************************************************************)
(* user/arrayOperations_Master.c and its slaves, which sort a shared array *)
(* in two ways and compute its statistics.  Each slave shares its results  *)
(* and then increments finishedCount, which the master reads again and     *)
(* again until it is 3.                                                    *)
(***************************************************************************)
EXTENDS Programs, Sorting

CONSTANTS QuickSlave, MergeSlave, StatsSlave,
          Sizes            \* numbers of elements the user may type in

Workers == {QuickSlave, MergeSlave, StatsSlave}

ASSUME ArrayAssumption == /\ Workers \subseteq Slaves /\ Cardinality(Workers) = 3
                          /\ Sizes \subseteq Nat \ {0}

\* Results the slaves have not shared yet.
NoResult == <<>>

\* What the slaves make of every array that the master can fill.
QuickSorted == [A \in Fillings(Sizes) |-> QuickSort(TRUE, A)]
MergeSorted == [A \in Fillings(Sizes) |-> MergeSort(A)]
Statistics == [A \in Fillings(Sizes) |-> ArrayStats(A)]

ArrayInit ==
  \E n \in Sizes, m \in Methods :
    Prepared(<<>>,
             [Elements |-> IF DivideError(m, n) THEN NoResult ELSE Initialized(m, n),
              finishedCount |-> 0,
              quicksortedArr |-> NoResult, mergesortedArr |-> NoResult, stats |-> NoResult],
             [t \in Thread |-> IF DivideError(m, n) THEN (IF t = Master THEN "killed" ELSE "done")
                               ELSE IF t = Master THEN "spin"
                               ELSE IF t \in Workers THEN "work" ELSE "done"])

SlaveQuickSort(t) ==
  /\ At(t, "work")
  /\ \E A \in QuickSorted[shared.Elements] : Write(t, "quicksortedArr", A, "load")

SlaveMergeSort(t) ==
  At(t, "work") /\ Write(t, "mergesortedArr", MergeSorted[shared.Elements], "load")

SlaveStats(t) ==
  /\ At(t, "work")
  /\ \E stats \in Statistics[shared.Elements] : Write(t, "stats", stats, "load")

\* CheckSorted of both arrays, then the comparison of the statistics.
Valid == /\ CheckSorted(shared.quicksortedArr) /\ CheckSorted(shared.mergesortedArr)
         /\ shared.stats = ExpectedStats(shared.Elements, shared.quicksortedArr)

ArrayMaster(t) ==
  \/ At(t, "spin") /\ Jump(t, IF shared.finishedCount = 3 THEN "validate" ELSE "spin")
  \/ At(t, "validate") /\ Jump(t, IF Valid THEN "done" ELSE "panic")

ArrayStep(t) == \/ t = Master /\ ArrayMaster(t)
                \/ t = QuickSlave /\ (SlaveQuickSort(t) \/ CountFinished(t))
                \/ t = MergeSlave /\ (SlaveMergeSort(t) \/ CountFinished(t))
                \/ t = StatsSlave /\ (SlaveStats(t) \/ CountFinished(t))

-----------------------------------------------------------------------------
(* Properties.                                                             *)

(***************************************************************************)
(* When the master goes on, all results are there and the arrays are       *)
(* sorted copies of the one it filled.  It panics only over the median:    *)
(* that of an odd number of elements, where it looks one place further     *)
(* than the slave, or that of an array with equal elements, where          *)
(* KthElement goes on in the wrong part when several equal the pivot.      *)
(***************************************************************************)
ResultsRight ==
  pc[Master] \in {"validate", "done", "panic"} =>
    /\ Sorts(shared.Elements, shared.quicksortedArr)
    /\ Sorts(shared.Elements, shared.mergesortedArr)
    /\ LET expected == ExpectedStats(shared.Elements, shared.quicksortedArr)
       IN  /\ [shared.stats EXCEPT !.med = 0] = [expected EXCEPT !.med = 0]
           /\ shared.stats.med # expected.med =>
                Len(shared.Elements) % 2 = 1 \/ ~IsInjective(shared.Elements)

\* The master gets to its verdict, or is killed by the divide error, or spins
\* for ever because slaves have overwritten each other's finishedCount.
ArrayEnds == \/ pc[Master] \in {"done", "panic", "killed"}
             \/ /\ \A t \in Workers : Finished(t)
                /\ shared.finishedCount < 3
=============================================================================
