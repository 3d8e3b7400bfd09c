---------------------------- MODULE SortPrograms ----------------------------
(***************************************************************************)
(* The programs that sort an array the user chooses and ask whether to     *)
(* repeat: user/quicksort*.c, mergesort_leakage.c, mergesort_noleakage.c.  *)
(* Their heap is a number of blocks.                                       *)
(***************************************************************************)
EXTENDS Programs, Sorting

CONSTANTS LoneSizes,     \* numbers of elements the user may type in
          MaxRounds      \* how often the user repeats

ASSUME SortAssumption == LoneSizes \subseteq Nat \ {0} /\ MaxRounds \in Nat

\* What distinguishes the programs: the algorithm, the blocks that sorting n
\* elements leaves allocated, and whether the array is freed afterwards.
quicksort             == [merges |-> FALSE, keepsHalves |-> FALSE, frees |-> TRUE]
quicksort_noleakage   == [merges |-> FALSE, keepsHalves |-> FALSE, frees |-> TRUE]
quicksort_freeheap    == [merges |-> FALSE, keepsHalves |-> FALSE, frees |-> FALSE]
quicksort_heap        == [merges |-> FALSE, keepsHalves |-> FALSE, frees |-> FALSE]
mergesort_noleakage   == [merges |-> TRUE,  keepsHalves |-> FALSE, frees |-> TRUE]
mergesort_leakage     == [merges |-> TRUE,  keepsHalves |-> TRUE,  frees |-> TRUE]

SortProgram == {quicksort, quicksort_noleakage, quicksort_freeheap, quicksort_heap,
                mergesort_noleakage, mergesort_leakage}

SortInit ==
  \E p \in SortProgram :
    Prepared(<<>>,
             [program |-> p, Elements |-> <<>>, filled |-> <<>>, blocks |-> 0, rounds |-> 0],
             [t \in Thread |-> IF t = Master THEN "ask" ELSE "done"])

\* Reads the number of elements and the method, and fills a new array.
Ask(t) ==
  /\ At(t, "ask")
  /\ \E n \in LoneSizes, m \in Methods :
       IF DivideError(m, n) THEN Jump(t, "killed")
       ELSE /\ shared' = [shared EXCEPT !.Elements = Initialized(m, n),
                                        !.filled = Initialized(m, n),
                                        !.blocks = @ + 1, !.rounds = @ + 1]
            /\ Go(t, "sort") /\ UNCHANGED <<permits, waiting, local>>

\* Every Merge allocates two arrays.
LeftBehind(program, n) == IF program.keepsHalves THEN 2 * Merges(n) ELSE 0

\* What the two algorithms make of every array that can be filled in.
ByMerging == [A \in Fillings(LoneSizes) |-> {MergeSort(A)}]
ByPartition == [A \in Fillings(LoneSizes) |-> QuickSort(FALSE, A)]

Sort(t) ==
  /\ At(t, "sort")
  /\ \E A \in (IF shared.program.merges THEN ByMerging ELSE ByPartition)[shared.Elements] :
       shared' = [shared EXCEPT !.Elements = A,
                                !.blocks = @ + LeftBehind(shared.program, Len(A))]
  /\ Go(t, "check") /\ UNCHANGED <<permits, waiting, local>>

Check(t) == At(t, "check") /\ Jump(t, IF CheckSorted(shared.Elements) THEN "free" ELSE "panic")

Free(t) ==
  /\ At(t, "free")
  /\ Write(t, "blocks", IF shared.program.frees THEN shared.blocks - 1 ELSE shared.blocks,
           "repeat")

Repeat(t) == \/ At(t, "repeat") /\ shared.rounds < MaxRounds /\ Jump(t, "ask")
             \/ At(t, "repeat") /\ Jump(t, "done")

SortStep(t) == t = Master /\ (Ask(t) \/ Sort(t) \/ Check(t) \/ Free(t) \/ Repeat(t))

-----------------------------------------------------------------------------
(* Properties.                                                             *)

(***************************************************************************)
(* What was sorted is a sorted copy of what was filled in, and no program  *)
(* panics.  The two programs named "noleakage" (and quicksort) have given  *)
(* every block back when they ask whether to repeat; the others have not.  *)
(***************************************************************************)
SortsRight ==
  /\ pc[Master] # "panic"
  /\ pc[Master] \in {"check", "free", "repeat"} => Sorts(shared.filled, shared.Elements)
  /\ pc[Master] = "repeat" /\ shared.program \in {quicksort_noleakage, mergesort_noleakage} =>
       shared.blocks = 0
=============================================================================
