----------------------------- MODULE UserTests -----------------------------
(***************************************************************************)
(* The programs of user/ that test malloc, free, placement and replacement *)
(* replayed on the model at real addresses: a test is a sequence of calls  *)
(* and accesses to memory with what it expects after each.  The program's  *)
(* heap (lib/uheap.c) runs on allocateMem, freeMem and the page fault      *)
(* handler of WorkingSet.                                                  *)
(*                                                                         *)
(* Sizes and offsets in the heap are in kilobytes, other addresses are     *)
(* page numbers.                                                           *)
(***************************************************************************)
EXTENDS WorkingSet, SequencesExt

CONSTANTS USER_HEAP_START, USER_HEAP_MAX,  \* page numbers
          UserTest                         \* the tests replayed

VARIABLES Block_info_free_list_user, Block_info_taken_list_user,
          space,  \* what the last malloc returned; 0 is NULL
          utest,
          udone,  \* how many of its steps are done
          counts  \* the frames taken and the pages in the page file after
                  \* each step, and before the first

heapVars == <<Block_info_free_list_user, Block_info_taken_list_user, space>>

testVars == <<utest, udone, counts>>

Lists == INSTANCE BlockLists

Mega == 1024

PagesOf(kilobytes) == (kilobytes + 3) \div 4

\* The page at an offset of the heap.
At(kilobytes) == USER_HEAP_START + kilobytes \div 4

-----------------------------------------------------------------------------
(* malloc and free of lib/uheap.c for the program that is tested.          *)

Fits(n) == {i \in DOMAIN Block_info_free_list_user : Block_info_free_list_user[i].size >= n}

malloc(n) ==
  \/ /\ Fits(n) = {}
     /\ space' = 0
     /\ UNCHANGED <<vars, Block_info_free_list_user, Block_info_taken_list_user>>
  \/ \E i \in Fits(n) :
       LET b == [start |-> Block_info_free_list_user[i].start, size |-> n]
       IN  /\ \A j \in Fits(n) : i <= j
           /\ Block_info_free_list_user' = Lists!Cut(Block_info_free_list_user, i, n)
           /\ Block_info_taken_list_user' = <<b>> \o Block_info_taken_list_user
           /\ space' = b.start
           /\ allocateMem(b)

free(a) ==
  \E i \in DOMAIN Block_info_taken_list_user :
    LET b == Block_info_taken_list_user[i]
    IN  /\ b.start = a
        /\ \A j \in DOMAIN Block_info_taken_list_user :
             j < i => Block_info_taken_list_user[j].start # a
        /\ freeMem(b)
        /\ Block_info_taken_list_user' = Lists!RemoveAt(Block_info_taken_list_user, i)
        /\ Block_info_free_list_user' = Lists!Coalesced(Block_info_free_list_user, b)
        /\ UNCHANGED space

-----------------------------------------------------------------------------
(* What a step of a test may expect: a change of a count over the last     *)
(* steps.                                                                  *)

FramesBy(n) == [of |-> "frames", over |-> 1, by |-> n]

FramesOver(steps, n) == [of |-> "frames", over |-> steps, by |-> n]

Disk(n) == [of |-> "disk", over |-> 1, by |-> n]

DiskOver(steps, n) == [of |-> "disk", over |-> steps, by |-> n]

\* sys_calculate_free_frames and sys_pf_calculate_allocated_pages.
Count == [frames |-> FramesUsed, disk |-> Cardinality(InPageFile)]

(* The steps of a test.                                                    *)

Malloc(kilobytes, at, expect) ==
  [call |-> "malloc", size |-> PagesOf(kilobytes), returns |-> At(at), expect |-> expect]

Refused(kilobytes) ==
  [call |-> "malloc", size |-> PagesOf(kilobytes), returns |-> 0, expect |-> {FramesBy(0)}]

Free(at, expect) == [call |-> "free", address |-> At(at), expect |-> expect]

\* The system calls, called by the test without the program's heap.
SysAllocateMem(at, n) ==
  [call |-> "allocateMem", block |-> [start |-> At(at), size |-> n], expect |-> {}]

SysFreeMem(at, n) ==
  [call |-> "freeMem", block |-> [start |-> At(at), size |-> n], expect |-> {}]

Store(page, v) == [call |-> "store", page |-> page, value |-> v, expect |-> {}]

\* A store after which the frames taken by the last stores are counted.
LastStore(page, v, expect) == [Store(page, v) EXCEPT !.expect = expect]

Load(page) == [call |-> "load", page |-> page, expect |-> {}]

\* A load that checks the value.
Read(page, v) == [call |-> "load", page |-> page, value |-> v, expect |-> {}]

\* An access with the fault bypassed (sys_bypassPageFault), which must fault.
Denied(page) == [call |-> "denied", page |-> page, expect |-> {}]

\* The working set and its index are printed and compared.
WS(pages, index) == [call |-> "checkWS", pages |-> pages, index |-> index, expect |-> {}]

Expect(changes) == [call |-> "count", expect |-> changes]

\* A store outside everything the program owns.
Invalid(page) == [call |-> "invalid", page |-> page, expect |-> {}]

-----------------------------------------------------------------------------
(* The tests of malloc and free.                                           *)

Flattened(q) == FoldLeft(LAMBDA whole, part : whole \o part, <<>>, q)

\* The first stores after a malloc, and what they cost.
Touched(offsets, frames) ==
  [i \in 1..Len(offsets) |->
     LastStore(At(offsets[i]), 1, IF i < Len(offsets) THEN {} ELSE {FramesOver(Len(offsets), frames)})]

tst_malloc_1 ==
  <<Malloc(2 * Mega - 1, 0, {FramesBy(1), Disk(512)}),
    Malloc(2 * Mega - 1, 2 * Mega, {FramesBy(0), Disk(512)}),
    Malloc(2, 4 * Mega, {FramesBy(1), Disk(1)}),
    Malloc(2, 4 * Mega + 4, {FramesBy(0), Disk(1)}),
    Malloc(7, 4 * Mega + 8, {FramesBy(0), Disk(2)}),
    Malloc(3 * Mega - 1, 4 * Mega + 16, {FramesBy(0), Disk(768)}),
    Malloc(2 * Mega - 1, 7 * Mega + 16, {FramesBy(1), Disk(512)})>>

\* The first and the last page of each block keep what is stored in them.
tst_malloc_2 ==
  LET ends == <<0, 2 * Mega - 4, 2 * Mega, 4 * Mega - 4, 4 * Mega, 4 * Mega + 4, 4 * Mega + 8>>
  IN  <<Malloc(2 * Mega - 1, 0, {}), Store(At(ends[1]), 1), Store(At(ends[2]), 1),
        Malloc(2 * Mega - 1, 2 * Mega, {}), Store(At(ends[3]), 1), Store(At(ends[4]), 1),
        Malloc(2, 4 * Mega, {}), Store(At(ends[5]), 1),
        Malloc(7, 4 * Mega + 4, {}), Store(At(ends[6]), 1), Store(At(ends[7]), 1)>>
      \o [i \in 1..Len(ends) |-> Read(At(ends[i]), 1)]

EightTouched ==
  Flattened(<<
    <<Malloc(2 * Mega - 1, 0, {Disk(512)})>>, Touched(<<0, 2 * Mega - 4>>, 2 + 1),
    <<Malloc(2 * Mega - 1, 2 * Mega, {Disk(512)})>>, Touched(<<2 * Mega, 4 * Mega - 4>>, 2),
    <<Malloc(2, 4 * Mega, {Disk(1)})>>, Touched(<<4 * Mega, 4 * Mega>>, 1 + 1),
    <<Malloc(2, 4 * Mega + 4, {Disk(1)}), Malloc(7, 4 * Mega + 8, {Disk(2)})>>,
    Touched(<<4 * Mega + 8, 4 * Mega + 12>>, 2),
    <<Malloc(3 * Mega - 1, 4 * Mega + 16, {Disk(768)}),
      Malloc(6 * Mega - 1, 7 * Mega + 16, {Disk(1536)})>>,
    Touched(<<7 * Mega + 16, 10 * Mega + 12, 13 * Mega + 12>>, 3 + 2),
    <<Malloc(14, 13 * Mega + 16, {Disk(4)})>>,
    Touched(<<13 * Mega + 16, 13 * Mega + 28>>, 2)>>)

tst_malloc_3 == EightTouched

\* Everything is freed again, but the disk tables stay: 4 frames.
tst_free_1 ==
  EightTouched
  \o <<Free(0, {Disk(-512), FramesBy(-2)}), Free(2 * Mega, {Disk(-512), FramesBy(-3)}),
       Free(7 * Mega + 16, {Disk(-1536), FramesBy(-4)}), Free(4 * Mega + 8, {Disk(-2), FramesBy(-2)}),
       Free(4 * Mega + 16, {Disk(-768), FramesBy(0)}), Free(4 * Mega, {Disk(-1), FramesBy(-2)}),
       Free(4 * Mega + 4, {Disk(-1), FramesBy(0)}),
       Free(13 * Mega + 16, {Disk(-4), FramesBy(-3), FramesOver(Len(EightTouched) + 8, 4)})>>

\* A block that was freed cannot be accessed at its first and its last page.
FreedFor(kilobytes, at, disk) ==
  <<Free(at, {Disk(-disk)}), Denied(At(at)), Denied(At(at + kilobytes - 1))>>

tst_free_2 ==
  Flattened(<<tst_malloc_1,
    FreedFor(2 * Mega - 1, 0, 512), FreedFor(2 * Mega - 1, 2 * Mega, 512),
    FreedFor(2, 4 * Mega, 1), FreedFor(2, 4 * Mega + 4, 1), FreedFor(7, 4 * Mega + 8, 2),
    FreedFor(3 * Mega - 1, 4 * Mega + 16, 768), FreedFor(2 * Mega - 1, 7 * Mega + 16, 512),
    <<Expect({FramesOver(29, 3)})>>>>)

\* Eight blocks, of which three are freed.
Holes ==
  <<Malloc(Mega - 1, 0, {Disk(256), FramesBy(1)}), Malloc(Mega - 1, Mega, {Disk(256), FramesBy(0)}),
    Malloc(Mega - 1, 2 * Mega, {Disk(256), FramesBy(0)}),
    Malloc(Mega - 1, 3 * Mega, {Disk(256), FramesBy(0)}),
    Malloc(2 * Mega - 1, 4 * Mega, {Disk(512), FramesBy(1)}),
    Malloc(2 * Mega - 1, 6 * Mega, {Disk(512), FramesBy(0)}),
    Malloc(3 * Mega - 1, 8 * Mega, {Disk(768), FramesBy(1)}),
    Malloc(3 * Mega - 1, 11 * Mega, {Disk(768), FramesBy(1)}),
    Free(Mega, {Disk(-256), FramesBy(0)}), Free(4 * Mega, {Disk(-512), FramesBy(0)}),
    Free(8 * Mega, {Disk(-768), FramesBy(0)})>>

tst_first_fit_1 ==
  Holes
  \o <<Malloc(511, Mega, {Disk(128), FramesBy(0)}), Malloc(Mega - 1, 4 * Mega, {Disk(256), FramesBy(0)}),
       Malloc(255, Mega + 512, {Disk(64), FramesBy(0)}),
       Malloc(2 * Mega, 8 * Mega, {Disk(512), FramesBy(0)}),
       Malloc(4 * Mega - 1, 14 * Mega, {Disk(1024), FramesBy(1)})>>
  \o <<Free(2 * Mega, {Disk(-256), FramesBy(0)}), Free(4 * Mega, {Disk(-256), FramesBy(0)}),
       Free(3 * Mega, {Disk(-256), FramesBy(0)})>>
  \o <<Malloc(4 * Mega + 255, Mega + 768, {Disk(1088), FramesBy(0)})>>

\* Up to their first realloc, which panics (lib/uheap.c:395).
tst_realloc_1 == Holes \o <<Malloc(511, Mega, {Disk(128), FramesBy(0)})>>

tst_realloc_2 == Holes

USER_HEAP_SIZE == 4 * (USER_HEAP_MAX - USER_HEAP_START)

tst_first_fit_2 ==
  <<Refused(USER_HEAP_SIZE + 1), Malloc(2 * Mega - 1, 0, {Disk(512)}),
    Malloc(2 * Mega - 1, 2 * Mega, {Disk(512)}), Malloc(2, 4 * Mega, {Disk(1)}),
    Malloc(2, 4 * Mega + 4, {Disk(1)}), Free(4 * Mega, {Disk(-1)}),
    Malloc(7, 4 * Mega + 8, {Disk(2)}), Free(0, {Disk(-512)}),
    Malloc(3 * Mega - 1, 4 * Mega + 16, {Disk(768)}),
    Malloc(2 * Mega + 6, 7 * Mega + 16, {Disk(514)}), Free(4 * Mega + 16, {Disk(-768)}),
    Free(2 * Mega, {Disk(-512)}), Malloc(5 * Mega - 1, 9 * Mega + 24, {Disk(1280)}),
    Malloc(3 * Mega - 1, 0, {Disk(768)}), Refused(USER_HEAP_SIZE - 14 * Mega)>>

fos_alloc == <<Malloc(1, 0, {}), Store(At(0), 1), Read(At(0), 1), Free(0, {}),
               Malloc(1, 0, {}), Load(At(0)), Free(0, {})>>

tst_invalid_access == <<Invalid(At(0))>>

-----------------------------------------------------------------------------
(* The tests of placement and replacement.                                 *)

\* The pages an array of 4M pages on the stack begins and ends in.
ArrayPagesOf(i) == <<\hedbfd + i * 1024, \hedbfd + i * 1024 + 1>>

\* The first call of a function takes the page the array begins in.
tst_placement ==
  LET loaded == [i \in 1..11 |-> IF i <= 7 THEN \h200 + i - 1 ELSE \h800 + i - 8] \o <<TopOfStack>>
      stores == Flattened([i \in 1..3 |-> [j \in 1..2 |-> Store(ArrayPagesOf(i - 1)[j], 1)]])
      placed == [i \in 1..6 |-> ArrayPagesOf((i - 1) \div 2)[((i - 1) % 2) + 1]]
  IN  <<WS(loaded, 12), Store(placed[1], 0)>> \o stores \o [i \in 1..6 |-> Read(placed[i], 1)]
      \o <<Expect({DiskOver(12, 5), FramesOver(12, 9)}), WS(loaded \o placed, 18)>>
      \o [j \in 1..2 |-> Store(ArrayPagesOf(3)[j], 1)]
      \o <<WS(loaded \o placed \o ArrayPagesOf(3), 0)>>

\* The array of the tests of replacement begins within page 803, behind the
\* two pointers; code is in page 800, data in 803.
PageOfArray(halfPages) == \h803 + (1 + 2 * halfPages) \div 4

LoadedOf11 == [i \in 1..10 |-> IF i <= 6 THEN \h200 + i - 1 ELSE \h800 + i - 7] \o <<TopOfStack>>

\* Each read of the end of the array takes code and stack.
Prologue == <<WS(LoadedOf11, 0), Load(\h800), Load(TopOfStack), Load(\h80e), Load(TopOfStack),
              Load(\h80f), Load(TopOfStack)>>

\* One round of the loop: code, stack, the array, and the two pages in use.
Round(i, ends) == <<Load(\h800), Load(TopOfStack), Store(PageOfArray(i), 1), Load(\h803)>> \o ends

Rounds(n, ends) == Flattened([i \in 1..n |-> Round(i - 1, ends)])

tst_page_replacement_FIFO_1 ==
  Prologue \o Rounds(20, <<Load(\h801), Load(\h804)>>)
  \o <<WS(<<TopOfStack, \h80a, \h80b, \h804, \h80c, \h807, \h808, \h800, \h801, \h809, \h803>>, 5)>>

\* Up to its free: what follows it is the subject of the run stale_mapping.
tst_page_replacement_FIFO_2 ==
  Prologue \o Rounds(10, <<Load(\h801), Load(\h804)>>)
  \o <<WS(<<\h80e, \h80f, \h804, \h805, \h806, \h807, \h800, \h801, \h802, \h803, TopOfStack>>, 6),
       Load(\h800), Load(TopOfStack), SysAllocateMem(0, 4)>>
  \o Flattened([i \in 1..4 |-> <<Load(\h800), Load(\h803), Store(At(4 * (i - 1)), 1), Load(TopOfStack)>>])
  \o <<SysFreeMem(0, 4)>>

tst_page_replacement_alloc ==
  LET steps == Prologue \o Rounds(20, <<Load(\h801), Store(\h804, 1)>>)
  IN  steps \o <<Expect({DiskOver(Len(steps), 0), FramesOver(Len(steps), 0)})>>

\* The array starts in the page the stack pointer is in.
PageOfStackArray(halfPages) == \heebf3 + (\hf00 + halfPages * \h800) \div \h1000

tst_page_replacement_stack ==
  LET stores == Flattened([i \in 1..20 |-> <<Load(\h800), Load(TopOfStack), Store(PageOfStackArray(i - 1), 1)>>])
      reads  == Flattened([i \in 1..20 |-> <<Load(\h800), Load(TopOfStack), Read(PageOfStackArray(i - 1), 1)>>])
      steps  == stores \o reads
  IN  <<Load(\h800), Load(TopOfStack), Store(\heebf3, 0)>> \o steps
      \o <<Expect({DiskOver(Len(steps), 9), FramesOver(Len(steps), 0)})>>

-----------------------------------------------------------------------------
Script ==
  [t \in UserTest |->
     CASE t = "malloc_1" -> tst_malloc_1 [] t = "malloc_2" -> tst_malloc_2
       [] t = "malloc_3" -> tst_malloc_3 [] t = "free_1" -> tst_free_1
       [] t = "free_2" -> tst_free_2 [] t = "first_fit_1" -> tst_first_fit_1
       [] t = "first_fit_2" -> tst_first_fit_2 [] t = "realloc_1" -> tst_realloc_1
       [] t = "realloc_2" -> tst_realloc_2 [] t = "fos_alloc" -> fos_alloc
       [] t = "invalid_access" -> tst_invalid_access [] t = "placement" -> tst_placement
       [] t = "FIFO_1" -> tst_page_replacement_FIFO_1
       [] t = "FIFO_2" -> tst_page_replacement_FIFO_2
       [] t = "alloc" -> tst_page_replacement_alloc
       [] t = "stack" -> tst_page_replacement_stack]

TestInit ==
  /\ Init
  /\ utest \in UserTest
  /\ Block_info_free_list_user =
       <<[start |-> USER_HEAP_START, size |-> USER_HEAP_MAX - USER_HEAP_START]>>
  /\ Block_info_taken_list_user = <<>>
  /\ space = 0
  /\ udone = 0
  /\ counts = <<Count>>

Step == Script[utest][udone + 1]

\* A step of the test is over; counts[i] is taken after i - 1 steps.
Done == udone' = udone + 1 /\ counts' = Append(counts, Count')

CallHeap(step) ==
  /\ \/ step.call = "malloc" /\ malloc(step.size)
     \/ step.call = "free" /\ free(step.address)
  /\ Done

SystemCall(step) ==
  /\ \/ step.call = "allocateMem" /\ allocateMem(step.block)
     \/ step.call = "freeMem" /\ freeMem(step.block)
  /\ Done /\ UNCHANGED heapVars

\* The page must be brought in first.
Fault(step) ==
  /\ step.call \in {"load", "store"}
  /\ page_fault_handler(step.page)
  /\ UNCHANGED <<heapVars, udone, counts>>

Access(step) ==
  /\ \/ step.call = "store" /\ Write(step.page, step.value)
     \/ step.call = "load" /\ step.page \in Resident /\ UNCHANGED vars
     \/ step.call \in {"load", "store", "invalid"} /\ InvalidAccess(step.page)
  /\ Done /\ UNCHANGED heapVars

\* The fault is bypassed: it changes nothing.
Look(step) ==
  step.call \in {"denied", "checkWS", "count"} /\ UNCHANGED <<vars, heapVars>> /\ Done

TestStep == /\ udone < Len(Script[utest])
            /\ \E step \in {Step} :
                 CallHeap(step) \/ SystemCall(step) \/ Fault(step) \/ Access(step) \/ Look(step)
            /\ UNCHANGED utest

TestOver == udone = Len(Script[utest]) \/ killed # NULL

-----------------------------------------------------------------------------
(* Properties.                                                             *)

Expected(e) ==
  LET now == counts[udone + 1] before == counts[udone + 1 - e.over]
  IN  IF e.of = "frames" THEN now.frames - before.frames = e.by
      ELSE now.disk - before.disk = e.by

(***************************************************************************)
(* The programs that test the heap and the paging of programs get what     *)
(* they expect: the addresses malloc returns, the frames and the pages of  *)
(* the page file each call takes or gives back, the values they stored,    *)
(* the working set entry by entry and its index, a fault on freed memory,  *)
(* and the end of the program that accesses memory it does not own         *)
(* (the panics of user/tst_*.c).                                           *)
(***************************************************************************)
UserTestsPass ==
  /\ udone > 0 =>
       \A last \in {Script[utest][udone]} :
         /\ \A e \in last.expect : Expected(e)
         /\ last.call = "malloc" => space = last.returns
         /\ last.call = "store" /\ last.page \in Resident => last.page \in InWorkingSet
         /\ killed # NULL => last.call = "invalid"
  /\ udone < Len(Script[utest]) =>
       \A step \in {Step} :
         /\ step.call = "load" /\ "value" \in DOMAIN step /\ step.page \in Resident =>
              memory[step.page] = step.value
         /\ step.call = "denied" => step.page \notin Resident
         /\ step.call = "checkWS" =>
              /\ \A j \in Entry : ptr_pageWorkingSet[j] =
                                    IF j < Len(step.pages) THEN step.pages[j + 1] ELSE NULL
              /\ page_last_WS_index = step.index
=============================================================================
