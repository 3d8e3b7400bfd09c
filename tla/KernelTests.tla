---------------------------- MODULE KernelTests ----------------------------
(***************************************************************************)
(* The kernel heap's own tests (kern/test_kheap.c), replayed on the model  *)
(* at the real size of the heap.  A test is a sequence of calls with what  *)
(* it expects of each: the address kmalloc returns and how many frames a   *)
(* call takes or gives back.  Each test is a fresh boot.                   *)
(*                                                                         *)
(* Sizes and addresses of the tests are in kilobytes, addresses relative   *)
(* to ACTUAL_START, where the first allocation after boot begins.  Which   *)
(* frame is behind which page is followed only in the tests that look at   *)
(* it; the others count frames.                                            *)
(***************************************************************************)
EXTENDS KHeapFrames

CONSTANT Tests  \* the tests replayed

VARIABLES test,
          done,            \* how many of its steps are done
          ptr_allocations, \* what each call of kmalloc returned
          free_frames      \* sys_calculate_free_frames before and after the
                           \* last step

testVars == <<test, done, ptr_allocations, free_frames>>

Mega == 1024

PagesOf(kilobytes) == (kilobytes + 3) \div 4

ACTUAL_START == FirstAddress

HeapSize == 4 * (KERNEL_HEAP_MAX - ACTUAL_START)

-----------------------------------------------------------------------------
(* The steps of a test.                                                    *)

Alloc(size, at) == [call |-> "kmalloc", size |-> PagesOf(size), frames |-> PagesOf(size),
                    returns |-> ACTUAL_START + PagesOf(at)]

Refused(size) == [call |-> "kmalloc", size |-> PagesOf(size), frames |-> 0, returns |-> 0]

\* ptr_allocations of the tests starts at index 0.
Free(i, size) == [call |-> "kfree", of |-> i + 1, frames |-> PagesOf(size)]

FreeAgain(i) == [call |-> "kfree", of |-> i + 1, frames |-> 0]

EightBlocks ==
  <<Alloc(2 * Mega - 1, 0), Alloc(2 * Mega - 1, 2 * Mega), Alloc(2, 4 * Mega),
    Alloc(2, 4 * Mega + 4), Alloc(7, 4 * Mega + 8), Alloc(3 * Mega - 1, 4 * Mega + 16),
    Alloc(6 * Mega - 1, 7 * Mega + 16), Alloc(14, 13 * Mega + 16)>>

test_kmalloc == <<Refused(HeapSize + 1)>> \o EightBlocks
                \o <<Refused(HeapSize + 8 - (13 * Mega + 32))>>

\* Eighty blocks fill the heap; index 79 is the last one, without what boot took.
Fill == [i \in 1..79 |-> Alloc(2 * Mega, 2 * Mega * (i - 1))]
        \o <<Alloc(2 * Mega - 4 - 8 * ArrayPages, 158 * Mega)>>

Holes == [h \in 1..9 |-> Free(<<0, 2, 3, 5, 10, 12, 11, 20, 25>>[h], 2 * Mega)]
         \o <<Free(79, 2 * Mega - 4 - 8 * ArrayPages)>>

WithoutLoopingBack ==
  <<Alloc(Mega - 1, 0), Alloc(1, Mega), Alloc(5 * Mega, 20 * Mega), Alloc(Mega, 25 * Mega),
    Free(15, 2 * Mega), Alloc(1, 30 * Mega), Alloc(Mega + 1016, 30 * Mega + 4),
    Alloc(512, 40 * Mega)>>

LoopingBack == <<Alloc(3 * Mega + 512, 4 * Mega), Free(24, 2 * Mega),
                 Alloc(4 * Mega - 1, 48 * Mega)>>

test_kmalloc_nextfit ==
  Fill \o Holes \o WithoutLoopingBack \o LoopingBack \o <<Refused(6 * Mega)>>

GrowingBlocks ==
  <<Alloc(Mega - 1, 0), Alloc(Mega - 1, Mega), Alloc(Mega - 1, 2 * Mega),
    Alloc(Mega - 1, 3 * Mega), Alloc(2 * Mega - 1, 4 * Mega), Alloc(2 * Mega - 1, 6 * Mega),
    Alloc(3 * Mega - 1, 8 * Mega), Alloc(3 * Mega - 1, 11 * Mega)>>

test_kmalloc_firstfit1 ==
  GrowingBlocks
  \o <<Free(1, Mega), Free(4, 2 * Mega), Free(6, 3 * Mega)>>
  \o <<Alloc(511, Mega), Alloc(Mega - 1, 4 * Mega), Alloc(255, Mega + 512),
       Alloc(2 * Mega, 8 * Mega), Alloc(4 * Mega - 1, 14 * Mega),
       Free(2, Mega), Free(3, Mega), Alloc(Mega, Mega + 768)>>

\* Its first, refused allocation leaves index 0 to the next one.
Fragments ==
  <<Refused(HeapSize + 1)>>
  \o <<Alloc(2 * Mega - 1, 0), Alloc(2 * Mega - 1, 2 * Mega), Alloc(2, 4 * Mega),
       Alloc(2, 4 * Mega + 4), Free(3, 2), Alloc(7, 4 * Mega + 8), Free(1, 2 * Mega),
       Alloc(3 * Mega - 1, 4 * Mega + 16), Alloc(2 * Mega + 6, 7 * Mega + 16),
       Free(6, 3 * Mega), Free(2, 2 * Mega)>>

test_kmalloc_firstfit2 ==
  Fragments \o <<Alloc(5 * Mega - 1, 9 * Mega + 24), Alloc(3 * Mega - 1, 0),
                 Refused(HeapSize - 14 * Mega)>>

ThreeFreed == <<Free(0, 2 * Mega), Free(1, 2 * Mega), Free(6, 6 * Mega)>>

\* The free blocks are not used again.
MovesOn == <<Alloc(20, 13 * Mega + 32), Alloc(Mega, 13 * Mega + 52)>>

\* Everything is freed, and frees of what is gone do nothing.
RestFreed ==
  <<Free(4, 7), Free(5, 3 * Mega), Free(2, 2), Free(3, 2), Free(7, 14), Free(8, 20),
    Free(9, Mega), FreeAgain(0), FreeAgain(2), FreeAgain(8), FreeAgain(9)>>

test_kfree == EightBlocks \o ThreeFreed \o MovesOn \o RestFreed

\* The two look at the translations of the addresses after each call.
test_kheap_phys_addr == EightBlocks \o ThreeFreed

test_kheap_virt_addr == EightBlocks \o ThreeFreed

Script == [kmalloc |-> test_kmalloc, nextfit |-> test_kmalloc_nextfit,
           firstfit1 |-> test_kmalloc_firstfit1, firstfit2 |-> test_kmalloc_firstfit2,
           kfree |-> test_kfree, physical |-> test_kheap_phys_addr,
           virtual |-> test_kheap_virt_addr]

\* command_test_kmalloc chooses the test by the strategy in force.
StrategyOf(t) == CASE t = "nextfit" -> "NEXTFIT"
                   [] t \in {"firstfit1", "firstfit2"} -> "FIRSTFIT"
                   [] OTHER -> "CONTALLOC"

-----------------------------------------------------------------------------
Step == Script[test][done + 1]

Translating == test \in {"physical", "virtual"}

CallKmalloc ==
  /\ Step.call = "kmalloc"
  /\ IF Translating THEN kmallocFrames(Step.size) ELSE kmalloc(Step.size) /\ UNCHANGED frameVars
  /\ ptr_allocations' = Append(ptr_allocations, returned')

CallKfree ==
  /\ Step.call = "kfree"
  /\ LET p == ptr_allocations[Step.of]
     IN  IF Translating THEN kfreeFrames(p)
         ELSE (kfree(p) \/ kfree_nothing(p)) /\ UNCHANGED frameVars
  /\ UNCHANGED ptr_allocations

FreeFrames == Frames - Cardinality(mapped)

TestInit == /\ Init
            /\ test \in Tests
            /\ IF Translating THEN FramesInit ELSE NoFrames
            /\ strategy = StrategyOf(test)
            /\ done = 0
            /\ ptr_allocations = <<>>
            /\ free_frames = <<FreeFrames, FreeFrames>>

TestStep == /\ done < Len(Script[test]) /\ ~crashed
            /\ CallKmalloc \/ CallKfree
            /\ done' = done + 1
            /\ free_frames' = <<free_frames[2], FreeFrames'>>
            /\ UNCHANGED test

TestOver == /\ done = Len(Script[test])
            /\ UNCHANGED <<vars, frameVars, testVars>>

TestNext == TestStep \/ TestOver

TestSpec == TestInit /\ [][TestNext]_<<vars, frameVars, testVars>>

-----------------------------------------------------------------------------
(* Properties.                                                             *)

(***************************************************************************)
(* The kernel heap passes its own tests: the kernel survives them, kmalloc *)
(* returns the addresses they expect, every call takes or gives back as    *)
(* many frames as they expect, and the tests of the translations find the  *)
(* two inverse to each other, with no address left for a freed frame (the  *)
(* panics of test_kheap.c).  Not true of test_kmalloc_nextfit: its first   *)
(* kfree crashes the kernel, and the run leaves it out.                    *)
(***************************************************************************)
KernelTestsPass ==
  /\ ~crashed
  /\ done > 0 =>
       LET last == Script[test][done]
           taken == free_frames[1] - free_frames[2]
       IN  IF last.call = "kmalloc" THEN returned = last.returns /\ taken = last.frames
           ELSE taken = -last.frames
  /\ Translating =>
       /\ \A p \in mapped : kheap_virtual_address(kheap_physical_address(p)) = p
       /\ ToSet(free_frame_list) \cap DOMAIN va = {}
=============================================================================
