------------------------------- MODULE KHeap -------------------------------
(***************************************************************************)
(* The kernel heap (kern/kheap.c) after boot, in pages: every size is      *)
(* rounded up to PAGE_SIZE.  An address is a page number modulo the number *)
(* of pages of the 32-bit address space, KERNEL_HEAP_MAX + 1.              *)
(*                                                                         *)
(* The frames behind the pages matter only by their number: kmalloc takes  *)
(* one for each page and kfree gives them back.                            *)
(***************************************************************************)
EXTENDS BlockLists, FiniteSets

CONSTANTS KERNEL_HEAP_START, KERNEL_HEAP_MAX,
          ArrayPages,  \* pages of each of the arrays shares and semaphores
          Frames,      \* page frames available to the heap
          Sizes,       \* sizes passed to kmalloc
          Regimes      \* sets of placement strategies: those of a set are
                       \* switched among at the prompt after boot

ASSUME KHeapAssumption ==
  /\ KERNEL_HEAP_START \in Nat \ {0} /\ KERNEL_HEAP_MAX \in Nat
  /\ ArrayPages \in Nat \ {0} /\ KERNEL_HEAP_START + 2 * ArrayPages < KERNEL_HEAP_MAX
  /\ Sizes \subseteq Nat \ {0}
  /\ Frames \in Nat /\ 2 * ArrayPages <= Frames
  /\ Regimes \subseteq SUBSET {"CONTALLOC", "FIRSTFIT", "BESTFIT", "NEXTFIT", "WORSTFIT"}

VARIABLES free_list,         \* Block_info_free_list
          taken_list,        \* Block_info_taken_list
          last_va_in_kheap,
          strategy,          \* _KHeapPlacementStrategy
          mapped,            \* the heap pages that have a frame
          returned,          \* what the last kmalloc returned; 0 is NULL
          crashed            \* the kernel followed a null pointer

vars == <<free_list, taken_list, last_va_in_kheap, strategy, mapped, returned, crashed>>

Address == 0..KERNEL_HEAP_MAX

Page == KERNEL_HEAP_START..KERNEL_HEAP_MAX - 1

Block == [start: Page, size: Nat]

Strategies == UNION Regimes

\* The strategies that keep the free list.
Fitting == strategy \in {"FIRSTFIT", "NEXTFIT"}

Wrap(address) == address % (KERNEL_HEAP_MAX + 1)

-----------------------------------------------------------------------------
\* A block that joins no other moves the next-fit pointer back to itself.  With
\* no free block at all insert_sorted reads the first one through NULL; the
\* kernel does not survive that fault.
Coalescing_heap(b) ==
  /\ crashed' = (free_list = <<>>)
  /\ free_list' = IF crashed' THEN free_list ELSE Coalesced(free_list, b)
  /\ last_va_in_kheap' =
       IF strategy = "NEXTFIT" /\ (crashed' \/ Len(free_list') > Len(free_list))
          /\ b.start < last_va_in_kheap
       THEN b.start ELSE last_va_in_kheap

\* Mutant: a block of exactly the size does not fit.
MutStrictlyLarger(n) == {i \in 1..Len(free_list) : free_list[i].size > n}

Fits(n) == {i \in 1..Len(free_list) : free_list[i].size >= n}

\* allocate_frame and map_frame for each page; a page that has a frame already
\* gets a new one.  When the frames run out the kernel does not survive.
map_frames(a, n) ==
  /\ Cardinality(mapped \cup Pages(a, n)) <= Frames
  /\ mapped' = mapped \cup Pages(a, n)
  /\ returned' = a

kmalloc_fails == returned' = 0
                 /\ UNCHANGED <<free_list, taken_list, last_va_in_kheap, strategy, mapped>>

-----------------------------------------------------------------------------
cont_allocation(n) ==
  /\ strategy = "CONTALLOC"
  /\ \/ /\ n <= KERNEL_HEAP_MAX - last_va_in_kheap
        /\ map_frames(last_va_in_kheap, n)
        /\ last_va_in_kheap' = Wrap(last_va_in_kheap + n)
        /\ taken_list' = <<[start |-> last_va_in_kheap, size |-> n]>> \o taken_list
        /\ UNCHANGED <<free_list, strategy>>
     \/ n > KERNEL_HEAP_MAX - last_va_in_kheap /\ kmalloc_fails

first_fit_allocation(n) ==
  /\ strategy = "FIRSTFIT"
  /\ \/ \E i \in Fits(n) :
          /\ \A j \in Fits(n) : i <= j
          /\ map_frames(free_list[i].start, n)
          /\ free_list' = Cut(free_list, i, n)
          /\ last_va_in_kheap' = Wrap(last_va_in_kheap + n)
          /\ taken_list' = insert_sorted(taken_list,
                                         [start |-> free_list[i].start, size |-> n])
          /\ UNCHANGED strategy
     \/ Fits(n) = {} /\ kmalloc_fails

\* The first fitting block at or above the last address, else the lowest one.
After(n) == {i \in Fits(n) : free_list[i].start >= last_va_in_kheap}

NextFit(n, i) ==
  \/ i \in After(n) /\ \A j \in After(n) : i <= j
  \/ After(n) = {} /\ \A j \in Fits(n) : free_list[i].start <= free_list[j].start

next_fit_allocation(n) ==
  /\ strategy = "NEXTFIT"
  /\ \/ \E i \in Fits(n) :
          /\ NextFit(n, i)
          /\ map_frames(free_list[i].start, n)
          /\ free_list' = Cut(free_list, i, n)
          /\ last_va_in_kheap' = free_list[i].start
          /\ taken_list' = <<[start |-> free_list[i].start, size |-> n]>> \o taken_list
          /\ UNCHANGED strategy
     \/ Fits(n) = {} /\ kmalloc_fails

\* The strategies that kmalloc does not know: it returns NULL.
kmalloc_unsupported == strategy \in {"BESTFIT", "WORSTFIT"} /\ kmalloc_fails

kmalloc(n) ==
  /\ ~crashed
  /\ \/ cont_allocation(n) \/ first_fit_allocation(n)
     \/ next_fit_allocation(n) \/ kmalloc_unsupported
  /\ UNCHANGED crashed

\* Mutant: the last page of the block stays mapped.
MutLastPageKept(virtual_address) ==
  \E i \in 1..Len(taken_list) :
    LET b == taken_list[i]
    IN  /\ ~crashed
        /\ b.start = virtual_address
        /\ \A j \in 1..i - 1 : taken_list[j].start # virtual_address
        /\ mapped' = mapped \ Pages(b.start, b.size - 1)
        /\ taken_list' = RemoveAt(taken_list, i)
        /\ Coalescing_heap(b)
        /\ UNCHANGED <<strategy, returned>>

\* The first taken block that starts at the address is freed.
kfree(virtual_address) ==
  \E i \in 1..Len(taken_list) :
    LET b == taken_list[i]
    IN  /\ ~crashed
        /\ b.start = virtual_address
        /\ \A j \in 1..i - 1 : taken_list[j].start # virtual_address
        /\ mapped' = mapped \ Pages(b.start, b.size)
        /\ taken_list' = RemoveAt(taken_list, i)
        /\ Coalescing_heap(b)
        /\ UNCHANGED <<strategy, returned>>

\* An address where no allocation starts.
kfree_nothing(virtual_address) ==
  /\ ~crashed /\ \A i \in 1..Len(taken_list) : taken_list[i].start # virtual_address
  /\ UNCHANGED vars

\* The commands khcontalloc, khfirstfit, khbestfit, khnextfit and khworstfit.
setKHeapPlacementStrategy(s) ==
  /\ ~crashed
  /\ \E R \in Regimes : {strategy, s} \subseteq R
  /\ strategy' = s
  /\ UNCHANGED <<free_list, taken_list, last_va_in_kheap, mapped, returned, crashed>>

-----------------------------------------------------------------------------
FirstAddress == KERNEL_HEAP_START + 2 * ArrayPages

\* create_shares_array and create_semaphores_array, by cont_allocation.
BootBlocks == <<[start |-> KERNEL_HEAP_START + ArrayPages, size |-> ArrayPages],
                [start |-> KERNEL_HEAP_START, size |-> ArrayPages]>>

Init == /\ free_list = <<[start |-> FirstAddress, size |-> KERNEL_HEAP_MAX - FirstAddress]>>
        /\ taken_list = BootBlocks
        /\ last_va_in_kheap = FirstAddress
        /\ strategy \in Strategies
        /\ mapped = KERNEL_HEAP_START..FirstAddress - 1
        /\ returned = 0
        /\ crashed = FALSE

Next == \/ \E n \in Sizes : kmalloc(n)
        \/ \E va \in FirstAddress..KERNEL_HEAP_MAX - 1 : kfree(va) \/ kfree_nothing(va)
        \/ \E s \in Strategies : setKHeapPlacementStrategy(s)

Spec == Init /\ [][Next]_vars

-----------------------------------------------------------------------------
(* Properties.                                                             *)

\* The state is well typed; in particular both lists stay inside the heap.
TypeOK == /\ free_list \in Seq(Block)
          /\ taken_list \in Seq(Block)
          /\ last_va_in_kheap \in Address
          /\ strategy \in Strategies
          /\ mapped \subseteq Page
          /\ returned \in {0} \cup Page
          /\ crashed \in BOOLEAN

Taken == ToSet(taken_list)

TakenPages == UNION {Pages(b.start, b.size) : b \in Taken}

(***************************************************************************)
(* No page belongs to two live allocations: what one caller of kmalloc     *)
(* stores is never overwritten through the block of another.               *)
(***************************************************************************)
NoOverlap ==
  \A i, j \in 1..Len(taken_list) :
    i # j => Pages(taken_list[i].start, taken_list[i].size)
             \cap Pages(taken_list[j].start, taken_list[j].size) = {}

(***************************************************************************)
(* The heap holds a frame for exactly the pages of the live allocations:   *)
(* kfree gives back neither more nor less than kmalloc mapped.             *)
(***************************************************************************)
MappedIsTaken == mapped = TakenPages

(***************************************************************************)
(* Under the fit strategies the free list is exactly the maximal runs of   *)
(* unallocated pages, by rising address: kfree leaves no two neighbours    *)
(* apart, and no page is lost or listed twice.                             *)
(***************************************************************************)
FreeListIsExact ==
  Fitting /\ ~crashed =>
  /\ \A i \in 1..Len(free_list) - 1 : End(free_list[i]) < free_list[i + 1].start
  /\ UNION {Pages(b.start, b.size) : b \in ToSet(free_list)} = Page \ TakenPages

\* The promise of the heap, with the live allocations as its state.  Under the
\* other strategies, which do not keep it, the promise sees nothing happen.
allocatedBar == IF Fitting THEN Taken ELSE ToSet(BootBlocks)

returnedBar == IF Fitting THEN returned ELSE 0

Promise == INSTANCE PageAllocator WITH
             allocated <- allocatedBar, returned <- returnedBar,
             Initial <- ToSet(BootBlocks)

(***************************************************************************)
(* Under the fit strategies the heap keeps its promise: every allocation   *)
(* is of unused pages, kmalloc fails only when no run of free pages is     *)
(* long enough, and kfree frees that allocation and nothing else.          *)
(***************************************************************************)
KeepsPromise == Promise!Spec
=============================================================================
