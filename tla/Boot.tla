-------------------------------- MODULE Boot --------------------------------
(***************************************************************************)
(* FOS_initialize (kern/init.c), from the first look at the size of the    *)
(* memory to the prompt: initialize_kernel_VM and initialize_paging        *)
(* (kern/memory_manager.c), turn_on_paging and the check of the page       *)
(* directory (kern/helpers.c), and the first two blocks of the kernel      *)
(* heap.                                                                   *)
(*                                                                         *)
(* Addresses inside physical memory are in bytes, all others in pages.  A  *)
(* stretch of frames or of entries of a table is an interval.              *)
(***************************************************************************)
EXTENDS Integers, FiniteSets, Sequences, SequencesExt, TLC

CONSTANTS CMOS,            \* what the nvram may say about the memory
          Images,          \* where the kernel may end, where its stack is, and what
                           \* memory holds that nobody wrote: NULL or Junk
          KERNEL_HEAP_START, KERNEL_HEAP_MAX,   \* in pages
          ArrayPages,      \* pages of the array of shares, and of that of semaphores
          NULL, Junk

PAGE_SIZE == 4096
NPTENTRIES == 1024

\* inc/memlayout.h, in pages.
KERNEL_BASE == 983040
VPT == KERNEL_BASE - NPTENTRIES
KERNEL_STACK_TOP == VPT
KERNEL_STACK_SIZE == 8
USER_LIMIT == KERNEL_STACK_TOP - NPTENTRIES
UVPT == USER_LIMIT - NPTENTRIES
UENVS == UVPT - 2 * NPTENTRIES
PHYS_IO_MEM == 160
PHYS_EXTENDED_MEM == 256

\* In bytes.
FRAME_INFO_SIZE == 24
PAGES_PER_FILE == 133120
ENVS_SIZE == 1285 * 816

PDX(page) == page \div NPTENTRIES
PTX(page) == page % NPTENTRIES
RoundUp(a) == ((a + PAGE_SIZE - 1) \div PAGE_SIZE) * PAGE_SIZE
FrameOf(a) == a \div PAGE_SIZE
Interval(first, last) == [first |-> first, last |-> last]
In(x, interval) == interval.first <= x /\ x <= interval.last
Disjoint(i, j) == i.last < j.first \/ j.last < i.first

\* "Limits our kernel to <4MB": turn_on_paging.
BootAssumption ==
  /\ \A c \in CMOS : c.ext \in 0..65535 /\ c.other \in 0..65535
  /\ \A image \in Images : /\ image.end <= NPTENTRIES * PAGE_SIZE
                           /\ image.stack >= PHYS_EXTENDED_MEM
                           /\ (image.stack + KERNEL_STACK_SIZE) * PAGE_SIZE <= image.end

VARIABLES pc,                  \* the step that FOS_initialize is at
          image,               \* the kernel that was loaded
          number_of_frames,
          boot,                \* what the boot-time functions work on
          cpu,                 \* paging and the base of the segments
          free_frame_list,     \* intervals, each handed out from its end
          used,                \* the frames whose references is 1, likewise
          kheap                \* last_va_in_kheap and the lists of blocks

vars == <<pc, image, number_of_frames, boot, cpu, free_frame_list, used, kheap>>

-----------------------------------------------------------------------------
(* The functions that may only be used during boot time.                   *)

\* "If we're out of memory, boot_allocate_space should panic": it does not look.
\* The space starts at RoundUp(b.ptr_free_mem).
boot_allocate_space(b, size) ==
  LET start == RoundUp(b.ptr_free_mem)
  IN  [b EXCEPT !.ptr_free_mem = start + size,
                !.allocated = Append(@, Interval(FrameOf(start), FrameOf(start + size - 1)))]

\* A new table is not cleared: the entries that nobody writes are unset.
boot_get_page_table(b, d) ==
  LET t == FrameOf(RoundUp(b.ptr_free_mem))
  IN  IF d \in DOMAIN b.ptr_page_directory THEN b
      ELSE [boot_allocate_space(b, PAGE_SIZE) EXCEPT
              !.ptr_page_directory = @ @@ (d :> t),
              !.tables = @ @@ (t :> {})]

\* The entries that lie in table d of the mapping of n pages from va on.
MapInTable(b, d, va, n, frame) ==
  LET c == boot_get_page_table(b, d)
      first == IF va > d * NPTENTRIES THEN va ELSE d * NPTENTRIES
      last == IF PDX(va + n - 1) = d THEN va + n - 1 ELSE (d + 1) * NPTENTRIES - 1
      entries == [first |-> PTX(first), last |-> PTX(last), frame |-> frame + (first - va)]
  IN  [c EXCEPT !.tables[c.ptr_page_directory[d]] = @ \cup {entries}]

\* size is in bytes and need not end with a page.
boot_map_range(b, va, size, frame) ==
  LET n == FrameOf(RoundUp(size))
  IN  FoldLeft(LAMBDA c, d : MapInTable(c, d, va, n, frame), b,
               [i \in 1..PDX(va + n - 1) - PDX(va) + 1 |-> PDX(va) + i - 1])

-----------------------------------------------------------------------------
(* What a page directory says.                                             *)

\* The frame that an entry of the directory or of a table leads to.  The
\* directory is also a table: for VPT and UVPT.
Entry(b, t, i) ==
  IF t = b.phys_page_directory
  THEN IF i \in DOMAIN b.ptr_page_directory THEN b.ptr_page_directory[i] ELSE NULL
  ELSE LET written == {e \in b.tables[t] : In(i, e)}
       IN  IF written = {} THEN image.unset
           ELSE LET e == CHOOSE e \in written : TRUE IN e.frame + (i - e.first)

\* The frame that a page is mapped to, NULL for none.
check_va2pa(b, page) ==
  LET t == Entry(b, b.phys_page_directory, PDX(page))
  IN  IF t = NULL THEN NULL ELSE Entry(b, t, PTX(page))

check_boot_pgdir ==
  /\ \A i \in 0..FrameOf(boot.ptr_free_mem - 1) : check_va2pa(boot, KERNEL_BASE + i) = i
  /\ \A i \in 0..KERNEL_STACK_SIZE - 1 :
       check_va2pa(boot, KERNEL_STACK_TOP - KERNEL_STACK_SIZE + i) = image.stack + i
  /\ DOMAIN boot.ptr_page_directory =
       {PDX(VPT), PDX(UVPT), PDX(KERNEL_STACK_TOP - 1), PDX(UENVS)}
         \cup PDX(KERNEL_BASE)..NPTENTRIES - 1

\* Where the processor finds what is linked at page x of the kernel.  The base of
\* the first segments is -KERNEL_BASE.
Physical(x) ==
  LET linear == IF cpu.relocated THEN x ELSE KERNEL_BASE + x
  IN  IF cpu.paging THEN check_va2pa(boot, linear)
      ELSE IF cpu.relocated THEN x ELSE NULL

-----------------------------------------------------------------------------
(* The steps, in their order.                                              *)

\* A step of FOS_initialize that comes at pc and is followed by next.
At(step, next) == pc = step /\ pc' = next

\* The memory in frames: the sum is one of 32 bits.
FramesOf(c) ==
  IF c.other > 0 THEN (c.other * 16 + 4096) % 2^20
  ELSE IF c.ext > 0 THEN PHYS_EXTENDED_MEM + c.ext \div 4 ELSE 0

detect_memory ==
  /\ At("detect_memory", "page_directory")
  /\ \E c \in CMOS : number_of_frames' = FramesOf(c)
  /\ UNCHANGED <<image, boot, cpu, free_frame_list, used, kheap>>

\* A step of initialize_kernel_VM that only changes what boot holds.
BootStep(step, next, b) ==
  /\ At(step, next)
  /\ boot' = b
  /\ UNCHANGED <<image, number_of_frames, cpu, free_frame_list, used, kheap>>

create_page_directory ==
  LET b == boot_allocate_space(boot, PAGE_SIZE)
  IN  BootStep("page_directory", "stack",
               [b EXCEPT !.phys_page_directory = FrameOf(RoundUp(boot.ptr_free_mem))])

map_kernel_stack ==
  BootStep("stack", "kernel_tables",
           boot_map_range(boot, KERNEL_STACK_TOP - KERNEL_STACK_SIZE,
                          KERNEL_STACK_SIZE * PAGE_SIZE, image.stack))

\* One table for each 4 MB from KERNEL_BASE on.
create_kernel_tables ==
  BootStep("kernel_tables", "frames_info",
           FoldLeft(boot_get_page_table, boot,
                    [i \in 1..NPTENTRIES - PDX(KERNEL_BASE) |-> PDX(KERNEL_BASE) + i - 1]))

\* frames_info and disk_frames_info.
allocate_frames_info ==
  BootStep("frames_info", "listing",
           boot_allocate_space(boot_allocate_space(boot, number_of_frames * FRAME_INFO_SIZE),
                               PAGES_PER_FILE * FRAME_INFO_SIZE))

setup_listing_to_all_page_tables_entries ==
  BootStep("listing", "envs",
           [boot EXCEPT !.ptr_page_directory =
              (PDX(VPT) :> boot.phys_page_directory) @@ (PDX(UVPT) :> boot.phys_page_directory)
              @@ @])

\* The table that maps envs for the users is the last thing that is allocated.
allocate_envs ==
  LET b == boot_allocate_space(boot, ENVS_SIZE)
  IN  BootStep("envs", "map_kernel",
               boot_map_range(b, UENVS, ENVS_SIZE, FrameOf(RoundUp(boot.ptr_free_mem))))

\* The kernel is mapped as far as it has got.
map_kernel ==
  BootStep("map_kernel", "check", boot_map_range(boot, KERNEL_BASE, boot.ptr_free_mem, 0))

check == BootStep("check", IF check_boot_pgdir THEN "identity" ELSE "panic", boot)

\* The tables that turn_on_paging copies to the start of the directory: all but
\* the one that the memory in use ends in.
KernelTables == PDX(KERNEL_BASE)..PDX(KERNEL_BASE + FrameOf(boot.ptr_free_mem)) - 1

LowEntries == {d - PDX(KERNEL_BASE) : d \in KernelTables}

\* turn_on_paging, first part: the directory.
copy_low_entries ==
  BootStep("identity", "cr0",
           [boot EXCEPT !.ptr_page_directory =
              [j \in LowEntries |-> @[PDX(KERNEL_BASE) + j]] @@ @])

\* Second part: cr3 and cr0, then lgdt and the segment registers.
load_cr0 ==
  /\ At("cr0", "segments")
  /\ cpu' = [cpu EXCEPT !.paging = TRUE]
  /\ UNCHANGED <<image, number_of_frames, boot, free_frame_list, used, kheap>>

reload_segments ==
  /\ At("segments", "clear")
  /\ cpu' = [cpu EXCEPT !.relocated = FALSE]
  /\ UNCHANGED <<image, number_of_frames, boot, free_frame_list, used, kheap>>

\* The entries that stay.
NotLow == DOMAIN boot.ptr_page_directory \ LowEntries

\* Third part.
clear_low_entries ==
  BootStep("clear", "initialize_paging",
           [boot EXCEPT !.ptr_page_directory = [d \in NotLow |-> @[d]]])

\* Mutant: the end of the kernel image is taken for the end of the boot memory.
MutEndOfKernel == FrameOf(RoundUp(image.end))

\* The first frame behind the boot memory.
range_end == FrameOf(RoundUp(boot.ptr_free_mem))

\* initialize_paging offers the heap to the fit strategies from here on.
FreeHeapStart == KERNEL_HEAP_START + 4

\* Frame 0 is the BIOS's; 1 and 2 are the zero page and ptr_temp_page.
initialize_paging ==
  /\ At("initialize_paging", "shares")
  /\ free_frame_list' =
       SelectSeq(<<Interval(range_end, number_of_frames - 1), Interval(3, PHYS_IO_MEM - 1)>>,
                 LAMBDA i : i.first <= i.last)
  /\ used' = <<Interval(0, 2), Interval(PHYS_IO_MEM, PHYS_EXTENDED_MEM - 1),
               Interval(PHYS_EXTENDED_MEM, range_end - 1)>>
  /\ kheap' = [kheap EXCEPT !.Block_info_free_list =
                               <<Interval(FreeHeapStart, KERNEL_HEAP_MAX - 1)>>]
  /\ UNCHANGED <<image, number_of_frames, boot, cpu>>

\* allocate_frame takes the head of the list.
allocate_frame(free) ==
  LET i == Head(free)
  IN  IF i.first = i.last THEN Tail(free)
      ELSE <<Interval(i.first, i.last - 1)>> \o Tail(free)

\* kmalloc of one of the two arrays: cont_allocation, which leaves the free list
\* of the heap alone.  (What map_frame does with a table of Junk is left out.)
CreateArray(step, next) ==
  LET va == kheap.last_va_in_kheap
      t == boot.ptr_page_directory[PDX(va)]
      first == Head(free_frame_list).last
      second == Head(allocate_frame(free_frame_list)).last
  IN  /\ At(step, next)
      /\ image.unset = NULL /\ Len(free_frame_list) = 2
      /\ boot' = [boot EXCEPT !.tables[t] =
                    @ \cup {[first |-> PTX(va), last |-> PTX(va), frame |-> first],
                            [first |-> PTX(va) + 1, last |-> PTX(va) + 1, frame |-> second]}]
      /\ free_frame_list' = allocate_frame(allocate_frame(free_frame_list))
      /\ used' = used \o <<Interval(first, first), Interval(second, second)>>
      /\ kheap' = [kheap EXCEPT !.last_va_in_kheap = va + ArrayPages,
                                !.Block_info_taken_list =
                                   <<Interval(va, va + ArrayPages - 1)>> \o @]
      /\ UNCHANGED <<image, number_of_frames, cpu>>

create_shares_array == CreateArray("shares", "semaphores")
create_semaphores_array == CreateArray("semaphores", "prompt")

Init ==
  /\ pc = "detect_memory"
  /\ image \in Images
  /\ number_of_frames = 0
  /\ boot = [ptr_free_mem |-> image.end, phys_page_directory |-> 0,
             ptr_page_directory |-> <<>>, tables |-> <<>>, allocated |-> <<>>]
  /\ cpu = [paging |-> FALSE, relocated |-> TRUE]
  /\ free_frame_list = <<>> /\ used = <<>>
  /\ kheap = [last_va_in_kheap |-> KERNEL_HEAP_START,
              Block_info_free_list |-> <<>>, Block_info_taken_list |-> <<>>]

Next == \/ detect_memory
        \/ create_page_directory \/ map_kernel_stack \/ create_kernel_tables
        \/ allocate_frames_info \/ setup_listing_to_all_page_tables_entries
        \/ allocate_envs \/ map_kernel \/ check
        \/ copy_low_entries \/ load_cr0 \/ reload_segments \/ clear_low_entries
        \/ initialize_paging
        \/ create_shares_array \/ create_semaphores_array

Spec == Init /\ [][Next]_vars

-----------------------------------------------------------------------------
(* Properties.                                                             *)

\* The counters and the lists of FOS_initialize hold values of their types.
TypeOK ==
  /\ number_of_frames \in 0..2^20 - 1
  /\ DOMAIN boot.ptr_page_directory \subseteq 0..NPTENTRIES - 1
  /\ \A d \in DOMAIN boot.ptr_page_directory :
       boot.ptr_page_directory[d] \in DOMAIN boot.tables \cup {boot.phys_page_directory}
  /\ \A i \in 1..Len(free_frame_list) : free_frame_list[i].first <= free_frame_list[i].last

(***************************************************************************)
(* "From here on down we must maintain this VA (KERNEL_BASE + x) => PA (x) *)
(* mapping, even though we are turning on paging and reconfiguring         *)
(* segmentation" (turn_on_paging): code, data and stack of the kernel are  *)
(* found in every state between two of its steps.                          *)
(***************************************************************************)
KernelStaysMapped == \A x \in PHYS_EXTENDED_MEM..FrameOf(image.end - 1) : Physical(x) = x

(***************************************************************************)
(* The assertions of check_boot_pgdir hold where they are checked, whose   *)
(* failure would stop the kernel, and again once paging is on: nothing of  *)
(* the boot memory is unmapped, nor anything left mapped below it for the  *)
(* environments, whose directories are copies of this one.                 *)
(***************************************************************************)
DirectoryRight ==
  /\ pc # "panic"
  /\ pc \in {"initialize_paging", "prompt"} => check_boot_pgdir

(***************************************************************************)
(* No frame that was given out while booting, nor the image, the hole for  *)
(* devices or one of the first three, is ever free; each frame of the      *)
(* memory is either free or in use, and none both.  (The sum is right only *)
(* where there is more memory than the boot takes: boot_allocate_space     *)
(* does not compare, although "If we're out of memory, boot_allocate_space *)
(* should panic".)                                                         *)
(***************************************************************************)
FramesAccounted ==
  LET all == free_frame_list \o used
      InUse == Range(boot.allocated)
                 \cup {Interval(0, 2), Interval(PHYS_IO_MEM, FrameOf(image.end - 1))}
      n == FoldLeft(LAMBDA sum, i : sum + (i.last - i.first + 1), 0, all)
  IN  /\ \A i \in 1..Len(free_frame_list), u \in InUse : Disjoint(free_frame_list[i], u)
      /\ \A i, j \in 1..Len(all) : i # j => Disjoint(all[i], all[j])
      /\ used # <<>> /\ range_end <= number_of_frames => n = number_of_frames

(***************************************************************************)
(* The kernel heap starts behind all boot memory, and its pages that are   *)
(* taken at the prompt, by the two arrays, are exactly those that          *)
(* initialize_paging leaves out of the free list; each has a frame.        *)
(***************************************************************************)
HeapBehindArrays ==
  /\ KERNEL_BASE + FrameOf(boot.ptr_free_mem) < KERNEL_HEAP_START
  /\ pc = "prompt" =>
       LET free == kheap.Block_info_free_list[1]
           taken == {q \in KERNEL_HEAP_START..KERNEL_HEAP_START + 2 * NPTENTRIES :
                       \E b \in Range(kheap.Block_info_taken_list) : In(q, b)}
       IN  /\ taken = KERNEL_HEAP_START..free.first - 1
           /\ kheap.last_va_in_kheap = free.first
           /\ \A q \in taken : \E u \in Range(used) : u = Interval(check_va2pa(boot, q),
                                                                   check_va2pa(boot, q))
=============================================================================
