---------------------------- MODULE KHeapFrames ----------------------------
(***************************************************************************)
(* The kernel heap together with the frames behind its pages: the list of  *)
(* free frames, the page table entries of the heap and the two address     *)
(* translations of kern/kheap.c.  The page tables of the heap exist from   *)
(* boot on.  Addresses are pages and frame numbers, the offset in the page *)
(* is the same on both sides.                                              *)
(***************************************************************************)
EXTENDS KHeap

VARIABLES free_frame_list,
          entry,   \* the frame in the page table entry of each mapped page
          va       \* frames_info[f].va of each frame f that is in use

frameVars == <<free_frame_list, entry, va>>

\* allocate_frame for each page of a block: the first frames of the list.
allocate_frame(n) == SubSeq(free_frame_list, 1, n)

\* map_frame for each page of a block that was not mapped before.
map_block(a, n) ==
  /\ free_frame_list' = SubSeq(free_frame_list, n + 1, Len(free_frame_list))
  /\ entry' = [p \in DOMAIN entry \cup Pages(a, n) |->
                 IF p \in Pages(a, n) THEN free_frame_list[p - a + 1] ELSE entry[p]]
  /\ va' = [f \in DOMAIN va \cup ToSet(allocate_frame(n)) |->
              IF f \in ToSet(allocate_frame(n))
              THEN a - 1 + CHOOSE k \in 1..n : free_frame_list[k] = f ELSE va[f]]

\* Mutant: a free frame still tells the page it was last used for.
MutAddressKept(a, n) ==
  /\ free_frame_list' = Reverse([i \in 1..n |-> entry[a + i - 1]]) \o free_frame_list
  /\ entry' = Restrict(entry, DOMAIN entry \ Pages(a, n))
  /\ UNCHANGED va

\* unmap_frame for each page of a block: its one reference is gone, and
\* free_frame clears what is known of the frame.
unmap_block(a, n) ==
  /\ free_frame_list' = Reverse([i \in 1..n |-> entry[a + i - 1]]) \o free_frame_list
  /\ entry' = Restrict(entry, DOMAIN entry \ Pages(a, n))
  /\ va' = Restrict(va, DOMAIN va \ {entry[p] : p \in Pages(a, n)})

kheap_physical_address(virtual_address) ==
  IF virtual_address \in DOMAIN entry THEN entry[virtual_address] ELSE 0

kheap_virtual_address(physical_address) ==
  IF physical_address \in DOMAIN va THEN va[physical_address] ELSE 0

kmallocFrames(n) ==
  /\ kmalloc(n)
  /\ IF returned' = 0 THEN UNCHANGED frameVars ELSE map_block(returned', n)

kfreeFrames(virtual_address) ==
  /\ kfree(virtual_address)
  /\ unmap_block(virtual_address, Cardinality(mapped) - Cardinality(mapped'))

\* For a program that does not follow the frames.
NoFrames == free_frame_list = <<>> /\ entry = <<>> /\ va = <<>>

\* Boot puts every frame at the head of the list, in rising order, and the two
\* arrays are allocated from it, the one of the shares first.
FramesInit ==
  LET boot == [i \in 1..2 * ArrayPages |-> Frames + 1 - i]
  IN  /\ free_frame_list = [i \in 1..Frames - 2 * ArrayPages |-> Frames + 1 - 2 * ArrayPages - i]
      /\ entry = [p \in mapped |-> boot[p - KERNEL_HEAP_START + 1]]
      /\ va = [f \in ToSet(boot) |-> KERNEL_HEAP_START + Frames - f]

FrameInit == Init /\ FramesInit

FrameNext ==
  \/ \E n \in Sizes : kmallocFrames(n)
  \/ \E p \in FirstAddress..KERNEL_HEAP_MAX - 1 :
       kfreeFrames(p) \/ (kfree_nothing(p) /\ UNCHANGED frameVars)
  \/ \E s \in Strategies : setKHeapPlacementStrategy(s) /\ UNCHANGED frameVars

FrameSpec == FrameInit /\ [][FrameNext]_<<vars, frameVars>>

-----------------------------------------------------------------------------
(***************************************************************************)
(* The two translations of addresses are inverse to each other on the      *)
(* pages and frames in use, a frame that kfree gave back has no virtual    *)
(* address, and a page that is not in use no frame (test_kheap_virt_addr   *)
(* and test_kheap_phys_addr of kern/test_kheap.c).                         *)
(***************************************************************************)
TranslationsInverse ==
  /\ \A p \in mapped : kheap_virtual_address(kheap_physical_address(p)) = p
  /\ \A f \in DOMAIN va : kheap_physical_address(kheap_virtual_address(f)) = f
  /\ \A f \in ToSet(free_frame_list) : kheap_virtual_address(f) = 0
  /\ \A p \in Page \ mapped : kheap_physical_address(p) = 0
=============================================================================
