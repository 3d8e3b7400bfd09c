---------------------------- MODULE SharedMemory ----------------------------
(***************************************************************************)
(* Shared variables: the objects of kern/shared_memory_manager.c, the page *)
(* tables they are mapped in, and the heap of each program (lib/uheap.c).  *)
(*                                                                         *)
(* A system call is one step, and so is the user code around it, which     *)
(* touches only its program's own lists.  sget is two system calls, the    *)
(* first asks for the size and the second maps the object; other programs  *)
(* may run in between.  The placement strategy is the one set at boot,     *)
(* first fit.  Not modelled: names whose page is out of memory (the calls  *)
(* are then abandoned, see the module Semaphores), write permissions, and  *)
(* private pages, which WorkingSet describes.                              *)
(***************************************************************************)
EXTENDS BlockLists, FiniteSets

CONSTANTS Env, NULL,
          Name,        \* names of shared variables
          MAX_SHARES,  \* length of the array "shares"
          Frame,       \* page frames
          USER_HEAP_START, USER_HEAP_MAX,  \* in pages
          Sizes,       \* sizes passed to malloc and smalloc, in pages
          Outgrows     \* whether an object may be replaced by a larger one
                       \* between the two system calls of an sget for it

ASSUME SharedAssumption ==
  /\ NULL \notin Env \cup Name \cup Frame
  /\ MAX_SHARES \in Nat \ {0}
  /\ USER_HEAP_START \in Nat /\ USER_HEAP_MAX \in Nat
  /\ USER_HEAP_START < USER_HEAP_MAX
  /\ Sizes \subseteq Nat \ {0}
  /\ Outgrows \in BOOLEAN

VARIABLES shares,      \* the array, NULL once krealloc() has replaced it
          page_table,  \* the frame behind each page of a program's heap
          free_list,   \* Block_info_free_list_user of each program
          taken_list,  \* Block_info_taken_list_user of each program
          pending,     \* what sget has asked the size of, and the answer
          blocks,      \* addresses a program holds from malloc
          held,        \* objects a program holds from smalloc and sget
          killed       \* programs ended by an access through a null pointer

heap == <<free_list, taken_list>>

vars == <<shares, page_table, free_list, taken_list, pending, blocks, held, killed>>

Page == USER_HEAP_START..USER_HEAP_MAX - 1

Slot == 0..MAX_SHARES - 1

Share == [empty: BOOLEAN, ownerID: Env \cup {NULL}, name: Name \cup {NULL},
          size: Nat, references: Nat, frames: Seq(Frame)]

EmptyShare == [empty |-> TRUE, ownerID |-> NULL, name |-> NULL,
               size |-> 0, references |-> 0, frames |-> <<>>]

Lost == shares = NULL

Idle(e) == e \notin killed /\ pending[e] = NULL

-----------------------------------------------------------------------------
(* The array of shared objects.                                            *)

Matches(i, owner, name) == /\ ~shares[i].empty
                           /\ shares[i].ownerID = owner
                           /\ shares[i].name = name

\* get_share_object_ID: the first object of the scan that matches.
Found(i, owner, name) == /\ Matches(i, owner, name)
                         /\ \A j \in Slot : j < i => ~Matches(j, owner, name)

NotFound(owner, name) == \A i \in Slot : ~Matches(i, owner, name)

FirstEmpty(i) == /\ shares[i].empty
                 /\ \A j \in Slot : j < i => ~shares[j].empty

Full == \A i \in Slot : ~shares[i].empty

\* Frames whose reference count, the number of pages mapped to them, is 0.
FreeFrames == {f \in Frame : \A e \in Env : \A p \in Page : page_table[e][p] # f}

\* n frames taken from free_frame_list one after the other.
Allocations(n) ==
  {fs \in [1..n -> FreeFrames] : \A i, j \in 1..n : fs[i] = fs[j] => i = j}

\* Mutant: the last frame is not mapped.
MutLastNotMapped(e, a, fs) ==
  [page_table EXCEPT ![e] = [p \in Page |-> IF p \in Pages(a, Len(fs) - 1)
                                            THEN fs[p - a + 1] ELSE @[p]]]

\* map_frame for each frame; what was mapped there before is unmapped.
Mapped(e, a, fs) ==
  [page_table EXCEPT ![e] = [p \in Page |-> IF p \in Pages(a, Len(fs))
                                            THEN fs[p - a + 1] ELSE @[p]]]

\* Mutant: the last page stays mapped.
MutLastStaysMapped(e, a, n) ==
  [page_table EXCEPT ![e] = [p \in Page |-> IF p \in Pages(a, n - 1)
                                            THEN NULL ELSE @[p]]]

Unmapped(e, a, n) ==
  [page_table EXCEPT ![e] = [p \in Page |-> IF p \in Pages(a, n) THEN NULL ELSE @[p]]]

-----------------------------------------------------------------------------
(* The heap of a program.                                                  *)

Fits(e, n) == {i \in 1..Len(free_list[e]) : free_list[e][i].size >= n}

\* Mutant: the taken block is one page too short.
MutTakesTooLittle(e, n, a) ==
  \E i \in Fits(e, n) :
    /\ \A j \in Fits(e, n) : i <= j
    /\ a = free_list[e][i].start
    /\ free_list' = [free_list EXCEPT ![e] = Cut(@, i, IF n > 1 THEN n - 1 ELSE n)]
    /\ taken_list' = [taken_list EXCEPT ![e] = <<[start |-> a, size |-> n]>> \o @]

\* The first block that fits is cut; a is the address it gives.
first_fit_user(e, n, a) ==
  \E i \in Fits(e, n) :
    /\ \A j \in Fits(e, n) : i <= j
    /\ a = free_list[e][i].start
    /\ free_list' = [free_list EXCEPT ![e] = Cut(@, i, n)]
    /\ taken_list' = [taken_list EXCEPT ![e] = <<[start |-> a, size |-> n]>> \o @]

malloc(e, n) ==
  /\ Idle(e)
  /\ \E a \in Page : /\ first_fit_user(e, n, a)
                     /\ blocks' = [blocks EXCEPT ![e] = @ \cup {a}]
  /\ UNCHANGED <<shares, page_table, pending, held, killed>>

\* The program's copy of Coalescing_heap tries the first and the last free block
\* first, with the same outcome for blocks that are not empty.
Coalescing_heap_user(q, b) == Coalesced(q, b)

\* sys_freeMem, then Coalescing_heap_user, which reads through the null pointer
\* when the list of free blocks is empty.
free(e, virtual_address) ==
  /\ Idle(e)
  /\ virtual_address \in blocks[e]
  /\ \E i \in 1..Len(taken_list[e]) :
       LET b == taken_list[e][i]
       IN  /\ b.start = virtual_address
           /\ \A j \in 1..i - 1 : taken_list[e][j].start # virtual_address
           /\ taken_list' = [taken_list EXCEPT ![e] = RemoveAt(@, i)]
           /\ \/ /\ free_list[e] # <<>>
                 /\ free_list' = [free_list EXCEPT ![e] = Coalescing_heap_user(@, b)]
                 /\ UNCHANGED killed
              \/ /\ free_list[e] = <<>>
                 /\ killed' = killed \cup {e}
                 /\ UNCHANGED free_list
  /\ blocks' = [blocks EXCEPT ![e] = @ \ {virtual_address}]
  /\ UNCHANGED <<shares, page_table, pending, held>>

-----------------------------------------------------------------------------
(* The operations on shared variables.                                     *)

\* An object of n pages at address a of its owner e.  Outgrows = FALSE is a restriction
\* of what the programs do, not a test of the kernel's.
createSharedObject(e, name, n, a) ==
  /\ NotFound(e, name)
  /\ \A d \in Env : pending[d] # NULL /\ pending[d].owner = e /\ pending[d].name = name
                      => Outgrows \/ n <= pending[d].size
  /\ \E i \in Slot, fs \in Allocations(n) :
       /\ FirstEmpty(i)
       /\ shares' = [shares EXCEPT ![i] =
                       [empty |-> FALSE, ownerID |-> e, name |-> name,
                        size |-> n, references |-> 1, frames |-> fs]]
       /\ page_table' = Mapped(e, a, fs)
       /\ held' = [held EXCEPT ![e] = @ \cup {[va |-> a, slot |-> i, frames |-> fs]}]

\* The array is full: allocate_share_object stores the NULL that krealloc()
\* returns in "shares".
createSharedObjectFull(e, name) ==
  /\ NotFound(e, name)
  /\ Full
  /\ shares' = NULL
  /\ UNCHANGED <<page_table, held>>

\* The object exists already: the address found for it is not given back.
createSharedObjectExists(e, name) ==
  /\ ~NotFound(e, name)
  /\ UNCHANGED <<shares, page_table, held>>

smalloc(e, name, n) ==
  /\ Idle(e) /\ ~Lost
  /\ \E a \in Page : /\ first_fit_user(e, n, a)
                     /\ \/ createSharedObject(e, name, n, a)
                        \/ createSharedObjectFull(e, name)
                        \/ createSharedObjectExists(e, name)
  /\ UNCHANGED <<pending, blocks, killed>>

\* The first system call of sget.
getSizeOfSharedObject(e, owner, name) ==
  /\ Idle(e) /\ ~Lost
  /\ \E i \in Slot :
       /\ Found(i, owner, name)
       /\ pending' = [pending EXCEPT ![e] = [owner |-> owner, name |-> name,
                                             size |-> shares[i].size]]
  /\ UNCHANGED <<shares, page_table, heap, blocks, held, killed>>

\* Mutant: the new user of the object is not counted.
MutNotCounted(e, owner, name, a) ==
  \/ \E i \in Slot :
       /\ Found(i, owner, name)
       /\ page_table' = Mapped(e, a, shares[i].frames)
       /\ held' = [held EXCEPT ![e] = @ \cup
                     {[va |-> a, slot |-> i, frames |-> shares[i].frames]}]
       /\ UNCHANGED shares
  \/ NotFound(owner, name) /\ UNCHANGED <<shares, page_table, held>>

\* The object as it is now is mapped from address a on.
getSharedObject(e, owner, name, a) ==
  \/ \E i \in Slot :
       /\ Found(i, owner, name)
       /\ shares' = [shares EXCEPT ![i].references = @ + 1]
       /\ page_table' = Mapped(e, a, shares[i].frames)
       /\ held' = [held EXCEPT ![e] = @ \cup
                     {[va |-> a, slot |-> i, frames |-> shares[i].frames]}]
  \/ NotFound(owner, name) /\ UNCHANGED <<shares, page_table, held>>

\* The rest of sget, with the size known from the first system call.
sget(e) ==
  /\ e \notin killed /\ pending[e] # NULL
  /\ \/ /\ ~Lost
        /\ \E a \in Page :
             /\ first_fit_user(e, pending[e].size, a)
             /\ getSharedObject(e, pending[e].owner, pending[e].name, a)
     \/ Fits(e, pending[e].size) = {} /\ UNCHANGED <<shares, page_table, heap, held>>
  /\ pending' = [pending EXCEPT ![e] = NULL]
  /\ UNCHANGED <<blocks, killed>>

\* The object whose first frame is mapped at the address.
SharedAt(i, e, a) ==
  /\ ~shares[i].empty /\ shares[i].frames[1] = page_table[e][a]
  /\ \A j \in Slot : j < i /\ ~shares[j].empty => shares[j].frames[1] # page_table[e][a]

\* Mutant: the object goes with its owner.
MutOwnerFrees(e, a) ==
  \/ \E i \in Slot :
       /\ SharedAt(i, e, a)
       /\ page_table' = Unmapped(e, a, shares[i].size)
       /\ shares' = IF shares[i].references = 1 \/ shares[i].ownerID = e
                    THEN [shares EXCEPT ![i] = EmptyShare]
                    ELSE [shares EXCEPT ![i].references = @ - 1]
  \/ (\A i \in Slot : ~SharedAt(i, e, a)) /\ UNCHANGED <<shares, page_table>>

freeSharedObject(e, a) ==
  \/ \E i \in Slot :
       /\ SharedAt(i, e, a)
       /\ page_table' = Unmapped(e, a, shares[i].size)
       /\ shares' = IF shares[i].references = 1
                    THEN [shares EXCEPT ![i] = EmptyShare]
                    ELSE [shares EXCEPT ![i].references = @ - 1]
  \/ (\A i \in Slot : ~SharedAt(i, e, a)) /\ UNCHANGED <<shares, page_table>>

\* The block of the program's heap stays taken.
sfree(e, h) ==
  /\ Idle(e) /\ ~Lost
  /\ h \in held[e]
  /\ freeSharedObject(e, h.va)
  /\ held' = [held EXCEPT ![e] = @ \ {h}]
  /\ UNCHANGED <<pending, heap, blocks, killed>>

\* Once the array is lost, a call that reads it faults and ends the caller.
LostArrayFault(e) ==
  /\ Lost /\ e \notin killed
  /\ killed' = killed \cup {e}
  /\ UNCHANGED <<shares, page_table, heap, pending, blocks, held>>

-----------------------------------------------------------------------------
Init ==
  /\ shares = [i \in Slot |-> EmptyShare]
  /\ page_table = [e \in Env |-> [p \in Page |-> NULL]]
  /\ free_list = [e \in Env |-> <<[start |-> USER_HEAP_START,
                                   size |-> USER_HEAP_MAX - USER_HEAP_START]>>]
  /\ taken_list = [e \in Env |-> <<>>]
  /\ pending = [e \in Env |-> NULL]
  /\ blocks = [e \in Env |-> {}]
  /\ held = [e \in Env |-> {}]
  /\ killed = {}

Next ==
  \E e \in Env :
    \/ \E n \in Sizes : malloc(e, n)
    \/ \E va \in Page : free(e, va)
    \/ \E name \in Name, n \in Sizes : smalloc(e, name, n)
    \/ \E owner \in Env, name \in Name : getSizeOfSharedObject(e, owner, name)
    \/ sget(e)
    \/ \E h \in held[e] : sfree(e, h)
    \/ LostArrayFault(e)

Spec == Init /\ [][Next]_vars

-----------------------------------------------------------------------------
(* Properties.                                                             *)

Block == [start: Page, size: Nat]

\* The array, the page tables and the programs' lists hold values of their types,
\* and no block reaches beyond the end of the heap.
TypeOK ==
  /\ Lost \/ shares \in [Slot -> Share]
  /\ page_table \in [Env -> [Page -> Frame \cup {NULL}]]
  /\ free_list \in [Env -> Seq(Block)] /\ taken_list \in [Env -> Seq(Block)]
  /\ \A e \in Env :
       /\ pending[e] = NULL \/ pending[e] \in [owner: Env, name: Name, size: Nat]
       /\ blocks[e] \subseteq Page
       /\ held[e] \subseteq [va: Page, slot: Slot, frames: Seq(Frame)]
       /\ \A b \in ToSet(free_list[e]) \cup ToSet(taken_list[e]) : End(b) <= USER_HEAP_MAX
  /\ killed \subseteq Env

(***************************************************************************)
(* Sharing: as long as a program holds an object, the object exists and    *)
(* the program sees the frames it was created with, all of them, whoever   *)
(* else gives it back in the meantime.                                     *)
(***************************************************************************)
HoldersShare ==
  ~Lost => \A e \in Env : \A h \in held[e] :
    /\ ~shares[h.slot].empty /\ shares[h.slot].frames = h.frames
    /\ \A k \in 1..Len(h.frames) : page_table[e][h.va + k - 1] = h.frames[k]

(***************************************************************************)
(* The references of an object are those who hold it, so it is freed when  *)
(* the last of them gives it back, not before and not later.               *)
(***************************************************************************)
ReferencesCountHolders ==
  ~Lost => \A i \in Slot :
    shares[i].references =
      Cardinality(UNION {{<<e, h>> : h \in {g \in held[e] : g.slot = i}} : e \in Env})

(***************************************************************************)
(* A frame of an object belongs to no other object and is not free while   *)
(* the object exists: it is never handed out a second time.                *)
(***************************************************************************)
FramesExclusive ==
  ~Lost => \A i, j \in Slot :
    /\ ToSet(shares[i].frames) \cap FreeFrames = {}
    /\ i # j => ToSet(shares[i].frames) \cap ToSet(shares[j].frames) = {}

(***************************************************************************)
(* What a program has given back it can no longer reach: every page of its *)
(* heap that is mapped is a page of an object it holds.                    *)
(***************************************************************************)
NothingStaysMapped ==
  \A e \in Env : \A p \in Page :
    page_table[e][p] # NULL => \E h \in held[e] : p \in Pages(h.va, Len(h.frames))

(***************************************************************************)
(* An object is mapped inside the block that was found for it, which is    *)
(* neither free nor part of another block: no malloc, smalloc or sget will *)
(* use its addresses.                                                      *)
(***************************************************************************)
MappedInsideOwnBlock ==
  \A e \in Env :
    /\ \A h \in held[e] : \E i \in 1..Len(taken_list[e]) :
         /\ taken_list[e][i].start = h.va
         /\ Len(h.frames) <= taken_list[e][i].size
    /\ \A i, j \in 1..Len(taken_list[e]) : i # j =>
         Pages(taken_list[e][i].start, taken_list[e][i].size)
           \cap Pages(taken_list[e][j].start, taken_list[e][j].size) = {}
    /\ \A i \in 1..Len(taken_list[e]) : \A j \in 1..Len(free_list[e]) :
         Pages(taken_list[e][i].start, taken_list[e][i].size)
           \cap Pages(free_list[e][j].start, free_list[e][j].size) = {}
=============================================================================
