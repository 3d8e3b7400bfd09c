----------------------------- MODULE WorkingSet -----------------------------
(***************************************************************************)
(* Demand paging of one environment: its page working set, the pages of    *)
(* the page file, page_fault_handler (kern/trap.c) and the kernel side of  *)
(* malloc and free (allocateMem and freeMem, kern/memory_manager.c).       *)
(*                                                                         *)
(* A page is a number: first the pages of the program image, then those of *)
(* the user heap, then the stack, whose top page is the last one.  Frames  *)
(* of memory are plentiful, those of the page file are not.                *)
(***************************************************************************)
EXTENDS Integers, Sequences, FiniteSets

CONSTANTS Image, Heap, Stack,  \* the pages of each area
          Unloaded,            \* image pages that env_create only puts on disk
          NPTENTRIES,          \* pages per page table
          page_WS_max_size,    \* entries of the working set
          PageFileFrames,      \* frames of the page file
          Data,                \* what a page can hold; 0 is a page of zeros
          Junk,                \* what a frame nobody initialised holds
          NULL,
          MaxFrees             \* bound: calls of freeMem in a behaviour

Page == Image \cup Heap \cup Stack

TopOfStack == CHOOSE p \in Stack : \A q \in Stack : q <= p

ASSUME WorkingSetAssumption ==
  /\ Page \subseteq Nat /\ IsFiniteSet(Page) /\ Stack # {} /\ Unloaded \subseteq Image
  /\ \A p \in Image, q \in Heap : p < q
  /\ \A p \in Image \cup Heap, q \in Stack : p < q
  /\ NPTENTRIES \in Nat \ {0} /\ page_WS_max_size \in Nat \ {0}
  /\ PageFileFrames \in Nat /\ Cardinality(Image) < PageFileFrames
  /\ 0 \in Data /\ Junk \notin Data /\ NULL \notin Data \cup {Junk} \cup Page
  /\ MaxFrees \in Nat

VARIABLES ptr_pageWorkingSet,  \* the page of each entry, NULL when empty
          page_last_WS_index,
          memory,    \* what the page's frame holds, NULL when not mapped
          modified,  \* the pages whose entry has PERM_MODIFIED
          page_file, \* what the page file holds of a page, NULL when absent
          tables,      \* the page tables in the environment's directory
          disk_tables, \* the tables in its directory of the page file
          blocks,    \* ranges the program holds from malloc
          unbacked,  \* pages that found the page file full when they came to be
          written,   \* what the program last stored in a page, Junk if nothing
          killed,    \* the page whose access ended the environment, or NULL
          frees      \* number of calls of freeMem

vars == <<ptr_pageWorkingSet, page_last_WS_index, memory, modified, page_file,
          tables, disk_tables, blocks, unbacked, written, killed, frees>>

Entry == 0..page_WS_max_size - 1

Pages(b) == b.start..b.start + b.size - 1

TableOf(p) == p \div NPTENTRIES

TablesOf(S) == {TableOf(p) : p \in S}

Resident == {p \in Page : memory[p] # NULL}

InPageFile == {p \in Page : page_file[p] # NULL}

InWorkingSet == {ptr_pageWorkingSet[j] : j \in Entry} \ {NULL}

env_page_ws_get_size == Cardinality({j \in Entry : ptr_pageWorkingSet[j] # NULL})

Running == killed = NULL

PageFileFull == Cardinality(InPageFile) >= PageFileFrames

\* Frames of memory the environment has taken, beside those it never gives back.
FramesUsed == Cardinality(Resident) + Cardinality(tables) + Cardinality(disk_tables)

-----------------------------------------------------------------------------
\* Mutant: the index stays, so the page loaded last is replaced next.
MutIndexStays(p) ==
  /\ ptr_pageWorkingSet' = [ptr_pageWorkingSet EXCEPT ![page_last_WS_index] = p]
  /\ UNCHANGED page_last_WS_index

env_page_ws_set_entry(p) ==
  /\ ptr_pageWorkingSet' = [ptr_pageWorkingSet EXCEPT ![page_last_WS_index] = p]
  /\ page_last_WS_index' = (page_last_WS_index + 1) % page_WS_max_size

\* Mutant: only the pages that were not modified are written back.
MutModifiedLost(p) ==
  IF p \in InPageFile \ modified THEN [page_file EXCEPT ![p] = memory[p]] ELSE page_file

\* The page file after a write-back: a page it does not have is not written.
pf_update_env_page(p) ==
  IF p \in modified /\ p \in InPageFile
  THEN [page_file EXCEPT ![p] = memory[p]] ELSE page_file

\* The working set has an empty entry, not necessarily the one that is used.
PlacePage(p) ==
  /\ env_page_ws_get_size < page_WS_max_size
  /\ modified' = modified \ {p}
  /\ \/ /\ p \in InPageFile
        /\ memory' = [memory EXCEPT ![p] = page_file[p]]
        /\ UNCHANGED <<page_file, unbacked>>
     \/ /\ p \in Stack \ InPageFile
        /\ memory' = [memory EXCEPT ![p] = Junk]
        /\ page_file' = IF PageFileFull THEN page_file ELSE [page_file EXCEPT ![p] = Junk]
        /\ unbacked' = IF PageFileFull THEN unbacked \cup {p} ELSE unbacked

\* Mutant: the victim stays mapped.
MutVictimStays(p) ==
  LET victim == ptr_pageWorkingSet[page_last_WS_index]
      saved  == pf_update_env_page(victim)
  IN  /\ env_page_ws_get_size = page_WS_max_size
      /\ modified' = modified \ {victim, p}
      /\ \/ /\ p \in InPageFile
            /\ memory' = [memory EXCEPT ![p] = page_file[p]]
            /\ page_file' = saved
            /\ UNCHANGED unbacked
         \/ /\ p \in Stack \ InPageFile
            /\ memory' = [memory EXCEPT ![p] = Junk]
            /\ page_file' = IF PageFileFull THEN saved ELSE [saved EXCEPT ![p] = 0]
            /\ unbacked' = IF PageFileFull THEN unbacked \cup {p} ELSE unbacked

\* The entry at page_last_WS_index gives way; a modified page is saved first.
ReplacePage(p) ==
  LET victim == ptr_pageWorkingSet[page_last_WS_index]
      saved  == pf_update_env_page(victim)
  IN  /\ env_page_ws_get_size = page_WS_max_size
      /\ modified' = modified \ {victim, p}
      /\ \/ /\ p \in InPageFile
            /\ memory' = [memory EXCEPT ![victim] = NULL, ![p] = page_file[p]]
            /\ page_file' = saved
            /\ UNCHANGED unbacked
         \/ /\ p \in Stack \ InPageFile
            /\ memory' = [memory EXCEPT ![victim] = NULL, ![p] = Junk]
            /\ page_file' = IF PageFileFull THEN saved ELSE [saved EXCEPT ![p] = 0]
            /\ unbacked' = IF PageFileFull THEN unbacked \cup {p} ELSE unbacked

\* A page whose table is missing faults twice, the first time for the table.
\* pf_add_empty_env_page makes the table of a new page even on a full disk.
page_fault_handler(p) ==
  /\ Running /\ p \notin Resident
  /\ PlacePage(p) \/ ReplacePage(p)
  /\ env_page_ws_set_entry(p)
  /\ tables' = tables \cup {TableOf(p)}
  /\ disk_tables' = disk_tables \cup {TableOf(p)}
  /\ UNCHANGED <<blocks, written, killed, frees>>

\* "invalid access": the panic ends the environment, whose memory nobody sees
\* again.
InvalidAccess(p) ==
  /\ Running /\ p \notin Resident
  /\ p \notin InPageFile \cup Stack
  /\ killed' = p
  /\ UNCHANGED <<ptr_pageWorkingSet, page_last_WS_index, memory, modified,
                 page_file, tables, disk_tables, blocks, unbacked, written, frees>>

\* The program stores a value in a page that is mapped.
Write(p, v) ==
  /\ Running /\ p \in Resident
  /\ memory' = [memory EXCEPT ![p] = v]
  /\ written' = [written EXCEPT ![p] = v]
  /\ modified' = modified \cup {p}
  /\ UNCHANGED <<ptr_pageWorkingSet, page_last_WS_index, page_file, tables,
                 disk_tables, blocks, unbacked, killed, frees>>

\* Mutant: the last page of the range is left out.
MutLastPageMissed(b) ==
  LET missing == Pages(b) \ (InPageFile \cup {b.start + b.size - 1})
      room    == PageFileFrames - Cardinality(InPageFile)
      first   == {p \in missing : Cardinality({q \in missing : q <= p}) <= room}
  IN  \E added \in {first} :
        /\ page_file' = [p \in Page |-> IF p \in added THEN Junk ELSE page_file[p]]
        /\ unbacked' = unbacked \cup (missing \ added)

\* Each page in turn gets a frame of the page file; the pages for which none is
\* left are skipped without an error.
pf_add_empty_env_pages(b) ==
  LET missing == Pages(b) \ InPageFile
      room    == PageFileFrames - Cardinality(InPageFile)
      first   == IF Cardinality(missing) <= room THEN missing
                 ELSE {p \in missing : Cardinality({q \in missing : q <= p}) <= room}
  IN  \E added \in {first} :  \* one set, evaluated once
        /\ page_file' = [p \in Page |-> IF p \in added THEN Junk ELSE page_file[p]]
        /\ unbacked' = unbacked \cup (missing \ added)

\* malloc found a free range.
allocateMem(b) ==
  /\ Running
  /\ Pages(b) \subseteq Heap
  /\ \A c \in blocks : Pages(b) \cap Pages(c) = {}
  /\ blocks' = blocks \cup {b}
  /\ pf_add_empty_env_pages(b)
  /\ disk_tables' = disk_tables \cup TablesOf(Pages(b))
  /\ UNCHANGED <<ptr_pageWorkingSet, page_last_WS_index, memory, modified, tables,
                 written, killed, frees>>

\* Mutant: the table is freed without a look at its entries.
MutUsedTableFreed(b, mapped) == TablesOf(Pages(b))

\* The tables of the range that have no page mapped.
EmptyTables(b, mapped) == TablesOf(Pages(b)) \ TablesOf(mapped)

\* Only the pages of the range that have an entry are unmapped, and the index
\* moves down to the lowest entry emptied below it.
freeMem(b) ==
  LET cleared == {j \in Entry : ptr_pageWorkingSet[j] \in Pages(b)}
      below   == {j \in cleared : j < page_last_WS_index}
      gone    == Pages(b) \cap InWorkingSet
  IN  /\ Running /\ frees < MaxFrees
      /\ b \in blocks
      /\ blocks' = blocks \ {b}
      /\ page_file' = [p \in Page |-> IF p \in Pages(b) THEN NULL ELSE page_file[p]]
      /\ memory' = [p \in Page |-> IF p \in Pages(b) /\ p \in gone THEN NULL ELSE memory[p]]
      /\ modified' = modified \ gone
      /\ unbacked' = unbacked \ Pages(b)
      /\ tables' = tables \ EmptyTables(b, Resident \ gone)
      /\ ptr_pageWorkingSet' =
           [j \in Entry |-> IF j \in cleared THEN NULL ELSE ptr_pageWorkingSet[j]]
      /\ page_last_WS_index' \in IF below = {} THEN {page_last_WS_index}
                                 ELSE {j \in below : \A k \in below : j <= k}
      /\ frees' = frees + 1
      /\ written' = [p \in Page |-> IF p \in Pages(b) THEN Junk ELSE written[p]]
      /\ UNCHANGED <<disk_tables, killed>>

-----------------------------------------------------------------------------
\* env_create loads image pages in order while it can leave an entry for the
\* stack page.
Rank(p) == Cardinality({q \in Image \ Unloaded : q < p})

Loaded == {p \in Image \ Unloaded : Rank(p) < page_WS_max_size - 1}

Init ==
  LET last == Cardinality(Loaded)
      onDisk == Image \cup {TopOfStack}
  IN  /\ ptr_pageWorkingSet =
           [j \in Entry |-> CASE j < last -> CHOOSE p \in Loaded : Rank(p) = j
                              [] j = last -> TopOfStack
                              [] j > last -> NULL]
      /\ page_last_WS_index = (last + 1) % page_WS_max_size
      /\ memory = [p \in Page |-> IF p \in Loaded \cup {TopOfStack} THEN 0 ELSE NULL]
      /\ modified = {TopOfStack}
      /\ page_file = [p \in Page |-> IF p \in onDisk THEN 0 ELSE NULL]
      /\ tables = TablesOf(Loaded \cup {TopOfStack})
      /\ disk_tables = TablesOf(onDisk)
      /\ blocks = {} /\ unbacked = {}
      /\ written = [p \in Page |-> IF p \in onDisk THEN 0 ELSE Junk]
      /\ killed = NULL
      /\ frees = 0

Block == {b \in [start: Heap, size: 1..Cardinality(Heap)] : Pages(b) \subseteq Heap}

Next == \/ \E p \in Page : page_fault_handler(p)
        \/ \E p \in Page : InvalidAccess(p)
        \/ \E p \in Page, v \in Data : Write(p, v)
        \/ \E b \in Block : allocateMem(b)
        \/ \E b \in Block : freeMem(b)

Spec == Init /\ [][Next]_vars

-----------------------------------------------------------------------------
(* Properties.                                                             *)

\* The working set, the page table, the page file and its bookkeeping hold
\* values of their types.
TypeOK == /\ ptr_pageWorkingSet \in [Entry -> Page \cup {NULL}]
          /\ page_last_WS_index \in Entry
          /\ memory \in [Page -> Data \cup {Junk, NULL}]
          /\ modified \subseteq Page
          /\ page_file \in [Page -> Data \cup {Junk, NULL}]
          /\ tables \subseteq TablesOf(Page) /\ disk_tables \subseteq TablesOf(Page)
          /\ blocks \subseteq Block /\ unbacked \subseteq Page
          /\ written \in [Page -> Data \cup {Junk}]
          /\ killed \in Page \cup {NULL}
          /\ frees \in 0..MaxFrees

Legal == Image \cup Stack \cup UNION {Pages(b) : b \in blocks}

(***************************************************************************)
(* Virtual memory: whatever is evicted, written back, read again or freed, *)
(* a page holds what the program last stored in it, in memory or, when it  *)
(* is not mapped, in the page file.  Only a page that found the page file  *)
(* full may lose its contents.                                             *)
(***************************************************************************)
Coherent ==
  \A p \in Legal \ unbacked :
    written[p] # Junk =>
      written[p] = IF p \in Resident THEN memory[p] ELSE page_file[p]

(***************************************************************************)
(* A mapped page always has its page table, and a page in the page file    *)
(* its disk table, whatever freeMem found empty in between: the handler    *)
(* and get_page_table follow the directory without a check.  Nor do tables *)
(* outlive their use: each covers a mapped page or one the program may     *)
(* touch.  Eviction leaves tables empty, and it is freeMem that must find  *)
(* them, also when the range shares its first or last table with another   *)
(* block.                                                                  *)
(***************************************************************************)
TablesFollowPages ==
  /\ TablesOf(Resident) \subseteq tables /\ TablesOf(InPageFile) \subseteq disk_tables
  /\ tables \subseteq TablesOf(Resident \cup Legal)

(***************************************************************************)
(* page_fault_handler ends an environment only for an access outside its   *)
(* image, its stack and what malloc gave it, or to a page of malloc's for  *)
(* which the page file had no frame, an error that allocateMem ignores.    *)
(***************************************************************************)
KilledOnlyIfInvalid == killed \notin Legal \/ killed \in Heap \cap unbacked

(***************************************************************************)
(* While nothing has been freed, the mapped pages are exactly those of the *)
(* working set, each in one entry: the environment stays within its limit. *)
(***************************************************************************)
ResidentIsWorkingSet ==
  frees = 0 =>
    /\ Resident = InWorkingSet
    /\ \A i, j \in Entry : ptr_pageWorkingSet[i] = ptr_pageWorkingSet[j]
                           /\ ptr_pageWorkingSet[i] # NULL => i = j

\* The k-th entry from page_last_WS_index on.
Ring(k) == ptr_pageWorkingSet[(page_last_WS_index + k) % page_WS_max_size]

(***************************************************************************)
(* First in, first out, while nothing has been freed: a page is unmapped   *)
(* only when the working set is full and it is first in the ring that      *)
(* starts at page_last_WS_index, and loading a page brings every other     *)
(* mapped page one entry nearer to that place.                             *)
(***************************************************************************)
FirstInFirstOut ==
  [][frees' = 0 =>
       \A p \in Resident :
         /\ p \notin Resident' => Resident \subseteq InWorkingSet
                                  /\ Ring(0) = p
                                  /\ env_page_ws_get_size = page_WS_max_size
         /\ p \in Resident' /\ ~(Resident' \subseteq Resident) =>
              \E k \in Entry : Ring(k) = p /\ k > 0 /\ Ring(k - 1)' = p]_vars

(***************************************************************************)
(* No page outside the image, the stack and the ranges held from malloc is *)
(* mapped: freeMem unmaps all of its range.  (Not true of the code: see    *)
(* the run stale_mapping.)                                                 *)
(***************************************************************************)
FreedIsUnmapped == Resident \subseteq Legal
=============================================================================
