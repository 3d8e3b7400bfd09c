---------------------------- MODULE AddressSpace ----------------------------
(***************************************************************************)
(* The address spaces of environments (kern/memory_manager.c): page        *)
(* tables, which are pages of the kernel heap that the kernel finds by the *)
(* field va of the frame that a directory names, and the references of     *)
(* frames.  The frames of a shared object are kept in a directory of the   *)
(* same kind.  The functions are called as env_create, the fault handler,  *)
(* the system calls, the prompt and env_free call them.                    *)
(*                                                                         *)
(* Which free frame and which page of the heap is taken does not matter to *)
(* the properties: the heap takes the lowest of both here and a page the   *)
(* highest frame.  Contents of pages are left out: a frame that is not a   *)
(* table may hold anything, Junk.                                          *)
(***************************************************************************)
EXTENDS Integers, FiniteSets, FiniteSetsExt

CONSTANTS Envs,
          Storage,         \* the storage of the frames of a shared object
          Frames, HeapPages,
          Pages,           \* the pages that programs use
          WSPage,          \* USER_PAGES_WS_START
          NPTENTRIES, page_WS_max_size,
          MaxReleases,     \* bounds how often memory is given back
          MaxLost,         \* bounds the frames that a system call loses
          Junk, NULL

PDX(p) == p \div NPTENTRIES
PTX(p) == p % NPTENTRIES
Tables == {PDX(p) : p \in Pages \cup {WSPage}}
Index == 0..NPTENTRIES - 1
Spaces == Envs \cup {Storage}

\* The working set has a table of its own: USER_HEAP_MAX is a multiple of 4 MB.
ASSUME SpaceAssumption ==
  /\ NPTENTRIES \in Nat \ {0} /\ page_WS_max_size \in Nat \ {0}
  /\ MaxReleases \in Nat /\ MaxLost \in Nat
  /\ Pages \subseteq Nat /\ 0 \in Pages /\ WSPage \in Nat
  /\ \A p \in Pages : PDX(p) # PDX(WSPage)
  /\ Frames \subseteq Nat /\ HeapPages \subseteq Nat
  /\ IsFiniteSet(Envs) /\ IsFiniteSet(Pages) /\ IsFiniteSet(Frames) /\ IsFiniteSet(HeapPages)
  /\ Storage \notin Envs /\ Junk # NULL /\ Junk \notin Nat /\ NULL \notin Nat

VARIABLES mem,             \* what the functions below work on
          status,          \* of an environment: "free", "loading", "running", "stopped"
          ws,              \* its working set: the pages
          shares,          \* the references of the shared object, NULL when there is none
          lost,            \* frames that nobody has and that are not free
          releases         \* how often memory was given back

spaceVars == <<mem, status, ws, shares, lost, releases>>

-----------------------------------------------------------------------------
(* Frames and the kernel heap.  mem, and s below, is a record of the free  *)
(* frames, the fields of frames_info, the contents of frames, the frames   *)
(* of the heap's pages, the directories, the heap pages of each directory  *)
(* and working set, and whether the kernel panicked.                       *)

HeapFrame(s) == Min(s.free_frame_list)
PageFrame(s) == Max(s.free_frame_list)
initialize_frame_info == [references |-> 0, va |-> NULL]

\* The free frame f.
allocate_frame(s, f) ==
  [s EXCEPT !.free_frame_list = @ \ {f}, !.frames_info[f] = initialize_frame_info]

\* What is left in it is anything for the next who takes it.
free_frame(s, f) ==
  [s EXCEPT !.free_frame_list = @ \cup {f}, !.frames_info[f] = initialize_frame_info,
            !.contents[f] = [i \in Index |-> Junk]]

decrement_references(s, f) ==
  IF s.frames_info[f].references = 1 THEN free_frame(s, f)
  ELSE [s EXCEPT !.frames_info[f].references = @ - 1]

FreeHeapPages(s) == {h \in HeapPages : s.heap[h] = NULL}
NextHeapPage(s) == Min(FreeHeapPages(s))

\* One page of the kernel heap, whose tables have existed since the boot.
kmalloc(s) ==
  LET f == HeapFrame(s)
      h == NextHeapPage(s)
  IN  [allocate_frame(s, f) EXCEPT !.heap[h] = f,
                                !.frames_info[f] = [references |-> 1, va |-> h]]

kfree(s, h) == decrement_references([s EXCEPT !.heap[h] = NULL], s.heap[h])

kheap_physical_address(s, h) == s.heap[h]
kheap_virtual_address(s, f) == s.frames_info[f].va

-----------------------------------------------------------------------------
(* Page tables of a space d.                                               *)

\* The heap page of the table for p, NULL when there is none.
get_page_table(s, d, p) ==
  LET t == s.page_directory[d][PDX(p)]
  IN  IF t = NULL THEN NULL ELSE kheap_virtual_address(s, t)

\* Its entry for p, read and written through the heap.
Entry(s, d, p) == s.contents[s.heap[get_page_table(s, d, p)]][PTX(p)]
SetEntry(s, d, p, entry) ==
  [s EXCEPT !.contents[s.heap[get_page_table(s, d, p)]][PTX(p)] = entry]

\* A cleared table; the kernel panics when its heap is full.
create_page_table(s, d, p) ==
  IF FreeHeapPages(s) = {} THEN [s EXCEPT !.panic = TRUE]
  ELSE LET k == kmalloc(s)
           f == kheap_physical_address(k, NextHeapPage(s))
       IN  [k EXCEPT !.page_directory[d][PDX(p)] = f,
                     !.contents[f] = [i \in Index |-> NULL]]

WithTable(s, d, p) ==
  IF get_page_table(s, d, p) = NULL THEN create_page_table(s, d, p) ELSE s

\* The frame mapped at p, NULL for none.
get_frame_info(s, d, p) ==
  IF get_page_table(s, d, p) = NULL THEN NULL ELSE Entry(s, d, p)

\* Mutant: the entry stays when the frame is mapped elsewhere too.
MutSharedStays(s, d, p) ==
  LET f == get_frame_info(s, d, p)
  IN  IF f = NULL THEN s
      ELSE IF s.frames_info[f].references > 1 THEN decrement_references(s, f)
      ELSE SetEntry(decrement_references(s, f), d, p, NULL)

unmap_frame(s, d, p) ==
  LET f == get_frame_info(s, d, p)
  IN  IF f = NULL THEN s ELSE SetEntry(decrement_references(s, f), d, p, NULL)

\* What was mapped at p is unmapped, unless it is f.
map_frame(s, d, f, p) ==
  LET t == WithTable(s, d, p)
  IN  IF t.panic THEN t
      ELSE IF Entry(t, d, p) = f THEN t
      ELSE SetEntry([unmap_frame(t, d, p) EXCEPT !.frames_info[f].references = @ + 1,
                                                 !.frames_info[f].va = p], d, p, f)

\* The same in env_create, where nothing is mapped at p yet.
loadtime_map_frame(s, d, f, p) ==
  LET t == WithTable(s, d, p)
  IN  IF t.panic THEN t
      ELSE SetEntry([t EXCEPT !.frames_info[f].references = @ + 1], d, p, f)

\* The frames that it takes to map the pages of range, with their tables.
calculate_required_frames(s, d, range) ==
  Cardinality({t \in {PDX(p) : p \in range} : get_page_table(s, d, t * NPTENTRIES) = NULL})
    + Cardinality({p \in range : get_frame_info(s, d, p) = NULL})

\* Mutant: only the first entry of the table is looked at.
MutFirstEntryOnly(s, d, t) ==
  LET h == get_page_table(s, d, t * NPTENTRIES)
  IN  IF h = NULL \/ s.contents[s.heap[h]][0] # NULL THEN s
      ELSE [kfree(s, h) EXCEPT !.page_directory[d][t] = NULL]

\* freeMem and freeSharedObject: a table without entries is removed.
RemoveIfEmpty(s, d, t) ==
  LET h == get_page_table(s, d, t * NPTENTRIES)
  IN  IF h = NULL \/ \E i \in Index : s.contents[s.heap[h]][i] # NULL THEN s
      ELSE [kfree(s, h) EXCEPT !.page_directory[d][t] = NULL]

UnmapAll(s, d, pages) ==
  FoldSet(LAMBDA p, r : unmap_frame(r, d, p), s, pages)
RemoveTables(s, d, range) ==
  FoldSet(LAMBDA t, r : RemoveIfEmpty(r, d, t), s, {PDX(p) : p \in range})

-----------------------------------------------------------------------------
(* The storage of the frames of a shared object, which takes no references *)
(* to them.                                                                *)

create_frames_storage(s) ==
  [kmalloc(s) EXCEPT !.own[Storage] = {NextHeapPage(s)},
                     !.page_directory[Storage] = [t \in Tables |-> NULL]]

add_frame_to_storage(s, f, i) == SetEntry(WithTable(s, Storage, i), Storage, i, f)

get_frame_from_storage(s, i) == get_frame_info(s, Storage, i)

RemoveStorageTable(s, t) ==
  [kfree(s, kheap_virtual_address(s, s.page_directory[Storage][t]))
     EXCEPT !.page_directory[Storage][t] = NULL]

\* Its tables, and then its directory (free_share_object).
clear_frames_storage(s) ==
  FoldSet(LAMBDA t, r : RemoveStorageTable(r, t),
          s, {t \in Tables : s.page_directory[Storage][t] # NULL})

free_share_object(s) ==
  LET c == clear_frames_storage(s)
  IN  [kfree(c, CHOOSE h \in c.own[Storage] : TRUE) EXCEPT !.own[Storage] = {}]

-----------------------------------------------------------------------------
(* The callers.  allocate_frame does not survive an empty list, so a step  *)
(* is taken only with the frames that it needs.                            *)

\* The program writes to the page of f.
Given(s, f) == [s EXCEPT !.contents[f] = [i \in Index |-> Junk]]

\* A new frame at p.
MapNew(s, e, p) ==
  LET f == PageFrame(s)
  IN  Given(map_frame(allocate_frame(s, f), e, f, p), f)

\* The step ends in s; a panic stops e and loses the frames of taken.
Leave(s, e, taken) ==
  /\ mem' = [s EXCEPT !.panic = FALSE]
  /\ status' = IF s.panic THEN [status EXCEPT ![e] = "stopped"] ELSE status
  /\ lost' = lost \cup IF s.panic THEN taken ELSE {}

Keeps == releases' = releases
Releases == releases < MaxReleases /\ releases' = releases + 1

FramesFree(n) == Cardinality(mem.free_frame_list) >= n
HeapFree(n) == Cardinality(FreeHeapPages(mem)) >= n

Mapped(e) == {p \in Pages : get_frame_info(mem, e, p) # NULL}
MappedShared(e) ==
  {p \in Mapped(e) : shares # NULL /\ get_frame_info(mem, e, p) = get_frame_from_storage(mem, 0)}

\* The kernel is not preempted: env_create runs to its end.
Loading == \E e \in Envs : status[e] = "loading"

Running(e) == status[e] = "running" /\ ~Loading

SpaceInit ==
  /\ mem = [free_frame_list |-> Frames,
             frames_info |-> [f \in Frames |-> initialize_frame_info],
             contents |-> [f \in Frames |-> [i \in Index |-> Junk]],
             heap |-> [h \in HeapPages |-> NULL],
             page_directory |-> [d \in Spaces |-> [t \in Tables |-> NULL]],
             own |-> [d \in Spaces |-> {}],
             panic |-> FALSE]
  /\ status = [e \in Envs |-> "free"] /\ ws = [e \in Envs |-> {}]
  /\ shares = NULL /\ lost = {} /\ releases = 0

\* The directory, without user tables, and the working set, which the program
\* sees at WSPage.  A heap that fills up here panics before anything is mapped:
\* left out.
initialize_environment(e) ==
  /\ status[e] = "free" /\ ~Loading /\ FramesFree(3) /\ HeapFree(3)
  /\ LET d == kmalloc(mem)
         w == kmalloc(d)
         s == map_frame(w, e, kheap_physical_address(w, NextHeapPage(d)), WSPage)
     IN  mem' = [s EXCEPT !.own[e] = {NextHeapPage(mem), NextHeapPage(d)}]
  /\ status' = [status EXCEPT ![e] = "loading"]
  /\ UNCHANGED <<ws, shares, lost>> /\ Keeps

\* env_create loads a page of the program, as far as the working set allows.
LoadPage(e, p) ==
  /\ status[e] = "loading" /\ p \notin Mapped(e) /\ FramesFree(2)
  /\ Cardinality(ws[e]) < page_WS_max_size
  /\ LET f == PageFrame(mem)
         s == loadtime_map_frame(allocate_frame(mem, f), e, f, p)
     IN  /\ Leave(Given(s, f), e, {f})
         /\ ws' = IF s.panic THEN ws ELSE [ws EXCEPT ![e] = @ \cup {p}]
  /\ UNCHANGED shares /\ Keeps

Start(e) ==
  /\ status[e] = "loading"
  /\ status' = [status EXCEPT ![e] = "running"]
  /\ UNCHANGED <<mem, ws, shares, lost>> /\ Keeps

table_fault_handler(e, p) ==
  /\ Running(e) /\ FramesFree(1)
  /\ get_page_table(mem, e, p) = NULL
  /\ Leave(create_page_table(mem, e, p), e, {})
  /\ UNCHANGED <<ws, shares>> /\ Keeps

\* A page that the page file does not have panics when it is mapped already.
Faulted(e, p, s, rest, inPageFile) ==
  /\ mem' = s
  /\ ws' = [ws EXCEPT ![e] = rest \cup IF inPageFile THEN {p} ELSE {}]
  /\ status' = IF inPageFile THEN status ELSE [status EXCEPT ![e] = "stopped"]
  /\ UNCHANGED <<shares, lost>>

\* page_fault_handler; which page is replaced is the subject of WorkingSet.
PlacePage(e, p, inPageFile) ==
  /\ Running(e) /\ get_page_table(mem, e, p) # NULL /\ p \notin Mapped(e)
  /\ Cardinality(ws[e]) < page_WS_max_size /\ FramesFree(1)
  /\ Faulted(e, p, MapNew(mem, e, p), ws[e], inPageFile) /\ Keeps

ReplacePage(e, p, victim, inPageFile) ==
  /\ Running(e) /\ get_page_table(mem, e, p) # NULL /\ p \notin Mapped(e)
  /\ Cardinality(ws[e]) = page_WS_max_size
  /\ Faulted(e, p, MapNew(unmap_frame(mem, e, victim), e, p), ws[e] \ {victim}, inPageFile)
  /\ Releases

\* The frame is taken before the arguments are checked.  It is mapped at
\* USER_LIMIT to be cleared, which leaves nothing behind.  A program's shared page
\* is not replaced: that case is left out, here and in the next action.
__sys_allocate_page(e, p, valid) ==
  /\ Running(e) /\ FramesFree(2) /\ p \notin MappedShared(e)
  /\ IF valid THEN Leave(MapNew(mem, e, p), e, {PageFrame(mem)})
     ELSE /\ Cardinality(lost) < MaxLost
          /\ mem' = allocate_frame(mem, PageFrame(mem)) /\ lost' = lost \cup {PageFrame(mem)}
          /\ UNCHANGED status
  /\ UNCHANGED <<ws, shares>>
  /\ IF p \in Mapped(e) THEN Releases ELSE Keeps

\* At the prompt, for any environment that has a directory.  A panic there ends
\* no program.
command_allocuserpage(e, p) ==
  /\ status[e] \in {"running", "stopped"} /\ ~Loading /\ FramesFree(2) /\ p \notin MappedShared(e)
  /\ LET s == MapNew(mem, e, p)
     IN  /\ mem' = [s EXCEPT !.panic = FALSE]
         /\ lost' = lost \cup IF s.panic THEN {PageFrame(mem)} ELSE {}
  /\ UNCHANGED <<status, ws, shares>>
  /\ IF p \in Mapped(e) THEN Releases ELSE Keeps

\* An object of one page.  A heap that fills up here panics: left out.
createSharedObject(e, p) ==
  /\ Running(e) /\ shares = NULL /\ p \notin Mapped(e)
  /\ FramesFree(4) /\ HeapFree(3)
  /\ LET s == create_frames_storage(mem)
     IN  mem' = add_frame_to_storage(MapNew(s, e, p), PageFrame(s), 0)
  /\ shares' = 1
  /\ UNCHANGED <<status, ws, lost>> /\ Keeps

\* Mutant: the object does not count its users.
MutUsersNotCounted(e, p) ==
  /\ Running(e) /\ shares # NULL /\ p \notin Mapped(e) /\ FramesFree(1)
  /\ Leave(map_frame(mem, e, get_frame_from_storage(mem, 0), p), e, {})
  /\ UNCHANGED <<ws, shares>> /\ Keeps

getSharedObject(e, p) ==
  /\ Running(e) /\ shares # NULL /\ p \notin Mapped(e) /\ FramesFree(1)
  /\ LET s == map_frame(mem, e, get_frame_from_storage(mem, 0), p)
     IN  Leave(s, e, {}) /\ shares' = IF s.panic THEN shares ELSE shares + 1
  /\ UNCHANGED ws /\ Keeps

freeSharedObject(e, p) ==
  /\ Running(e) /\ p \in MappedShared(e)
  /\ LET s == RemoveTables(unmap_frame(mem, e, p), e, {p})
     IN  mem' = IF shares = 1 THEN free_share_object(s) ELSE s
  /\ shares' = IF shares = 1 THEN NULL ELSE shares - 1
  /\ UNCHANGED <<status, ws, lost>> /\ Releases

\* Unmaps the pages of the working set in the range.
freeMem(e, range) ==
  /\ Running(e)
  /\ mem' = RemoveTables(UnmapAll(mem, e, ws[e] \cap range), e, range)
  /\ ws' = [ws EXCEPT ![e] = @ \ range]
  /\ UNCHANGED <<status, shares, lost>> /\ Releases

\* __remove_pws_user_pages, after which env_free panics.
env_free(e) ==
  /\ status[e] \in {"running", "stopped"} /\ ~Loading /\ get_page_table(mem, e, WSPage) # NULL
  /\ LET s == unmap_frame(mem, e, WSPage)
     IN  mem' = [kfree(s, get_page_table(s, e, WSPage))
                   EXCEPT !.page_directory[e][PDX(WSPage)] = NULL]
  /\ status' = [status EXCEPT ![e] = "stopped"]
  /\ UNCHANGED <<ws, shares, lost>> /\ Releases

Ranges == {range \in SUBSET Pages : \E first, last \in range : range = first..last}

SpaceNext ==
  \E e \in Envs :
    \/ initialize_environment(e) \/ Start(e) \/ env_free(e)
    \/ \E range \in Ranges : freeMem(e, range)
    \/ \E p \in Pages :
         \/ LoadPage(e, p) \/ table_fault_handler(e, p) \/ command_allocuserpage(e, p)
         \/ createSharedObject(e, p) \/ getSharedObject(e, p) \/ freeSharedObject(e, p)
         \/ \E b \in BOOLEAN : PlacePage(e, p, b) \/ __sys_allocate_page(e, p, b)
         \/ \E victim \in ws[e], b \in BOOLEAN : ReplacePage(e, p, victim, b)

SpaceSpec == SpaceInit /\ [][SpaceNext]_spaceVars

-----------------------------------------------------------------------------
(* Properties.                                                             *)

\* The types of the variables; no reference is given back twice.
SpaceTypeOK ==
  /\ mem \in [free_frame_list : SUBSET Frames,
              frames_info : [Frames -> [references : Nat,
                                        va : HeapPages \cup Pages \cup {WSPage, NULL}]],
              contents : [Frames -> [Index -> Frames \cup {Junk, NULL}]],
              heap : [HeapPages -> Frames \cup {NULL}],
              page_directory : [Spaces -> [Tables -> Frames \cup {NULL}]],
              own : [Spaces -> SUBSET HeapPages], panic : {FALSE}]
  /\ status \in [Envs -> {"free", "loading", "running", "stopped"}]
  /\ ws \in [Envs -> SUBSET Pages]
  /\ shares \in Nat \cup {NULL} /\ lost \subseteq Frames /\ releases \in 0..MaxReleases

TableFrame(k) == mem.page_directory[k[1]][k[2]]
TablesInUse == {k \in Spaces \X Tables : TableFrame(k) # NULL}
Mappings(f) == {k \in Envs \X (Pages \cup {WSPage}) : get_frame_info(mem, k[1], k[2]) = f}

(***************************************************************************)
(* The kernel finds every page table: the frame that a directory names is  *)
(* a page of the heap, at the address that frames_info has for it, and the *)
(* table of one directory only.                                            *)
(***************************************************************************)
TablesFound ==
  \A k \in TablesInUse :
    LET va == mem.frames_info[TableFrame(k)].va
    IN  /\ va \in HeapPages /\ mem.heap[va] = TableFrame(k)
        /\ \A j \in TablesInUse : j # k => TableFrame(j) # TableFrame(k)

(***************************************************************************)
(* The references of a frame are the page table entries that map it, those *)
(* of the kernel heap included; a frame without any is free, unless a      *)
(* system call lost it.  So what one program unmaps stays as long as       *)
(* another has it, and no longer.                                          *)
(***************************************************************************)
ReferencesExact ==
  \A f \in Frames :
    LET references == Cardinality(Mappings(f)) + Cardinality({h \in HeapPages : mem.heap[h] = f})
    IN  /\ mem.frames_info[f].references = references
        /\ references = 0 <=> f \in mem.free_frame_list \cup lost
        /\ f \notin mem.free_frame_list \cap lost

(***************************************************************************)
(* No table is used with what its frame held before: every entry is empty  *)
(* or was made by a map_frame for this table.                              *)
(***************************************************************************)
TablesClean ==
  \A k \in TablesInUse, i \in Index : mem.contents[TableFrame(k)][i] # Junk

(***************************************************************************)
(* No page of a program is a frame of the kernel's heap, where its         *)
(* directories and tables are, and two programs have a frame in common     *)
(* only when it is the shared object's.                                    *)
(***************************************************************************)
FramesPrivate ==
  \A e \in Envs : \A p \in Mapped(e) :
    LET f == get_frame_info(mem, e, p)
    IN  /\ \A h \in HeapPages : mem.heap[h] # f
        /\ \A g \in Envs : \A q \in Mapped(g) :
             <<g, q>> # <<e, p>> /\ get_frame_info(mem, g, q) = f =>
               shares # NULL /\ f = get_frame_from_storage(mem, 0)

\* What the runs check: types, references and tables agree at every step,
MemoryAccounted == SpaceTypeOK /\ ReferencesExact /\ TablesFound

\* and nobody sees what is another's.
ProgramsApart == FramesPrivate /\ TablesClean

\* s with every page of range mapped in e.
AllMapped(s, e, range) ==
  FoldSet(LAMBDA p, r : IF get_frame_info(r, e, p) = NULL THEN MapNew(r, e, p) ELSE r, s, range)

(***************************************************************************)
(* calculate_required_frames says how many frames it takes to map a range, *)
(* with the tables that this creates, whatever is mapped already: "we are  *)
(* interested in knowing whether they are allocated or not".               *)
(***************************************************************************)
RequiredFramesExact ==
  \A e \in Envs, range \in Ranges :
    LET n == calculate_required_frames(mem, e, range)
    IN  status[e] = "running" /\ FramesFree(2 * Cardinality(range))
          /\ HeapFree(Cardinality(range)) =>
            Cardinality(AllMapped(mem, e, range).free_frame_list)
              = Cardinality(mem.free_frame_list) - n
=============================================================================
