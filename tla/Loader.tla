------------------------------- MODULE Loader -------------------------------
(***************************************************************************)
(* How an environment comes to be: its entry of the array envs and its id, *)
(* and env_create (kern/user_environment.c), which copies the segments of  *)
(* a program into memory, as far as the working set goes, and all of them  *)
(* into the page file (kern/file_manager.c).                               *)
(*                                                                         *)
(* Memory is modelled byte by byte, with small pages.  A byte of a         *)
(* program is known by its place in the kernel image; Zero is a byte that  *)
(* was cleared and JunkByte one that nobody initialised.                   *)
(***************************************************************************)
EXTENDS Integers, FiniteSets, Sequences, SequencesExt, Bitwise

CONSTANTS NENV,            \* entries of envs
          ENVGENSHIFT,
          MaxLoads,        \* bound: entries of envs that are used
          PAGE_SIZE, NPTENTRIES,
          PAGES_PER_FILE,  \* disk frames, the first of which is not used
          TWS_MAX_SIZE,    \* __TWS_MAX_SIZE, entries of the table working set
          StabPage,        \* the page at 0x200000
          StabPages,       \* pages of a segment there that are loaded, at most
          StackPage,       \* the page below USTACKTOP
          userPrograms,    \* the programs linked into the kernel
          Sizes,           \* working set sizes that are asked for
          NULL

Zero == 0
JunkByte == -1

(***************************************************************************)
(* A program is a sequence of segments and whether it is "tpp".  The       *)
(* linker (user/user.ld) lets no two segments share a page, and the        *)
(* segment that does not start a page goes on beyond it: it holds the      *)
(* library.                                                                *)
(***************************************************************************)
Segment == [va: Nat, size_in_file: Nat, size_in_memory: Nat, ptr_start: Nat]

RoundDown(a) == a - (a % PAGE_SIZE)
RoundUp(a) == RoundDown(a + PAGE_SIZE - 1)
PageOf(a) == a \div PAGE_SIZE
TableOf(q) == q \div NPTENTRIES

SegmentPages(seg) == PageOf(seg.va)..PageOf(seg.va + seg.size_in_memory - 1)

LinkedRight(segments) ==
  /\ \A i \in 1..Len(segments) :
       LET seg == segments[i]
       IN  /\ seg \in Segment
           /\ seg.size_in_file <= seg.size_in_memory /\ seg.size_in_memory > 0
           /\ seg.ptr_start > 0
           /\ seg.va % PAGE_SIZE = 0 \/ seg.va + seg.size_in_file >= RoundUp(seg.va)
           /\ \A q \in SegmentPages(seg) : q < StackPage
  /\ \A i, j \in 1..Len(segments) :
       i < j => \A q \in SegmentPages(segments[i]), r \in SegmentPages(segments[j]) : q < r

LoaderAssumption ==
  /\ MaxLoads <= NENV /\ NENV < 2^ENVGENSHIFT
  /\ Sizes \subseteq Nat \ {0}
  /\ StabPages > 0
  /\ \A p \in userPrograms : LinkedRight(p.segments)

VARIABLES envs,                  \* the entries 0..MaxLoads - 1 of the array
          env_free_list,         \* its first element; the others follow it
          curenv,                \* the running environment, or NULL
          cr3,                   \* whose page directory is in use, NULL for the kernel's
          disk_free_frame_list,
          disk,                  \* what each disk frame holds
          load                   \* what env_create is at, or NULL

vars == <<envs, env_free_list, curenv, cr3, disk_free_frame_list, disk, load>>

-----------------------------------------------------------------------------
(* The array of environments.                                              *)

EnvIndex == 0..MaxLoads - 1

FreeEnv == [env_id |-> 0, env_status |-> "ENV_FREE", env_parent_id |-> 0,
            program |-> NULL, page_WS_max_size |-> 0,
            ws |-> <<>>, page_last_WS_index |-> 0,  \* pages in order of entry
            tws |-> <<>>,                           \* tables likewise
            memory |-> <<>>,                        \* mapped page -> contents
            modified |-> {},
            directory |-> {},                       \* the tables of these pages
            page_file |-> <<>>]                     \* page -> disk frame

Ready == {e \in EnvIndex : envs[e].env_status = "ENV_READY"}

ENVX(envid) == envid & (NENV - 1)

\* The environment with an id, NULL for E_BAD_ENV.  All callers pass 0 for
\* checkperm.
envid2env(envid) ==
  IF envid = 0 THEN curenv
  ELSE IF ENVX(envid) >= env_free_list THEN NULL
  ELSE IF envs[ENVX(envid)].env_id = envid THEN ENVX(envid) ELSE NULL

\* A new id for entry e: a generation, that of the entry's last id plus one,
\* above the index.  No entry is used twice, since env_free panics.
NewId(e) ==
  LET next == envs[e].env_id + 2^ENVGENSHIFT
      generation == next - (next & (NENV - 1))
  IN  generation | e

-----------------------------------------------------------------------------
(* The page file.  A state of it is a record of the environment's pages    *)
(* there, the free frames, their contents and whether a frame was missing. *)

\* pf_add_env_page, with get_disk_page_table and allocate_disk_frame.
pf_add_env_page(s, w) ==
  LET known == w.page \in DOMAIN s.pages
      dfn == IF known THEN s.pages[w.page]
             ELSE IF s.free = <<>> THEN 0 ELSE Head(s.free)
  IN  IF dfn = 0 THEN [s EXCEPT !.full = TRUE]
      ELSE [s EXCEPT !.pages = [q \in DOMAIN s.pages \cup {w.page} |->
                                  IF q = w.page THEN dfn ELSE s.pages[q]],
                     !.free = IF known THEN s.free ELSE Tail(s.free),
                     !.disk[dfn] = w.contents]

\* The caller panics at the first write that finds no frame.
WriteAll(s, writes) ==
  FoldLeft(LAMBDA t, w : IF t.full THEN t ELSE pf_add_env_page(t, w), s, writes)

PageFileOf(e) == [pages |-> envs[e].page_file, free |-> disk_free_frame_list,
                  disk |-> disk, full |-> FALSE]

Offset == 0..PAGE_SIZE - 1

\* initialize_paging clears 1024 of the 4096 bytes of the page.
ptr_zero_page == [o \in Offset |-> IF o < PAGE_SIZE \div 4 THEN Zero ELSE JunkByte]

-----------------------------------------------------------------------------
(* A segment.                                                              *)

\* The byte of the program that belongs at address a of the segment.
FileByte(seg, a) == seg.ptr_start + (a - seg.va)

\* The number of pages of the segment that are loaded into memory.
AllocatedPages(seg, remaining, isTpp) ==
  LET limit == IF PageOf(seg.va) = StabPage /\ ~isTpp /\ StabPages < remaining
               THEN StabPages ELSE remaining
      n == Cardinality(SegmentPages(seg))
  IN  IF n <= limit THEN n ELSE limit

\* A page of it in memory: the frame's old contents in front of the segment,
\* then the file's bytes, then zeros.
LoadedPage(seg, q) ==
  [o \in Offset |->
     LET a == q * PAGE_SIZE + o
     IN  CASE a < seg.va -> JunkByte
           [] a >= seg.va /\ a < seg.va + seg.size_in_file -> FileByte(seg, a)
           [] a >= seg.va + seg.size_in_file -> Zero]

\* The page that the file's part ends in, or the one after it when it ends with
\* a page, copied from source on.
LastPage(seg, source) ==
  LET end_last_page == seg.va + seg.size_in_file
      start == RoundDown(end_last_page)
  IN  [page |-> PageOf(start),
       contents |-> [o \in Offset |-> IF start + o < end_last_page
                                      THEN source + o ELSE Zero]]

\* The first page holds the bytes up to its end, none when the segment starts
\* with the page: the page is then written a second time.
FirstPage(seg) ==
  [page |-> PageOf(seg.va),
   contents |-> [o \in Offset |->
                   IF seg.va % PAGE_SIZE # 0 /\ o >= seg.va % PAGE_SIZE
                   THEN FileByte(seg, RoundDown(seg.va) + o) ELSE Zero]]

\* The pages between these two.
WholePages(seg) ==
  LET first == PageOf(RoundUp(seg.va))
      last == PageOf(seg.va + seg.size_in_file)
  IN  [i \in 1..(IF first < last THEN last - first ELSE 0) |->
         [page |-> first + i - 1,
          contents |-> [o \in Offset |-> FileByte(seg, (first + i - 1) * PAGE_SIZE + o)]]]

\* The pages behind the file's part, written from the zero page.
EmptyPages(seg) ==
  LET start_remaining == RoundUp(seg.va + seg.size_in_file)
      remainingLength == seg.va + seg.size_in_memory - start_remaining
  IN  [i \in 1..RoundUp(remainingLength) \div PAGE_SIZE |->
         [page |-> PageOf(start_remaining) + i - 1, contents |-> ptr_zero_page]]

\* What env_create writes of a segment into the page file, in its order.
Writes(seg) ==
  LET source == FileByte(seg, RoundUp(seg.va)) + Len(WholePages(seg)) * PAGE_SIZE
  IN  <<FirstPage(seg)>> \o WholePages(seg) \o <<LastPage(seg, source)>> \o EmptyPages(seg)

-----------------------------------------------------------------------------
(* env_create.                                                             *)

\* An entry is left; it stays on the list until it has an id.
allocate_environment == env_free_list < MaxLoads

\* An empty working set and a page directory without pages of the program.  The
\* kernel heap, which they come from, is taken to be large enough.
initialize_environment(p, size) == [FreeEnv EXCEPT !.program = p, !.page_WS_max_size = size]

\* The id, and as parent the environment that runs, if one does.
complete_environment_initialization(env, e) ==
  [env EXCEPT !.env_id = NewId(e),
              !.env_parent_id = IF curenv = NULL THEN 0 ELSE envs[curenv].env_id,
              !.env_status = "loading"]

\* The part of env_create before it loads the program.
env_create(p, size) ==
  /\ load = NULL
  /\ allocate_environment
  /\ envs' = [envs EXCEPT ![env_free_list] =
                complete_environment_initialization(initialize_environment(p, size),
                                                    env_free_list)]
  /\ env_free_list' = env_free_list + 1
  /\ load' = [env |-> env_free_list, segments |-> p.segments, remaining |-> size - 1,
              lastTable |-> NULL, kern_phys_pgdir |-> cr3, panic |-> FALSE]
  /\ cr3' = env_free_list
  /\ UNCHANGED <<curenv, disk_free_frame_list, disk>>

\* The entry of the working set behind n more.
NextEntry(env, n) == (env.page_last_WS_index + n) % env.page_WS_max_size

\* The tables of the loaded pages q..r that come after the table last.
NewTables(q, r, last) ==
  LET tables == [i \in 1..TableOf(r) - TableOf(q) + 1 |-> TableOf(q) + i - 1]
  IN  IF q > r THEN <<>> ELSE SelectSeq(tables, LAMBDA t : t # last)

\* program_segment_alloc_map_copy_workingset and what follows it in env_create's
\* loop.  The table working set and the page file may be too small.
LoadSegment ==
  /\ load # NULL /\ load.segments # <<>>
  /\ LET seg == Head(load.segments)
         e == envs[load.env]
         first == PageOf(seg.va)
         n == AllocatedPages(seg, load.remaining, e.program.isTpp)
         loaded == first..first + n - 1
         tables == NewTables(first, first + n - 1, load.lastTable)
         tableSetFull == Len(e.tws) + Len(tables) >= TWS_MAX_SIZE
         after == IF tableSetFull THEN [PageFileOf(load.env) EXCEPT !.full = TRUE]
                  ELSE WriteAll(PageFileOf(load.env), Writes(seg))
         filled ==
           [e EXCEPT !.env_status = IF after.full THEN "lost" ELSE @,
                     !.ws = @ \o [i \in 1..n |-> first + i - 1],
                     !.page_last_WS_index = NextEntry(e, n),
                     !.tws = @ \o tables,
                     !.memory = [q \in DOMAIN @ \cup loaded |->
                                   IF q \in loaded THEN LoadedPage(seg, q) ELSE @[q]],
                     !.modified = @ \cup loaded,
                     !.directory = @ \cup {TableOf(q) : q \in loaded},
                     !.page_file = after.pages]
     IN  /\ envs' = [envs EXCEPT ![load.env] = filled]
         /\ disk' = after.disk
         /\ disk_free_frame_list' = after.free
         /\ load' = [load EXCEPT !.segments = IF after.full THEN <<>> ELSE Tail(@),
                                 !.panic = after.full,
                                 !.remaining = @ - n,
                                 !.lastTable = IF n = 0 THEN @ ELSE TableOf(first + n - 1)]
         /\ UNCHANGED <<env_free_list, curenv, cr3>>

\* Mutant: the page directory of the new environment stays in use.
MutDirectoryStays == UNCHANGED cr3

\* env_create is back in the page directory it was called in.
SwitchBack == cr3' = load.kern_phys_pgdir

\* The last part: PERM_MODIFIED is cleared, the stack gets its first page, and
\* the environment goes to the scheduler.  Nobody looks whether the page file had
\* a frame for the stack.
FinishLoad ==
  /\ load # NULL /\ load.segments = <<>> /\ ~load.panic
  /\ LET e == envs[load.env]
         after == pf_add_env_page(PageFileOf(load.env),
                                  [page |-> StackPage, contents |-> ptr_zero_page])
     IN  /\ envs' = [envs EXCEPT ![load.env] =
                       [e EXCEPT !.env_status = "ENV_NEW",
                                 !.ws = Append(@, StackPage),
                                 !.page_last_WS_index = NextEntry(e, 1),
                                 !.memory = [q \in DOMAIN @ \cup {StackPage} |->
                                               IF q = StackPage THEN [o \in Offset |-> Zero]
                                               ELSE @[q]],
                                 !.modified = {StackPage},
                                 !.directory = @ \cup {TableOf(StackPage)},
                                 !.page_file = after.pages]]
         /\ disk' = after.disk
         /\ disk_free_frame_list' = after.free
  /\ SwitchBack
  /\ load' = NULL
  /\ UNCHANGED <<env_free_list, curenv>>

\* The environment e runs, or the prompt when e is NULL.  env_run loads cr3 only
\* for another environment than the one that ran last; the scheduler loads the
\* kernel's page directory before it goes to the prompt.
Run(e) ==
  /\ curenv' = e
  /\ cr3' = IF e # curenv \/ e = NULL THEN e ELSE cr3

\* The running environment ends, and the scheduler goes on.
Exit(status) ==
  /\ envs' = [i \in EnvIndex |-> IF i = curenv THEN [envs[i] EXCEPT !.env_status = status]
                                 ELSE envs[i]]
  /\ \E e \in (IF Ready = {curenv} \/ curenv = NULL THEN {NULL} ELSE Ready \ {curenv}) : Run(e)

\* panic in env_create ends its caller, if there is one.  The new environment is
\* in no list any more, and its page directory is in use until the scheduler
\* loads another.
LoadFails ==
  /\ load # NULL /\ load.panic
  /\ Exit("ENV_EXIT")
  /\ load' = NULL
  /\ UNCHANGED <<env_free_list, disk_free_frame_list, disk>>

-----------------------------------------------------------------------------
(* What happens in between.                                                *)

\* The environment becomes ready, and runs at once when none does.
sched_run_env(e) ==
  /\ load = NULL
  /\ envs[e].env_status = "ENV_NEW"
  /\ envs' = [envs EXCEPT ![e].env_status = "ENV_READY"]
  /\ IF curenv = NULL THEN Run(e) ELSE UNCHANGED <<curenv, cr3>>
  /\ UNCHANGED <<env_free_list, disk_free_frame_list, disk, load>>

clock_interrupt_handler ==
  /\ load = NULL /\ curenv # NULL
  /\ \E e \in Ready : Run(e)
  /\ UNCHANGED <<envs, env_free_list, disk_free_frame_list, disk, load>>

env_exit ==
  /\ load = NULL /\ curenv # NULL
  /\ Exit("ENV_EXIT")
  /\ UNCHANGED <<env_free_list, disk_free_frame_list, disk, load>>

\* env_init and initialize_disk_page_file: both lists are filled at their heads,
\* the second from frame 1 on.
Init ==
  /\ envs = [e \in EnvIndex |-> FreeEnv]
  /\ env_free_list = 0
  /\ curenv = NULL /\ cr3 = NULL /\ load = NULL
  /\ disk_free_frame_list = [i \in 1..PAGES_PER_FILE - 1 |-> PAGES_PER_FILE - i]
  /\ disk = [dfn \in 1..PAGES_PER_FILE - 1 |-> [o \in Offset |-> JunkByte]]

Next == \/ \E p \in userPrograms, size \in Sizes : env_create(p, size)
        \/ LoadSegment
        \/ FinishLoad
        \/ LoadFails
        \/ \E e \in EnvIndex : sched_run_env(e)
        \/ clock_interrupt_handler
        \/ env_exit

Spec == Init /\ [][Next]_vars

-----------------------------------------------------------------------------
(* Properties.                                                             *)

\* The entries of envs, the lists and the load in progress hold values of their
\* types.
TypeOK ==
  /\ \A e \in EnvIndex :
       /\ envs[e].env_status \in {"ENV_FREE", "loading", "lost", "ENV_NEW", "ENV_READY",
                                  "ENV_EXIT"}
       /\ e < env_free_list => envs[e].page_last_WS_index \in 0..envs[e].page_WS_max_size - 1
       /\ \A q \in DOMAIN envs[e].page_file : envs[e].page_file[q] \in DOMAIN disk
  /\ env_free_list \in 0..MaxLoads
  /\ curenv \in EnvIndex \cup {NULL} /\ cr3 \in EnvIndex \cup {NULL}
  /\ load # NULL => load.env \in EnvIndex /\ load.remaining \in Nat

Loaded == {e \in EnvIndex : envs[e].env_status \in {"ENV_NEW", "ENV_READY", "ENV_EXIT"}}

Segments(e) == Range(envs[e].program.segments)

\* What the program expects at address a of its segment.
Expected(seg, a) == IF a < seg.va + seg.size_in_file THEN FileByte(seg, a) ELSE Zero

OnDisk(e, a) == disk[envs[e].page_file[PageOf(a)]][a % PAGE_SIZE]

\* A byte that comes from the zero page, of which only a part is zero, although
\* it is "used by program loader to initialize extra segment zero memory (bss
\* section) it to zero" (kern/memory_manager.c).
FromZeroPage(seg, a) ==
  /\ RoundDown(a) >= seg.va + seg.size_in_file
  /\ ptr_zero_page[a % PAGE_SIZE] = JunkByte

(***************************************************************************)
(* A program that was loaded starts as the linker made it.  Every page of  *)
(* it is in the page file and holds the file's bytes and zeros behind      *)
(* them, and so do those that also fitted into the working set, so that    *)
(* they may be dropped unsaved: wherever segments begin and end in their   *)
(* pages, and however many pages were loaded.                              *)
(***************************************************************************)
ProgramLoaded ==
  \A e \in Loaded : \A seg \in Segments(e) :
    \A a \in seg.va..seg.va + seg.size_in_memory - 1 :
      /\ PageOf(a) \in DOMAIN envs[e].page_file
      /\ OnDisk(e, a) = Expected(seg, a) \/ FromZeroPage(seg, a)
      /\ PageOf(a) \in DOMAIN envs[e].memory =>
           envs[e].memory[PageOf(a)][a % PAGE_SIZE] = Expected(seg, a)

(***************************************************************************)
(* Each frame of the page file is free or holds one page of one            *)
(* environment, those that were lost while they were loaded included.      *)
(***************************************************************************)
DiskFramesAccounted ==
  LET Uses(dfn) == {<<e, q>> \in EnvIndex \X (0..StackPage) :
                      q \in DOMAIN envs[e].page_file /\ envs[e].page_file[q] = dfn}
      free == Range(disk_free_frame_list)
  IN  /\ Len(disk_free_frame_list) = Cardinality(free)
      /\ \A dfn \in DOMAIN disk : Cardinality(Uses(dfn)) = IF dfn \in free THEN 0 ELSE 1

(***************************************************************************)
(* A new environment has no more pages than its working set allows, one    *)
(* entry for each mapped page, the stack's in the last; the next entry to  *)
(* be used is the one behind them, and every mapped page has its table.    *)
(* Only the stack's page counts as modified.                               *)
(***************************************************************************)
WorkingSetLoaded ==
  \A e \in Loaded :
    LET env == envs[e]
    IN  /\ Len(env.ws) <= env.page_WS_max_size
        /\ Range(env.ws) = DOMAIN env.memory /\ Cardinality(Range(env.ws)) = Len(env.ws)
        /\ Last(env.ws) = StackPage
        /\ env.page_last_WS_index = Len(env.ws) % env.page_WS_max_size
        /\ env.directory = {TableOf(q) : q \in DOMAIN env.memory}
        /\ Range(env.tws) = {TableOf(q) : q \in DOMAIN env.memory \ {StackPage}}
        /\ Cardinality(Range(env.tws)) = Len(env.tws)
        /\ env.modified = {StackPage}

(***************************************************************************)
(* Outside env_create the environment that runs uses its own page          *)
(* directory and the prompt the kernel's, also after a load that panicked  *)
(* in another one: env_run sets cr3 only when the environment changes.     *)
(***************************************************************************)
RunsInOwnSpace == load = NULL => cr3 = curenv

(***************************************************************************)
(* envid2env finds the environment that has the id or none, although ENVX  *)
(* maps the ids of several environments to one entry.  (It need not find   *)
(* it: NENV is no power of two, so that ENVX of an id is not always "the   *)
(* environment's offset in the 'envs[]' array",                            *)
(* inc/environment_definitions.h.)                                         *)
(***************************************************************************)
NeverAnother ==
  \A e \in EnvIndex : envs[e].env_id # 0 => envid2env(envs[e].env_id) \in {e, NULL}
=============================================================================
