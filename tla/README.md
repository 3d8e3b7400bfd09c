# Verification of the FOS kernel

This directory holds TLA+ models of the FOS teaching kernel in
`FOS_Project_2017_Template/` (C, one x86 processor), the TLC configurations that
check them on small instances, and TLAPS proofs about them.  Paths below are
relative to that directory; `kern/` is the kernel that is built, `Kern/` is an
older copy of it that no makefile uses.

Run one check with `tlc -config X.cfg M`, and the proofs of a module with
`tlapm M.tla`, M being one of the eight modules named `*Proofs`.

## 1. Inventory

### How the kernel runs

The kernel is entered by system calls, page faults and clock ticks
(`kern/trap.c`).  All of them go through interrupt gates and `trap()` stops the
clock, so **kernel code is never preempted**: the actors are user environments,
interleaved with each other and with the clock at the boundaries of system
calls.  Three things break the usual "call, then return" picture, and most of
the hard behaviour comes from them:

* `fos_scheduler()` never returns.  It resumes an environment with `env_run`, or
  enters the command prompt.  Code after a call of it is dead when it is reached.
* `panic` is not fatal.  It calls `env_exit()` for the running environment, or
  the scheduler when there is none (`kern/init.c`, `_panic`).
* A page fault taken *in the kernel* is served, and then `trap()` resumes the
  saved user context of `curenv`.  The system call that faulted is abandoned
  where it stood (`kern/trap.c:293-295`).

### Components

| component | state | operations | interacts with | hard behaviour | what makes it correct |
|---|---|---|---|---|---|
| scheduler (`kern/sched.c`, `inc/queue.h`) | ready, new and exit queues, `sched_next`, `curenv`, `scheduler_status`, `env_status` | insert, remove, run, run all, exit, kill, kill all, tick | everything that blocks, wakes, creates or ends an environment | one pair of links for all queues; `sched_next` must survive every removal | an environment is in the queue its status names and no other; `sched_next` valid; round robin; no starvation |
| environments (`kern/user_environment.c`) | `envs`, `env_free_list`, saved registers | create, exit, free | scheduler, paging, page file | partial failure of `env_create`; `env_free` panics | a struct is never in two lists |
| semaphores (`kern/semaphore_manager.c`) | array `semaphores`: value, owner, name, queue | create, wait, signal, get value | scheduler queues; user memory for the name | several environments, several semaphores, abandoned calls, full array | value and queue agree; blocked means in exactly one queue; released in order |
| kernel heap (`kern/kheap.c`) | free list, taken list, `last_va_in_kheap`, strategy | `kmalloc` (3 strategies), `kfree` | frames; every kernel array | coalescing, strategy switched at run time, wrap of the address | live blocks disjoint; free list exact; fails only when nothing fits |
| paging and working set (`kern/trap.c`, `kern/memory_manager.c`) | page tables, frames, working set, `page_last_WS_index` | page fault, `allocateMem`, `freeMem` | page file, user heap | eviction of modified pages; holes left in the ring by `free` | no store is lost; only invalid accesses kill; FIFO |
| page file (`kern/file_manager.c`) | page directory of each environment, disk frames | add, update, read, remove page | paging | the disk can be full | contents preserved |
| traps and system calls (`kern/trap.c`, `kern/syscall.c`) | interrupt flag of each environment | dispatch | all | see above | returns only to a ready `curenv` |
| shared memory (`kern/shared_memory_manager.c`) | array `shares`: name, owner, size, references, frames | create, get, free | user heap, frames | reference counts; `smalloc` and `sget` are several system calls | frames live as long as somebody maps them |
| user heap (`lib/uheap.c`) | block lists of each program | `malloc`, `free`, `smalloc`, `sget`, `sfree` | shared memory, paging | `sget` decides on what it asked one call earlier | disjoint blocks; objects mapped inside their own block |
| command prompt (`kern/command_prompt.c`) | the line, cursor and history of its editor | edit a line; load, run, kill, strategies, heap tests | console, scheduler, heap | runs in the place of an environment; each key changes line and screen separately | reached only when idle; the line is the one on the screen |
| console (`kern/console.c`) | modifiers, ring of typed characters, text screen | keyboard and serial input, output | prompt, programs that read | characters wait while modifiers and readers change; the driver edits the screen itself | what is typed is read, in order |
| user library (`lib/`) | none | strings, `readline`, system call stubs | everything | overlap, exact limits | routines agree with their definitions |
| test programs (`kern/test_kheap.c`, `user/tst_*.c`) | | sequences of calls with what they expect | heaps, paging | exact addresses and counts | they pass; that of next fit does not (section 3) |
| applications (`user/tst_air*.c`, `MidTermEx_*.c`, `arrayOperations_*.c`, sorting programs) | shared memory, semaphores | | kernel semaphores | preemption between any two accesses to memory | results right; everyone ends |
| boot of the kernel (`kern/init.c`, `kern/memory_manager.c`, `kern/helpers.c`) | `ptr_free_mem`, the kernel's page directory, `free_frame_list` | size the memory, allocate, map, turn paging on, list the free frames | everything after it | the mapping that runs the code changes under it; size computed in 32 bits | kernel mapped at every step; no frame in use is free |
| loader (`kern/user_environment.c`, `env_create`) | `envs`, ids, the segments of a program | create, look up by id | paging, page file, kernel heap | segments that begin and end inside pages; the page file fills up halfway | what is loaded is what the linker made |
| address spaces (`kern/memory_manager.c`) | page directories and tables, `frames_info` | map, unmap, create and remove tables, storage of shared frames | kernel heap, faults, `freeMem`, sharing, the prompt | tables are pages of the heap, found by a field of their frame; references from several programs | references are the mappings; tables found and clean |
| boot loader, timer, interrupt controller, debugging, examples | | | | | not modelled (section 6) |

The hazards, each at its line with the property that covers it, are the list
`hazards` in `PROJECT.json`.

## 2. Modules and their correspondence with the code

| module | models | uses |
|---|---|---|
| `Sched` | scheduler, environment life cycle as the scheduler sees it, traps | |
| `SchedProofs` | proofs about `Sched` | `Sched`, `ListProofs` |
| `ListProofs` | lemmas about lists (insertion, removal, reversal) and block lists (sorted insertion, coalescing, cutting) | `BlockLists` |
| `FifoSemaphores` | abstract: what semaphores promise the programs | |
| `Semaphores` | semaphores on top of the scheduler; implements `FifoSemaphores` | `Sched`, instance of `FifoSemaphores` |
| `SemProofs` | proofs about `Semaphores`, and that it implements `FifoSemaphores` | `Semaphores`, `SchedProofs` |
| `SemTest` | the two programs of the second semaphore test, run by the kernel | `Semaphores` |
| `SemTestProofs` | proofs about `SemTest` | `SemTest`, `SemProofs` |
| `PageAllocator` | abstract: what a heap promises its callers | |
| `BlockLists` | the block list algorithms both heaps are built from | |
| `KHeap` | kernel heap; implements `PageAllocator` | `BlockLists`, instance of `PageAllocator` |
| `KHeapProofs` | proofs about `KHeap`, that it implements `PageAllocator`, and about `KHeapFrames` | `KHeapFrames`, `ListProofs` |
| `KHeapFrames` | the frames behind the kernel heap and the address translations | `KHeap` |
| `KernelTests` | the kernel heap's own tests, replayed | `KHeapFrames` |
| `SharedMemory` | shared objects, their frames, and the heaps of the programs | `BlockLists` |
| `SharedMemoryProofs` | proofs about `SharedMemory` | `SharedMemory`, `ListProofs` |
| `WorkingSet` | demand paging of one environment with its page file and page tables | |
| `WorkingSetProofs` | proofs about `WorkingSet` | `WorkingSet` |
| `UserTests` | the programs that test heap, placement and replacement, replayed | `WorkingSet`, instance of `BlockLists` |
| `Loader` | `env_create` byte by byte, environment ids, the page file while loading | |
| `Boot` | `FOS_initialize` up to the prompt, as far as it concerns memory | |
| `AddressSpace` | page tables, references of frames, and all who map and unmap | |
| `AddressSpaceProofs` | proofs about `AddressSpace` | `AddressSpace` |
| `KernelMemory` | one machine on which the kernel boots, or programs are loaded, or a program uses its address space | instances of `Boot`, `Loader`, `AddressSpace` |
| `Console` | keyboard driver, ring, serial input, screen | |
| `CommandLine` | the prompt's line editor and the programs' `readline` | `Console` |
| `StringLibrary` | `lib/string.c` | |
| `SystemTests` | one machine that runs a kernel test, a test program, the prompt, a library call or `KernelMemory` | `KernelTests`, `CommandLine`, `StringLibrary`, `KernelMemory`, instances of `UserTests` |
| `Programs` | what programs with shared memory and semaphores have in common | `FifoSemaphores` |
| `AirReservation`, `MidTerm`, `FirstSemaphoreTest`, `ArrayOperations` | one application each | `Programs` (`ArrayOperations` also `Sorting`) |
| `Sorting` | the sorting and selection algorithms | |
| `SortPrograms` | the programs that sort and ask whether to repeat | `Programs`, `Sorting` |
| `UserPrograms` | one of the applications, as the user starts it, or two programs as the kernel sees their address spaces | the applications and sorting programs above, `AddressSpace` |
| `MC*` | symmetry and constant values for TLC | |

**Sched.**  The variable `sch` is a record of the scheduler's globals, so that
the helpers of `sched.c` are functions from state to state with the names they
have in C, and an operation is their composition in the order of the code:
`env_exit(s) == fos_scheduler(sched_exit_env(s, s.cur))`.  A queue is a sequence
in list order; `LIST_INSERT_BEFORE`, `LIST_REMOVE` and `sched_next_circular`
follow the macros of `inc/queue.h`.  The running environment stays in the ready
queue, as in the code.  `env_free()` panics in this version of the code, so
`start_env_free` is `panic`; consequently structs of dead environments are never
reused.  `env_create` may fail before or after it takes the struct off
`env_free_list` (`LoadEnvFailsEarly`, `LoadEnvFailsLate`): the second loses the
struct.

**Semaphores.**  `semaphores` is the array, or `NULL` once `krealloc` has
replaced it.  `enqueue` puts at the head and `dequeue` takes the tail, as
`LIST_INSERT_HEAD` and `LIST_LAST`.  `createSemaphoreAbandoned` and stuttering
model a call that faults on the user's pointer to the name.  `Next` includes
every step of the scheduler: ticks, kills, exits while waiting, failing loads.
The refinement mapping to `FifoSemaphores` splits the signed value into permits
and a queue, and reverses the queue, which the code fills at its head.  A lost
array maps to semaphores that are not there (`LoseAll`).

**SemTest.**  Each program is the sequence of its system calls, `pc` the index of
the next one.  Any tick may come between two calls.  `namesResident` is chosen
at the start and says whether the page that holds the names stays in memory;
where it does not, any `wait` or `signal` may be abandoned.  The properties speak of
the programs: who is in the shop (`InShop`), who sleeps in front of it (`Outside`),
and whether the place where a program sleeps is one where its own text calls `wait`.

**KHeap.**  The unit is a page.  An address is a page number modulo the 32-bit
address space.  A taken block is a record in `taken_list` in list order, since
`kfree` frees the first that matches.  `Coalesced` gives the outcome of
`Coalescing_heap` on the free list; `Cut` what an allocation leaves of a free
block.  Boot allocates the arrays of shares and semaphores with continuous
allocation; the initial free list starts after them (`initialize_paging`).
`crashed` is set when `kfree` meets an empty free list, which `insert_sorted`
follows to a null pointer: the kernel does nothing more.  Each behaviour chooses
one of the sets of strategies in `Regimes`, between which the prompt may switch.

**KHeapFrames** adds the free frame list, the page table entries of the heap and
`frames_info[f].va`, over which the two translations are defined: `FrameSpec` is
`KHeap` with `map_frame` and `unmap_frame` in each `kmalloc` and `kfree`.

**SharedMemory.**  `shares` is the array, `page_table` what each program's heap
pages are mapped to.  A frame's reference count is the number of pages mapped to
it, since `map_frame` and `unmap_frame` are the only places that change it.
`smalloc` is one step (its user part touches only the program's own lists) and
`sget` is two: `getSizeOfSharedObject` stores what the program knows in
`pending`, and `sget` finds a block of that size and calls `getSharedObject`.
`held` and `blocks` are history: what a program has and has not given back.  As
in the code, `sfree` does not give the block of addresses back, and neither does
a failed `smalloc` or `sget`.

**WorkingSet.**  Pages are numbered image, heap, stack.  `memory` and
`page_file` map a page to its contents; `Junk` is the content of a frame that
nobody initialised, since new pages are added to the page file without being
zeroed.  `tables` and `disk_tables` are the page tables in the environment's two
directories, which the handler, `get_page_table` and the page file create on
demand and `freeMem` gives back.  `written` is a history variable: what the
program stored last; `unbacked` records the pages for which the page file had no
frame.  `PlacePage` is the branch for a working set that is not full and
`ReplacePage` the FIFO branch.  A panic in the handler ends the environment: no
action is enabled afterwards, which is why deadlock is not checked there.

**Loader.**  `env_create` is a sequence of steps, kept in `load`: the struct and
its id, then for each segment the pages that go to memory, as far as the working
set goes, and the pages that go to the page file (first page, whole pages, last
page, bss pages), then the stack.  Memory is a function from pages to sequences
of bytes, with pages of four bytes, of which the zero page has one quarter
cleared, as `initialize_paging` leaves it.  The page file gives out disk frames
in order and may be empty, which panics in the middle; the struct, its frames
and its pages then stay as they are.  All callers pass 0 for `checkperm`, and no
entry of `envs` is used twice, since `env_free` panics.  Other steps of running
programs do not change what the loader reads.  Left out: a kernel heap that
fills up while loading (it is in `AddressSpace`), the tables of the working set's
own pages, a working set of size 0 (which divides by zero).

**Boot.**  `pc` is the next step of `FOS_initialize`; the three parts of
`turn_on_paging` are steps because the code runs through a different mapping in
each.  Pages and frames have their real numbers; page tables are sets of runs of
entries, since most of them are large and regular.  The field `unset` of the
image is what an entry of a table holds that nobody wrote: nothing, where memory
is cleared at power on, and `Junk` otherwise; both are tried.  `cpu` says whether
paging is on and whether the segments still relocate.  Left out: permissions,
devices, descriptors, and the effect of `Junk` tables on what follows.

**AddressSpace.**  `mem` is a record of what the functions of
`kern/memory_manager.c` work on, so that they are functions from state to state,
composed in the order of the code.  A page table is the contents of a frame that
the kernel heap maps; `get_page_table` finds it by the field `va` of the frame
that the directory names, as the code does.  Contents of other frames are
`Junk`, and so is what a table holds before `create_page_table` clears it.  The
storage of a shared object's frames is a directory of the same kind, which takes
no references.  A panic ends the environment and adds to `lost` the frame that
the abandoned call had taken; so does `__sys_allocate_page` for arguments that
it refuses.  The heap takes the lowest free frame and page and programs the
highest frame: the properties do not depend on which is taken.  Which page is
evicted is `WorkingSet`'s subject and any here.  Left out: heap full while a
directory, a working set or a storage is allocated (nothing is mapped yet), and
a shared page of a program that it replaces with `__sys_allocate_page`.

**KernelTests, UserTests.**  A test is a sequence of steps: a call, and what the
test expects of it, taken from the test's own panics.  `KernelTests` runs them on
`KHeap` with the heap's real size (40959 pages), `UserTests` on
`WorkingSet` with the real addresses of image, heap and stack and working sets
of 6, 11, 20 and 1000 entries, as the comment at the head of each test asks.
Sizes are written as in the tests, in kilobytes.  Accesses to code and stack
between the steps are steps where they matter, in the tests of replacement.  The
test of next fit is written to its end, like the others, but crashes the kernel at
its eighty-first step, which `KernelTestsPass` forbids; it is therefore left out of
`tests` by name (`Tests` in `SystemTests.cfg`).

**Console, CommandLine.**  The functions of `console.c` are operators on a record
of its devices; the maps of scan codes are those of the code.  The user taps,
presses and releases keys ahead of whoever reads.  `unread` is a history
variable: what the user meant and nobody has read.  `command_prompt_readline` is
one iteration of the editor's loop for each character; `reader` says whether the
prompt or a program reads.  `torn` is a history variable that becomes true with
the edits the code gets wrong (below).

**StringLibrary.**  One call of one routine, with all arguments that stay inside
a memory of five bytes; the result is compared with a definition that does not
use the routine.  Loops are recursive functions or folds in the order of the
code, so that a copy reads what it has already overwritten.

**Programs** and the applications.  `pc` is a label for each thread, and a step
is one system call or one access to shared memory; `x++` is two steps.  The
threads run on `FifoSemaphores`, which `Semaphores` is shown to implement, and
are scheduled fairly, which `Sched` is shown to do (`NoStarvation`).  So the names
of their semaphores are taken to be in memory: a call that a fault on its name
abandons is in `Semaphores` and `SemTest` only, where `sem_test_fault` shows what it
does to a program.  Entries of an array that nobody has written hold anything:
`find` of `tst_air.c` scans the whole list of a flight, and may find a customer there
that was never booked (`Unwritten`).  Inside a
critical section only the accesses that another program could disturb are
separate steps.  In `SortPrograms` and `ArrayOperations` sorting itself touches
only memory nobody else writes and is one step with all outcomes the choice of
pivots can have.  `UserPrograms` is one machine that runs one of them, or two
programs of `AddressSpace`, which are any programs: the applications' own accesses do
nothing that matters there.

## 3. Runs: what is checked, bounds, and what they show

| run | instance | shows |
|---|---|---|
| `sched` | 4 environments | the prompt is reached only when nobody is ready; nobody is overtaken; nobody starves |
| `semaphores` | 3 environments, 2 names, 2 objects, initial values 0 and 1 | value and queue agree, blocked means in exactly one queue, names unique, the kernel implements `FifoSemaphores`; below it queues, statuses and `sched_next` agree in every state and `trap()`'s assertion holds (`SchedulerSound`) |
| `sem_test` | master, 3 customers, capacity 2, names in memory or not | the shop is never over capacity and nobody waits outside while there is room, final values are what the test expects, everyone exits; when names may be evicted and calls abandoned, a program still sleeps only where its text calls `wait`, in the queue of the semaphore named there |
| `sem_test_fault` (violation) | the same, capacity 1, names evicted | mutual exclusion is lost: a `wait` that faulted returns without waiting |
| `sem_array_lost` (violation) | 1 object, 2 names | creating a semaphore when the array is full destroys all |
| `kheap` | 6 pages, a frame for each, sizes 1 to 3; first and next fit, or continuous and an unsupported strategy | under the fit strategies the heap implements `PageAllocator` and its lists are exact; under all, no overlap, the mapped pages are the taken ones, and the two translations of addresses are inverse to each other |
| `kheap_switch` (violation) | 8 pages, 6 frames; continuous allocation, then first fit | pages in use are handed out again |
| `sharing` | 2 programs, 2 names, 2 objects, 3 frames, heaps of 3 pages, sizes 1 and 2 | holders of an object share its frames; it lives exactly as long as somebody holds it; nothing stays mapped; addresses belong to one block |
| `working_set` | 1 image, 2 heap, 2 stack pages, 2 pages per table; 2 entries; page file of 4; 1 free | contents coherent, tables follow pages, only invalid accesses kill, FIFO |
| `stale_mapping` (violation) | 3 heap pages, 3 entries, 2 frees | a freed page can stay mapped |
| `tests` | 6 kernel tests (all but that of next fit), 16 programs; 5 sessions of up to 7 keys; library calls on 5 bytes; boots with 6 sizes of memory and 5 images; 3 loads of 2 programs; 1 program with 2 page tables on 10 frames | the tests pass on the model; typing and editing are right; `lib/string.c` is right; the kernel stays mapped while it boots and no frame in use is free; every byte that the linker placed is loaded, and a load that fails halfway harms nobody else; tables are found and clean, references are the mappings, and `calculate_required_frames` says what mapping takes (`SpaceRight`) |
| `user_programs` | 2 clerks, 2 customers; 3 slaves; arrays of 1, 2, 3, 4 and 6 elements; 2 programs with 2 pages each on 11 frames | results are right and everyone ends; references are the mappings and tables are found (`MemoryAccounted`); frames are private unless shared and tables are clean (`ProgramsApart`) |

Why the bounds are enough to be interesting:

* Four environments let one be `curenv`, one `sched_next`, one arrive in between
  and one leave; the ready queue has a middle, which the circular successor and
  the insertion before `sched_next` need.
* Two semaphores with two names make a full array, a duplicate name and an
  environment that could wait in two places.  Three environments make a queue of
  two with a running signaller, the shortest in which the order of release shows.
  `MaxValue` caps the value from above only; below, it is bounded by the number
  of environments.
* Six heap pages, of which boot takes two, with sizes up to 3, allow a freed
  block with a free neighbour on neither, one, or both sides, an exact fit, and
  a next-fit search that starts past the only fit.  The heap can be filled, which
  is when a `kfree` crashes.
* Two programs, each owner of up to two names, make a full array, an object held
  by both, by one twice, or by none but its creator, and a `sget` that is
  interrupted while the object goes and comes back.  Three frames make an object
  of two pages compete with one of one page.  Programs, names and frames are
  symmetric and only invariants are checked.  `Outgrows = FALSE` is a real
  restriction: an object may not be replaced by a *larger* one while another
  program is between the two system calls of `sget`.  Without it
  `MappedInsideOwnBlock` fails (section 6).
* Two working set entries and five pages force eviction on almost every fault.
  Two pages per table put the end of one block and the start of the next in one
  table, the case in which `freeMem` must leave a table alone.  The page file is
  one frame short.  `MaxFrees` bounds the calls of `freeMem`, so that histories
  with stale entries, in which the working set properties are known to fail,
  stay short; it is 2 where that failure is the question.
* One of the programs of `MCPrograms` has a text that starts and ends inside a
  page, data and a bss of more than a page, the other a text that ends with a
  page and nothing but bss; working sets of 2, 4 and 9 end in the first segment,
  in the last, or hold all; two loads of one kind fill the page file.
  `LinkedRight` says what the linker script guarantees: in particular, no segment
  lies inside one page without beginning it, which the loader would write
  wrongly.  `NENV` is the real one, 1285.
* `MCMemories` has the sizes between which the code distinguishes: less than
  the boot takes, no memory above 16 MB, 64 MB, the 512 MB of `.bochsrc`, nearly
  4 GB, and one whose sum wraps; `MCImages` ends inside a page, with a page and as
  near to 4 MB as "Limits our kernel to <4MB" allows.
* The two programs of `user_programs` have two pages of one table each and a working
  set of one page, which makes every second fault evict; they may share a page.
  `OneProgram` of `KernelMemory` has three pages in two tables, a working set of two
  and a heap of six pages, which fills up in the middle of calls.  `MaxReleases`
  bounds how often memory is given back and `MaxLost` how many frames are lost: one
  release and one reuse of what was released suffice for stale tables.
* The tests of `tests` run at real size, so their bounds are those of the tests.
  Each is deterministic: these runs validate the models against what the
  authors of the code expect, and the model's own state space is explored in
  `kheap` and `working_set`.
* `Sessions` pairs the keys of a session with how many the user presses: all
  interleavings of typing and reading with modifiers, two readers and the serial
  line; the history; the cursor inside the line; Delete; a line that reaches the
  end of `buf`.  `BUFLEN` = 7, `CRT_COLS` = 7 and `PromptLength` = 2 let a line go on in the next row and the
  screen of two rows scroll; `HISTORY_MAX` = 1 makes the history full after two
  lines; a ring of 4 characters wraps.  At most one key of each modifier is
  held (`Shift`, and either `Ctrl`); the five sessions are separate because
  their effects are.
* Five bytes hold two strings with an end and a gap, every overlap of two areas
  in both directions, and more words than `MAX_ARGUMENTS` = 3 allows.  `Numbers`
  is -120..120, where the first number with an inner zero, 100, lies.
* Two clerks and two customers, one flight with a seat for both and one with a
  single seat: a customer who wants both flights may come before, after or
  between, and may find one flight full.  Six elements are the fewest for which
  the semi-random array has equal and different elements; two rounds show a
  block that is not given back.

### Divergences found

Each of the first four is a run that violates a statement of the repository:

1. **`sem_array_lost`** - `allocate_semaphore_object` assigns the result of
   `krealloc`, which is always `NULL`, to `semaphores` before it tests it
   (`kern/semaphore_manager.c:83`).  One creation too many loses every semaphore,
   and the next call dereferences `NULL`.
2. **`sem_test_fault`** - a `wait` whose name is not in memory returns to the
   program without having decremented anything (`kern/trap.c:295`).
3. **`kheap_switch`** - continuous allocation never updates the free list, so
   switching to a fit strategy afterwards gives out pages that are in use.
4. **`stale_mapping`** - after `freeMem` has left holes, `page_fault_handler`
   writes the entry at `page_last_WS_index` without looking whether it is empty;
   the page it overwrites stays mapped for ever.  The part of
   `user/tst_page_replacement_FIFO_2.c` behind its `sys_freeMem` meets the same
   code and is not replayed.

The others are part of the models, whose properties state them as exceptions:

* *Full kernel heap.*  `insert_sorted` (`kern/kheap.c:434`) reads the first element
  of a list that may be empty: the first `kfree` of a full heap follows a null
  pointer.  `test_kmalloc_nextfit` fills the heap and then frees ten blocks of it
  (`kern/test_kheap.c:350-363`), so **the kernel does not pass its own test of next
  fit**.  `KeepsPromise` allows this crash by name (`crashed`), and no other;
  `KernelTestsPass` does not, and with `"nextfit"` added to `Tests` and
  `{"NEXTFIT"}` to `Regimes` in `SystemTests.cfg` TLC finds it violated there.
* *`finishedCount++`* in `user/arrayOperations_*.c` and `MidTermEx_Process*.c` is
  not atomic; when an increment is lost the master spins for ever (`ArrayEnds`,
  `MidTermEnds`).
* *`KthElement`* (`user/arrayOperations_stats.c:60-94`) goes on in the wrong part
  when several elements equal the pivot, and `arrayOperations_Master.c:105` looks
  for the median one place further than the slave when the number of elements
  is odd: in both cases the master panics over a correct sort (`ResultsRight`).
* *`InitializeSemiRandom`* divides by zero for one or two elements
  (`DivideError`).
* *`tst_air`* reads the semaphores after `env_sleep(1500)` and relies on the
  clerks having come to rest by then (`ClerksRest`).
* *`ltostr`* (`lib/string.c:246`) stops at the first digit 0 from the right
  behind the last digit: 105 becomes "5" (`Writable`).  The programs convert
  numbers below 100.
* *Line editor* (`torn`): Backspace in mid-line doubles the character at the
  cursor in the buffer while the screen shows a blank; `lastIndex` drifts beyond
  the text and lets the cursor leave it; Up and Down in mid-line leave
  characters on the screen; Delete changes the screen when it is typed, before
  characters that were typed earlier are read, works in the last row only and
  with an almost full row brings in cells from behind the screen; at the start
  of a line it is inserted as a character; Ctrl-Enter ends the line but stays in
  its row; programs take arrows for characters.
* *History*: the first Enter reads `command_history[-1]`, and Down can show
  `command_history[10]`; `History` allows either outcome.
* *Keyboard*: the ring overwrites itself silently when it is full (`overrun`);
  digits are dropped while only Num Lock is on; releasing one of two held Shift
  or Ctrl keys releases both; `cons_getc2` returns a waiting character only
  when a new key made one.
* *Ids of environments*: `NENV` is 1285, not a power of two, and `ENVX` masks with
  `NENV - 1` (`inc/environment_definitions.h:19`): the id of the second environment
  looks up another entry and `envid2env` refuses it.  It never finds a *wrong*
  environment (`NeverAnother`).
* *Zero page*: `initialize_paging` clears 1024 of its 4096 bytes
  (`kern/memory_manager.c:365`), and the loader writes bss pages from it
  (`FromZeroPage`, the exception of `ProgramLoaded`).
* *Tables made at boot*: `boot_get_page_table` does not clear them; where memory is
  not zero at power on, "Invalid Memory" (`inc/memlayout.h:87`) may be mapped
  (`unset`).
* `boot_allocate_space` does not compare with the size of the memory, as its
  comment says it should (`kern/memory_manager.c:202`): `FramesAccounted` holds
  where there is enough.
* *`__sys_allocate_page`* (`kern/syscall.c:156-166`) takes a frame before it checks
  its arguments and does not give it back (`lost`).
* `command_set_kheap_plac_CONTALLOC` says that it set first fit.

## 4. Fairness

* Clock (`SF`): the timer interrupt is masked while an environment has interrupts
  disabled, but it stays pending and is delivered when they are enabled, so it is
  strongly fair.
* `sys_enable_interrupt` (`WF`): all user code that disables interrupts is in
  `lib/printf.c`, `lib/console.c` and `lib/libmain.c`, and enables them again on
  every path.
* `SemTest` only: an environment that is scheduled again and again makes
  progress (`SF` on its steps: a quantum is longer than a system call), and the
  user who typed the command is served (`WF` on `StartMaster`).

* `UserPrograms`: each thread that can take a step eventually takes one (`WF`
  per thread).  The kernel runs every ready environment again and again
  (`NoStarvation`), and a thread that waits is not ready until it is released,
  in order (`ImplementsFifo`).  The user is not assumed to repeat, or to end.

Nothing else is assumed fair (`SharedMemory`, `KHeap`, `WorkingSet` and
`SystemTests` with what it is composed of check safety only); in particular not
that environments of `Sched` and `Semaphores` exit, signal or are loaded.

## 5. What is proved

There are 33 theorems, for every value of the constants that meets the named
assumptions of the module.  28 of them are properties that a run checks on a small
instance; four are the type invariants `SchedTypeOK` and `TypeOK`, which no run
repeats, and one, `SpaceInvariant`, is the inductive invariant of `AddressSpace`.
`PROJECT.json` says of each what it establishes.

| module | theorems | property |
|---|---|---|
| `SchedProofs` | `SchedulerTyped`, `SchedulerSafe`, `PromptSafe`, `NobodyOvertaken` | `SchedTypeOK`, `SchedulerSound`, `PromptOnlyWhenIdle`, `RoundRobin` |
| `SemProofs` | `SemSchedulerSafe`, `ValueCountsWaiters`, `WaitersBlocked`, `OneSemaphorePerName`, `SemaphoresAreFifo` | `SchedulerSound`, `QueueLengthMatchesValue`, `BlockedExactlyInOneQueue`, `NamesUnique`, refinement of `FifoSemaphores` |
| `SemTestProofs` | `SleepersCalledWait`, `ShopCapacityKept`, `TestSucceeds` | `SleepsWhereItWaited`, `CapacityKept`, `FinalValues` |
| `KHeapProofs` | `HeapTyped`, `AllocationsDisjoint`, `FramesMatchAllocations`, `FreePagesListed`, `HeapKeepsPromise`, `TranslationsAreInverse` | `TypeOK`, `NoOverlap`, `MappedIsTaken`, `FreeListIsExact`, refinement of `PageAllocator`, `TranslationsInverse` |
| `SharedMemoryProofs` | `SharedTyped`, `ObjectsStayShared`, `ReferencesAreExact`, `FramesNotReused`, `NothingLeftMapped`, `ObjectsKeepApart` | `TypeOK`, `HoldersShare`, `ReferencesCountHolders`, `FramesExclusive`, `NothingStaysMapped`, `MappedInsideOwnBlock` |
| `WorkingSetProofs` | `PagingTyped`, `StoredIsKept`, `TablesMatchPages`, `OnlyInvalidKilled`, `WithinWorkingSet`, `OldestGoesFirst` | `TypeOK`, `Coherent`, `TablesFollowPages`, `KilledOnlyIfInvalid`, `ResidentIsWorkingSet`, `FirstInFirstOut` |
| `AddressSpaceProofs` | `SpaceInvariant`, `SpaceAccounted`, `SpaceApart` | `SpaceInv`, `MemoryAccounted`, `ProgramsApart` |

`ListProofs` holds lemmas about the operators on lists and block lists that
several of these need.

### Assumptions

* Marker values are not ordinary values: `NULL` is no environment
  (`EnvAssumption`), no value of a semaphore (`SemAssumption`) and no array of
  them (`NullAssumption`), no frame, page or content.
* `TestAssumption`: there are finitely many environments (`envs` is an array of
  `NENV`), so that customers can be counted; the two names differ.
* `KHeapAssumption`: the arrays that boot allocates are smaller than the heap,
  and there are frames for them.
* `SpaceAssumption`: pages, frames, pages of the heap and environments are
  finitely many (addresses have 32 bits; `envs` is an array); a page table has at
  least one entry; the page through which a program sees its working set has a
  table of its own, since `USER_HEAP_MAX` is a multiple of 4 MB.
* `WorkingSetAssumption`: image, heap and stack lie in this order in memory, and
  there are finitely many pages.
* Two groups of theorems have a hypothesis on a constant, and a run or a setting
  of a run shows that they fail without it:
  * `KHeapProofs`: `KeptApart`, no command of the prompt changes between a
    strategy that keeps the free list (first and next fit) and one that does
    not.  Without it `NoOverlap` fails (`kheap_switch`).
  * `SharedMemoryProofs`: `~Outgrows`, no object is replaced by a larger one
    between the two system calls of an `sget` for it.  Without it
    `MappedInsideOwnBlock` fails (section 6).

`MaxValue`, `MaxFrees`, `MaxReleases` and `MaxLost`, which keep the runs finite, may
have any value.

### Inductive invariants

None of the checked invariants is inductive alone.  Each module has one
invariant that is; the initial states satisfy it, one lemma per action shows that
the action keeps it, and the theorems follow from it.

**`SchedInv`** is `WellFormed` (types, every environment in exactly the queue its
status names, `sched_next` in the ready queue unless that is empty) and `CurOK`
(`curenv` is ready, and present exactly while the scheduler is started).  That
`curenv` is ready after a tick needs that `sched_next` points into the ready
queue, which after a removal needs that the queue has no duplicates and that its
members are ready.  The intermediate states inside an operation (removed from one
queue, not yet in another) satisfy `WellFormed` but not `CurOK`;
`fos_scheduler` restores it, which is why it is the last call of every operation
that may remove `curenv`.  There is one lemma per helper of `sched.c`.

`NobodyOvertaken` counts, for each ready environment, the turns until it runs:
its distance from `sched_next` in the circular list.  `LIST_INSERT_BEFORE` of
`sched_next` changes the number for nobody, a removal can only make it smaller,
and `fos_scheduler` takes one off everybody's.

**`SemInv`** adds to `SchedInv` the type of the array, `SlotsOK` (an unused entry
is as it was initialised), and `QueueLengthMatchesValue`,
`BlockedExactlyInOneQueue` and `NamesUnique` together: that a wait adds its
caller to one queue needs that no blocked environment can call, and that a signal
finds somebody to release needs that the value counts the queue.  For each
operation of the scheduler a lemma says which environments are blocked
afterwards (the same ones), so that these operations cannot disturb the queues.
`SemaphoresAreFifo` then maps every step: wait, signal and create to theirs, a
creation in a full array to `LoseAll`, everything else to a stutter.

**`TestInv`** is `SemInv`, `ProgressOK` (where each program can be) and, while the
names stay in memory, `ShopInv`: the value of "shop" is the capacity less the
customers that have called `wait` and not `signal`, its queue is those of them
that are blocked, and the value of "depend" is the signals the master has not
waited for.  That at most `Capacity` customers are inside, and
exactly so many while somebody is outside, follows because a
negative value counts the queue.  `SleepersCalledWait` must not suppose that the names
are in memory: its invariant is `SemInv`, `ProgressOK` and `QueuedOK`, which says of every
member of a queue that the call before its `pc` is a `wait` for the owner and name of that
very object.  It is kept because no call changes the owner or name of an object in use,
a blocked program does not move, and a creation halfway gives its slot no queue.  The counting uses cardinalities of finite
sets, for any number of customers.

**`HeapInv`**: the taken blocks are disjoint and lie in the heap, the mapped pages
are theirs (`mapped = Held(taken_list)`), the two arrays of the boot are among them
(so the first `kfree` that matches is never of an empty list); under the fit
strategies the free list is sorted, coalesced and holds all other pages
(`FitOK`), under continuous allocation everything taken lies below
`last_va_in_kheap` (`BumpOK`).  `HeapKeepsPromise` also needs that a run of free
pages lies inside *one* block of the list (`RunInOneBlock`): only because the list
is fully coalesced does "no block fits" mean that there is no room.

**`FrameInv`**, over `HeapInv`: the free frame list has no frame twice and as many as
have no page (`ListInv`); each mapped page has a frame of its own that is not in the
list (`EntryInv`); `frames_info` knows the page of exactly those (`AddressInv`).  A
`kmalloc` takes frames only for pages that had none, which is where `HeapInv` comes
in, and a `kfree` gives back exactly those of its block.  `TranslationsAreInverse`
follows.

**`SharedInv`**: each program's free and taken blocks are apart (`HeapsOK`); what it
holds starts a taken block of its own that is large enough (`HoldingsOK`); it has
mapped exactly that (`MapsOK`); the array agrees with what all programs hold:
references count the holders, names are unique, frames are in one object
(`SharesOK`); and no object is larger than a pending `sget` for it has been told
(`PendingOK`), which carries the argument over the two system calls.

**`WorkingSetInv`**: a page has at most one entry, and a page with an entry is
mapped and legal (`EntriesOK`); blocks of `malloc` are apart (`BlocksOK`); legal
pages are in the page file except where it was full or the stack has not been
touched (`BackedOK`); an unmodified page is on disk as it is in memory
(`ContentsOK`), without which evicting it would lose the store; and, until the
first `freeMem`, the entries fill up in order and every resident page has one
(`FilledInOrder`).  `OldestGoesFirst` follows because a fault moves
`page_last_WS_index` by one, so that each page's place in the ring, counted from
there, becomes one less.

**`SpaceInv`** says of the memory that it is `Good`, and of the programs that they
are kept apart in it.

* `Good` is the kernel's own bookkeeping: a frame is in the heap once
  (`HeapApart`); a frame that a directory names is a page of the heap, found by its
  field `va`, is the table of that directory only, and no entry is left from what
  the frame held before (`TablesOK`); the count of a frame is the number of its
  mappings and heap pages, and is 0 for the frames that are free or lost
  (`Counted`).
* `Private`: no page of a program is a page of the heap.  `MemoryAccounted` needs
  it, although it does not mention it: `map_frame` writes the field `va` of the
  frame that it maps, and if that could be a table's the kernel would lose the
  table.
* `Apart`: a frame is mapped once, unless it is the shared object's.  So eviction
  and `freeMem` free the frame that they unmap, which leaves room for the next.
* `Stored`: the storage holds the object's frame, whose directory is a page of the
  heap that is no table; `SharesCounted`: its users are its mappings, so that
  `free_share_object` comes with the last of them and finds the frame given back;
  `Resident`: pages of working sets are mapped, and not to the object.

Inside an operation the invariant does not hold: a frame has been taken and is not
mapped yet, or has been unmapped and its table is still there.  `Good(s, out)` is
therefore stated of a memory `s` with the frames `out` on their way, and there is one
lemma for each function of `memory_manager.c` (`Allocate`, `Kmalloc`, `KfreeFields`,
`SetEntryKeeps`, `Unmap` and so on) that says what it does to `s` and `out`, and
to what is mapped at every page (`MappedAt`); the lemmas about the actions compose
them.  `freeMem` and `clear_frames_storage` are loops: `FoldExists` shows, by the
smallest counterexample, that the recursive function behind `FoldSet` exists for a
finite set, and `FoldKeeps` that it keeps what every step of it keeps.  So these two
are proved for ranges of any length.

### What stays with TLC

* Liveness: `NoStarvation`, `EveryoneExits`, `EveryoneEnds`; and `ENABLED`.
* The properties of the run `tests`: replayed tests are single behaviours of
  the heap's and the pages' real size; the results of `lib/string.c` and of the
  line editor are computed by recursive functions and folds over the data, and
  proving them for every input needs induction over data.
* `SynchronisedRight` and `SortedRight` of `user_programs`: the programs sort with
  RECURSIVE operators.
* `Boot`, which is one sequence of steps with real numbers, so that its run
  covers what there is; and `Loader`, whose ids need Bitwise.
* `RequiredFramesExact` of `AddressSpace` (in `SpaceRight`): it compares two counts,
  one taken before a range is mapped and one after, so that a proof has to follow
  the number of free frames through all of `map_frame`.

## 6. What is not modelled, and why

* Shared objects that outgrow a pending `sget` are left out of `sharing` and of the
  proofs: the guard `Outgrows \/ ...` of `createSharedObject` is a restriction of what
  the programs do, not a test that the kernel makes.  The second system call maps
  the object as it is then, from the address of a block found for the size it had,
  so its last pages replace the mappings of whatever follows: `Outgrows = TRUE` in
  `SharedMemory.cfg` shows it in five calls.  It is listed as a hazard.
* A semaphore call of the applications of `Programs` that is abandoned by a fault on
  its name (section 2).
* Write permissions of shared objects, calls with size 0, and shared names whose
  page is out of memory (the consequence is the one `sem_test_fault` shows).
  Initial values of semaphores from 2^31 on, which turn negative.
* Requests that the heap of a program cannot satisfy return `NULL` and change
  nothing, so they are not actions of `SharedMemory` (`UserTests` has them).
* `krealloc` (returns `NULL` at once), `realloc` (panics at once), `moveMem` (its
  only caller is `realloc`), page buffering and the modified list (disabled at
  boot, its handler is empty), LRU and clock replacement (FIFO is set at boot and
  their time stamps are the only state they add).
* Tests that are not replayed: `test_three_creation_functions` and
  `test_krealloc` of the kernel; `tst_freeing_stack`, `tst_freeRAM`,
  `tst_freeRAM_2`, `tst_first_fit_3`, `tst_quicksort_freeHeap`,
  `tst_krealloc_shares_realloc`, the sharing tests (their calls are in
  `SharedMemory`, which explores all orders), and what follows a call that
  panics in this version of the code.
* Exhaustion of physical memory: `allocate_frame` follows a null pointer when the
  free list is empty, and the kernel does not survive.  Steps of `AddressSpace` are
  taken only with enough frames.
* The registers and descriptors of an environment, and the kernel's entries of
  its directory.
* Completion with Tab, whose first decision reads variables nobody has
  initialised; the page keys; restarting with Ctrl-Alt-Delete, which the code
  cannot reach, because the handling of Delete returns first.
* Timer programming, interrupt controller, disk driver, boot loader, formatted
  output, debugging aids: input and output or pure code with no state
  that the properties see.
* The commands of the prompt that only print or edit memory, and the example
  programs that compute and print (`fos_*`, `game`).
* The kernel heap of `SystemTests` follows frames only in the tests that look at
  them; the others count frames.

## 7. Plan

1. `Console` and `CommandLine`: the ring keeps the order of what is typed while
   it is not overrun (`TypedIsRead`).  The ring's part needs no induction over
   data; the screen's part does.
2. The applications that do not sort (`AirReservation`, `MidTerm`,
   `FirstSemaphoreTest`): no seat is sold twice and no increment is lost, for
   any number of customers and entrants, over `FifoSemaphores`.
3. `SharedMemory`: write permissions, and the sharing tests on `AddressSpace`.
4. `AddressSpace`: `RequiredFramesExact`, and objects of several pages.
