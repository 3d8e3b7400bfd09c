---------------------------- MODULE KernelMemory ----------------------------
(***************************************************************************)
(* One machine on which the kernel boots (Boot), or programs are loaded    *)
(* (Loader), or a program uses its address space (AddressSpace); the       *)
(* others stay idle, for they share no state that their properties see.    *)
(* Two programs that share memory are in UserPrograms.                     *)
(***************************************************************************)
EXTENDS Integers, FiniteSets

CONSTANTS CMOS, Images,    \* of Boot
          userPrograms,    \* of Loader
          Storage,         \* of AddressSpace
          NULL, Junk

VARIABLES pc, image, number_of_frames, boot, cpu, boot_frames, used, kheap,
          envs, env_free_list, curenv, cr3, disk_free_frame_list, disk, load,
          mem, status, ws, shares, lost, releases

bootVars == <<pc, image, number_of_frames, boot, cpu, boot_frames, used, kheap>>
loaderVars == <<envs, env_free_list, curenv, cr3, disk_free_frame_list, disk, load>>
spaceVars == <<mem, status, ws, shares, lost, releases>>
memoryVars == <<bootVars, loaderVars, spaceVars>>

\* The kernel heap as inc/memlayout.h places it.
Booting == INSTANCE Boot WITH
  KERNEL_HEAP_START <- 1007616, KERNEL_HEAP_MAX <- 1048575, ArrayPages <- 2,
  free_frame_list <- boot_frames

\* Three environments; a page file that two programs of one kind fill.
Loading == INSTANCE Loader WITH
  NENV <- 1285, ENVGENSHIFT <- 12, MaxLoads <- 3, PAGE_SIZE <- 4, NPTENTRIES <- 4,
  PAGES_PER_FILE <- 15, TWS_MAX_SIZE <- 50, StabPage <- 1, StabPages <- 1, StackPage <- 9,
  Sizes <- {2, 4, 9}

\* A program whose pages lie in two tables; here the heap may fill up.
OneProgram == INSTANCE AddressSpace WITH
  Envs <- {1}, Frames <- 1..10, HeapPages <- 21..26, Pages <- {0, 1, 2}, WSPage <- 4,
  NPTENTRIES <- 2, page_WS_max_size <- 2, MaxReleases <- 2, MaxLost <- 1

ASSUME MemoryAssumption ==
  /\ Booting!BootAssumption /\ Loading!LoaderAssumption
  /\ OneProgram!SpaceAssumption

-----------------------------------------------------------------------------
BootIdle ==
  /\ pc = "off" /\ image = NULL /\ number_of_frames = 0 /\ boot = NULL /\ cpu = NULL
  /\ boot_frames = <<>> /\ used = <<>> /\ kheap = NULL

LoaderIdle ==
  /\ envs = <<>> /\ env_free_list = 0 /\ curenv = NULL /\ cr3 = NULL
  /\ disk_free_frame_list = <<>> /\ disk = <<>> /\ load = NULL

SpaceIdle ==
  /\ mem = NULL /\ status = <<>> /\ ws = <<>> /\ shares = NULL /\ lost = {} /\ releases = 0

MemoryIdle == BootIdle /\ LoaderIdle /\ SpaceIdle

MemoryInit ==
  \/ Booting!Init /\ LoaderIdle /\ SpaceIdle
  \/ BootIdle /\ Loading!Init /\ SpaceIdle
  \/ BootIdle /\ LoaderIdle /\ OneProgram!SpaceInit

Boots == pc # "off"
Loads == envs # <<>>
Uses == status # <<>>

BootStep == Booting!Next /\ UNCHANGED <<loaderVars, spaceVars>>

LoadStep == Loads /\ Loading!Next /\ UNCHANGED <<bootVars, spaceVars>>

SpaceStep == Uses /\ OneProgram!SpaceNext /\ UNCHANGED <<bootVars, loaderVars>>

\* The kernel is at the prompt or has panicked; the bounds are reached.
MemoryOver == (Boots \/ Loads \/ Uses) /\ UNCHANGED memoryVars

MemoryNext == BootStep \/ LoadStep \/ SpaceStep \/ MemoryOver

-----------------------------------------------------------------------------
(* The properties of the machine that is in use.  Each collects what its   *)
(* module states, named there part by part.                                *)

\* Boot: whatever memory and image the machine has, code, data and stack of the
\* kernel are found at every step of turn_on_paging, the assertions of
\* check_boot_pgdir hold before and after it, what initialize_paging lists as
\* free is exactly what is not in use, and the free list of the kernel heap
\* begins behind the two arrays.
KernelBooted ==
  Boots => /\ Booting!TypeOK /\ Booting!KernelStaysMapped /\ Booting!DirectoryRight
           /\ Booting!FramesAccounted /\ Booting!HeapBehindArrays

\* Loader: env_create loads what the linker made, into pages that are the first
\* working set; a disk frame is free or one page's and no one runs in another's
\* page directory, after loads that panicked too; and envid2env never finds
\* another environment.
ProgramsLoaded ==
  Loads => /\ Loading!TypeOK /\ Loading!ProgramLoaded /\ Loading!WorkingSetLoaded
           /\ Loading!DiskFramesAccounted /\ Loading!RunsInOwnSpace /\ Loading!NeverAnother

\* AddressSpace: through map_frame, unmap_frame and kfree, panics included, the
\* references of a frame are the entries that map it, get_page_table finds every
\* table by its frame, no table has in it what its frame held before, and
\* calculate_required_frames agrees with map_frame.
SpaceRight ==
  Uses => /\ OneProgram!MemoryAccounted /\ OneProgram!ProgramsApart
          /\ OneProgram!RequiredFramesExact
=============================================================================
