---------------------------- MODULE SystemTests ----------------------------
(***************************************************************************)
(* One machine on which either a test of the kernel heap (KernelTests) or  *)
(* a test program (UserTests) runs, or the user types at the prompt        *)
(* (CommandLine), or a routine of lib/string.c is called (StringLibrary),  *)
(* or the kernel boots, loads programs or maps their memory (KernelMemory);*)
(* the others stay idle, for they share no state.  The tests of programs   *)
(* need working sets of different sizes, "MAKE SURE PAGE_WS_MAX_SIZE =     *)
(* ..." at the head of each: UserTests is instantiated once for each size, *)
(* over the same variables.                                                *)
(***************************************************************************)
EXTENDS KernelTests, CommandLine, StringLibrary, KernelMemory

VARIABLES ptr_pageWorkingSet, page_last_WS_index, memory, modified, page_file,
          tables, disk_tables, blocks, unbacked, written, killed, frees,
          Block_info_free_list_user, Block_info_taken_list_user, space,
          utest, udone, counts

programVars == <<ptr_pageWorkingSet, page_last_WS_index, memory, modified, page_file,
                 tables, disk_tables, blocks, unbacked, written, killed, frees,
                 Block_info_free_list_user, Block_info_taken_list_user, space,
                 utest, udone, counts>>

kernelVars == <<vars, frameVars, testVars>>

systemVars == <<kernelVars, programVars, promptVars, stringVars, memoryVars>>

-----------------------------------------------------------------------------
(* The memory of the programs.  The pages of their heap are those the      *)
(* tests reach, those of their stack the ones they touch.                  *)

USER_HEAP_START == \h80000

USER_HEAP_MAX == \hc0000

NPTENTRIES == 1024

\* PAGES_PER_FILE of the page file, but its first.
PageFileFrames == 520 * 256 - 1

MaxFrees == 8

Data == {0, 1}

SmallImage == \h200..\h206 \cup \h800..\h803

ArrayImage == \h200..\h206 \cup \h800..\h80f

HeapPrograms == INSTANCE UserTests WITH
  Image <- SmallImage, Unloaded <- {}, Heap <- USER_HEAP_START..USER_HEAP_START + 4607,
  Stack <- {\heebfd}, page_WS_max_size <- 1000,
  UserTest <- {"malloc_1", "malloc_2", "malloc_3", "free_1", "free_2", "first_fit_1",
               "first_fit_2", "realloc_1", "realloc_2", "fos_alloc", "invalid_access"}

Placement == INSTANCE UserTests WITH
  Image <- SmallImage, Unloaded <- {}, Heap <- {}, page_WS_max_size <- 20,
  Stack <- {\heebfd, \hedbfd, \hedbfe, \hedffd, \hedffe, \hee3fd, \hee3fe, \hee7fd, \hee7fe},
  UserTest <- {"placement"}

\* A page of the image that is not in the first segment loaded.
Replacement == INSTANCE UserTests WITH
  Image <- ArrayImage, Unloaded <- {\h206}, Heap <- USER_HEAP_START..USER_HEAP_START + 3,
  Stack <- {\heebfd}, page_WS_max_size <- 11, UserTest <- {"FIFO_1", "FIFO_2", "alloc"}

StackReplacement == INSTANCE UserTests WITH
  Image <- SmallImage, Unloaded <- {}, Heap <- {}, Stack <- \heebf3..\heebfd,
  page_WS_max_size <- 6, UserTest <- {"stack"}

-----------------------------------------------------------------------------
KernelIdle ==
  /\ free_list = <<>> /\ taken_list = <<>> /\ last_va_in_kheap = 0 /\ strategy = "CONTALLOC"
  /\ mapped = {} /\ returned = 0 /\ crashed = FALSE /\ NoFrames
  /\ test = "none" /\ done = 0 /\ ptr_allocations = <<>> /\ free_frames = <<0, 0>>

ProgramsIdle ==
  /\ ptr_pageWorkingSet = <<>> /\ page_last_WS_index = 0 /\ memory = <<>> /\ modified = {}
  /\ page_file = <<>> /\ tables = {} /\ disk_tables = {} /\ blocks = {} /\ unbacked = {}
  /\ written = <<>> /\ killed = NULL /\ frees = 0
  /\ Block_info_free_list_user = <<>> /\ Block_info_taken_list_user = <<>> /\ space = 0
  /\ utest = "none" /\ udone = 0 /\ counts = <<>>

PromptIdle == AtRest /\ keys = {} /\ events = 0

LibraryIdle == bytes = <<>> /\ before = <<>> /\ call = <<>> /\ result = 0

SystemInit ==
  \/ TestInit /\ ProgramsIdle /\ PromptIdle /\ LibraryIdle /\ MemoryIdle
  \/ KernelIdle /\ ProgramsIdle /\ PromptInit /\ LibraryIdle /\ MemoryIdle
  \/ KernelIdle /\ ProgramsIdle /\ PromptIdle /\ StringInit /\ MemoryIdle
  \/ KernelIdle /\ ProgramsIdle /\ PromptIdle /\ LibraryIdle /\ MemoryInit
  \/ /\ KernelIdle /\ PromptIdle /\ LibraryIdle /\ MemoryIdle
     /\ \/ HeapPrograms!TestInit
        \/ Placement!TestInit
        \/ Replacement!TestInit
        \/ StackReplacement!TestInit

ProgramStep ==
  /\ CASE utest = "placement" -> Placement!TestStep
       [] utest \in {"FIFO_1", "FIFO_2", "alloc"} -> Replacement!TestStep
       [] utest = "stack" -> StackReplacement!TestStep
       [] OTHER -> utest # "none" /\ HeapPrograms!TestStep
  /\ UNCHANGED <<kernelVars, promptVars, stringVars, memoryVars>>

ProgramOver ==
  /\ CASE utest = "placement" -> Placement!TestOver
       [] utest \in {"FIFO_1", "FIFO_2", "alloc"} -> Replacement!TestOver
       [] utest = "stack" -> StackReplacement!TestOver
       [] OTHER -> utest # "none" /\ HeapPrograms!TestOver
  /\ UNCHANGED systemVars

KernelStep ==
  test # "none" /\ TestNext /\ UNCHANGED <<programVars, promptVars, stringVars, memoryVars>>

PromptStep == PromptNext /\ UNCHANGED <<kernelVars, programVars, stringVars, memoryVars>>

LibraryStep ==
  /\ bytes # <<>> /\ StringNext
  /\ UNCHANGED <<kernelVars, programVars, promptVars, memoryVars>>

MemoryStep == MemoryNext /\ UNCHANGED <<kernelVars, programVars, promptVars, stringVars>>

\* The user stops typing, which is the bound's doing; the call has returned.
Over == /\ (keys # {} /\ events = 0) \/ call # <<>>
        /\ UNCHANGED systemVars

SystemNext ==
  KernelStep \/ ProgramStep \/ ProgramOver \/ PromptStep \/ LibraryStep \/ MemoryStep \/ Over

SystemSpec == SystemInit /\ [][SystemNext]_systemVars

-----------------------------------------------------------------------------
\* UserTests!UserTestsPass for the program that runs.
ProgramTestsPass ==
  CASE utest = "placement" -> Placement!UserTestsPass
    [] utest \in {"FIFO_1", "FIFO_2", "alloc"} -> Replacement!UserTestsPass
    [] utest = "stack" -> StackReplacement!UserTestsPass
    [] OTHER -> utest # "none" => HeapPrograms!UserTestsPass
=============================================================================
