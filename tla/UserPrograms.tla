---------------------------- MODULE UserPrograms ----------------------------
(***************************************************************************)
(* One of the applications of user/, as the user starts it, on the         *)
(* semaphores and the scheduling that the kernel provides; or any two      *)
(* programs, seen by what the kernel does to their address spaces          *)
(* (AddressSpace).  No program of the applications does anything there.    *)
(***************************************************************************)
EXTENDS AirReservation, ArrayOperations, MidTerm, FirstSemaphoreTest, SortPrograms, AddressSpace

VARIABLE app        \* the application

uvars == <<pvars, app, spaceVars>>

AppInit ==
  /\ SpaceInit
  /\ \/ app = "tst_air" /\ AirInit
     \/ app = "arrop" /\ ArrayInit
     \/ app = "midterm" /\ MidTermInit
     \/ app = "tst_sem1" /\ Sem1Init
     \/ app = "sort" /\ SortInit
     \/ app = "memory" /\ Prepared(<<>>, <<>>, [t \in Thread |-> "done"])

Step(t) == /\ \/ app = "tst_air" /\ AirStep(t)
              \/ app = "arrop" /\ ArrayStep(t)
              \/ app = "midterm" /\ MidTermStep(t)
              \/ app = "tst_sem1" /\ Sem1Step(t)
              \/ app = "sort" /\ SortStep(t)
           /\ UNCHANGED <<app, spaceVars>>

MemoryStep == app = "memory" /\ SpaceNext /\ UNCHANGED <<pvars, app>>

AppNext == MemoryStep \/ \E t \in Thread : Step(t)

(***************************************************************************)
(* The kernel runs every ready environment again and again (NoStarvation   *)
(* of Sched), so no thread that can take a step waits for ever.            *)
(***************************************************************************)
AppSpec == AppInit /\ [][AppNext]_uvars /\ \A t \in Thread : WF_uvars(Step(t))

-----------------------------------------------------------------------------
(* Properties.                                                             *)

(***************************************************************************)
(* What the programs compute is right whatever the interleaving: the       *)
(* result of tst_air, the values MidTermEx_Master prints and the verdict   *)
(* of tst_semaphore_1.                                                     *)
(***************************************************************************)
SynchronisedRight == /\ app = "tst_air" => BookingsRight
                     /\ app = "midterm" => PrintedRight
                     /\ app = "tst_sem1" => TestSucceeds

\* The results of the sorting programs, alone and as slaves.
SortedRight == /\ app = "arrop" => ResultsRight
               /\ app = "sort" => SortsRight

Ended == \/ app = "tst_air" /\ AirEnds
         \/ app = "arrop" /\ ArrayEnds
         \/ app = "midterm" /\ MidTermEnds
         \/ app = "tst_sem1" /\ \A t \in Thread : Finished(t)
         \/ app = "sort" /\ pc[Master] \in {"done", "killed"}
         \/ app = "memory"

(***************************************************************************)
(* Every application comes to its end: no customer, clerk or slave waits   *)
(* for ever for a semaphore, and only a lost increment of finishedCount    *)
(* keeps a master that waits by reading it.                                *)
(***************************************************************************)
EveryoneEnds == <>[]Ended
=============================================================================
