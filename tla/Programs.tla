------------------------------ MODULE Programs ------------------------------
(***************************************************************************)
(* User programs that cooperate through shared memory and semaphores.  The *)
(* clock may interrupt a program between any two reads or writes of shared *)
(* memory (it is compiled without optimisation, GNUmakefile:87); a system  *)
(* call runs in the kernel and is one step.  The semaphores are those of   *)
(* FifoSemaphores, which the kernel's semaphores implement.                *)
(***************************************************************************)
EXTENDS FifoSemaphores, Integers

CONSTANT Master      \* the thread that runs the program the user typed

ASSUME ProgramsAssumption == Master \in Thread

VARIABLES pc,        \* what each thread does next
          shared,    \* the variables in shared memory
          local      \* each thread's own variable

pvars == <<permits, waiting, pc, shared, local>>

Slaves == Thread \ {Master}

\* A thread that waits for a semaphore does not run.
At(t, label) == pc[t] = label /\ t \notin Waiters

Go(t, label) == pc' = [pc EXCEPT ![t] = label]

sys_waitSemaphore(t, s, label) ==
  Wait(t, s) /\ Go(t, label) /\ UNCHANGED <<shared, local>>

sys_signalSemaphore(t, s, label) ==
  Signal(s) /\ Go(t, label) /\ UNCHANGED <<shared, local>>

\* A read of a shared variable into the thread's own, and a write to one.
Read(t, value, label) ==
  /\ local' = [local EXCEPT ![t] = value] /\ Go(t, label)
  /\ UNCHANGED <<permits, waiting, shared>>

Write(t, variable, value, label) ==
  /\ shared' = [shared EXCEPT ![variable] = value] /\ Go(t, label)
  /\ UNCHANGED <<permits, waiting, local>>

Jump(t, label) == Go(t, label) /\ UNCHANGED <<permits, waiting, shared, local>>

\* What the master has done before it starts its slaves.
Prepared(sems, variables, program) ==
  /\ permits = [s \in Sem |-> IF s \in DOMAIN sems THEN sems[s] ELSE None]
  /\ waiting = [s \in Sem |-> <<>>]
  /\ shared = variables
  /\ pc = program
  /\ local = [t \in Thread |-> 0]

\* (*finishedCount)++ is a load and a store.
CountFinished(t) ==
  \/ At(t, "load") /\ Read(t, shared.finishedCount, "store")
  \/ At(t, "store") /\ Write(t, "finishedCount", local[t] + 1, "done")

Finished(t) == pc[t] = "done"
=============================================================================
