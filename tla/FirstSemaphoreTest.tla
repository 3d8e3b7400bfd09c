------------------------- MODULE FirstSemaphoreTest -------------------------
(***************************************************************************)
(* user/tst_semaphore_1master.c and tst_semaphore_1slave.c: three slaves   *)
(* enter a critical section and check from inside it that the value of its *)
(* semaphore is not positive.                                              *)
(***************************************************************************)
EXTENDS Programs, FiniteSets

CONSTANT Entrant     \* the threads that run the slave

ASSUME EntrantAssumption == Entrant \subseteq Slaves

cs1 == <<"cs1", 0>>
depend1 == <<"depend1", 0>>

Sem1Init == Prepared([s \in {cs1, depend1} |-> IF s = cs1 THEN 1 ELSE 0], <<>>,
                     [t \in Thread |-> IF t = Master THEN "wait"
                                       ELSE IF t \in Entrant THEN "enter" ELSE "done"])

SemValue(s) == permits[s] - Len(waiting[s])

Sem1Slave(t) ==
  \/ At(t, "enter") /\ sys_waitSemaphore(t, cs1, "inside")
  \/ At(t, "inside") /\ Jump(t, IF SemValue(cs1) > 0 THEN "panic" ELSE "leave")
  \/ At(t, "leave") /\ sys_signalSemaphore(t, cs1, "tell")
  \/ At(t, "tell") /\ sys_signalSemaphore(t, depend1, "done")

Sem1Master(t) ==
  \/ /\ At(t, "wait") /\ local[t] < Cardinality(Entrant)
     /\ Wait(t, depend1)
     /\ local' = [local EXCEPT ![t] = @ + 1]
     /\ UNCHANGED <<pc, shared>>
  \/ /\ At(t, "wait") /\ local[t] = Cardinality(Entrant)
     /\ Jump(t, IF SemValue(cs1) = 1 /\ SemValue(depend1) = 0 THEN "done" ELSE "error")

Sem1Step(t) == \/ t = Master /\ Sem1Master(t)
               \/ t \in Entrant /\ Sem1Slave(t)

-----------------------------------------------------------------------------
(* Properties.                                                             *)

Within == {t \in Entrant : At(t, "inside") \/ At(t, "leave")}

\* One slave at a time is inside, none finds the semaphore positive there and
\* the master finds the values the test calls success.
TestSucceeds == Cardinality(Within) <= 1 /\ \A t \in Thread : pc[t] \notin {"panic", "error"}
=============================================================================
