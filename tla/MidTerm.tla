------------------------------ MODULE MidTerm ------------------------------
(***************************************************************************)
(* user/MidTermEx_Master.c, MidTermEx_ProcessA.c, MidTermEx_ProcessB.c:    *)
(* A doubles X and B adds one, each with delays between its read and its   *)
(* write.  With the semaphore T, B waits until A has stored its result.    *)
(* The master waits by reading finishedCount again and again.              *)
(***************************************************************************)
EXTENDS Programs

CONSTANTS ProcessA, ProcessB, X0   \* the two slaves, and the first value of X

ASSUME MidTermAssumption == {ProcessA, ProcessB} \subseteq Slaves /\ ProcessA # ProcessB

T == <<"T", 0>>

MidTermInit ==
  \E useSem \in BOOLEAN :
    Prepared([s \in IF useSem THEN {T} ELSE {} |-> 0],
             [X |-> X0, useSem |-> useSem, finishedCount |-> 0],
             [t \in Thread |-> IF t = Master THEN "spin"
                               ELSE IF t = ProcessA THEN "read"
                               ELSE IF t = ProcessB THEN "first" ELSE "done"])

DoubleX(t) ==
  \/ At(t, "read") /\ Read(t, shared.X * 2, "write")
  \/ At(t, "write") /\ Write(t, "X", local[t], "then")
  \/ At(t, "then") /\ shared.useSem /\ sys_signalSemaphore(t, T, "load")
  \/ At(t, "then") /\ ~shared.useSem /\ Jump(t, "load")

IncrementX(t) ==
  \/ At(t, "first") /\ shared.useSem /\ sys_waitSemaphore(t, T, "read")
  \/ At(t, "first") /\ ~shared.useSem /\ Jump(t, "read")
  \/ At(t, "read") /\ Read(t, shared.X + 1, "write")
  \/ At(t, "write") /\ Write(t, "X", local[t], "load")

Spin(t) == At(t, "spin") /\ Jump(t, IF shared.finishedCount = 2 THEN "done" ELSE "spin")

MidTermStep(t) == \/ t = Master /\ Spin(t)
                  \/ t = ProcessA /\ (DoubleX(t) \/ CountFinished(t))
                  \/ t = ProcessB /\ (IncrementX(t) \/ CountFinished(t))

-----------------------------------------------------------------------------
(* Properties.                                                             *)

(***************************************************************************)
(* The value the master prints: with the semaphore the one of A before B;  *)
(* without it also that of B before A, or of whoever stored last after     *)
(* both had read X.                                                        *)
(***************************************************************************)
PrintedRight ==
  Finished(Master) =>
    shared.X \in IF shared.useSem THEN {X0 * 2 + 1}
                 ELSE {X0 * 2 + 1, (X0 + 1) * 2, X0 * 2, X0 + 1}

\* The master goes on, or one of the two increments of finishedCount is lost.
MidTermEnds == \/ Finished(Master)
               \/ Finished(ProcessA) /\ Finished(ProcessB) /\ shared.finishedCount < 2
=============================================================================
