--------------------------- MODULE FifoSemaphores ---------------------------
(***************************************************************************)
(* What semaphores promise the programs: permits that a wait takes and a   *)
(* signal gives, and waiters that are served in the order they came.  A    *)
(* signal hands its permit to the first waiter, so that nobody who comes   *)
(* later can take it.                                                      *)
(***************************************************************************)
EXTENDS Naturals, Sequences, SequencesExt

CONSTANTS Thread, Sem,
          Initial,  \* initial values of semaphores
          None      \* stands for the permits of a semaphore that is not there

VARIABLES permits, waiting

Waiters == UNION {ToSet(waiting[s]) : s \in Sem}

Exists(s) == permits[s] # None

Create(s, v) == /\ ~Exists(s)
                /\ permits' = [permits EXCEPT ![s] = v]
                /\ UNCHANGED waiting

\* A thread that finds no permit queues up; it goes on once it has left the
\* queue.
Wait(t, s) == /\ Exists(s) /\ t \notin Waiters
              /\ \/ /\ permits[s] > 0
                    /\ permits' = [permits EXCEPT ![s] = @ - 1]
                    /\ UNCHANGED waiting
                 \/ /\ permits[s] = 0
                    /\ waiting' = [waiting EXCEPT ![s] = Append(@, t)]
                    /\ UNCHANGED permits

Signal(s) == /\ Exists(s)
             /\ \/ /\ waiting[s] # <<>>
                   /\ waiting' = [waiting EXCEPT ![s] = Tail(@)]
                   /\ UNCHANGED permits
                \/ /\ waiting[s] = <<>>
                   /\ permits' = [permits EXCEPT ![s] = @ + 1]
                   /\ UNCHANGED waiting

\* The one failure the kernel has: all semaphores disappear at once, with the
\* queues of those who wait.
LoseAll == /\ permits' = [s \in Sem |-> None]
           /\ waiting' = [s \in Sem |-> <<>>]

Init == /\ permits = [s \in Sem |-> None]
        /\ waiting = [s \in Sem |-> <<>>]

Next == \/ \E s \in Sem, v \in Initial : Create(s, v)
        \/ \E t \in Thread, s \in Sem : Wait(t, s)
        \/ \E s \in Sem : Signal(s)
        \/ LoseAll

Spec == Init /\ [][Next]_<<permits, waiting>>
=============================================================================
