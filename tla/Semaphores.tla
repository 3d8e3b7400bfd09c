----------------------------- MODULE Semaphores -----------------------------
(***************************************************************************)
(* The kernel semaphores (kern/semaphore_manager.c) on top of the          *)
(* scheduler, and the system calls that reach them (kern/syscall.c).       *)
(*                                                                         *)
(* The name of a semaphore is passed as a pointer to user memory.  When    *)
(* its page is not in memory the kernel faults while it reads the name;    *)
(* trap() serves the fault and then runs curenv's saved user context, so   *)
(* the rest of the system call is never executed (trap.c:293-295).         *)
(***************************************************************************)
EXTENDS Sched

CONSTANTS Name,             \* semaphore names
          NoName,           \* the empty name of a cleared semaphore object
          MAX_SEMAPHORES,   \* length of the array "semaphores"
          InitialValue,     \* initial values passed to createSemaphore
          MaxValue          \* bound: no signal raises a value above it

ASSUME SemAssumption ==
  /\ NoName \notin Name
  /\ MAX_SEMAPHORES \in Nat \ {0}
  /\ MaxValue \in Nat
  /\ InitialValue \subseteq 0..MaxValue
  /\ NULL \notin 0..MaxValue

\* The array, or NULL once krealloc() has replaced it by the null pointer.
VARIABLE semaphores

vars == <<sch, semaphores>>

Slot == 0..MAX_SEMAPHORES - 1

Semaphore == [empty: BOOLEAN, ownerID: Env \cup {NULL}, name: Name \cup {NoName},
              value: Int, env_queue: Seq(Env)]

EmptySemaphore == [empty |-> TRUE, ownerID |-> NULL, name |-> NoName,
                   value |-> 0, env_queue |-> <<>>]

\* The null pointer is no array.
ASSUME NullAssumption == NULL \notin [Slot -> Semaphore]

Lost == semaphores = NULL

-----------------------------------------------------------------------------
Matches(i, owner, name) == /\ ~semaphores[i].empty
                           /\ semaphores[i].ownerID = owner
                           /\ semaphores[i].name = name

\* Mutant: the names are not compared.
MutNameIgnored(i, owner, name) ==
  LET Owned(j) == ~semaphores[j].empty /\ semaphores[j].ownerID = owner
  IN  Owned(i) /\ \A j \in Slot : j < i => ~Owned(j)

\* Slot i is the first one of the scan that matches.
Found(i, owner, name) == /\ Matches(i, owner, name)
                         /\ \A j \in Slot : j < i => ~Matches(j, owner, name)

NotFound(owner, name) == \A i \in Slot : ~Matches(i, owner, name)

FirstEmpty(i) == /\ semaphores[i].empty
                 /\ \A j \in Slot : j < i => ~semaphores[j].empty

Full == \A i \in Slot : ~semaphores[i].empty

\* Mutant: the queue grows at its tail.
MutLifo(q, e) == Append(q, e)

\* The queue grows at its head and is served from its tail.
enqueue(q, e) == <<e>> \o q

\* Mutant: the youngest entry is removed.
MutRemovesHead(q) == Tail(q)

dequeue(q) == Front(q)

-----------------------------------------------------------------------------
create_semaphores_array == semaphores = [i \in Slot |-> EmptySemaphore]

\* Mutant: an existing semaphore is not looked for.
MutNameNotChecked(name, initialValue) ==
  /\ Running /\ ~Lost
  /\ \E i \in Slot :
       /\ FirstEmpty(i)
       /\ semaphores' = [semaphores EXCEPT
                           ![i].empty = FALSE, ![i].ownerID = sch.cur,
                           ![i].name = name, ![i].value = initialValue]
  /\ UNCHANGED sch

\* createSemaphore succeeds: the owner is the calling environment.
createSemaphore(name, initialValue) ==
  /\ Running /\ ~Lost
  /\ NotFound(sch.cur, name)
  /\ \E i \in Slot :
       /\ FirstEmpty(i)
       /\ semaphores' = [semaphores EXCEPT
                           ![i].empty = FALSE, ![i].ownerID = sch.cur,
                           ![i].name = name, ![i].value = initialValue]
  /\ UNCHANGED sch

\* The array is full: allocate_semaphore_object stores the result of krealloc(),
\* always NULL, in "semaphores" and reports E_NO_SEMAPHORE.
createSemaphoreFull(name) ==
  /\ Running /\ ~Lost
  /\ NotFound(sch.cur, name)
  /\ Full
  /\ semaphores' = NULL
  /\ UNCHANGED sch

\* The name's page is out of memory.  With no other semaphore of this owner the
\* scan compares no name, so the slot is taken before strcpy() faults.
createSemaphoreAbandoned ==
  /\ Running /\ ~Lost
  /\ \A i \in Slot : semaphores[i].ownerID = sch.cur => semaphores[i].empty
  /\ \E i \in Slot : /\ FirstEmpty(i)
                     /\ semaphores' = [semaphores EXCEPT ![i].empty = FALSE]
  /\ UNCHANGED sch

\* Mutant: wait blocks while a permit is left.
MutBlocksEarly(owner, name) ==
  /\ Running /\ ~Lost
  /\ \E i \in Slot :
       /\ Found(i, owner, name)
       /\ \/ /\ semaphores[i].value - 1 <= 0
             /\ semaphores' = [semaphores EXCEPT ![i].value = @ - 1,
                                                 ![i].env_queue = enqueue(@, sch.cur)]
             /\ sch' = fos_scheduler([sched_remove_ready(sch, sch.cur)
                                        EXCEPT !.st[sch.cur] = "BLOCKED"])
          \/ /\ semaphores[i].value - 1 > 0
             /\ semaphores' = [semaphores EXCEPT ![i].value = @ - 1]
             /\ sch' = fos_scheduler(sch)

\* Mutant: a blocked environment stays in the ready queue.
MutStaysReady(owner, name) ==
  /\ Running /\ ~Lost
  /\ \E i \in Slot :
       /\ Found(i, owner, name)
       /\ \/ /\ semaphores[i].value - 1 < 0
             /\ semaphores' = [semaphores EXCEPT ![i].value = @ - 1,
                                                 ![i].env_queue = enqueue(@, sch.cur)]
             /\ sch' = fos_scheduler([sch EXCEPT !.st[sch.cur] = "BLOCKED"])
          \/ /\ semaphores[i].value - 1 >= 0
             /\ semaphores' = [semaphores EXCEPT ![i].value = @ - 1]
             /\ sch' = fos_scheduler(sch)

\* Mutant: a wait that does not block takes no permit.
MutTakesNoPermit(owner, name) ==
  /\ Running /\ ~Lost
  /\ \E i \in Slot :
       /\ Found(i, owner, name)
       /\ \/ /\ semaphores[i].value - 1 < 0
             /\ semaphores' = [semaphores EXCEPT ![i].value = @ - 1,
                                                 ![i].env_queue = enqueue(@, sch.cur)]
             /\ sch' = fos_scheduler([sched_remove_ready(sch, sch.cur)
                                        EXCEPT !.st[sch.cur] = "BLOCKED"])
          \/ /\ semaphores[i].value - 1 >= 0
             /\ UNCHANGED semaphores
             /\ sch' = fos_scheduler(sch)

waitSemaphore(owner, name) ==
  /\ Running /\ ~Lost
  /\ \E i \in Slot :
       /\ Found(i, owner, name)
       /\ \/ /\ semaphores[i].value - 1 < 0
             /\ semaphores' = [semaphores EXCEPT ![i].value = @ - 1,
                                                 ![i].env_queue = enqueue(@, sch.cur)]
             /\ sch' = fos_scheduler([sched_remove_ready(sch, sch.cur)
                                        EXCEPT !.st[sch.cur] = "BLOCKED"])
          \/ /\ semaphores[i].value - 1 >= 0
             /\ semaphores' = [semaphores EXCEPT ![i].value = @ - 1]
             /\ sch' = fos_scheduler(sch)

\* Mutant: the last waiter is not released.
MutLastNotReleased(owner, name) ==
  /\ Running /\ ~Lost
  /\ \E i \in Slot :
       /\ Found(i, owner, name)
       /\ semaphores[i].value < MaxValue
       /\ \/ /\ semaphores[i].value + 1 < 0
             /\ semaphores' = [semaphores EXCEPT ![i].value = @ + 1,
                                                 ![i].env_queue = dequeue(@)]
             /\ sch' = sched_insert_ready(sch, Last(semaphores[i].env_queue))
          \/ /\ semaphores[i].value + 1 >= 0
             /\ semaphores' = [semaphores EXCEPT ![i].value = @ + 1]
             /\ UNCHANGED sch

signalSemaphore(owner, name) ==
  /\ Running /\ ~Lost
  /\ \E i \in Slot :
       /\ Found(i, owner, name)
       /\ semaphores[i].value < MaxValue
       /\ \/ /\ semaphores[i].value + 1 <= 0
             /\ semaphores' = [semaphores EXCEPT ![i].value = @ + 1,
                                                 ![i].env_queue = dequeue(@)]
             /\ sch' = sched_insert_ready(sch, Last(semaphores[i].env_queue))
          \/ /\ semaphores[i].value + 1 > 0
             /\ semaphores' = [semaphores EXCEPT ![i].value = @ + 1]
             /\ UNCHANGED sch

\* sys_getSemaphoreValue asserts that the semaphore exists.
getSemaphoreValueFails(owner, name) ==
  /\ Running /\ ~Lost
  /\ NotFound(owner, name)
  /\ sch' = panic(sch)
  /\ UNCHANGED semaphores

\* Once the array is lost every semaphore call reads through a null pointer and
\* the page fault handler panics: there is no such page in the page file.
LostArrayFault ==
  /\ Running /\ Lost
  /\ sch' = panic(sch)
  /\ UNCHANGED semaphores

Init == SchedInit /\ create_semaphores_array

Next ==
  \/ SchedNext /\ UNCHANGED semaphores
  \/ \E name \in Name, v \in InitialValue : createSemaphore(name, v)
  \/ \E name \in Name : createSemaphoreFull(name)
  \/ createSemaphoreAbandoned
  \/ \E owner \in Env, name \in Name : waitSemaphore(owner, name)
  \/ \E owner \in Env, name \in Name : signalSemaphore(owner, name)
  \/ \E owner \in Env, name \in Name : getSemaphoreValueFails(owner, name)
  \/ LostArrayFault

Spec == Init /\ [][Next]_vars

-----------------------------------------------------------------------------
(* Properties.                                                             *)

Live(i) == ~semaphores[i].empty

(***************************************************************************)
(* A negative value counts the waiting environments: the queue of a        *)
(* semaphore has -value of them, and none while the value is not negative. *)
(* signalSemaphore takes the queue's last element on the strength of the   *)
(* value alone, and would follow a null pointer if the two disagreed.      *)
(***************************************************************************)
QueueLengthMatchesValue ==
  ~Lost => \A i \in Slot :
    Len(semaphores[i].env_queue) =
      IF semaphores[i].value < 0 THEN -semaphores[i].value ELSE 0

(***************************************************************************)
(* Exactly the blocked environments wait, each in one queue and once: a    *)
(* blocked environment outside every queue could never be woken, and one   *)
(* in two queues would be woken twice and sit in the ready queue twice.    *)
(***************************************************************************)
BlockedExactlyInOneQueue ==
  ~Lost =>
    /\ \A e \in Env : sch.st[e] = "BLOCKED" <=>
         \E i \in Slot : Contains(semaphores[i].env_queue, e)
    /\ \A i, j \in Slot : \A e \in Env :
         Contains(semaphores[i].env_queue, e) /\ Contains(semaphores[j].env_queue, e)
           => i = j
    /\ \A i \in Slot : NoDuplicates(semaphores[i].env_queue)

(***************************************************************************)
(* At most one live semaphore has a given owner and name, so wait, signal  *)
(* and getSemaphoreValue all act on the same object.                       *)
(***************************************************************************)
NamesUnique ==
  ~Lost => \A i, j \in Slot :
    Live(i) /\ semaphores[i].name # NoName
    /\ Matches(j, semaphores[i].ownerID, semaphores[i].name) => i = j

\* What the programs see of a semaphore: its permits, none of them while its
\* value is negative, and its waiters in the order they came.  A slot taken by a
\* creation that was abandoned has no name and can be reached by nobody.
permitsBar == [i \in Slot |-> IF Lost \/ semaphores[i].name = NoName THEN NULL
                             ELSE IF semaphores[i].value < 0 THEN 0
                             ELSE semaphores[i].value]

waitingBar == [i \in Slot |-> IF Lost THEN <<>> ELSE Reverse(semaphores[i].env_queue)]

\* Semaphores with a count of permits and a queue in order of arrival.
Fifo == INSTANCE FifoSemaphores WITH
          Thread <- Env, Sem <- Slot, Initial <- InitialValue, None <- NULL,
          permits <- permitsBar, waiting <- waitingBar

(***************************************************************************)
(* The signed value and the queue that fills at its head implement FIFO    *)
(* semaphores: a wait takes a permit or queues the caller last, a signal   *)
(* releases the one who has waited longest or adds a permit, nothing else  *)
(* in the kernel (ticks, kills, exits, failed calls) touches them, and     *)
(* they are lost only all at once.                                         *)
(***************************************************************************)
ImplementsFifo == Fifo!Spec

(***************************************************************************)
(* A semaphore, once created, exists until it is freed, and nothing frees  *)
(* one.  (Not true of the code: see the run sem_array_lost.)               *)
(***************************************************************************)
SemaphoresPersist ==
  [][\A owner \in Env, name \in Name :
       ~Lost /\ ~NotFound(owner, name) => ~Lost' /\ ~NotFound(owner, name)']_semaphores
=============================================================================
