----------------------------- MODULE SemProofs -----------------------------
(***************************************************************************)
(* Proofs about the kernel semaphores, for every set of environments and   *)
(* of names, every number of semaphores and every initial value: value and *)
(* queue agree, exactly the blocked environments wait, and the semaphores  *)
(* are those of FifoSemaphores.                                            *)
(***************************************************************************)
EXTENDS Semaphores, SchedProofs

-----------------------------------------------------------------------------
(* The scheduler neither blocks nor unblocks anybody: only waitSemaphore   *)
(* and signalSemaphore do.                                                 *)

SameBlocked(s, t) == \A e \in Env : t.st[e] = "BLOCKED" <=> s.st[e] = "BLOCKED"

\* fos_scheduler changes no status.
LEMMA FosKeepsStatus ==
  ASSUME NEW s \in SchedState
  PROVE  fos_scheduler(s).st = s.st
BY DEF fos_scheduler, SchedState

\* A status that is not ENV_BLOCKED may change to another such status.
LEMMA StatusChange ==
  ASSUME NEW s \in SchedState, NEW e \in Env, s.st[e] # "BLOCKED",
         NEW v \in EnvStatus \ {"BLOCKED"}, NEW t, t.st = [s.st EXCEPT ![e] = v]
  PROVE  SameBlocked(s, t)
BY DEF SameBlocked, SchedState

\* The end of the running environment changes its own status only.
LEMMA EnvExitStatus ==
  ASSUME NEW s, WellFormed(s), s.cur \in Env, s.st[s.cur] = "READY"
  PROVE  env_exit(s).st = [s.st EXCEPT ![s.cur] = "EXIT"]
<1> DEFINE r == sched_remove_ready(s, s.cur)
           t == sched_insert_exit(r, s.cur)
<1>1. ~Contains(s.new, s.cur) /\ s \in SchedState
  BY DEF WellFormed, QueuesOK
<1>2. WellFormed(r) /\ Detached(r, s.cur) /\ r.st = [s.st EXCEPT ![s.cur] = "UNKNOWN"]
  BY RemoveReady
<1>3. WellFormed(t) /\ t.st = [r.st EXCEPT ![s.cur] = "EXIT"]
  BY <1>2, InsertExit
<1>4. env_exit(s) = fos_scheduler(t)
  BY <1>1 DEF env_exit, sched_exit_env
<1> HIDE DEF r, t
<1>5. env_exit(s).st = t.st
  BY <1>3, <1>4, FosKeepsStatus DEF WellFormed
<1>6. t.st = [s.st EXCEPT ![s.cur] = "EXIT"]
  BY <1>1, <1>2, <1>3 DEF SchedState
<1>7. QED
  BY <1>5, <1>6

\* So it blocks nobody,
LEMMA EnvExitBlocks ==
  ASSUME NEW s, WellFormed(s), s.cur \in Env, s.st[s.cur] = "READY"
  PROVE  SameBlocked(s, env_exit(s))
<1> DEFINE t == env_exit(s)
<1>1. t.st = [s.st EXCEPT ![s.cur] = "EXIT"] /\ s \in SchedState
  BY EnvExitStatus DEF WellFormed
<1> HIDE DEF t
<1>2. SameBlocked(s, t)
  BY <1>1, StatusChange DEF EnvStatus
<1>3. QED
  BY <1>2 DEF t

\* nor a panic,
LEMMA PanicBlocks ==
  ASSUME NEW s, WellFormed(s)
  PROVE  SameBlocked(s, panic(s))
<1>1. s.cur \in Env \cup {NULL} /\ s \in SchedState
  BY DEF WellFormed, SchedState
<1>2. CASE s.cur # NULL /\ s.st[s.cur] = "READY"
  BY <1>1, <1>2, EnvExitBlocks DEF panic
<1>3. CASE ~(s.cur # NULL /\ s.st[s.cur] = "READY")
  <2>1. panic(s) = fos_scheduler(s)
    BY <1>3 DEF panic
  <2>2. QED
    BY <1>1, <2>1, FosKeepsStatus DEF SameBlocked
<1>4. QED
  BY <1>2, <1>3

\* also after the status of an environment that was not blocked has changed,
LEMMA ThenPanic ==
  ASSUME NEW s \in SchedState, NEW t, WellFormed(t), SameBlocked(s, t)
  PROVE  SameBlocked(s, panic(t))
BY PanicBlocks DEF SameBlocked

\* nor the kill of an environment,
LEMMA KillBlocks ==
  ASSUME NEW s, WellFormed(s), NEW e \in Env
  PROVE  SameBlocked(s, sched_kill_env(s, e))
<1>1. s \in SchedState /\ QueuesOK(s)
  BY DEF WellFormed
<1>2. CASE Contains(s.new, e)
  <2> DEFINE r == sched_remove_new(s, e)
  <2>1. WellFormed(r) /\ r.st = [s.st EXCEPT ![e] = "UNKNOWN"]
    BY <1>2, RemoveNew
  <2>2. s.st[e] = "NEW"
    BY <1>1, <1>2 DEF QueuesOK
  <2>3. sched_kill_env(s, e) = panic(r)
    BY <1>2 DEF sched_kill_env, start_env_free
  <2> HIDE DEF r
  <2>4. SameBlocked(s, r)
    BY <1>1, <2>1, <2>2, StatusChange DEF EnvStatus
  <2>5. QED
    BY <1>1, <2>1, <2>3, <2>4, ThenPanic
<1>3. CASE ~Contains(s.new, e) /\ Contains(s.ready, e)
  <2> DEFINE r == sched_remove_ready(s, e)
  <2>1. s.st[e] = "READY"
    BY <1>1, <1>3 DEF QueuesOK
  <2>2. WellFormed(r) /\ r.st = [s.st EXCEPT ![e] = "UNKNOWN"]
    BY <2>1, RemoveReady
  <2>3. sched_kill_env(s, e) = panic(r)
    BY <1>3 DEF sched_kill_env, start_env_free
  <2> HIDE DEF r
  <2>4. SameBlocked(s, r)
    BY <1>1, <2>1, <2>2, StatusChange DEF EnvStatus
  <2>5. QED
    BY <1>1, <2>2, <2>3, <2>4, ThenPanic
<1>4. CASE ~Contains(s.new, e) /\ ~Contains(s.ready, e) /\ Contains(s.exit, e)
  <2> DEFINE r == sched_remove_exit(s, e)
  <2>1. WellFormed(r) /\ r.st = [s.st EXCEPT ![e] = "UNKNOWN"]
    BY <1>4, RemoveExit
  <2>2. s.st[e] = "EXIT"
    BY <1>1, <1>4 DEF QueuesOK
  <2>3. sched_kill_env(s, e) = panic(r)
    BY <1>4 DEF sched_kill_env, start_env_free
  <2> HIDE DEF r
  <2>4. SameBlocked(s, r)
    BY <1>1, <2>1, <2>2, StatusChange DEF EnvStatus
  <2>5. QED
    BY <1>1, <2>1, <2>3, <2>4, ThenPanic
<1>5. CASE ~Contains(s.new, e) /\ ~Contains(s.ready, e) /\ ~Contains(s.exit, e)
  BY <1>5 DEF sched_kill_env, SameBlocked
<1>6. QED
  BY <1>2, <1>3, <1>4, <1>5

\* nor running one that is new, which makes it ready,
LEMMA RunEnvStatus ==
  ASSUME NEW s, WellFormed(s), NEW e \in Env
  PROVE  sched_run_env(s, e).st = IF Contains(s.new, e) THEN [s.st EXCEPT ![e] = "READY"]
                                                       ELSE s.st
<1> DEFINE u == sched_remove_new(s, e)
           r == sched_insert_ready(u, e)
<1>1. CASE ~Contains(s.new, e)
  BY <1>1 DEF sched_run_env
<1>2. CASE Contains(s.new, e)
  <2>1. s \in SchedState /\ s.st[e] = "NEW"
    BY <1>2 DEF WellFormed, QueuesOK
  <2>2. WellFormed(u) /\ Detached(u, e) /\ u.st = [s.st EXCEPT ![e] = "UNKNOWN"]
    BY <1>2, RemoveNew
  <2>3. sched_run_env(s, e) = IF s.started THEN r ELSE fos_scheduler(r)
    BY <1>2 DEF sched_run_env
  <2> HIDE DEF u
  <2>4. WellFormed(r) /\ r.st = [u.st EXCEPT ![e] = "READY"]
    BY <2>2, InsertReady
  <2> HIDE DEF r
  <2>5. r.st = [s.st EXCEPT ![e] = "READY"]
    BY <2>1, <2>2, <2>4 DEF SchedState
  <2>6. sched_run_env(s, e).st = r.st
    BY <2>3, <2>4, FosKeepsStatus DEF WellFormed
  <2>7. QED
    BY <1>2, <2>5, <2>6
<1>3. QED
  BY <1>1, <1>2

\* so that it blocks nobody either,
LEMMA RunEnvBlocks ==
  ASSUME NEW s, WellFormed(s), NEW e \in Env
  PROVE  SameBlocked(s, sched_run_env(s, e))
<1>1. CASE ~Contains(s.new, e)
  BY <1>1, RunEnvStatus DEF SameBlocked
<1>2. CASE Contains(s.new, e)
  <2> DEFINE t == sched_run_env(s, e)
  <2>1. s \in SchedState /\ s.st[e] = "NEW"
    BY <1>2 DEF WellFormed, QueuesOK
  <2>2. t.st = [s.st EXCEPT ![e] = "READY"]
    BY <1>2, RunEnvStatus
  <2> HIDE DEF t
  <2>3. SameBlocked(s, t)
    BY <2>1, <2>2, StatusChange DEF EnvStatus
  <2>4. QED
    BY <2>3 DEF t
<1>3. QED
  BY <1>1, <1>2

\* nor running all that are new.
LEMMA RunAllBlocks ==
  ASSUME NEW s, WellFormed(s), s.started = FALSE
  PROVE  SameBlocked(s, sched_run_all(s))
<1> DEFINE f == [e \in Env |-> IF Contains(s.new, e) THEN "READY" ELSE s.st[e]]
           at == Position(s.ready, s.next)
           n == IF s.next = NULL /\ s.new # <<>> THEN Head(s.new) ELSE s.next
           q == IF s.new = <<>> THEN s.ready
                ELSE IF s.next = NULL
                THEN s.ready \o Append(Tail(s.new), Head(s.new))
                ELSE SubSeq(s.ready, 1, at - 1) \o s.new
                     \o SubSeq(s.ready, at, Len(s.ready))
           t == [s EXCEPT !.new = <<>>, !.st = f, !.next = n, !.ready = q]
<1>1. sched_run_all(s) = fos_scheduler(t)
  BY DEF sched_run_all
<1> HIDE DEF n, q
<1>2. s \in SchedState /\ t.st = f
  BY DEF WellFormed, SchedState
<1>3. fos_scheduler(t).st = f
  BY <1>2 DEF fos_scheduler, SchedState
<1>4. \A e \in Env : Contains(s.new, e) => s.st[e] = "NEW"
  BY DEF WellFormed, QueuesOK
<1>5. QED
  BY <1>1, <1>3, <1>4 DEF SameBlocked

\* No step of the scheduler changes who is blocked.
LEMMA SchedStepBlocks == SchedInv /\ SchedNext => SameBlocked(sch, sch')
<1> SUFFICES ASSUME SchedInv, SchedNext PROVE SameBlocked(sch, sch')
  OBVIOUS
<1>0. WellFormed(sch) /\ CurOK(sch) /\ sch \in SchedState /\ QueuesOK(sch)
  BY DEF SchedInv, WellFormed
<1>1. CASE clock_interrupt_handler
  BY <1>0, <1>1, FosKeepsStatus DEF clock_interrupt_handler, SameBlocked
<1>2. CASE sys_disable_interrupt \/ sys_enable_interrupt
  BY <1>0, <1>2 DEF sys_disable_interrupt, sys_enable_interrupt, SchedState, SameBlocked
<1>3. ASSUME NEW e \in sch.free
      PROVE  LET c == env_create(sch, e)
             IN  e \in Env /\ WellFormed(c) /\ SameBlocked(sch, c) /\ Detached(c, e)
  <2> DEFINE c == env_create(sch, e)
  <2>1. e \in Env /\ sch.st[e] \in {"FREE", "UNKNOWN"}
    BY <1>0 DEF SchedState, QueuesOK
  <2>2. WellFormed(c) /\ Detached(c, e) /\ c.st = [sch.st EXCEPT ![e] = "NEW"]
    BY <1>0, EnvCreate
  <2> HIDE DEF c
  <2>3. SameBlocked(sch, c)
    BY <1>0, <2>1, <2>2, StatusChange DEF EnvStatus
  <2>4. QED
    BY <2>1, <2>2, <2>3 DEF c
<1>4. ASSUME NEW e \in sch.free
      PROVE  LET t == sched_insert_new(env_create(sch, e), e)
             IN  e \in Env /\ WellFormed(t) /\ SameBlocked(sch, t)
  <2> DEFINE c == env_create(sch, e)
             t == sched_insert_new(c, e)
  <2>1. e \in Env /\ sch.st[e] \in {"FREE", "UNKNOWN"}
    BY <1>0 DEF SchedState, QueuesOK
  <2>2. WellFormed(c) /\ Detached(c, e) /\ c.st = [sch.st EXCEPT ![e] = "NEW"]
    BY <1>0, EnvCreate
  <2> HIDE DEF c
  <2>3. WellFormed(t) /\ t.st = [c.st EXCEPT ![e] = "NEW"]
    BY <2>1, <2>2, InsertNew
  <2> HIDE DEF t
  <2>4. t.st = [sch.st EXCEPT ![e] = "NEW"]
    BY <1>0, <2>1, <2>2, <2>3 DEF SchedState
  <2>5. SameBlocked(sch, t)
    BY <1>0, <2>1, <2>4, StatusChange DEF EnvStatus
  <2>6. QED
    BY <2>1, <2>3, <2>5 DEF t, c
<1>5. ASSUME NEW e \in Env, LoadEnv(e) PROVE SameBlocked(sch, sch')
  BY <1>4, <1>5 DEF LoadEnv
<1>6. ASSUME NEW e \in Env, LoadEnvFailsEarly(e) PROVE SameBlocked(sch, sch')
  <2> DEFINE f == [sch.st EXCEPT ![e] = "UNKNOWN"]
             t == [sch EXCEPT !.st = f]
  <2>1. sch' = panic(t) /\ e \in sch.free
    BY <1>0, <1>6 DEF LoadEnvFailsEarly, SchedState
  <2>2. sch.st[e] \in {"FREE", "UNKNOWN"}
    BY <1>0, <2>1 DEF QueuesOK
  <2>3. WellFormed(t) /\ t.st = f
    BY <1>0, <2>1, FreeRenamed
  <2> HIDE DEF t
  <2>4. SameBlocked(sch, t)
    BY <1>0, <2>2, <2>3, StatusChange DEF EnvStatus
  <2>5. QED
    BY <1>0, <2>1, <2>3, <2>4, ThenPanic
<1>7. ASSUME NEW e \in Env, LoadEnvFailsLate(e) PROVE SameBlocked(sch, sch')
  BY <1>0, <1>3, <1>7, ThenPanic DEF LoadEnvFailsLate
<1>8. ASSUME NEW e \in Env, sys_run_env(e) PROVE SameBlocked(sch, sch')
  BY <1>0, <1>8, RunEnvBlocks DEF sys_run_env
<1>9. ASSUME NEW e \in Env, command_run_program(e) PROVE SameBlocked(sch, sch')
  BY <1>4, <1>9, RunEnvBlocks DEF command_run_program, SameBlocked
<1>10. CASE command_run_all
  BY <1>0, <1>10, RunAllBlocks DEF command_run_all, AtPrompt, CurOK, SchedState
<1>11. ASSUME NEW e \in Env, KillEnv(e) PROVE SameBlocked(sch, sch')
  BY <1>0, <1>11, KillBlocks DEF KillEnv
<1>12. CASE command_kill_all
  <2>1. /\ sch.new # <<>> => Head(sch.new) \in Env
        /\ sch.ready # <<>> => Head(sch.ready) \in Env
        /\ sch.exit # <<>> => Head(sch.exit) \in Env
    BY <1>0 DEF SchedState
  <2>2. SameBlocked(sch, fos_scheduler(sch))
    BY <1>0, FosKeepsStatus DEF SameBlocked
  <2>3. QED
    BY <1>0, <1>12, <2>1, <2>2, KillBlocks DEF command_kill_all, sched_kill_all
<1>13. CASE ExitEnv
  <2>1. sch.cur \in Env /\ sch.st[sch.cur] = "READY"
    BY <1>0, <1>13 DEF ExitEnv, Running, CurOK, SchedState
  <2>2. QED
    BY <1>0, <1>13, <2>1, EnvExitBlocks DEF ExitEnv
<1>14. QED
  BY <1>1, <1>2, <1>5, <1>6, <1>7, <1>8, <1>9, <1>10, <1>11, <1>12, <1>13
  DEF SchedNext

-----------------------------------------------------------------------------
(* The waiting queues.                                                     *)

\* enqueue adds exactly the given environment.
LEMMA Enqueue ==
  ASSUME NEW q \in Seq(Env), NoDuplicates(q), NEW e \in Env, ~Contains(q, e)
  PROVE  /\ enqueue(q, e) \in Seq(Env) /\ NoDuplicates(enqueue(q, e))
         /\ Len(enqueue(q, e)) = Len(q) + 1
         /\ \A x : Contains(enqueue(q, e), x) <=> Contains(q, x) \/ x = e
<1> DEFINE r == enqueue(q, e)
<1>1. /\ r \in Seq(Env) /\ Len(r) = Len(q) + 1
      /\ \A j \in 1..Len(q) + 1 : r[j] = IF j = 1 THEN e ELSE q[j - 1]
  BY ConsElements DEF enqueue
<1> HIDE DEF r
<1>2. r[1] = e /\ \A j \in 1..Len(q) : r[j + 1] = q[j]
  BY <1>1
<1>3. \A j \in 1..Len(r) : j = 1 \/ (j - 1 \in 1..Len(q) /\ r[j] = q[j - 1])
  BY <1>1
<1>4. NoDuplicates(r)
  <2> SUFFICES ASSUME NEW i \in 1..Len(r), NEW j \in 1..Len(r), r[i] = r[j]
               PROVE  i = j
    BY DEF NoDuplicates
  <2>1. CASE i = 1 \/ j = 1
    BY <1>1, <1>3, <2>1 DEF Contains
  <2>2. CASE i # 1 /\ j # 1
    <3>1. i - 1 \in 1..Len(q) /\ j - 1 \in 1..Len(q) /\ q[i - 1] = q[j - 1]
      BY <1>3, <2>2
    <3>2. i - 1 = j - 1
      BY <3>1 DEF NoDuplicates
    <3>3. QED
      BY <3>2
  <2>3. QED
    BY <2>1, <2>2
<1>5. ASSUME NEW x, Contains(r, x) PROVE Contains(q, x) \/ x = e
  BY <1>1, <1>3, <1>5 DEF Contains
<1>6. ASSUME NEW x, Contains(q, x) PROVE Contains(r, x)
  <2>1. PICK j \in 1..Len(q) : q[j] = x
    BY <1>6 DEF Contains
  <2>2. j + 1 \in 1..Len(r) /\ r[j + 1] = x
    BY <1>1, <1>2, <2>1
  <2>3. QED
    BY <2>2 DEF Contains
<1>7. Contains(r, e)
  BY <1>1 DEF Contains
<1>8. QED
  BY <1>1, <1>4, <1>5, <1>6, <1>7 DEF r

\* dequeue takes out exactly the last environment.
LEMMA Dequeue ==
  ASSUME NEW q \in Seq(Env), NoDuplicates(q), q # <<>>
  PROVE  /\ dequeue(q) \in Seq(Env) /\ NoDuplicates(dequeue(q))
         /\ Len(dequeue(q)) = Len(q) - 1
         /\ Last(q) \in Env /\ Contains(q, Last(q))
         /\ \A x : Contains(dequeue(q), x) <=> Contains(q, x) /\ x # Last(q)
<1> DEFINE r == dequeue(q)
           l == Last(q)
<1>1. /\ r \in Seq(Env) /\ Len(r) = Len(q) - 1 /\ Len(q) \in Nat \ {0}
      /\ \A j \in 1..Len(q) - 1 : r[j] = q[j]
      /\ l = q[Len(q)] /\ l \in Env
  BY FrontElements, EmptySeq DEF dequeue
<1> HIDE DEF r, l
<1>2. NoDuplicates(r)
  BY <1>1 DEF NoDuplicates
<1>3. Contains(q, l)
  BY <1>1 DEF Contains
<1>4. ASSUME NEW x, Contains(r, x) PROVE Contains(q, x) /\ x # l
  BY <1>1, <1>4 DEF Contains, NoDuplicates
<1>5. ASSUME NEW x, Contains(q, x), x # l PROVE Contains(r, x)
  BY <1>1, <1>5 DEF Contains
<1>6. QED
  BY <1>1, <1>2, <1>3, <1>4, <1>5 DEF r, l

-----------------------------------------------------------------------------
(* The inductive invariant: the scheduler's, the properties, the type of   *)
(* the array, and a slot that no creation has reached yet is as            *)
(* create_semaphores_array left it.                                        *)

SlotsOK == \A i \in Slot : /\ semaphores[i].value <= MaxValue
                           /\ semaphores[i].empty => semaphores[i] = EmptySemaphore

SemInv == /\ SchedInv
          /\ ~Lost => semaphores \in [Slot -> Semaphore] /\ SlotsOK
          /\ QueueLengthMatchesValue
          /\ BlockedExactlyInOneQueue
          /\ NamesUnique

\* What the calls that succeed do: one semaphore changes.
OnlyChanged(i) == /\ semaphores' \in [Slot -> Semaphore]
                  /\ \A j \in Slot : j # i => semaphores'[j] = semaphores[j]

\* Slot i holds the owner's semaphore of that name after the step.
Matched(i, owner, name) == /\ ~semaphores'[i].empty
                           /\ semaphores'[i].ownerID = owner
                           /\ semaphores'[i].name = name

CreateEffect(i, name, v) ==
  /\ OnlyChanged(i) /\ UNCHANGED sch
  /\ semaphores[i].empty /\ Matched(i, sch.cur, name)
  /\ semaphores'[i].value = v /\ semaphores'[i].env_queue = <<>>

WaitEffect(i, owner, name) ==
  /\ OnlyChanged(i) /\ Matches(i, owner, name) /\ Matched(i, owner, name)
  /\ semaphores'[i].value = semaphores[i].value - 1
  /\ semaphores'[i].env_queue = IF semaphores[i].value - 1 < 0
                                THEN enqueue(semaphores[i].env_queue, sch.cur)
                                ELSE semaphores[i].env_queue
  /\ sch'.st = IF semaphores[i].value - 1 < 0 THEN [sch.st EXCEPT ![sch.cur] = "BLOCKED"]
                                              ELSE sch.st

SignalEffect(i, owner, name) ==
  /\ OnlyChanged(i) /\ Matches(i, owner, name) /\ Matched(i, owner, name)
  /\ semaphores'[i].value = semaphores[i].value + 1
  /\ semaphores'[i].env_queue = IF semaphores[i].value + 1 <= 0
                                THEN dequeue(semaphores[i].env_queue)
                                ELSE semaphores[i].env_queue
  /\ sch'.st = IF semaphores[i].value + 1 <= 0
               THEN [sch.st EXCEPT ![Last(semaphores[i].env_queue)] = "READY"]
               ELSE sch.st
  /\ semaphores[i].value + 1 <= 0 => /\ Contains(semaphores[i].env_queue, Last(semaphores[i].env_queue))
                                     /\ sch.st[Last(semaphores[i].env_queue)] = "BLOCKED"

\* A step that leaves the array and the set of blocked environments alone.
LEMMA KeepSemaphores ==
  ASSUME SemInv, SchedInv', SameBlocked(sch, sch'), UNCHANGED semaphores
  PROVE  SemInv'
<1>1. QueueLengthMatchesValue'
  BY DEF SemInv, QueueLengthMatchesValue, Lost
<1>2. BlockedExactlyInOneQueue'
  BY DEF SemInv, BlockedExactlyInOneQueue, Lost, SameBlocked
<1>3. NamesUnique'
  BY DEF SemInv, NamesUnique, Lost, Live, Matches
<1>4. QED
  BY <1>1, <1>2, <1>3 DEF SemInv, Lost, SlotsOK

\* createSemaphore fills a slot that is as it was at boot, for an owner who has
\* no semaphore of that name.
LEMMA CreateStep ==
  ASSUME SemInv, NEW name \in Name, NEW v \in InitialValue, createSemaphore(name, v)
  PROVE  SemInv' /\ \E i \in Slot : CreateEffect(i, name, v)
<1>1. /\ sch.cur \in Env /\ ~Lost /\ NotFound(sch.cur, name) /\ UNCHANGED sch
      /\ semaphores \in [Slot -> Semaphore] /\ SlotsOK
  BY DEF createSemaphore, Running, SemInv, SchedInv, WellFormed, SchedState
<1>2. PICK i \in Slot :
        /\ FirstEmpty(i)
        /\ semaphores' = [semaphores EXCEPT
                            ![i].empty = FALSE, ![i].ownerID = sch.cur,
                            ![i].name = name, ![i].value = v]
  BY DEF createSemaphore
<1>3. semaphores[i].env_queue = <<>>
  BY <1>1, <1>2 DEF FirstEmpty, SlotsOK, EmptySemaphore
<1>4. v \in 0..MaxValue /\ MaxValue \in Nat /\ name # NoName
  BY SemAssumption
<1>5. /\ semaphores' \in [Slot -> Semaphore]
      /\ ~semaphores'[i].empty /\ semaphores'[i].ownerID = sch.cur
      /\ semaphores'[i].name = name
      /\ semaphores'[i].value = v /\ semaphores'[i].env_queue = <<>>
      /\ \A j \in Slot : j # i => semaphores'[j] = semaphores[j]
  <2> DEFINE r == [semaphores[i] EXCEPT !.empty = FALSE, !.ownerID = sch.cur,
                                        !.name = name, !.value = v]
  <2>1. semaphores[i] \in Semaphore /\ v \in Int /\ sch.cur \in Env \cup {NULL}
        /\ name \in Name \cup {NoName}
    BY <1>1, <1>4
  <2>2. r \in Semaphore
    BY <2>1 DEF Semaphore
  <2>3. ~r.empty /\ r.ownerID = sch.cur /\ r.name = name /\ r.value = v
    BY <2>1 DEF Semaphore
  <2>4. r.env_queue = <<>>
    BY <1>3, <2>1 DEF Semaphore
  <2>5. semaphores' = [semaphores EXCEPT ![i] = r]
    BY <1>1, <1>2
  <2> HIDE DEF r
  <2>6. QED
    BY <1>1, <2>2, <2>3, <2>4, <2>5
<1>6. \A j \in Slot : semaphores'[j].env_queue = semaphores[j].env_queue
  BY <1>3, <1>5
<1>7. SlotsOK'
  BY <1>1, <1>4, <1>5 DEF SlotsOK
<1>8. QueueLengthMatchesValue'
  <2>1. Len(<<>>) = IF v < 0 THEN -v ELSE 0
    BY <1>4
  <2>2. QED
    BY <1>1, <1>5, <2>1 DEF SemInv, QueueLengthMatchesValue
<1>9. BlockedExactlyInOneQueue'
  BY <1>1, <1>6 DEF SemInv, BlockedExactlyInOneQueue
<1>10. NamesUnique'
  <2> SUFFICES ASSUME NEW j \in Slot, NEW k \in Slot, Live(j)',
                      semaphores'[j].name # NoName,
                      Matches(k, semaphores[j].ownerID, semaphores[j].name)'
               PROVE  j = k
    BY DEF NamesUnique
  <2>1. CASE j = i
    BY <1>1, <1>5, <2>1 DEF NotFound, Matches
  <2>2. CASE j # i /\ k = i
    BY <1>1, <1>5, <2>2 DEF NotFound, Matches, Live
  <2>3. CASE j # i /\ k # i
    BY <1>1, <1>5, <2>3 DEF SemInv, NamesUnique, Matches, Live
  <2>4. QED
    BY <2>1, <2>2, <2>3
<1>11. SchedInv'
  BY <1>1 DEF SemInv, SchedInv
<1>12. CreateEffect(i, name, v)
  BY <1>1, <1>2, <1>5 DEF CreateEffect, OnlyChanged, Matches, Matched, FirstEmpty
<1>13. QED
  BY <1>5, <1>7, <1>8, <1>9, <1>10, <1>11, <1>12 DEF SemInv

\* An abandoned creation takes a slot that nobody can find.
LEMMA AbandonStep ==
  ASSUME SemInv, createSemaphoreAbandoned
  PROVE  SemInv'
<1>1. /\ ~Lost /\ UNCHANGED sch /\ semaphores \in [Slot -> Semaphore] /\ SlotsOK
  BY DEF createSemaphoreAbandoned, SemInv
<1>2. PICK i \in Slot : /\ FirstEmpty(i)
                        /\ semaphores' = [semaphores EXCEPT ![i].empty = FALSE]
  BY DEF createSemaphoreAbandoned
<1>3. /\ semaphores[i].env_queue = <<>> /\ semaphores[i].value = 0
      /\ semaphores[i].name = NoName
  BY <1>1, <1>2 DEF FirstEmpty, SlotsOK, EmptySemaphore
<1>4. /\ semaphores' \in [Slot -> Semaphore]
      /\ ~semaphores'[i].empty /\ semaphores'[i].name = NoName
      /\ semaphores'[i].value = 0 /\ semaphores'[i].env_queue = <<>>
      /\ \A j \in Slot : j # i => semaphores'[j] = semaphores[j]
  BY <1>1, <1>2, <1>3 DEF Semaphore
<1>5. \A j \in Slot : /\ semaphores'[j].env_queue = semaphores[j].env_queue
                      /\ semaphores'[j].value = semaphores[j].value
  BY <1>3, <1>4
<1>6. SlotsOK'
  BY <1>1, <1>4, <1>5 DEF SlotsOK
<1>7. QueueLengthMatchesValue'
  BY <1>1, <1>5 DEF SemInv, QueueLengthMatchesValue
<1>8. BlockedExactlyInOneQueue'
  BY <1>1, <1>5 DEF SemInv, BlockedExactlyInOneQueue
<1>9. NamesUnique'
  BY <1>1, <1>4 DEF SemInv, NamesUnique, Matches, Live
<1>10. SchedInv'
  BY <1>1 DEF SemInv, SchedInv
<1>11. QED
  BY <1>4, <1>6, <1>7, <1>8, <1>9, <1>10 DEF SemInv

\* The scheduler's part of a wait that blocks: the caller is blocked, and nobody
\* else's status changes.
LEMMA BlockCaller ==
  ASSUME SchedInv, NEW e \in Env, sch.st[e] = "READY",
         sch' = fos_scheduler([sched_remove_ready(sch, e) EXCEPT !.st[e] = "BLOCKED"])
  PROVE  SchedInv' /\ sch'.st = [sch.st EXCEPT ![e] = "BLOCKED"]
<1> DEFINE r == sched_remove_ready(sch, e)
           f == [r.st EXCEPT ![e] = "BLOCKED"]
           t == [r EXCEPT !.st = f]
<1>1. WellFormed(sch) /\ sch \in SchedState
  BY DEF SchedInv, WellFormed
<1>2. WellFormed(r) /\ r.st = [sch.st EXCEPT ![e] = "UNKNOWN"] /\ Detached(r, e)
  BY <1>1, RemoveReady
<1> HIDE DEF r
<1>3. r \in SchedState /\ r.st \in [Env -> EnvStatus] /\ QueuesOK(r) /\ NextOK(r)
  BY <1>2 DEF WellFormed, SchedState
<1>4. f \in [Env -> EnvStatus] /\ f[e] = "BLOCKED"
      /\ \A x \in Env : x # e => f[x] = r.st[x]
  BY <1>3 DEF EnvStatus
<1>5. [r EXCEPT !.st[e] = "BLOCKED"] = t
  BY <1>3 DEF SchedState
<1>6. f = [sch.st EXCEPT ![e] = "BLOCKED"]
  BY <1>1, <1>2 DEF SchedState
<1> HIDE DEF f
<1>7. /\ t \in SchedState /\ t.ready = r.ready /\ t.new = r.new
      /\ t.exit = r.exit /\ t.free = r.free /\ t.st = f /\ t.next = r.next
  BY <1>3, <1>4 DEF SchedState
<1> HIDE DEF t
<1>8. QueuesOK(t)
  BY <1>2, <1>3, <1>4, <1>7 DEF QueuesOK, Detached
<1>9. NextOK(t)
  BY <1>3, <1>7 DEF NextOK
<1>10. WellFormed(t) /\ sch' = fos_scheduler(t)
  BY <1>5, <1>7, <1>8, <1>9 DEF WellFormed, r
<1>11. QED
  BY <1>6, <1>7, <1>10, FosScheduler, FosKeepsStatus DEF SchedInv

\* The scheduler's part of a signal that releases a blocked environment.
LEMMA Release ==
  ASSUME SchedInv, sch.cur # NULL, NEW e \in Env, sch.st[e] = "BLOCKED",
         sch' = sched_insert_ready(sch, e)
  PROVE  SchedInv' /\ sch'.st = [sch.st EXCEPT ![e] = "READY"]
<1>1. WellFormed(sch) /\ CurOK(sch) /\ sch \in SchedState /\ QueuesOK(sch)
  BY DEF SchedInv, WellFormed
<1>2. Detached(sch, e)
  BY <1>1 DEF Detached, QueuesOK
<1>3. /\ WellFormed(sch') /\ sch'.cur = sch.cur /\ sch'.started = sch.started
      /\ sch'.st = [sch.st EXCEPT ![e] = "READY"] /\ sch'.ready # <<>>
  BY <1>1, <1>2, InsertReady
<1>4. sch.cur \in Env /\ sch.st[sch.cur] = "READY" /\ sch.st \in [Env -> EnvStatus]
  BY <1>1 DEF CurOK, SchedState
<1>5. sch'.st[sch.cur] = "READY"
  BY <1>3, <1>4
<1>6. CurOK(sch')
  BY <1>1, <1>3, <1>5 DEF CurOK
<1>7. QED
  BY <1>3, <1>6 DEF SchedInv

\* What the array holds after the value and the queue of a slot were assigned.
LEMMA ValueAndQueue ==
  ASSUME semaphores \in [Slot -> Semaphore], NEW i \in Slot, ~semaphores[i].empty,
         NEW w \in Int, NEW p \in Seq(Env),
         semaphores' = [semaphores EXCEPT ![i].value = w, ![i].env_queue = p]
  PROVE  /\ semaphores' \in [Slot -> Semaphore]
         /\ ~semaphores'[i].empty
         /\ semaphores'[i].ownerID = semaphores[i].ownerID
         /\ semaphores'[i].name = semaphores[i].name
         /\ semaphores'[i].value = w /\ semaphores'[i].env_queue = p
         /\ \A j \in Slot : j # i => semaphores'[j] = semaphores[j]
<1> DEFINE r == [semaphores[i] EXCEPT !.value = w, !.env_queue = p]
<1>1. semaphores[i] \in Semaphore
  OBVIOUS
<1>2. r \in Semaphore
  BY <1>1 DEF Semaphore
<1>3. /\ ~r.empty /\ r.ownerID = semaphores[i].ownerID
      /\ r.name = semaphores[i].name /\ r.value = w /\ r.env_queue = p
  BY <1>1 DEF Semaphore
<1>4. semaphores' = [semaphores EXCEPT ![i] = r]
  OBVIOUS
<1> HIDE DEF r
<1>5. QED
  BY <1>2, <1>3, <1>4

\* And after its value alone was.
LEMMA ValueAlone ==
  ASSUME semaphores \in [Slot -> Semaphore], NEW i \in Slot, ~semaphores[i].empty,
         NEW w \in Int,
         semaphores' = [semaphores EXCEPT ![i].value = w]
  PROVE  /\ semaphores' \in [Slot -> Semaphore]
         /\ ~semaphores'[i].empty
         /\ semaphores'[i].ownerID = semaphores[i].ownerID
         /\ semaphores'[i].name = semaphores[i].name
         /\ semaphores'[i].value = w
         /\ semaphores'[i].env_queue = semaphores[i].env_queue
         /\ \A j \in Slot : j # i => semaphores'[j] = semaphores[j]
<1> DEFINE r == [semaphores[i] EXCEPT !.value = w]
<1>1. semaphores[i] \in Semaphore
  OBVIOUS
<1>2. r \in Semaphore
  BY <1>1 DEF Semaphore
<1>3. /\ ~r.empty /\ r.ownerID = semaphores[i].ownerID
      /\ r.name = semaphores[i].name /\ r.value = w
      /\ r.env_queue = semaphores[i].env_queue
  BY <1>1 DEF Semaphore
<1>4. semaphores' = [semaphores EXCEPT ![i] = r]
  OBVIOUS
<1> HIDE DEF r
<1>5. QED
  BY <1>2, <1>3, <1>4

\* A step that changes the value and the queue of one semaphore, and at most the
\* place of the environment e in that queue and whether e is blocked.
LEMMA ValueStep ==
  ASSUME SemInv, ~Lost, SchedInv', NEW i \in Slot, ~semaphores[i].empty,
         semaphores' \in [Slot -> Semaphore],
         \A j \in Slot : j # i => semaphores'[j] = semaphores[j],
         ~semaphores'[i].empty, semaphores'[i].ownerID = semaphores[i].ownerID,
         semaphores'[i].name = semaphores[i].name,
         NEW w \in Int, w <= MaxValue, semaphores'[i].value = w,
         NEW p \in Seq(Env), semaphores'[i].env_queue = p,
         Len(p) = IF w < 0 THEN -w ELSE 0, NoDuplicates(p),
         NEW e \in Env,
         \A x \in Env \ {e} : /\ sch'.st[x] = sch.st[x]
                              /\ Contains(p, x) <=> Contains(semaphores[i].env_queue, x),
         sch'.st[e] = "BLOCKED" <=> Contains(p, e),
         sch.st[e] = "BLOCKED" => Contains(semaphores[i].env_queue, e)
  PROVE  SemInv'
<1>1. semaphores \in [Slot -> Semaphore] /\ SlotsOK
  BY DEF SemInv
<1>2. SlotsOK'
  BY <1>1 DEF SlotsOK
<1>3. QueueLengthMatchesValue'
  BY DEF SemInv, QueueLengthMatchesValue
<1>4. NamesUnique'
  BY DEF SemInv, NamesUnique, Live, Matches
<1>5. BlockedExactlyInOneQueue'
  <2>1. /\ \A x \in Env : sch.st[x] = "BLOCKED" <=>
             \E j \in Slot : Contains(semaphores[j].env_queue, x)
        /\ \A j, k \in Slot : \A x \in Env :
             Contains(semaphores[j].env_queue, x) /\ Contains(semaphores[k].env_queue, x)
               => j = k
        /\ \A j \in Slot : NoDuplicates(semaphores[j].env_queue)
    BY DEF SemInv, BlockedExactlyInOneQueue
  <2>2. \A j \in Slot : j # i => ~Contains(semaphores[j].env_queue, e)
    BY <2>1
  <2>3. ASSUME NEW x \in Env, NEW j \in Slot
        PROVE  Contains(semaphores'[j].env_queue, x) <=>
                 IF x = e THEN j = i /\ Contains(p, e)
                          ELSE Contains(semaphores[j].env_queue, x)
    BY <2>2
  <2>4. ASSUME NEW x \in Env
        PROVE  sch'.st[x] = "BLOCKED" <=> \E j \in Slot : Contains(semaphores'[j].env_queue, x)
    <3>1. CASE x = e
      BY <2>3, <3>1
    <3>2. CASE x # e
      BY <2>1, <2>3, <3>2
    <3>3. QED
      BY <3>1, <3>2
  <2>5. ASSUME NEW x \in Env, NEW j \in Slot, NEW k \in Slot,
               Contains(semaphores'[j].env_queue, x), Contains(semaphores'[k].env_queue, x)
        PROVE  j = k
    BY <2>1, <2>3, <2>5
  <2>6. ASSUME NEW j \in Slot PROVE NoDuplicates(semaphores'[j].env_queue)
    BY <2>1
  <2>7. QED
    BY <2>4, <2>5, <2>6 DEF BlockedExactlyInOneQueue
<1>6. QED
  BY <1>2, <1>3, <1>4, <1>5 DEF SemInv

\* waitSemaphore takes a permit, or queues and blocks the caller.
LEMMA WaitStep ==
  ASSUME SemInv, NEW owner, NEW name, waitSemaphore(owner, name), name # NoName
  PROVE  SemInv' /\ \E i \in Slot : WaitEffect(i, owner, name)
<1>1. /\ sch.cur \in Env /\ ~Lost /\ sch.st[sch.cur] = "READY"
      /\ semaphores \in [Slot -> Semaphore] /\ SlotsOK
      /\ SchedInv /\ sch.st \in [Env -> EnvStatus] /\ WellFormed(sch)
  BY DEF waitSemaphore, Running, SemInv, SchedInv, WellFormed, SchedState, CurOK
<1>2. PICK i \in Slot :
        /\ Found(i, owner, name)
        /\ \/ /\ semaphores[i].value - 1 < 0
              /\ semaphores' = [semaphores EXCEPT ![i].value = @ - 1,
                                                  ![i].env_queue = enqueue(@, sch.cur)]
              /\ sch' = fos_scheduler([sched_remove_ready(sch, sch.cur)
                                         EXCEPT !.st[sch.cur] = "BLOCKED"])
           \/ /\ semaphores[i].value - 1 >= 0
              /\ semaphores' = [semaphores EXCEPT ![i].value = @ - 1]
              /\ sch' = fos_scheduler(sch)
  BY DEF waitSemaphore
<1> DEFINE q == semaphores[i].env_queue
           v == semaphores[i].value
<1>3. /\ ~semaphores[i].empty /\ semaphores[i] \in Semaphore /\ q \in Seq(Env) /\ v \in Int
      /\ v <= MaxValue /\ MaxValue \in Nat
      /\ Len(q) = IF v < 0 THEN -v ELSE 0
      /\ Matches(i, owner, name)
  BY <1>1, <1>2, SemAssumption
  DEF Found, Matches, Semaphore, SemInv, SlotsOK, QueueLengthMatchesValue
<1>4. CASE v - 1 < 0
  <2> DEFINE w == v - 1
             p == enqueue(q, sch.cur)
  <2>1. semaphores' = [semaphores EXCEPT ![i].value = w, ![i].env_queue = p]
    BY <1>2, <1>3, <1>4
  <2>2. SchedInv' /\ sch'.st = [sch.st EXCEPT ![sch.cur] = "BLOCKED"]
    <3>1. sch' = fos_scheduler([sched_remove_ready(sch, sch.cur)
                                  EXCEPT !.st[sch.cur] = "BLOCKED"])
      BY <1>2, <1>3, <1>4
    <3>2. QED
      BY <1>1, <3>1, BlockCaller
  <2>3. ~Contains(q, sch.cur) /\ NoDuplicates(q)
    BY <1>1 DEF SemInv, BlockedExactlyInOneQueue
  <2>4. /\ p \in Seq(Env) /\ NoDuplicates(p) /\ Len(p) = Len(q) + 1
        /\ \A x : Contains(p, x) <=> Contains(q, x) \/ x = sch.cur
    BY <1>1, <1>3, <2>3, Enqueue
  <2> HIDE DEF p
  <2>5. w \in Int /\ w <= MaxValue /\ Len(p) = IF w < 0 THEN -w ELSE 0
    BY <1>3, <1>4, <2>4
  <2>6. /\ \A x \in Env \ {sch.cur} : sch'.st[x] = sch.st[x]
        /\ sch'.st[sch.cur] = "BLOCKED"
    BY <1>1, <2>2
  <2> HIDE DEF w
  <2>7. /\ semaphores' \in [Slot -> Semaphore]
        /\ ~semaphores'[i].empty /\ semaphores'[i].ownerID = semaphores[i].ownerID
        /\ semaphores'[i].name = semaphores[i].name
        /\ semaphores'[i].value = w /\ semaphores'[i].env_queue = p
        /\ \A j \in Slot : j # i => semaphores'[j] = semaphores[j]
    <3> HIDE DEF q, v
    <3>1. semaphores \in [Slot -> Semaphore] /\ ~semaphores[i].empty
      BY <1>1, <1>3
    <3>2. w \in Int /\ p \in Seq(Env)
      BY <2>4, <2>5
    <3>3. QED
      BY <2>1, <3>1, <3>2, ValueAndQueue
  <2>8. \A x \in Env \ {sch.cur} : Contains(p, x) <=> Contains(semaphores[i].env_queue, x)
    BY <2>4
  <2>9. Contains(p, sch.cur)
    BY <2>4
  <2>10. WaitEffect(i, owner, name)
    BY <1>3, <1>4, <2>2, <2>7 DEF WaitEffect, OnlyChanged, Matches, Matched, w, p
  <2>11. QED
    BY <2>10, <1>1, <1>3, <2>2, <2>4, <2>5, <2>6, <2>7, <2>8, <2>9, ValueStep
<1>5. CASE v - 1 >= 0
  <2> DEFINE w == v - 1
  <2>1. sch' = fos_scheduler(sch) /\ semaphores' = [semaphores EXCEPT ![i].value = w]
    BY <1>2, <1>3, <1>5
  <2>2. SchedInv' /\ sch'.st = sch.st
    BY <1>1, <2>1, FosScheduler, FosKeepsStatus DEF SchedInv, WellFormed
  <2>3. ~Contains(q, sch.cur) /\ NoDuplicates(q)
    BY <1>1 DEF SemInv, BlockedExactlyInOneQueue
  <2>4. w \in Int /\ w <= MaxValue /\ Len(q) = IF w < 0 THEN -w ELSE 0
    BY <1>3, <1>5
  <2> HIDE DEF w
  <2>5. /\ semaphores' \in [Slot -> Semaphore]
        /\ ~semaphores'[i].empty /\ semaphores'[i].ownerID = semaphores[i].ownerID
        /\ semaphores'[i].name = semaphores[i].name
        /\ semaphores'[i].value = w /\ semaphores'[i].env_queue = q
        /\ \A j \in Slot : j # i => semaphores'[j] = semaphores[j]
    BY <1>1, <1>3, <2>1, <2>4, ValueAlone
  <2>6. WaitEffect(i, owner, name)
    BY <1>3, <1>5, <2>2, <2>5 DEF WaitEffect, OnlyChanged, Matches, Matched, w
  <2>7. QED
    BY <2>6, <1>1, <1>3, <2>2, <2>3, <2>4, <2>5, ValueStep
<1>6. QED
  BY <1>3, <1>4, <1>5

\* signalSemaphore adds a permit, or releases the last environment of the queue.
LEMMA SignalStep ==
  ASSUME SemInv, NEW owner, NEW name, signalSemaphore(owner, name), name # NoName
  PROVE  SemInv' /\ \E i \in Slot : SignalEffect(i, owner, name)
<1>1. /\ sch.cur \in Env /\ sch.cur # NULL /\ ~Lost /\ sch.st[sch.cur] = "READY"
      /\ semaphores \in [Slot -> Semaphore] /\ SlotsOK
      /\ SchedInv /\ sch.st \in [Env -> EnvStatus] /\ WellFormed(sch)
  BY DEF signalSemaphore, Running, SemInv, SchedInv, WellFormed, SchedState, CurOK
<1>2. PICK i \in Slot :
        /\ Found(i, owner, name)
        /\ semaphores[i].value < MaxValue
        /\ \/ /\ semaphores[i].value + 1 <= 0
              /\ semaphores' = [semaphores EXCEPT ![i].value = @ + 1,
                                                  ![i].env_queue = dequeue(@)]
              /\ sch' = sched_insert_ready(sch, Last(semaphores[i].env_queue))
           \/ /\ semaphores[i].value + 1 > 0
              /\ semaphores' = [semaphores EXCEPT ![i].value = @ + 1]
              /\ UNCHANGED sch
  BY DEF signalSemaphore
<1> DEFINE q == semaphores[i].env_queue
           v == semaphores[i].value
<1>3. /\ ~semaphores[i].empty /\ semaphores[i] \in Semaphore /\ q \in Seq(Env) /\ v \in Int
      /\ v < MaxValue /\ MaxValue \in Nat
      /\ Len(q) = IF v < 0 THEN -v ELSE 0
      /\ Matches(i, owner, name)
  BY <1>1, <1>2, SemAssumption
  DEF Found, Matches, Semaphore, SemInv, QueueLengthMatchesValue
<1>4. CASE v + 1 <= 0
  <2> DEFINE w == v + 1
             p == dequeue(q)
             e == Last(q)
  <2>1. /\ sch' = sched_insert_ready(sch, e)
        /\ semaphores' = [semaphores EXCEPT ![i].value = w, ![i].env_queue = p]
    BY <1>2, <1>3, <1>4
  <2>2. NoDuplicates(q) /\ q # <<>>
    BY <1>1, <1>3, <1>4 DEF SemInv, BlockedExactlyInOneQueue
  <2>3. /\ p \in Seq(Env) /\ NoDuplicates(p) /\ Len(p) = Len(q) - 1
        /\ e \in Env /\ Contains(q, e)
        /\ \A x : Contains(p, x) <=> Contains(q, x) /\ x # e
    BY <1>3, <2>2, Dequeue
  <2> HIDE DEF p, e
  <2>4. sch.st[e] = "BLOCKED"
    BY <1>1, <2>3 DEF SemInv, BlockedExactlyInOneQueue
  <2>5. SchedInv' /\ sch'.st = [sch.st EXCEPT ![e] = "READY"]
    BY <1>1, <2>1, <2>3, <2>4, Release
  <2>6. /\ \A x \in Env \ {e} : sch'.st[x] = sch.st[x]
        /\ sch'.st[e] # "BLOCKED"
    BY <1>1, <2>3, <2>5
  <2>7. w \in Int /\ w <= MaxValue /\ Len(p) = IF w < 0 THEN -w ELSE 0
    BY <1>3, <1>4, <2>3, SMTT(20)
  <2> HIDE DEF w
  <2>8. /\ semaphores' \in [Slot -> Semaphore]
        /\ ~semaphores'[i].empty /\ semaphores'[i].ownerID = semaphores[i].ownerID
        /\ semaphores'[i].name = semaphores[i].name
        /\ semaphores'[i].value = w /\ semaphores'[i].env_queue = p
        /\ \A j \in Slot : j # i => semaphores'[j] = semaphores[j]
    <3> HIDE DEF q, v
    <3>1. semaphores \in [Slot -> Semaphore] /\ ~semaphores[i].empty
      BY <1>1, <1>3
    <3>2. w \in Int /\ p \in Seq(Env)
      BY <2>3, <2>7
    <3>3. QED
      BY <2>1, <3>1, <3>2, ValueAndQueue
  <2>9. \A x \in Env \ {e} : Contains(p, x) <=> Contains(semaphores[i].env_queue, x)
    BY <2>3
  <2>10. ~Contains(p, e) /\ Contains(semaphores[i].env_queue, e)
    BY <2>3
  <2>11. SignalEffect(i, owner, name)
    BY <1>3, <1>4, <2>3, <2>4, <2>5, <2>8 DEF SignalEffect, OnlyChanged, Matches, Matched, w, p, e
  <2>12. QED
    BY <2>11, <1>1, <1>3, <2>3, <2>5, <2>6, <2>7, <2>8, <2>9, <2>10, ValueStep
<1>5. CASE v + 1 > 0
  <2> DEFINE w == v + 1
  <2>1. UNCHANGED sch /\ semaphores' = [semaphores EXCEPT ![i].value = w]
    BY <1>2, <1>3, <1>5
  <2>2. SchedInv'
    BY <1>1, <2>1 DEF SchedInv
  <2>3. ~Contains(q, sch.cur) /\ NoDuplicates(q)
    BY <1>1 DEF SemInv, BlockedExactlyInOneQueue
  <2>4. w \in Int /\ w <= MaxValue /\ Len(q) = IF w < 0 THEN -w ELSE 0
    BY <1>3, <1>5
  <2> HIDE DEF w
  <2>5. /\ semaphores' \in [Slot -> Semaphore]
        /\ ~semaphores'[i].empty /\ semaphores'[i].ownerID = semaphores[i].ownerID
        /\ semaphores'[i].name = semaphores[i].name
        /\ semaphores'[i].value = w /\ semaphores'[i].env_queue = q
        /\ \A j \in Slot : j # i => semaphores'[j] = semaphores[j]
    BY <1>1, <1>3, <2>1, <2>4, ValueAlone
  <2>6. SignalEffect(i, owner, name)
    BY <1>3, <1>5, <2>1, <2>5 DEF SignalEffect, OnlyChanged, Matches, Matched, w
  <2>7. QED
    BY <2>6, <1>1, <1>3, <2>1, <2>2, <2>3, <2>4, <2>5, ValueStep
<1>6. QED
  BY <1>3, <1>4, <1>5
-----------------------------------------------------------------------------
(* The theorems.                                                           *)

\* The state the kernel boots into satisfies the invariant.
LEMMA SemInitial == Init => SemInv
<1> SUFFICES ASSUME Init PROVE SemInv
  OBVIOUS
<1>1. SchedInv
  BY SchedInitial DEF Init
<1>2. \A i \in Slot : semaphores[i] = EmptySemaphore
  BY DEF Init, create_semaphores_array
<1>3. /\ EmptySemaphore.empty = TRUE /\ EmptySemaphore.value = 0
      /\ EmptySemaphore.env_queue = <<>> /\ EmptySemaphore \in Semaphore
  BY DEF EmptySemaphore, Semaphore
<1>4. semaphores \in [Slot -> Semaphore] /\ SlotsOK
  BY <1>2, <1>3, SemAssumption DEF Init, create_semaphores_array, SlotsOK
<1>5. QueueLengthMatchesValue
  BY <1>2, <1>3 DEF QueueLengthMatchesValue
<1>6. BlockedExactlyInOneQueue
  BY <1>2, <1>3 DEF BlockedExactlyInOneQueue, Contains, NoDuplicates, Init, SchedInit
<1>7. NamesUnique
  BY <1>2, <1>3 DEF NamesUnique, Live
<1>8. QED
  BY <1>1, <1>4, <1>5, <1>6, <1>7 DEF SemInv

\* A call that panics ends the caller and touches no semaphore.
LEMMA FailedCall ==
  ASSUME SemInv, sch' = panic(sch), UNCHANGED semaphores
  PROVE  SemInv'
<1>1. WellFormed(sch)
  BY DEF SemInv, SchedInv
<1>2. SchedInv' /\ SameBlocked(sch, sch')
  BY <1>1, Panic, PanicBlocks DEF SchedInv
<1>3. QED
  BY <1>2, KeepSemaphores

\* Every step keeps the invariant.
LEMMA SemStep == SemInv /\ [Next]_vars => SemInv'
<1> SUFFICES ASSUME SemInv, [Next]_vars PROVE SemInv'
  OBVIOUS
<1>1. CASE SchedNext /\ UNCHANGED semaphores
  <2>1. SchedInv
    BY DEF SemInv
  <2>2. SchedInv'
    BY <1>1, <2>1, SchedStep
  <2>3. QED
    BY <1>1, <2>1, <2>2, SchedStepBlocks, KeepSemaphores
<1>2. ASSUME NEW name \in Name, NEW v \in InitialValue, createSemaphore(name, v)
      PROVE  SemInv'
  BY <1>2, CreateStep
<1>3. ASSUME NEW name \in Name, createSemaphoreFull(name) PROVE SemInv'
  <2>1. Lost' /\ UNCHANGED sch
    BY <1>3 DEF createSemaphoreFull, Lost
  <2>2. SchedInv'
    BY <2>1 DEF SemInv, SchedInv
  <2>3. QED
    BY <2>1, <2>2 DEF SemInv, QueueLengthMatchesValue, BlockedExactlyInOneQueue, NamesUnique
<1>4. CASE createSemaphoreAbandoned
  BY <1>4, AbandonStep
<1>5. ASSUME NEW owner \in Env, NEW name \in Name, waitSemaphore(owner, name)
      PROVE  SemInv'
  BY <1>5, WaitStep, SemAssumption
<1>6. ASSUME NEW owner \in Env, NEW name \in Name, signalSemaphore(owner, name)
      PROVE  SemInv'
  BY <1>6, SignalStep, SemAssumption
<1>7. ASSUME NEW owner \in Env, NEW name \in Name, getSemaphoreValueFails(owner, name)
      PROVE  SemInv'
  BY <1>7, FailedCall DEF getSemaphoreValueFails
<1>8. CASE LostArrayFault
  BY <1>8, FailedCall DEF LostArrayFault
<1>9. CASE UNCHANGED vars
  <2>1. SchedInv' /\ SameBlocked(sch, sch')
    BY <1>9 DEF vars, SemInv, SchedInv, SameBlocked
  <2>2. QED
    BY <1>9, <2>1, KeepSemaphores DEF vars
<1>10. QED
  BY <1>1, <1>2, <1>3, <1>4, <1>5, <1>6, <1>7, <1>8, <1>9 DEF Next

\* The invariant of the semaphores.
LEMMA SemInvariant == Spec => []SemInv
BY SemInitial, SemStep, PTL DEF Spec

(***************************************************************************)
(* With the semaphores above it the scheduler stays whole: sleeping and    *)
(* waking up keep every environment in the queue its status names.         *)
(***************************************************************************)
THEOREM SemSchedulerSafe == Spec => []SchedulerSound
<1>1. SemInv => SchedulerSound
  BY DEF SemInv, SchedInv, WellFormed, CurOK, SchedulerSound, QueuesMatchStatus,
         SchedNextInReadyQueue, RunningIsReady
<1>2. QED
  BY <1>1, SemInvariant, PTL

(***************************************************************************)
(* For any environments, names, number of semaphores and initial values:   *)
(* the value of a semaphore and the length of its queue agree.             *)
(***************************************************************************)
THEOREM ValueCountsWaiters == Spec => []QueueLengthMatchesValue
<1>1. SemInv => QueueLengthMatchesValue
  BY DEF SemInv
<1>2. QED
  BY <1>1, SemInvariant, PTL

(***************************************************************************)
(* Exactly the blocked environments wait, each in one queue and once.      *)
(***************************************************************************)
THEOREM WaitersBlocked == Spec => []BlockedExactlyInOneQueue
<1>1. SemInv => BlockedExactlyInOneQueue
  BY DEF SemInv
<1>2. QED
  BY <1>1, SemInvariant, PTL

(***************************************************************************)
(* At most one live semaphore has a given owner and name.                  *)
(***************************************************************************)
THEOREM OneSemaphorePerName == Spec => []NamesUnique
<1>1. SemInv => NamesUnique
  BY DEF SemInv
<1>2. QED
  BY <1>1, SemInvariant, PTL

-----------------------------------------------------------------------------
(* The refinement.                                                         *)

\* What the change of one semaphore that has a name means to the programs.
LEMMA BarsChange ==
  ASSUME ~Lost, ~Lost', NEW i \in Slot, NEW name, name # NoName,
         semaphores'[i].name = name,
         \A j \in Slot : j # i => semaphores'[j] = semaphores[j]
  PROVE  /\ permitsBar' = [permitsBar EXCEPT ![i] =
                             IF semaphores'[i].value < 0 THEN 0 ELSE semaphores'[i].value]
         /\ waitingBar' = [waitingBar EXCEPT ![i] = Reverse(semaphores'[i].env_queue)]
BY DEF permitsBar, waitingBar

\* A step that leaves the array alone is a stutter to them.
LEMMA BarsKept ==
  ASSUME UNCHANGED semaphores
  PROVE  UNCHANGED <<permitsBar, waitingBar>>
BY DEF permitsBar, waitingBar, Lost

\* The loss of the array is the loss of all semaphores.
LEMMA BarsLost ==
  ASSUME Lost'
  PROVE  Fifo!LoseAll
BY DEF permitsBar, waitingBar, Fifo!LoseAll

\* Only blocked environments are waiters.
LEMMA ReadyIsNoWaiter ==
  ASSUME SemInv, ~Lost, NEW e \in Env, sch.st[e] = "READY"
  PROVE  e \notin Fifo!Waiters
<1>1. ASSUME NEW i \in Slot, e \in ToSet(waitingBar[i]) PROVE FALSE
  <2> DEFINE q == semaphores[i].env_queue
  <2>1. semaphores[i] \in Semaphore /\ q \in Seq(Env)
    BY DEF SemInv, Semaphore
  <2>2. waitingBar[i] = Reverse(q)
    BY DEF waitingBar
  <2>3. ~Contains(q, e)
    BY DEF SemInv, BlockedExactlyInOneQueue
  <2> HIDE DEF q
  <2>4. /\ Reverse(q) \in Seq(Env) /\ Len(Reverse(q)) = Len(q) /\ Len(q) \in Nat
        /\ \A j \in 1..Len(q) : Reverse(q)[j] = q[Len(q) - j + 1]
    BY <2>1, ReverseElements
  <2>5. PICK j \in 1..Len(q) : Reverse(q)[j] = e
    BY <1>1, <2>2, <2>4 DEF ToSet
  <2>6. Len(q) - j + 1 \in 1..Len(q)
    BY <2>4
  <2>7. QED
    BY <2>3, <2>4, <2>5, <2>6 DEF Contains
<1>2. QED
  BY <1>1 DEF Fifo!Waiters, Fifo!ToSet, ToSet

\* A wait takes a permit or queues the caller last.
LEMMA WaitIsWait ==
  ASSUME SemInv, ~Lost', NEW name \in Name, NEW owner \in Env, waitSemaphore(owner, name)
  PROVE  Fifo!Next
<1>1. /\ ~Lost /\ sch.cur \in Env /\ sch.st[sch.cur] = "READY"
      /\ semaphores \in [Slot -> Semaphore]
  BY DEF waitSemaphore, Running, SemInv, SchedInv, WellFormed, SchedState, CurOK
<1>2. name # NoName /\ 0 # NULL
  BY SemAssumption
<1>3. PICK i \in Slot : WaitEffect(i, owner, name)
  BY <1>2, WaitStep
<1> DEFINE q == semaphores[i].env_queue
           v == semaphores[i].value
           t == sch.cur
<1>4. /\ v \in Int /\ v <= MaxValue /\ q \in Seq(Env) /\ semaphores[i].name = name
      /\ Len(q) = IF v < 0 THEN -v ELSE 0
  BY <1>1, <1>3 DEF Semaphore, SemInv, SlotsOK, QueueLengthMatchesValue, WaitEffect, OnlyChanged, Matches, Matched
<1>5. /\ permitsBar[i] = IF v < 0 THEN 0 ELSE v
      /\ waitingBar[i] = Reverse(q)
      /\ permitsBar = [permitsBar EXCEPT ![i] = permitsBar[i]]
      /\ waitingBar = [waitingBar EXCEPT ![i] = waitingBar[i]]
  BY <1>1, <1>2, <1>4 DEF permitsBar, waitingBar
<1>6. /\ permitsBar' = [permitsBar EXCEPT ![i] = IF v - 1 < 0 THEN 0 ELSE v - 1]
      /\ waitingBar' = [waitingBar EXCEPT ![i] = Reverse(semaphores'[i].env_queue)]
      /\ semaphores'[i].env_queue = IF v - 1 < 0 THEN enqueue(q, t) ELSE q
  BY <1>1, <1>2, <1>3, BarsChange DEF WaitEffect, OnlyChanged, Matches, Matched
<1>7. Fifo!Exists(i)
  BY <1>2, <1>4, <1>5, SemAssumption DEF Fifo!Exists
<1>8. t \in Env /\ t \notin Fifo!Waiters
  BY <1>1, ReadyIsNoWaiter
<1> HIDE DEF q, v, t
<1>9. CASE v - 1 < 0
  <2>1. permitsBar[i] = 0 /\ permitsBar' = permitsBar
    BY <1>4, <1>5, <1>6, <1>9
  <2>2. Reverse(enqueue(q, t)) = Append(Reverse(q), t)
    BY <1>4, <1>8, ReverseCons DEF enqueue
  <2>3. waitingBar' = [waitingBar EXCEPT ![i] = Append(waitingBar[i], t)]
    BY <1>5, <1>6, <1>9, <2>2
  <2>4. Fifo!Wait(t, i)
    BY <1>7, <1>8, <2>1, <2>3 DEF Fifo!Wait
  <2>5. QED
    BY <1>8, <2>4 DEF Fifo!Next
<1>10. CASE v - 1 >= 0
  <2>1. permitsBar[i] = v /\ v > 0 /\ waitingBar' = waitingBar
    BY <1>4, <1>5, <1>6, <1>10
  <2>2. permitsBar' = [permitsBar EXCEPT ![i] = permitsBar[i] - 1]
    <3>1. (IF v - 1 < 0 THEN 0 ELSE v - 1) = permitsBar[i] - 1
      BY <1>4, <1>10, <2>1
    <3>2. QED
      BY <1>6, <3>1, Zenon
  <2>3. Fifo!Wait(t, i)
    BY <1>7, <1>8, <2>1, <2>2 DEF Fifo!Wait
  <2>4. QED
    BY <1>8, <2>3 DEF Fifo!Next
<1>11. QED
  BY <1>4, <1>9, <1>10

\* A signal releases the first who came, or adds a permit.
LEMMA SignalIsSignal ==
  ASSUME SemInv, ~Lost', NEW name \in Name, NEW owner \in Env, signalSemaphore(owner, name)
  PROVE  Fifo!Next
<1>1. ~Lost /\ semaphores \in [Slot -> Semaphore]
  BY DEF signalSemaphore, SemInv
<1>2. name # NoName /\ 0 # NULL
  BY SemAssumption
<1>3. PICK i \in Slot : SignalEffect(i, owner, name)
  BY <1>2, SignalStep
<1> DEFINE q == semaphores[i].env_queue
           v == semaphores[i].value
<1>4. /\ v \in Int /\ v <= MaxValue /\ q \in Seq(Env) /\ semaphores[i].name = name
      /\ Len(q) = IF v < 0 THEN -v ELSE 0
  BY <1>1, <1>3 DEF Semaphore, SemInv, SlotsOK, QueueLengthMatchesValue, SignalEffect, OnlyChanged, Matches, Matched
<1>5. /\ permitsBar[i] = IF v < 0 THEN 0 ELSE v
      /\ waitingBar[i] = Reverse(q)
      /\ permitsBar = [permitsBar EXCEPT ![i] = permitsBar[i]]
      /\ waitingBar = [waitingBar EXCEPT ![i] = waitingBar[i]]
  BY <1>1, <1>2, <1>4 DEF permitsBar, waitingBar
<1>6. /\ permitsBar' = [permitsBar EXCEPT ![i] = IF v + 1 < 0 THEN 0 ELSE v + 1]
      /\ waitingBar' = [waitingBar EXCEPT ![i] = Reverse(semaphores'[i].env_queue)]
      /\ semaphores'[i].env_queue = IF v + 1 <= 0 THEN dequeue(q) ELSE q
  BY <1>1, <1>2, <1>3, BarsChange DEF SignalEffect, OnlyChanged, Matches, Matched
<1>7. Fifo!Exists(i)
  BY <1>2, <1>4, <1>5, SemAssumption DEF Fifo!Exists
<1> HIDE DEF q, v
<1>8. CASE v + 1 <= 0
  <2>1. permitsBar' = permitsBar /\ q # <<>>
    BY <1>4, <1>5, <1>6, <1>8
  <2>2. Reverse(dequeue(q)) = Tail(Reverse(q)) /\ Reverse(q) # <<>>
    BY <1>4, <2>1, ReverseFront DEF dequeue
  <2>3. waitingBar' = [waitingBar EXCEPT ![i] = Tail(waitingBar[i])] /\ waitingBar[i] # <<>>
    BY <1>5, <1>6, <1>8, <2>2
  <2>4. Fifo!Signal(i)
    BY <1>7, <2>1, <2>3 DEF Fifo!Signal
  <2>5. QED
    BY <2>4 DEF Fifo!Next
<1>9. CASE v + 1 > 0
  <2>1. permitsBar[i] = v /\ q = <<>> /\ waitingBar' = waitingBar
    BY <1>4, <1>5, <1>6, <1>9, EmptySeq
  <2>2. permitsBar' = [permitsBar EXCEPT ![i] = permitsBar[i] + 1]
    <3>1. (IF v + 1 < 0 THEN 0 ELSE v + 1) = permitsBar[i] + 1
      BY <1>4, <1>9, <2>1
    <3>2. QED
      BY <1>6, <3>1, Zenon
  <2>3. waitingBar[i] = <<>>
    BY <1>4, <1>5, <2>1, ReverseElements, EmptySeq
  <2>4. Fifo!Signal(i)
    BY <1>7, <2>1, <2>2, <2>3 DEF Fifo!Signal
  <2>5. QED
    BY <2>4 DEF Fifo!Next
<1>10. QED
  BY <1>4, <1>8, <1>9

\* A creation creates a semaphore that was not there.
LEMMA CreateIsCreate ==
  ASSUME SemInv, ~Lost', NEW name \in Name, NEW v \in InitialValue, createSemaphore(name, v)
  PROVE  Fifo!Next
<1>1. /\ ~Lost /\ semaphores \in [Slot -> Semaphore] /\ SlotsOK
      /\ v \in 0..MaxValue /\ MaxValue \in Nat /\ name # NoName
  BY SemAssumption DEF createSemaphore, SemInv
<1>2. PICK i \in Slot : CreateEffect(i, name, v)
  BY CreateStep
<1>3. /\ semaphores[i].env_queue = <<>> /\ semaphores[i].name = NoName
  BY <1>1, <1>2 DEF CreateEffect, SlotsOK, EmptySemaphore
<1>4. /\ semaphores'[i].name = name /\ semaphores'[i].value = v
      /\ semaphores'[i].env_queue = semaphores[i].env_queue
      /\ \A j \in Slot : j # i => semaphores'[j] = semaphores[j]
  BY <1>2, <1>3 DEF CreateEffect, OnlyChanged, Matches, Matched
<1>6. /\ permitsBar' = [permitsBar EXCEPT ![i] = IF v < 0 THEN 0 ELSE v]
      /\ waitingBar' = [waitingBar EXCEPT ![i] = Reverse(semaphores[i].env_queue)]
  BY <1>1, <1>4, BarsChange
<1>7. permitsBar[i] = NULL /\ waitingBar' = waitingBar
  BY <1>1, <1>3, <1>6 DEF permitsBar, waitingBar
<1>8. permitsBar' = [permitsBar EXCEPT ![i] = v]
  <2>1. (IF v < 0 THEN 0 ELSE v) = v
    BY <1>1
  <2>2. QED
    BY <1>6, <2>1, Zenon
<1>9. Fifo!Create(i, v)
  BY <1>7, <1>8 DEF Fifo!Create, Fifo!Exists
<1>10. QED
  BY <1>9 DEF Fifo!Next

\* An abandoned creation is nothing to the programs.
LEMMA AbandonIsNothing ==
  ASSUME SemInv, ~Lost', createSemaphoreAbandoned
  PROVE  UNCHANGED <<permitsBar, waitingBar>>
<1>1. ~Lost /\ semaphores \in [Slot -> Semaphore]
  BY DEF createSemaphoreAbandoned, SemInv
<1>2. PICK i \in Slot : semaphores' = [semaphores EXCEPT ![i].empty = FALSE]
  BY DEF createSemaphoreAbandoned
<1>3. semaphores[i] \in Semaphore
  BY <1>1
<1>4. \A j \in Slot : /\ semaphores'[j].name = semaphores[j].name
                      /\ semaphores'[j].value = semaphores[j].value
                      /\ semaphores'[j].env_queue = semaphores[j].env_queue
  BY <1>1, <1>2, <1>3 DEF Semaphore
<1>5. QED
  BY <1>1, <1>4 DEF permitsBar, waitingBar

\* Every step of the kernel is a step of the abstract semaphores, or a stutter.
LEMMA FifoStep ==
  ASSUME SemInv, [Next]_vars
  PROVE  Fifo!Next \/ UNCHANGED <<permitsBar, waitingBar>>
<1>1. CASE Lost'
  BY <1>1, BarsLost DEF Fifo!Next
<1>2. CASE UNCHANGED semaphores
  BY <1>2, BarsKept
<1>3. ASSUME ~Lost', NEW name \in Name, NEW v \in InitialValue, createSemaphore(name, v)
      PROVE  Fifo!Next
  BY <1>3, CreateIsCreate
<1>4. CASE ~Lost' /\ createSemaphoreAbandoned
  BY <1>4, AbandonIsNothing
<1>5. ASSUME ~Lost', NEW owner \in Env, NEW name \in Name, waitSemaphore(owner, name)
      PROVE  Fifo!Next
  BY <1>5, WaitIsWait
<1>6. ASSUME ~Lost', NEW owner \in Env, NEW name \in Name, signalSemaphore(owner, name)
      PROVE  Fifo!Next
  BY <1>6, SignalIsSignal
<1>7. ASSUME NEW name \in Name, createSemaphoreFull(name) PROVE Lost'
  BY <1>7 DEF createSemaphoreFull, Lost
<1>8. QED
  BY <1>1, <1>2, <1>3, <1>4, <1>5, <1>6, <1>7
  DEF Next, vars, getSemaphoreValueFails, LostArrayFault

(***************************************************************************)
(* The kernel's semaphores, a signed value and a queue that fills at its   *)
(* head, implement FIFO semaphores: permits are neither made nor lost, and *)
(* the waiters are served in the order they came.                          *)
(***************************************************************************)
THEOREM SemaphoresAreFifo == Spec => ImplementsFifo
<1>1. Init => Fifo!Init
  <2> SUFFICES ASSUME Init PROVE Fifo!Init
    OBVIOUS
  <2>1. \A i \in Slot : semaphores[i] = EmptySemaphore
    BY DEF Init, create_semaphores_array
  <2>2. EmptySemaphore.name = NoName /\ EmptySemaphore.env_queue = <<>>
    BY DEF EmptySemaphore
  <2>3. Reverse(<<>>) = <<>>
    BY ReverseElements, EmptySeq
  <2>4. QED
    BY <2>1, <2>2, <2>3 DEF Fifo!Init, permitsBar, waitingBar
<1>2. SemInv /\ [Next]_vars => [Fifo!Next]_<<permitsBar, waitingBar>>
  BY FifoStep
<1>3. QED
  BY <1>1, <1>2, SemInvariant, PTL DEF Spec, ImplementsFifo, Fifo!Spec
=============================================================================
