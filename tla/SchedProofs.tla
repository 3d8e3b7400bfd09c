---------------------------- MODULE SchedProofs ----------------------------
(***************************************************************************)
(* Proofs about the scheduler, for every set of environments.              *)
(***************************************************************************)
EXTENDS Sched, ListProofs

-----------------------------------------------------------------------------
(* Lists.                                                                  *)

\* The position of a member of a list is an index of the list that holds it.
LEMMA PositionOfMember ==
  ASSUME NEW q, NEW e, Contains(q, e)
  PROVE  Position(q, e) \in 1..Len(q) /\ q[Position(q, e)] = e
BY DEF Contains, Position

\* LIST_REMOVE takes out exactly the given element.
LEMMA ListRemove ==
  ASSUME NEW q \in Seq(Env), NoDuplicates(q), NEW e, Contains(q, e)
  PROVE  /\ LIST_REMOVE(q, e) \in Seq(Env)
         /\ NoDuplicates(LIST_REMOVE(q, e))
         /\ \A x : Contains(LIST_REMOVE(q, e), x) <=> Contains(q, x) /\ x # e
<1> DEFINE p == Position(q, e)
           r == RemoveAt(q, p)
<1>1. p \in 1..Len(q) /\ q[p] = e
  BY PositionOfMember
<1> HIDE DEF p
<1>2. /\ r \in Seq(Env)
      /\ Len(r) = Len(q) - 1
      /\ \A j \in 1..Len(q) - 1 : r[j] = IF j < p THEN q[j] ELSE q[j + 1]
  BY <1>1, RemoveAtElements
<1> HIDE DEF r
<1>3. NoDuplicates(r)
  <2> SUFFICES ASSUME NEW i \in 1..Len(r), NEW j \in 1..Len(r), r[i] = r[j]
               PROVE  i = j
    BY DEF NoDuplicates
  <2> DEFINE at(k) == IF k < p THEN k ELSE k + 1
  <2>1. at(i) \in 1..Len(q) /\ at(j) \in 1..Len(q) /\ q[at(i)] = q[at(j)]
    BY <1>1, <1>2
  <2>2. at(i) = at(j)
    BY <2>1 DEF NoDuplicates
  <2>3. QED
    BY <2>2, <1>1
<1>4. ASSUME NEW x, Contains(r, x) PROVE Contains(q, x) /\ x # e
  BY <1>1, <1>2, <1>4 DEF Contains, NoDuplicates
<1>5. ASSUME NEW x, Contains(q, x), x # e PROVE Contains(r, x)
  <2>1. PICK i \in 1..Len(q) : q[i] = x
    BY <1>5 DEF Contains
  <2>2. CASE i < p
    BY <1>1, <1>2, <2>1, <2>2 DEF Contains
  <2>3. CASE i > p
    <3>1. i - 1 \in 1..Len(r) /\ r[i - 1] = q[i]
      BY <1>1, <1>2, <2>1, <2>3
    <3>2. QED BY <3>1, <2>1 DEF Contains
  <2>4. QED BY <1>1, <1>5, <2>1, <2>2, <2>3
<1>6. QED BY <1>2, <1>3, <1>4, <1>5 DEF LIST_REMOVE, r, p

\* LIST_INSERT_BEFORE adds exactly the given element.
LEMMA ListInsertBefore ==
  ASSUME NEW q \in Seq(Env), NoDuplicates(q), NEW e, Contains(q, e),
         NEW new \in Env, ~Contains(q, new)
  PROVE  /\ LIST_INSERT_BEFORE(q, e, new) \in Seq(Env)
         /\ NoDuplicates(LIST_INSERT_BEFORE(q, e, new))
         /\ \A x : Contains(LIST_INSERT_BEFORE(q, e, new), x) <=> Contains(q, x) \/ x = new
<1> DEFINE p == Position(q, e)
           r == InsertAt(q, p, new)
<1>1. p \in 1..Len(q) /\ q[p] = e
  BY PositionOfMember
<1> HIDE DEF p
<1>2. /\ r \in Seq(Env)
      /\ Len(r) = Len(q) + 1
      /\ \A j \in 1..Len(q) + 1 : r[j] = IF j < p THEN q[j]
                                         ELSE IF j = p THEN new ELSE q[j - 1]
  BY <1>1, InsertAtElements
<1> HIDE DEF r
<1> DEFINE at(k) == IF k < p THEN k ELSE k - 1
<1>a. \A k \in 1..Len(r) : k # p => at(k) \in 1..Len(q) /\ r[k] = q[at(k)]
  BY <1>1, <1>2
<1>b. p \in 1..Len(r) /\ r[p] = new
  BY <1>1, <1>2
<1>3. NoDuplicates(r)
  <2> SUFFICES ASSUME NEW i \in 1..Len(r), NEW j \in 1..Len(r), r[i] = r[j]
               PROVE  i = j
    BY DEF NoDuplicates
  <2>1. CASE i = p
    BY <1>a, <1>b, <2>1 DEF Contains
  <2>2. CASE j = p
    BY <1>a, <1>b, <2>2 DEF Contains
  <2>3. CASE i # p /\ j # p
    <3>1. at(i) \in 1..Len(q) /\ at(j) \in 1..Len(q) /\ q[at(i)] = q[at(j)]
      BY <1>a, <2>3
    <3>2. at(i) = at(j)
      BY <3>1 DEF NoDuplicates
    <3>3. QED
      BY <3>2, <1>1, <2>3
  <2>4. QED
    BY <2>1, <2>2, <2>3
<1>4. ASSUME NEW x, Contains(r, x) PROVE Contains(q, x) \/ x = new
  <2>1. PICK k \in 1..Len(r) : r[k] = x
    BY <1>4 DEF Contains
  <2>2. QED
    BY <2>1, <1>a, <1>b DEF Contains
<1>5. ASSUME NEW x, Contains(q, x) PROVE Contains(r, x)
  <2>1. PICK i \in 1..Len(q) : q[i] = x
    BY <1>5 DEF Contains
  <2>2. CASE i < p
    BY <1>1, <1>2, <2>1, <2>2 DEF Contains
  <2>3. CASE i >= p
    <3>1. i + 1 \in 1..Len(r) /\ r[i + 1] = q[i]
      BY <1>1, <1>2, <2>1, <2>3
    <3>2. QED BY <3>1, <2>1 DEF Contains
  <2>4. QED BY <1>1, <2>1, <2>2, <2>3
<1>6. Contains(r, new)
  BY <1>b DEF Contains
<1>7. QED BY <1>2, <1>3, <1>4, <1>5, <1>6 DEF LIST_INSERT_BEFORE, r, p

\* Append adds exactly the given element.
LEMMA ListAppend ==
  ASSUME NEW q \in Seq(Env), NoDuplicates(q), NEW new \in Env, ~Contains(q, new)
  PROVE  /\ Append(q, new) \in Seq(Env)
         /\ NoDuplicates(Append(q, new))
         /\ \A x : Contains(Append(q, new), x) <=> Contains(q, x) \/ x = new
<1> DEFINE r == Append(q, new)
<1>1. /\ r \in Seq(Env) /\ Len(r) = Len(q) + 1
      /\ \A j \in 1..Len(q) : r[j] = q[j]
      /\ r[Len(q) + 1] = new
  OBVIOUS
<1> HIDE DEF r
<1>2. NoDuplicates(r)
  BY <1>1 DEF NoDuplicates, Contains
<1>3. ASSUME NEW x, Contains(r, x) PROVE Contains(q, x) \/ x = new
  BY <1>1, <1>3 DEF Contains
<1>4. ASSUME NEW x, Contains(q, x) \/ x = new PROVE Contains(r, x)
  BY <1>1, <1>4 DEF Contains
<1>5. QED BY <1>1, <1>2, <1>3, <1>4 DEF r

-----------------------------------------------------------------------------
(* The scheduler's helpers.  WellFormed is what every one of them keeps;   *)
(* CurOK is broken while a handler works on curenv and restored by         *)
(* fos_scheduler.                                                          *)

WellFormed(s) == s \in SchedState /\ QueuesOK(s) /\ NextOK(s)

CurOK(s) == /\ s.cur # NULL => s.st[s.cur] = "READY"
            /\ s.started <=> s.cur # NULL
            /\ s.cur = NULL => s.ready = <<>>

\* The circular successor of a member of a list is a member, and is another
\* one unless the list has only one.
LEMMA CircularSuccessor ==
  ASSUME NEW q \in Seq(Env), NoDuplicates(q), NEW e, Contains(q, e)
  PROVE  /\ Contains(q, sched_next_circular(q, e))
         /\ sched_next_circular(q, e) = e => Len(q) = 1
<1>1. Position(q, e) \in 1..Len(q) /\ q[Position(q, e)] = e
  BY PositionOfMember
<1> DEFINE p == Position(q, e)
<1> HIDE DEF p
<1>2. CASE p < Len(q)
  <2>1. sched_next_circular(q, e) = q[p + 1] /\ p + 1 \in 1..Len(q)
    BY <1>1, <1>2 DEF sched_next_circular, p
  <2>2. q[p + 1] # e
    BY <1>1, <2>1 DEF NoDuplicates, p
  <2>3. QED
    BY <2>1, <2>2 DEF Contains
<1>3. CASE p = Len(q)
  <2>1. sched_next_circular(q, e) = q[1] /\ 1 \in 1..Len(q)
    BY <1>1, <1>3 DEF sched_next_circular, p
  <2>2. q[1] = e => p = 1
    BY <1>1, <2>1 DEF NoDuplicates, p
  <2>3. QED
    BY <2>1, <2>2, <1>3 DEF Contains
<1>4. QED
  BY <1>1, <1>2, <1>3 DEF p

\* fos_scheduler keeps the queues, and leaves a ready environment running or
\* the prompt with nothing ready.
LEMMA FosScheduler ==
  ASSUME NEW s, WellFormed(s)
  PROVE  WellFormed(fos_scheduler(s)) /\ CurOK(fos_scheduler(s))
<1> DEFINE n == IF s.next = NULL THEN NULL ELSE sched_next_circular(s.ready, s.next)
           b == s.next # NULL
           t == [s EXCEPT !.cur = s.next, !.next = n, !.started = b]
<1>1. /\ s \in SchedState /\ s.ready \in Seq(Env) /\ s.next \in Env \cup {NULL}
      /\ NoDuplicates(s.ready) /\ QueuesOK(s)
  BY DEF WellFormed, SchedState, QueuesOK
<1>2. /\ s.next # NULL => Contains(s.ready, s.next)
      /\ s.next = NULL => s.ready = <<>>
  <2>1. CASE s.ready = <<>>
    BY <2>1 DEF WellFormed, NextOK
  <2>2. CASE s.ready # <<>>
    <3>1. Contains(s.ready, s.next)
      BY <2>2 DEF WellFormed, NextOK
    <3>2. s.next \in Env
      BY <3>1, <1>1 DEF Contains
    <3>3. QED BY <3>1, <3>2, EnvAssumption
  <2>3. QED BY <2>1, <2>2
<1>3. n # NULL => Contains(s.ready, n)
  BY <1>1, <1>2, CircularSuccessor
<1>4. n \in Env \cup {NULL} /\ (s.next # NULL => n # NULL)
  <2>1. CASE s.next = NULL
    BY <2>1
  <2>2. CASE s.next # NULL
    <3>1. Contains(s.ready, n)
      BY <1>1, <1>2, <2>2, CircularSuccessor
    <3>2. n \in Env
      BY <3>1, <1>1 DEF Contains
    <3>3. QED BY <3>2, EnvAssumption
  <2>3. QED BY <2>1, <2>2
<1>5. b \in BOOLEAN
  OBVIOUS
<1>6. s.next = NULL => n = NULL
  OBVIOUS
<1>7. fos_scheduler(s) = t
  BY DEF fos_scheduler
<1> HIDE DEF n, b
<1>8. /\ t \in SchedState
      /\ t.ready = s.ready /\ t.new = s.new /\ t.exit = s.exit /\ t.free = s.free
      /\ t.st = s.st /\ t.cur = s.next /\ t.next = n /\ t.started = b
  BY <1>1, <1>4, <1>5 DEF SchedState
<1> HIDE DEF t
<1>9. QueuesOK(t)
  BY <1>1, <1>8 DEF QueuesOK
<1>10. NextOK(t)
  <2>1. s.next = NULL => s.ready = <<>> /\ n = NULL
    BY <1>2, <1>6
  <2>2. s.next # NULL => s.ready # <<>> /\ Contains(s.ready, n)
    BY <1>2, <1>3, <1>4 DEF Contains
  <2>3. QED BY <2>1, <2>2, <1>8 DEF NextOK
<1>11. CurOK(t)
  <2>1. s.next # NULL => s.st[s.next] = "READY"
    BY <1>1, <1>2 DEF QueuesOK
  <2>2. QED BY <1>2, <1>8, <2>1 DEF CurOK, b
<1>12. QED BY <1>7, <1>8, <1>9, <1>10, <1>11 DEF WellFormed

\* An environment that is in no queue and not in the free list.
Detached(s, e) == /\ ~Contains(s.new, e) /\ e \notin s.free
                  /\ s.st[e] \notin {"READY", "EXIT"}

\* sched_insert_ready of a detached environment.
LEMMA InsertReady ==
  ASSUME NEW s, WellFormed(s), NEW e \in Env, Detached(s, e)
  PROVE  LET t == sched_insert_ready(s, e)
         IN  /\ WellFormed(t) /\ t.cur = s.cur /\ t.started = s.started
             /\ t.st = [s.st EXCEPT ![e] = "READY"] /\ t.ready # <<>>
<1> DEFINE q == IF s.next # NULL THEN LIST_INSERT_BEFORE(s.ready, s.next, e)
                                 ELSE Append(s.ready, e)
           n == IF s.next # NULL THEN s.next ELSE e
           f == [s.st EXCEPT ![e] = "READY"]
           t == [s EXCEPT !.st = f, !.ready = q, !.next = n]
<1>1. /\ s \in SchedState /\ s.ready \in Seq(Env) /\ s.next \in Env \cup {NULL}
      /\ s.st \in [Env -> EnvStatus] /\ QueuesOK(s) /\ NextOK(s)
      /\ NoDuplicates(s.ready) /\ ~Contains(s.ready, e)
  BY DEF WellFormed, SchedState, QueuesOK, Detached
<1>2. s.next # NULL => Contains(s.ready, s.next)
  BY <1>1 DEF NextOK
<1>3. /\ q \in Seq(Env) /\ NoDuplicates(q)
      /\ \A x : Contains(q, x) <=> Contains(s.ready, x) \/ x = e
  <2>1. CASE s.next # NULL
    BY <1>1, <1>2, <2>1, ListInsertBefore
  <2>2. CASE s.next = NULL
    BY <1>1, <2>2, ListAppend
  <2>3. QED BY <2>1, <2>2
<1>4. n \in Env /\ Contains(q, n)
  BY <1>1, <1>2, <1>3
<1>5. f \in [Env -> EnvStatus] /\ f[e] = "READY"
      /\ \A x \in Env : x # e => f[x] = s.st[x]
  BY <1>1 DEF EnvStatus
<1>6. sched_insert_ready(s, e) = t
  BY <1>1 DEF sched_insert_ready, SchedState
<1> HIDE DEF q, n, f
<1>7. /\ t \in SchedState
      /\ t.ready = q /\ t.new = s.new /\ t.exit = s.exit /\ t.free = s.free
      /\ t.st = f /\ t.cur = s.cur /\ t.next = n /\ t.started = s.started
  BY <1>1, <1>3, <1>4, <1>5 DEF SchedState
<1> HIDE DEF t
<1>8. QueuesOK(t)
  BY <1>1, <1>3, <1>5, <1>7 DEF QueuesOK, Detached
<1>9. t.ready # <<>>
  BY <1>4, <1>7 DEF Contains
<1>10. NextOK(t)
  BY <1>4, <1>7, <1>9 DEF NextOK
<1>11. QED
  BY <1>6, <1>7, <1>8, <1>9, <1>10 DEF WellFormed, f

\* sched_remove_ready of a ready environment leaves it detached.
LEMMA RemoveReady ==
  ASSUME NEW s, WellFormed(s), NEW e \in Env, s.st[e] = "READY"
  PROVE  LET t == sched_remove_ready(s, e)
         IN  /\ WellFormed(t) /\ t.cur = s.cur /\ t.started = s.started
             /\ t.st = [s.st EXCEPT ![e] = "UNKNOWN"] /\ Detached(t, e)
<1> DEFINE q == LIST_REMOVE(s.ready, e)
           c == sched_next_circular(s.ready, e)
           n == IF s.next # e THEN s.next ELSE IF c = e THEN NULL ELSE c
           f == [s.st EXCEPT ![e] = "UNKNOWN"]
           t == [s EXCEPT !.next = n, !.ready = q, !.st = f]
<1>1. /\ s \in SchedState /\ s.ready \in Seq(Env) /\ s.next \in Env \cup {NULL}
      /\ s.st \in [Env -> EnvStatus] /\ QueuesOK(s) /\ NextOK(s)
      /\ NoDuplicates(s.ready) /\ Contains(s.ready, e)
  BY DEF WellFormed, SchedState, QueuesOK
<1>2. Contains(s.ready, s.next)
  BY <1>1 DEF NextOK, Contains
<1>3. /\ q \in Seq(Env) /\ NoDuplicates(q)
      /\ \A x : Contains(q, x) <=> Contains(s.ready, x) /\ x # e
  BY <1>1, ListRemove
<1>4. Contains(s.ready, c) /\ c \in Env /\ (c = e => Len(s.ready) = 1)
  BY <1>1, CircularSuccessor DEF Contains
<1>5. f \in [Env -> EnvStatus] /\ f[e] = "UNKNOWN"
      /\ \A x \in Env : x # e => f[x] = s.st[x]
  BY <1>1 DEF EnvStatus
<1>6. sched_remove_ready(s, e) = t
  BY <1>1 DEF sched_remove_ready, SchedState
<1>7. Len(s.ready) = 1 => q = <<>>
  <2>1. Position(s.ready, e) \in 1..Len(s.ready)
    BY <1>1, PositionOfMember
  <2>2. Len(q) = Len(s.ready) - 1
    BY <1>1, <2>1, RemoveAtElements DEF LIST_REMOVE
  <2>3. QED BY <1>3, <2>2
<1>8. IF q = <<>> THEN n = NULL ELSE Contains(q, n)
  <2>1. CASE s.next # e
    <3>1. Contains(q, n)
      BY <1>2, <1>3, <2>1
    <3>2. QED BY <3>1 DEF Contains
  <2>2. CASE s.next = e /\ c = e
    BY <1>4, <1>7, <2>2
  <2>3. CASE s.next = e /\ c # e
    <3>1. Contains(q, n)
      BY <1>3, <1>4, <2>3
    <3>2. QED BY <3>1 DEF Contains
  <2>4. QED BY <2>1, <2>2, <2>3
<1>9. n \in Env \cup {NULL}
  BY <1>1, <1>4
<1> HIDE DEF q, c, n, f
<1>10. /\ t \in SchedState
       /\ t.ready = q /\ t.new = s.new /\ t.exit = s.exit /\ t.free = s.free
       /\ t.st = f /\ t.cur = s.cur /\ t.next = n /\ t.started = s.started
  BY <1>1, <1>3, <1>5, <1>9 DEF SchedState
<1> HIDE DEF t
<1>11. QueuesOK(t)
  BY <1>1, <1>3, <1>5, <1>10 DEF QueuesOK
<1>12. NextOK(t)
  BY <1>8, <1>10 DEF NextOK
<1>13. Detached(t, e)
  BY <1>1, <1>5, <1>10 DEF Detached, QueuesOK
<1>14. QED
  BY <1>6, <1>10, <1>11, <1>12, <1>13 DEF WellFormed, f

\* sched_insert_new of a detached environment.
LEMMA InsertNew ==
  ASSUME NEW s, WellFormed(s), NEW e \in Env, Detached(s, e)
  PROVE  LET t == sched_insert_new(s, e)
         IN  /\ WellFormed(t) /\ t.cur = s.cur /\ t.started = s.started
             /\ t.st = [s.st EXCEPT ![e] = "NEW"] /\ t.ready = s.ready
<1> DEFINE q == Append(s.new, e)
           f == [s.st EXCEPT ![e] = "NEW"]
           t == [s EXCEPT !.st = f, !.new = q]
<1>1. /\ s \in SchedState /\ s.new \in Seq(Env) /\ NoDuplicates(s.new)
      /\ s.st \in [Env -> EnvStatus] /\ QueuesOK(s) /\ NextOK(s)
  BY DEF WellFormed, SchedState, QueuesOK
<1>2. ~Contains(s.new, e)
  BY <1>1 DEF QueuesOK, Detached
<1>3. /\ q \in Seq(Env) /\ NoDuplicates(q)
      /\ \A x : Contains(q, x) <=> Contains(s.new, x) \/ x = e
  BY <1>1, <1>2, ListAppend
<1>4. f \in [Env -> EnvStatus] /\ f[e] = "NEW"
      /\ \A x \in Env : x # e => f[x] = s.st[x]
  BY <1>1 DEF EnvStatus
<1>5. sched_insert_new(s, e) = t
  BY <1>1 DEF sched_insert_new, SchedState
<1> HIDE DEF q, f
<1>6. /\ t \in SchedState
      /\ t.new = q /\ t.ready = s.ready /\ t.exit = s.exit /\ t.free = s.free
      /\ t.st = f /\ t.cur = s.cur /\ t.next = s.next /\ t.started = s.started
  BY <1>1, <1>3, <1>4 DEF SchedState
<1> HIDE DEF t
<1>7. QueuesOK(t)
  BY <1>1, <1>2, <1>3, <1>4, <1>6 DEF QueuesOK, Detached
<1>8. NextOK(t)
  BY <1>1, <1>6 DEF NextOK
<1>10. QED
  BY <1>5, <1>6, <1>7, <1>8 DEF WellFormed, f

\* sched_remove_new of an environment in the new queue leaves it detached.
LEMMA RemoveNew ==
  ASSUME NEW s, WellFormed(s), NEW e \in Env, Contains(s.new, e)
  PROVE  LET t == sched_remove_new(s, e)
         IN  /\ WellFormed(t) /\ t.cur = s.cur /\ t.started = s.started
             /\ t.st = [s.st EXCEPT ![e] = "UNKNOWN"] /\ t.ready = s.ready /\ Detached(t, e)
<1> DEFINE q == LIST_REMOVE(s.new, e)
           f == [s.st EXCEPT ![e] = "UNKNOWN"]
           t == [s EXCEPT !.st = f, !.new = q]
<1>1. /\ s \in SchedState /\ s.new \in Seq(Env) /\ NoDuplicates(s.new)
      /\ s.st \in [Env -> EnvStatus] /\ QueuesOK(s) /\ NextOK(s)
  BY DEF WellFormed, SchedState, QueuesOK
<1>2. s.st[e] = "NEW" /\ e \notin s.free
  BY <1>1 DEF QueuesOK, Detached
<1>3. /\ q \in Seq(Env) /\ NoDuplicates(q)
      /\ \A x : Contains(q, x) <=> Contains(s.new, x) /\ x # e
  BY <1>1, <1>2, ListRemove
<1>4. f \in [Env -> EnvStatus] /\ f[e] = "UNKNOWN"
      /\ \A x \in Env : x # e => f[x] = s.st[x]
  BY <1>1 DEF EnvStatus
<1>5. sched_remove_new(s, e) = t
  BY <1>1 DEF sched_remove_new, SchedState
<1> HIDE DEF q, f
<1>6. /\ t \in SchedState
      /\ t.new = q /\ t.ready = s.ready /\ t.exit = s.exit /\ t.free = s.free
      /\ t.st = f /\ t.cur = s.cur /\ t.next = s.next /\ t.started = s.started
  BY <1>1, <1>3, <1>4 DEF SchedState
<1> HIDE DEF t
<1>7. QueuesOK(t)
  BY <1>1, <1>2, <1>3, <1>4, <1>6 DEF QueuesOK, Detached
<1>8. NextOK(t)
  BY <1>1, <1>6 DEF NextOK
<1>9. Detached(t, e)
  BY <1>1, <1>2, <1>3, <1>4, <1>6 DEF Detached, QueuesOK
<1>10. QED
  BY <1>5, <1>6, <1>7, <1>8, <1>9 DEF WellFormed, f

\* sched_insert_exit of a detached environment.
LEMMA InsertExit ==
  ASSUME NEW s, WellFormed(s), NEW e \in Env, Detached(s, e)
  PROVE  LET t == sched_insert_exit(s, e)
         IN  /\ WellFormed(t) /\ t.cur = s.cur /\ t.started = s.started
             /\ t.st = [s.st EXCEPT ![e] = "EXIT"] /\ t.ready = s.ready
<1> DEFINE q == Append(s.exit, e)
           f == [s.st EXCEPT ![e] = "EXIT"]
           t == [s EXCEPT !.st = f, !.exit = q]
<1>1. /\ s \in SchedState /\ s.exit \in Seq(Env) /\ NoDuplicates(s.exit)
      /\ s.st \in [Env -> EnvStatus] /\ QueuesOK(s) /\ NextOK(s)
  BY DEF WellFormed, SchedState, QueuesOK
<1>2. ~Contains(s.exit, e)
  BY <1>1 DEF QueuesOK, Detached
<1>3. /\ q \in Seq(Env) /\ NoDuplicates(q)
      /\ \A x : Contains(q, x) <=> Contains(s.exit, x) \/ x = e
  BY <1>1, <1>2, ListAppend
<1>4. f \in [Env -> EnvStatus] /\ f[e] = "EXIT"
      /\ \A x \in Env : x # e => f[x] = s.st[x]
  BY <1>1 DEF EnvStatus
<1>5. sched_insert_exit(s, e) = t
  BY <1>1 DEF sched_insert_exit, SchedState
<1> HIDE DEF q, f
<1>6. /\ t \in SchedState
      /\ t.exit = q /\ t.ready = s.ready /\ t.new = s.new /\ t.free = s.free
      /\ t.st = f /\ t.cur = s.cur /\ t.next = s.next /\ t.started = s.started
  BY <1>1, <1>3, <1>4 DEF SchedState
<1> HIDE DEF t
<1>7. QueuesOK(t)
  BY <1>1, <1>2, <1>3, <1>4, <1>6 DEF QueuesOK, Detached
<1>8. NextOK(t)
  BY <1>1, <1>6 DEF NextOK
<1>10. QED
  BY <1>5, <1>6, <1>7, <1>8 DEF WellFormed, f

\* sched_remove_exit of an environment in the exit queue leaves it detached.
LEMMA RemoveExit ==
  ASSUME NEW s, WellFormed(s), NEW e \in Env, Contains(s.exit, e)
  PROVE  LET t == sched_remove_exit(s, e)
         IN  /\ WellFormed(t) /\ t.cur = s.cur /\ t.started = s.started
             /\ t.st = [s.st EXCEPT ![e] = "UNKNOWN"] /\ t.ready = s.ready /\ Detached(t, e)
<1> DEFINE q == LIST_REMOVE(s.exit, e)
           f == [s.st EXCEPT ![e] = "UNKNOWN"]
           t == [s EXCEPT !.st = f, !.exit = q]
<1>1. /\ s \in SchedState /\ s.exit \in Seq(Env) /\ NoDuplicates(s.exit)
      /\ s.st \in [Env -> EnvStatus] /\ QueuesOK(s) /\ NextOK(s)
  BY DEF WellFormed, SchedState, QueuesOK
<1>2. s.st[e] = "EXIT" /\ e \notin s.free /\ ~Contains(s.new, e)
  BY <1>1 DEF QueuesOK, Detached
<1>3. /\ q \in Seq(Env) /\ NoDuplicates(q)
      /\ \A x : Contains(q, x) <=> Contains(s.exit, x) /\ x # e
  BY <1>1, <1>2, ListRemove
<1>4. f \in [Env -> EnvStatus] /\ f[e] = "UNKNOWN"
      /\ \A x \in Env : x # e => f[x] = s.st[x]
  BY <1>1 DEF EnvStatus
<1>5. sched_remove_exit(s, e) = t
  BY <1>1 DEF sched_remove_exit, SchedState
<1> HIDE DEF q, f
<1>6. /\ t \in SchedState
      /\ t.exit = q /\ t.ready = s.ready /\ t.new = s.new /\ t.free = s.free
      /\ t.st = f /\ t.cur = s.cur /\ t.next = s.next /\ t.started = s.started
  BY <1>1, <1>3, <1>4 DEF SchedState
<1> HIDE DEF t
<1>7. QueuesOK(t)
  BY <1>1, <1>2, <1>3, <1>4, <1>6 DEF QueuesOK, Detached
<1>8. NextOK(t)
  BY <1>1, <1>6 DEF NextOK
<1>9. Detached(t, e)
  BY <1>1, <1>2, <1>3, <1>4, <1>6 DEF Detached, QueuesOK
<1>10. QED
  BY <1>5, <1>6, <1>7, <1>8, <1>9 DEF WellFormed, f

\* env_exit of a ready curenv ends in a consistent state.
LEMMA EnvExit ==
  ASSUME NEW s, WellFormed(s), s.cur \in Env, s.st[s.cur] = "READY"
  PROVE  WellFormed(env_exit(s)) /\ CurOK(env_exit(s))
<1> DEFINE r == sched_remove_ready(s, s.cur)
<1>1. ~Contains(s.new, s.cur)
  BY DEF WellFormed, QueuesOK
<1>2. WellFormed(r) /\ Detached(r, s.cur)
  BY RemoveReady
<1>3. WellFormed(sched_insert_exit(r, s.cur))
  BY <1>2, InsertExit
<1>4. env_exit(s) = fos_scheduler(sched_insert_exit(r, s.cur))
  BY <1>1 DEF env_exit, sched_exit_env
<1>5. QED
  BY <1>3, <1>4, FosScheduler

\* So does a panic, whatever the handler has done to curenv before it.
LEMMA Panic ==
  ASSUME NEW s, WellFormed(s)
  PROVE  WellFormed(panic(s)) /\ CurOK(panic(s))
<1>1. s.cur \in Env \cup {NULL}
  BY DEF WellFormed, SchedState
<1>2. CASE s.cur # NULL /\ s.st[s.cur] = "READY"
  BY <1>1, <1>2, EnvExit DEF panic
<1>3. CASE ~(s.cur # NULL /\ s.st[s.cur] = "READY")
  BY <1>3, FosScheduler DEF panic
<1>4. QED
  BY <1>2, <1>3

\* And so does killing an environment, in whatever queue it is.
LEMMA KillKeeps ==
  ASSUME NEW s, WellFormed(s), CurOK(s), NEW e \in Env
  PROVE  WellFormed(sched_kill_env(s, e)) /\ CurOK(sched_kill_env(s, e))
<1>1. CASE Contains(s.new, e)
  BY <1>1, RemoveNew, Panic DEF sched_kill_env, start_env_free
<1>2. CASE ~Contains(s.new, e) /\ Contains(s.ready, e)
  <2>1. s.st[e] = "READY"
    BY <1>2 DEF WellFormed, QueuesOK
  <2>2. QED
    BY <1>2, <2>1, RemoveReady, Panic DEF sched_kill_env, start_env_free
<1>3. CASE ~Contains(s.new, e) /\ ~Contains(s.ready, e) /\ Contains(s.exit, e)
  BY <1>3, RemoveExit, Panic DEF sched_kill_env, start_env_free
<1>4. CASE ~Contains(s.new, e) /\ ~Contains(s.ready, e) /\ ~Contains(s.exit, e)
  BY <1>4 DEF sched_kill_env
<1>5. QED
  BY <1>1, <1>2, <1>3, <1>4

\* sched_run_env, from the prompt or with the scheduler running.
LEMMA RunEnvKeeps ==
  ASSUME NEW s, WellFormed(s), CurOK(s), NEW e \in Env
  PROVE  WellFormed(sched_run_env(s, e)) /\ CurOK(sched_run_env(s, e))
<1> DEFINE u == sched_remove_new(s, e)
           r == sched_insert_ready(u, e)
<1>1. CASE ~Contains(s.new, e)
  BY <1>1 DEF sched_run_env
<1>2. CASE Contains(s.new, e)
  <2>1. /\ WellFormed(u) /\ Detached(u, e) /\ u.cur = s.cur /\ u.started = s.started
        /\ u.st = [s.st EXCEPT ![e] = "UNKNOWN"]
    BY <1>2, RemoveNew
  <2> HIDE DEF u
  <2>2. /\ WellFormed(r) /\ r.cur = u.cur /\ r.started = u.started
        /\ r.st = [u.st EXCEPT ![e] = "READY"]
    BY <2>1, InsertReady
  <2> HIDE DEF r
  <2>3. CASE s.started
    <3>1. s.cur \in Env /\ s.st[s.cur] = "READY" /\ s.st \in [Env -> EnvStatus]
      BY <2>3 DEF CurOK, WellFormed, SchedState
    <3>2. r.cur = s.cur /\ r.started /\ r.st[s.cur] = "READY"
      BY <2>1, <2>2, <2>3, <3>1
    <3>3. CurOK(r)
      BY <3>1, <3>2, EnvAssumption DEF CurOK
    <3>4. QED
      BY <1>2, <2>2, <2>3, <3>3 DEF sched_run_env, r, u
  <2>4. CASE ~s.started
    BY <1>2, <2>2, <2>4, FosScheduler DEF sched_run_env, r, u
  <2>5. QED
    BY <2>3, <2>4
<1>3. QED
  BY <1>1, <1>2

\* A struct committed by env_create is detached.
LEMMA EnvCreate ==
  ASSUME NEW s, WellFormed(s), NEW e \in s.free
  PROVE  LET t == env_create(s, e)
         IN  /\ WellFormed(t) /\ Detached(t, e) /\ t.cur = s.cur
             /\ t.started = s.started /\ t.ready = s.ready
             /\ t.st = [s.st EXCEPT ![e] = "NEW"]
<1> DEFINE f == [s.st EXCEPT ![e] = "NEW"]
           g == [s.intr EXCEPT ![e] = TRUE]
           t == [s EXCEPT !.free = s.free \ {e}, !.st = f, !.intr = g]
<1>1. /\ s \in SchedState /\ e \in Env /\ s.free \in SUBSET Env
      /\ s.st \in [Env -> EnvStatus] /\ QueuesOK(s) /\ NextOK(s)
  BY DEF WellFormed, SchedState
<1>2. f \in [Env -> EnvStatus] /\ f[e] = "NEW"
      /\ \A x \in Env : x # e => f[x] = s.st[x]
  BY <1>1 DEF EnvStatus
<1>3. g \in [Env -> BOOLEAN]
  BY <1>1 DEF SchedState
<1>4. env_create(s, e) = t
  BY <1>1 DEF env_create, SchedState
<1> HIDE DEF f, g
<1>5. /\ t \in SchedState
      /\ t.new = s.new /\ t.ready = s.ready /\ t.exit = s.exit /\ t.free = s.free \ {e}
      /\ t.st = f /\ t.cur = s.cur /\ t.next = s.next /\ t.started = s.started
  BY <1>1, <1>2, <1>3 DEF SchedState
<1> HIDE DEF t
<1>6. QueuesOK(t)
  BY <1>1, <1>2, <1>5 DEF QueuesOK
<1>7. NextOK(t)
  BY <1>1, <1>5 DEF NextOK
<1>8. Detached(t, e)
  BY <1>1, <1>2, <1>5 DEF Detached, QueuesOK
<1>9. QED
  BY <1>4, <1>5, <1>6, <1>7, <1>8 DEF WellFormed, f

\* A struct in the free list may be marked ENV_UNKNOWN.
LEMMA FreeRenamed ==
  ASSUME NEW s, WellFormed(s), NEW e \in s.free
  PROVE  LET t == [s EXCEPT !.st[e] = "UNKNOWN"]
         IN  WellFormed(t) /\ t.st = [s.st EXCEPT ![e] = "UNKNOWN"]
<1> DEFINE f == [s.st EXCEPT ![e] = "UNKNOWN"]
           t == [s EXCEPT !.st = f]
<1>1. /\ s \in SchedState /\ e \in Env /\ s.st \in [Env -> EnvStatus]
      /\ s.st[e] \in {"FREE", "UNKNOWN"}
  BY DEF SchedState, WellFormed, QueuesOK
<1>2. f \in [Env -> EnvStatus] /\ f[e] = "UNKNOWN"
      /\ \A x \in Env : x # e => f[x] = s.st[x]
  BY <1>1 DEF EnvStatus
<1>3. [s EXCEPT !.st[e] = "UNKNOWN"] = t
  BY <1>1 DEF SchedState
<1> HIDE DEF f
<1>4. /\ t \in SchedState /\ t.ready = s.ready /\ t.new = s.new
      /\ t.exit = s.exit /\ t.free = s.free /\ t.st = f /\ t.next = s.next
  BY <1>1, <1>2 DEF SchedState
<1> HIDE DEF t
<1>5. QueuesOK(t)
  BY <1>1, <1>2, <1>4 DEF WellFormed, QueuesOK
<1>6. NextOK(t)
  BY <1>4 DEF WellFormed, NextOK
<1>7. QED
  BY <1>3, <1>4, <1>5, <1>6 DEF WellFormed, f

\* Moving the head of a list to its end keeps its members.
LEMMA Rotate ==
  ASSUME NEW q \in Seq(Env), NoDuplicates(q), q # <<>>
  PROVE  LET r == <<>> \o Append(Tail(q), Head(q))
         IN  /\ r \in Seq(Env) /\ NoDuplicates(r) /\ Contains(r, Head(q))
             /\ Head(q) \in Env /\ \A x : Contains(r, x) <=> Contains(q, x)
<1> DEFINE r == Append(Tail(q), Head(q))
           at(k) == IF k = Len(q) THEN 1 ELSE k + 1
<1>1. /\ r \in Seq(Env) /\ Len(r) = Len(q) /\ Head(q) = q[1] /\ Len(q) \in Nat \ {0}
      /\ Head(q) \in Env
      /\ \A k \in 1..Len(q) : r[k] = q[at(k)]
  OBVIOUS
<1>2. <<>> \o r = r
  BY <1>1, ConcatEmptySeq
<1> HIDE DEF r
<1>3. NoDuplicates(r)
  <2> SUFFICES ASSUME NEW i \in 1..Len(r), NEW j \in 1..Len(r), r[i] = r[j]
               PROVE  i = j
    BY DEF NoDuplicates
  <2>1. at(i) \in 1..Len(q) /\ at(j) \in 1..Len(q) /\ q[at(i)] = q[at(j)]
    BY <1>1
  <2>2. at(i) = at(j)
    BY <2>1 DEF NoDuplicates
  <2>3. QED BY <2>2, <1>1
<1>4. ASSUME NEW x, Contains(r, x) PROVE Contains(q, x)
  BY <1>1, <1>4 DEF Contains
<1>5. ASSUME NEW x, Contains(q, x) PROVE Contains(r, x)
  <2>1. PICK i \in 1..Len(q) : q[i] = x
    BY <1>5 DEF Contains
  <2>2. CASE i = 1
    BY <1>1, <2>1, <2>2 DEF Contains
  <2>3. CASE i # 1
    <3>1. i - 1 \in 1..Len(r) /\ r[i - 1] = q[i]
      BY <1>1, <2>1, <2>3
    <3>2. QED BY <3>1, <2>1 DEF Contains
  <2>4. QED BY <2>2, <2>3
<1>6. Contains(q, Head(q))
  BY <1>1 DEF Contains
<1>7. QED
  BY <1>1, <1>2, <1>3, <1>4, <1>5, <1>6 DEF r

\* "run all" at the prompt, where nothing is ready.
LEMMA RunAllKeeps ==
  ASSUME NEW s, WellFormed(s), CurOK(s), s.cur = NULL
  PROVE  WellFormed(sched_run_all(s)) /\ CurOK(sched_run_all(s))
<1> DEFINE q == <<>> \o Append(Tail(s.new), Head(s.new))
           f == [e \in Env |-> IF Contains(s.new, e) THEN "READY" ELSE s.st[e]]
           rdy == IF s.new = <<>> THEN <<>> ELSE q
           n == IF s.new # <<>> THEN Head(s.new) ELSE NULL
           t == [s EXCEPT !.new = <<>>, !.st = f, !.next = n, !.ready = rdy]
<1>1. /\ s \in SchedState /\ s.new \in Seq(Env) /\ NoDuplicates(s.new)
      /\ s.st \in [Env -> EnvStatus] /\ QueuesOK(s)
      /\ s.ready = <<>> /\ s.next = NULL /\ s.started = FALSE
  BY DEF WellFormed, SchedState, QueuesOK, CurOK, NextOK
<1>2. sched_run_all(s) = fos_scheduler(t)
  BY <1>1 DEF sched_run_all
<1>3. /\ rdy \in Seq(Env) /\ NoDuplicates(rdy) /\ n \in Env \cup {NULL}
      /\ \A x : Contains(rdy, x) <=> Contains(s.new, x)
      /\ IF rdy = <<>> THEN n = NULL ELSE Contains(rdy, n)
  <2>1. CASE s.new = <<>>
    BY <2>1 DEF NoDuplicates, Contains
  <2>2. CASE s.new # <<>>
    <3>1. /\ q \in Seq(Env) /\ NoDuplicates(q) /\ Contains(q, Head(s.new))
          /\ Head(s.new) \in Env /\ \A x : Contains(q, x) <=> Contains(s.new, x)
      BY <1>1, <2>2, Rotate
    <3> HIDE DEF q
    <3>2. rdy = q /\ n = Head(s.new)
      BY <2>2
    <3>3. q # <<>>
      BY <3>1 DEF Contains
    <3>4. QED BY <3>1, <3>2, <3>3
  <2>3. QED BY <2>1, <2>2
<1>4. /\ f \in [Env -> EnvStatus]
      /\ \A e \in Env : f[e] = IF Contains(s.new, e) THEN "READY" ELSE s.st[e]
  BY <1>1 DEF EnvStatus
<1> HIDE DEF f, n, rdy
<1>5. /\ t \in SchedState
      /\ t.new = <<>> /\ t.ready = rdy /\ t.exit = s.exit /\ t.free = s.free
      /\ t.st = f /\ t.next = n
  BY <1>1, <1>3, <1>4 DEF SchedState
<1> HIDE DEF t
<1>6. QueuesOK(t)
  <2>1. NoDuplicates(t.new) /\ \A x : ~Contains(t.new, x)
    BY <1>5 DEF NoDuplicates, Contains
  <2>2. \A e \in Env : s.st[e] # "READY"
    BY <1>1 DEF QueuesOK, Contains
  <2>3. QED
    BY <1>1, <1>3, <1>4, <1>5, <2>1, <2>2 DEF QueuesOK
<1>7. NextOK(t)
  BY <1>3, <1>5 DEF NextOK
<1>8. QED
  BY <1>2, <1>5, <1>6, <1>7, FosScheduler DEF WellFormed

-----------------------------------------------------------------------------
(* The invariant of the scheduler.                                         *)

SchedInv == WellFormed(sch) /\ CurOK(sch)

\* The state the kernel boots into satisfies it.
LEMMA SchedInitial == SchedInit => SchedInv
<1> SUFFICES ASSUME SchedInit PROVE SchedInv
  OBVIOUS
<1>1. sch \in SchedState
  BY DEF SchedInit, SchedState, EnvStatus
<1>2. /\ sch.ready = <<>> /\ sch.new = <<>> /\ sch.exit = <<>> /\ sch.next = NULL
      /\ sch.cur = NULL /\ sch.started = FALSE /\ \A e \in Env : sch.st[e] = "FREE"
  BY DEF SchedInit
<1>3. QueuesOK(sch)
  BY <1>2 DEF QueuesOK, NoDuplicates, Contains
<1>4. QED
  BY <1>1, <1>2, <1>3 DEF SchedInv, WellFormed, NextOK, CurOK

\* Every step of the scheduler keeps it.
LEMMA SchedStep == SchedInv /\ [SchedNext]_sch => SchedInv'
<1> SUFFICES ASSUME SchedInv, [SchedNext]_sch PROVE SchedInv'
  OBVIOUS
<1>0. WellFormed(sch) /\ CurOK(sch) /\ sch \in SchedState
  BY DEF SchedInv, WellFormed
<1>1. CASE clock_interrupt_handler
  BY <1>0, <1>1, FosScheduler DEF clock_interrupt_handler, SchedInv
<1>2. ASSUME NEW b \in BOOLEAN, sch.cur # NULL,
             sch' = [sch EXCEPT !.intr[sch.cur] = b]
      PROVE  SchedInv'
  <2>1. /\ sch' \in SchedState /\ sch'.ready = sch.ready /\ sch'.new = sch.new
        /\ sch'.exit = sch.exit /\ sch'.free = sch.free /\ sch'.st = sch.st
        /\ sch'.cur = sch.cur /\ sch'.next = sch.next /\ sch'.started = sch.started
    BY <1>0, <1>2 DEF SchedState
  <2>2. QueuesOK(sch') /\ NextOK(sch')
    BY <1>0, <2>1 DEF WellFormed, QueuesOK, NextOK
  <2>3. CurOK(sch')
    BY <1>0, <2>1 DEF CurOK
  <2>4. QED
    BY <2>1, <2>2, <2>3 DEF SchedInv, WellFormed
<1>3. CASE sys_disable_interrupt
  BY <1>2, <1>3 DEF sys_disable_interrupt, Running
<1>4. CASE sys_enable_interrupt
  BY <1>2, <1>4 DEF sys_enable_interrupt, Running
<1>5. ASSUME NEW e \in sch.free
      PROVE  LET t == sched_insert_new(env_create(sch, e), e)
             IN  WellFormed(t) /\ CurOK(t)
  <2> DEFINE c == env_create(sch, e)
             t == sched_insert_new(c, e)
  <2>1. e \in Env
    BY <1>0 DEF SchedState
  <2>2. /\ WellFormed(c) /\ Detached(c, e) /\ c.cur = sch.cur
        /\ c.started = sch.started /\ c.ready = sch.ready
        /\ c.st = [sch.st EXCEPT ![e] = "NEW"]
    BY <1>0, EnvCreate
  <2> HIDE DEF c
  <2>3. /\ WellFormed(t) /\ t.cur = c.cur /\ t.started = c.started
        /\ t.st = [c.st EXCEPT ![e] = "NEW"] /\ t.ready = c.ready
    BY <2>1, <2>2, InsertNew
  <2> HIDE DEF t
  <2>4. sch.st \in [Env -> EnvStatus] /\ sch.cur \in Env \cup {NULL}
        /\ sch.st[e] # "READY"
    BY <1>0, <2>1 DEF SchedState, WellFormed, QueuesOK
  <2>5. CurOK(t)
    BY <1>0, <2>2, <2>3, <2>4 DEF CurOK
  <2>6. QED
    BY <2>3, <2>5 DEF t, c
<1>6. ASSUME NEW e \in Env, LoadEnv(e) PROVE SchedInv'
  BY <1>5, <1>6 DEF LoadEnv, SchedInv
<1>7. ASSUME NEW e \in Env, LoadEnvFailsEarly(e) PROVE SchedInv'
  BY <1>0, <1>7, FreeRenamed, Panic DEF LoadEnvFailsEarly, SchedInv
<1>8. ASSUME NEW e \in Env, LoadEnvFailsLate(e) PROVE SchedInv'
  BY <1>0, <1>8, EnvCreate, Panic DEF LoadEnvFailsLate, SchedInv
<1>9. ASSUME NEW e \in Env, sys_run_env(e) PROVE SchedInv'
  BY <1>0, <1>9, RunEnvKeeps DEF sys_run_env, SchedInv
<1>10. ASSUME NEW e \in Env, command_run_program(e) PROVE SchedInv'
  BY <1>5, <1>10, RunEnvKeeps DEF command_run_program, SchedInv
<1>11. CASE command_run_all
  BY <1>0, <1>11, RunAllKeeps DEF command_run_all, AtPrompt, SchedInv
<1>12. ASSUME NEW e \in Env, KillEnv(e) PROVE SchedInv'
  BY <1>0, <1>12, KillKeeps DEF KillEnv, SchedInv
<1>13. CASE command_kill_all
  <2>1. /\ sch.new # <<>> => Head(sch.new) \in Env
        /\ sch.ready # <<>> => Head(sch.ready) \in Env
        /\ sch.exit # <<>> => Head(sch.exit) \in Env
    BY <1>0 DEF SchedState
  <2>2. QED
    BY <1>0, <1>13, <2>1, KillKeeps, FosScheduler
    DEF command_kill_all, sched_kill_all, SchedInv
<1>14. CASE ExitEnv
  <2>1. sch.cur \in Env /\ sch.st[sch.cur] = "READY"
    BY <1>0, <1>14 DEF ExitEnv, Running, CurOK, SchedState
  <2>2. QED
    BY <1>0, <1>14, <2>1, EnvExit DEF ExitEnv, SchedInv
<1>15. CASE UNCHANGED sch
  BY <1>15 DEF SchedInv
<1>16. QED
  BY <1>1, <1>3, <1>4, <1>6, <1>7, <1>8, <1>9, <1>10, <1>11, <1>12, <1>13, <1>14, <1>15
  DEF SchedNext

(***************************************************************************)
(* For every set of environments: the globals and fields of sched.c hold   *)
(* values of their types.                                                  *)
(***************************************************************************)
THEOREM SchedulerTyped == SchedSpec => []SchedTypeOK
<1>1. SchedInv => SchedTypeOK
  BY DEF SchedInv, WellFormed, SchedTypeOK
<1>2. QED
  BY <1>1, SchedInitial, SchedStep, PTL DEF SchedSpec

(***************************************************************************)
(* For every set of environments: the queues agree with env_status,        *)
(* sched_next is never dangling and never NULL while something is ready,   *)
(* and trap()'s assertion holds.                                           *)
(***************************************************************************)
THEOREM SchedulerSafe == SchedSpec => []SchedulerSound
<1>1. SchedInv => SchedulerSound
  BY DEF SchedInv, WellFormed, CurOK, SchedulerSound, QueuesMatchStatus,
         SchedNextInReadyQueue, RunningIsReady
<1>2. QED
  BY <1>1, SchedInitial, SchedStep, PTL DEF SchedSpec

(***************************************************************************)
(* For every set of environments: the kernel never waits at the prompt     *)
(* while an environment is ready to run.                                   *)
(***************************************************************************)
THEOREM PromptSafe == SchedSpec => []PromptOnlyWhenIdle
<1>1. SchedInv => PromptOnlyWhenIdle
  BY DEF SchedInv, CurOK, PromptOnlyWhenIdle
<1>2. QED
  BY <1>1, SchedInitial, SchedStep, PTL DEF SchedSpec

-----------------------------------------------------------------------------
(* Round robin.                                                            *)

\* A list without duplicates holds an element at one position.
LEMMA PositionIs ==
  ASSUME NEW q, NoDuplicates(q), NEW i \in 1..Len(q), NEW e, q[i] = e
  PROVE  Contains(q, e) /\ Position(q, e) = i
<1>1. Contains(q, e)
  BY DEF Contains
<1>2. Position(q, e) \in 1..Len(q) /\ q[Position(q, e)] = e
  BY <1>1, PositionOfMember
<1>3. QED
  BY <1>1, <1>2 DEF NoDuplicates

\* The turns from n to e in the circular list q.
Turns(q, n, e) == (Position(q, e) - Position(q, n)) % Len(q)

\* The turns of an element are how far it is behind n, around the end of the list.
LEMMA TurnsAre ==
  ASSUME NEW q \in Seq(Env), NoDuplicates(q), NEW i \in 1..Len(q), NEW j \in 1..Len(q)
  PROVE  /\ Turns(q, q[j], q[i]) \in Nat
         /\ i >= j => Turns(q, q[j], q[i]) = i - j
         /\ i < j => Turns(q, q[j], q[i]) = (i - j) + Len(q)
<1>1. Position(q, q[i]) = i /\ Position(q, q[j]) = j
  BY PositionIs
<1>2. PICK m \in Nat \ {0} : m = Len(q)
  OBVIOUS
<1>3. PICK d \in Int : d = i - j
  OBVIOUS
<1>4. Turns(q, q[j], q[i]) = d % m
  BY <1>1, <1>2, <1>3 DEF Turns
<1>5. d \in 0..m - 1 => d % m = d
  OBVIOUS
<1>6. d + m \in 0..m - 1 => d % m = d + m
  OBVIOUS
<1>7. CASE i >= j
  BY <1>2, <1>3, <1>4, <1>5, <1>7
<1>8. CASE i < j
  BY <1>2, <1>3, <1>4, <1>6, <1>8
<1>9. QED
  BY <1>7, <1>8

\* Putting a new element before n changes nobody's turns.
LEMMA TurnsInsert ==
  ASSUME NEW q \in Seq(Env), NoDuplicates(q), NEW n, Contains(q, n), NEW e, Contains(q, e),
         NEW x \in Env, ~Contains(q, x)
  PROVE  Turns(LIST_INSERT_BEFORE(q, n, x), n, e) = Turns(q, n, e)
<1> DEFINE r == LIST_INSERT_BEFORE(q, n, x)
<1>1. PICK i \in 1..Len(q) : i = Position(q, e) /\ q[i] = e
  BY PositionOfMember
<1>2. PICK j \in 1..Len(q) : j = Position(q, n) /\ q[j] = n
  BY PositionOfMember
<1>3. r \in Seq(Env) /\ NoDuplicates(r)
  BY ListInsertBefore
<1>4. /\ Len(r) = Len(q) + 1
      /\ \A k \in 1..Len(q) + 1 :
           r[k] = IF k < j THEN q[k] ELSE IF k = j THEN x ELSE q[k - 1]
  <2>1. r = InsertAt(q, j, x)
    BY <1>2 DEF LIST_INSERT_BEFORE
  <2> HIDE DEF r
  <2>2. /\ Len(InsertAt(q, j, x)) = Len(q) + 1
        /\ \A k \in 1..Len(q) + 1 :
             InsertAt(q, j, x)[k] = IF k < j THEN q[k] ELSE IF k = j THEN x ELSE q[k - 1]
    BY InsertAtElements
  <2>3. QED
    BY <2>1, <2>2
<1> HIDE DEF r
<1>5. j + 1 \in 1..Len(r) /\ r[j + 1] = n
  BY <1>2, <1>4
<1>6. CASE i >= j
  <2>1. i + 1 \in 1..Len(r) /\ r[i + 1] = e
    BY <1>1, <1>4, <1>6
  <2>2. Turns(r, r[j + 1], r[i + 1]) = (i + 1) - (j + 1)
    BY <1>3, <1>5, <1>6, <2>1, TurnsAre
  <2>3. Turns(q, q[j], q[i]) = i - j
    BY <1>6, TurnsAre
  <2>4. QED
    BY <1>1, <1>2, <1>5, <2>1, <2>2, <2>3 DEF r
<1>7. CASE i < j
  <2>1. i \in 1..Len(r) /\ r[i] = e
    BY <1>1, <1>4, <1>7
  <2>2. Turns(r, r[j + 1], r[i]) = (i - (j + 1)) + Len(r)
    <3>1. i < j + 1
      BY <1>7
    <3>2. QED
      BY <1>3, <1>5, <2>1, <3>1, TurnsAre
  <2>3. Turns(q, q[j], q[i]) = (i - j) + Len(q)
    BY <1>7, TurnsAre
  <2>4. QED
    BY <1>1, <1>2, <1>4, <1>5, <2>1, <2>2, <2>3 DEF r
<1>8. QED
  BY <1>6, <1>7

\* Taking another element out delays nobody.
LEMMA TurnsRemove ==
  ASSUME NEW q \in Seq(Env), NoDuplicates(q), NEW n, Contains(q, n), NEW e, Contains(q, e),
         NEW x, Contains(q, x), x # n, x # e
  PROVE  /\ Turns(LIST_REMOVE(q, x), n, e) \in Nat /\ Turns(q, n, e) \in Nat
         /\ Turns(LIST_REMOVE(q, x), n, e) <= Turns(q, n, e)
<1> DEFINE r == LIST_REMOVE(q, x)
           at(k, p) == IF p < k THEN p ELSE p - 1
<1>1. PICK i \in 1..Len(q) : i = Position(q, e) /\ q[i] = e
  BY PositionOfMember
<1>2. PICK j \in 1..Len(q) : j = Position(q, n) /\ q[j] = n
  BY PositionOfMember
<1>3. PICK k \in 1..Len(q) : k = Position(q, x) /\ q[k] = x
  BY PositionOfMember
<1>4. r \in Seq(Env) /\ NoDuplicates(r)
  BY ListRemove
<1>5. /\ Len(r) = Len(q) - 1
      /\ \A p \in 1..Len(q) - 1 : r[p] = IF p < k THEN q[p] ELSE q[p + 1]
  BY <1>3, RemoveAtElements DEF LIST_REMOVE
<1>6. i # k /\ j # k
  BY <1>1, <1>2, <1>3
<1> HIDE DEF r
<1>7. PICK a \in 1..Len(r) : a = at(k, i) /\ r[a] = e
  <2>1. CASE i < k
    BY <1>1, <1>5, <1>6, <2>1
  <2>2. CASE i > k
    <3>1. i - 1 \in 1..Len(r) /\ r[i - 1] = q[i]
      BY <1>5, <2>2
    <3>2. QED
      BY <1>1, <2>2, <3>1
  <2>3. QED
    BY <1>6, <2>1, <2>2
<1>8. PICK b \in 1..Len(r) : b = at(k, j) /\ r[b] = n
  <2>1. CASE j < k
    BY <1>2, <1>5, <1>6, <2>1
  <2>2. CASE j > k
    <3>1. j - 1 \in 1..Len(r) /\ r[j - 1] = q[j]
      BY <1>5, <2>2
    <3>2. QED
      BY <1>2, <2>2, <3>1
  <2>3. QED
    BY <1>6, <2>1, <2>2
<1>9. /\ Turns(r, r[b], r[a]) \in Nat
      /\ a >= b => Turns(r, r[b], r[a]) = a - b
      /\ a < b => Turns(r, r[b], r[a]) = (a - b) + Len(r)
  BY <1>4, TurnsAre
<1>10. /\ Turns(q, q[j], q[i]) \in Nat
       /\ i >= j => Turns(q, q[j], q[i]) = i - j
       /\ i < j => Turns(q, q[j], q[i]) = (i - j) + Len(q)
  BY TurnsAre
<1>11. /\ i >= j => a >= b /\ a - b <= i - j
       /\ i < j => a < b /\ (a - b) + Len(r) <= (i - j) + Len(q)
  BY <1>5, <1>6, <1>7, <1>8
<1>12. Turns(r, r[b], r[a]) <= Turns(q, q[j], q[i])
  BY <1>9, <1>10, <1>11
<1>13. QED
  BY <1>1, <1>2, <1>7, <1>8, <1>9, <1>10, <1>12 DEF r

\* Seen from the successor of n, everybody else is one turn nearer.
LEMMA TurnsSuccessor ==
  ASSUME NEW q \in Seq(Env), NoDuplicates(q), NEW n, Contains(q, n), NEW e, Contains(q, e),
         e # n
  PROVE  /\ Turns(q, n, e) \in Nat
         /\ Turns(q, sched_next_circular(q, n), e) = Turns(q, n, e) - 1
<1>1. PICK i \in 1..Len(q) : i = Position(q, e) /\ q[i] = e
  BY PositionOfMember
<1>2. PICK j \in 1..Len(q) : j = Position(q, n) /\ q[j] = n
  BY PositionOfMember
<1>3. i # j
  BY <1>1, <1>2
<1>4. PICK c \in 1..Len(q) :
        /\ q[c] = sched_next_circular(q, n)
        /\ j < Len(q) => c = j + 1
        /\ j = Len(q) => c = 1
  BY <1>2 DEF sched_next_circular
<1>5. /\ Turns(q, q[j], q[i]) \in Nat
      /\ i >= j => Turns(q, q[j], q[i]) = i - j
      /\ i < j => Turns(q, q[j], q[i]) = (i - j) + Len(q)
  BY TurnsAre
<1>6. /\ i >= c => Turns(q, q[c], q[i]) = i - c
      /\ i < c => Turns(q, q[c], q[i]) = (i - c) + Len(q)
  BY TurnsAre
<1>7. Turns(q, q[c], q[i]) = Turns(q, q[j], q[i]) - 1
  <2>1. CASE j < Len(q)
    BY <1>3, <1>4, <1>5, <1>6, <2>1
  <2>2. CASE j = Len(q)
    BY <1>3, <1>4, <1>5, <1>6, <2>2
  <2>3. QED
    BY <2>1, <2>2
<1>8. QED
  BY <1>1, <1>2, <1>4, <1>5, <1>7

\* While something is ready sched_next is, and turns are counted from it.
LEMMA TurnsOfReady ==
  ASSUME NEW s, WellFormed(s), NEW e, Contains(s.ready, e)
  PROVE  /\ s.ready \in Seq(Env) /\ NoDuplicates(s.ready)
         /\ Contains(s.ready, s.next) /\ s.next \in Env /\ s.next # NULL
         /\ TurnsAhead(s, e) = Turns(s.ready, s.next, e)
<1>1. s.ready \in Seq(Env) /\ NoDuplicates(s.ready)
  BY DEF WellFormed, SchedState, QueuesOK
<1>2. s.ready # <<>>
  BY DEF Contains
<1>3. Contains(s.ready, s.next)
  BY <1>2 DEF WellFormed, NextOK
<1>4. s.next \in Env
  BY <1>1, <1>3 DEF Contains
<1>5. QED
  BY <1>1, <1>3, <1>4, EnvAssumption DEF TurnsAhead, Turns

\* fos_scheduler brings everybody nearer but the one it runs.
LEMMA TurnsFosScheduler ==
  ASSUME NEW s, WellFormed(s), NEW e, Contains(s.ready, e), fos_scheduler(s).cur # e
  PROVE  /\ TurnsAhead(s, e) \in Nat
         /\ TurnsAhead(fos_scheduler(s), e) = TurnsAhead(s, e) - 1
<1> DEFINE t == fos_scheduler(s)
<1>1. /\ s.ready \in Seq(Env) /\ NoDuplicates(s.ready)
      /\ Contains(s.ready, s.next) /\ s.next # NULL
      /\ TurnsAhead(s, e) = Turns(s.ready, s.next, e)
  BY TurnsOfReady
<1>2. t.cur = s.next /\ t.ready = s.ready /\ t.next = sched_next_circular(s.ready, s.next)
  BY <1>1 DEF fos_scheduler, WellFormed, SchedState
<1>3. TurnsAhead(t, e) = Turns(s.ready, sched_next_circular(s.ready, s.next), e)
  BY <1>2 DEF TurnsAhead, Turns
<1>4. QED
  BY <1>1, <1>2, <1>3, TurnsSuccessor

\* Taking an environment out of the ready queue delays nobody.
LEMMA TurnsRemoveReady ==
  ASSUME NEW s, WellFormed(s), NEW x \in Env, s.st[x] = "READY",
         NEW e, Contains(sched_remove_ready(s, x).ready, e)
  PROVE  /\ Contains(s.ready, e)
         /\ TurnsAhead(sched_remove_ready(s, x), e) \in Nat /\ TurnsAhead(s, e) \in Nat
         /\ TurnsAhead(sched_remove_ready(s, x), e) <= TurnsAhead(s, e)
<1> DEFINE t == sched_remove_ready(s, x)
           c == sched_next_circular(s.ready, x)
<1>1. Contains(s.ready, x)
  BY DEF WellFormed, QueuesOK
<1>2. /\ s.ready \in Seq(Env) /\ NoDuplicates(s.ready) /\ Contains(s.ready, s.next)
  BY <1>1, TurnsOfReady
<1>3. /\ t.ready = LIST_REMOVE(s.ready, x)
      /\ s.next # x => t.next = s.next
      /\ s.next = x /\ c # x => t.next = c
  BY DEF sched_remove_ready, WellFormed, SchedState
<1>4. Contains(s.ready, e) /\ e # x
  BY <1>1, <1>2, <1>3, ListRemove
<1>5. TurnsAhead(s, e) = Turns(s.ready, s.next, e)
  BY <1>4, TurnsOfReady
<1>6. TurnsAhead(t, e) = Turns(LIST_REMOVE(s.ready, x), t.next, e)
  BY <1>3 DEF TurnsAhead, Turns
<1> HIDE DEF t
<1>7. CASE s.next # x
  BY <1>1, <1>2, <1>3, <1>4, <1>5, <1>6, <1>7, TurnsRemove DEF t
<1>8. CASE s.next = x
  <2>1. /\ Turns(s.ready, x, e) \in Nat
        /\ Turns(s.ready, c, e) = Turns(s.ready, x, e) - 1
    BY <1>1, <1>2, <1>4, TurnsSuccessor
  <2>2. Contains(s.ready, c) /\ c # x
    <3>1. Contains(s.ready, c) /\ (c = x => Len(s.ready) = 1)
      BY <1>1, <1>2, CircularSuccessor
    <3>2. Len(s.ready) # 1
      BY <1>1, <1>4 DEF Contains
    <3>3. QED
      BY <3>1, <3>2
  <2>3. /\ Turns(LIST_REMOVE(s.ready, x), c, e) \in Nat /\ Turns(s.ready, c, e) \in Nat
        /\ Turns(LIST_REMOVE(s.ready, x), c, e) <= Turns(s.ready, c, e)
    BY <1>1, <1>2, <1>4, <2>2, TurnsRemove
  <2>4. TurnsAhead(t, e) = Turns(LIST_REMOVE(s.ready, x), c, e)
    BY <1>3, <1>6, <1>8, <2>2
  <2>5. TurnsAhead(s, e) = Turns(s.ready, x, e)
    BY <1>5, <1>8
  <2> HIDE DEF c
  <2>6. QED
    BY <1>4, <2>1, <2>3, <2>4, <2>5 DEF t
<1>9. QED
  BY <1>7, <1>8

\* Nor does an arrival, which goes before sched_next.
LEMMA TurnsInsertReady ==
  ASSUME NEW s, WellFormed(s), NEW x \in Env, Detached(s, x), NEW e, Contains(s.ready, e)
  PROVE  TurnsAhead(sched_insert_ready(s, x), e) = TurnsAhead(s, e)
<1> DEFINE t == sched_insert_ready(s, x)
<1>1. /\ s.ready \in Seq(Env) /\ NoDuplicates(s.ready)
      /\ Contains(s.ready, s.next) /\ s.next # NULL
      /\ TurnsAhead(s, e) = Turns(s.ready, s.next, e)
  BY TurnsOfReady
<1>2. ~Contains(s.ready, x)
  BY DEF WellFormed, QueuesOK, Detached
<1>3. t.ready = LIST_INSERT_BEFORE(s.ready, s.next, x) /\ t.next = s.next
  BY <1>1 DEF sched_insert_ready, WellFormed, SchedState
<1>4. TurnsAhead(t, e) = Turns(LIST_INSERT_BEFORE(s.ready, s.next, x), s.next, e)
  BY <1>3 DEF TurnsAhead, Turns
<1>5. QED
  BY <1>1, <1>2, <1>4, TurnsInsert

\* The turns of e do not grow from s to t, and shrink when t runs somebody else.
InTurn(s, t, e) ==
  Contains(s.ready, e) /\ Contains(t.ready, e) /\ t.cur # e =>
    /\ TurnsAhead(t, e) <= TurnsAhead(s, e)
    /\ t.cur # s.cur => TurnsAhead(t, e) < TurnsAhead(s, e)

\* env_exit takes curenv out and schedules: everybody else is nearer.
LEMMA ExitInTurn ==
  ASSUME NEW s, WellFormed(s), s.cur \in Env, s.st[s.cur] = "READY",
         NEW e, Contains(env_exit(s).ready, e), env_exit(s).cur # e
  PROVE  /\ Contains(s.ready, e)
         /\ TurnsAhead(env_exit(s), e) \in Int /\ TurnsAhead(s, e) \in Int
         /\ TurnsAhead(env_exit(s), e) < TurnsAhead(s, e)
<1> DEFINE r == sched_remove_ready(s, s.cur)
           x == sched_insert_exit(r, s.cur)
<1>1. ~Contains(s.new, s.cur)
  BY DEF WellFormed, QueuesOK
<1>2. WellFormed(r) /\ Detached(r, s.cur)
  BY RemoveReady
<1>3. WellFormed(x) /\ x.ready = r.ready
  BY <1>2, InsertExit
<1>4. env_exit(s) = fos_scheduler(x)
  BY <1>1 DEF env_exit, sched_exit_env
<1>5. x.next = r.next
  BY DEF sched_insert_exit
<1> HIDE DEF x
<1>6. fos_scheduler(x).ready = x.ready
  BY <1>3 DEF fos_scheduler, WellFormed, SchedState
<1>7. /\ TurnsAhead(x, e) \in Nat
      /\ TurnsAhead(fos_scheduler(x), e) = TurnsAhead(x, e) - 1
  BY <1>3, <1>4, <1>6, TurnsFosScheduler
<1>8. TurnsAhead(x, e) = TurnsAhead(r, e)
  BY <1>3, <1>5 DEF TurnsAhead
<1>9. /\ Contains(s.ready, e) /\ TurnsAhead(r, e) \in Nat /\ TurnsAhead(s, e) \in Nat
      /\ TurnsAhead(r, e) <= TurnsAhead(s, e)
  BY <1>3, <1>4, <1>6, TurnsRemoveReady
<1>10. QED
  BY <1>4, <1>7, <1>8, <1>9

\* So does a panic, with the kernel's curenv or without one.
LEMMA PanicInTurn ==
  ASSUME NEW s, WellFormed(s), NEW e, Contains(panic(s).ready, e), panic(s).cur # e
  PROVE  /\ Contains(s.ready, e)
         /\ TurnsAhead(panic(s), e) \in Int /\ TurnsAhead(s, e) \in Int
         /\ TurnsAhead(panic(s), e) < TurnsAhead(s, e)
<1>1. s.cur \in Env \cup {NULL}
  BY DEF WellFormed, SchedState
<1>2. CASE s.cur # NULL /\ s.st[s.cur] = "READY"
  BY <1>1, <1>2, ExitInTurn DEF panic
<1>3. CASE ~(s.cur # NULL /\ s.st[s.cur] = "READY")
  <2>1. panic(s) = fos_scheduler(s)
    BY <1>3 DEF panic
  <2>2. fos_scheduler(s).ready = s.ready
    BY DEF fos_scheduler, WellFormed, SchedState
  <2>3. /\ TurnsAhead(s, e) \in Nat
        /\ TurnsAhead(fos_scheduler(s), e) = TurnsAhead(s, e) - 1
    BY <2>1, <2>2, TurnsFosScheduler
  <2>4. QED
    BY <2>1, <2>2, <2>3
<1>4. QED
  BY <1>2, <1>3

\* Killing another environment, in whatever queue it is, lets nobody overtake.
LEMMA KillInTurn ==
  ASSUME NEW s, WellFormed(s), NEW x \in Env, NEW e
  PROVE  InTurn(s, sched_kill_env(s, x), e)
<1> DEFINE k == sched_kill_env(s, x)
<1>1. SUFFICES ASSUME Contains(s.ready, e), Contains(k.ready, e), k.cur # e
               PROVE  /\ TurnsAhead(k, e) <= TurnsAhead(s, e)
                      /\ k.cur # s.cur => TurnsAhead(k, e) < TurnsAhead(s, e)
  BY DEF InTurn
<1>2. TurnsAhead(s, e) \in Nat
  <2>1. /\ s.ready \in Seq(Env) /\ NoDuplicates(s.ready) /\ Contains(s.ready, s.next)
        /\ TurnsAhead(s, e) = Turns(s.ready, s.next, e)
    BY <1>1, TurnsOfReady
  <2>2. PICK i \in 1..Len(s.ready), j \in 1..Len(s.ready) :
          s.ready[i] = e /\ s.ready[j] = s.next
    BY <1>1, <2>1 DEF Contains
  <2>3. QED
    BY <2>1, <2>2, TurnsAre
<1>3. ASSUME NEW r, WellFormed(r), k = panic(r),
             Contains(r.ready, e) => TurnsAhead(r, e) \in Int /\ TurnsAhead(r, e) <= TurnsAhead(s, e)
      PROVE  TurnsAhead(k, e) \in Int /\ TurnsAhead(k, e) < TurnsAhead(s, e)
  <2>1. /\ Contains(r.ready, e)
        /\ TurnsAhead(k, e) \in Int /\ TurnsAhead(r, e) \in Int
        /\ TurnsAhead(k, e) < TurnsAhead(r, e)
    BY <1>1, <1>3, PanicInTurn
  <2>2. QED
    BY <1>2, <1>3, <2>1
<1>4. CASE Contains(s.new, x)
  <2> DEFINE r == sched_remove_new(s, x)
  <2>0. r.next = s.next
    BY DEF sched_remove_new
  <2>1. WellFormed(r) /\ r.ready = s.ready /\ r.next = s.next
    BY <1>4, <2>0, RemoveNew
  <2>2. TurnsAhead(r, e) = TurnsAhead(s, e)
    BY <2>1 DEF TurnsAhead
  <2>3. k = panic(r)
    BY <1>4 DEF sched_kill_env, start_env_free
  <2> HIDE DEF k, r
  <2>4. QED
    BY <1>2, <1>3, <2>1, <2>2, <2>3
<1>5. CASE ~Contains(s.new, x) /\ Contains(s.ready, x)
  <2> DEFINE r == sched_remove_ready(s, x)
  <2>1. s.st[x] = "READY"
    BY <1>5 DEF WellFormed, QueuesOK
  <2>2. WellFormed(r)
    BY <2>1, RemoveReady
  <2>3. Contains(r.ready, e) => TurnsAhead(r, e) \in Int /\ TurnsAhead(r, e) <= TurnsAhead(s, e)
    BY <2>1, TurnsRemoveReady
  <2>4. k = panic(r)
    BY <1>5 DEF sched_kill_env, start_env_free
  <2> HIDE DEF k, r
  <2>5. QED
    BY <1>2, <1>3, <2>2, <2>3, <2>4
<1>6. CASE ~Contains(s.new, x) /\ ~Contains(s.ready, x) /\ Contains(s.exit, x)
  <2> DEFINE r == sched_remove_exit(s, x)
  <2>0. r.next = s.next
    BY DEF sched_remove_exit
  <2>1. WellFormed(r) /\ r.ready = s.ready /\ r.next = s.next
    BY <1>6, <2>0, RemoveExit
  <2>2. TurnsAhead(r, e) = TurnsAhead(s, e)
    BY <2>1 DEF TurnsAhead
  <2>3. k = panic(r)
    BY <1>6 DEF sched_kill_env, start_env_free
  <2> HIDE DEF k, r
  <2>4. QED
    BY <1>2, <1>3, <2>1, <2>2, <2>3
<1>7. CASE ~Contains(s.new, x) /\ ~Contains(s.ready, x) /\ ~Contains(s.exit, x)
  <2>1. k = s
    BY <1>7 DEF sched_kill_env
  <2>2. QED
    BY <1>2, <2>1
<1>8. QED
  BY <1>2, <1>4, <1>5, <1>6, <1>7

\* A step that leaves the ready queue and sched_next alone leaves the turns alone.
LEMMA SameInTurn ==
  ASSUME NEW s, WellFormed(s), NEW t, t.ready = s.ready, t.next = s.next, t.cur = s.cur, NEW e
  PROVE  InTurn(s, t, e)
<1>1. SUFFICES ASSUME Contains(s.ready, e)
               PROVE  TurnsAhead(t, e) <= TurnsAhead(s, e)
  BY DEF InTurn
<1>2. TurnsAhead(t, e) = TurnsAhead(s, e)
  BY DEF TurnsAhead
<1>3. TurnsAhead(s, e) \in Int
  <2>1. /\ s.ready \in Seq(Env) /\ NoDuplicates(s.ready) /\ Contains(s.ready, s.next)
        /\ TurnsAhead(s, e) = Turns(s.ready, s.next, e)
    BY <1>1, TurnsOfReady
  <2>2. PICK i \in 1..Len(s.ready), j \in 1..Len(s.ready) :
          s.ready[i] = e /\ s.ready[j] = s.next
    BY <1>1, <2>1 DEF Contains
  <2>3. QED
    BY <2>1, <2>2, TurnsAre
<1>4. QED
  BY <1>2, <1>3

\* Starting an environment while the scheduler runs puts it behind everybody.
LEMMA RunInTurn ==
  ASSUME NEW s, WellFormed(s), CurOK(s), s.cur # NULL, NEW x \in Env, NEW e
  PROVE  InTurn(s, sched_run_env(s, x), e)
<1>1. CASE ~Contains(s.new, x)
  <2>1. sched_run_env(s, x) = s
    BY <1>1 DEF sched_run_env
  <2>2. QED
    BY <2>1, SameInTurn
<1>2. CASE Contains(s.new, x)
  <2> DEFINE u == sched_remove_new(s, x)
             r == sched_insert_ready(u, x)
  <2>0. u.next = s.next
    BY DEF sched_remove_new
  <2>1. /\ WellFormed(u) /\ Detached(u, x) /\ u.cur = s.cur /\ u.ready = s.ready
        /\ u.next = s.next
    BY <1>2, <2>0, RemoveNew
  <2>2. sched_run_env(s, x) = r
    BY <1>2 DEF sched_run_env, CurOK
  <2> HIDE DEF u
  <2>3. r.cur = s.cur
    BY <2>1, InsertReady
  <2>4. Contains(s.ready, e) => TurnsAhead(r, e) = TurnsAhead(u, e)
    BY <2>1, TurnsInsertReady
  <2>5. InTurn(s, u, e)
    BY <2>1, SameInTurn
  <2> HIDE DEF r
  <2>6. Contains(s.ready, e) /\ r.cur # e => TurnsAhead(r, e) <= TurnsAhead(s, e)
    BY <2>1, <2>3, <2>4, <2>5 DEF InTurn
  <2>7. QED
    BY <2>2, <2>3, <2>6 DEF InTurn
<1>3. QED
  BY <1>1, <1>2

(***************************************************************************)
(* For every set of environments: whatever arrives, exits or is killed, no *)
(* ready environment is overtaken, and each context switch of              *)
(* fos_scheduler brings it nearer to the processor.                        *)
(***************************************************************************)
THEOREM NobodyOvertaken == SchedSpec => RoundRobin
<1>1. ASSUME SchedInv, [SchedNext]_sch, NEW e \in Env PROVE NotOvertaken(e)
  <2>0. WellFormed(sch) /\ CurOK(sch) /\ sch \in SchedState
    BY <1>1 DEF SchedInv, WellFormed
  <2>1. SUFFICES InTurn(sch, sch', e)
    BY DEF NotOvertaken, InTurn
  <2>2. ASSUME NEW r, WellFormed(r), r.ready = sch.ready, r.next = sch.next, sch' = panic(r)
        PROVE  InTurn(sch, sch', e)
    <3>1. TurnsAhead(r, e) = TurnsAhead(sch, e)
      BY <2>2 DEF TurnsAhead
    <3>2. Contains(panic(r).ready, e) /\ panic(r).cur # e =>
            /\ TurnsAhead(panic(r), e) \in Int /\ TurnsAhead(r, e) \in Int
            /\ TurnsAhead(panic(r), e) < TurnsAhead(r, e)
      BY <2>2, PanicInTurn
    <3>3. QED
      BY <2>2, <3>1, <3>2 DEF InTurn
  <2>3. sch.cur = NULL => ~Contains(sch.ready, e)
    BY <2>0 DEF CurOK, Contains
  <2>4. CASE clock_interrupt_handler
    <3>1. sch' = fos_scheduler(sch) /\ sch'.ready = sch.ready
      BY <2>0, <2>4 DEF clock_interrupt_handler, fos_scheduler, SchedState
    <3>2. Contains(sch.ready, e) /\ fos_scheduler(sch).cur # e =>
            /\ TurnsAhead(sch, e) \in Nat
            /\ TurnsAhead(fos_scheduler(sch), e) = TurnsAhead(sch, e) - 1
      BY <2>0, TurnsFosScheduler
    <3>3. QED
      BY <3>1, <3>2 DEF InTurn
  <2>5. CASE \/ sys_disable_interrupt \/ sys_enable_interrupt \/ UNCHANGED sch
             \/ \E x \in Env : LoadEnv(x)
    <3>1. sch'.ready = sch.ready /\ sch'.next = sch.next /\ sch'.cur = sch.cur
      BY <2>0, <2>5 DEF sys_disable_interrupt, sys_enable_interrupt, LoadEnv, env_create,
                        sched_insert_new, SchedState
    <3>2. QED
      BY <2>0, <3>1, SameInTurn
  <2>6. ASSUME NEW x \in Env, LoadEnvFailsEarly(x) PROVE InTurn(sch, sch', e)
    <3> DEFINE r == [sch EXCEPT !.st[x] = "UNKNOWN"]
    <3>1. WellFormed(r) /\ r.ready = sch.ready /\ r.next = sch.next
      BY <2>0, <2>6, FreeRenamed DEF LoadEnvFailsEarly, SchedState
    <3>2. sch' = panic(r)
      BY <2>6 DEF LoadEnvFailsEarly
    <3>3. QED
      BY <2>2, <3>1, <3>2
  <2>7. ASSUME NEW x \in Env, LoadEnvFailsLate(x) PROVE InTurn(sch, sch', e)
    <3> DEFINE r == env_create(sch, x)
    <3>1. WellFormed(r) /\ r.ready = sch.ready
      BY <2>0, <2>7, EnvCreate DEF LoadEnvFailsLate
    <3>2. r.next = sch.next
      BY <2>0 DEF env_create, SchedState
    <3>3. sch' = panic(r)
      BY <2>7 DEF LoadEnvFailsLate
    <3>4. QED
      BY <2>2, <3>1, <3>2, <3>3
  <2>8. ASSUME NEW x \in Env, sys_run_env(x) PROVE InTurn(sch, sch', e)
    BY <2>0, <2>8, RunInTurn DEF sys_run_env, Running
  <2>9. CASE \/ \E x \in Env : command_run_program(x)
             \/ command_run_all \/ command_kill_all
    <3>1. sch.cur = NULL
      BY <2>9 DEF command_run_program, command_run_all, command_kill_all, AtPrompt
    <3>2. QED
      BY <2>3, <3>1 DEF InTurn
  <2>10. ASSUME NEW x \in Env, KillEnv(x) PROVE InTurn(sch, sch', e)
    BY <2>0, <2>10, KillInTurn DEF KillEnv
  <2>11. CASE ExitEnv
    <3>1. sch.cur \in Env /\ sch.st[sch.cur] = "READY" /\ sch' = env_exit(sch)
      BY <2>0, <2>11 DEF ExitEnv, Running, CurOK, SchedState
    <3>2. Contains(env_exit(sch).ready, e) /\ env_exit(sch).cur # e =>
            /\ TurnsAhead(env_exit(sch), e) \in Int /\ TurnsAhead(sch, e) \in Int
            /\ TurnsAhead(env_exit(sch), e) < TurnsAhead(sch, e)
      BY <2>0, <3>1, ExitInTurn
    <3>3. QED
      BY <3>1, <3>2 DEF InTurn
  <2>12. QED
    BY <1>1, <2>4, <2>5, <2>6, <2>7, <2>8, <2>9, <2>10, <2>11 DEF SchedNext
<1>2. SchedInv /\ [SchedNext]_sch => \A e \in Env : NotOvertaken(e)
  BY <1>1
<1>3. QED
  BY <1>2, SchedInitial, SchedStep, PTL DEF SchedSpec, RoundRobin
=============================================================================
