--------------------------- MODULE SemTestProofs ---------------------------
(***************************************************************************)
(* Proofs about the semaphore test, for any number of customers, any       *)
(* capacity of the shop and any interleaving: whatever calls are lost, a   *)
(* program sleeps only where it waited; while none is lost the shop is     *)
(* never over capacity, nobody waits outside while there is room, and the  *)
(* final values are those the test expects.                                *)
(***************************************************************************)
EXTENDS SemTest, SemProofs, FiniteSetTheorems

-----------------------------------------------------------------------------
(* The programs.                                                           *)

SomeCall == [op: {"create", "load", "run", "wait", "signal", "get", "exit"},
             name: {shop, depend, NoName}]

N == Cardinality(Customers)

\* There are finitely many customers.
LEMMA CustomersCount == IsFiniteSet(Customers) /\ N \in Nat /\ Customers \subseteq Env
  BY TestAssumption, FS_RemoveElement, FS_CardinalityType DEF Customers, N

\* A slave's calls.
LEMMA SlaveCalls ==
  /\ Len(SlaveProgram) = 4
  /\ SlaveProgram[1] = Call("wait", shop) /\ SlaveProgram[2] = Call("signal", shop)
  /\ SlaveProgram[3] = Call("signal", depend) /\ SlaveProgram[4] = Call("exit", NoName)
BY DEF SlaveProgram, Call

\* The calls of a loop that makes two calls,
LEMMA RepeatTwo ==
  ASSUME NEW n \in Nat, NEW S, NEW x \in S, NEW y \in S
  PROVE  LET r == Repeat(n, <<x, y>>)
         IN  /\ r \in Seq(S) /\ Len(r) = 2 * n
             /\ \A k \in 1..2 * n : r[k] \in {x, y}
<1> DEFINE r == Repeat(n, <<x, y>>)
           c == <<x, y>>
<1>1. Len(c) = 2 /\ c[1] = x /\ c[2] = y
  OBVIOUS
<1>2. r = [i \in 1..n * 2 |-> c[((i - 1) % 2) + 1]]
  BY <1>1 DEF Repeat
<1> HIDE DEF c
<1>3. ASSUME NEW i \in 1..n * 2 PROVE c[((i - 1) % 2) + 1] \in {x, y}
  <2>1. (i - 1) % 2 = 0 \/ (i - 1) % 2 = 1
    OBVIOUS
  <2>2. QED
    BY <1>1, <2>1
<1> HIDE DEF r
<1>4. \A k \in 1..2 * n : r[k] \in {x, y}
  BY <1>2, <1>3
<1>5. r \in [1..2 * n -> S] /\ 2 * n \in Nat
  BY <1>2, <1>4
<1>6. r \in Seq(S) /\ Len(r) = 2 * n
  BY <1>2, <1>5
<1>7. QED
  BY <1>4, <1>6 DEF r

\* and of one that makes one.
LEMMA RepeatOne ==
  ASSUME NEW n \in Nat, NEW S, NEW x \in S
  PROVE  LET r == Repeat(n, <<x>>)
         IN  /\ r \in Seq(S) /\ Len(r) = n
             /\ \A k \in 1..n : r[k] = x
<1> DEFINE r == Repeat(n, <<x>>)
           c == <<x>>
<1>1. Len(c) = 1 /\ c[1] = x
  OBVIOUS
<1>2. r = [i \in 1..n |-> c[((i - 1) % 1) + 1]]
  BY <1>1 DEF Repeat
<1> HIDE DEF c
<1>3. ASSUME NEW i \in 1..n PROVE c[((i - 1) % 1) + 1] = x
  <2>1. (i - 1) % 1 = 0
    OBVIOUS
  <2>2. QED
    BY <1>1, <2>1
<1> HIDE DEF r
<1>4. \A k \in 1..n : r[k] = x
  BY <1>2, <1>3
<1>5. r \in [1..n -> S]
  BY <1>2, <1>4
<1>6. r \in Seq(S) /\ Len(r) = n
  BY <1>2, <1>5
<1>7. QED
  BY <1>4, <1>6 DEF r

\* The master's calls.
LEMMA MasterCalls ==
  /\ Len(MasterProgram) = 5 + 3 * N
  /\ MasterProgram[1] = Call("create", shop) /\ MasterProgram[2] = Call("create", depend)
  /\ \A k \in 3..2 + 2 * N : MasterProgram[k] \in {Call("load", NoName), Call("run", NoName)}
  /\ \A k \in 3 + 2 * N..2 + 3 * N : MasterProgram[k] = Call("wait", depend)
  /\ MasterProgram[3 + 3 * N] = Call("get", shop)
  /\ MasterProgram[4 + 3 * N] = Call("get", depend)
  /\ MasterProgram[5 + 3 * N] = Call("exit", NoName)
<1> DEFINE a == <<Call("create", shop), Call("create", depend)>>
           b == Repeat(N, <<Call("load", NoName), Call("run", NoName)>>)
           c == Repeat(N, <<Call("wait", depend)>>)
           d == <<Call("get", shop), Call("get", depend), Call("exit", NoName)>>
           ab == a \o b
           abc == ab \o c
           all == abc \o d
<1>1. MasterProgram = all
  BY DEF MasterProgram, N
<1>2. /\ Call("create", shop) \in SomeCall /\ Call("create", depend) \in SomeCall
      /\ Call("load", NoName) \in SomeCall /\ Call("run", NoName) \in SomeCall
      /\ Call("wait", depend) \in SomeCall /\ Call("get", shop) \in SomeCall
      /\ Call("get", depend) \in SomeCall /\ Call("exit", NoName) \in SomeCall
  BY DEF Call, SomeCall
<1>3. /\ a \in Seq(SomeCall) /\ Len(a) = 2
      /\ a[1] = Call("create", shop) /\ a[2] = Call("create", depend)
      /\ d \in Seq(SomeCall) /\ Len(d) = 3
      /\ d[1] = Call("get", shop) /\ d[2] = Call("get", depend)
      /\ d[3] = Call("exit", NoName)
  BY <1>2
<1>4. N \in Nat
  BY CustomersCount
<1>5. /\ b \in Seq(SomeCall) /\ Len(b) = 2 * N
      /\ \A k \in 1..2 * N : b[k] \in {Call("load", NoName), Call("run", NoName)}
  BY <1>2, <1>4, RepeatTwo
<1>6. /\ c \in Seq(SomeCall) /\ Len(c) = N /\ \A k \in 1..N : c[k] = Call("wait", depend)
  BY <1>2, <1>4, RepeatOne
<1> HIDE DEF a, b, c, d
<1>7. /\ ab \in Seq(SomeCall) /\ Len(ab) = 2 + 2 * N
      /\ \A k \in 1..2 : ab[k] = a[k]
      /\ \A k \in 1..2 * N : ab[2 + k] = b[k]
  <2>1. ab = a \o b
    OBVIOUS
  <2> HIDE DEF ab
  <2>2. /\ ab \in Seq(SomeCall) /\ Len(ab) = Len(a) + Len(b)
        /\ \A k \in 1..Len(a) : ab[k] = a[k]
        /\ \A k \in 1..Len(b) : ab[Len(a) + k] = b[k]
    <3>1. a \in Seq(SomeCall) /\ b \in Seq(SomeCall)
      BY <1>3, <1>5
    <3>2. QED
      BY <3>1, <2>1, ConcatParts
  <2>3. QED
    BY <1>3, <1>5, <2>2
<1> HIDE DEF ab
<1>8. /\ abc \in Seq(SomeCall) /\ Len(abc) = 2 + 3 * N
      /\ \A k \in 1..2 + 2 * N : abc[k] = ab[k]
      /\ \A k \in 1..N : abc[2 + 2 * N + k] = c[k]
  <2>1. abc = ab \o c
    OBVIOUS
  <2> HIDE DEF abc
  <2>2. /\ abc \in Seq(SomeCall) /\ Len(abc) = Len(ab) + Len(c)
        /\ \A k \in 1..Len(ab) : abc[k] = ab[k]
        /\ \A k \in 1..Len(c) : abc[Len(ab) + k] = c[k]
    <3>1. ab \in Seq(SomeCall) /\ c \in Seq(SomeCall)
      BY <1>6, <1>7
    <3>2. QED
      BY <3>1, <2>1, ConcatParts
  <2>3. Len(ab) + Len(c) = 2 + 3 * N
    BY <1>4, <1>6, <1>7
  <2>4. QED
    BY <1>6, <1>7, <2>2, <2>3
<1> HIDE DEF abc
<1>9. /\ Len(all) = 5 + 3 * N
      /\ \A k \in 1..2 + 3 * N : all[k] = abc[k]
      /\ \A k \in 1..3 : all[2 + 3 * N + k] = d[k]
  <2>1. all = abc \o d
    OBVIOUS
  <2> HIDE DEF all
  <2>2. /\ Len(all) = Len(abc) + Len(d)
        /\ \A k \in 1..Len(abc) : all[k] = abc[k]
        /\ \A k \in 1..Len(d) : all[Len(abc) + k] = d[k]
    <3>1. abc \in Seq(SomeCall) /\ d \in Seq(SomeCall)
      BY <1>3, <1>8
    <3>2. QED
      BY <3>1, <2>1, ConcatParts
  <2>3. Len(abc) + Len(d) = 5 + 3 * N
    BY <1>3, <1>4, <1>8
  <2>4. QED
    BY <1>3, <1>8, <2>2, <2>3
<1> HIDE DEF all
<1>10. all[1] = Call("create", shop) /\ all[2] = Call("create", depend)
  BY <1>3, <1>4, <1>7, <1>8, <1>9
<1>11. ASSUME NEW k \in 3..2 + 2 * N
       PROVE  all[k] \in {Call("load", NoName), Call("run", NoName)}
  <2>1. k - 2 \in 1..2 * N /\ 2 + (k - 2) = k /\ k \in 1..2 + 2 * N /\ k \in 1..2 + 3 * N
    BY <1>4
  <2>2. all[k] = ab[k] /\ ab[k] = b[k - 2]
    BY <1>7, <1>8, <1>9, <2>1
  <2>3. QED
    BY <1>5, <2>1, <2>2
<1>12. ASSUME NEW k \in 3 + 2 * N..2 + 3 * N
       PROVE  all[k] = Call("wait", depend)
  <2>1. /\ k - (2 + 2 * N) \in 1..N /\ 2 + 2 * N + (k - (2 + 2 * N)) = k
        /\ k \in 1..2 + 3 * N
    BY <1>4
  <2>2. all[k] = abc[k] /\ abc[k] = c[k - (2 + 2 * N)]
    BY <1>8, <1>9, <2>1
  <2>3. QED
    BY <1>6, <2>1, <2>2
<1>13. /\ all[3 + 3 * N] = d[1] /\ all[4 + 3 * N] = d[2] /\ all[5 + 3 * N] = d[3]
  <2>1. 2 + 3 * N + 1 = 3 + 3 * N /\ 2 + 3 * N + 2 = 4 + 3 * N /\ 2 + 3 * N + 3 = 5 + 3 * N
    BY <1>4
  <2>2. QED
    BY <1>9, <2>1
<1>14. QED
  BY <1>1, <1>3, <1>9, <1>10, <1>11, <1>12, <1>13

\* What the proofs need of a program's calls: only the master creates, the names
\* are the test's, and the program ends with its exit.
LEMMA CallOf ==
  ASSUME NEW e \in Env, NEW k \in 1..Len(Program(e))
  PROVE  LET c == Program(e)[k]
         IN  /\ c.op = "create" => e = master
             /\ c.op \in {"create", "wait", "signal", "get"} => c.name \in {shop, depend}
             /\ k = Len(Program(e)) <=> c.op = "exit"
             /\ c \in SomeCall
<1>1. /\ \A op \in STRING, n \in Name \cup {NoName} : Call(op, n).op = op /\ Call(op, n).name = n
      /\ shop \in Name /\ depend \in Name
  BY TestAssumption DEF Call
<1> DEFINE c == Program(e)[k]
<1>2. CASE e = master
  <2>1. Program(e) = MasterProgram /\ Len(Program(e)) = 5 + 3 * N /\ N \in Nat
    BY <1>2, MasterCalls, CustomersCount DEF Program
  <2>2. \/ k = 1 \/ k = 2 \/ k \in 3..2 + 2 * N \/ k \in 3 + 2 * N..2 + 3 * N
        \/ k = 3 + 3 * N \/ k = 4 + 3 * N \/ k = 5 + 3 * N
    BY <2>1
  <2>3. k = 5 + 3 * N <=> k = Len(Program(e))
    BY <2>1
  <2>4. CASE k \in {1, 2}
    <3>1. c \in {Call("create", shop), Call("create", depend)} /\ k # Len(Program(e))
      BY <2>1, <2>4, MasterCalls
    <3>2. QED
      BY <1>1, <1>2, <3>1 DEF SomeCall, Call
  <2>5. CASE k \in 3..2 + 2 * N
    <3>1. c \in {Call("load", NoName), Call("run", NoName)} /\ k # Len(Program(e))
      BY <2>1, <2>5, MasterCalls
    <3>2. QED
      BY <1>1, <1>2, <3>1 DEF SomeCall, Call
  <2>6. CASE k \in 3 + 2 * N..2 + 3 * N
    <3>1. c = Call("wait", depend) /\ k # Len(Program(e))
      BY <2>1, <2>6, MasterCalls
    <3>2. QED
      BY <1>1, <1>2, <3>1 DEF SomeCall, Call
  <2>7. CASE k = 3 + 3 * N \/ k = 4 + 3 * N
    <3>1. c \in {Call("get", shop), Call("get", depend)} /\ k # Len(Program(e))
      BY <2>1, <2>7, MasterCalls
    <3>2. QED
      BY <1>1, <1>2, <3>1 DEF SomeCall, Call
  <2>8. CASE k = 5 + 3 * N
    <3>1. c = Call("exit", NoName) /\ k = Len(Program(e))
      BY <2>1, <2>8, MasterCalls
    <3>2. QED
      BY <1>1, <1>2, <3>1 DEF SomeCall, Call
  <2>9. QED
    BY <2>2, <2>4, <2>5, <2>6, <2>7, <2>8
<1>3. CASE e # master
  <2>1. Program(e) = SlaveProgram /\ Len(Program(e)) = 4
    BY <1>3, SlaveCalls DEF Program
  <2>2. CASE k = 4
    <3>1. c = Call("exit", NoName)
      BY <2>1, <2>2, SlaveCalls
    <3>2. QED
      BY <1>1, <2>1, <2>2, <3>1 DEF SomeCall, Call
  <2>3. CASE k # 4
    <3>1. k \in 1..3
      BY <2>1, <2>3
    <3>2. c \in {Call("wait", shop), Call("signal", shop), Call("signal", depend)}
      BY <2>1, <3>1, SlaveCalls
    <3>3. QED
      BY <1>1, <2>1, <2>3, <3>2 DEF SomeCall, Call
  <2>4. QED
    BY <2>2, <2>3
<1>4. QED
  BY <1>2, <1>3

-----------------------------------------------------------------------------
(* What a step does.                                                       *)

\* No environment is blocked, woken or brought back from its exit.
QuietStatus == \A x \in Env : \/ sch'.st[x] = sch.st[x]
                              \/ /\ sch.st[x] \notin {"BLOCKED", "EXIT"}
                                 /\ sch'.st[x] # "BLOCKED"

\* Every program is at one of its calls, or has exited.
ProgressOK == /\ pc \in [Env -> Nat \ {0}]
              /\ \A e \in Env : pc[e] <= Len(Program(e)) \/ sch.st[e] = "EXIT"

\* The call that e makes next.
NextCall(e) == Program(e)[pc[e]]

\* Loading a program changes the status of a free struct only.
LEMMA LoadQuiet ==
  ASSUME SemInv, NEW e \in Env, LoadEnv(e)
  PROVE  QuietStatus
<1> DEFINE c == env_create(sch, e)
           t == sched_insert_new(c, e)
<1>1. WellFormed(sch) /\ sch \in SchedState /\ QueuesOK(sch) /\ e \in sch.free
  BY DEF SemInv, SchedInv, WellFormed, LoadEnv
<1>2. sch.st[e] \in {"FREE", "UNKNOWN"}
  BY <1>1 DEF QueuesOK
<1>3. WellFormed(c) /\ Detached(c, e) /\ c.st = [sch.st EXCEPT ![e] = "NEW"]
  BY <1>1, EnvCreate
<1> HIDE DEF c
<1>4. t.st = [c.st EXCEPT ![e] = "NEW"]
  BY <1>3, InsertNew
<1> HIDE DEF t
<1>5. sch' = t
  BY DEF LoadEnv, t, c
<1>6. \A x \in Env : sch'.st[x] = IF x = e THEN "NEW" ELSE sch.st[x]
  BY <1>1, <1>3, <1>4, <1>5 DEF SchedState
<1>7. QED
  BY <1>2, <1>6 DEF QuietStatus

\* Running one changes the status of a new environment only.
LEMMA RunQuiet ==
  ASSUME SemInv, NEW e, sys_run_env(e)
  PROVE  QuietStatus /\ (sch' = sch \/ e \in Env)
<1>1. WellFormed(sch) /\ sch \in SchedState /\ QueuesOK(sch)
  BY DEF SemInv, SchedInv, WellFormed
<1>2. CASE ~Contains(sch.new, e)
  BY <1>2 DEF sys_run_env, sched_run_env, QuietStatus
<1>3. CASE Contains(sch.new, e)
  <2>1. e \in Env /\ sch.st[e] = "NEW"
    BY <1>1, <1>3 DEF QueuesOK, SchedState, Contains
  <2>2. sch'.st = [sch.st EXCEPT ![e] = "READY"]
    BY <1>1, <1>3, <2>1, RunEnvStatus DEF sys_run_env
  <2>3. QED
    BY <1>1, <2>1, <2>2 DEF QuietStatus, SchedState
<1>4. QED
  BY <1>2, <1>3

\* An exit, or a panic, changes the status of the caller only.
LEMMA ExitQuiet ==
  ASSUME SemInv, sch.cur \in Env, sch' \in {env_exit(sch), panic(sch)}
  PROVE  QuietStatus /\ sch'.st[sch.cur] = "EXIT"
<1>1. /\ WellFormed(sch) /\ sch \in SchedState /\ sch.cur # NULL
      /\ sch.st[sch.cur] = "READY"
  BY EnvAssumption DEF SemInv, SchedInv, WellFormed, CurOK
<1>2. sch' = env_exit(sch)
  BY <1>1 DEF panic
<1>3. sch'.st = [sch.st EXCEPT ![sch.cur] = "EXIT"]
  BY <1>1, <1>2, EnvExitStatus
<1>4. QED
  BY <1>1, <1>3 DEF QuietStatus, SchedState

\* The prompt's "run tst_semaphore_2master" changes the status of the master only.
LEMMA StartQuiet ==
  ASSUME SemInv, StartMaster
  PROVE  QuietStatus /\ \A x \in Env \ {master} : sch'.st[x] = sch.st[x]
<1> DEFINE c == env_create(sch, master)
           t == sched_insert_new(c, master)
<1>1. /\ WellFormed(sch) /\ sch \in SchedState /\ QueuesOK(sch)
      /\ master \in sch.free /\ master \in Env
  BY TestAssumption DEF SemInv, SchedInv, WellFormed, StartMaster, command_run_program
<1>2. sch.st[master] \in {"FREE", "UNKNOWN"}
  BY <1>1 DEF QueuesOK
<1>3. WellFormed(c) /\ Detached(c, master) /\ c.st = [sch.st EXCEPT ![master] = "NEW"]
  BY <1>1, EnvCreate
<1> HIDE DEF c
<1>4. WellFormed(t) /\ t.st = [c.st EXCEPT ![master] = "NEW"]
  BY <1>1, <1>3, InsertNew
<1> HIDE DEF t
<1>5. sch' = sched_run_env(t, master)
  BY DEF StartMaster, command_run_program, t, c
<1>6. sch'.st = t.st \/ sch'.st = [t.st EXCEPT ![master] = "READY"]
  BY <1>1, <1>4, <1>5, RunEnvStatus
<1>7. \A x \in Env : sch'.st[x] \in {sch.st[x]} \/ (x = master /\ sch'.st[x] \in {"NEW", "READY"})
  BY <1>1, <1>3, <1>4, <1>6 DEF SchedState
<1>8. QED
  BY <1>2, <1>7 DEF QuietStatus

\* A tick changes no status.
LEMMA TickQuiet ==
  ASSUME SemInv, Tick
  PROVE  sch'.st = sch.st
BY FosKeepsStatus DEF SemInv, SchedInv, WellFormed, Tick, clock_interrupt_handler

\* The effect of a system call of the test, where c is the call.
CallEffect(c) ==
  \/ /\ c.op \notin {"create", "wait", "signal"} \/ ~namesResident
        \/ (c.op \in {"wait", "signal"} /\ NotFound(master, c.name))
     /\ UNCHANGED semaphores /\ QuietStatus
     /\ c.op = "exit" => sch'.st[sch.cur] = "EXIT"
  \/ c.op = "create" /\ NotFound(sch.cur, c.name) /\
       \E i \in Slot : CreateEffect(i, c.name, IF c.name = shop THEN Capacity ELSE 0)
  \/ c.op = "wait" /\ \E i \in Slot : WaitEffect(i, master, c.name)
  \/ c.op = "signal" /\ \E i \in Slot : SignalEffect(i, master, c.name)
  \/ ~namesResident /\ c.op = "create" /\ createSemaphoreAbandoned

\* A program's step makes its next call, and is a step of the kernel.
LEMMA StepEffect ==
  ASSUME SemInv, ProgressOK, NEW e \in Env, Step(e)
  PROVE  /\ sch.cur = e /\ sch.st[e] = "READY" /\ pc[e] \in 1..Len(Program(e))
         /\ [Next]_vars /\ CallEffect(NextCall(e))
<1> DEFINE c == NextCall(e)
<1>1. sch.cur = e /\ sch.st[e] = "READY" /\ sch.cur # NULL
  BY EnvAssumption DEF Step, SemInv, SchedInv, CurOK
<1>2. pc[e] \in 1..Len(Program(e))
  <2>1. pc[e] \in Nat \ {0} /\ pc[e] <= Len(Program(e))
    BY <1>1 DEF ProgressOK
  <2>2. Len(Program(e)) \in Nat
    BY MasterCalls, SlaveCalls, CustomersCount DEF Program
  <2>3. QED
    BY <2>1, <2>2
<1>3. /\ c.op = "create" => e = master
      /\ c.op \in {"create", "wait", "signal", "get"} => c.name \in {shop, depend}
      /\ shop \in Name /\ depend \in Name /\ master \in Env
      /\ Capacity \in InitialValue /\ 0 \in InitialValue
  BY <1>2, CallOf, TestAssumption DEF NextCall
<1>4. ExecuteCall(c) \/ AbandonCall(c)
  BY DEF Step, NextCall
<1> HIDE DEF c
<1> SUFFICES [Next]_vars /\ CallEffect(c)
  BY <1>1, <1>2 DEF c
<1>5. CASE c.op = "create" /\ createSemaphore(c.name, IF c.name = shop THEN Capacity ELSE 0)
  <2> DEFINE v == IF c.name = shop THEN Capacity ELSE 0
  <2>1. c.name \in Name /\ v \in InitialValue
    BY <1>3, <1>5
  <2>2. createSemaphore(c.name, v)
    BY <1>5
  <2> HIDE DEF v
  <2>3. \E i \in Slot : CreateEffect(i, c.name, v)
    BY <2>1, <2>2, CreateStep
  <2>4. NotFound(sch.cur, c.name)
    BY <2>2 DEF createSemaphore
  <2>5. Next
    BY <2>1, <2>2 DEF Next
  <2>6. QED
    BY <1>5, <2>3, <2>4, <2>5 DEF CallEffect, v
<1>6. CASE c.op = "load" /\ (\E x \in Env : LoadEnv(x)) /\ UNCHANGED semaphores
  BY <1>6, LoadQuiet DEF CallEffect, Next, SchedNext
<1>7. CASE c.op = "run" /\ sys_run_env(Head(sch.new)) /\ UNCHANGED semaphores
  BY <1>7, RunQuiet DEF CallEffect, Next, SchedNext, vars
<1>8. CASE c.op = "wait" /\ waitSemaphore(master, c.name)
  <2>1. c.name \in Name /\ c.name # NoName
    BY <1>3, <1>8, SemAssumption
  <2>2. \E i \in Slot : WaitEffect(i, master, c.name)
    BY <1>8, <2>1, WaitStep
  <2>3. QED
    BY <1>3, <1>8, <2>1, <2>2 DEF CallEffect, Next
<1>9. CASE c.op = "signal" /\ signalSemaphore(master, c.name)
  <2>1. c.name \in Name /\ c.name # NoName
    BY <1>3, <1>9, SemAssumption
  <2>2. \E i \in Slot : SignalEffect(i, master, c.name)
    BY <1>9, <2>1, SignalStep
  <2>3. QED
    BY <1>3, <1>9, <2>1, <2>2 DEF CallEffect, Next
<1>10. CASE c.op \in {"wait", "signal"} /\ NotFound(master, c.name) /\ UNCHANGED vars
  BY <1>10 DEF CallEffect, QuietStatus, vars
<1>11. CASE c.op = "get" /\ ~NotFound(master, c.name) /\ UNCHANGED vars
  BY <1>11 DEF CallEffect, QuietStatus, vars
<1>12. CASE c.op = "get" /\ getSemaphoreValueFails(master, c.name)
  BY <1>1, <1>3, <1>12, ExitQuiet DEF CallEffect, Next, getSemaphoreValueFails
<1>13. CASE c.op = "exit" /\ ExitEnv /\ UNCHANGED semaphores
  BY <1>1, <1>13, ExitQuiet DEF CallEffect, Next, SchedNext, ExitEnv
<1>14. CASE AbandonCall(c)
  BY <1>14 DEF AbandonCall, CallEffect, Next, createSemaphoreAbandoned, QuietStatus, vars
<1>15. QED
  BY <1>4, <1>5, <1>6, <1>7, <1>8, <1>9, <1>10, <1>11, <1>12, <1>13, <1>14
  DEF ExecuteCall

\* An exit is for ever.
LEMMA ExitStays ==
  ASSUME SemInv, ProgressOK, NEW e \in Env, Step(e), NEW x \in Env, sch.st[x] = "EXIT"
  PROVE  sch'.st[x] = "EXIT"
<1>1. /\ sch.cur = e /\ sch.st[e] = "READY" /\ CallEffect(NextCall(e))
      /\ sch.st \in [Env -> EnvStatus]
  BY StepEffect DEF SemInv, SchedInv, WellFormed, SchedState
<1>2. CASE QuietStatus
  BY <1>2 DEF QuietStatus
<1>3. CASE UNCHANGED sch
  BY <1>3
<1>4. ASSUME NEW i \in Slot, NEW name, WaitEffect(i, master, name) PROVE sch'.st[x] = "EXIT"
  BY <1>1, <1>4 DEF WaitEffect
<1>5. ASSUME NEW i \in Slot, NEW name, SignalEffect(i, master, name) PROVE sch'.st[x] = "EXIT"
  BY <1>1, <1>5 DEF SignalEffect
<1>6. QED
  BY <1>1, <1>2, <1>3, <1>4, <1>5 DEF CallEffect, CreateEffect, createSemaphoreAbandoned

-----------------------------------------------------------------------------
(* Whatever calls are lost, the semaphores stay whole.                     *)

LEMMA TestStep0 ==
  ASSUME SemInv, ProgressOK, [TestNext]_tvars
  PROVE  SemInv' /\ ProgressOK'
<1>1. CASE UNCHANGED tvars
  <2>1. UNCHANGED vars
    BY <1>1 DEF tvars, vars
  <2>2. SemInv'
    BY <2>1, SemStep
  <2>3. QED
    BY <1>1, <2>2 DEF tvars, ProgressOK
<1>2. CASE StartMaster
  <2>1. SchedNext /\ UNCHANGED semaphores /\ UNCHANGED pc
    BY <1>2, TestAssumption DEF StartMaster, SchedNext
  <2>2. SemInv' /\ QuietStatus
    BY <1>2, <2>1, SemStep, StartQuiet DEF Next
  <2>3. QED
    BY <2>1, <2>2 DEF ProgressOK, QuietStatus
<1>3. CASE Tick
  <2>1. SchedNext /\ UNCHANGED semaphores /\ UNCHANGED pc
    BY <1>3 DEF Tick, SchedNext
  <2>2. SemInv' /\ sch'.st = sch.st
    BY <1>3, <2>1, SemStep, TickQuiet DEF Next
  <2>3. QED
    BY <2>1, <2>2 DEF ProgressOK
<1>4. ASSUME NEW e \in Env, Step(e) PROVE SemInv' /\ ProgressOK'
  <2>1. /\ sch.cur = e /\ pc[e] \in 1..Len(Program(e)) /\ [Next]_vars
        /\ CallEffect(NextCall(e))
    BY <1>4, StepEffect
  <2>2. SemInv'
    BY <2>1, SemStep
  <2>3. pc' = [pc EXCEPT ![e] = pc[e] + 1] /\ Len(Program(e)) \in Nat
    BY <1>4, MasterCalls, SlaveCalls, CustomersCount DEF Step, Program
  <2>4. pc' \in [Env -> Nat \ {0}]
    BY <2>1, <2>3 DEF ProgressOK
  <2>5. ASSUME NEW x \in Env, x # e PROVE pc'[x] <= Len(Program(x)) \/ sch'.st[x] = "EXIT"
    BY <1>4, <2>3, <2>5, ExitStays DEF ProgressOK
  <2>6. pc'[e] <= Len(Program(e)) \/ sch'.st[e] = "EXIT"
    <3>1. pc'[e] = pc[e] + 1
      BY <2>3 DEF ProgressOK
    <3>2. CASE pc[e] < Len(Program(e))
      BY <2>1, <2>3, <3>1, <3>2
    <3>3. CASE pc[e] = Len(Program(e))
      <4>1. NextCall(e).op = "exit"
        BY <2>1, <3>3, CallOf DEF NextCall
      <4>2. QED
        BY <2>1, <4>1 DEF CallEffect
    <3>4. QED
      BY <2>1, <2>3, <3>2, <3>3
  <2>7. QED
    BY <2>2, <2>4, <2>5, <2>6 DEF ProgressOK
<1>5. QED
  BY <1>1, <1>2, <1>3, <1>4 DEF TestNext

\* The test starts with every program at its first call.
LEMMA TestInitial0 == TestInit => SemInv /\ ProgressOK
<1> SUFFICES ASSUME TestInit PROVE SemInv /\ ProgressOK
  OBVIOUS
<1>1. SemInv
  BY SemInitial DEF TestInit
<1>2. 1 <= Len(MasterProgram) /\ 1 <= Len(SlaveProgram)
  BY MasterCalls, SlaveCalls, CustomersCount
<1>3. QED
  BY <1>1, <1>2 DEF ProgressOK, TestInit, Program

\* The queues hold those whose last call waits for the queue's semaphore.
QueuedOK ==
  /\ ~Lost
  /\ \A i \in Slot : \A e \in Env : Contains(semaphores[i].env_queue, e) =>
       /\ pc[e] > 1 /\ semaphores[i].ownerID = master
       /\ Program(e)[pc[e] - 1] = Call("wait", semaphores[i].name)

\* Only the caller's count of calls changes, and it is in no queue.
LEMMA OthersQueued ==
  ASSUME SemInv, ProgressOK, QueuedOK, NEW x \in Env, Step(x), NEW i \in Slot, NEW e \in Env,
         Contains(semaphores[i].env_queue, e)
  PROVE  e # x /\ pc'[e] = pc[e]
<1>1. sch.st[x] = "READY" /\ sch.st[e] = "BLOCKED"
  BY StepEffect DEF SemInv, BlockedExactlyInOneQueue, QueuedOK
<1>2. pc' = [pc EXCEPT ![x] = pc[x] + 1]
  BY DEF Step
<1>3. QED
  BY <1>1, <1>2 DEF ProgressOK

\* A change of one semaphore, whose queue has been joined by the caller at most.
LEMMA QueuedKept ==
  ASSUME SemInv, ProgressOK, QueuedOK, NEW x \in Env, Step(x), NEW i \in Slot, OnlyChanged(i),
         \A e \in Env : Contains(semaphores'[i].env_queue, e) =>
           \/ /\ Contains(semaphores[i].env_queue, e)
              /\ semaphores'[i].ownerID = semaphores[i].ownerID
              /\ semaphores'[i].name = semaphores[i].name
           \/ /\ e = x /\ semaphores'[i].ownerID = master
              /\ NextCall(x) = Call("wait", semaphores'[i].name)
  PROVE  QueuedOK'
<1>1. ~Lost'
  BY NullAssumption DEF OnlyChanged, Lost
<1>2. pc[x] \in Nat \ {0} /\ pc'[x] = pc[x] + 1
  BY DEF Step, ProgressOK
<1>3. ASSUME NEW j \in Slot, NEW e \in Env, Contains(semaphores'[j].env_queue, e)
      PROVE  /\ pc'[e] > 1 /\ semaphores'[j].ownerID = master
             /\ Program(e)[pc'[e] - 1] = Call("wait", semaphores'[j].name)
  <2>1. CASE /\ Contains(semaphores[j].env_queue, e)
             /\ semaphores'[j].ownerID = semaphores[j].ownerID
             /\ semaphores'[j].name = semaphores[j].name
    BY <2>1, OthersQueued DEF QueuedOK
  <2>2. CASE /\ j = i /\ e = x /\ semaphores'[i].ownerID = master
             /\ NextCall(x) = Call("wait", semaphores'[i].name)
    BY <1>2, <2>2 DEF NextCall
  <2>3. QED
    BY <1>3, <2>1, <2>2 DEF OnlyChanged
<1>4. QED
  BY <1>1, <1>3 DEF QueuedOK

\* The steps that leave the array alone.
LEMMA QueuedUnchanged ==
  ASSUME SemInv, ProgressOK, QueuedOK, UNCHANGED semaphores,
         UNCHANGED pc \/ \E x \in Env : Step(x)
  PROVE  QueuedOK'
<1>1. CASE UNCHANGED pc
  BY <1>1 DEF QueuedOK, Lost
<1>2. ASSUME NEW x \in Env, Step(x) PROVE QueuedOK'
  BY <1>2, OthersQueued DEF QueuedOK, Lost
<1>3. QED
  BY <1>1, <1>2

LEMMA QueuedStep ==
  ASSUME SemInv, ProgressOK, QueuedOK, [TestNext]_tvars
  PROVE  QueuedOK'
<1>1. CASE UNCHANGED tvars \/ StartMaster \/ Tick
  BY <1>1, QueuedUnchanged DEF tvars, StartMaster, Tick
<1>2. ASSUME NEW x \in Env, Step(x) PROVE QueuedOK'
  <2> DEFINE c == NextCall(x)
  <2>1. sch.cur = x /\ c \in SomeCall /\ CallEffect(c) /\ semaphores \in [Slot -> Semaphore]
    BY <1>2, StepEffect, CallOf DEF NextCall, QueuedOK, SemInv
  <2>2. c = Call(c.op, c.name)
    BY <2>1 DEF SomeCall, Call
  <2> HIDE DEF c
  <2>3. CASE UNCHANGED semaphores
    BY <1>2, <2>3, QueuedUnchanged
  <2>4. ASSUME NEW i \in Slot, NEW name, NEW v, CreateEffect(i, name, v) PROVE QueuedOK'
    <3>1. \A e \in Env : ~Contains(semaphores'[i].env_queue, e)
      BY <2>4 DEF CreateEffect, Contains
    <3>2. QED
      BY <1>2, <2>4, <3>1, QueuedKept DEF CreateEffect
  <2>5. ASSUME NEW i \in Slot, c.op = "wait", WaitEffect(i, master, c.name) PROVE QueuedOK'
    <3> DEFINE q == semaphores[i].env_queue
    <3>1. q \in Seq(Env)
      BY <2>1 DEF Semaphore
    <3>2. \A e \in Env : Contains(semaphores'[i].env_queue, e) => Contains(q, e) \/ e = x
      <4>1. \A e \in Env : Contains(<<x>> \o q, e) => Contains(q, e) \/ e = x
        BY <3>1 DEF Contains
      <4>2. QED
        BY <2>1, <2>5, <4>1 DEF WaitEffect, enqueue
    <3> HIDE DEF q
    <3>3. /\ semaphores[i].ownerID = master /\ semaphores'[i].ownerID = master
          /\ semaphores[i].name = c.name /\ semaphores'[i].name = c.name
      BY <2>5 DEF WaitEffect, Matches, Matched
    <3>4. OnlyChanged(i) /\ NextCall(x) = Call("wait", c.name)
      BY <2>2, <2>5 DEF WaitEffect, c
    <3>5. QED
      BY <1>2, <3>2, <3>3, <3>4, QueuedKept DEF q
  <2>6. ASSUME NEW i \in Slot, SignalEffect(i, master, c.name) PROVE QueuedOK'
    <3> DEFINE q == semaphores[i].env_queue
    <3>1. q \in Seq(Env)
      BY <2>1 DEF Semaphore
    <3>2. \A e \in Env : Contains(semaphores'[i].env_queue, e) => Contains(q, e)
      <4>1. \A e \in Env : Contains(Front(q), e) => Contains(q, e)
        BY <3>1 DEF Contains, Front
      <4>2. QED
        BY <2>6, <4>1 DEF SignalEffect, dequeue
    <3> HIDE DEF q
    <3>3. /\ semaphores'[i].ownerID = semaphores[i].ownerID
          /\ semaphores'[i].name = semaphores[i].name /\ OnlyChanged(i)
      BY <2>6 DEF SignalEffect, Matches, Matched
    <3>4. QED
      BY <1>2, <3>2, <3>3, QueuedKept DEF q
  <2>7. CASE createSemaphoreAbandoned
    <3>1. PICK i \in Slot : /\ FirstEmpty(i)
                            /\ semaphores' = [semaphores EXCEPT ![i].empty = FALSE]
      BY <2>7 DEF createSemaphoreAbandoned
    <3>2. OnlyChanged(i) /\ semaphores'[i].env_queue = semaphores[i].env_queue
          /\ semaphores'[i].ownerID = semaphores[i].ownerID
          /\ semaphores'[i].name = semaphores[i].name
      BY <2>1, <3>1 DEF OnlyChanged, Semaphore
    <3>3. QED
      BY <1>2, <3>2, QueuedKept
  <2>8. QED
    BY <2>1, <2>3, <2>4, <2>5, <2>6, <2>7 DEF CallEffect
<1>3. QED
  BY <1>1, <1>2 DEF TestNext

(***************************************************************************)
(* For any number of customers and any residence of the names: a program   *)
(* sleeps only in the queue of the semaphore that its last call waits for, *)
(* also when calls are lost to page faults, some of them halfway.          *)
(***************************************************************************)
THEOREM SleepersCalledWait == TestSpec => []SleepsWhereItWaited
<1> DEFINE Inv == SemInv /\ ProgressOK /\ QueuedOK
<1>1. Inv => SleepsWhereItWaited
  <2> SUFFICES ASSUME Inv, NEW e \in Env, sch.st[e] = "BLOCKED"
               PROVE  \E i \in Slot : Contains(semaphores[i].env_queue, e)
    BY DEF SleepsWhereItWaited, QueuedOK
  <2>1. QED
    BY DEF SemInv, BlockedExactlyInOneQueue, QueuedOK
<1>2. Inv /\ [TestNext]_tvars => Inv'
  BY TestStep0, QueuedStep
<1>3. TestInit => Inv
  <2> SUFFICES ASSUME TestInit PROVE QueuedOK
    BY TestInitial0
  <2>1. semaphores = [i \in Slot |-> EmptySemaphore]
    BY DEF TestInit, Init, create_semaphores_array
  <2>2. EmptySemaphore \in Semaphore /\ EmptySemaphore.env_queue = <<>>
    BY SemAssumption DEF EmptySemaphore, Semaphore
  <2>3. ~Lost
    BY <2>1, <2>2, NullAssumption DEF Lost
  <2>4. QED
    BY <2>1, <2>2, <2>3 DEF QueuedOK, Contains
<1>4. QED
  BY <1>1, <1>2, <1>3, PTL DEF TestSpec

-----------------------------------------------------------------------------
(* The accounts of the shop.                                               *)

\* Customers who have asked to enter and have not left, and those whose signal
\* the master has been sent.
AtShop == {c \in Customers : pc[c] = 2}

Done == {c \in Customers : pc[c] >= 4}

\* How many of its waits the master has made.
MasterWaits == IF pc[master] <= 3 + 2 * N THEN 0
               ELSE IF pc[master] >= 3 + 3 * N THEN N
               ELSE pc[master] - (3 + 2 * N)

\* Before both semaphores exist no customer has been loaded.
OpeningOK == /\ pc[master] <= 2 => \A c \in Customers : sch.st[c] = "FREE" /\ pc[c] = 1
             /\ pc[master] >= 2 => ~NotFound(master, shop)
             /\ pc[master] >= 3 => ~NotFound(master, depend)
             /\ \A i \in Slot : Live(i) => Matches(i, master, shop) \/ Matches(i, master, depend)

\* The shop's value counts those who may still enter, its queue those at the
\* shop who are not inside.
ShopOK == \A i \in Slot : Matches(i, master, shop) =>
            /\ semaphores[i].value = Capacity - Cardinality(AtShop)
            /\ \A c \in Env : Contains(semaphores[i].env_queue, c) <=>
                                c \in AtShop /\ sch.st[c] = "BLOCKED"

\* The value of "depend" counts the signals the master has not waited for.
DependOK == \A i \in Slot : Matches(i, master, depend) =>
              /\ semaphores[i].value = Cardinality(Done) - MasterWaits
              /\ \A c \in Env : Contains(semaphores[i].env_queue, c) => c = master

ShopInv == ~Lost /\ OpeningOK /\ ShopOK /\ DependOK

TestInv == SemInv /\ ProgressOK /\ (namesResident => ShopInv)

\* Fewer customers are left once one more has gone by.
LEMMA CustomersMove ==
  ASSUME ProgressOK, NEW e \in Customers, pc' = [pc EXCEPT ![e] = pc[e] + 1]
  PROVE  /\ pc[e] = 1 => AtShop' = AtShop \cup {e}
         /\ pc[e] = 2 => AtShop' = AtShop \ {e}
         /\ pc[e] \notin {1, 2} => AtShop' = AtShop
         /\ pc[e] = 3 => Done' = Done \cup {e}
         /\ pc[e] # 3 => Done' = Done
         /\ MasterWaits' = MasterWaits
<1>1. e \in Env /\ e # master /\ pc \in [Env -> Nat \ {0}] /\ master \in Env
  BY TestAssumption DEF Customers, ProgressOK
<1>2. /\ pc'[e] = pc[e] + 1 /\ pc'[master] = pc[master]
      /\ \A c \in Env : c # e => pc'[c] = pc[c]
  BY <1>1
<1>3. MasterWaits' = MasterWaits
  BY <1>2 DEF MasterWaits
<1>4. \A c \in Env : pc[c] \in Nat \ {0}
  BY <1>1
<1>5. ASSUME NEW c \in Customers
      PROVE  /\ pc'[c] = 2 <=> IF c = e THEN pc[e] = 1 ELSE pc[c] = 2
             /\ pc'[c] >= 4 <=> pc[c] >= 4 \/ (c = e /\ pc[e] = 3)
  <2>1. pc[c] \in Nat \ {0} /\ pc'[c] = IF c = e THEN pc[c] + 1 ELSE pc[c]
    BY <1>2, <1>4 DEF Customers
  <2>2. QED
    BY <2>1
<1>6. /\ pc[e] = 1 => AtShop' = AtShop \cup {e}
      /\ pc[e] = 2 => AtShop' = AtShop \ {e}
      /\ pc[e] \notin {1, 2} => AtShop' = AtShop
  BY <1>5 DEF AtShop
<1>7. /\ pc[e] = 3 => Done' = Done \cup {e}
      /\ pc[e] # 3 => Done' = Done
  BY <1>5 DEF Done
<1>8. QED
  BY <1>3, <1>6, <1>7

\* So the numbers at the shop and of those who are done change by one.
LEMMA CustomersCounted ==
  ASSUME ProgressOK, NEW e \in Customers, pc' = [pc EXCEPT ![e] = pc[e] + 1]
  PROVE  /\ Cardinality(AtShop)' = IF pc[e] = 1 THEN Cardinality(AtShop) + 1
                                   ELSE IF pc[e] = 2 THEN Cardinality(AtShop) - 1
                                   ELSE Cardinality(AtShop)
         /\ Cardinality(Done)' = IF pc[e] = 3 THEN Cardinality(Done) + 1
                                 ELSE Cardinality(Done)
<1>1. IsFiniteSet(AtShop) /\ IsFiniteSet(Done)
  BY CustomersCount, FS_Subset DEF AtShop, Done
<1>2. /\ pc[e] = 1 => AtShop' = AtShop \cup {e}
      /\ pc[e] = 2 => AtShop' = AtShop \ {e}
      /\ pc[e] \notin {1, 2} => AtShop' = AtShop
      /\ pc[e] = 3 => Done' = Done \cup {e}
      /\ pc[e] # 3 => Done' = Done
  BY CustomersMove
<1>3. pc[e] = 2 <=> e \in AtShop
  BY DEF AtShop
<1>4. pc[e] = 3 => e \notin Done
  BY DEF Done
<1>5. /\ Cardinality(AtShop \cup {e}) = IF e \in AtShop THEN Cardinality(AtShop)
                                        ELSE Cardinality(AtShop) + 1
      /\ Cardinality(AtShop \ {e}) = IF e \in AtShop THEN Cardinality(AtShop) - 1
                                     ELSE Cardinality(AtShop)
      /\ Cardinality(Done \cup {e}) = IF e \in Done THEN Cardinality(Done)
                                      ELSE Cardinality(Done) + 1
  BY <1>1, FS_AddElement, FS_RemoveElement
<1>6. Cardinality(AtShop') = IF pc[e] = 1 THEN Cardinality(AtShop) + 1
                             ELSE IF pc[e] = 2 THEN Cardinality(AtShop) - 1
                             ELSE Cardinality(AtShop)
  BY <1>2, <1>3, <1>5
<1>7. Cardinality(Done') = IF pc[e] = 3 THEN Cardinality(Done) + 1 ELSE Cardinality(Done)
  BY <1>2, <1>4, <1>5
<1>8. QED
  BY <1>6, <1>7

\* The master's steps change its own account only.
LEMMA MasterMoves ==
  ASSUME ProgressOK, pc' = [pc EXCEPT ![master] = pc[master] + 1]
  PROVE  /\ AtShop' = AtShop /\ Done' = Done
         /\ \A c \in Customers : pc'[c] = pc[c]
         /\ pc'[master] = pc[master] + 1 /\ pc[master] \in Nat \ {0}
         /\ MasterWaits' = IF pc[master] \in 3 + 2 * N..2 + 3 * N THEN MasterWaits + 1
                           ELSE MasterWaits
<1>1. master \in Env /\ pc \in [Env -> Nat \ {0}] /\ N \in Nat
  BY TestAssumption, CustomersCount DEF ProgressOK
<1>2. /\ \A c \in Customers : pc'[c] = pc[c]
      /\ pc'[master] = pc[master] + 1 /\ pc[master] \in Nat \ {0}
  BY <1>1 DEF Customers
<1>3. AtShop' = AtShop /\ Done' = Done
  BY <1>2 DEF AtShop, Done
<1>4. MasterWaits' = IF pc[master] \in 3 + 2 * N..2 + 3 * N THEN MasterWaits + 1
                     ELSE MasterWaits
  BY <1>1, <1>2 DEF MasterWaits
<1>5. QED
  BY <1>2, <1>3, <1>4

\* Once both semaphores exist they stay.
LEMMA OpeningKept ==
  ASSUME OpeningOK, pc[master] \in Nat, pc'[master] \in Nat, pc[master] >= 3, pc'[master] >= 3,
         \/ UNCHANGED semaphores
         \/ \E i \in Slot, name \in {shop, depend} :
              OnlyChanged(i) /\ Matches(i, master, name) /\ Matches(i, master, name)'
  PROVE  OpeningOK'
<1>1. CASE UNCHANGED semaphores
  BY <1>1 DEF OpeningOK, NotFound, Matches, Live
<1>2. ASSUME NEW i \in Slot, NEW name \in {shop, depend},
             OnlyChanged(i), Matches(i, master, name), Matches(i, master, name)'
      PROVE  OpeningOK'
  <2>1. \A j \in Slot : /\ Matches(j, master, shop)' <=> Matches(j, master, shop)
                        /\ Matches(j, master, depend)' <=> Matches(j, master, depend)
                        /\ Live(j)' <=> Live(j)
    BY <1>2 DEF OnlyChanged, Matches, Live
  <2>2. QED
    BY <2>1 DEF OpeningOK, NotFound
<1>3. QED
  BY <1>1, <1>2

\* A step that touches no semaphore and blocks nobody.
LEMMA SilentStep ==
  ASSUME ShopInv, UNCHANGED semaphores, QuietStatus, OpeningOK',
         AtShop' = AtShop, Done' = Done, MasterWaits' = MasterWaits
  PROVE  ShopInv'
<1>1. \A c \in Env : sch'.st[c] = "BLOCKED" <=> sch.st[c] = "BLOCKED"
  BY DEF QuietStatus
<1>2. ShopOK'
  BY <1>1 DEF ShopInv, ShopOK, Matches
<1>3. DependOK'
  BY DEF ShopInv, DependOK, Matches
<1>4. QED
  BY <1>2, <1>3 DEF ShopInv, Lost

\* A customer who is running has been loaded, so both semaphores exist.
LEMMA CustomerRuns ==
  ASSUME TestInv, namesResident, NEW e \in Customers, Step(e)
  PROVE  /\ pc[master] \in Nat /\ pc[master] >= 3 /\ pc' = [pc EXCEPT ![e] = pc[e] + 1]
         /\ pc'[master] = pc[master] /\ e \in Env /\ sch.st[e] = "READY" /\ sch.cur = e
         /\ ~NotFound(master, shop) /\ ~NotFound(master, depend)
         /\ pc[e] \in 1..4 /\ CallEffect(NextCall(e)) /\ NextCall(e) = SlaveProgram[pc[e]]
<1>1. /\ e \in Env /\ e # master /\ master \in Env /\ pc \in [Env -> Nat \ {0}]
      /\ SemInv /\ ProgressOK
  BY TestAssumption DEF Customers, TestInv, ProgressOK
<1>2. /\ sch.cur = e /\ sch.st[e] = "READY" /\ pc[e] \in 1..Len(Program(e))
      /\ CallEffect(NextCall(e))
  BY <1>1, StepEffect
<1>3. pc[master] \in Nat /\ pc[master] >= 3
  BY <1>1, <1>2 DEF TestInv, ShopInv, OpeningOK
<1>4. pc' = [pc EXCEPT ![e] = pc[e] + 1]
  BY DEF Step
<1>5. Program(e) = SlaveProgram
  BY <1>1 DEF Program
<1>6. pc[e] \in 1..4
  BY <1>2, <1>5, SlaveCalls
<1>7. ~NotFound(master, shop) /\ ~NotFound(master, depend)
  BY <1>3 DEF TestInv, ShopInv, OpeningOK
<1>8. QED
  BY <1>1, <1>2, <1>3, <1>4, <1>5, <1>6, <1>7 DEF NextCall

\* A customer asks to enter.
LEMMA CustomerEnters ==
  ASSUME TestInv, namesResident, NEW e \in Customers, Step(e), pc[e] = 1
  PROVE  ShopInv'
<1>1. /\ pc[master] \in Nat /\ pc[master] >= 3 /\ pc' = [pc EXCEPT ![e] = pc[e] + 1]
      /\ pc'[master] = pc[master] /\ e \in Env /\ sch.st[e] = "READY" /\ sch.cur = e
      /\ CallEffect(Call("wait", shop)) /\ ~NotFound(master, shop) /\ ShopInv /\ SemInv
      /\ sch.st \in [Env -> EnvStatus]
  BY CustomerRuns, SlaveCalls DEF TestInv, SemInv, SchedInv, WellFormed, SchedState
<1>2. PICK i \in Slot : WaitEffect(i, master, shop)
  BY <1>1 DEF CallEffect, Call
<1>3. /\ OnlyChanged(i) /\ Matches(i, master, shop) /\ Matches(i, master, shop)'
      /\ semaphores \in [Slot -> Semaphore]
  BY <1>1, <1>2 DEF WaitEffect, ShopInv, SemInv, Matches, Matched
<1>4. OpeningOK'
  BY <1>1, <1>3, OpeningKept DEF ShopInv
<1>5. /\ AtShop' = AtShop \cup {e} /\ Done' = Done /\ MasterWaits' = MasterWaits
      /\ Cardinality(AtShop)' = Cardinality(AtShop) + 1
  <2>1. ProgressOK /\ pc[e] \in 1..4 /\ pc[e] \notin {2, 3}
    BY CustomerRuns DEF TestInv
  <2>2. AtShop' = AtShop \cup {e} /\ Done' = Done /\ MasterWaits' = MasterWaits
    BY <1>1, <2>1, CustomersMove
  <2>3. Cardinality(AtShop)' = Cardinality(AtShop) + 1
    BY <1>1, <2>1, CustomersCounted
  <2>4. QED
    BY <2>2, <2>3
<1>6. \A j \in Slot : Matches(j, master, shop) => j = i
  BY <1>3, TestAssumption, SemAssumption DEF TestInv, SemInv, NamesUnique, ShopInv, Live, Matches
<1>7. e \notin AtShop
  BY DEF AtShop
<1> DEFINE q == semaphores[i].env_queue
           v == semaphores[i].value
           w == semaphores'[i].env_queue
<1>8. /\ v = Capacity - Cardinality(AtShop) /\ v \in Int /\ q \in Seq(Env)
      /\ \A c \in Env : Contains(q, c) <=> c \in AtShop /\ sch.st[c] = "BLOCKED"
  <2>1. v \in Int /\ q \in Seq(Env)
    BY <1>3 DEF Semaphore
  <2>2. /\ v = Capacity - Cardinality(AtShop)
        /\ \A c \in Env : Contains(q, c) <=> c \in AtShop /\ sch.st[c] = "BLOCKED"
    BY <1>1, <1>3 DEF ShopInv, ShopOK
  <2>3. QED
    BY <2>1, <2>2
<1>9. \A c \in Env : Contains(w, c) <=> c \in AtShop' /\ sch'.st[c] = "BLOCKED"
  <2>1. CASE v - 1 < 0
    <3>1. w = enqueue(q, e) /\ sch'.st = [sch.st EXCEPT ![e] = "BLOCKED"]
      BY <1>1, <1>2, <2>1 DEF WaitEffect
    <3>2. ~Contains(q, e) /\ NoDuplicates(q)
      BY <1>1, <1>7, <1>8 DEF SemInv, BlockedExactlyInOneQueue, ShopInv
    <3>3. \A x : Contains(w, x) <=> Contains(q, x) \/ x = e
      BY <1>1, <1>8, <3>1, <3>2, Enqueue
    <3> HIDE DEF w, q, v
    <3>4. \A c \in Env : sch'.st[c] = IF c = e THEN "BLOCKED" ELSE sch.st[c]
      BY <1>1, <3>1
    <3>5. QED
      BY <1>5, <1>7, <1>8, <3>3, <3>4
  <2>2. CASE ~(v - 1 < 0)
    <3>1. w = q /\ sch'.st = sch.st
      BY <1>2, <2>2 DEF WaitEffect
    <3> HIDE DEF w, q, v
    <3>2. QED
      BY <1>1, <1>5, <1>7, <1>8, <3>1
  <2>3. QED
    BY <2>1, <2>2
<1>10. ShopOK'
  <2>1. semaphores'[i].value = Capacity - Cardinality(AtShop)'
    <3>1. Capacity \in Int /\ Cardinality(AtShop) \in Int
      BY TestAssumption, SemAssumption, CustomersCount, FS_Subset, FS_CardinalityType DEF AtShop
    <3>2. QED
      BY <1>2, <1>5, <1>8, <3>1 DEF WaitEffect
  <2>2. \A j \in Slot : Matches(j, master, shop)' => j = i
    BY <1>3, <1>6 DEF OnlyChanged, Matches
  <2>3. QED
    BY <1>9, <2>1, <2>2 DEF ShopOK
<1>11. DependOK'
  <2>1. \A j \in Slot : Matches(j, master, depend)' => j # i /\ Matches(j, master, depend)
    BY <1>3, TestAssumption DEF OnlyChanged, Matches
  <2>2. \A j \in Slot : j # i => semaphores'[j] = semaphores[j]
    BY <1>3 DEF OnlyChanged
  <2>3. Cardinality(Done)' = Cardinality(Done)
    BY <1>5
  <2>4. QED
    BY <1>1, <1>5, <2>1, <2>2, <2>3 DEF ShopInv, DependOK
<1>12. QED
  BY <1>3, <1>4, <1>10, <1>11, NullAssumption DEF ShopInv, Lost, OnlyChanged

\* A customer leaves: the one who has waited longest is let in.
LEMMA CustomerLeaves ==
  ASSUME TestInv, namesResident, NEW e \in Customers, Step(e), pc[e] = 2
  PROVE  ShopInv'
<1>1. /\ pc[master] \in Nat /\ pc[master] >= 3 /\ pc' = [pc EXCEPT ![e] = pc[e] + 1]
      /\ pc'[master] = pc[master] /\ e \in Env /\ sch.st[e] = "READY" /\ sch.cur = e
      /\ CallEffect(Call("signal", shop)) /\ ~NotFound(master, shop) /\ ShopInv /\ SemInv
      /\ sch.st \in [Env -> EnvStatus]
  BY CustomerRuns, SlaveCalls DEF TestInv, SemInv, SchedInv, WellFormed, SchedState
<1>2. PICK i \in Slot : SignalEffect(i, master, shop)
  BY <1>1 DEF CallEffect, Call
<1>3. /\ OnlyChanged(i) /\ Matches(i, master, shop) /\ Matches(i, master, shop)'
      /\ semaphores \in [Slot -> Semaphore]
  BY <1>1, <1>2 DEF SignalEffect, ShopInv, SemInv, Matches, Matched
<1>4. OpeningOK'
  BY <1>1, <1>3, OpeningKept DEF ShopInv
<1>5. /\ AtShop' = AtShop \ {e} /\ Done' = Done /\ MasterWaits' = MasterWaits
      /\ Cardinality(AtShop)' = Cardinality(AtShop) - 1
  <2>1. ProgressOK /\ pc[e] \in 1..4 /\ pc[e] \notin {1, 3}
    BY CustomerRuns DEF TestInv
  <2>2. AtShop' = AtShop \ {e} /\ Done' = Done /\ MasterWaits' = MasterWaits
    BY <1>1, <2>1, CustomersMove
  <2>3. Cardinality(AtShop)' = Cardinality(AtShop) - 1
    BY <1>1, <2>1, CustomersCounted
  <2>4. QED
    BY <2>2, <2>3
<1>6. \A j \in Slot : Matches(j, master, shop) => j = i
  BY <1>3, TestAssumption, SemAssumption DEF TestInv, SemInv, NamesUnique, ShopInv, Live, Matches
<1> DEFINE q == semaphores[i].env_queue
           v == semaphores[i].value
           w == semaphores'[i].env_queue
           l == Last(q)
<1>8. /\ v = Capacity - Cardinality(AtShop) /\ v \in Int /\ q \in Seq(Env)
      /\ \A c \in Env : Contains(q, c) <=> c \in AtShop /\ sch.st[c] = "BLOCKED"
      /\ NoDuplicates(q) /\ Len(q) = IF v < 0 THEN -v ELSE 0
  <2>1. v \in Int /\ q \in Seq(Env)
    BY <1>3 DEF Semaphore
  <2>2. /\ v = Capacity - Cardinality(AtShop)
        /\ \A c \in Env : Contains(q, c) <=> c \in AtShop /\ sch.st[c] = "BLOCKED"
    BY <1>1, <1>3 DEF ShopInv, ShopOK
  <2>3. NoDuplicates(q) /\ Len(q) = IF v < 0 THEN -v ELSE 0
    BY <1>1 DEF SemInv, BlockedExactlyInOneQueue, QueueLengthMatchesValue, ShopInv
  <2>4. QED
    BY <2>1, <2>2, <2>3
<1>9. \A c \in Env : Contains(w, c) <=> c \in AtShop' /\ sch'.st[c] = "BLOCKED"
  <2>1. CASE v + 1 <= 0
    <3>1. w = dequeue(q) /\ sch'.st = [sch.st EXCEPT ![l] = "READY"]
      BY <1>2, <2>1 DEF SignalEffect
    <3>2. q # <<>>
      BY <1>8, <2>1
    <3>3. l \in Env /\ \A x : Contains(w, x) <=> Contains(q, x) /\ x # l
      BY <1>8, <3>1, <3>2, Dequeue
    <3> HIDE DEF w, q, v, l
    <3>4. \A c \in Env : sch'.st[c] = IF c = l THEN "READY" ELSE sch.st[c]
      BY <1>1, <3>1, <3>3
    <3>5. QED
      BY <1>1, <1>5, <1>8, <3>3, <3>4
  <2>2. CASE ~(v + 1 <= 0)
    <3>1. w = q /\ sch'.st = sch.st
      BY <1>2, <2>2 DEF SignalEffect
    <3> HIDE DEF w, q, v, l
    <3>2. QED
      BY <1>1, <1>5, <1>8, <3>1
  <2>3. QED
    BY <2>1, <2>2
<1>10. ShopOK'
  <2>1. semaphores'[i].value = Capacity - Cardinality(AtShop)'
    <3>1. Capacity \in Int /\ Cardinality(AtShop) \in Int
      BY TestAssumption, SemAssumption, CustomersCount, FS_Subset, FS_CardinalityType DEF AtShop
    <3>2. QED
      BY <1>2, <1>5, <1>8, <3>1 DEF SignalEffect
  <2>2. \A j \in Slot : Matches(j, master, shop)' => j = i
    BY <1>3, <1>6 DEF OnlyChanged, Matches
  <2>3. QED
    BY <1>9, <2>1, <2>2 DEF ShopOK
<1>11. DependOK'
  <2>1. \A j \in Slot : Matches(j, master, depend)' => j # i /\ Matches(j, master, depend)
    BY <1>3, TestAssumption DEF OnlyChanged, Matches
  <2>2. \A j \in Slot : j # i => semaphores'[j] = semaphores[j]
    BY <1>3 DEF OnlyChanged
  <2>3. Cardinality(Done)' = Cardinality(Done)
    BY <1>5
  <2>4. QED
    BY <1>1, <1>5, <2>1, <2>2, <2>3 DEF ShopInv, DependOK
<1>12. QED
  BY <1>3, <1>4, <1>10, <1>11, NullAssumption DEF ShopInv, Lost, OnlyChanged

\* A change of the semaphore "depend" is nothing to the shop, whose waiters wait
\* in no other queue.
LEMMA ShopUntouched ==
  ASSUME SemInv, ShopInv, NEW i \in Slot, OnlyChanged(i),
         Matches(i, master, depend), Matches(i, master, depend)', AtShop' = AtShop,
         NEW x \in Env, Contains(semaphores[i].env_queue, x) \/ x \notin AtShop,
         \A c \in Env \ {x} : sch'.st[c] = sch.st[c],
         sch'.st[x] = "BLOCKED" => x \notin AtShop
  PROVE  ShopOK'
<1>1. ASSUME NEW j \in Slot, Matches(j, master, shop)'
      PROVE  /\ j # i /\ Matches(j, master, shop) /\ semaphores'[j] = semaphores[j]
             /\ ~(Contains(semaphores[j].env_queue, x) /\ Contains(semaphores[i].env_queue, x))
  <2>1. j # i
    BY <1>1, TestAssumption DEF Matches
  <2>2. semaphores'[j] = semaphores[j]
    BY <2>1 DEF OnlyChanged
  <2>3. QED
    BY <1>1, <2>1, <2>2 DEF Matches, SemInv, BlockedExactlyInOneQueue, ShopInv
<1>2. ASSUME NEW j \in Slot, Matches(j, master, shop)', NEW c \in Env
      PROVE  Contains(semaphores'[j].env_queue, c) <=> c \in AtShop' /\ sch'.st[c] = "BLOCKED"
  <2>1. /\ semaphores'[j] = semaphores[j]
        /\ Contains(semaphores[j].env_queue, c) <=> c \in AtShop /\ sch.st[c] = "BLOCKED"
    BY <1>1, <1>2 DEF ShopInv, ShopOK
  <2>2. CASE c = x
    BY <1>1, <1>2, <2>1, <2>2
  <2>3. CASE c # x
    BY <2>1, <2>3
  <2>4. QED
    BY <2>2, <2>3
<1>3. QED
  BY <1>1, <1>2 DEF ShopInv, ShopOK

\* A customer tells the master that he is done.
LEMMA CustomerReports ==
  ASSUME TestInv, namesResident, NEW e \in Customers, Step(e), pc[e] = 3
  PROVE  ShopInv'
<1>1. /\ pc[master] \in Nat /\ pc[master] >= 3 /\ pc' = [pc EXCEPT ![e] = pc[e] + 1]
      /\ pc'[master] = pc[master] /\ e \in Env /\ sch.st[e] = "READY" /\ sch.cur = e
      /\ CallEffect(Call("signal", depend)) /\ ~NotFound(master, depend) /\ ShopInv /\ SemInv
      /\ sch.st \in [Env -> EnvStatus]
  BY CustomerRuns, SlaveCalls DEF TestInv, SemInv, SchedInv, WellFormed, SchedState
<1>2. PICK i \in Slot : SignalEffect(i, master, depend)
  BY <1>1 DEF CallEffect, Call
<1>3. /\ OnlyChanged(i) /\ Matches(i, master, depend) /\ Matches(i, master, depend)'
      /\ semaphores \in [Slot -> Semaphore]
  BY <1>1, <1>2 DEF SignalEffect, ShopInv, SemInv, Matches, Matched
<1>4. OpeningOK'
  BY <1>1, <1>3, OpeningKept DEF ShopInv
<1>5. /\ AtShop' = AtShop /\ MasterWaits' = MasterWaits
      /\ Cardinality(Done)' = Cardinality(Done) + 1
  <2>1. ProgressOK /\ pc[e] \in 1..4 /\ pc[e] \notin {1, 2}
    BY CustomerRuns DEF TestInv
  <2>2. AtShop' = AtShop /\ MasterWaits' = MasterWaits
    BY <1>1, <2>1, CustomersMove
  <2>3. Cardinality(Done)' = Cardinality(Done) + 1
    BY <1>1, <2>1, CustomersCounted
  <2>4. QED
    BY <2>2, <2>3
<1> DEFINE q == semaphores[i].env_queue
           v == semaphores[i].value
           w == semaphores'[i].env_queue
           l == Last(q)
<1>6. /\ v = Cardinality(Done) - MasterWaits /\ v \in Int /\ q \in Seq(Env)
      /\ \A c \in Env : Contains(q, c) => c = master
      /\ NoDuplicates(q) /\ Len(q) = IF v < 0 THEN -v ELSE 0
  <2>1. v \in Int /\ q \in Seq(Env)
    BY <1>3 DEF Semaphore
  <2>2. /\ v = Cardinality(Done) - MasterWaits
        /\ \A c \in Env : Contains(q, c) => c = master
    BY <1>1, <1>3 DEF ShopInv, DependOK
  <2>3. NoDuplicates(q) /\ Len(q) = IF v < 0 THEN -v ELSE 0
    BY <1>1 DEF SemInv, BlockedExactlyInOneQueue, QueueLengthMatchesValue, ShopInv
  <2>4. QED
    BY <2>1, <2>2, <2>3
<1>7. ShopOK' /\ \A c \in Env : Contains(w, c) => c = master
  <2>1. CASE v + 1 <= 0
    <3>1. w = dequeue(q) /\ sch'.st = [sch.st EXCEPT ![l] = "READY"]
      BY <1>2, <2>1 DEF SignalEffect
    <3>2. q # <<>>
      BY <1>6, <2>1
    <3>3. l \in Env /\ Contains(q, l) /\ \A x : Contains(w, x) <=> Contains(q, x) /\ x # l
      BY <1>6, <3>1, <3>2, Dequeue
    <3> HIDE DEF w, v, l
    <3>4. \A c \in Env : sch'.st[c] = IF c = l THEN "READY" ELSE sch.st[c]
      BY <1>1, <3>1, <3>3
    <3>5. ShopOK'
      BY <1>1, <1>3, <1>5, <3>3, <3>4, ShopUntouched
    <3>6. QED
      BY <1>6, <3>3, <3>5
  <2>2. CASE ~(v + 1 <= 0)
    <3>1. w = q /\ sch'.st = sch.st
      BY <1>2, <2>2 DEF SignalEffect
    <3>2. e \notin AtShop
      BY DEF AtShop
    <3> HIDE DEF w, q, v, l
    <3>3. ShopOK'
      BY <1>1, <1>3, <1>5, <3>1, <3>2, ShopUntouched
    <3>4. QED
      BY <1>6, <3>1, <3>3
  <2>3. QED
    BY <2>1, <2>2
<1>8. DependOK'
  <2>1. semaphores'[i].value = Cardinality(Done)' - MasterWaits'
    <3>1. MasterWaits \in Int /\ Cardinality(Done) \in Int
      BY <1>1, CustomersCount, FS_Subset, FS_CardinalityType DEF Done, MasterWaits
    <3>2. QED
      BY <1>2, <1>5, <1>6, <3>1 DEF SignalEffect
  <2>2. \A j \in Slot : Matches(j, master, depend) => j = i
    BY <1>3, TestAssumption, SemAssumption DEF TestInv, SemInv, NamesUnique, ShopInv, Live, Matches
  <2>3. \A j \in Slot : Matches(j, master, depend)' => j = i
    BY <1>3, <2>2 DEF OnlyChanged, Matches
  <2>4. QED
    BY <1>7, <2>1, <2>3 DEF DependOK
<1>9. QED
  BY <1>3, <1>4, <1>7, <1>8, NullAssumption DEF ShopInv, Lost, OnlyChanged

\* A customer exits.
LEMMA CustomerExits ==
  ASSUME TestInv, namesResident, NEW e \in Customers, Step(e), pc[e] = 4
  PROVE  ShopInv'
<1>1. /\ pc[master] \in Nat /\ pc[master] >= 3 /\ pc' = [pc EXCEPT ![e] = pc[e] + 1]
      /\ pc'[master] = pc[master] /\ CallEffect(Call("exit", NoName)) /\ ShopInv
      /\ ProgressOK /\ pc[e] \in 1..4 /\ pc[e] \notin {1, 2, 3}
  BY CustomerRuns, SlaveCalls DEF TestInv
<1>2. UNCHANGED semaphores /\ QuietStatus
  BY <1>1 DEF CallEffect, Call
<1>3. AtShop' = AtShop /\ Done' = Done /\ MasterWaits' = MasterWaits
  BY <1>1, CustomersMove
<1>4. OpeningOK'
  BY <1>1, <1>2, OpeningKept DEF ShopInv
<1>5. QED
  BY <1>1, <1>2, <1>3, <1>4, SilentStep

\* What is known when the master runs.
LEMMA MasterRuns ==
  ASSUME TestInv, namesResident, Step(master)
  PROVE  /\ pc[master] \in 1..5 + 3 * N /\ N \in Nat /\ pc'[master] = pc[master] + 1
         /\ pc' = [pc EXCEPT ![master] = pc[master] + 1]
         /\ master \in Env /\ sch.st[master] = "READY" /\ sch.cur = master
         /\ CallEffect(NextCall(master)) /\ NextCall(master) = MasterProgram[pc[master]]
         /\ ShopInv /\ SemInv /\ ProgressOK
         /\ AtShop' = AtShop /\ Done' = Done /\ \A c \in Customers : pc'[c] = pc[c]
         /\ MasterWaits' = IF pc[master] \in 3 + 2 * N..2 + 3 * N THEN MasterWaits + 1
                           ELSE MasterWaits
         /\ sch.st \in [Env -> EnvStatus] /\ semaphores \in [Slot -> Semaphore] /\ SlotsOK
<1>1. master \in Env /\ SemInv /\ ProgressOK /\ ShopInv /\ N \in Nat
  BY TestAssumption, CustomersCount DEF TestInv
<1>2. /\ sch.cur = master /\ sch.st[master] = "READY"
      /\ pc[master] \in 1..Len(Program(master)) /\ CallEffect(NextCall(master))
  BY <1>1, StepEffect
<1>3. Program(master) = MasterProgram /\ Len(Program(master)) = 5 + 3 * N
  BY MasterCalls DEF Program
<1>4. pc' = [pc EXCEPT ![master] = pc[master] + 1]
  BY DEF Step
<1>5. /\ AtShop' = AtShop /\ Done' = Done /\ \A c \in Customers : pc'[c] = pc[c]
      /\ pc'[master] = pc[master] + 1
      /\ MasterWaits' = IF pc[master] \in 3 + 2 * N..2 + 3 * N THEN MasterWaits + 1
                        ELSE MasterWaits
  BY <1>1, <1>4, MasterMoves
<1>6. sch.st \in [Env -> EnvStatus] /\ semaphores \in [Slot -> Semaphore] /\ SlotsOK
  BY <1>1 DEF SemInv, SchedInv, WellFormed, SchedState, ShopInv
<1>7. QED
  BY <1>1, <1>2, <1>3, <1>4, <1>5, <1>6 DEF NextCall

\* The master creates a semaphore.
LEMMA MasterCreates ==
  ASSUME TestInv, namesResident, Step(master), pc[master] \in {1, 2}
  PROVE  ShopInv'
<1> DEFINE name == IF pc[master] = 1 THEN shop ELSE depend
           v == IF pc[master] = 1 THEN Capacity ELSE 0
<1>1. /\ pc[master] \in 1..5 + 3 * N /\ N \in Nat /\ pc'[master] = pc[master] + 1
      /\ master \in Env /\ sch.cur = master /\ SemInv /\ ShopInv
      /\ AtShop' = AtShop /\ Done' = Done /\ \A c \in Customers : pc'[c] = pc[c]
      /\ MasterWaits' = IF pc[master] \in 3 + 2 * N..2 + 3 * N THEN MasterWaits + 1
                        ELSE MasterWaits
      /\ semaphores \in [Slot -> Semaphore] /\ SlotsOK /\ shop # depend
  BY MasterRuns, TestAssumption
<1>2. CallEffect(Call("create", name))
  BY MasterRuns, MasterCalls
<1>3. v = IF name = shop THEN Capacity ELSE 0
  BY <1>1
<1>4. \E i \in Slot : CreateEffect(i, name, v)
  BY <1>2, <1>3 DEF CallEffect, Call
<1>5. NotFound(master, name)
  BY <1>1, <1>2 DEF CallEffect, Call
<1>6. PICK i \in Slot : /\ OnlyChanged(i) /\ UNCHANGED sch
                        /\ semaphores[i].empty /\ Matched(i, master, name)
                        /\ semaphores'[i].value = v /\ semaphores'[i].env_queue = <<>>
  BY <1>1, <1>4 DEF CreateEffect
<1>7. AtShop = {} /\ Done = {} /\ \A c \in Customers : sch.st[c] = "FREE" /\ pc[c] = 1
  <2>1. \A c \in Customers : sch.st[c] = "FREE" /\ pc[c] = 1
    BY <1>1 DEF ShopInv, OpeningOK
  <2>2. QED
    BY <2>1 DEF AtShop, Done
<1>8. Cardinality(AtShop)' = 0 /\ Cardinality(Done)' = 0 /\ MasterWaits' = 0 /\ MasterWaits = 0
  <2>1. Cardinality(AtShop') = 0 /\ Cardinality(Done') = 0
    BY <1>1, <1>7, FS_EmptySet
  <2>2. MasterWaits' = 0 /\ MasterWaits = 0
    BY <1>1 DEF MasterWaits
  <2>3. QED
    BY <2>1, <2>2
<1>9. \A j \in Slot : j # i => semaphores'[j] = semaphores[j]
  BY <1>6 DEF OnlyChanged
<1>10. \A j \in Slot : Matches(j, master, shop) \/ Matches(j, master, depend) => j # i
  BY <1>6 DEF Matches
<1>11. Capacity \in Int
  BY TestAssumption, SemAssumption
<1>12. CASE pc[master] = 1
  <2>1. name = shop /\ v = Capacity /\ Matches(i, master, shop)'
    BY <1>6, <1>12 DEF Matches, Matched
  <2>2. OpeningOK'
    <3>1. ~NotFound(master, shop)'
      BY <2>1 DEF NotFound
    <3>2. \A c \in Customers : sch'.st[c] = "FREE" /\ pc'[c] = 1
      BY <1>1, <1>6, <1>7
    <3>3. pc'[master] = 2
      BY <1>1, <1>12
    <3>4. \A j \in Slot : Live(j)' => Matches(j, master, shop)' \/ Matches(j, master, depend)'
      BY <1>1, <1>9, <2>1 DEF OpeningOK, ShopInv, Matches, Live
    <3>5. QED
      BY <3>1, <3>2, <3>3, <3>4 DEF OpeningOK
  <2>3. \A j \in Slot : Matches(j, master, shop)' => j = i
    BY <1>5, <1>9, <2>1 DEF NotFound, Matches
  <2>4. \A c \in Env : ~Contains(<<>>, c) /\ c \notin AtShop'
    BY <1>1, <1>7 DEF Contains
  <2>5. ShopOK'
    BY <1>6, <1>8, <1>11, <2>1, <2>3, <2>4 DEF ShopOK
  <2>6. \A j \in Slot : Matches(j, master, depend)' => j # i /\ Matches(j, master, depend)
    BY <1>1, <1>6, <1>9, <2>1 DEF Matches
  <2>7. DependOK'
    BY <1>1, <1>7, <1>8, <1>9, <2>6, FS_EmptySet DEF ShopInv, DependOK
  <2>8. QED
    BY <1>6, <2>2, <2>5, <2>7, NullAssumption DEF ShopInv, Lost, OnlyChanged
<1>13. CASE pc[master] = 2
  <2>1. name = depend /\ v = 0 /\ Matches(i, master, depend)'
    BY <1>6, <1>13 DEF Matches, Matched
  <2>2. ~NotFound(master, shop)' /\ ~NotFound(master, depend)'
    BY <1>1, <1>6, <1>9, <1>10, <1>13, <2>1 DEF OpeningOK, ShopInv, NotFound, Matches
  <2>3. \A j \in Slot : Live(j)' => Matches(j, master, shop)' \/ Matches(j, master, depend)'
    BY <1>1, <1>6, <1>9, <2>1 DEF OpeningOK, ShopInv, Matches, Live
  <2>4. OpeningOK'
    BY <1>1, <1>13, <2>2, <2>3 DEF OpeningOK
  <2>5. \A j \in Slot : Matches(j, master, depend)' => j = i
    BY <1>5, <1>9, <2>1 DEF NotFound, Matches
  <2>6. \A c \in Env : ~Contains(<<>>, c)
    BY DEF Contains
  <2>7. DependOK'
    BY <1>6, <1>8, <2>1, <2>5, <2>6 DEF DependOK
  <2>8. \A j \in Slot : Matches(j, master, shop)' => j # i /\ Matches(j, master, shop)
    BY <1>1, <1>6, <1>9, <2>1 DEF Matches
  <2>9. ShopOK'
    BY <1>1, <1>6, <1>9, <2>8 DEF ShopInv, ShopOK
  <2>10. QED
    BY <1>6, <2>4, <2>7, <2>9, NullAssumption DEF ShopInv, Lost, OnlyChanged
<1>14. QED
  BY <1>12, <1>13

\* The master waits for a customer.
LEMMA MasterWaitsOnce ==
  ASSUME TestInv, namesResident, Step(master), pc[master] \in 3 + 2 * N..2 + 3 * N
  PROVE  ShopInv'
<1>1. /\ pc[master] \in 1..5 + 3 * N /\ N \in Nat /\ pc'[master] = pc[master] + 1
      /\ master \in Env /\ sch.st[master] = "READY" /\ sch.cur = master /\ SemInv /\ ShopInv
      /\ AtShop' = AtShop /\ Done' = Done /\ MasterWaits' = MasterWaits + 1
      /\ sch.st \in [Env -> EnvStatus] /\ semaphores \in [Slot -> Semaphore]
  BY MasterRuns
<1>2. CallEffect(Call("wait", depend))
  BY MasterRuns, MasterCalls
<1>3. pc[master] >= 3 /\ pc'[master] >= 3 /\ pc[master] \in Nat /\ pc'[master] \in Nat
  BY <1>1
<1>4. ~NotFound(master, depend)
  BY <1>1, <1>3 DEF ShopInv, OpeningOK
<1>5. PICK i \in Slot : WaitEffect(i, master, depend)
  BY <1>2, <1>4 DEF CallEffect, Call
<1>6. OnlyChanged(i) /\ Matches(i, master, depend) /\ Matches(i, master, depend)'
  BY <1>5 DEF WaitEffect, Matches, Matched
<1>7. OpeningOK'
  BY <1>1, <1>3, <1>6, OpeningKept DEF ShopInv
<1> DEFINE q == semaphores[i].env_queue
           v == semaphores[i].value
           w == semaphores'[i].env_queue
<1>8. /\ v = Cardinality(Done) - MasterWaits /\ v \in Int /\ q \in Seq(Env)
      /\ \A c \in Env : Contains(q, c) => c = master
      /\ NoDuplicates(q) /\ ~Contains(q, master)
  <2>1. v \in Int /\ q \in Seq(Env)
    BY <1>1 DEF Semaphore
  <2>2. /\ v = Cardinality(Done) - MasterWaits
        /\ \A c \in Env : Contains(q, c) => c = master
    BY <1>1, <1>6 DEF ShopInv, DependOK
  <2>3. NoDuplicates(q) /\ ~Contains(q, master)
    BY <1>1 DEF SemInv, BlockedExactlyInOneQueue, ShopInv
  <2>4. QED
    BY <2>1, <2>2, <2>3
<1>9. master \notin AtShop
  BY DEF AtShop, Customers
<1>10. /\ \A c \in Env \ {master} : sch'.st[c] = sch.st[c]
       /\ \A c \in Env : Contains(w, c) => c = master
  <2>1. CASE v - 1 < 0
    <3>1. w = enqueue(q, master) /\ sch'.st = [sch.st EXCEPT ![master] = "BLOCKED"]
      BY <1>1, <1>5, <2>1 DEF WaitEffect
    <3>2. \A x : Contains(w, x) <=> Contains(q, x) \/ x = master
      BY <1>1, <1>8, <3>1, Enqueue
    <3> HIDE DEF w, q, v
    <3>3. QED
      BY <1>1, <1>8, <3>1, <3>2
  <2>2. CASE ~(v - 1 < 0)
    <3>1. w = q /\ sch'.st = sch.st
      BY <1>5, <2>2 DEF WaitEffect
    <3> HIDE DEF w, q, v
    <3>2. QED
      BY <1>8, <3>1
  <2>3. QED
    BY <2>1, <2>2
<1>11. ShopOK'
  BY <1>1, <1>6, <1>9, <1>10, ShopUntouched
<1>12. DependOK'
  <2>1. semaphores'[i].value = Cardinality(Done)' - MasterWaits'
    <3>1. MasterWaits \in Int /\ Cardinality(Done) \in Int
      <4>1. MasterWaits \in Int
        BY <1>1, CustomersCount DEF MasterWaits
      <4>2. IsFiniteSet(Done)
        BY CustomersCount, FS_Subset DEF Done
      <4>3. QED
        BY <4>1, <4>2, FS_CardinalityType
    <3>2. Cardinality(Done)' = Cardinality(Done)
      BY <1>1
    <3>3. QED
      BY <1>1, <1>5, <1>8, <3>1, <3>2 DEF WaitEffect
  <2>2. \A j \in Slot : Matches(j, master, depend) => j = i
    BY <1>1, <1>6, TestAssumption, SemAssumption DEF SemInv, NamesUnique, ShopInv, Live, Matches
  <2>3. \A j \in Slot : Matches(j, master, depend)' => j = i
    BY <1>6, <2>2 DEF OnlyChanged, Matches
  <2>4. QED
    BY <1>10, <2>1, <2>3 DEF DependOK
<1>13. QED
  BY <1>6, <1>7, <1>11, <1>12, NullAssumption DEF ShopInv, Lost, OnlyChanged

\* The master's other calls touch no semaphore.
LEMMA MasterElse ==
  ASSUME TestInv, namesResident, Step(master),
         pc[master] \notin {1, 2}, pc[master] \notin 3 + 2 * N..2 + 3 * N
  PROVE  ShopInv'
<1>1. /\ pc[master] \in 1..5 + 3 * N /\ N \in Nat /\ pc'[master] = pc[master] + 1 /\ ShopInv
      /\ AtShop' = AtShop /\ Done' = Done /\ MasterWaits' = MasterWaits
      /\ CallEffect(NextCall(master)) /\ NextCall(master) = MasterProgram[pc[master]]
  BY MasterRuns
<1>2. \/ pc[master] \in 3..2 + 2 * N
      \/ pc[master] = 3 + 3 * N \/ pc[master] = 4 + 3 * N \/ pc[master] = 5 + 3 * N
  BY <1>1
<1>3. NextCall(master).op \in {"load", "run", "get", "exit"}
  <2>1. NextCall(master) \in {Call("load", NoName), Call("run", NoName), Call("get", shop),
                              Call("get", depend), Call("exit", NoName)}
    BY <1>1, <1>2, MasterCalls
  <2>2. QED
    BY <2>1 DEF Call
<1>4. UNCHANGED semaphores /\ QuietStatus
  BY <1>1, <1>3 DEF CallEffect
<1>5. pc[master] >= 3 /\ pc'[master] >= 3 /\ pc[master] \in Nat /\ pc'[master] \in Nat
  BY <1>1
<1>6. OpeningOK'
  BY <1>1, <1>4, <1>5, OpeningKept DEF ShopInv
<1>7. QED
  BY <1>1, <1>4, <1>6, SilentStep

\* Every step keeps the accounts.
LEMMA TestStep == TestInv /\ [TestNext]_tvars => TestInv'
<1> SUFFICES ASSUME TestInv, [TestNext]_tvars PROVE TestInv'
  OBVIOUS
<1>1. SemInv' /\ ProgressOK'
  BY TestStep0 DEF TestInv
<1>2. UNCHANGED namesResident
  BY DEF TestNext, StartMaster, Tick, Step, tvars
<1> SUFFICES ASSUME namesResident PROVE ShopInv'
  BY <1>1, <1>2 DEF TestInv
<1>3. ASSUME UNCHANGED <<semaphores, pc>>, QuietStatus,
             \A x \in Customers : sch'.st[x] = sch.st[x]
      PROVE  ShopInv'
  <2>1. AtShop' = AtShop /\ Done' = Done /\ MasterWaits' = MasterWaits
    BY <1>3 DEF AtShop, Done, MasterWaits
  <2>2. OpeningOK'
    BY <1>3 DEF TestInv, ShopInv, OpeningOK, NotFound, Matches, Live
  <2>3. QED
    BY <1>3, <2>1, <2>2, SilentStep DEF TestInv
<1>4. CASE StartMaster
  <2>1. QuietStatus /\ \A x \in Customers : sch'.st[x] = sch.st[x]
    BY <1>4, StartQuiet DEF TestInv, Customers
  <2>2. QED
    BY <1>3, <1>4, <2>1 DEF StartMaster
<1>5. CASE Tick
  <2>1. sch'.st = sch.st
    BY <1>5, TickQuiet DEF TestInv
  <2>2. QED
    BY <1>3, <1>5, <2>1 DEF Tick, QuietStatus
<1>6. CASE UNCHANGED tvars
  BY <1>3, <1>6 DEF tvars, QuietStatus
<1>7. ASSUME NEW e \in Customers, Step(e) PROVE ShopInv'
  <2>1. pc[e] = 1 \/ pc[e] = 2 \/ pc[e] = 3 \/ pc[e] = 4
    BY <1>7, CustomerRuns
  <2>2. QED
    BY <1>7, <2>1, CustomerEnters, CustomerLeaves, CustomerReports, CustomerExits
<1>8. CASE Step(master)
  BY <1>8, MasterCreates, MasterWaitsOnce, MasterElse
<1>9. QED
  BY <1>4, <1>5, <1>6, <1>7, <1>8 DEF TestNext, Customers

\* They are right when the test starts.
LEMMA TestInitial == TestInit => TestInv
<1> SUFFICES ASSUME TestInit PROVE TestInv
  OBVIOUS
<1>1. SemInv /\ ProgressOK
  BY TestInitial0
<1>2. \A i \in Slot : semaphores[i].empty
  BY DEF TestInit, Init, create_semaphores_array, EmptySemaphore
<1>3. ~Lost
  <2>1. EmptySemaphore \in Semaphore
    BY SemAssumption DEF EmptySemaphore, Semaphore
  <2>2. semaphores \in [Slot -> Semaphore]
    BY <2>1 DEF TestInit, Init, create_semaphores_array
  <2>3. QED
    BY <2>2, NullAssumption DEF Lost
<1>4. pc[master] = 1 /\ \A c \in Customers : pc[c] = 1 /\ sch.st[c] = "FREE"
  BY TestAssumption DEF TestInit, Init, SchedInit, Customers
<1>5. OpeningOK
  BY <1>2, <1>4 DEF OpeningOK, Live
<1>6. ShopOK /\ DependOK
  BY <1>2 DEF ShopOK, DependOK, Matches
<1>7. QED
  BY <1>1, <1>3, <1>5, <1>6 DEF TestInv, ShopInv

\* The invariant of the test.
LEMMA TestInvariant == TestSpec => []TestInv
BY TestInitial, TestStep, PTL DEF TestSpec

\* As many wait as the value is negative, none of them twice.
LEMMA QueueCounts ==
  ASSUME NEW q \in Seq(Env), NoDuplicates(q), NEW T \in SUBSET Env,
         \A c \in Env : Contains(q, c) <=> c \in T
  PROVE  IsFiniteSet(T) /\ Cardinality(T) = Len(q)
<1>1. q \in Bijection(1..Len(q), T) /\ Len(q) \in Nat
  <2>1. Len(q) \in Nat /\ \A i \in 1..Len(q) : q[i] \in Env /\ DOMAIN q = 1..Len(q)
    OBVIOUS
  <2>2. q \in [1..Len(q) -> T]
    BY <2>1 DEF Contains
  <2>3. \A i, j \in 1..Len(q) : q[i] = q[j] => i = j
    BY DEF NoDuplicates
  <2>4. \A c \in T : \E i \in 1..Len(q) : q[i] = c
    BY DEF Contains
  <2>5. QED
    BY <2>1, <2>2, <2>3, <2>4 DEF Bijection, Injection, Surjection, IsInjective
<1>2. ExistsBijection(1..Len(q), T)
  BY <1>1 DEF ExistsBijection
<1>3. QED
  BY <1>1, <1>2, FS_NatBijection, FS_CountingElements

\* The value says how many are inside and how many outside.
LEMMA InsideAndOutside ==
  ASSUME TestInv, namesResident, NEW i \in Slot, Matches(i, master, shop)
  PROVE  LET v == semaphores[i].value
         IN  /\ v \in Int /\ Capacity \in Nat
             /\ Cardinality(Outside) = IF v < 0 THEN -v ELSE 0
             /\ Cardinality(InShop) = Capacity - v - Cardinality(Outside)
<1>1. /\ SemInv /\ ShopInv /\ Capacity \in Nat /\ semaphores \in [Slot -> Semaphore]
  BY TestAssumption, SemAssumption DEF TestInv, SemInv, ShopInv
<1>2. /\ IsFiniteSet(AtShop) /\ Cardinality(AtShop) \in Nat
      /\ Outside \in SUBSET Env /\ Outside \subseteq AtShop
  BY CustomersCount, FS_Subset, FS_CardinalityType DEF AtShop, Outside
<1> DEFINE q == semaphores[i].env_queue
           v == semaphores[i].value
<1>3. v \in Int /\ q \in Seq(Env)
  BY <1>1 DEF Semaphore
<1>4. /\ v = Capacity - Cardinality(AtShop)
      /\ \A c \in Env : Contains(q, c) <=> c \in Outside
      /\ NoDuplicates(q) /\ Len(q) = IF v < 0 THEN -v ELSE 0
  BY <1>1 DEF ShopInv, ShopOK, SemInv, BlockedExactlyInOneQueue, QueueLengthMatchesValue,
              Outside, AtShop
<1> HIDE DEF q, v
<1>5. Cardinality(Outside) = Len(q)
  BY <1>2, <1>3, <1>4, QueueCounts
<1>6. InShop = AtShop \ Outside /\ AtShop \cap Outside = Outside
  BY <1>2 DEF InShop, AtShop, Outside
<1>7. Cardinality(InShop) = Cardinality(AtShop) - Cardinality(Outside)
  <2>1. Cardinality(AtShop \ Outside) = Cardinality(AtShop) - Cardinality(AtShop \cap Outside)
    BY <1>2, FS_Difference
  <2>2. QED
    BY <1>6, <2>1
<1>8. QED
  BY <1>1, <1>2, <1>3, <1>4, <1>5, <1>7 DEF v

\* Nobody is at the shop before it exists.
LEMMA NobodyBeforeShop ==
  ASSUME TestInv, namesResident, NotFound(master, shop)
  PROVE  InShop = {} /\ Outside = {}
<1>1. \A c \in Customers : pc[c] = 1
  BY TestAssumption DEF TestInv, ShopInv, OpeningOK, ProgressOK
<1>2. QED
  BY <1>1 DEF InShop, Outside

(***************************************************************************)
(* For any number of customers, any capacity and any interleaving, while   *)
(* the names stay in memory: at most Capacity customers are inside, and    *)
(* exactly so many while another one waits outside.                        *)
(***************************************************************************)
THEOREM ShopCapacityKept == TestSpec => []CapacityKept
<1>1. ASSUME TestInv, namesResident PROVE CapacityRespected
  <2>1. CASE NotFound(master, shop)
    BY <1>1, <2>1, NobodyBeforeShop, FS_EmptySet, TestAssumption, SemAssumption
       DEF CapacityRespected
  <2>2. ASSUME NEW i \in Slot, Matches(i, master, shop)
        PROVE  CapacityRespected
    BY <1>1, <2>2, InsideAndOutside DEF CapacityRespected
  <2>3. QED
    BY <2>1, <2>2 DEF NotFound
<1>2. ASSUME TestInv, namesResident, Outside # {} PROVE Cardinality(InShop) = Capacity
  <2>1. PICK i \in Slot : Matches(i, master, shop)
    BY <1>2, NobodyBeforeShop DEF NotFound
  <2>2. IsFiniteSet(Outside) /\ Cardinality(Outside) # 0
    BY <1>2, CustomersCount, FS_Subset, FS_EmptySet DEF Outside
  <2>3. QED
    BY <1>2, <2>1, <2>2, InsideAndOutside
<1>3. TestInv => CapacityKept
  BY <1>1, <1>2 DEF CapacityKept, NobodyWaitsInVain
<1>4. QED
  BY <1>3, TestInvariant, PTL

(***************************************************************************)
(* When the master is past its last wait and goes on, every customer has   *)
(* left and reported: the shop's value is its capacity again and that of   *)
(* "depend" is 0, as the test expects.                                     *)
(***************************************************************************)
THEOREM TestSucceeds == TestSpec => []FinalValues
<1>1. ASSUME TestInv, namesResident, pc[master] > 2 + 3 * N, sch.st[master] = "READY",
             NEW i \in Slot, Live(i)
      PROVE  semaphores[i].value = IF semaphores[i].name = shop THEN Capacity ELSE 0
  <2>1. /\ SemInv /\ ShopInv /\ pc \in [Env -> Nat \ {0}] /\ master \in Env /\ Capacity \in Nat
        /\ semaphores \in [Slot -> Semaphore] /\ N \in Nat /\ shop # depend
        /\ pc[master] \in Nat
    BY <1>1, TestAssumption, SemAssumption, CustomersCount DEF TestInv, ProgressOK, SemInv, ShopInv
  <2>2. MasterWaits = N
    BY <1>1, <2>1 DEF MasterWaits
  <2>3. ~NotFound(master, depend)
    BY <1>1, <2>1 DEF ShopInv, OpeningOK
  <2>4. PICK j \in Slot : Matches(j, master, depend)
    BY <2>3 DEF NotFound
  <2> DEFINE q == semaphores[j].env_queue
             v == semaphores[j].value
  <2>5. v \in Int /\ q \in Seq(Env)
    BY <2>1 DEF Semaphore
  <2>6. /\ v = Cardinality(Done) - N
        /\ \A c \in Env : Contains(q, c) => c = master
        /\ ~Contains(q, master) /\ Len(q) = IF v < 0 THEN -v ELSE 0
    BY <1>1, <2>1, <2>2, <2>4 DEF ShopInv, DependOK, SemInv, BlockedExactlyInOneQueue,
                                  QueueLengthMatchesValue
  <2> HIDE DEF q, v
  <2>7. v >= 0
    <3>1. Len(q) = 0
      <4>1. SUFFICES ASSUME Len(q) # 0 PROVE FALSE
        OBVIOUS
      <4>2. 1 \in 1..Len(q) /\ q[1] \in Env
        BY <2>5, <4>1
      <4>3. Contains(q, q[1])
        BY <4>2 DEF Contains
      <4>4. QED
        BY <2>6, <4>2, <4>3
    <3>2. QED
      BY <2>5, <2>6, <3>1
  <2>8. Done = Customers /\ v = 0
    <3>1. IsFiniteSet(Customers) /\ Done \in SUBSET Customers
      BY CustomersCount DEF Done
    <3>2. Cardinality(Done) <= N /\ Cardinality(Done) \in Nat
      BY <3>1, FS_Subset, FS_CardinalityType DEF N
    <3>3. Cardinality(Done) = N
      BY <2>1, <2>6, <2>7, <3>2
    <3>4. QED
      BY <2>1, <2>6, <3>1, <3>3, FS_Subset DEF N
  <2>9. Cardinality(AtShop) = 0
    <3>1. \A c \in Customers : pc[c] >= 4
      BY <2>8 DEF Done
    <3>2. AtShop = {}
      BY <3>1 DEF AtShop
    <3>3. QED
      BY <3>2, FS_EmptySet
  <2>10. CASE Matches(i, master, shop)
    <3>1. semaphores[i].name = shop /\ semaphores[i].value = Capacity - Cardinality(AtShop)
      BY <2>1, <2>10 DEF ShopInv, ShopOK, Matches
    <3>2. QED
      BY <2>1, <2>9, <3>1
  <2>11. CASE Matches(i, master, depend)
    <3>1. semaphores[i].name = depend /\ i = j
      BY <2>1, <2>4, <2>11, SemAssumption, TestAssumption
      DEF SemInv, NamesUnique, Matches, Live, ShopInv
    <3>2. QED
      BY <2>1, <2>8, <3>1 DEF v
  <2>12. QED
    BY <1>1, <2>1, <2>10, <2>11 DEF ShopInv, OpeningOK
<1>2. TestInv => FinalValues
  BY <1>1 DEF FinalValues, N
<1>3. QED
  BY <1>2, TestInvariant, PTL
=============================================================================
