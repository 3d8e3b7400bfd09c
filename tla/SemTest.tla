------------------------------ MODULE SemTest ------------------------------
(***************************************************************************)
(* The kernel under the test programs user/tst_semaphore_2master.c and     *)
(* user/tst_semaphore_2slave.c: a master creates a semaphore for a shop of *)
(* limited capacity and one to wait for its customers, starts the          *)
(* customers, waits for all of them and compares the final values.  The    *)
(* clock may interrupt the programs between any two system calls.          *)
(***************************************************************************)
EXTENDS Semaphores, FiniteSets

CONSTANTS master,         \* the environment that runs the master
          shop, depend,   \* the names "shopCapacity" and "depend"
          Capacity,       \* the shop's capacity, typed in by the user
          Residence       \* values of namesResident to consider

ASSUME TestAssumption ==
  /\ IsFiniteSet(Env) /\ master \in Env
  /\ shop \in Name /\ depend \in Name /\ shop # depend
  /\ Capacity \in InitialValue /\ 0 \in InitialValue
  /\ Residence \subseteq BOOLEAN

Customers == Env \ {master}

VARIABLES pc,             \* index of each environment's next system call
          namesResident   \* whether the names' pages stay in memory

tvars == <<sch, semaphores, pc, namesResident>>

Repeat(n, calls) == [i \in 1..n * Len(calls) |-> calls[((i - 1) % Len(calls)) + 1]]

Call(op, name) == [op |-> op, name |-> name]

MasterProgram ==
  LET n == Cardinality(Customers)
  IN  <<Call("create", shop), Call("create", depend)>>
        \o Repeat(n, <<Call("load", NoName), Call("run", NoName)>>)
        \o Repeat(n, <<Call("wait", depend)>>)
        \o <<Call("get", shop), Call("get", depend), Call("exit", NoName)>>

SlaveProgram == <<Call("wait", shop), Call("signal", shop),
                  Call("signal", depend), Call("exit", NoName)>>

Program(e) == IF e = master THEN MasterProgram ELSE SlaveProgram

-----------------------------------------------------------------------------
\* wait and signal return silently, and get panics, if there is no semaphore.
ExecuteCall(c) ==
  \/ c.op = "create" /\ createSemaphore(c.name, IF c.name = shop THEN Capacity ELSE 0)
  \/ c.op = "load" /\ (\E e \in Env : LoadEnv(e)) /\ UNCHANGED semaphores
  \/ c.op = "run" /\ sys_run_env(Head(sch.new)) /\ UNCHANGED semaphores
  \/ c.op = "wait" /\ waitSemaphore(master, c.name)
  \/ c.op = "signal" /\ signalSemaphore(master, c.name)
  \/ c.op \in {"wait", "signal"} /\ NotFound(master, c.name) /\ UNCHANGED vars
  \/ c.op = "get" /\ ~NotFound(master, c.name) /\ UNCHANGED vars
  \/ c.op = "get" /\ getSemaphoreValueFails(master, c.name)
  \/ c.op = "exit" /\ ExitEnv /\ UNCHANGED semaphores

\* The kernel faults on the name and does not come back to the system call.
AbandonCall(c) ==
  /\ ~namesResident
  /\ \/ c.op = "create" /\ createSemaphoreAbandoned
     \/ c.op \in {"create", "wait", "signal", "get"} /\ UNCHANGED vars

Step(e) == /\ sch.cur = e
           /\ ExecuteCall(Program(e)[pc[e]]) \/ AbandonCall(Program(e)[pc[e]])
           /\ pc' = [pc EXCEPT ![e] = @ + 1]
           /\ UNCHANGED namesResident

Tick == clock_interrupt_handler /\ UNCHANGED <<semaphores, pc, namesResident>>

\* "run tst_semaphore_2master" at the prompt; then the prompt waits.
StartMaster == command_run_program(master) /\ UNCHANGED <<semaphores, pc, namesResident>>

TestInit == Init /\ pc = [e \in Env |-> 1] /\ namesResident \in Residence

TestNext == StartMaster \/ Tick \/ \E e \in Env : Step(e)

(***************************************************************************)
(* A time slice is long enough for a system call, so an environment that   *)
(* keeps being scheduled keeps making its calls.                           *)
(***************************************************************************)
TestSpec == /\ TestInit /\ [][TestNext]_tvars
            /\ WF_tvars(StartMaster) /\ SF_tvars(Tick)
            /\ \A e \in Env : SF_tvars(Step(e))

-----------------------------------------------------------------------------
(* Properties.                                                             *)

\* Customers whose wait for the shop let them go on and who have not left.
InShop == {c \in Customers : pc[c] = 2 /\ sch.st[c] # "BLOCKED"}

Outside == {c \in Customers : pc[c] = 2 /\ sch.st[c] = "BLOCKED"}

(***************************************************************************)
(* At most Capacity customers are in the shop at once, whatever the        *)
(* interleaving; with Capacity = 1 this is the mutual exclusion that       *)
(* tst_semaphore_1slave.c checks ("more than 1 process inside the CS").    *)
(***************************************************************************)
CapacityRespected == Cardinality(InShop) <= Capacity

\* A customer waits outside only while the shop is full.
NobodyWaitsInVain == Outside # {} => Cardinality(InShop) = Capacity

(***************************************************************************)
(* As long as the names stay in memory the shop's capacity is kept and is  *)
(* used: no more customers are inside, and whoever leaves lets the next    *)
(* one in, also when others come and are preempted between their calls in  *)
(* the meantime.  (Not true when calls are lost: see sem_test_fault.)      *)
(***************************************************************************)
CapacityKept == namesResident => CapacityRespected /\ NobodyWaitsInVain

(***************************************************************************)
(* Whichever calls are lost to page faults, creations halfway included: a  *)
(* program sleeps only in the queue of the semaphore that its last call    *)
(* waits for, where the next signal of that name finds it.                 *)
(***************************************************************************)
SleepsWhereItWaited ==
  \A e \in Env : sch.st[e] = "BLOCKED" =>
    /\ pc[e] > 1
    /\ \E i \in Slot : /\ Contains(semaphores[i].env_queue, e)
                       /\ semaphores[i].ownerID = master
                       /\ Program(e)[pc[e] - 1] = Call("wait", semaphores[i].name)

(***************************************************************************)
(* When the master has been released for its last customer it finds the    *)
(* values the test calls success: shopCapacity back at its initial value   *)
(* and depend at 0.  (Its calls before the first "get" are 2 creations,    *)
(* then a load, a run and a wait for each customer.)                       *)
(***************************************************************************)
FinalValues ==
  namesResident /\ pc[master] > 2 + 3 * Cardinality(Customers) /\ sch.st[master] = "READY" =>
    \A i \in Slot : Live(i) =>
      semaphores[i].value = IF semaphores[i].name = shop THEN Capacity ELSE 0

(***************************************************************************)
(* Every customer leaves the shop and the master reports: all environments *)
(* exit, if no call is lost.                                               *)
(***************************************************************************)
EveryoneExits == namesResident => <>[](\A e \in Env : sch.st[e] = "EXIT")
=============================================================================
