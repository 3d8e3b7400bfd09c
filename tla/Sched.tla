------------------------------- MODULE Sched -------------------------------
(***************************************************************************)
(* The round-robin scheduler of the FOS kernel (kern/sched.c) with the     *)
(* parts of the environment life cycle that move an environment between    *)
(* its queues: env_create, env_run, env_exit and env_free                  *)
(* (kern/user_environment.c), _panic (kern/init.c), the process commands   *)
(* of the prompt (kern/command_prompt.c) and the system calls that reach   *)
(* them (kern/syscall.c).                                                  *)
(*                                                                         *)
(* Kernel code is never preempted: every trap enters through an interrupt  *)
(* gate and stops the clock, so a system call, a clock tick or a command   *)
(* is one step.  fos_scheduler() never returns to its caller: it resumes   *)
(* an environment or enters the command prompt for good.                   *)
(***************************************************************************)
EXTENDS Integers, Sequences, SequencesExt

CONSTANTS Env,    \* the structs of the array envs
          NULL    \* the null pointer

ASSUME EnvAssumption == NULL \notin Env

(***************************************************************************)
(* sch holds the scheduler's globals and the fields of struct Env it uses: *)
(*   ready, new, exit   env_ready_queue, env_new_queue, env_exit_queue     *)
(*   free               env_free_list (its order plays no role)            *)
(*   next, cur          sched_next, curenv                                 *)
(*   started            scheduler_status = SCH_STARTED                     *)
(*   st                 env_status                                         *)
(*   intr               FL_IF of env_tf.tf_eflags                          *)
(* The running environment stays in the ready queue; curenv is NULL while  *)
(* the command prompt runs.                                                *)
(***************************************************************************)
VARIABLE sch

EnvStatus == {"FREE", "READY", "BLOCKED", "NEW", "EXIT", "UNKNOWN"}

SchedState == [ready: Seq(Env), new: Seq(Env), exit: Seq(Env),
               free: SUBSET Env, next: Env \cup {NULL}, cur: Env \cup {NULL},
               started: BOOLEAN, st: [Env -> EnvStatus], intr: [Env -> BOOLEAN]]

-----------------------------------------------------------------------------
(* Lists (inc/queue.h).  An environment is in a list at most once.         *)

Position(q, e) == CHOOSE i \in 1..Len(q) : q[i] = e

LIST_REMOVE(q, e) == RemoveAt(q, Position(q, e))

LIST_INSERT_BEFORE(q, e, new) == InsertAt(q, Position(q, e), new)

-----------------------------------------------------------------------------
(* The helpers of sched.c, as functions of the scheduler's state.          *)

sched_next_circular(q, e) ==
  IF Position(q, e) < Len(q) THEN q[Position(q, e) + 1] ELSE q[1]

\* Mutant: the scheduler picks the same environment again.
MutNoRotation(s) == [s EXCEPT !.cur = s.next, !.started = (s.next # NULL)]

fos_scheduler(s) ==
  [s EXCEPT !.cur = s.next,
            !.next = IF s.next = NULL THEN NULL
                     ELSE sched_next_circular(s.ready, s.next),
            !.started = (s.next # NULL)]

\* Mutant: a newly ready environment is the next to run.
MutNewcomerFirst(s, e) ==
  [s EXCEPT !.st[e] = "READY", !.next = e,
            !.ready = IF s.next # NULL THEN LIST_INSERT_BEFORE(s.ready, s.next, e)
                                       ELSE Append(s.ready, e)]

sched_insert_ready(s, e) ==
  IF s.next # NULL
  THEN [s EXCEPT !.st[e] = "READY",
                 !.ready = LIST_INSERT_BEFORE(s.ready, s.next, e)]
  ELSE [s EXCEPT !.st[e] = "READY", !.ready = Append(s.ready, e), !.next = e]

sched_remove_ready(s, e) ==
  [s EXCEPT !.next = IF s.next # e THEN s.next
                     ELSE IF sched_next_circular(s.ready, e) = e THEN NULL
                     ELSE sched_next_circular(s.ready, e),
            !.ready = LIST_REMOVE(s.ready, e),
            !.st[e] = "UNKNOWN"]

sched_insert_new(s, e) ==
  [s EXCEPT !.st[e] = "NEW", !.new = Append(s.new, e)]

sched_remove_new(s, e) ==
  [s EXCEPT !.new = LIST_REMOVE(s.new, e), !.st[e] = "UNKNOWN"]

sched_insert_exit(s, e) ==
  [s EXCEPT !.st[e] = "EXIT", !.exit = Append(s.exit, e)]

sched_remove_exit(s, e) ==
  [s EXCEPT !.exit = LIST_REMOVE(s.exit, e), !.st[e] = "UNKNOWN"]

sched_exit_env(s, e) ==
  sched_insert_exit(IF Contains(s.new, e) THEN sched_remove_new(s, e)
                                          ELSE sched_remove_ready(s, e), e)

\* The scheduler call at the end of sched_exit_env and the one of env_exit are
\* one step: whichever comes first does not return.
env_exit(s) == fos_scheduler(sched_exit_env(s, s.cur))

\* A panic is not fatal: it exits the running environment and reschedules.
panic(s) ==
  IF s.cur # NULL /\ s.st[s.cur] = "READY" THEN env_exit(s) ELSE fos_scheduler(s)

\* env_free() unmaps the user's view of the working set and then panics ("not
\* implemented yet"), so whoever frees an environment never gets past it.
start_env_free(s) == panic(s)

sched_kill_env(s, e) ==
  IF Contains(s.new, e) THEN start_env_free(sched_remove_new(s, e))
  ELSE IF Contains(s.ready, e) THEN start_env_free(sched_remove_ready(s, e))
  ELSE IF Contains(s.exit, e) THEN start_env_free(sched_remove_exit(s, e))
  ELSE s

\* The first victim's env_free() panics, which ends the loops of sched_kill_all.
sched_kill_all(s) ==
  IF s.new # <<>> THEN sched_kill_env(s, Head(s.new))
  ELSE IF s.ready # <<>> THEN sched_kill_env(s, Head(s.ready))
  ELSE IF s.exit # <<>> THEN sched_kill_env(s, Head(s.exit))
  ELSE fos_scheduler(s)

\* Mutant: running from the prompt does not start the scheduler.
MutNotStarted(s, e) ==
  IF Contains(s.new, e) THEN sched_insert_ready(sched_remove_new(s, e), e) ELSE s

sched_run_env(s, e) ==
  LET r == sched_insert_ready(sched_remove_new(s, e), e)
  IN  IF ~Contains(s.new, e) THEN s
      ELSE IF s.started THEN r ELSE fos_scheduler(r)

\* The new queue moves in its order to just before sched_next; when there is
\* no sched_next its head becomes sched_next and the others go before it.
sched_run_all(s) ==
  LET at == Position(s.ready, s.next)
      r  == [s EXCEPT
               !.new = <<>>,
               !.st = [e \in Env |-> IF Contains(s.new, e) THEN "READY" ELSE s.st[e]],
               !.next = IF s.next = NULL /\ s.new # <<>> THEN Head(s.new) ELSE s.next,
               !.ready = IF s.new = <<>> THEN s.ready
                         ELSE IF s.next = NULL
                         THEN s.ready \o Append(Tail(s.new), Head(s.new))
                         ELSE SubSeq(s.ready, 1, at - 1) \o s.new
                              \o SubSeq(s.ready, at, Len(s.ready))]
  IN  IF s.started THEN r ELSE fos_scheduler(r)

\* env_create commits the struct (complete_environment_initialization); its
\* callers put it in the new queue.
env_create(s, e) ==
  [s EXCEPT !.free = @ \ {e}, !.st[e] = "NEW", !.intr[e] = TRUE]

-----------------------------------------------------------------------------
(* The steps of the system.  AtPrompt: the kernel waits for a command.     *)

AtPrompt == sch.cur = NULL

Running == sch.cur # NULL

\* A clock tick; a tick that finds interrupts masked stays pending.
clock_interrupt_handler == /\ Running
                           /\ sch.intr[sch.cur]
                           /\ sch' = fos_scheduler(sch)

sys_disable_interrupt == /\ Running
                         /\ sch' = [sch EXCEPT !.intr[sch.cur] = FALSE]

sys_enable_interrupt == /\ Running
                        /\ sch' = [sch EXCEPT !.intr[sch.cur] = TRUE]

\* sys_create_env of the running environment, or the command "load".
LoadEnv(e) == /\ e \in sch.free
              /\ sch' = sched_insert_new(env_create(sch, e), e)

\* Memory runs out in env_create before the struct is committed: it stays in
\* env_free_list, marked ENV_UNKNOWN by allocate_environment.
LoadEnvFailsEarly(e) == /\ e \in sch.free
                        /\ sch' = panic([sch EXCEPT !.st[e] = "UNKNOWN"])

\* Memory runs out after the commit: the struct is in no list any more.
LoadEnvFailsLate(e) == /\ e \in sch.free
                       /\ sch' = panic(env_create(sch, e))

sys_run_env(e) == Running /\ sch' = sched_run_env(sch, e)

command_run_program(e) ==
  /\ AtPrompt /\ e \in sch.free
  /\ sch' = sched_run_env(sched_insert_new(env_create(sch, e), e), e)

command_run_all == AtPrompt /\ sch' = sched_run_all(sch)

\* sys_free_env, sys_env_destroy, or the command "kill".
KillEnv(e) == sch' = sched_kill_env(sch, e)

command_kill_all == AtPrompt /\ sch' = sched_kill_all(sch)

\* sys_env_exit, or a panic on behalf of the running environment.
ExitEnv == Running /\ sch' = env_exit(sch)

SchedInit == sch = [ready |-> <<>>, new |-> <<>>, exit |-> <<>>, free |-> Env,
                    next |-> NULL, cur |-> NULL, started |-> FALSE,
                    st |-> [e \in Env |-> "FREE"], intr |-> [e \in Env |-> FALSE]]

SchedNext ==
  \/ clock_interrupt_handler
  \/ sys_disable_interrupt
  \/ sys_enable_interrupt
  \/ \E e \in Env : LoadEnv(e)
  \/ \E e \in Env : LoadEnvFailsEarly(e)
  \/ \E e \in Env : LoadEnvFailsLate(e)
  \/ \E e \in Env : sys_run_env(e)
  \/ \E e \in Env : command_run_program(e)
  \/ command_run_all
  \/ \E e \in Env : KillEnv(e)
  \/ command_kill_all
  \/ ExitEnv

(***************************************************************************)
(* The clock is strongly fair: the timer is masked, not lost, while an     *)
(* environment has interrupts off.  Every piece of user code that turns    *)
(* them off turns them on again (lib/printf.c, lib/console.c,              *)
(* lib/libmain.c), hence the weak fairness of sys_enable_interrupt.        *)
(***************************************************************************)
SchedSpec == /\ SchedInit /\ [][SchedNext]_sch
             /\ SF_sch(clock_interrupt_handler)
             /\ WF_sch(sys_enable_interrupt)

-----------------------------------------------------------------------------
(* Properties.                                                             *)

\* The globals and fields of sched.c hold values of their types.
SchedTypeOK == sch \in SchedState

NoDuplicates(q) == \A i, j \in 1..Len(q) : q[i] = q[j] => i = j

(***************************************************************************)
(* An environment is in the queue its env_status names and in no other:    *)
(* the one pair of links in struct Env (prev_next_info) serves every       *)
(* queue, so an environment in two of them corrupts both.  env_status is   *)
(* ENV_NEW outside the new queue only for a struct env_create lost.        *)
(***************************************************************************)
QueuesOK(s) ==
  /\ NoDuplicates(s.ready) /\ NoDuplicates(s.new) /\ NoDuplicates(s.exit)
  /\ \A e \in Env : /\ Contains(s.ready, e) <=> s.st[e] = "READY"
                    /\ Contains(s.exit, e) <=> s.st[e] = "EXIT"
                    /\ Contains(s.new, e) => s.st[e] = "NEW"
                    /\ e \in s.free => s.st[e] \in {"FREE", "UNKNOWN"}

\* The queues agree with env_status at every step (sched.c, user_environment.c).
QueuesMatchStatus == QueuesOK(sch)

(***************************************************************************)
(* sched_next points into the ready queue, and is NULL only when nothing   *)
(* is ready: a dangling sched_next would run an exited environment, a NULL *)
(* one with ready environments would drop to the prompt and strand them.   *)
(***************************************************************************)
NextOK(s) == IF s.ready = <<>> THEN s.next = NULL ELSE Contains(s.ready, s.next)

\* sched_next is maintained by every insertion into and removal from the queue.
SchedNextInReadyQueue == NextOK(sch)

(***************************************************************************)
(* What trap() asserts before it returns to user mode (trap.c:294): curenv *)
(* is ready; and scheduler_status tells whether an environment runs, which *)
(* sched_run_env relies on to start the scheduler from the prompt.         *)
(***************************************************************************)
RunningIsReady ==
  /\ sch.cur # NULL => sch.st[sch.cur] = "READY"
  /\ sch.started <=> sch.cur # NULL

(***************************************************************************)
(* Whatever arrives, exits, is killed, blocks or wakes up, the scheduler   *)
(* is whole: every environment is in the queue its status names and in no  *)
(* other, sched_next is in the ready queue or NULL when that is empty, and *)
(* trap() returns to a ready environment.                                  *)
(***************************************************************************)
SchedulerSound == QueuesMatchStatus /\ SchedNextInReadyQueue /\ RunningIsReady

(***************************************************************************)
(* The prompt is reached only when no environment is ready to run.         *)
(***************************************************************************)
PromptOnlyWhenIdle == sch.cur = NULL => sch.ready = <<>>

\* How many environments the scheduler will pick before e.
TurnsAhead(s, e) ==
  (Position(s.ready, e) - Position(s.ready, s.next)) % Len(s.ready)

(***************************************************************************)
(* Round robin: while e is ready and not chosen, no step (an arrival, a    *)
(* wake-up, an exit, a kill) lets another environment overtake it, and     *)
(* each context switch brings e closer to the processor.                   *)
(***************************************************************************)
NotOvertaken(e) ==
  Contains(sch.ready, e) /\ Contains(sch'.ready, e) /\ sch'.cur # e =>
    /\ TurnsAhead(sch', e) <= TurnsAhead(sch, e)
    /\ sch'.cur # sch.cur => TurnsAhead(sch', e) < TurnsAhead(sch, e)

RoundRobin == [][\A e \in Env : NotOvertaken(e)]_sch

(***************************************************************************)
(* No ready environment starves: it runs, or leaves the ready queue.       *)
(***************************************************************************)
NoStarvation ==
  \A e \in Env : sch.st[e] = "READY" ~> (sch.cur = e \/ sch.st[e] # "READY")
=============================================================================
