------------------------------- MODULE Kernel -------------------------------
(***************************************************************************)
(* The preemptive kernel: main() up to osStart(), SysTick_Handler and      *)
(* osDelay() (Src/rtos.c), PendSV_Handler (Src/context_switch.s) around    *)
(* os_schedule(), and the two things osSemaphoreWait() and                 *)
(* osSemaphoreSignal() (Src/semaphore.c) do to task states: Block and      *)
(* Ready, which Rtos.tla ties to wait queues.                              *)
(*                                                                         *)
(* Grain of atomicity.  Code between CPSID I and CPSIE I is one action.    *)
(* SysTick_Handler is one action: an interrupt that preempts it can only   *)
(* turn BLOCKED into READY, which the wake-up loop neither reads nor       *)
(* writes, and pend PendSV, which the handler does anyway.  The unmasked   *)
(* windows are states of their own: between the                            *)
(* CPSIE I of a blocking call and its trigger_pendsv() (the *_yield values *)
(* of pc), and between the entry of PendSV and its CPSID I (in_pendsv).    *)
(***************************************************************************)
EXTENDS TaskPool

CONSTANTS
  Calls,       \* what each task's code does: a subset of CallNames per task
  Delays,      \* arguments the tasks pass to osDelay()
  HalfRange,   \* 2^31 in the code; TickModulus is 2^32
  IsrSignals   \* whether an interrupt handler calls osSemaphoreSignal()

CallNames == {"delay", "block", "signal"}
TickModulus == 2 * HalfRange
Ticks == 0 .. TickModulus - 1

ASSUME KernelAssumption ==
  /\ HalfRange \in Nat \ {0}
  /\ Delays \subseteq Ticks
  /\ Calls \in [Tasks -> SUBSET CallNames]
  /\ IsrSignals \in BOOLEAN

\* main.c, task_idle: "must always remain READY".
IdleTasks == {t \in Tasks : Calls[t] \cap {"delay", "block"} = {}}

VARIABLES
  state,         \* task_pool[].state
  wake_tick,     \* task_pool[].wake_tick
  remaining,     \* history: ticks still owed to the task's last osDelay()
  pc,            \* where the task is in a kernel call; "app" outside one
  current,       \* current_task_index; current_task points at the same slot
  task_count,
  main_pc,       \* "create" until osStart(), then the spin of _rtos_start
  rtos_started,
  sys_tick,
  pendsv,        \* SCB->ICSR.PENDSVSET
  in_pendsv      \* PendSV_Handler entered, CPSID I not yet executed

taskVars == <<state, wake_tick, remaining, pc>>
bootVars == <<current, task_count, main_pc, rtos_started>>
cpuVars  == <<sys_tick, pendsv, in_pendsv>>
kernelVars == <<taskVars, bootVars, cpuVars>>

KernelInit ==
  /\ state = [t \in Tasks |-> "READY"]       \* .bss: TASK_READY is 0
  /\ wake_tick = [t \in Tasks |-> 0]
  /\ remaining = [t \in Tasks |-> 0]
  /\ pc = [t \in Tasks |-> "app"]
  /\ current = 0
  /\ task_count = 0
  /\ main_pc = "create"
  /\ rtos_started = FALSE
  /\ sys_tick = 0
  /\ pendsv = FALSE
  /\ in_pendsv = FALSE

\* Thread code of t runs: no handler is active and PendSV, which would be
\* taken at once, is not pending.
Executing(t) == rtos_started /\ t = current /\ ~pendsv /\ ~in_pendsv

KernelLabels == {"app", "delay_yield", "block_yield", "signal_yield"}

At(t, label) == Executing(t) /\ pc[t] = label
Goto(t, label) == pc' = [pc EXCEPT ![t] = label]
-----------------------------------------------------------------------------
(* main()                                                                  *)

TaskCreate ==
  /\ main_pc = "create"
  /\ task_count < NTasks
  /\ state' = [state EXCEPT ![task_count] = "READY"]
  /\ wake_tick' = [wake_tick EXCEPT ![task_count] = 0]
  /\ current' = IF task_count = 0 THEN 0 ELSE current
  /\ task_count' = task_count + 1
  /\ UNCHANGED <<remaining, pc, main_pc, rtos_started, cpuVars>>

\* Mutant of OsStart: current_task_index = task_count.
OsStartPastLast ==
  /\ main_pc = "create"
  /\ task_count = NTasks
  /\ main_pc' = "spin"
  /\ current' = task_count
  /\ pendsv' = TRUE
  /\ UNCHANGED <<taskVars, task_count, rtos_started, sys_tick, in_pendsv>>

\* osStart() and _rtos_start: the last task is outgoing, PendSV is pended.
OsStart ==
  /\ main_pc = "create"
  /\ task_count = NTasks
  /\ main_pc' = "spin"
  /\ current' = task_count - 1
  /\ pendsv' = TRUE
  /\ UNCHANGED <<taskVars, task_count, rtos_started, sys_tick, in_pendsv>>
-----------------------------------------------------------------------------
(* Exception handlers                                                      *)

\* Mutant of Reached: an unsigned comparison that forgets the wrap.
ReachedUnsigned(now, wake) == now >= wake

\* (int32_t)(now - wake) >= 0
Reached(now, wake) == (now - wake) % TickModulus < HalfRange

\* Mutant of Expired: the loop leaves out the last task.
ExpiredButLast(now) ==
  {t \in 0 .. task_count - 2 : state[t] = "SLEEPING" /\ Reached(now, wake_tick[t])}

\* The tasks the wake-up loop makes READY at tick now.
Expired(now) ==
  {t \in 0 .. task_count - 1 : state[t] = "SLEEPING" /\ Reached(now, wake_tick[t])}

SysTick ==
  /\ sys_tick' = (sys_tick + 1) % TickModulus
  /\ state' = [t \in Tasks |-> IF t \in Expired(sys_tick') THEN "READY" ELSE state[t]]
  /\ remaining' = [t \in Tasks |-> IF remaining[t] > 0 THEN remaining[t] - 1 ELSE 0]
  /\ pendsv' = (pendsv \/ rtos_started)
  /\ UNCHANGED <<wake_tick, pc, bootVars, in_pendsv>>

\* Taking the exception clears PENDSVSET.
PendSVEnter ==
  /\ pendsv
  /\ ~in_pendsv
  /\ pendsv' = FALSE
  /\ in_pendsv' = TRUE
  /\ UNCHANGED <<taskVars, bootVars, sys_tick>>

\* CPSID I .. CPSIE I of PendSV_Handler.  The first one only lacks the save
\* of the outgoing registers.
PendSVSwitch ==
  /\ in_pendsv
  /\ LET next == AfterSchedule(state, current, task_count)
     IN state' = next.state /\ current' = next.current
  /\ rtos_started' = TRUE
  /\ in_pendsv' = FALSE
  /\ UNCHANGED <<wake_tick, remaining, pc, task_count, main_pc, sys_tick, pendsv>>
-----------------------------------------------------------------------------
(* Calls of the running task                                               *)

OsDelay(t, ticks) ==
  /\ At(t, "app")
  /\ "delay" \in Calls[t]
  /\ ticks # 0
  /\ wake_tick' = [wake_tick EXCEPT ![t] = (sys_tick + ticks) % TickModulus]
  /\ remaining' = [remaining EXCEPT ![t] = ticks]
  /\ state' = [state EXCEPT ![t] = "SLEEPING"]
  /\ Goto(t, "delay_yield")
  /\ UNCHANGED <<bootVars, cpuVars>>

\* trigger_pendsv() after a critical section; the call returns behind it.
YieldFrom(t, from, to) ==
  /\ At(t, from)
  /\ pendsv' = TRUE
  /\ Goto(t, to)
  /\ UNCHANGED <<state, wake_tick, remaining, bootVars, sys_tick, in_pendsv>>

Yield(t) ==
  \E from \in {"delay_yield", "block_yield", "signal_yield"} :
    YieldFrom(t, from, "app")

\* The critical section of osSemaphoreWait() with count = 0.
Block(t) ==
  /\ At(t, "app")
  /\ "block" \in Calls[t]
  /\ state' = [state EXCEPT ![t] = "BLOCKED"]
  /\ Goto(t, "block_yield")
  /\ UNCHANGED <<wake_tick, remaining, bootVars, cpuVars>>

\* The critical section of osSemaphoreSignal() with a waiter u.
ReadyByTask(t, u) ==
  /\ At(t, "app")
  /\ "signal" \in Calls[t]
  /\ state[u] = "BLOCKED"
  /\ state' = [state EXCEPT ![u] = "READY"]
  /\ Goto(t, "signal_yield")
  /\ UNCHANGED <<wake_tick, remaining, bootVars, cpuVars>>

\* Mutant of ReadyByIsr: no trigger_pendsv().
ReadyByIsrNoYield(u) ==
  /\ IsrSignals
  /\ state[u] = "BLOCKED"
  /\ state' = [state EXCEPT ![u] = "READY"]
  /\ UNCHANGED <<wake_tick, remaining, pc, bootVars, cpuVars>>

\* The same from an interrupt handler, trigger_pendsv() included: the
\* handler outranks both thread code and PendSV.
ReadyByIsr(u) ==
  /\ IsrSignals
  /\ state[u] = "BLOCKED"
  /\ state' = [state EXCEPT ![u] = "READY"]
  /\ pendsv' = TRUE
  /\ UNCHANGED <<wake_tick, remaining, pc, bootVars, sys_tick, in_pendsv>>
-----------------------------------------------------------------------------
Main == TaskCreate \/ OsStart

Handlers == SysTick \/ PendSVEnter \/ PendSVSwitch

TaskStep(t) ==
  \/ \E ticks \in Delays : OsDelay(t, ticks)
  \/ Yield(t)
  \/ Block(t)
  \/ \E u \in Tasks : ReadyByTask(t, u)

KernelNext ==
  \/ Main
  \/ Handlers
  \/ \E t \in Tasks : TaskStep(t)
  \/ \E u \in Tasks : ReadyByIsr(u)

KernelSpec == KernelInit /\ [][KernelNext]_kernelVars

(* The hardware keeps ticking and takes pending exceptions.  The tick does *)
(* not hit the entry window of PendSV every time: it comes every 48000     *)
(* cycles, so a PendSV that was pended again is followed by one that is    *)
(* not.  main() and a task inside a kernel call run on whenever the CPU is *)
(* theirs (SF, since a tick may take it away again).  What a task does in  *)
(* "app" is up to it.                                                      *)
KernelFairness ==
  /\ WF_kernelVars(Main)
  /\ WF_kernelVars(SysTick)
  /\ WF_kernelVars(PendSVEnter)
  /\ WF_kernelVars(PendSVSwitch)
  /\ SF_kernelVars(PendSVSwitch /\ ~pendsv)
  /\ \A t \in Tasks : SF_kernelVars(Yield(t))

FairKernelSpec == KernelSpec /\ KernelFairness
-----------------------------------------------------------------------------
TypeOK ==
  /\ state \in [Tasks -> TaskState]
  /\ wake_tick \in [Tasks -> Ticks]
  /\ remaining \in [Tasks -> Ticks]
  /\ pc \in [Tasks -> KernelLabels]
  /\ current \in Tasks
  /\ task_count \in 0 .. NTasks
  /\ main_pc \in {"create", "spin"}
  /\ rtos_started \in BOOLEAN
  /\ sys_tick \in Ticks
  /\ pendsv \in BOOLEAN
  /\ in_pendsv \in BOOLEAN

(***************************************************************************)
(* The states the tasks are in agree with the CPU (scheduler.h,            *)
(* TASK_RUNNING "Currently executing on the CPU"): only the outgoing task  *)
(* of the next switch can be RUNNING, and code outside a blocking call     *)
(* never runs on behalf of a SLEEPING or BLOCKED task, so osDelay() and    *)
(* osSemaphoreWait() return only to a task that was woken.                 *)
(***************************************************************************)
RunningMatchesCPU ==
  \A t \in Tasks :
    /\ state[t] = "RUNNING" => t = current
    /\ At(t, "app") => state[t] = "RUNNING"

(***************************************************************************)
(* scheduler.c, fallback of os_schedule(): a SLEEPING or BLOCKED task is   *)
(* left alone to "wait for the next SysTick or semaphore signal"; it does  *)
(* not return from the call that put it to sleep.                          *)
(***************************************************************************)
WaitsForWakeUp ==
  \A t \in Tasks : At(t, "app") => state[t] \notin {"SLEEPING", "BLOCKED"}

(***************************************************************************)
(* Strict priority (scheduler.c, policy 1 and 3): while a task executes,   *)
(* no task of higher priority is READY, except in the window of            *)
(* osSemaphoreSignal() between its CPSIE I and its trigger_pendsv().       *)
(***************************************************************************)
HighestPriorityRuns ==
  \A t, u \in Tasks :
    Executing(t) /\ pc[t] # "signal_yield" /\ state[u] = "READY"
      => Priority[u] <= Priority[t]

(***************************************************************************)
(* osDelay(n) sleeps through exactly n ticks, across the wrap of sys_tick: *)
(* a task is SLEEPING while, and only while, ticks are owed to it.  Holds  *)
(* for delays up to 2^31 + 1.                                              *)
(***************************************************************************)
DelayExact ==
  \A t \in Tasks : state[t] = "SLEEPING" <=> remaining[t] > 0

(***************************************************************************)
(* rtos.h on osDelay: "at least `ticks` SysTick periods".  A wake-up       *)
(* happens only when no tick is owed any more.                             *)
(***************************************************************************)
NeverWakesEarly ==
  [][\A t \in Tasks :
       state[t] = "SLEEPING" /\ state'[t] = "READY" => remaining'[t] = 0]_kernelVars

\* How many slots pass 2 of os_schedule() visits before t.
Ahead(cur, t) == (t - cur - 1) % NTasks

(***************************************************************************)
(* Round robin inside a level: a READY task that is passed over in favour  *)
(* of a task of its own priority is strictly closer to being chosen.       *)
(***************************************************************************)
RoundRobinProgress ==
  [][\A t \in Tasks :
       in_pendsv /\ ~in_pendsv' /\ state'[t] = "READY" /\ Priority[t] = Priority[current']
         => Ahead(current', t) < Ahead(current, t)]_kernelVars

\* The READY or RUNNING tasks compete for the CPU.
Runnable(t) == state[t] \in {"READY", "RUNNING"}

(***************************************************************************)
(* osDelay() returns (rtos.c, osDelay step 7) to the task whose priority   *)
(* exceeds that of all others, whatever the others do.                     *)
(***************************************************************************)
DelayReturnsToTop ==
  \A t \in Tasks :
    (\A u \in Tasks \ {t} : Priority[u] < Priority[t])
      => (pc[t] = "delay_yield" ~> At(t, "app"))

(***************************************************************************)
(* scheduler.c: "Tasks at the same priority level share time slices        *)
(* equally".  Of two tasks of one priority that are both runnable from     *)
(* some point on, one is not dispatched for ever without the other.        *)
(***************************************************************************)
FairShare ==
  \A t, u \in Tasks :
    (/\ Priority[t] = Priority[u]
     /\ <>[](Runnable(t) /\ Runnable(u))
     /\ []<>(state[u] = "RUNNING"))
      => []<>(state[t] = "RUNNING")

(***************************************************************************)
(* What the code has of FairShare: once only tasks of the level are        *)
(* dispatched, of two that stay runnable neither starves the other.        *)
(***************************************************************************)
FairWithinLevel ==
  \A t, u \in Tasks :
    (/\ Priority[t] = Priority[u]
     /\ <>[](Runnable(t) /\ Runnable(u) /\ Priority[current] = Priority[t])
     /\ []<>(state[u] = "RUNNING"))
      => []<>(state[t] = "RUNNING")
=============================================================================
