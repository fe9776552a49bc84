-------------------------------- MODULE Rtos --------------------------------
(***************************************************************************)
(* Src/semaphore.c on top of the kernel: counting semaphores and mutexes   *)
(* used by preemptible tasks and by an interrupt handler.                  *)
(*                                                                         *)
(* A mutex m is named like the semaphore m->sem it contains.  A task       *)
(* inside osMutexAcquire() or osMutexRelease() runs osSemaphoreWait() and  *)
(* osSemaphoreSignal() as their code does, then goes on at "set_owner",    *)
(* respectively comes from "release_signal".                               *)
(***************************************************************************)
EXTENDS Kernel, SequencesExt

CONSTANTS
  Sems,          \* all struct Semaphore objects
  NoSem,         \* a value that is none of them
  Mutexes,       \* those inside a struct Mutex
  InitialCount,  \* argument of osSemaphoreInit(); 1 for a mutex
  MaxCount,      \* bound on the count of a plain semaphore
  Uses,          \* the calls <<operation, object>> in each task's code
  IsrSems,       \* the semaphores the interrupt handler signals
  Disciplined    \* tasks that acquire only mutexes they do not own and
                 \* release only mutexes they own

OpNames == {"wait", "signal", "acquire", "release"}

ASSUME RtosAssumption ==
  /\ NoSem \notin Sems
  /\ Mutexes \subseteq Sems
  /\ InitialCount \in [Sems -> Nat]
  /\ \A m \in Mutexes : InitialCount[m] = 1
  /\ Uses \in [Tasks -> SUBSET (OpNames \X Sems)]
  /\ IsrSems \subseteq Sems \ Mutexes
  /\ IsrSems # {} => IsrSignals
  /\ Disciplined \subseteq Tasks
  /\ \A t \in Tasks, s \in Sems :
       /\ <<"wait", s>> \in Uses[t] => s \notin Mutexes /\ "block" \in Calls[t]
       /\ <<"signal", s>> \in Uses[t] => s \notin Mutexes /\ "signal" \in Calls[t]
       /\ <<"acquire", s>> \in Uses[t] => s \in Mutexes /\ "block" \in Calls[t]
       /\ <<"release", s>> \in Uses[t] => s \in Mutexes /\ "signal" \in Calls[t]

NoTask == -1      \* owner = NULL

VARIABLES
  count,      \* [Sems -> Nat]
  waiting,    \* waiting[0 .. wait_count-1] of each semaphore, oldest first
  owner,      \* [Mutexes -> Tasks \cup {NoTask}]
  obj         \* the object of the call a task is in

\* The kernel sees a call of semaphore.c as Block or Ready inside "app".
KernelPc ==
  [t \in Tasks |->
     CASE pc[t] = "wait_yield" -> "block_yield"
       [] pc[t] \in {"wait_return", "set_owner", "release_signal", "trap"} -> "app"
       [] OTHER -> pc[t]]

K == INSTANCE Kernel WITH pc <- KernelPc

semVars == <<count, waiting, owner, obj>>
vars == <<kernelVars, semVars>>

\* osSemaphoreInit() and osMutexInit() run in main() before the tasks.
Init ==
  /\ KernelInit
  /\ count = InitialCount
  /\ waiting = [s \in Sems |-> <<>>]
  /\ owner = [m \in Mutexes |-> NoTask]
  /\ obj = [t \in Tasks |-> NoSem]
-----------------------------------------------------------------------------
(* osSemaphoreWait()                                                       *)

\* Where the caller of osSemaphoreWait(s) goes on.
AfterWait(s) == IF s \in Mutexes THEN "set_owner" ELSE "wait_return"

WaitOps(s) == IF s \in Mutexes THEN <<"acquire", s>> ELSE <<"wait", s>>

\* The task's code calls osSemaphoreWait(s) or osMutexAcquire(s) here.
CallsWait(t, s) ==
  /\ At(t, "app")
  /\ WaitOps(s) \in Uses[t]
  /\ t \in Disciplined /\ s \in Mutexes => owner[s] # t

\* Mutants of WaitFast: count >= 0 tested; count not decremented.
WaitFastAtZero(t, s) ==
  /\ CallsWait(t, s)
  /\ count[s] >= 0
  /\ count' = [count EXCEPT ![s] = @ - 1]
  /\ obj' = [obj EXCEPT ![t] = s]
  /\ Goto(t, AfterWait(s))
  /\ UNCHANGED <<state, wake_tick, remaining, bootVars, cpuVars, waiting, owner>>

WaitFastKeepsCount(t, s) ==
  /\ CallsWait(t, s)
  /\ count[s] > 0
  /\ obj' = [obj EXCEPT ![t] = s]
  /\ Goto(t, AfterWait(s))
  /\ UNCHANGED <<state, wake_tick, remaining, bootVars, cpuVars, count, waiting, owner>>

WaitFast(t, s) ==
  /\ CallsWait(t, s)
  /\ count[s] > 0
  /\ count' = [count EXCEPT ![s] = @ - 1]
  /\ obj' = [obj EXCEPT ![t] = s]
  /\ Goto(t, AfterWait(s))
  /\ UNCHANGED <<state, wake_tick, remaining, bootVars, cpuVars, waiting, owner>>

WaitBlock(t, s) ==
  /\ CallsWait(t, s)
  /\ count[s] <= 0
  /\ waiting' = [waiting EXCEPT ![s] = Append(@, current)]
  /\ state' = [state EXCEPT ![current] = "BLOCKED"]
  /\ obj' = [obj EXCEPT ![t] = s]
  /\ Goto(t, "wait_yield")
  /\ UNCHANGED <<wake_tick, remaining, bootVars, cpuVars, count, owner>>

WaitYield(t) ==
  /\ YieldFrom(t, "wait_yield", AfterWait(obj[t]))
  /\ UNCHANGED semVars

\* The closing brace of osSemaphoreWait() on a plain semaphore.
WaitReturn(t) ==
  /\ At(t, "wait_return")
  /\ Goto(t, "app")
  /\ obj' = [obj EXCEPT ![t] = NoSem]
  /\ UNCHANGED <<state, wake_tick, remaining, bootVars, cpuVars, count, waiting, owner>>
-----------------------------------------------------------------------------
(* osSemaphoreSignal()                                                     *)

\* Mutants of HandOff: the head stays in the queue; the count goes up as
\* well; the waiter is not made READY; the newest waiter is served.
HandOffKeepsHead(s) ==
  /\ waiting[s] # <<>>
  /\ state' = [state EXCEPT ![Head(waiting[s])] = "READY"]
  /\ UNCHANGED <<waiting, count>>

HandOffAndCount(s) ==
  /\ waiting[s] # <<>>
  /\ waiting' = [waiting EXCEPT ![s] = Tail(@)]
  /\ state' = [state EXCEPT ![Head(waiting[s])] = "READY"]
  /\ count' = [count EXCEPT ![s] = @ + 1]

HandOffWithoutWake(s) ==
  /\ waiting[s] # <<>>
  /\ waiting' = [waiting EXCEPT ![s] = Tail(@)]
  /\ UNCHANGED <<state, count>>

HandOffNewest(s) ==
  /\ waiting[s] # <<>>
  /\ waiting' = [waiting EXCEPT ![s] = Front(@)]
  /\ state' = [state EXCEPT ![Last(waiting[s])] = "READY"]
  /\ UNCHANGED count

HandOff(s) ==
  /\ waiting[s] # <<>>
  /\ waiting' = [waiting EXCEPT ![s] = Tail(@)]
  /\ state' = [state EXCEPT ![Head(waiting[s])] = "READY"]
  /\ UNCHANGED count

\* Mutant of Post: wait_count is not looked at.
PostPastWaiters(s) ==
  /\ s \notin Mutexes => count[s] < MaxCount
  /\ count' = [count EXCEPT ![s] = @ + 1]
  /\ UNCHANGED <<waiting, state>>

Post(s) ==
  /\ waiting[s] = <<>>
  /\ s \notin Mutexes => count[s] < MaxCount
  /\ count' = [count EXCEPT ![s] = @ + 1]
  /\ UNCHANGED <<waiting, state>>

\* From a task: osSemaphoreSignal() itself, or the end of osMutexRelease().
CallsSignal(t, s) ==
  \/ At(t, "app") /\ <<"signal", s>> \in Uses[t]
  \/ At(t, "release_signal") /\ obj[t] = s

\* Mutant of Signal: no trigger_pendsv().
SignalNoYield(t, s) ==
  /\ CallsSignal(t, s)
  /\ HandOff(s) \/ Post(s)
  /\ Goto(t, "app")
  /\ obj' = [obj EXCEPT ![t] = NoSem]
  /\ UNCHANGED <<wake_tick, remaining, bootVars, cpuVars, owner>>

Signal(t, s) ==
  /\ CallsSignal(t, s)
  /\ \/ HandOff(s) /\ Goto(t, "signal_yield")
     \/ Post(s) /\ Goto(t, "app")
  /\ obj' = [obj EXCEPT ![t] = NoSem]
  /\ UNCHANGED <<wake_tick, remaining, bootVars, cpuVars, owner>>

\* Mutant of IsrSignal: no trigger_pendsv().
IsrSignalNoYield(s) ==
  /\ s \in IsrSems
  /\ HandOff(s) \/ Post(s)
  /\ UNCHANGED <<wake_tick, remaining, pc, bootVars, cpuVars, owner, obj>>

\* From an interrupt handler, trigger_pendsv() included.
IsrSignal(s) ==
  /\ s \in IsrSems
  /\ \/ HandOff(s) /\ pendsv' = TRUE
     \/ Post(s) /\ UNCHANGED pendsv
  /\ UNCHANGED <<wake_tick, remaining, pc, bootVars, sys_tick, in_pendsv, owner, obj>>
-----------------------------------------------------------------------------
(* The rest of osMutexAcquire() and osMutexRelease()                       *)

SetOwner(t) ==
  /\ At(t, "set_owner")
  /\ owner' = [owner EXCEPT ![obj[t]] = current]
  /\ Goto(t, "app")
  /\ obj' = [obj EXCEPT ![t] = NoSem]
  /\ UNCHANGED <<state, wake_tick, remaining, bootVars, cpuVars, count, waiting>>

CallsRelease(t, m) ==
  /\ At(t, "app")
  /\ <<"release", m>> \in Uses[t]
  /\ t \in Disciplined => owner[m] = t

\* A non-owner spins for ever, interrupts enabled, at "trap".
ReleaseTrap(t, m) ==
  /\ CallsRelease(t, m)
  /\ owner[m] # current
  /\ Goto(t, "trap")
  /\ UNCHANGED <<state, wake_tick, remaining, bootVars, cpuVars, semVars>>

\* Mutants of MutexRelease: no test of the owner; owner not cleared.
MutexReleaseByAnyone(t, m) ==
  /\ CallsRelease(t, m)
  /\ owner' = [owner EXCEPT ![m] = NoTask]
  /\ obj' = [obj EXCEPT ![t] = m]
  /\ Goto(t, "release_signal")
  /\ UNCHANGED <<state, wake_tick, remaining, bootVars, cpuVars, count, waiting>>

MutexReleaseKeepsOwner(t, m) ==
  /\ CallsRelease(t, m)
  /\ owner[m] = current
  /\ obj' = [obj EXCEPT ![t] = m]
  /\ Goto(t, "release_signal")
  /\ UNCHANGED <<state, wake_tick, remaining, bootVars, cpuVars, count, waiting, owner>>

MutexRelease(t, m) ==
  /\ CallsRelease(t, m)
  /\ owner[m] = current
  /\ owner' = [owner EXCEPT ![m] = NoTask]
  /\ obj' = [obj EXCEPT ![t] = m]
  /\ Goto(t, "release_signal")
  /\ UNCHANGED <<state, wake_tick, remaining, bootVars, cpuVars, count, waiting>>
-----------------------------------------------------------------------------
KernelStep ==
  /\ \/ Main
     \/ Handlers
     \/ \E t \in Tasks : Yield(t) \/ \E ticks \in Delays : OsDelay(t, ticks)
  /\ UNCHANGED semVars

SemStep(t) ==
  \/ WaitYield(t)
  \/ WaitReturn(t)
  \/ SetOwner(t)
  \/ \E s \in Sems : WaitFast(t, s) \/ WaitBlock(t, s) \/ Signal(t, s)
  \/ \E m \in Mutexes : ReleaseTrap(t, m) \/ MutexRelease(t, m)

Next ==
  \/ KernelStep
  \/ \E t \in Tasks : SemStep(t)
  \/ \E s \in IsrSems : IsrSignal(s)

Spec == Init /\ [][Next]_vars

\* t goes on inside a call of rtos.c or semaphore.c.
InCall(t) ==
  \/ Yield(t) /\ UNCHANGED semVars
  \/ WaitYield(t)
  \/ WaitReturn(t)
  \/ SetOwner(t)
  \/ At(t, "release_signal") /\ \E m \in Mutexes : Signal(t, m)

\* t is dispatched, and no tick in the entry window takes the CPU away
\* before its first instruction.
DispatchForGood(t) == KernelStep /\ PendSVSwitch /\ ~pendsv /\ current' = t

(* The kernel's fairness, per task.  A task inside a call goes on whenever *)
(* it has the CPU; none is dispatched for ever only to lose the CPU in the *)
(* entry window of PendSV; a disciplined owner releases in the end.        *)
Fairness ==
  /\ WF_vars(Main /\ UNCHANGED semVars)
  /\ WF_vars(SysTick /\ UNCHANGED semVars)
  /\ WF_vars(PendSVEnter /\ UNCHANGED semVars)
  /\ WF_vars(PendSVSwitch /\ UNCHANGED semVars)
  /\ \A t \in Tasks \ IdleTasks : SF_vars(InCall(t)) /\ SF_vars(DispatchForGood(t))
  /\ \A t \in Disciplined \ IdleTasks : SF_vars(\E m \in Mutexes : MutexRelease(t, m))

FairSpec == Spec /\ Fairness
-----------------------------------------------------------------------------
RtosTypeOK ==
  /\ K!TypeOK
  /\ pc \in [Tasks -> {"app", "delay_yield", "signal_yield", "wait_yield",
                       "wait_return", "set_owner", "release_signal", "trap"}]
  /\ count \in [Sems -> Nat]
  /\ waiting \in [Sems -> Seq(Tasks)]
  /\ owner \in [Mutexes -> Tasks \cup {NoTask}]
  /\ obj \in [Tasks -> Sems \cup {NoSem}]

(***************************************************************************)
(* The wait queues and the task states tell the same story: a task is      *)
(* BLOCKED exactly while it is in a queue, it is there once, and the queue *)
(* is that of the call it is in.                                           *)
(***************************************************************************)
BlockedIffQueued ==
  \A t \in Tasks :
    /\ state[t] = "BLOCKED" <=> \E s \in Sems : t \in ToSet(waiting[s])
    /\ \A s \in Sems :
         /\ t \in ToSet(waiting[s]) =>
              obj[t] = s /\ pc[t] \in {"wait_yield", AfterWait(s)}
         /\ \A i, j \in DOMAIN waiting[s] :
              waiting[s][i] = t /\ waiting[s][j] = t => i = j

(***************************************************************************)
(* No lost wake-up (semaphore.c, osSemaphoreSignal): no task waits while a *)
(* permit is there to be taken.                                            *)
(***************************************************************************)
NoLostWakeup == \A s \in Sems : count[s] > 0 => waiting[s] = <<>>

(***************************************************************************)
(* osSemaphoreWait() never writes behind waiting[MAX_TASKS - 1]: with an   *)
(* idle task even a full pool leaves a slot free.                          *)
(***************************************************************************)
QueueFits == \A s \in Sems : Len(waiting[s]) < NTasks

\* t has the mutex, from the moment the semaphore gives it its permit to
\* the moment it gives the permit back.
Holding(t, m) ==
  \/ owner[m] = t
  \/ obj[t] = m /\ pc[t] = "release_signal"
  \/ /\ obj[t] = m
     /\ pc[t] \in {"wait_yield", "set_owner"}
     /\ t \notin ToSet(waiting[m])

(***************************************************************************)
(* Mutual exclusion, and no lost mutex: the permit of m->sem is either in  *)
(* count or with exactly one task, through hand-offs, through the windows  *)
(* in which owner lags behind, and whatever undisciplined callers do.      *)
(***************************************************************************)
OnePermitPerMutex ==
  \A m \in Mutexes : count[m] + Cardinality({t \in Tasks : Holding(t, m)}) = 1

(***************************************************************************)
(* semaphore.h: "Only the task that called osMutexAcquire() may call       *)
(* osMutexRelease()".  A recorded owner loses the mutex only by a step of  *)
(* its own code, while it has the CPU.                                     *)
(***************************************************************************)
OnlyOwnerReleases ==
  [][\A m \in Mutexes :
       owner[m] # NoTask /\ owner'[m] # owner[m] =>
         owner'[m] = NoTask /\ At(owner[m], "app")]_vars

\* Inside osSemaphoreWait(s) or the part of osMutexAcquire() up to SetOwner.
Asking(t, s) == obj[t] = s /\ pc[t] \in {"wait_yield", "wait_return", "set_owner"}

L == INSTANCE AbstractLock WITH
  Locks <- Mutexes,
  Free <- NoTask,
  holder <- owner,
  wanting <- [m \in Mutexes |-> {t \in Tasks : Asking(t, m)}]

(***************************************************************************)
(* The mutexes implement the abstract lock: SetOwner never overwrites an   *)
(* owner, although the code does not look.                                 *)
(***************************************************************************)
ImplementsLock == L!Spec

Plain == Sems \ Mutexes
Granted(t, s) == Asking(t, s) /\ t \notin ToSet(waiting[s])

S == INSTANCE AbstractSemaphore WITH
  Objects <- Plain,
  InitialPermits <- [s \in Plain |-> InitialCount[s]],
  permits <- [s \in Plain |-> count[s] + Cardinality({t \in Tasks : Granted(t, s)})],
  asking <- [s \in Plain |-> {t \in Tasks : Asking(t, s)}]

(***************************************************************************)
(* The plain semaphores implement the textbook one: a Wait returns only on *)
(* a permit of its own, never on one that another task was handed.         *)
(***************************************************************************)
ImplementsSemaphore == S!Spec

\* t waits for s; u is not ahead of it, and has no permit either.
WaitsAhead(t, u, s) ==
  /\ t \in ToSet(waiting[s])
  /\ u \in ToSet(waiting[s]) =>
       \E i, j \in DOMAIN waiting[s] : i < j /\ waiting[s][i] = t /\ waiting[s][j] = u
  /\ ~Granted(u, s)

(***************************************************************************)
(* First come, first served (semaphore.c: "Dequeue the longest-waiting     *)
(* task (FIFO)").  Until t is served, a task that is not ahead of it stays *)
(* behind it: it neither overtakes t in the queue nor takes a permit past  *)
(* the queue.                                                              *)
(***************************************************************************)
FirstComeFirstServed ==
  [][\A s \in Sems, t, u \in Tasks :
       WaitsAhead(t, u, s) /\ t \in ToSet(waiting'[s]) => WaitsAhead(t, u, s)']_vars

(***************************************************************************)
(* What the trap of osMutexRelease() costs ("Spin with interrupts          *)
(* re-enabled"): the task in it keeps its priority, and while it spins     *)
(* none of a lower one executes its own code.                              *)
(***************************************************************************)
TrapStopsLower ==
  \A t, u \in Tasks : pc[t] = "trap" /\ At(u, "app") => Priority[t] <= Priority[u]

(***************************************************************************)
(* The kernel's guarantees survive its clients: seen through the mapping   *)
(* KernelPc, every step of the system is a step of Kernel or a stutter.    *)
(***************************************************************************)
ImplementsKernel == K!KernelSpec

(***************************************************************************)
(* osMutexAcquire() returns: when disciplined owners release in the end, a *)
(* task waiting for a mutex becomes its owner, provided that tasks of      *)
(* higher levels are not dispatched for ever.                              *)
(***************************************************************************)
AcquireReturns ==
  \A m \in Mutexes : \A t \in {u \in Tasks : <<"acquire", m>> \in Uses[u]} :
    <>[](Priority[current] <= Priority[t])
      => ((pc[t] = "wait_yield" /\ obj[t] = m) ~> owner[m] = t)
=============================================================================
