---------------------------- MODULE KernelProofs ----------------------------
(***************************************************************************)
(* The kernel's safety properties for every task table, tick width and     *)
(* application.  BaseInv needs nothing of the application.  KernelInv adds *)
(* what holds because some task never blocks (main.c, task_idle) and no    *)
(* delay exceeds HalfRange + 1.                                            *)
(***************************************************************************)
EXTENDS Kernel, TaskPoolProofs

\* main.c: one task "must always remain READY".
HasIdleTask == IdleTasks # {}

\* 2^31 + 1 ticks, the longest delay the signed comparison can represent.
ShortDelays == Delays \subseteq 0 .. HalfRange + 1

BootInv ==
  /\ main_pc = "create" => ~rtos_started /\ ~pendsv /\ ~in_pendsv
  /\ main_pc = "spin" => task_count = NTasks
  /\ rtos_started => main_pc = "spin"
  /\ ~rtos_started =>
       \A t \in Tasks : state[t] = "READY" /\ remaining[t] = 0 /\ pc[t] = "app"

OnlyCurrentRuns == \A t \in Tasks : state[t] = "RUNNING" => t = current

BaseInv == TypeOK /\ BootInv /\ OnlyCurrentRuns

IdleInv == \A t \in IdleTasks : state[t] \in {"READY", "RUNNING"}

\* The CPU executes a RUNNING task, or one that is leaving.
CpuInv ==
  \A t \in Tasks : Executing(t) =>
    \/ state[t] = "RUNNING"
    \/ state[t] = "SLEEPING" /\ pc[t] = "delay_yield"
    \/ state[t] = "BLOCKED" /\ pc[t] = "block_yield"

\* The ticks owed to a sleeper are what separates sys_tick from wake_tick.
OwedTicks(t) ==
  /\ remaining[t] \in 1 .. HalfRange + 1
  /\ wake_tick[t] = (sys_tick + remaining[t]) % TickModulus

DelayInv ==
  \A t \in Tasks :
    IF state[t] = "SLEEPING" THEN OwedTicks(t) ELSE remaining[t] = 0

KernelInv == BaseInv /\ IdleInv /\ CpuInv /\ DelayInv /\ HighestPriorityRuns
-----------------------------------------------------------------------------
LEMMA TaskTypes ==
  /\ NTasks \in Nat \ {0}
  /\ NTasks \in 1 .. NTasks
  /\ Tasks = 0 .. NTasks - 1
  /\ \A t \in Tasks : Priority[t] \in 0 .. 255
BY PoolAssumption DEF PoolAssumption, MAX_TASKS, Tasks

LEMMA TickTypes ==
  /\ TickModulus \in Nat \ {0}
  /\ Ticks = 0 .. TickModulus - 1
  /\ \A x \in Nat : x % TickModulus \in Ticks
  /\ 0 \in Ticks
<1>1. HalfRange \in Nat \ {0}
  BY KernelAssumption DEF KernelAssumption
<1>2. TickModulus \in Nat \ {0}
  BY <1>1 DEF TickModulus
<1> QED
  BY <1>2 DEF Ticks
-----------------------------------------------------------------------------
(* The wake-up test of SysTick_Handler                                     *)

LEMMA ModSum ==
  ASSUME NEW m \in Nat \ {0}, NEW s \in 0 .. m - 1, NEW r \in 0 .. m
  PROVE  (s + r) % m = IF s + r < m THEN s + r ELSE s + r - m
OBVIOUS

\* One tick brings a sleeper one tick closer, and the signed comparison
\* holds exactly at the last one, wherever sys_tick wraps.
LEMMA TickArithmetic ==
  ASSUME NEW h \in Nat \ {0}, NEW s \in 0 .. 2 * h - 1, NEW r \in 1 .. h + 1
  PROVE  LET now  == (s + 1) % (2 * h)
             wake == (s + r) % (2 * h)
         IN /\ (now - wake) % (2 * h) < h <=> r = 1
            /\ r # 1 => wake = (now + (r - 1)) % (2 * h)
<1> DEFINE m    == 2 * h
           now  == (s + 1) % m
           wake == (s + r) % m
<1>1. m \in Nat \ {0} /\ s \in 0 .. m - 1 /\ r \in 0 .. m /\ 1 \in 0 .. m
  OBVIOUS
<1>2. h \in Nat \ {0} /\ r \in 1 .. h + 1 /\ m = 2 * h
  OBVIOUS
<1> HIDE DEF m
<1>3. \A x \in 1 .. m - 1 : x % m = x /\ (0 - x) % m = m - x
  BY <1>1
<1>4. 0 % m = 0
  BY <1>1
<1>6. now = IF s + 1 < m THEN s + 1 ELSE s + 1 - m
  BY <1>1, ModSum
<1>7. wake = IF s + r < m THEN s + r ELSE s + r - m
  BY <1>1, ModSum
<1> HIDE DEF now, wake
<1>8. now - wake = 1 - r \/ now - wake = m - (r - 1)
  BY <1>1, <1>6, <1>7
<1>9. CASE r = 1
  <2>1. now = wake
    BY <1>6, <1>7, <1>9
  <2>2. now - wake = 0
    BY <1>1, <1>6, <2>1
  <2>3. (now - wake) % m = 0
    BY <1>4, <2>2
  <2> QED
    BY <1>2, <1>9, <2>3 DEF m, now, wake
<1>10. CASE r # 1
  <2>1. r - 1 \in 1 .. m - 1 /\ m - (r - 1) \in 1 .. m - 1 /\ m - (r - 1) >= h
    BY <1>1, <1>2, <1>10
  <2>2. (now - wake) % m = m - (r - 1)
    <3>1. CASE now - wake = 1 - r
      <4>1. now - wake = 0 - (r - 1)
        BY <3>1
      <4> QED
        BY <1>3, <2>1, <4>1
    <3>2. CASE now - wake = m - (r - 1)
      BY <1>3, <2>1, <3>2
    <3> QED
      BY <1>8, <3>1, <3>2
  <2>3. ~((now - wake) % m < h)
    BY <1>1, <1>2, <2>1, <2>2
  <2>4. now \in 0 .. m - 1 /\ r - 1 \in 0 .. m
    BY <1>1, <1>6, <2>1
  <2>5. (now + (r - 1)) % m
          = IF now + (r - 1) < m THEN now + (r - 1) ELSE now + (r - 1) - m
    BY <1>1, <2>4, ModSum
  <2>6. wake = (now + (r - 1)) % m
    BY <1>1, <1>6, <1>7, <2>5
  <2> QED
    BY <1>2, <1>10, <2>3, <2>6 DEF now, wake, m
<1> QED
  BY <1>9, <1>10

\* A sleeper is woken by SysTick_Handler exactly when one tick is owed.
LEMMA WokenOnTime ==
  ASSUME TypeOK, NEW t \in Tasks, OwedTicks(t), SysTick
  PROVE  /\ Reached(sys_tick', wake_tick[t]) <=> remaining[t] = 1
         /\ remaining[t] # 1 =>
              wake_tick[t] = (sys_tick' + (remaining[t] - 1)) % TickModulus
<1>1. HalfRange \in Nat \ {0}
  BY KernelAssumption DEF KernelAssumption
<1>2. sys_tick \in 0 .. 2 * HalfRange - 1 /\ remaining[t] \in 1 .. HalfRange + 1
  BY DEF TypeOK, Ticks, TickModulus, OwedTicks
<1>3. /\ sys_tick' = (sys_tick + 1) % (2 * HalfRange)
      /\ wake_tick[t] = (sys_tick + remaining[t]) % (2 * HalfRange)
  BY DEF SysTick, OwedTicks, TickModulus
<1> QED
  BY <1>1, <1>2, <1>3, TickArithmetic DEF Reached, TickModulus
-----------------------------------------------------------------------------
(* The part of the invariant that holds whatever the application does      *)

LEMMA InitBase == KernelInit => BaseInv
<1> SUFFICES ASSUME KernelInit PROVE BaseInv
  OBVIOUS
<1>1. /\ 0 \in Tasks /\ 0 \in 0 .. NTasks
      /\ 0 \in Ticks
  BY TaskTypes, TickTypes
<1>2. TypeOK
  BY <1>1 DEF KernelLabels, KernelInit, TypeOK, TaskState
<1> QED
  BY <1>2 DEF KernelInit, BaseInv, BootInv, OnlyCurrentRuns

LEMMA CreateBase == ASSUME BaseInv, TaskCreate PROVE BaseInv'
<1>1. task_count \in Tasks /\ task_count' \in 0 .. NTasks /\ 0 \in Tasks /\ 0 \in Ticks
  BY TaskTypes, TickTypes DEF BaseInv, TypeOK, TaskCreate
<1>2. TypeOK'
  BY <1>1 DEF BaseInv, TypeOK, TaskCreate, TaskState, cpuVars
<1>3. BootInv'
  BY <1>1 DEF BaseInv, BootInv, TypeOK, TaskCreate, cpuVars
<1>4. OnlyCurrentRuns'
  BY <1>1, <1>3 DEF BaseInv, BootInv, OnlyCurrentRuns, TypeOK, TaskCreate
<1> QED
  BY <1>2, <1>3, <1>4 DEF BaseInv

LEMMA StartBase == ASSUME BaseInv, OsStart PROVE BaseInv'
<1>1. current' \in Tasks
  BY TaskTypes DEF OsStart
<1>2. TypeOK'
  BY <1>1 DEF BaseInv, TypeOK, OsStart, taskVars
<1>3. BootInv'
  BY DEF BaseInv, BootInv, OsStart, taskVars
<1>4. OnlyCurrentRuns'
  BY DEF BaseInv, BootInv, OnlyCurrentRuns, OsStart, taskVars
<1> QED
  BY <1>2, <1>3, <1>4 DEF BaseInv

LEMMA TickTypeOK == ASSUME TypeOK, SysTick PROVE TypeOK'
<1>1. sys_tick' \in Ticks
  <2>1. sys_tick + 1 \in Nat
    BY TickTypes DEF TypeOK
  <2> QED
    BY <2>1, TickTypes DEF SysTick
<1>2. \A t \in Tasks : (IF remaining[t] > 0 THEN remaining[t] - 1 ELSE 0) \in Ticks
  <2> TAKE t \in Tasks
  <2>1. remaining[t] \in 0 .. TickModulus - 1
    BY TickTypes DEF TypeOK
  <2>2. TickModulus \in Nat
    BY TickTypes
  <2>3. remaining[t] > 0 => remaining[t] - 1 \in 0 .. TickModulus - 1
    BY <2>1, <2>2
  <2> QED
    BY <2>3, TickTypes
<1>3. remaining' \in [Tasks -> Ticks]
  BY <1>2 DEF SysTick
<1>4. state' \in [Tasks -> TaskState]
  BY DEF TypeOK, SysTick, TaskState
<1>5. pendsv' \in BOOLEAN
  BY DEF TypeOK, SysTick
<1> QED
  BY <1>1, <1>3, <1>4, <1>5 DEF TypeOK, SysTick, bootVars

LEMMA TickBase == ASSUME BaseInv, SysTick PROVE BaseInv'
<1>1. TypeOK'
  BY TickTypeOK DEF BaseInv
<1>2. \A t \in Tasks : state'[t] # state[t] => state[t] = "SLEEPING" /\ state'[t] = "READY"
  BY DEF BaseInv, TypeOK, SysTick, Expired
<1>3. \A t \in Tasks : remaining[t] = 0 => remaining'[t] = 0
  BY DEF SysTick
<1>4. BootInv'
  BY <1>2, <1>3 DEF BaseInv, BootInv, SysTick, bootVars
<1>5. OnlyCurrentRuns'
  BY <1>2 DEF BaseInv, OnlyCurrentRuns, SysTick, bootVars
<1> QED
  BY <1>1, <1>4, <1>5 DEF BaseInv

LEMMA EnterBase == ASSUME BaseInv, PendSVEnter PROVE BaseInv'
BY DEF BaseInv, TypeOK, BootInv, OnlyCurrentRuns, PendSVEnter, taskVars, bootVars

\* At a context switch all tasks exist, so os_schedule() sees the full pool.
LEMMA SwitchResult ==
  ASSUME BaseInv, PendSVSwitch
  PROVE  /\ task_count = NTasks
         /\ state' = AfterSchedule(state, current, NTasks).state
         /\ current' = AfterSchedule(state, current, NTasks).current
         /\ state' \in [Tasks -> TaskState]
         /\ current' \in Tasks
         /\ \A t \in Tasks :
              /\ state'[t] = "RUNNING" => t = current'
              /\ state[t] \in {"SLEEPING", "BLOCKED"} => state'[t] = state[t]
              /\ state[t] \in {"READY", "RUNNING"} => state'[t] \in {"READY", "RUNNING"}
         /\ (\E t \in Tasks : state[t] \in {"READY", "RUNNING"}) =>
              /\ state'[current'] = "RUNNING"
              /\ \A u \in Tasks :
                   state'[u] = "READY" => Priority[u] <= Priority[current']
<1>1. task_count = NTasks
  BY DEF BaseInv, TypeOK, BootInv, PendSVSwitch
<1>2. /\ state \in [Tasks -> TaskState]
      /\ current \in Tasks
      /\ \A t \in Tasks : state[t] = "RUNNING" => t = current
  BY DEF BaseInv, TypeOK, OnlyCurrentRuns
<1>3. /\ state' = AfterSchedule(state, current, NTasks).state
      /\ current' = AfterSchedule(state, current, NTasks).current
  BY <1>1 DEF PendSVSwitch
<1> QED
  BY <1>1, <1>2, <1>3, ScheduleResult, PoolAssumption

LEMMA SwitchBase == ASSUME BaseInv, PendSVSwitch PROVE BaseInv'
<1>1. main_pc = "spin"
  BY DEF BaseInv, TypeOK, BootInv, PendSVSwitch
<1>2. TypeOK'
  BY SwitchResult DEF BaseInv, TypeOK, PendSVSwitch
<1>3. BootInv'
  BY <1>1 DEF BaseInv, BootInv, PendSVSwitch
<1>4. OnlyCurrentRuns'
  BY SwitchResult DEF OnlyCurrentRuns
<1> QED
  BY <1>2, <1>3, <1>4 DEF BaseInv

LEMMA DelayBase ==
  ASSUME BaseInv, NEW t \in Tasks, NEW ticks \in Delays, OsDelay(t, ticks)
  PROVE  BaseInv'
<1>1. ticks \in Ticks /\ (sys_tick + ticks) % TickModulus \in Ticks
  <2>1. ticks \in Ticks
    BY KernelAssumption DEF KernelAssumption
  <2>2. sys_tick + ticks \in Nat
    BY <2>1, TickTypes DEF BaseInv, TypeOK
  <2> QED
    BY <2>1, <2>2, TickTypes
<1>2. TypeOK'
  BY <1>1 DEF KernelLabels, BaseInv, TypeOK, OsDelay, Goto, TaskState, bootVars, cpuVars
<1>3. BootInv'
  BY DEF BaseInv, BootInv, OsDelay, At, Executing, bootVars, cpuVars
<1>4. OnlyCurrentRuns'
  BY DEF BaseInv, TypeOK, OnlyCurrentRuns, OsDelay, bootVars
<1> QED
  BY <1>2, <1>3, <1>4 DEF BaseInv

LEMMA YieldBase == ASSUME BaseInv, NEW t \in Tasks, Yield(t) PROVE BaseInv'
<1>1. TypeOK'
  BY DEF KernelLabels, BaseInv, TypeOK, Yield, YieldFrom, Goto, bootVars
<1>2. BootInv'
  BY DEF BaseInv, BootInv, Yield, YieldFrom, At, Executing, bootVars
<1>3. OnlyCurrentRuns'
  BY DEF BaseInv, OnlyCurrentRuns, Yield, YieldFrom, bootVars
<1> QED
  BY <1>1, <1>2, <1>3 DEF BaseInv

LEMMA BlockBase == ASSUME BaseInv, NEW t \in Tasks, Block(t) PROVE BaseInv'
<1>1. TypeOK'
  BY DEF KernelLabels, BaseInv, TypeOK, Block, Goto, TaskState, bootVars, cpuVars
<1>2. BootInv'
  BY DEF BaseInv, BootInv, Block, At, Executing, bootVars, cpuVars
<1>3. OnlyCurrentRuns'
  BY DEF BaseInv, TypeOK, OnlyCurrentRuns, Block, bootVars
<1> QED
  BY <1>1, <1>2, <1>3 DEF BaseInv

LEMMA ReadyByTaskBase ==
  ASSUME BaseInv, NEW t \in Tasks, NEW u \in Tasks, ReadyByTask(t, u) PROVE BaseInv'
<1>1. TypeOK'
  BY DEF KernelLabels, BaseInv, TypeOK, ReadyByTask, Goto, TaskState, bootVars, cpuVars
<1>2. BootInv'
  BY DEF BaseInv, BootInv, ReadyByTask, At, Executing, bootVars, cpuVars
<1>3. OnlyCurrentRuns'
  BY DEF BaseInv, TypeOK, OnlyCurrentRuns, ReadyByTask, bootVars
<1> QED
  BY <1>1, <1>2, <1>3 DEF BaseInv

LEMMA ReadyByIsrBase ==
  ASSUME BaseInv, NEW u \in Tasks, ReadyByIsr(u) PROVE BaseInv'
<1>1. TypeOK'
  BY DEF BaseInv, TypeOK, ReadyByIsr, TaskState, bootVars
<1>2. rtos_started
  BY DEF BaseInv, BootInv, ReadyByIsr
<1>3. BootInv'
  BY <1>2 DEF BaseInv, BootInv, ReadyByIsr, bootVars
<1>4. OnlyCurrentRuns'
  BY DEF BaseInv, TypeOK, OnlyCurrentRuns, ReadyByIsr, bootVars
<1> QED
  BY <1>1, <1>3, <1>4 DEF BaseInv

LEMMA StutterBase == ASSUME BaseInv, UNCHANGED kernelVars PROVE BaseInv'
BY DEF BaseInv, TypeOK, BootInv, OnlyCurrentRuns, kernelVars, taskVars, bootVars, cpuVars

LEMMA BaseStep == BaseInv /\ [KernelNext]_kernelVars => BaseInv'
BY CreateBase, StartBase, TickBase, EnterBase, SwitchBase, DelayBase, YieldBase,
   BlockBase, ReadyByTaskBase, ReadyByIsrBase, StutterBase
   DEF KernelNext, Main, Handlers, TaskStep

LEMMA BaseInvariance == KernelSpec => []BaseInv
BY InitBase, BaseStep, PTL DEF KernelSpec

\* Type correctness of the kernel, for every application.
THEOREM KernelTypeCorrect == KernelSpec => []TypeOK
<1>1. BaseInv => TypeOK
  BY DEF BaseInv
<1> QED
  BY <1>1, BaseInvariance, PTL

\* Round robin inside a level never passes a task over without bringing it
\* closer, for every application, with or without an idle task.
THEOREM RoundRobin == KernelSpec => RoundRobinProgress
<1> DEFINE Closer ==
      \A t \in Tasks :
        in_pendsv /\ ~in_pendsv' /\ state'[t] = "READY" /\ Priority[t] = Priority[current']
          => Ahead(current', t) < Ahead(current, t)
<1>1. BaseInv /\ [KernelNext]_kernelVars => [Closer]_kernelVars
  <2> SUFFICES ASSUME BaseInv, KernelNext,
                      NEW t \in Tasks,
                      in_pendsv, ~in_pendsv',
                      state'[t] = "READY", Priority[t] = Priority[current']
               PROVE  Ahead(current', t) < Ahead(current, t)
    OBVIOUS
  <2>1. PendSVSwitch
    BY DEF KernelNext, Main, Handlers, TaskStep, TaskCreate, OsStart, SysTick,
           PendSVEnter, OsDelay, Yield, YieldFrom, Block, ReadyByTask, ReadyByIsr, cpuVars
  <2> DEFINE rel  == Release(state, current)
             next == NextTask(rel, current, NTasks)
  <2>2. /\ state' = AfterSchedule(state, current, NTasks).state
        /\ current' = AfterSchedule(state, current, NTasks).current
    BY <2>1, SwitchResult
  <2>3. rel \in [Tasks -> TaskState] /\ current \in Tasks
    BY DEF BaseInv, TypeOK, Release, TaskState
  <2>4. Ready(rel, NTasks) # {}
    <3> SUFFICES ASSUME Ready(rel, NTasks) = {} PROVE FALSE
      OBVIOUS
    <3>1. state' = rel
      BY <2>2 DEF AfterSchedule
    <3> QED
      BY <3>1, TaskTypes DEF Ready
  <2>5. state' = [rel EXCEPT ![next] = "RUNNING"] /\ current' = next
    BY <2>2, <2>4 DEF AfterSchedule
  <2>6. /\ next \in Tasks
        /\ rel[next] = "READY"
        /\ \A u \in Ready(rel, NTasks) : Priority[u] <= Priority[next]
    BY <2>3, <2>4, TaskTypes, PoolAssumption, NextTaskIsTop
  <2> HIDE DEF rel, next
  <2>7. t # next /\ rel[t] = "READY"
    BY <2>3, <2>5, <2>6
  <2>8. t \in Top(rel, NTasks)
    BY <2>5, <2>6, <2>7, TaskTypes DEF Top, Ready
  <2>9. (t - next - 1) % NTasks < (t - current - 1) % NTasks
    BY <2>3, <2>7, <2>8, TaskTypes, PoolAssumption, PassedOverGetsCloser DEF next
  <2> QED
    BY <2>5, <2>9 DEF Ahead
<1>2. KernelSpec => [][Closer]_kernelVars
  BY <1>1, BaseInvariance, PTL DEF KernelSpec
<1> QED
  BY <1>2 DEF RoundRobinProgress
-----------------------------------------------------------------------------
(* The part that needs an idle task and short delays                       *)

\* What KernelInv says while a task runs outside the kernel's calls.
LEMMA ExecutingFacts ==
  ASSUME KernelInv, NEW t \in Tasks, At(t, "app")
  PROVE  /\ state[t] = "RUNNING"
         /\ remaining[t] = 0
         /\ t = current
         /\ rtos_started
         /\ \A u \in Tasks : Executing(u) => u = t
         /\ \A u \in Tasks : state[u] = "READY" => Priority[u] <= Priority[t]
<1>1. Executing(t) /\ pc[t] = "app"
  BY DEF At
<1>2. state[t] = "RUNNING"
  BY <1>1 DEF KernelInv, CpuInv
<1>3. remaining[t] = 0
  BY <1>2 DEF KernelInv, DelayInv
<1>4. \A u \in Tasks : state[u] = "READY" => Priority[u] <= Priority[t]
  BY <1>1 DEF KernelInv, HighestPriorityRuns
<1> QED
  BY <1>1, <1>2, <1>3, <1>4 DEF Executing

LEMMA InitKernel == KernelInit => KernelInv
<1> SUFFICES ASSUME KernelInit PROVE KernelInv
  OBVIOUS
<1>1. IdleInv /\ CpuInv /\ DelayInv /\ HighestPriorityRuns
  BY DEF KernelInit, IdleInv, IdleTasks, CpuInv, DelayInv, HighestPriorityRuns, Executing
<1> QED
  BY <1>1, InitBase DEF KernelInv

LEMMA CreateKernel == ASSUME KernelInv, TaskCreate PROVE KernelInv'
<1>1. BaseInv' /\ ~rtos_started'
  BY CreateBase DEF KernelInv, BaseInv, BootInv, TaskCreate
<1>2. \A t \in Tasks : state'[t] = "READY" /\ remaining'[t] = 0 /\ ~Executing(t)'
  BY <1>1 DEF BaseInv, BootInv, Executing
<1> QED
  BY <1>1, <1>2 DEF KernelInv, IdleInv, IdleTasks, CpuInv, DelayInv, HighestPriorityRuns

LEMMA StartKernel == ASSUME KernelInv, OsStart PROVE KernelInv'
<1>1. BaseInv' /\ ~rtos_started'
  BY StartBase DEF KernelInv, BaseInv, BootInv, OsStart
<1>2. \A t \in Tasks : state'[t] = "READY" /\ remaining'[t] = 0 /\ ~Executing(t)'
  BY <1>1 DEF BaseInv, BootInv, Executing
<1> QED
  BY <1>1, <1>2 DEF KernelInv, IdleInv, IdleTasks, CpuInv, DelayInv, HighestPriorityRuns

\* After a tick PendSV is pending, unless the kernel has not started, so no
\* thread code runs and only the sleepers have to be looked at.
LEMMA TickKernel == ASSUME KernelInv, SysTick PROVE KernelInv'
<1>1. BaseInv'
  BY TickBase DEF KernelInv
<1>2. \A t \in Tasks : ~Executing(t)'
  BY DEF SysTick, bootVars, Executing
<1>3. IdleInv'
  BY DEF KernelInv, BaseInv, TypeOK, IdleInv, IdleTasks, SysTick
<1>4. DelayInv'
  <2> SUFFICES ASSUME NEW t \in Tasks
               PROVE  IF state'[t] = "SLEEPING" THEN OwedTicks(t)' ELSE remaining'[t] = 0
    BY DEF DelayInv
  <2>1. CASE state[t] = "SLEEPING"
    <3>1. OwedTicks(t)
      BY <2>1 DEF KernelInv, DelayInv
    <3>2. /\ Reached(sys_tick', wake_tick[t]) <=> remaining[t] = 1
          /\ remaining[t] # 1 =>
               wake_tick[t] = (sys_tick' + (remaining[t] - 1)) % TickModulus
      BY <3>1, WokenOnTime DEF KernelInv, BaseInv
    <3>3. rtos_started /\ task_count = NTasks
      BY <2>1 DEF KernelInv, BaseInv, BootInv
    <3>4. t \in Expired(sys_tick') <=> remaining[t] = 1
      BY <2>1, <3>2, <3>3, TaskTypes DEF Expired
    <3>5. HalfRange \in Nat /\ remaining[t] \in 1 .. HalfRange + 1
      BY <3>1, KernelAssumption DEF KernelAssumption, OwedTicks
    <3>6. remaining'[t] = remaining[t] - 1
      BY <3>5 DEF SysTick
    <3>7. CASE remaining[t] = 1
      BY <3>4, <3>6, <3>7 DEF SysTick
    <3>8. CASE remaining[t] # 1
      <4>1. state'[t] = "SLEEPING"
        BY <2>1, <3>4, <3>8 DEF SysTick
      <4>2. remaining'[t] \in 1 .. HalfRange + 1
        BY <3>5, <3>6, <3>8
      <4>3. wake_tick'[t] = (sys_tick' + remaining'[t]) % TickModulus
        BY <3>2, <3>6, <3>8 DEF SysTick
      <4> QED
        BY <4>1, <4>2, <4>3 DEF OwedTicks
    <3> QED
      BY <3>7, <3>8
  <2>2. CASE state[t] # "SLEEPING"
    <3>1. remaining[t] = 0
      BY <2>2 DEF KernelInv, DelayInv
    <3>2. remaining'[t] = 0
      BY <3>1 DEF SysTick
    <3>3. state'[t] = state[t]
      BY <2>2 DEF SysTick, Expired
    <3> QED
      BY <2>2, <3>2, <3>3
  <2> QED
    BY <2>1, <2>2
<1> QED
  BY <1>1, <1>2, <1>3, <1>4 DEF KernelInv, CpuInv, HighestPriorityRuns

LEMMA EnterKernel == ASSUME KernelInv, PendSVEnter PROVE KernelInv'
<1>1. \A t \in Tasks : ~Executing(t)'
  BY DEF PendSVEnter, Executing
<1> QED
  BY <1>1, EnterBase DEF KernelInv, IdleInv, CpuInv, DelayInv, OwedTicks,
     HighestPriorityRuns, PendSVEnter, taskVars

\* Because some task can always run, the switch ends in a RUNNING task.
LEMMA SwitchKernel == ASSUME HasIdleTask, KernelInv, PendSVSwitch PROVE KernelInv'
<1>1. BaseInv'
  BY SwitchBase DEF KernelInv
<1>2. \E t \in Tasks : state[t] \in {"READY", "RUNNING"}
  BY DEF HasIdleTask, IdleTasks, KernelInv, IdleInv
<1>3. /\ state'[current'] = "RUNNING"
      /\ \A u \in Tasks : state'[u] = "READY" => Priority[u] <= Priority[current']
      /\ \A t \in Tasks :
           /\ state[t] \in {"SLEEPING", "BLOCKED"} => state'[t] = state[t]
           /\ state[t] \in {"READY", "RUNNING"} => state'[t] \in {"READY", "RUNNING"}
  BY <1>2, SwitchResult DEF KernelInv
<1>4. \A t \in Tasks : Executing(t)' => t = current'
  BY DEF Executing
<1>5. IdleInv'
  BY <1>3 DEF KernelInv, IdleInv, IdleTasks
<1>6. \A t \in Tasks : state'[t] = "SLEEPING" <=> state[t] = "SLEEPING"
  BY <1>3 DEF KernelInv, BaseInv, TypeOK, TaskState
<1>7. DelayInv'
  BY <1>6 DEF KernelInv, DelayInv, OwedTicks, PendSVSwitch
<1>8. CpuInv' /\ HighestPriorityRuns'
  BY <1>3, <1>4 DEF CpuInv, HighestPriorityRuns
<1> QED
  BY <1>1, <1>5, <1>7, <1>8 DEF KernelInv

LEMMA DelayKernel ==
  ASSUME ShortDelays, KernelInv, NEW t \in Tasks, NEW ticks \in Delays, OsDelay(t, ticks)
  PROVE  KernelInv'
<1>1. BaseInv'
  BY DelayBase DEF KernelInv
<1>2. At(t, "app") /\ t \notin IdleTasks
  BY DEF OsDelay, IdleTasks
<1>3. /\ state' = [state EXCEPT ![t] = "SLEEPING"]
      /\ pc' = [pc EXCEPT ![t] = "delay_yield"]
      /\ remaining' = [remaining EXCEPT ![t] = ticks]
      /\ wake_tick' = [wake_tick EXCEPT ![t] = (sys_tick + ticks) % TickModulus]
      /\ UNCHANGED <<current, rtos_started, pendsv, in_pendsv, sys_tick>>
  BY DEF OsDelay, Goto, bootVars, cpuVars
<1>4. /\ state \in [Tasks -> TaskState] /\ pc \in [Tasks -> KernelLabels]
      /\ remaining \in [Tasks -> Ticks] /\ wake_tick \in [Tasks -> Ticks]
  BY DEF KernelInv, BaseInv, TypeOK
<1>5. ticks \in 1 .. HalfRange + 1
  BY KernelAssumption DEF ShortDelays, KernelAssumption, OsDelay
<1>6. IdleInv'
  BY <1>2, <1>3, <1>4 DEF KernelInv, IdleInv, IdleTasks
<1>7. DelayInv'
  <2> SUFFICES ASSUME NEW u \in Tasks
               PROVE  IF state'[u] = "SLEEPING" THEN OwedTicks(u)' ELSE remaining'[u] = 0
    BY DEF DelayInv
  <2>1. CASE u = t
    BY <1>3, <1>4, <1>5, <2>1 DEF OwedTicks
  <2>2. CASE u # t
    <3>1. /\ state'[u] = state[u] /\ remaining'[u] = remaining[u]
          /\ wake_tick'[u] = wake_tick[u] /\ sys_tick' = sys_tick
      BY <1>3, <1>4, <2>2
    <3>2. IF state[u] = "SLEEPING" THEN OwedTicks(u) ELSE remaining[u] = 0
      BY DEF KernelInv, DelayInv
    <3> QED
      BY <3>1, <3>2 DEF OwedTicks
  <2> QED
    BY <2>1, <2>2
<1>8. \A u \in Tasks : Executing(u)' => u = t
  BY <1>2, <1>3 DEF At, Executing
<1>9. CpuInv'
  BY <1>3, <1>4, <1>8 DEF CpuInv
<1>10. HighestPriorityRuns'
  BY <1>2, <1>3, <1>4, <1>8, ExecutingFacts DEF HighestPriorityRuns
<1> QED
  BY <1>1, <1>6, <1>7, <1>9, <1>10 DEF KernelInv

\* trigger_pendsv() makes PendSV pending: no thread code runs.
LEMMA YieldKernel == ASSUME KernelInv, NEW t \in Tasks, Yield(t) PROVE KernelInv'
<1>1. \A u \in Tasks : ~Executing(u)'
  BY DEF Yield, YieldFrom, Executing
<1>2. UNCHANGED <<state, wake_tick, remaining, sys_tick>>
  BY DEF Yield, YieldFrom
<1> QED
  BY <1>1, <1>2, YieldBase DEF KernelInv, IdleInv, CpuInv, DelayInv, OwedTicks,
     HighestPriorityRuns

LEMMA BlockKernel == ASSUME KernelInv, NEW t \in Tasks, Block(t) PROVE KernelInv'
<1>1. BaseInv'
  BY BlockBase DEF KernelInv
<1>2. At(t, "app") /\ t \notin IdleTasks
  BY DEF Block, IdleTasks
<1>3. /\ state' = [state EXCEPT ![t] = "BLOCKED"]
      /\ pc' = [pc EXCEPT ![t] = "block_yield"]
      /\ UNCHANGED <<current, rtos_started, pendsv, in_pendsv, sys_tick, wake_tick, remaining>>
  BY DEF Block, Goto, bootVars, cpuVars
<1>4. state \in [Tasks -> TaskState] /\ pc \in [Tasks -> KernelLabels]
  BY DEF KernelInv, BaseInv, TypeOK
<1>5. IdleInv'
  BY <1>2, <1>3, <1>4 DEF KernelInv, IdleInv, IdleTasks
<1>6. \A u \in Tasks : IF u = t THEN state'[u] = "BLOCKED" /\ remaining[u] = 0
                       ELSE state'[u] = state[u]
  BY <1>2, <1>3, <1>4, ExecutingFacts
<1>7. DelayInv'
  BY <1>3, <1>6 DEF KernelInv, DelayInv, OwedTicks
<1>8. \A u \in Tasks : Executing(u)' => u = t
  BY <1>2, <1>3 DEF At, Executing
<1>9. CpuInv'
  BY <1>3, <1>4, <1>8 DEF CpuInv
<1>10. HighestPriorityRuns'
  BY <1>2, <1>3, <1>6, <1>8, ExecutingFacts DEF HighestPriorityRuns
<1> QED
  BY <1>1, <1>5, <1>7, <1>9, <1>10 DEF KernelInv

\* The signaller may now be outranked; it is at "signal_yield".
LEMMA ReadyByTaskKernel ==
  ASSUME KernelInv, NEW t \in Tasks, NEW u \in Tasks, ReadyByTask(t, u)
  PROVE  KernelInv'
<1>1. BaseInv'
  BY ReadyByTaskBase DEF KernelInv
<1>2. /\ At(t, "app")
      /\ state[u] = "BLOCKED"
      /\ state' = [state EXCEPT ![u] = "READY"]
      /\ pc' = [pc EXCEPT ![t] = "signal_yield"]
      /\ UNCHANGED <<current, rtos_started, pendsv, in_pendsv, sys_tick, wake_tick, remaining>>
  BY DEF ReadyByTask, Goto, bootVars, cpuVars
<1>3. state \in [Tasks -> TaskState] /\ pc \in [Tasks -> KernelLabels]
  BY DEF KernelInv, BaseInv, TypeOK
<1>4. u # t /\ state[t] = "RUNNING"
  BY <1>2, ExecutingFacts
<1>5. IdleInv'
  BY <1>2, <1>3 DEF KernelInv, IdleInv, IdleTasks
<1>6. \A v \in Tasks : IF v = u THEN state'[v] = "READY" /\ remaining[v] = 0
                       ELSE state'[v] = state[v]
  BY <1>2, <1>3 DEF KernelInv, DelayInv
<1>7. DelayInv'
  BY <1>2, <1>6 DEF KernelInv, DelayInv, OwedTicks
<1>8. \A v \in Tasks : Executing(v)' => v = t
  BY <1>2 DEF At, Executing
<1>9. CpuInv'
  BY <1>4, <1>6, <1>8 DEF CpuInv
<1>10. HighestPriorityRuns'
  BY <1>2, <1>3, <1>8 DEF HighestPriorityRuns
<1> QED
  BY <1>1, <1>5, <1>7, <1>9, <1>10 DEF KernelInv

LEMMA ReadyByIsrKernel ==
  ASSUME KernelInv, NEW u \in Tasks, ReadyByIsr(u) PROVE KernelInv'
<1>1. BaseInv'
  BY ReadyByIsrBase DEF KernelInv
<1>2. \A t \in Tasks : ~Executing(t)'
  BY DEF ReadyByIsr, Executing
<1>3. /\ state[u] = "BLOCKED"
      /\ state' = [state EXCEPT ![u] = "READY"]
      /\ UNCHANGED <<sys_tick, wake_tick, remaining>>
  BY DEF ReadyByIsr
<1>4. state \in [Tasks -> TaskState]
  BY DEF KernelInv, BaseInv, TypeOK
<1>5. \A v \in Tasks : IF v = u THEN state'[v] = "READY" /\ remaining[v] = 0
                       ELSE state'[v] = state[v]
  BY <1>3, <1>4 DEF KernelInv, DelayInv
<1>6. IdleInv' /\ DelayInv'
  BY <1>3, <1>5 DEF KernelInv, IdleInv, IdleTasks, DelayInv, OwedTicks
<1> QED
  BY <1>1, <1>2, <1>6 DEF KernelInv, CpuInv, HighestPriorityRuns

LEMMA StutterKernel == ASSUME KernelInv, UNCHANGED kernelVars PROVE KernelInv'
BY StutterBase DEF KernelInv, IdleInv, CpuInv, DelayInv, OwedTicks,
   HighestPriorityRuns, Executing, kernelVars, taskVars, bootVars, cpuVars

LEMMA KernelStep ==
  ASSUME HasIdleTask, ShortDelays
  PROVE  KernelInv /\ [KernelNext]_kernelVars => KernelInv'
BY CreateKernel, StartKernel, TickKernel, EnterKernel, SwitchKernel, DelayKernel,
   YieldKernel, BlockKernel, ReadyByTaskKernel, ReadyByIsrKernel, StutterKernel
   DEF KernelNext, Main, Handlers, TaskStep

LEMMA KernelInvariance ==
  ASSUME HasIdleTask, ShortDelays
  PROVE  KernelSpec => []KernelInv
BY InitKernel, KernelStep, PTL DEF KernelSpec

\* With an idle task, no SLEEPING or BLOCKED task ever runs on behind its
\* blocking call, and RUNNING means what scheduler.h says.
THEOREM CpuCorrect ==
  ASSUME HasIdleTask, ShortDelays
  PROVE  KernelSpec => []RunningMatchesCPU
<1>1. KernelInv => RunningMatchesCPU
  BY DEF KernelInv, BaseInv, OnlyCurrentRuns, CpuInv, RunningMatchesCPU, At
<1> QED
  BY <1>1, KernelInvariance, PTL

\* Strict priority at every instruction outside the signal window.
THEOREM StrictPriority ==
  ASSUME HasIdleTask, ShortDelays
  PROVE  KernelSpec => []HighestPriorityRuns
<1>1. KernelInv => HighestPriorityRuns
  BY DEF KernelInv
<1> QED
  BY <1>1, KernelInvariance, PTL

\* Every sleep lasts exactly as many ticks as were asked for, for every
\* width of the tick counter and across its wrap.
THEOREM ExactDelays ==
  ASSUME HasIdleTask, ShortDelays
  PROVE  KernelSpec => []DelayExact
<1>1. KernelInv => DelayExact
  <2> SUFFICES ASSUME KernelInv, NEW t \in Tasks
               PROVE  state[t] = "SLEEPING" <=> remaining[t] > 0
    BY DEF DelayExact
  <2>1. state[t] = "SLEEPING" => remaining[t] \in 1 .. HalfRange + 1
    BY DEF KernelInv, DelayInv, OwedTicks
  <2>2. state[t] # "SLEEPING" => remaining[t] = 0
    BY DEF KernelInv, DelayInv
  <2>3. HalfRange \in Nat
    BY KernelAssumption DEF KernelAssumption
  <2> QED
    BY <2>1, <2>2, <2>3
<1> QED
  BY <1>1, KernelInvariance, PTL

\* rtos.h on osDelay, "at least `ticks` SysTick periods": SysTick_Handler
\* wakes a task only when no tick is owed any more.
THEOREM NoEarlyWakeUp ==
  ASSUME HasIdleTask, ShortDelays
  PROVE  KernelSpec => NeverWakesEarly
<1> DEFINE Slept ==
      \A t \in Tasks : state[t] = "SLEEPING" /\ state'[t] = "READY" => remaining'[t] = 0
<1>1. KernelInv' => Slept
  BY DEF KernelInv, DelayInv
<1>2. KernelSpec => [][Slept]_kernelVars
  BY <1>1, KernelInvariance, PTL DEF KernelSpec
<1> QED
  BY <1>2 DEF NeverWakesEarly

\* The fallback of os_schedule() as scheduler.c describes it: with an idle
\* task, a SLEEPING or BLOCKED task does not go on before it is woken.
THEOREM FallbackWaits ==
  ASSUME HasIdleTask, ShortDelays
  PROVE  KernelSpec => []WaitsForWakeUp
<1>1. KernelInv => WaitsForWakeUp
  BY ExecutingFacts DEF WaitsForWakeUp
<1> QED
  BY <1>1, KernelInvariance, PTL
-----------------------------------------------------------------------------
(* ShortDelays cannot be weakened                                          *)

LEMMA LateTickArithmetic ==
  ASSUME NEW h \in Nat \ {0}, NEW s \in 0 .. 2 * h - 1, NEW r \in h + 2 .. 2 * h - 1
  PROVE  (((s + 1) % (2 * h)) - ((s + r) % (2 * h))) % (2 * h) < h
<1> DEFINE m    == 2 * h
           now  == (s + 1) % m
           wake == (s + r) % m
<1>1. m \in Nat \ {0} /\ s \in 0 .. m - 1 /\ r \in 0 .. m /\ 1 \in 0 .. m
  OBVIOUS
<1>2. /\ h \in Nat \ {0} /\ m = 2 * h
      /\ r - 1 \in 1 .. m - 1 /\ m - (r - 1) \in 1 .. m - 1 /\ m - (r - 1) < h
  OBVIOUS
<1> HIDE DEF m
<1>3. \A x \in 1 .. m - 1 : x % m = x /\ (0 - x) % m = m - x
  BY <1>1
<1>4. now = IF s + 1 < m THEN s + 1 ELSE s + 1 - m
  BY <1>1, ModSum
<1>5. wake = IF s + r < m THEN s + r ELSE s + r - m
  BY <1>1, ModSum
<1> HIDE DEF now, wake
<1>6. now - wake = 0 - (r - 1) \/ now - wake = m - (r - 1)
  BY <1>1, <1>4, <1>5
<1>7. (now - wake) % m = m - (r - 1)
  BY <1>2, <1>3, <1>6
<1> QED
  BY <1>2, <1>7 DEF m, now, wake

\* What osDelay(ticks) leaves behind.
JustDelayed(t, ticks) ==
  /\ state[t] = "SLEEPING"
  /\ remaining[t] = ticks
  /\ wake_tick[t] = (sys_tick + ticks) % TickModulus

\* Every longer delay, up to the largest argument of osDelay(), ends at the
\* next tick with ticks still owed: the bound 2^31 + 1 is exact.
THEOREM LongDelaysEndAtOnce ==
  ASSUME NEW t \in Tasks, NEW ticks \in Delays, ticks > HalfRange + 1
  PROVE  /\ BaseInv /\ OsDelay(t, ticks) => JustDelayed(t, ticks)' /\ rtos_started'
         /\ BaseInv /\ rtos_started /\ JustDelayed(t, ticks) /\ SysTick
              => state'[t] = "READY" /\ remaining'[t] > 0
<1>1. HalfRange \in Nat \ {0} /\ TickModulus = 2 * HalfRange
  BY KernelAssumption DEF KernelAssumption, TickModulus
<1>2. ticks \in HalfRange + 2 .. 2 * HalfRange - 1
  <2>1. ticks \in 0 .. TickModulus - 1
    BY KernelAssumption, TickTypes DEF KernelAssumption
  <2> QED
    BY <1>1, <2>1
<1>3. ASSUME BaseInv, OsDelay(t, ticks)
      PROVE  JustDelayed(t, ticks)' /\ rtos_started'
  BY <1>3 DEF BaseInv, TypeOK, OsDelay, At, Executing, bootVars, cpuVars, JustDelayed,
              TickModulus
<1>4. ASSUME BaseInv, rtos_started, JustDelayed(t, ticks), SysTick
      PROVE  state'[t] = "READY" /\ remaining'[t] > 0
  <2>1. sys_tick \in 0 .. 2 * HalfRange - 1
    BY <1>1, <1>4, TickTypes DEF BaseInv, TypeOK
  <2>2. Reached(sys_tick', wake_tick[t])
    <3>1. /\ sys_tick' = (sys_tick + 1) % (2 * HalfRange)
          /\ wake_tick[t] = (sys_tick + ticks) % (2 * HalfRange)
      BY <1>4 DEF SysTick, JustDelayed, TickModulus
    <3>2. (sys_tick' - wake_tick[t]) % (2 * HalfRange) < HalfRange
      BY <1>1, <1>2, <2>1, <3>1, LateTickArithmetic
    <3> QED
      BY <3>2 DEF Reached, TickModulus
  <2>3. t \in Expired(sys_tick')
    BY <1>4, <2>2, TaskTypes DEF Expired, BaseInv, BootInv, JustDelayed
  <2>4. ticks - 1 > 0
    BY <1>1, <1>2
  <2> QED
    BY <1>1, <1>2, <1>4, <2>3, <2>4 DEF SysTick, JustDelayed
<1> QED
  BY <1>3, <1>4
=============================================================================
