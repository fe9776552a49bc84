# A verification project for the STM32C031C6 RTOS

The repository is a small preemptive real-time kernel for a Cortex-M0+ with a
demo application: a fixed pool of tasks, a strict-priority scheduler with
round robin inside a level, a 1 ms tick, delays, counting semaphores, mutexes
and a PendSV context switch in assembly. The modules here model it, TLC checks
them on small instances and TLAPS proves the properties that matter most for
every instance. Paths are relative to the repository (`Src/` is `src/Src/`).

## 1. The system

| Component | Source | State it keeps | Operations |
|---|---|---|---|
| Scheduler policy | `Src/scheduler.c`, `Inc/scheduler.h` | `task_pool[].state`, `.priority`, `current_task`, `current_task_index` | `os_schedule()` |
| Boot | `Src/rtos.c`, `Src/main.c`, `_rtos_start` | `task_count`, `rtos_started`, `current_task*` | `osTaskCreate()`, `osStart()`, `_rtos_start` |
| Ticks and delays | `Src/rtos.c` | `sys_tick`, `task_pool[].wake_tick` | `SysTick_Handler()`, `osDelay()`, `osGetTick()` |
| Context switch | `Src/context_switch.s` | `PENDSVSET`, `PRIMASK`, saved registers, PSP | `PendSV_Handler`, `trigger_pendsv()` |
| Semaphores | `Src/semaphore.c`, `Inc/semaphore.h` | `count`, `waiting[]`, `wait_count` | `osSemaphoreInit/Wait/Signal()` |
| Mutexes | `Src/semaphore.c` | a semaphore and `owner` | `osMutexInit/Acquire/Release()` |
| Statistics | `Src/rtos.c` | `run_ticks`, `run_count`, stack paint | `osGetTaskStats()` |
| Demo | `Src/main.c` | four tasks, one semaphore, its two counters, the LED | `task_led/counter/consumer/idle` |
| Reset handler, linker script | `Startup/startup_stm32c031c6tx.s`, the `.ld` file | `.data`, `.bss` | `Reset_Handler` |
| Clock and GPIO setup | `Src/clock.c`, `Src/main.c` | `ACR`, `RCC`, PA5, SysTick and priority registers, `SystemCoreClock` | `SystemClock_Config()`, `GPIO_Init()`, `SysTick_Init()` |
| C library heap | `Src/sysmem.c` | `__sbrk_heap_end` | `_sbrk()` |
| Not modelled | `Src/syscalls.c`, vector table, `Debug/`, `.metadata/` | none | stubs, a constant table, generated files |

**How the parts interact.** Everything meets in `task_pool[].state` and in one
bit, `PENDSVSET`. Thread code (the API calls) writes states inside
`CPSID I .. CPSIE I` and then pends PendSV. `SysTick_Handler` runs above thread
code and above PendSV: it wakes sleepers and pends PendSV. Any other interrupt
may call `osSemaphoreSignal()` ("Callable from both task context and ISR
context"). PendSV is the lowest exception; it masks interrupts, calls
`os_schedule()` and returns into another task.

**What is hard.** No data structure here is large; all the difficulty is in the
order of small steps:

* the window between the `CPSIE I` of `osDelay()`, `osSemaphoreWait()` and
  `osSemaphoreSignal()` and their `trigger_pendsv()`, in which a tick may
  switch tasks. A task is then SLEEPING or BLOCKED while it executes, is
  dispatched later in the middle of the call, and yields a second time;
* the window between the entry of PendSV, which clears `PENDSVSET`, and its
  `CPSID I`, in which PendSV may be pended again and `os_schedule()` runs twice
  in a row;
* the hand-off of a permit: the count stays 0, the waiter has the permit but has
  not run yet;
* `owner`, which lags behind the semaphore inside a mutex at both ends;
* `sys_tick`, which wraps; delays near half its range;
* the round-robin position, which the tasks of all levels share;
* the boot: RAM keeps `rtos_started`, the heap end and everything else across a
  reset, the hardware answers register writes in its own time, and SysTick
  counts before the kernel exists.

**What makes each part correct.** Scheduler: the loops compute the documented
policy. Kernel: states agree with the CPU, strict priority, exact delays, fair
turns inside a level. Semaphore: it is the textbook counting semaphore, loses no
wake-up and its queue fits. Mutex: it is a lock, and its permit is never
duplicated or lost. All of them: every call returns when it should. Context
switch: a task resumes with its own registers and stack. Statistics: the
reported mark lies between the true ones at the start and at the end of the call.
Boot: `main()` finds every static initialised, the flash is never too slow for the
clock, a tick is a millisecond, no context switch comes before `osStart()`, and the
heap stays below the stack. Demo: the two counters stay in lock-step and everybody
goes on for ever.

The `hazards` list of `PROJECT.json` names each of these at its line, with the
property that covers it.

## 2. Modules

    TaskPool <- Scheduler <------ SchedulerProofs
       ^                                |
       |   TaskPoolProofs <-------------+
       |        ^                       v
       +--- Kernel <---------------- KernelProofs
               ^                        ^      ^
               +--- Stats <---------- StatsProofs
               |                               |  (INSTANCE)
               +--- Rtos <------------- RtosProofs
                     ^                         ^
                     +--- Demo <--------- DemoProofs

    ContextSwitch <--- ContextSwitchProofs
    Boot <------------ BootProofs

An arrow points at what a module extends. `Rtos` also INSTANCEs `Kernel`,
`AbstractSemaphore` and `AbstractLock`, `ContextSwitch` `AbstractTasks`, and `Demo`
`AbstractBlink`, as refinement targets.

| Module | Models | Notes |
|---|---|---|
| `TaskPool` | the TCB pool; one call of `os_schedule()` as the operator `AfterSchedule` | pure operators, no state; a task is its index in `task_pool[]` |
| `Scheduler` | `os_schedule()` one loop iteration per step | `Call` puts any pool a caller can pass in place; `entry` is a history variable |
| `Kernel` | `main()` up to `osStart()`, `SysTick_Handler`, PendSV, `osDelay()`, and what semaphores do to task states | see the table below |
| `Rtos` | all of `semaphore.c` on top of `Kernel` | tasks and an interrupt handler are the clients |
| `AbstractSemaphore` | what `osSemaphoreWait/Signal` promise | asking, returning on a permit, adding a permit |
| `AbstractLock` | what `osMutexAcquire/Release` promise | requesting, taking a free lock, dropping |
| `Stats` | run-time accounting in `SysTick_Handler` and `os_schedule()`, `osGetTaskStats()` | the accounting is conjoined to `Kernel`'s actions |
| `ContextSwitch` | registers, stacks and PSP: `os_task_stack_init()`, `osTaskCreate()` with its traps, `_rtos_start`, `PendSV_Handler` | stands alone: which task is picked is left open |
| `AbstractTasks` | what a context switch promises | one context per task |
| `Boot` | a reset, `Reset_Handler`, the hardware setup of `main()`, `_sbrk()` | the hardware is modelled as far as the code waits for it |
| `Demo` | the four tasks of `main.c`, statement by statement | every call is one of `Rtos` |
| `AbstractBlink` | what the comments of `main.c` promise of its demonstration | a round of switching on, switching off, one signal, one increment |
| `MCScheduler`, `MCKernel`, `MCRtos`, `MCStats`, `MCContextSwitch`, `MCBoot`, `MCDemo` | instances for TLC | task tables, what each task calls, a memory layout |
| `TaskPoolProofs`, `SchedulerProofs`, `KernelProofs`, `RtosProofs`, `DemoProofs`, `StatsProofs`, `ContextSwitchProofs`, `BootProofs` | theorems | section 5 |

### Kernel: state and actions against the code

`state`, `wake_tick`, `sys_tick`, `task_count`, `rtos_started` are the variables of
the same names. `current` is `current_task` and `current_task_index` at once:
every assignment sets both, except in `osTaskCreate()`, where the index is still
0 and the pointer becomes slot 0. `pendsv` is `PENDSVSET`; `in_pendsv` says that
PendSV was entered and `CPSID I` not yet executed. `pc[t]` says where a task is
in a kernel call. `remaining[t]` is a history variable: the ticks still owed to
the last `osDelay()` of t, counted down by each tick and read by no action.

| Action | Code |
|---|---|
| `TaskCreate`, `OsStart` | `osTaskCreate()` (the accepted path), `osStart()` with `_rtos_start` |
| `SysTick` | `SysTick_Handler()` with its wake-up loop and the pend |
| `PendSVEnter` | the CPU takes the exception and clears `PENDSVSET` |
| `PendSVSwitch` | `CPSID I .. CPSIE I` of `PendSV_Handler`, `os_schedule()` included |
| `OsDelay`, then `Yield` | the critical section of `osDelay()`, then `trigger_pendsv()` |
| `Block`, `ReadyByTask`, `ReadyByIsr` | what the critical sections of `osSemaphoreWait()` and `osSemaphoreSignal()` do to states |

*Atomicity.* What runs under `CPSID I` is one action. So is `SysTick_Handler`:
an interrupt above it may turn BLOCKED into READY, which its loop neither reads
nor writes. Thread code runs (`Executing`) only when no PendSV is pending or
entered, because the hardware would take it first. A tick may come at any
moment, several times before PendSV gets in: more than 48 MHz hardware does, so
safety results carry over.

### Rtos: state and actions against the code

`count`, `owner` are the fields; `waiting[s]` is `waiting[0 .. wait_count-1]` as
a sequence. A mutex and the semaphore inside it share a name. `obj[t]` is the
argument of the call t is in. `osSemaphoreWait()` is `WaitFast` or `WaitBlock`,
`WaitYield`, `WaitReturn`; inside `osMutexAcquire()` it goes on to `SetOwner`
instead. `osSemaphoreSignal()` is `Signal` (from a task) or `IsrSignal`, each
`HandOff` with a yield or `Post`. `osMutexRelease()` is `MutexRelease` followed by
`Signal`, or `ReleaseTrap`. `Disciplined` names the tasks that use mutexes
properly; the others call anything at any time.

### ContextSwitch: state and actions against the code

The unit of memory is a block of four words, because that is what the code
moves at a time: `STMIA`/`LDMIA {R4-R7}`, the same after moving R8-R11 through
R4-R7, and the two halves of the frame the CPU pushes. `mem` holds
`os_dummy_stack` (blocks 0 and 1) and then the task stacks one behind the other,
so that a write that leaves its stack lands in a neighbour. `reg` has the four
register groups, `saved_sp` is `task_pool[].sp`, `r0` is R0 of the handler.

| Action | Code |
|---|---|
| `TaskCreate`, `CreateTrap` | `osTaskCreate()`: the painted stack with both frames, or a guard that halts the CPU |
| `OsStart` | `osStart()` and `_rtos_start` |
| `Compute`, `Push`, `Pop`, `TriggerPendSV`, `TaskExit` | thread code of a task; returning from the task function lands in `os_task_exit()` |
| `Interrupt`, `NestedInterrupt` | any other handler, over thread code or in the unmasked windows of PendSV; may pend PendSV |
| `PendSVEnter` | exception entry: R0-R3, R12, LR, PC, xPSR go to the stack, scratch registers are lost |
| `CheckStarted`, `SaveLow`, `MoveHigh`, `SaveHigh` | `CPSID I`, the first-switch guard, `pendsv_save` |
| `Pick` | `os_schedule()`; R4, borrowed for EXC_RETURN, is clobbered |
| `LoadHigh`, `MoveBack`, `LoadLow`, `SetPSP` | `pendsv_restore` up to `CPSIE I` |
| `ExceptionReturn`, `TailChain` | `BX LR`: the frame is popped, or a PendSV pended meanwhile is taken with the frame in place |

Task code is assumed to keep room for one frame (16 words) below its own stack
use; that is the guard of `Push` and the only assumption on applications.

### Stats: state and actions against the code

`run_ticks`, `run_count` are the fields of the TCBs; `written[t]` is the set
of words of t's stack that no longer carry the sentinel, counted from
`stack_base[0]`; `Mark(t)` is the true high-water mark. `CountedCreate`, `CountedTick`,
`CountedSwitch` are `Kernel`'s actions with the accounting the same code does;
`UseStack` lets the task on the CPU write any set of words at once, as a `PUSH`, an
exception frame or the `STMIA` of PendSV does, and leave gaps (locals never
written). `osGetTaskStats()` is `Snapshot` (guard and masked part), one `ScanWord`
per loop iteration, `Return`; ticks and other tasks come in between. `marks` is a
history variable: what the true mark was at each step of the call in progress.

### Boot: state and actions against the code

`ram` holds `.data` and `.bss`, one word per address, over the linker script's
symbols; `r2`, `r3` are the registers of the loops of `Reset_Handler`. `acr` is
what was written to `ACR.LATENCY` and `latency` what is in effect; `gpioaen` and
`gate` likewise for the clock of port A, which `ReadBack` does not wait for: the
code reads the register once and looks at nothing. `load`, `ticking`, `shpr3`, `pendsv` are
the SysTick and system control registers.

| Action | Code |
|---|---|
| `Reset` | a reset at any moment: registers take their reset values, RAM stays |
| `CopyDataInit`, `CopyDone`, `FillZerobss`, `FillDone` | the two loops of `Reset_Handler`, a word per step |
| `SetLatency`, `ConfirmLatency`, `ClearDivider`, `AwaitHsi` | `SystemClock_Config()` |
| `EnableGpioA`, `ReadBack`, `ConfigurePin` | `GPIO_Init()` |
| `SetReload`, `EnableSysTick`, `SetPriorities`, `OsStart` | `SysTick_Init()` and the rest of `main()`, which `Kernel` has in detail |
| `LatencyTakesEffect`, `HsiStabilises`, `GateOpens` | the hardware, when it likes |
| `SysTick`, `PendSV` | the handlers as far as `rtos_started` and `PENDSVSET` go |
| `TaskWrites`, `Sbrk` | a running program: it leaves anything in RAM, and the C library asks for heap |

### Demo: state and actions against the code

`line[t]` is the next statement of task t; a call of the RTOS is `Rtos`'s own
action conjoined with the step to the next line, and the task is back at `"app"`
when the call returns. `sem_signal_count` and `sem_consume_count` are the
globals, modulo `CountRange`; `led` is the level of PA5. `task_idle()` only
executes `WFI` and has no step.

In `Kernel` and `Rtos` the application is left open instead: in `"app"` a task may
make any call its code contains (`Calls`, `Uses`) or none.

## 3. What is checked

Passing runs:

| Run | Shows | Size |
|---|---|---|
| `scheduler` | from every pool a caller can pass, the loops choose what `AfterSchedule` says (`LoopsMeetPolicy`), the fallback when nothing is READY included | 4 tasks, 5,885 states |
| `kernel` | `RunningMatchesCPU`, `HighestPriorityRuns`, `DelayExact`, `RoundRobinProgress` on the demo's task table with ticks, interrupt signals and all windows | 4 tasks, 181,278 states |
| `rtos_crowd` | `BlockedIffQueued`, `NoLostWakeup`, `QueueFits`, `OnePermitPerMutex`, `OnlyOwnerReleases`, `FirstComeFirstServed` (nobody overtakes a waiting task, in the queue or by a permit past it), `TrapStopsLower` (what a careless release costs the tasks below), and the refinements of `AbstractLock`, `AbstractSemaphore` and `Kernel` | 4 tasks, one of them undisciplined, 1 semaphore, 1 mutex, interrupt signals, 172,220 states |
| `rtos_acquire` | under fairness: `AcquireReturns`; `DelayReturnsToTop` above two tasks that never yield; `FairWithinLevel` of these two once the top task blocks for good | 4 tasks, 2,606 states |
| `context_switch` | `ImplementsTasks`: every task resumes with its own registers and stack; `WritesStayInside`: nothing is written outside the stack of the task on the CPU, and before the first dispatch not beyond `os_dummy_stack` | 2 tasks, stacks of 20 words, 879,101 states |
| `stats` | `MarkIsBracketed`: the reported high-water mark is neither below the true one at the start of the call nor above the true one at its end, so exact for a stack that is quiet; `OnlyDispatchedPay`: no task is charged before it was dispatched | 2 tasks, 316,320 states |
| `boot` | `StaticsInitialised`, `WaitStateInTime`, `TickIsOneMillisecond`, `NoSwitchBeforeOsStart`, `HeapStaysInPlace` through resets at any moment, and `BootCompletes` unless resets never stop | 7 words of RAM, 1,302 states |
| `demo` | `LockStep` of the two counters, `NoStoredPermit` in `sem_blink`, `ImplementsBlink`: blinks, signals and increments alternate strictly; and under fairness `EverybodyProgresses` | the application of `main.c`, 21,194 states |

Runs that end in a counterexample, each against a sentence of the repository:

| Run | The sentence | What the code does |
|---|---|---|
| `kernel_starvation` | `scheduler.c:97` "Tasks at the same priority level share time slices equally" | the round-robin position is that of the last task of *any* level; a periodic higher task resets it, one of two busy equals runs for ever and the other never |
| `kernel_no_idle` | `scheduler.c:120` "otherwise leave the state alone ... and wait for the next SysTick or semaphore signal" | nothing waits: PendSV returns into the sleeping task, whose `osDelay()` ends early. Needs an application without an idle task |
| `kernel_long_delay` | `Inc/rtos.h:47` "for at least `ticks` SysTick periods" | a delay of 2^31+2 ticks or more ends at the next tick |
| `stats_mark` | `rtos.c:351` "a mid-scan race is harmless — the worst case is a one-tick stale value" | a stale value was true once; a push of several words behind the scan and ahead of it makes the scan stop at a word between the old mark and the new one and report a mark that never was. `MarkIsBracketed` bounds the error |

`FairWithinLevel` and `RoundRobinProgress` say what the code has of `FairShare`:
two runnable tasks of one level share the CPU once only their level is dispatched,
and *within* a run of dispatches on one level, whoever is passed over gets
closer. It is a task of another level coming and going that breaks it.

Four comments do not match the code and need no run to see it: `rtos.c:118`
("ensures task[0] is chosen first": on `main.c`'s table the first dispatch is
task 2, which has the highest priority), `Inc/rtos.h:47` ("at least `ticks` SysTick
periods": what `DelayExact` counts, like the code, is tick interrupts, the first of
which may come right behind the call, so that `osDelay(n)` can last little more than
n - 1 periods), `Inc/rtos.h:87` ("Block if already owned by another task":
`osMutexAcquire()` does not look at `owner`, so the owner's own second call blocks as
well, for ever), and `Inc/rtos.h:112` ("All fields are
consistent with each other": the stack is scanned after the masked part, as
`rtos.c:350` says).

### Bounds, and why they are enough

* Tasks: 3 or 4. Four is the demo's table, with two tasks on one level between a
  higher and a lower one, so that both passes of the scheduler, wrap-around of
  pass 2 and preemption from either side occur. What does not depend on small
  numbers is proved (section 5).
* `HalfRange` stands for 2^31: 1, 2 or 3 in the runs, so that `sys_tick` wraps
  after 2 to 6 ticks and the longest delay the comparison can represent
  (`HalfRange + 1`) is among the arguments. `Delays` is the set of arguments:
  0 (the early return), 1 and the longest one in `kernel`, one beyond it in
  `kernel_long_delay`.
* `MaxCount` caps the count of a plain semaphore at 1: the cases of the code are
  0 and more than 0. The count of a mutex has no cap; that it never
  exceeds 1 is `OnePermitPerMutex`.
* `context_switch`: two tasks are enough for every pair of outgoing and incoming
  (the same one included); five blocks of stack are the frame of 16 words and
  room for one pushed group. `Versions` has two values, so that a register can
  change between two saves.
* `stats`: stacks of three words, one of them the initial frame, so that the
  scan ends at once, in the middle and at the frame, that one push can land on both
  sides of the scan, and that a gap can be left between two written words (four
  words give 2,427,784 states and the same result); `HalfRange` 1.
* `boot`: two words of `.data`, a word of padding, three of `.bss`, padding, and
  four words of RAM behind them, two of them the reserved stack; sections of
  different length, so that a loop that takes the other's bound or register is
  seen. RAM holds 0 or 7 at power-on and after a run; `_sbrk()` is asked for -1,
  0, 1 and 3 words, so that the heap can be refused, filled exactly and given
  back.
* `demo`: delays of one tick for 500 and 10, `HalfRange` 1 and counters modulo
  3. With delays of 3 and 1 ticks and `HalfRange` 2 the safety properties hold as
  well (178,396 states); that run is not kept.
* `CHECK_DEADLOCK FALSE` only in `context_switch`, where `CreateTrap` and
  `TaskExit` halt the CPU as the code does. Elsewhere the tick never stops.

### Fairness

Only the liveness runs assume fairness, and only what hardware and clients
justify:

* `WF` on `Main`, `SysTick`, `PendSVEnter`, `PendSVSwitch`: code runs, the timer
  ticks, a pending exception is taken.
* `SF(PendSVSwitch /\ ~pendsv)`: not every PendSV is hit by a tick in the few
  cycles between its entry and `CPSID I`. The tick comes every 48,000 cycles, so
  a second one cannot hit the PendSV that the first one caused.
* `SF` on a task's steps inside a kernel call: they are enabled only while the
  task has the CPU, ticks take it away and give it back, and a slice is far
  longer than the few instructions left in the call.
* `Rtos` states the PendSV assumption per task (`DispatchForGood`), because a
  tick must not single out one task's dispatches.
* `SF(MutexRelease)` of disciplined tasks: the client's promise that owners
  release in the end. Nothing is assumed of what a task does outside calls.

* `Boot`: `WF` on the boot code, which no handler but SysTick interrupts, and on
  the two answers of the hardware it polls for. A reset may come for ever, and `BootCompletes` says
  so.
* `Demo`: the assumptions of `Rtos`, and `SF` on the statements of each task, for
  the same reason as on the steps inside a call.

`AcquireReturns` has a condition: that tasks of higher levels are not dispatched
for ever. Without it the property is false by design: with no priority
inheritance (`Inc/semaphore.h`: "future enhancement") a task of middle priority
keeps the owner from running.

## 4. Refinements

* `Scheduler` computes `TaskPool!AfterSchedule` (`LoopsMeetPolicy`), which is why
  `Kernel` may take it in one step: interrupts are masked throughout.
* `Rtos` implements `Kernel` (`ImplementsKernel`, mapping `KernelPc`): whatever
  `Kernel` guarantees of task states holds in the system with real wait queues.
* `Rtos` implements `AbstractSemaphore` with
  `permits = count + number of waiters that were handed a permit and have not
  returned`, and `AbstractLock` with `holder = owner`.
* `ContextSwitch` implements `AbstractTasks`: a task's context is in memory at
  `saved_sp` while it is switched out, in the registers while it runs, and
  partly in both during `pendsv_save` (`ContextOf`). During the restore it still
  counts as in memory, which the code leaves intact until the return.
* `Demo` implements `Rtos`: `main.c` uses the RTOS through its calls only. It also
  implements `AbstractBlink`, the round that `main.c` describes ("led-signals ->
  consumer-increments -> led-resumes", "wakes exactly once per blink"), with the
  phase read off the counters and the next line of `task_led` (`BlinkPhase`).

All of them are also proved for every instance (section 5).

## 5. What is proved

TLAPS checks every theorem from the named assumptions on constants only:
1 to `MAX_TASKS` tasks with byte priorities (`PoolAssumption`), any positive
`HalfRange`, any delays a `uint32_t` can hold and any set of calls per task
(`KernelAssumption`), any semaphores and mutexes (`RtosAssumption`), any stack
size (`StatsAssumption`, `ContextAssumption`), any memory layout the linker script can produce
(`LayoutAssumption`). `DemoAssumption` fixes the task table of `main.c` and leaves its delays,
the tick range and the counter range open.

| Theorem | Statement |
|---|---|
| `SchedulerProofs!TypeCorrect` | `Spec => []TypeOK`: loop counters and indices stay in range |
| `SchedulerProofs!PolicyCorrect` | `Spec => []LoopsMeetPolicy`: the loops compute `AfterSchedule` |
| `SchedulerProofs!FallbackCorrect` | pass 2 always finds the level pass 1 found |
| `KernelProofs!KernelTypeCorrect` | `KernelSpec => []TypeOK` |
| `KernelProofs!RoundRobin` | `KernelSpec => RoundRobinProgress` |
| `KernelProofs!CpuCorrect` | `KernelSpec => []RunningMatchesCPU` † |
| `KernelProofs!StrictPriority` | `KernelSpec => []HighestPriorityRuns` † |
| `KernelProofs!ExactDelays` | `KernelSpec => []DelayExact` † |
| `KernelProofs!NoEarlyWakeUp` | `KernelSpec => NeverWakesEarly` † |
| `KernelProofs!FallbackWaits` | `KernelSpec => []WaitsForWakeUp` † |
| `KernelProofs!LongDelaysEndAtOnce` | every delay above 2^31 + 1 ends at the next tick, with ticks still owed |
| `RtosProofs!RtosTypeCorrect` | `Spec => []RtosTypeOK` † |
| `RtosProofs!QueuesCorrect` | `Spec => []BlockedIffQueued` † |
| `RtosProofs!WakeupsAreNotLost` | `Spec => []NoLostWakeup` † |
| `RtosProofs!QueuesFit` | `Spec => []QueueFits` † |
| `RtosProofs!RtosImplementsKernel` | `Spec => ImplementsKernel` † |
| `RtosProofs!KernelGuaranteesHold` | what `KernelProofs` proves, of the system with real queues † |
| `RtosProofs!OnePermit` | `Spec => []OnePermitPerMutex` † |
| `RtosProofs!OwnersAreNotRobbed` | `Spec => OnlyOwnerReleases` † |
| `RtosProofs!MutexesAreLocks` | `Spec => ImplementsLock` † |
| `RtosProofs!SemaphoresAreTextbook` | `Spec => ImplementsSemaphore` † |
| `RtosProofs!ServiceIsFifo` | `Spec => FirstComeFirstServed` † |
| `RtosProofs!TrapIsContained` | `Spec => []TrapStopsLower` † |
| `DemoProofs!DemoImplementsRtos` | `DemoSpec => Spec` |
| `DemoProofs!CountersInLockStep` | `DemoSpec => []LockStep` ‡ |
| `DemoProofs!PermitsAreNotStored` | `DemoSpec => []NoStoredPermit` ‡ |
| `DemoProofs!DemoImplementsBlink` | `DemoSpec => ImplementsBlink` ‡ |
| `StatsProofs!StatsTypeCorrect` | `Spec => []StatsTypeOK` |
| `StatsProofs!ChargesAreEarned` | `Spec => []OnlyDispatchedPay` |
| `StatsProofs!MarksAreBracketed` | `Spec => []MarkIsBracketed` |
| `ContextSwitchProofs!ContextTypeCorrect` | `Spec => []TypeOK` |
| `ContextSwitchProofs!WritesCorrect` | `Spec => WritesStayInside` |
| `ContextSwitchProofs!SwitchesImplementTasks` | `Spec => ImplementsTasks` |
| `BootProofs!BootTypeCorrect` | `Spec => []TypeOK` |
| `BootProofs!StaticsCorrect`, `WaitStateCorrect`, `TickCorrect`, `NoEarlySwitch`, `HeapCorrect` | `Spec => []` the five invariants of the `boot` run |

† under `HasIdleTask` (some task never sleeps or blocks, as `task_idle` of
`main.c` must) and `ShortDelays` (no delay above 2^31 + 1). Both are needed:
`kernel_no_idle` and `kernel_long_delay` are the counterexamples without them. The
bound of `ShortDelays` is exact: `LongDelaysEndAtOnce` shows that *no* longer delay
works, whatever the tick at the call. ‡ under `ShortDelays` only; `task_idle` makes
`HasIdleTask` true of the demo (`DemoIdle`).

Three of the properties proved are in no passing run: `FallbackOnlyWhenNoneReady`
follows from `LoopsMeetPolicy`, `NeverWakesEarly` from `DelayExact`, and
`WaitsForWakeUp`, like `NeverWakesEarly`, is what a violating run refutes for an
application outside the assumptions.

**Pool lemmas** (`TaskPoolProofs`). Pass 2 visits every slot exactly once
(`SlotValue`, `EverySlotScanned`), so its first hit exists (`LeastElement`,
`FirstHitMeetsTop`) and is a task of the top level (`NextTaskIsTop`);
`PassedOverGetsCloser` is the arithmetic of a turn.

**Scheduler.** `LoopsMeetPolicy` speaks of the end of the call only. The
inductive `Inv` adds what each loop has covered: in pass 1, `max_prio` is the
highest priority among the first `i` slots, or none of them is READY; in pass 2,
no slot visited so far is of the top level; and until the choice the pool is
the one at entry with the outgoing task released.

**Kernel.** `BaseInv` (types, boot phase, only the current task RUNNING) is
inductive without assumptions and carries `RoundRobin`. `KernelInv` adds
`IdleInv` (an idle task is READY or RUNNING, so the fallback never runs),
`CpuInv` (an executing task is RUNNING, or still leaving through `trigger_pendsv()`),
`DelayInv` (a sleeper's `wake_tick` is `sys_tick + remaining` modulo the range,
with `remaining` at most `HalfRange + 1`) and strict priority. `DelayExact` alone
is not inductive: it says nothing of `wake_tick`, on which the next tick
decides. Strict priority needs `CpuInv`: a SLEEPING or BLOCKED task in its window
also executes, and the tick or signal that readies another task must leave
PendSV pending.

**Queues.** `RtosInv` is the invariant of `KernelProofs` under the mapping
`KernelPc`, together with types, `CallInv` (a task stands in a call its code
contains), `QueueInv` (`BlockedIffQueued` said queue by queue) and `NoLostWakeup`.
The two halves need each other: a step of `Rtos` is a step of `Kernel` because
the queues hold BLOCKED tasks only, so that a hand-off readies a BLOCKED task;
and the queues stay right because `Kernel` lets no BLOCKED task run past its
wait. `QueueFits` follows with the idle task, which no queue holds: that leaves
at most `MAX_TASKS - 1` waiters.

**Mutexes.** `OnePermitPerMutex` is not inductive, because it does not say who
may still record itself as owner. `MutexInv` names three phases: the permit is in
`count`, or with a recorded owner, or in the hand of exactly one task, which was
given it and has not recorded it yet, or is giving it back. `MutexStep`
classifies all that any action of the system can do to a mutex (take, enqueue,
be handed, record, drop, give back); the three theorems follow from it, and the
one about `AbstractLock` with `holder = owner`.

**Semaphores.** `PlainStep` is the same classification for plain semaphores; with
it the permits of `AbstractSemaphore`, `count` and the hand-offs in flight, change
exactly as that specification says.

**Order.** `QueueEffect` says what a step does to one queue: it stays and nobody
gets a permit unless it is empty, a task is appended and nobody gets one, or the
head is taken and gets it. That no permit is taken from `count` while somebody
waits is `NoLostWakeup`: the order is not a matter of the queue alone. `AppendOrder` and
`TailOrder` are the facts about sequences behind it.

**Trap.** `TrapInv`: a task that spins in the trap is READY or RUNNING, because no
tick, signal or hand-off makes it anything else. Strict priority of the kernel does the rest.

**Demo.** `DemoStep` keeps `DemoInv`, on top of `RtosInv`. `LockStep` says nothing of
the moments when the consumer runs, and nothing of who is in the queue when
`task_led` signals. `DemoInv` adds where the consumer is: it holds a permit it has
not counted yet (`Woken`) only while `task_led` is past its signal and before its
next statement, and it never sleeps. The priorities enter in one lemma,
`ConsumerWaits`: while another task executes its own code the consumer can be
neither RUNNING nor READY (strict priority), nor SLEEPING, so it is BLOCKED, hence
in the queue of `sem_blink`, and alone. So every signal is a hand-off to the
consumer, no permit is stored, and each statement of `task_led` finds the counters
as `LockStep` says. `BlinkStep` reads the round off the same invariant; it needs
two different counts for `n` and `n + 1` modulo the range (`CountersWrap`), which
is where a range of 1 would fail.

**Statistics.** `PayInv`: behind the first switch the current task has been
dispatched. `ScanInv`: the present mark is among those seen, and so is one whose
word the scan has not passed. That word was written when the call began and stays
written, so the scan stops there at the latest and reports no less; and the word
it stops at is written, so that it reports no more than the present mark, which is
given by the deepest written word (`LeastWritten`).

**Context switch.** `Geometry` says where PSP, R0 and the saved stack pointers
are at each instruction group: a task on the CPU has room for a frame below PSP,
a parked one has its whole frame inside its stack, and before the first dispatch
PSP is in `os_dummy_stack`. It is inductive with the types, and every write falls
into the stack of the current task (`StepInside`). As stacks do not overlap
(`StacksApart`), no step changes the context of another task (`OthersKept`); for
the task on the CPU, `Contents` says which half of its registers is where during
the moves through R4-R7, which is what makes the context the same before and
after each group. A step of `ContextSwitch` then keeps all contexts, creates one,
or is work of the running task (`StepOnContexts`). `Runnable`, a created task has
a program counter, is needed for the return: `AbstractTasks` lets no task run
that was not created.

**Boot.** `BootInv` says per label what has been copied, filled, written and
confirmed: the words below the loop's register are initialised, and behind each
poll the hardware is in the state the poll waited for.

**Model-checked only.** Liveness under fairness (`FairWithinLevel`,
`DelayReturnsToTop`, `AcquireReturns`, `BootCompletes`, `EverybodyProgresses`): the
prover reasons neither about fairness nor about ENABLED. Every safety invariant,
action property and refinement of a passing run is proved.

## 6. What is not modelled, and why

* Single registers and words: `ContextSwitch` moves them in groups of four, as
  the code does. EXC_RETURN is always 0xFFFFFFFD and not a variable. The main
  stack, used by handlers only, is not in `mem`.
* Stack words overwritten with the sentinel value itself: the code cannot tell them
  from words nobody wrote, and `Stats` counts them as such.
* How long the clock gate of port A takes to open. The comment in `GPIO_Init()` says
  "at least 1 bus cycle", the code reads the register once; `GateOpens` may come at
  any time, and nothing is claimed of PA5.
* The stubs of `syscalls.c` (constants and pure I/O), the vector table and the
  default handler, which nothing enters. `Debug/`, `.metadata/`: generated.
* Registers that are written with their reset value or never waited for
  (`OTYPER`, `OSPEEDR`, `PUPDR`, the prefetch bit); the poll of `SWS`, which shows
  HSI from reset on.
* `errno` in `_sbrk()`, and increments that would take the heap below `_end`: the
  code does not test for them, and a C library that gives back no more than it got
  does not ask for them. The shipped kernel never allocates.
* `task2_counter`, which only a debugger reads.
* int32 overflow of `count` outside the demo (`NoStoredPermit` excludes it there)
  and unbounded priority inversion: no code here bounds or exercises them; they are
  hazards with a note.

## 7. Plan

Done: every component that has state, from the reset to the demo; the abstract
specifications and their refinements; the proofs of `Scheduler`, `Kernel`, `Rtos`
with its semaphores and mutexes, `Stats`, `ContextSwitch`, `Boot` and `Demo`.

Open: liveness, which stays with TLC.

## 8. Running the checks

In this directory: `tlc -config MCKernel.cfg MCKernel` and so on for each `.cfg`
(the module is the start of its name, up to `Scheduler`, `Kernel`, `Rtos`, `Stats`,
`ContextSwitch`, `Boot` or `Demo`); `tlapm KernelProofs.tla` and so on for each
module `*Proofs`.
Each mutant of `PROJECT.json` names a definition and the operator, defined just
before it, that replaces it by a plausible bug; the named property then fails.
