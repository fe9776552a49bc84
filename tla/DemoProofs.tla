----------------------------- MODULE DemoProofs -----------------------------
(***************************************************************************)
(* The shipped application, for every length of its delays, every range of *)
(* its counters and every width of the tick.                               *)
(***************************************************************************)
EXTENDS Demo, RtosProofs
-----------------------------------------------------------------------------
(* The application is a client of Rtos                                     *)

LEMMA DemoTable ==
  /\ Tasks = {Led, Counter, Consumer, Idle}
  /\ Priority = DemoPriority /\ Uses = DemoUses /\ Calls = DemoCalls
  /\ Sems = {sem_blink} /\ Mutexes = {} /\ IsrSems = {}
  /\ LedDelay \in Delays /\ CounterDelay \in Delays
  /\ CountRange \in Nat \ {0, 1}
<1>1. Tasks = 0 .. 3
  BY DemoAssumption DEF DemoAssumption, Tasks
<1> QED
  BY <1>1, DemoAssumption DEF DemoAssumption, Led, Counter, Consumer, Idle

LEMMA DemoIdle == HasIdleTask
<1>1. Idle \in Tasks /\ Calls[Idle] = {}
  BY DemoTable DEF DemoCalls, Led, Counter, Consumer, Idle
<1> QED
  BY <1>1 DEF HasIdleTask, IdleTasks

LEMMA ConsumerOnTop == \A t \in Tasks \ {Consumer} : Priority[t] < Priority[Consumer]
BY DemoTable DEF DemoPriority, Led, Counter, Consumer, Idle

\* The kernel actions and calls of the application are those of Rtos.
LEMMA DemoMaps == ASSUME [DemoNext]_allVars PROVE [Next]_vars
<1>1. CASE Background
  BY <1>1 DEF Background, Alone, Next, KernelStep, Handlers
<1>2. ASSUME NEW t \in Tasks, CallGoesOn(t)
      PROVE  Next
  BY <1>2 DEF CallGoesOn, Next, KernelStep, SemStep
<1>3. CASE LedStep
  <2>1. Led \in Tasks /\ LedDelay \in Delays /\ sem_blink \in Sems
    BY DemoTable
  <2> QED
    BY <1>3, <2>1
    DEF LedStep, SetLed, LedStaysOn, ClearLed, LedStaysOff, CountSignal, SignalBlink,
        Next, KernelStep, SemStep
<1>4. CASE CounterStep
  <2>1. Counter \in Tasks /\ CounterDelay \in Delays
    BY DemoTable
  <2> QED
    BY <1>4, <2>1 DEF CounterStep, CountUp, CounterSleeps, Next, KernelStep
<1>5. CASE ConsumerStep
  <2>1. Consumer \in Tasks /\ sem_blink \in Sems
    BY DemoTable
  <2> QED
    BY <1>5, <2>1 DEF ConsumerStep, AwaitBlink, CountConsume, Next, SemStep
<1>6. CASE UNCHANGED allVars
  BY <1>6 DEF allVars
<1> QED
  BY <1>1, <1>2, <1>3, <1>4, <1>5, <1>6 DEF DemoNext

\* main.c uses the RTOS only through its interface: every theorem about
\* Rtos holds of the shipped application.
THEOREM DemoImplementsRtos == DemoSpec => Spec
<1>1. DemoInit => Init
  BY DEF DemoInit
<1>2. [DemoNext]_allVars => [Next]_vars
  BY DemoMaps
<1> QED
  BY <1>1, <1>2, PTL DEF DemoSpec, Spec
-----------------------------------------------------------------------------
(* The lock-step as an inductive invariant                                 *)

LedLines == {"set", "delay_on", "clear", "delay_off", "count", "signal"}

LitLines == {"delay_on", "clear"}

\* Types, the modulo of the counters included.
DemoTypes ==
  /\ line \in [Tasks -> {"set", "delay_on", "clear", "delay_off", "count", "signal",
                         "delay", "wait", "consume"}]
  /\ led \in BOOLEAN
  /\ {sem_signal_count, sem_consume_count} \subseteq 0 .. CountRange - 1

LineInv ==
  /\ DemoTypes
  /\ led <=> line[Led] \in LitLines
  /\ line[Led] \in LedLines
  /\ line[Consumer] \in {"wait", "consume"}

\* Only the consumer ever waits for a permit, and never in any other way.
WaitInv ==
  /\ state[Consumer] # "SLEEPING"
  /\ pc[Consumer] \in {"app", "wait_yield", "wait_return"}
  /\ pc[Consumer] # "app" => line[Consumer] = "consume"
  /\ \A t \in Tasks \ {Consumer} : state[t] # "BLOCKED"

\* The consumer has been handed a permit that it has not counted yet.
Woken == line[Consumer] = "consume" /\ state[Consumer] # "BLOCKED"

\* While it has, task_led does not get past its signal.
CountInv ==
  /\ NoStoredPermit
  /\ Woken => line[Led] = "set"
  /\ sem_signal_count =
       IF Woken \/ line[Led] = "signal" THEN Increment(sem_consume_count)
                                        ELSE sem_consume_count

DemoInv == LineInv /\ WaitInv /\ CountInv

\* Strict priority: while another task executes its own code, the consumer
\* waits in the queue of sem_blink, alone.
LEMMA ConsumerWaits ==
  ASSUME RtosInv, DemoInv, NEW t \in Tasks \ {Consumer}, At(t, "app")
  PROVE  /\ state[Consumer] = "BLOCKED" /\ line[Consumer] = "consume" /\ ~Woken
         /\ waiting[sem_blink] # <<>> /\ Head(waiting[sem_blink]) = Consumer
<1>1. Consumer \in Tasks /\ Sems = {sem_blink} /\ sem_blink \in Sems
  BY DemoTable
<1>2. KP!Executing(t) /\ KernelPc[t] = "app" /\ t = current
  BY SameTasks, CallerFacts DEF FreeLabels, At
<1>3. state[Consumer] \in TaskState /\ state[Consumer] # "SLEEPING"
  BY <1>1, KernelTypes DEF DemoInv, WaitInv
<1>4. state[Consumer] # "RUNNING"
  BY <1>1, <1>2, SameTasks DEF RtosInv, KP!KernelInv, KP!BaseInv, KP!OnlyCurrentRuns
<1>5. state[Consumer] # "READY"
  <2>1. Priority[t] < Priority[Consumer] /\ Priority[t] \in Int /\ Priority[Consumer] \in Int
    BY <1>1, ConsumerOnTop, PoolAssumption DEF PoolAssumption
  <2>2. state[Consumer] = "READY" => Priority[Consumer] <= Priority[t]
    BY <1>1, <1>2, SameTasks DEF RtosInv, KP!KernelInv, KP!HighestPriorityRuns
  <2> QED
    BY <2>1, <2>2
<1>6. state[Consumer] = "BLOCKED"
  BY <1>3, <1>4, <1>5 DEF TaskState
<1>7. Consumer \in Waiters(sem_blink) /\ pc[Consumer] # "app"
  BY <1>1, <1>6, BlockedLabel DEF RtosInv, QueueInv
<1>8. waiting[sem_blink] # <<>>
  BY <1>7 DEF Waiters, ToSet
<1>9. Head(waiting[sem_blink]) = Consumer
  BY <1>1, <1>8, HeadIsBlocked DEF DemoInv, WaitInv
<1> QED
  BY <1>6, <1>7, <1>8, <1>9 DEF DemoInv, WaitInv, Woken

LEMMA FirstLines ==
  DemoInit => /\ line \in [Tasks -> {"set", "count", "wait"}]
              /\ line[Led] = "set" /\ line[Consumer] = "wait"
<1> SUFFICES ASSUME DemoInit
             PROVE  /\ line \in [Tasks -> {"set", "count", "wait"}]
                    /\ line[Led] = "set" /\ line[Consumer] = "wait"
  OBVIOUS
<1>1. line = [t \in Tasks |->
                CASE t = Led -> "set" [] t = Counter -> "count" [] OTHER -> "wait"]
  BY DEF DemoInit
<1>2. \A t \in Tasks : line[t] \in {"set", "count", "wait"}
  BY <1>1
<1>3. line[Led] = "set" /\ line[Consumer] = "wait"
  BY <1>1, DemoTable DEF Led, Counter, Consumer
<1> QED
  BY <1>1, <1>2, <1>3

LEMMA InitDemo == DemoInit => DemoInv
<1> SUFFICES ASSUME DemoInit
             PROVE  DemoInv
  OBVIOUS
<1>1. /\ \A t \in Tasks : state[t] = "READY" /\ pc[t] = "app"
      /\ count[sem_blink] = 0
  BY DemoTable, DemoAssumption DEF DemoAssumption, DemoInit, Init, KernelInit
<1>2. /\ line \in [Tasks -> {"set", "count", "wait"}]
      /\ line[Led] = "set" /\ line[Consumer] = "wait"
  BY FirstLines
<1>3. LineInv
  <2>1. 0 \in 0 .. CountRange - 1
    BY DemoTable
  <2>2. DemoTypes
    BY <1>2, <2>1 DEF DemoTypes, DemoInit
  <2> QED
    BY <1>2, <2>2 DEF LineInv, LedLines, LitLines, DemoInit
<1>4. WaitInv
  BY <1>1, DemoTable DEF WaitInv
<1>5. CountInv
  BY <1>1, <1>2 DEF CountInv, NoStoredPermit, Woken, DemoInit
<1> QED
  BY <1>3, <1>4, <1>5 DEF DemoInv

\* A step that is not a statement of a task, and leaves the consumer's wait
\* as it is.
LEMMA QuietStep ==
  ASSUME DemoInv, UNCHANGED <<demoVars, count>>,
         \A t \in Tasks : state'[t] = "BLOCKED" => state[t] = "BLOCKED",
         state[Consumer] = "BLOCKED" => state'[Consumer] = "BLOCKED",
         state'[Consumer] # "SLEEPING",
         \/ pc'[Consumer] = pc[Consumer]
         \/ pc[Consumer] # "app" /\ pc'[Consumer] \in {"app", "wait_return"}
  PROVE  DemoInv'
<1>1. LineInv'
  BY DEF DemoInv, LineInv, DemoTypes, demoVars, counters
<1>2. WaitInv'
  BY DEF DemoInv, WaitInv, demoVars
<1>3. Woken' <=> Woken
  BY DemoTable DEF Woken, demoVars
<1>4. CountInv'
  BY <1>3 DEF DemoInv, CountInv, NoStoredPermit, Increment, demoVars, counters
<1> QED
  BY <1>1, <1>2, <1>4 DEF DemoInv

LEMMA BackgroundStep == ASSUME RtosInv, DemoInv, Background PROVE DemoInv'
<1>1. (Main \/ Handlers) /\ UNCHANGED <<demoVars, count>>
  BY DEF Background, Alone, Handlers, semVars
<1>2. UNCHANGED pc
  BY <1>1 DEF Main, Handlers, TaskCreate, OsStart, SysTick, PendSVEnter, PendSVSwitch, taskVars
<1>3. Consumer \in Tasks /\ state[Consumer] # "SLEEPING"
  BY DemoTable DEF DemoInv, WaitInv
<1> QED
  BY <1>1, <1>2, <1>3, HandlersKeepWaits, QuietStep

LEMMA CallStep == ASSUME RtosInv, DemoInv, NEW t \in Tasks, CallGoesOn(t) PROVE DemoInv'
<1>1. Consumer \in Tasks /\ pc[Consumer] \in {"app", "wait_yield", "wait_return"}
      /\ state[Consumer] # "SLEEPING" /\ Mutexes = {}
  BY DemoTable DEF DemoInv, WaitInv
<1>2. pc \in [Tasks -> RtosLabels]
  BY KernelTypes
<1>3. /\ UNCHANGED <<demoVars, count, state>>
      /\ \/ Goto(t, "app") /\ pc[t] # "app"
         \/ Goto(t, AfterWait(obj[t])) /\ pc[t] = "wait_yield"
  BY DEF CallGoesOn, Yield, YieldFrom, WaitYield, WaitReturn, At, semVars
<1>4. \/ pc'[Consumer] = pc[Consumer]
      \/ pc[Consumer] # "app" /\ pc'[Consumer] \in {"app", "wait_return"}
  BY <1>1, <1>2, <1>3 DEF Goto, AfterWait
<1> QED
  BY <1>1, <1>3, <1>4, QuietStep

LEMMA NextLine ==
  ASSUME LineInv, NEW t \in Tasks, NEW here, NEW next, From(t, here, next)
  PROVE  line'[t] = next /\ \A u \in Tasks \ {t} : line'[u] = line[u]
BY DEF LineInv, DemoTypes, From

\* A statement of task_led or task_counter that does not touch the counters.
LEMMA SilentStatement ==
  ASSUME RtosInv, DemoInv, NEW t \in {Led, Counter}, NEW here, NEW next,
         From(t, here, next), led' \in BOOLEAN, UNCHANGED <<semVars, counters>>,
         UNCHANGED kernelVars \/ \E ticks \in Delays : OsDelay(t, ticks),
         IF t = Led
         THEN /\ next \in LedLines /\ "signal" \notin {here, next}
              /\ led' <=> next \in LitLines
         ELSE next \in {"count", "delay"} /\ UNCHANGED led
  PROVE  DemoInv'
<1>1. /\ Led \in Tasks /\ Counter \in Tasks /\ Consumer \in Tasks
      /\ Led # Counter /\ t \in Tasks \ {Consumer}
  BY DemoTable DEF Led, Counter, Consumer
<1>2. /\ state[Consumer] = "BLOCKED" /\ ~Woken /\ line[t] = here
  BY <1>1, ConsumerWaits DEF From
<1>3. /\ pc'[Consumer] = pc[Consumer] /\ state'[Consumer] = "BLOCKED"
      /\ \A u \in Tasks \ {Consumer} : state'[u] # "BLOCKED"
  <2>1. CASE UNCHANGED kernelVars
    BY <1>2, <2>1 DEF kernelVars, taskVars, DemoInv, WaitInv
  <2>2. CASE \E ticks \in Delays : OsDelay(t, ticks)
    BY <1>1, <1>2, <2>2, KernelTypes DEF OsDelay, Goto, DemoInv, WaitInv
  <2> QED
    BY <2>1, <2>2
<1>4. line'[t] = next /\ \A u \in Tasks \ {t} : line'[u] = line[u]
  BY <1>1, NextLine DEF DemoInv
<1>5. LineInv'
  BY <1>1, <1>4 DEF DemoInv, LineInv, LedLines, LitLines, DemoTypes, From, counters
<1>6. WaitInv'
  BY <1>1, <1>3, <1>4 DEF DemoInv, WaitInv
<1>7. CountInv'
  <2>1. ~Woken' /\ (line'[Led] = "signal" <=> line[Led] = "signal")
    BY <1>1, <1>2, <1>3, <1>4 DEF Woken
  <2> QED
    BY <1>2, <2>1 DEF DemoInv, CountInv, NoStoredPermit, Increment, semVars, counters
<1> QED
  BY <1>5, <1>6, <1>7 DEF DemoInv

LEMMA CountSignalStep == ASSUME RtosInv, DemoInv, CountSignal PROVE DemoInv'
<1>1. /\ Led \in Tasks /\ Consumer \in Tasks /\ Led \in Tasks \ {Consumer}
      /\ CountRange \in Nat \ {0, 1}
  BY DemoTable DEF Led, Consumer
<1>2. /\ state[Consumer] = "BLOCKED" /\ ~Woken /\ line[Led] = "count"
  BY <1>1, ConsumerWaits DEF CountSignal, From
<1>3. line'[Led] = "signal" /\ line'[Consumer] = line[Consumer]
  BY <1>1, NextLine DEF DemoInv, CountSignal
<1>4. UNCHANGED <<state, pc, count, sem_consume_count>>
  BY DEF CountSignal, vars, kernelVars, taskVars, semVars
<1>5. LineInv'
  <2>1. sem_signal_count' \in 0 .. CountRange - 1
    BY <1>1 DEF CountSignal, Increment, DemoInv, LineInv, DemoTypes
  <2> QED
    BY <1>1, <1>2, <1>3, <2>1
    DEF DemoInv, LineInv, LedLines, LitLines, DemoTypes, CountSignal, From
<1>6. WaitInv'
  BY <1>3, <1>4 DEF DemoInv, WaitInv
<1>7. CountInv'
  <2>1. ~Woken' /\ sem_signal_count = sem_consume_count
    BY <1>2, <1>3, <1>4 DEF DemoInv, CountInv, Woken
  <2> QED
    BY <1>3, <1>4, <2>1 DEF DemoInv, CountInv, NoStoredPermit, Increment, CountSignal
<1> QED
  BY <1>5, <1>6, <1>7 DEF DemoInv

\* The signal finds the consumer waiting and hands it the permit.
LEMMA SignalStep == ASSUME RtosInv, DemoInv, SignalBlink PROVE DemoInv'
<1>1. /\ Led \in Tasks /\ Consumer \in Tasks /\ Led \in Tasks \ {Consumer}
      /\ Led # Consumer
  BY DemoTable DEF Led, Consumer
<1>2. /\ state[Consumer] = "BLOCKED" /\ line[Consumer] = "consume" /\ ~Woken
      /\ waiting[sem_blink] # <<>> /\ Head(waiting[sem_blink]) = Consumer
      /\ line[Led] = "signal"
  BY <1>1, ConsumerWaits DEF SignalBlink, From
<1>3. HandOff(sem_blink) /\ Goto(Led, "signal_yield")
  BY <1>2 DEF SignalBlink, Signal, Post
<1>4. /\ state' = [state EXCEPT ![Consumer] = "READY"] /\ UNCHANGED count
      /\ state'[Consumer] = "READY" /\ pc'[Consumer] = pc[Consumer]
      /\ \A u \in Tasks \ {Consumer} : state'[u] = state[u]
  BY <1>1, <1>2, <1>3, KernelTypes DEF HandOff, Goto
<1>5. line'[Led] = "set" /\ line'[Consumer] = "consume"
  BY <1>1, <1>2, NextLine DEF DemoInv, SignalBlink
<1>6. LineInv'
  BY <1>1, <1>2, <1>5
  DEF DemoInv, LineInv, LedLines, LitLines, DemoTypes, SignalBlink, From, counters
<1>7. WaitInv'
  BY <1>4, <1>5 DEF DemoInv, WaitInv
<1>8. CountInv'
  BY <1>2, <1>4, <1>5
  DEF DemoInv, CountInv, NoStoredPermit, Woken, Increment, SignalBlink, counters
<1> QED
  BY <1>6, <1>7, <1>8 DEF DemoInv

LEMMA AwaitStep == ASSUME RtosInv, DemoInv, AwaitBlink PROVE DemoInv'
<1>1. /\ Led \in Tasks /\ Consumer \in Tasks /\ Led # Consumer
  BY DemoTable DEF Led, Consumer
<1>2. WaitBlock(Consumer, sem_blink) /\ line[Consumer] = "wait"
  BY DEF AwaitBlink, WaitFast, DemoInv, CountInv, NoStoredPermit, From
<1>3. /\ state' = [state EXCEPT ![Consumer] = "BLOCKED"] /\ UNCHANGED count
      /\ pc' = [pc EXCEPT ![Consumer] = "wait_yield"]
  BY <1>2 DEF WaitBlock, CallsWait, At, Executing, Goto
<1>4. /\ state'[Consumer] = "BLOCKED" /\ pc'[Consumer] = "wait_yield"
      /\ \A u \in Tasks \ {Consumer} : state'[u] = state[u]
  BY <1>1, <1>3, KernelTypes
<1>5. line'[Consumer] = "consume" /\ line'[Led] = line[Led]
  BY <1>1, NextLine DEF DemoInv, AwaitBlink
<1>6. LineInv'
  BY <1>1, <1>5 DEF DemoInv, LineInv, DemoTypes, AwaitBlink, From, counters
<1>7. WaitInv'
  BY <1>4, <1>5 DEF DemoInv, WaitInv
<1>8. CountInv'
  BY <1>2, <1>3, <1>4, <1>5
  DEF DemoInv, CountInv, NoStoredPermit, Woken, Increment, AwaitBlink, counters
<1> QED
  BY <1>6, <1>7, <1>8 DEF DemoInv

LEMMA CountConsumeStep == ASSUME RtosInv, DemoInv, CountConsume PROVE DemoInv'
<1>1. /\ Led \in Tasks /\ Consumer \in Tasks /\ Led # Consumer
      /\ CountRange \in Nat \ {0, 1}
  BY DemoTable DEF Led, Consumer
<1>2. state[Consumer] = "RUNNING" /\ pc[Consumer] = "app" /\ line[Consumer] = "consume"
  BY <1>1, CallerFacts DEF CountConsume, From, FreeLabels, At
<1>3. UNCHANGED <<state, pc, count, sem_signal_count>>
  BY DEF CountConsume, vars, kernelVars, taskVars, semVars
<1>4. line'[Consumer] = "wait" /\ line'[Led] = line[Led]
  BY <1>1, NextLine DEF DemoInv, CountConsume
<1>5. LineInv'
  <2>1. sem_consume_count' \in 0 .. CountRange - 1
    BY <1>1 DEF CountConsume, Increment, DemoInv, LineInv, DemoTypes
  <2> QED
    BY <1>1, <1>4, <2>1 DEF DemoInv, LineInv, DemoTypes, CountConsume, From
<1>6. WaitInv'
  BY <1>2, <1>3 DEF DemoInv, WaitInv
<1>7. CountInv'
  <2>1. Woken /\ ~Woken' /\ line'[Led] = "set"
    BY <1>2, <1>4 DEF Woken, DemoInv, CountInv
  <2> QED
    BY <1>3, <2>1 DEF DemoInv, CountInv, NoStoredPermit, CountConsume
<1> QED
  BY <1>5, <1>6, <1>7 DEF DemoInv

LEMMA DemoStep == RtosInv /\ DemoInv /\ [DemoNext]_allVars => DemoInv'
<1> SUFFICES ASSUME RtosInv, DemoInv, [DemoNext]_allVars
             PROVE  DemoInv'
  OBVIOUS
<1>1. LedDelay \in Delays /\ CounterDelay \in Delays /\ Led # Counter
  BY DemoTable DEF Led, Counter
<1>2. CASE SetLed \/ ClearLed
  BY <1>2, SilentStatement DEF SetLed, ClearLed, LedLines, LitLines, vars
<1>3. CASE LedStaysOn \/ LedStaysOff
  <2>1. led \in BOOLEAN /\ (led <=> line[Led] \in LitLines)
    BY DEF DemoInv, LineInv, DemoTypes
  <2> QED
    BY <1>1, <1>3, <2>1, SilentStatement
    DEF LedStaysOn, LedStaysOff, LedLines, LitLines, From
<1>4. CASE CounterStep
  <2>1. led \in BOOLEAN
    BY DEF DemoInv, LineInv, DemoTypes
  <2> QED
    BY <1>1, <1>4, <2>1, SilentStatement DEF CounterStep, CountUp, CounterSleeps, vars
<1>5. CASE UNCHANGED allVars
  BY <1>5, QuietStep
  DEF allVars, vars, kernelVars, taskVars, semVars, DemoInv, WaitInv
<1> QED
  BY <1>2, <1>3, <1>4, <1>5, BackgroundStep, CallStep, CountSignalStep, SignalStep,
     AwaitStep, CountConsumeStep
  DEF DemoNext, LedStep, ConsumerStep

LEMMA DemoInvariance ==
  ASSUME ShortDelays
  PROVE  DemoSpec => [](RtosInv /\ DemoInv)
<1>1. DemoSpec => []RtosInv
  BY DemoIdle, DemoImplementsRtos, RtosInvariance, PTL
<1>2. DemoInit => DemoInv
  BY InitDemo
<1>3. RtosInv /\ DemoInv /\ [DemoNext]_allVars => DemoInv'
  BY DemoStep
<1> QED
  BY <1>1, <1>2, <1>3, PTL DEF DemoSpec
-----------------------------------------------------------------------------
(* Blinks, signals and increments alternate                                *)

LEMMA CountersWrap ==
  ASSUME NEW n \in 0 .. CountRange - 1
  PROVE  Increment(n) # n
<1>1. CountRange \in Nat \ {0, 1}
  BY DemoTable
<1>2. CASE n = CountRange - 1
  BY <1>1, <1>2 DEF Increment
<1>3. CASE n < CountRange - 1
  BY <1>1, <1>3 DEF Increment
<1> QED
  BY <1>1, <1>2, <1>3

\* What the counters say while task_led executes its own code.
LEMMA LedPhase ==
  ASSUME RtosInv, DemoInv, At(Led, "app")
  PROVE  sem_signal_count = IF line[Led] = "signal" THEN Increment(sem_consume_count)
                                                   ELSE sem_consume_count
<1>1. Led \in Tasks \ {Consumer}
  BY DemoTable DEF Led, Consumer
<1> QED
  BY <1>1, ConsumerWaits DEF DemoInv, CountInv

LEMMA InitBlink == DemoInit => B!Init
<1> SUFFICES ASSUME DemoInit
             PROVE  B!Init
  OBVIOUS
<1>1. line[Led] = "set"
  BY FirstLines
<1> QED
  BY <1>1 DEF B!Init, BlinkPhase, DemoInit

LEMMA BlinkStep ==
  ASSUME RtosInv, DemoInv, [DemoNext]_allVars
  PROVE  [B!Next]_<<BlinkPhase, led, sem_signal_count, sem_consume_count>>
<1>1. /\ Led \in Tasks /\ Counter \in Tasks /\ Consumer \in Tasks
      /\ Led # Counter /\ Led # Consumer
  BY DemoTable DEF Led, Counter, Consumer
<1>2. Increment(sem_consume_count) # sem_consume_count
  <2>1. {sem_signal_count, sem_consume_count} \subseteq 0 .. CountRange - 1
    BY DEF DemoInv, LineInv, DemoTypes
  <2> QED
    BY <2>1, CountersWrap
<1>3. CASE UNCHANGED demoVars
  BY <1>3 DEF demoVars, counters, BlinkPhase
<1>4. CASE CounterStep
  <2>1. line'[Led] = line[Led] /\ UNCHANGED <<led, counters>>
    BY <1>1, <1>4, NextLine DEF DemoInv, CounterStep, CountUp, CounterSleeps
  <2> QED
    BY <2>1 DEF counters, BlinkPhase
<1>5. CASE AwaitBlink
  <2>1. line'[Led] = line[Led] /\ UNCHANGED <<led, counters>>
    BY <1>1, <1>5, NextLine DEF DemoInv, AwaitBlink
  <2> QED
    BY <2>1 DEF counters, BlinkPhase
<1>6. CASE CountConsume
  <2>1. state[Consumer] = "RUNNING" /\ line[Consumer] = "consume"
    BY <1>1, <1>6, CallerFacts DEF CountConsume, From, FreeLabels, At
  <2>2. Woken /\ line[Led] = "set" /\ sem_signal_count = Increment(sem_consume_count)
    BY <2>1 DEF Woken, DemoInv, CountInv
  <2>3. line'[Led] = "set" /\ UNCHANGED <<led, sem_signal_count>>
    BY <1>1, <1>6, <2>2, NextLine DEF DemoInv, CountConsume
  <2>4. BlinkPhase = "signalled" /\ BlinkPhase' = "dark"
    BY <1>2, <1>6, <2>2, <2>3 DEF BlinkPhase, CountConsume
  <2> QED
    BY <1>6, <2>3, <2>4 DEF B!Next, B!CountConsume, CountConsume, Increment
<1>7. CASE LedStep
  <2>1. At(Led, "app")
    BY <1>7
    DEF LedStep, SetLed, LedStaysOn, ClearLed, LedStaysOff, CountSignal, SignalBlink, From
  <2>2. sem_signal_count = IF line[Led] = "signal" THEN Increment(sem_consume_count)
                                                  ELSE sem_consume_count
    BY <2>1, LedPhase
  <2>3. CASE SetLed
    <3>1. line[Led] = "set" /\ line'[Led] = "delay_on"
      BY <1>1, <2>3, NextLine DEF DemoInv, SetLed, From
    <3> QED
      BY <2>2, <2>3, <3>1 DEF B!Next, B!SwitchOn, BlinkPhase, SetLed, counters
  <2>4. CASE ClearLed
    <3>1. line[Led] = "clear" /\ line'[Led] = "delay_off"
      BY <1>1, <2>4, NextLine DEF DemoInv, ClearLed, From
    <3> QED
      BY <2>2, <2>4, <3>1 DEF B!Next, B!SwitchOff, BlinkPhase, ClearLed, counters
  <2>5. CASE LedStaysOn
    <3>1. line[Led] = "delay_on" /\ line'[Led] = "clear"
      BY <1>1, <2>5, NextLine DEF DemoInv, LedStaysOn, From
    <3> QED
      BY <2>5, <3>1 DEF BlinkPhase, LedStaysOn, counters
  <2>6. CASE LedStaysOff
    <3>1. line[Led] = "delay_off" /\ line'[Led] = "count"
      BY <1>1, <2>6, NextLine DEF DemoInv, LedStaysOff, From
    <3> QED
      BY <2>6, <3>1 DEF BlinkPhase, LedStaysOff, counters
  <2>7. CASE CountSignal
    <3>1. line[Led] = "count" /\ UNCHANGED <<led, sem_consume_count>>
      BY <2>7 DEF CountSignal, From
    <3>2. sem_signal_count' = Increment(sem_consume_count)
      BY <2>2, <2>7, <3>1 DEF CountSignal, Increment
    <3>3. BlinkPhase = "blinked" /\ BlinkPhase' = "signalled"
      BY <1>2, <2>2, <3>1, <3>2 DEF BlinkPhase
    <3> QED
      BY <2>7, <3>1, <3>3 DEF B!Next, B!CountSignal, CountSignal, Increment
  <2>8. CASE SignalBlink
    <3>1. line[Led] = "signal" /\ UNCHANGED <<led, counters>>
      BY <2>8 DEF SignalBlink, From
    <3>2. BlinkPhase = "signalled" /\ BlinkPhase' = "signalled"
      BY <1>2, <2>2, <3>1 DEF BlinkPhase, counters
    <3> QED
      BY <3>1, <3>2 DEF counters
  <2> QED
    BY <1>7, <2>3, <2>4, <2>5, <2>6, <2>7, <2>8 DEF LedStep
<1> QED
  BY <1>3, <1>4, <1>5, <1>6, <1>7
  DEF DemoNext, Background, Alone, CallGoesOn, ConsumerStep, allVars
-----------------------------------------------------------------------------
\* main.c: the two counters "stay in lock-step", across their wrap and
\* whatever SysTick preempts.
THEOREM CountersInLockStep ==
  ASSUME ShortDelays
  PROVE  DemoSpec => []LockStep
<1>1. RtosInv /\ DemoInv => LockStep
  BY ConsumerWaits DEF LockStep, DemoInv, CountInv
<1> QED
  BY <1>1, DemoInvariance, PTL

\* Every signal of task_led is handed to the waiting consumer, so count of
\* sem_blink never leaves 0.
THEOREM PermitsAreNotStored ==
  ASSUME ShortDelays
  PROVE  DemoSpec => []NoStoredPermit
<1>1. DemoInv => NoStoredPermit
  BY DEF DemoInv, CountInv
<1> QED
  BY <1>1, DemoInvariance, PTL

\* main.c: the consumer "wakes exactly once per blink", and task_led does
\* not switch the LED on again before it has, whatever the delays are and
\* wherever a tick preempts.
THEOREM DemoImplementsBlink ==
  ASSUME ShortDelays
  PROVE  DemoSpec => ImplementsBlink
<1>1. DemoSpec => [](RtosInv /\ DemoInv)
  BY DemoInvariance
<1>2. DemoInit => B!Init
  BY InitBlink
<1>3. RtosInv /\ DemoInv /\ [DemoNext]_allVars
        => [B!Next]_<<BlinkPhase, led, sem_signal_count, sem_consume_count>>
  BY BlinkStep
<1> QED
  BY <1>1, <1>2, <1>3, PTL DEF DemoSpec, ImplementsBlink, B!Spec
=============================================================================
