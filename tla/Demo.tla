-------------------------------- MODULE Demo --------------------------------
(***************************************************************************)
(* The four tasks of Src/main.c, statement by statement, on top of Rtos.   *)
(* line[t] is the statement t executes next once it is at "app"; a call of *)
(* the RTOS goes on inside Rtos and comes back at the next line.           *)
(***************************************************************************)
EXTENDS Rtos

CONSTANTS
  sem_blink,
  LedDelay,        \* 500 in the code
  CounterDelay,    \* 10 in the code
  CountRange       \* 2^32: the counters are uint32_t

\* main() creates the tasks in this order.
Led == 0
Counter == 1
Consumer == 2
Idle == 3

\* Mutant of DemoPriority: the consumer on the level of task_led.
DemoPriorityFlat == [t \in Tasks |-> IF t = Idle THEN 0 ELSE 1]

DemoPriority ==
  [t \in Tasks |-> CASE t = Consumer -> 2 [] t = Idle -> 0 [] OTHER -> 1]

DemoCalls ==
  [t \in Tasks |-> CASE t = Led -> {"delay", "signal"}
                     [] t = Counter -> {"delay"}
                     [] t = Consumer -> {"block"}
                     [] OTHER -> {}]

DemoUses ==
  [t \in Tasks |-> CASE t = Led -> {<<"signal", sem_blink>>}
                     [] t = Consumer -> {<<"wait", sem_blink>>}
                     [] OTHER -> {}]

ASSUME DemoAssumption ==
  /\ NTasks = 4 /\ Priority = DemoPriority
  /\ Calls = DemoCalls /\ Uses = DemoUses
  /\ Sems = {sem_blink} /\ Mutexes = {} /\ IsrSems = {} /\ ~IsrSignals
  /\ InitialCount[sem_blink] = 0
  /\ {LedDelay, CounterDelay} \subseteq Delays \ {0}
  /\ CountRange \in Nat \ {0, 1}

VARIABLES
  line,
  led,                  \* level of PA5
  sem_signal_count,
  sem_consume_count

counters == <<sem_signal_count, sem_consume_count>>
demoVars == <<line, led, counters>>
allVars == <<vars, demoVars>>

DemoInit ==
  /\ Init
  /\ line = [t \in Tasks |-> CASE t = Led -> "set" [] t = Counter -> "count" [] OTHER -> "wait"]
  /\ led = FALSE
  /\ sem_signal_count = 0
  /\ sem_consume_count = 0

From(t, here, next) ==
  /\ At(t, "app")
  /\ line[t] = here
  /\ line' = [line EXCEPT ![t] = next]

Increment(n) == (n + 1) % CountRange
-----------------------------------------------------------------------------
(* task_led()                                                              *)

SetLed ==
  /\ From(Led, "set", "delay_on")
  /\ led' = TRUE
  /\ UNCHANGED <<vars, counters>>

LedStaysOn ==
  /\ From(Led, "delay_on", "clear")
  /\ OsDelay(Led, LedDelay)
  /\ UNCHANGED <<semVars, led, counters>>

ClearLed ==
  /\ From(Led, "clear", "delay_off")
  /\ led' = FALSE
  /\ UNCHANGED <<vars, counters>>

LedStaysOff ==
  /\ From(Led, "delay_off", "count")
  /\ OsDelay(Led, LedDelay)
  /\ UNCHANGED <<semVars, led, counters>>

CountSignal ==
  /\ From(Led, "count", "signal")
  /\ sem_signal_count' = Increment(sem_signal_count)
  /\ UNCHANGED <<vars, led, sem_consume_count>>

SignalBlink ==
  /\ From(Led, "signal", "set")
  /\ Signal(Led, sem_blink)
  /\ UNCHANGED <<led, counters>>

LedStep ==
  SetLed \/ LedStaysOn \/ ClearLed \/ LedStaysOff \/ CountSignal \/ SignalBlink
-----------------------------------------------------------------------------
(* task_counter(), task_consumer(); task_idle() only executes WFI          *)

\* task2_counter is only ever shown in a debugger; its value is left out.
CountUp ==
  /\ From(Counter, "count", "delay")
  /\ UNCHANGED <<vars, led, counters>>

CounterSleeps ==
  /\ From(Counter, "delay", "count")
  /\ OsDelay(Counter, CounterDelay)
  /\ UNCHANGED <<semVars, led, counters>>

CounterStep == CountUp \/ CounterSleeps

AwaitBlink ==
  /\ From(Consumer, "wait", "consume")
  /\ WaitFast(Consumer, sem_blink) \/ WaitBlock(Consumer, sem_blink)
  /\ UNCHANGED <<led, counters>>

CountConsume ==
  /\ From(Consumer, "consume", "wait")
  /\ sem_consume_count' = Increment(sem_consume_count)
  /\ UNCHANGED <<vars, led, sem_signal_count>>

ConsumerStep == AwaitBlink \/ CountConsume
-----------------------------------------------------------------------------
\* main(), the handlers, and what is left of the call t is in.
Alone(A) == A /\ UNCHANGED <<semVars, demoVars>>
Background == Alone(Main) \/ Alone(SysTick) \/ Alone(PendSVEnter) \/ Alone(PendSVSwitch)
CallGoesOn(t) ==
  /\ (Yield(t) /\ UNCHANGED semVars) \/ WaitYield(t) \/ WaitReturn(t)
  /\ UNCHANGED demoVars

DemoNext ==
  \/ Background
  \/ \E t \in Tasks : CallGoesOn(t)
  \/ LedStep
  \/ CounterStep
  \/ ConsumerStep

DemoSpec == DemoInit /\ [][DemoNext]_allVars

Dispatched(t) == Alone(PendSVSwitch) /\ ~pendsv /\ current' = t

\* The fairness of Rtos, and each task executes its own statements when it
\* has the CPU often enough.
DemoFairness ==
  /\ WF_allVars(Alone(Main))
  /\ WF_allVars(Alone(SysTick))
  /\ WF_allVars(Alone(PendSVEnter))
  /\ WF_allVars(Alone(PendSVSwitch))
  /\ \A t \in {Led, Counter, Consumer} : SF_allVars(Dispatched(t)) /\ SF_allVars(CallGoesOn(t))
  /\ SF_allVars(LedStep)
  /\ SF_allVars(CounterStep)
  /\ SF_allVars(ConsumerStep)

FairDemoSpec == DemoSpec /\ DemoFairness
-----------------------------------------------------------------------------
(***************************************************************************)
(* main.c: "sem_signal_count and sem_consume_count still stay in           *)
(* lock-step", "led-signals -> consumer-increments -> led-resumes".  While *)
(* any task but the consumer executes its own code the counts are equal,   *)
(* and one apart between the two statements of task_led().                 *)
(***************************************************************************)
LockStep ==
  \A t \in Tasks \ {Consumer} :
    At(t, "app") =>
      sem_signal_count = IF line[Led] = "signal" THEN Increment(sem_consume_count)
                                                 ELSE sem_consume_count

(***************************************************************************)
(* main.c, "consumer blocks first": when task_led signals, the consumer    *)
(* waits.  No permit is ever stored, so count, an int32_t that is          *)
(* incremented without a test, cannot overflow in this application.        *)
(***************************************************************************)
NoStoredPermit == count[sem_blink] = 0

\* How far the round has come, read off the counters and task_led.
BlinkPhase ==
  IF sem_signal_count # sem_consume_count THEN "signalled"
  ELSE CASE line[Led] = "set" -> "dark"
         [] line[Led] \in {"delay_on", "clear"} -> "lit"
         [] OTHER -> "blinked"

B == INSTANCE AbstractBlink WITH
  phase <- BlinkPhase,
  signalled <- sem_signal_count,
  consumed <- sem_consume_count

(***************************************************************************)
(* main.c: the consumer "wakes exactly once per blink", and the LED does   *)
(* not resume before it has incremented: blinks, signals and increments    *)
(* alternate strictly, although only the priorities make them.             *)
(***************************************************************************)
ImplementsBlink == B!Spec

(***************************************************************************)
(* main.c: the LED blinks, the consumer wakes at each blink, and           *)
(* task2_counter "never starves", for ever.                                *)
(***************************************************************************)
EverybodyProgresses ==
  /\ []<><<SetLed>>_allVars
  /\ []<><<CountUp>>_allVars
  /\ []<><<CountConsume>>_allVars
=============================================================================
