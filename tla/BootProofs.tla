----------------------------- MODULE BootProofs -----------------------------
(***************************************************************************)
(* The boot for every memory layout the linker script can produce, every   *)
(* content RAM may have at a reset, and a reset at any moment.             *)
(***************************************************************************)
EXTENDS Boot, TLAPS

\* The labels behind the poll of step 1, behind the change of the dividerXX
Ready == {"gpioaen", "read_back", "pin", "reload", "enable", "priorities", "create", "run"}
Fast == {"hsirdy"} \cup Ready

\* What the loops of Reset_Handler have reached so far.
LoopInv ==
  /\ pc = "copy" => \A a \in Data : a < sdata + r3 => ram[a] = Image[a]
  /\ pc = "fill" => /\ r3 = 0
                    /\ \A a \in Data : ram[a] = Image[a]
                    /\ \A a \in Bss : a < r2 => ram[a] = 0

\* While handlers may run but the kernel has not started.
QuietInv ==
  pc \in {"priorities", "create"} => ram[rtos_started] = 0 /\ ram[sbrk_heap_end] = 0

ClockInv ==
  /\ pc = "confirm" => acr = 1
  /\ pc \in {"divider"} \cup Fast => acr = 1 /\ latency = 1
  /\ hsidiv = 0 <=> pc \in Fast
  /\ pc \in Ready => hsirdy /\ ram[SystemCoreClock] = 48000

TickInv ==
  /\ ticking => pc \in {"priorities", "create", "run"}
  /\ pc \in {"enable", "priorities", "create", "run"} => load = 47999
  /\ pc \in {"create", "run"} => shpr3 = [systick |-> 1, pendsv |-> 3]
  /\ pendsv => pc = "run"

BootInv ==
  /\ TypeOK
  /\ LoopInv /\ StaticsInitialised /\ QuietInv
  /\ ClockInv /\ TickInv /\ HeapStaysInPlace
-----------------------------------------------------------------------------
LEMMA Layout ==
  /\ {sdata, edata, sbss, ebss, end, MaxHeap} \subseteq Int
  /\ 0 < sdata /\ sdata <= edata /\ edata <= sbss /\ sbss <= ebss /\ ebss <= end
  /\ end <= MaxHeap
  /\ SystemCoreClock \in Data /\ rtos_started \in Bss /\ sbrk_heap_end \in Bss
  /\ rtos_started # sbrk_heap_end
  /\ Data \cap Bss = {} /\ Data \subseteq Statics /\ Bss \subseteq Statics
  /\ Image \in [Data -> Nat]
  /\ Stale \subseteq Nat /\ Increments \subseteq Int
<1>1. /\ {sdata, edata, sbss, ebss, end, MaxHeap} \subseteq Int
      /\ 0 < sdata /\ sdata <= edata /\ edata <= sbss /\ sbss <= ebss /\ ebss <= end
      /\ end <= MaxHeap
  BY LayoutAssumption DEF LayoutAssumption, MaxHeap
<1>2. Data \cap Bss = {} /\ Data \subseteq Statics /\ Bss \subseteq Statics
  BY <1>1 DEF Data, Bss, Statics
<1> QED
  BY <1>1, <1>2, LayoutAssumption DEF LayoutAssumption

LEMMA InitBoot == Init => BootInv
<1> SUFFICES ASSUME Init
             PROVE  BootInv
  OBVIOUS
<1>1. TypeOK
  <2>1. pc \in Labels /\ r2 \in sbss .. ebss /\ r3 \in 0 .. edata - sdata
    BY Layout DEF Init, Labels
  <2>2. ram \in [Statics -> Nat]
    BY Layout DEF Init
  <2>3. load \in Nat /\ shpr3 \in [systick : 0 .. 3, pendsv : 0 .. 3]
    BY DEF Init
  <2>4. {hsirdy, gpioaen, gate, ticking, pendsv} \subseteq BOOLEAN
    BY Zenon DEF Init
  <2> QED
    BY <2>1, <2>2, <2>3, <2>4 DEF Init, TypeOK
<1>2. LoopInv
  BY Layout DEF Init, LoopInv, Data
<1> QED
  BY <1>1, <1>2
  DEF Init, BootInv, StaticsInitialised, QuietInv, ClockInv, TickInv,
      HeapStaysInPlace, InSetup, Ready, Fast

LEMMA ResetBoot == BootInv /\ Reset => BootInv'
<1> SUFFICES ASSUME BootInv, Reset
             PROVE  BootInv'
  OBVIOUS
<1>1. TypeOK'
  <2>1. /\ pc' \in Labels /\ r2' \in sbss .. ebss /\ r3' \in 0 .. edata - sdata
        /\ ram' \in [Statics -> Nat]
        /\ load' \in Nat /\ shpr3' \in [systick : 0 .. 3, pendsv : 0 .. 3]
    BY Layout DEF Reset, BootInv, TypeOK, Labels
  <2>2. {hsirdy', gpioaen', gate', ticking', pendsv'} \subseteq BOOLEAN
    BY Zenon DEF Reset
  <2> QED
    BY <2>1, <2>2 DEF Reset, TypeOK
<1>2. LoopInv'
  BY Layout DEF Reset, BootInv, TypeOK, LoopInv, Data
<1> QED
  BY <1>1, <1>2
  DEF Reset, BootInv, StaticsInitialised, QuietInv, ClockInv, TickInv,
      HeapStaysInPlace, InSetup, Ready, Fast

\* A step of the boot code or the hardware that leaves RAM and the loops.
LEMMA LoopSteps ==
  ASSUME BootInv, CopyDataInit \/ CopyDone \/ FillZerobss \/ FillDone
  PROVE  BootInv'
<1>1. CASE CopyDataInit
  <2>1. /\ pc = "copy" /\ pc' = pc
        /\ sdata + r3 \in Data
        /\ ram' = [ram EXCEPT ![sdata + r3] = Image[sdata + r3]]
    <3>1. sdata \in Int /\ edata \in Int /\ r3 \in Nat
      BY Layout DEF BootInv, TypeOK
    <3>2. sdata + r3 \in Data
      BY <1>1, <3>1 DEF CopyDataInit, Data
    <3> QED
      BY <1>1, <3>2 DEF CopyDataInit
  <2>2. TypeOK'
    BY <1>1, <2>1, Layout DEF CopyDataInit, BootInv, TypeOK, clockVars, pinVars, tickVars
  <2>3. LoopInv'
    <3>1. ASSUME NEW a \in Data, a < sdata + r3 + 1
          PROVE  ram'[a] = Image[a]
      <4>1. a \in Statics /\ ram \in [Statics -> Nat]
        BY Layout DEF BootInv, TypeOK
      <4>2. CASE a = sdata + r3
        BY <2>1, <4>1, <4>2
      <4>3. CASE a # sdata + r3
        <5>1. a \in Int /\ sdata \in Int /\ r3 \in Int
          BY Layout DEF Data, BootInv, TypeOK
        <5>2. a < sdata + r3
          BY <3>1, <4>3, <5>1
        <5> QED
          BY <2>1, <4>1, <4>3, <5>2 DEF BootInv, LoopInv
      <4> QED
        BY <4>2, <4>3
    <3> QED
      BY <1>1, <2>1, <3>1, Layout DEF CopyDataInit, LoopInv, BootInv, TypeOK
  <2> QED
    BY <1>1, <2>1, <2>2, <2>3
    DEF CopyDataInit, BootInv, StaticsInitialised, QuietInv, ClockInv,
        TickInv, HeapStaysInPlace, InSetup, Ready, Fast, clockVars, pinVars, tickVars
<1>2. CASE CopyDone
  <2>1. /\ pc = "copy" /\ pc' = "fill" /\ r2' = sbss /\ r3' = 0 /\ ram' = ram
        /\ sdata + r3 >= edata
    BY <1>2 DEF CopyDone, Step
  <2>2. TypeOK'
    BY <1>2, <2>1, Layout DEF CopyDone, BootInv, TypeOK, Labels, clockVars, pinVars, tickVars
  <2>3. LoopInv'
    <3>1. \A a \in Data : a < sdata + r3
      BY <2>1, Layout DEF BootInv, TypeOK, Data
    <3>2. \A a \in Data : ram[a] = Image[a]
      BY <2>1, <3>1 DEF BootInv, LoopInv
    <3>3. \A a \in Bss : ~(a < sbss)
      BY Layout DEF Bss
    <3> QED
      BY <2>1, <3>2, <3>3 DEF LoopInv
  <2> QED
    BY <1>2, <2>1, <2>2, <2>3
    DEF CopyDone, BootInv, StaticsInitialised, QuietInv, ClockInv,
        TickInv, HeapStaysInPlace, InSetup, Ready, Fast, clockVars, pinVars, tickVars
<1>3. CASE FillZerobss
  <2>1. /\ pc = "fill" /\ pc' = pc
        /\ r2 \in Bss /\ r2 \notin Data
        /\ ram' = [ram EXCEPT ![r2] = 0]
    BY <1>3, Layout DEF FillZerobss, BootInv, TypeOK, LoopInv, Bss
  <2>2. TypeOK'
    BY <1>3, <2>1, Layout DEF FillZerobss, BootInv, TypeOK, clockVars, pinVars, tickVars
  <2>3. LoopInv'
    <3>1. r2' = r2 + 1 /\ r3' = 0 /\ ram \in [Statics -> Nat]
      BY <1>3, <2>1 DEF FillZerobss, BootInv, TypeOK, LoopInv
    <3>2. \A a \in Data : ram'[a] = Image[a]
      BY <2>1, <3>1, Layout DEF BootInv, LoopInv
    <3>3. ASSUME NEW a \in Bss, a < r2 + 1
          PROVE  ram'[a] = 0
      <4>1. a \in Int /\ r2 \in Int /\ a \in Statics
        BY <2>1, Layout DEF Bss
      <4>2. a = r2 \/ a < r2
        BY <3>3, <4>1
      <4> QED
        BY <2>1, <3>1, <4>1, <4>2 DEF BootInv, LoopInv
    <3> QED
      BY <2>1, <3>1, <3>2, <3>3 DEF LoopInv
  <2> QED
    BY <1>3, <2>1, <2>2, <2>3
    DEF FillZerobss, BootInv, StaticsInitialised, QuietInv, ClockInv,
        TickInv, HeapStaysInPlace, InSetup, Ready, Fast, clockVars, pinVars, tickVars
<1>4. CASE FillDone
  <2>1. \A a \in Bss : ram'[a] = 0
    BY <1>4, Layout DEF FillDone, Step, BootInv, TypeOK, LoopInv, Bss
  <2> QED
    BY <1>4, <2>1
    DEF FillDone, Step, BootInv, TypeOK, LoopInv, StaticsInitialised, QuietInv, ClockInv,
        TickInv,
      HeapStaysInPlace, Labels, InSetup, Ready, Fast,
        clockVars, pinVars, tickVars
<1> QED
  BY <1>1, <1>2, <1>3, <1>4

LEMMA FlagSteps ==
  /\ ClearDivider \/ HsiStabilises => hsirdy' \in BOOLEAN
  /\ GateOpens => gate' \in BOOLEAN
  /\ PendSV => pendsv' \in BOOLEAN
BY Zenon DEF ClearDivider, HsiStabilises, GateOpens, PendSV

LEMMA SetupSteps ==
  ASSUME BootInv,
         \/ SetLatency \/ ConfirmLatency \/ ClearDivider \/ AwaitHsi
         \/ EnableGpioA \/ ReadBack \/ ConfigurePin
         \/ SetReload \/ EnableSysTick \/ SetPriorities \/ OsStart
  PROVE  BootInv'
<1> USE DEF Step, BootInv, TypeOK, LoopInv, StaticsInitialised, QuietInv, ClockInv, TickInv,
      HeapStaysInPlace, Labels, InSetup, Ready, Fast,
      clockVars, pinVars, tickVars
<1>1. CASE SetLatency
  BY <1>1 DEF SetLatency
<1>2. CASE ConfirmLatency
  BY <1>2 DEF ConfirmLatency
<1>3. CASE ClearDivider
  <2>1. hsirdy' \in BOOLEAN
    BY <1>3, FlagSteps
  <2> QED
    BY <1>3, <2>1 DEF ClearDivider
<1>4. CASE AwaitHsi
  <2>1. /\ ram' = [ram EXCEPT ![SystemCoreClock] = 48000]
        /\ SystemCoreClock \in Data \ Bss
        /\ Data \subseteq Statics /\ Bss \subseteq Statics
    BY <1>4, Layout DEF AwaitHsi
  <2> QED
    BY <1>4, <2>1 DEF AwaitHsi
<1>5. CASE EnableGpioA
  BY <1>5 DEF EnableGpioA
<1>6. CASE ReadBack
  BY <1>6 DEF ReadBack
<1>7. CASE ConfigurePin
  BY <1>7 DEF ConfigurePin
<1>8. CASE SetReload
  BY <1>8 DEF SetReload
<1>9. CASE EnableSysTick
  BY <1>9, Layout DEF EnableSysTick
<1>10. CASE SetPriorities
  BY <1>10 DEF SetPriorities
<1>11. CASE OsStart
  BY <1>11 DEF OsStart
<1> QED
  BY <1>1, <1>2, <1>3, <1>4, <1>5, <1>6, <1>7, <1>8, <1>9, <1>10, <1>11

LEMMA HardwareSteps ==
  ASSUME BootInv, LatencyTakesEffect \/ HsiStabilises \/ GateOpens
  PROVE  BootInv'
<1> USE DEF BootInv, TypeOK, LoopInv, StaticsInitialised, QuietInv, ClockInv, TickInv,
      HeapStaysInPlace, InSetup, cpuVars, pinVars, tickVars
<1>1. CASE LatencyTakesEffect
  BY <1>1 DEF LatencyTakesEffect, Ready, Fast
<1>2. CASE HsiStabilises
  <2>1. hsirdy' \in BOOLEAN
    BY <1>2, FlagSteps
  <2> QED
    BY <1>2, <2>1 DEF HsiStabilises
<1>3. CASE GateOpens
  <2>1. gate' \in BOOLEAN
    BY <1>3, FlagSteps
  <2> QED
    BY <1>3, <2>1 DEF GateOpens, clockVars
<1> QED
  BY <1>1, <1>2, <1>3

LEMMA ProgramSteps ==
  ASSUME BootInv, Program
  PROVE  BootInv'
<1> USE DEF BootInv, TypeOK, LoopInv, StaticsInitialised, QuietInv, ClockInv, TickInv,
      HeapStaysInPlace, InSetup, cpuVars, clockVars, pinVars, tickVars
<1>1. CASE SysTick
  <2>1. pendsv' => pc = "run"
    BY <1>1 DEF SysTick
  <2> QED
    BY <1>1, <2>1 DEF SysTick
<1>2. ASSUME pc = "run",
             NEW a \in Statics \ {SystemCoreClock}, NEW v \in Nat,
             a = sbrk_heap_end => v \in end .. MaxHeap,
             ram' = [ram EXCEPT ![a] = v], pendsv' \in BOOLEAN,
             UNCHANGED <<cpuVars, clockVars, pinVars, load, ticking, shpr3>>
      PROVE  BootInv'
  BY <1>2, Layout
<1>3. CASE PendSV
  <2>1. pendsv' \in BOOLEAN
    BY <1>3, FlagSteps
  <2>2. pc = "run"
    BY <1>3 DEF PendSV
  <2>3. rtos_started \in Statics \ {SystemCoreClock, sbrk_heap_end}
    BY Layout
  <2> QED
    BY <1>2, <1>3, <2>1, <2>2, <2>3 DEF PendSV
<1>4. ASSUME NEW a \in Statics, NEW v \in Stale, TaskWrites(a, v)
      PROVE  BootInv'
  BY <1>2, <1>4, Layout DEF TaskWrites
<1>5. ASSUME NEW incr \in Increments, Sbrk(incr)
      PROVE  BootInv'
  <2> DEFINE v == IF HeapEnd + incr > MaxHeap THEN HeapEnd ELSE HeapEnd + incr
  <2>1. HeapEnd \in end .. MaxHeap
    BY <1>5, Layout DEF Sbrk, CallsSbrk, HeapEnd
  <2>2. v \in end .. MaxHeap /\ v \in Nat
    BY <1>5, <2>1, Layout DEF Sbrk, CallsSbrk
  <2> QED
    BY <1>2, <1>5, <2>2, Layout DEF Sbrk, CallsSbrk
<1> QED
  BY <1>1, <1>3, <1>4, <1>5 DEF Program

LEMMA BootInvariant == Spec => []BootInv
<1>1. BootInv /\ [Next]_vars => BootInv'
  <2> SUFFICES ASSUME BootInv, [Next]_vars
               PROVE  BootInv'
    OBVIOUS
  <2>1. CASE BootStep
    BY <2>1, LoopSteps, SetupSteps DEF BootStep
  <2>2. CASE Hardware
    BY <2>2, HardwareSteps DEF Hardware
  <2>3. CASE Program
    BY <2>3, ProgramSteps
  <2>4. CASE Reset
    BY <2>4, ResetBoot
  <2>5. CASE UNCHANGED vars
    BY <2>5
    DEF vars, cpuVars, clockVars, pinVars, tickVars, BootInv, TypeOK, LoopInv,
        StaticsInitialised, QuietInv, ClockInv, TickInv,
        HeapStaysInPlace, InSetup
  <2> QED
    BY <2>1, <2>2, <2>3, <2>4, <2>5 DEF Next
<1> QED
  BY InitBoot, <1>1, PTL DEF Spec
-----------------------------------------------------------------------------
\* No loop of Reset_Handler leaves its section, SysTick gets a reload value.
THEOREM BootTypeCorrect == Spec => []TypeOK
<1>1. BootInv => TypeOK
  BY DEF BootInv
<1> QED
  BY <1>1, BootInvariant, PTL

\* Startup: main() finds every static initialised, after any reset.
THEOREM StaticsCorrect == Spec => []StaticsInitialised
<1>1. BootInv => StaticsInitialised
  BY DEF BootInv
<1> QED
  BY <1>1, BootInvariant, PTL

\* clock.c: no fast clock without the wait state.
THEOREM WaitStateCorrect == Spec => []WaitStateInTime
<1>1. BootInv => WaitStateInTime
  BY DEF BootInv, TypeOK, ClockInv, WaitStateInTime, Freq
<1> QED
  BY <1>1, BootInvariant, PTL

\* main.c, SysTick_Init: the tick lasts a millisecond.
THEOREM TickCorrect == Spec => []TickIsOneMillisecond
<1>1. BootInv => TickIsOneMillisecond
  BY DEF BootInv, ClockInv, TickInv, TickIsOneMillisecond, Freq, Fast, Ready
<1> QED
  BY <1>1, BootInvariant, PTL

\* main.c: no context switch is pended before osStart().
THEOREM NoEarlySwitch == Spec => []NoSwitchBeforeOsStart
<1>1. BootInv => NoSwitchBeforeOsStart
  BY DEF BootInv, TickInv, NoSwitchBeforeOsStart
<1> QED
  BY <1>1, BootInvariant, PTL

\* sysmem.c: the heap never reaches the reserved stack.
THEOREM HeapCorrect == Spec => []HeapStaysInPlace
<1>1. BootInv => HeapStaysInPlace
  BY DEF BootInv
<1> QED
  BY <1>1, BootInvariant, PTL
=============================================================================
