-------------------------------- MODULE Boot --------------------------------
(***************************************************************************)
(* From a reset to osStart(): Reset_Handler (Startup/), the hardware setup *)
(* of main() (Src/clock.c, SysTick_Init of Src/main.c), and _sbrk()        *)
(* (Src/sysmem.c), whose heap end lives in the memory that is set up here. *)
(* A reset may come at any moment.  It resets the registers and keeps RAM, *)
(* with whatever the program left there.                                   *)
(*                                                                         *)
(* Memory is counted in words, frequencies in kHz.  The hardware is part   *)
(* of the model as far as the code waits for it.                           *)
(***************************************************************************)
EXTENDS Integers

CONSTANTS
  sdata, edata, sbss, ebss, end, estack,   \* the linker script's symbols
  MinStackSize,                            \* _Min_Stack_Size
  SystemCoreClock, rtos_started, sbrk_heap_end,  \* where these variables are
  Image,        \* what flash holds for .data
  Stale,        \* what RAM may hold at power-on or after a program ran
  Increments    \* arguments of _sbrk()

Data == sdata .. edata - 1
Bss == sbss .. ebss - 1
Statics == sdata .. ebss - 1
MaxHeap == estack - MinStackSize

ASSUME LayoutAssumption ==
  /\ {sdata, edata, sbss, ebss, end, estack, MinStackSize} \subseteq Nat \ {0}
  /\ sdata <= edata /\ edata <= sbss /\ sbss <= ebss /\ ebss <= end /\ end <= MaxHeap
  /\ SystemCoreClock \in Data
  /\ rtos_started \in Bss /\ sbrk_heap_end \in Bss /\ rtos_started # sbrk_heap_end
  /\ Image \in [Data -> Nat] /\ Image[SystemCoreClock] = 12000
  /\ Stale \subseteq Nat
  /\ Increments \subseteq Int

VARIABLES
  pc, r2, r3,         \* where the boot code is; the two registers of its loops
  ram,                \* .data and .bss
  acr, latency,       \* ACR.LATENCY as written, and in effect
  hsidiv, hsirdy,     \* RCC->CR
  gpioaen, gate,      \* IOPENR.GPIOAEN as written, and the clock gate
  moder,              \* mode of PA5
  load, ticking,      \* SysTick LOAD; CTRL written
  shpr3,              \* priorities of the two system handlers
  pendsv              \* SCB->ICSR.PENDSVSET

cpuVars == <<pc, r2, r3>>
clockVars == <<acr, latency, hsidiv, hsirdy>>
pinVars == <<gpioaen, gate, moder>>
tickVars == <<load, ticking, shpr3, pendsv>>
vars == <<cpuVars, ram, clockVars, pinVars, tickVars>>

\* The core clock with HSIDIV = d.
Freq(d) == IF d = 0 THEN 48000 ELSE 12000

Init ==
  /\ pc = "copy" /\ r2 = sbss /\ r3 = 0
  /\ ram \in [Statics -> Stale]
  /\ acr = 0 /\ latency = 0 /\ hsidiv = 2 /\ hsirdy = TRUE
  /\ gpioaen = FALSE /\ gate = FALSE /\ moder = "analog"
  /\ load = 0 /\ ticking = FALSE
  /\ shpr3 = [systick |-> 0, pendsv |-> 0] /\ pendsv = FALSE

\* The CPU runs on at Reset_Handler with the reset values of all registers.
Reset ==
  /\ pc' = "copy" /\ r3' = 0
  /\ acr' = 0 /\ latency' = 0 /\ hsidiv' = 2 /\ hsirdy' = TRUE
  /\ gpioaen' = FALSE /\ gate' = FALSE /\ moder' = "analog"
  /\ ticking' = FALSE
  /\ shpr3' = [systick |-> 0, pendsv |-> 0] /\ pendsv' = FALSE
  /\ UNCHANGED <<r2, ram, load>>

\* The boot code goes on from one label to the next.
Step(from, to) == pc = from /\ pc' = to
-----------------------------------------------------------------------------
(* Reset_Handler                                                           *)

CopyDataInit ==
  /\ pc = "copy"
  /\ sdata + r3 < edata
  /\ ram' = [ram EXCEPT ![sdata + r3] = Image[sdata + r3]]
  /\ r3' = r3 + 1
  /\ UNCHANGED <<pc, r2, clockVars, pinVars, tickVars>>

\* Mutant of CopyDone: no second "movs r3, #0".
CopyDoneKeepsR3 ==
  /\ sdata + r3 >= edata
  /\ Step("copy", "fill")
  /\ r2' = sbss
  /\ UNCHANGED <<r3, ram, clockVars, pinVars, tickVars>>

CopyDone ==
  /\ sdata + r3 >= edata
  /\ Step("copy", "fill")
  /\ r2' = sbss
  /\ r3' = 0
  /\ UNCHANGED <<ram, clockVars, pinVars, tickVars>>

\* Mutant of FillZerobss: "bls" for "bcc".
FillZerobssPastEnd ==
  /\ pc = "fill"
  /\ r2 <= ebss
  /\ ram' = [ram EXCEPT ![r2] = r3]
  /\ r2' = r2 + 1
  /\ UNCHANGED <<pc, r3, clockVars, pinVars, tickVars>>

FillZerobss ==
  /\ pc = "fill"
  /\ r2 < ebss
  /\ ram' = [ram EXCEPT ![r2] = r3]
  /\ r2' = r2 + 1
  /\ UNCHANGED <<pc, r3, clockVars, pinVars, tickVars>>

FillDone ==
  /\ r2 >= ebss
  /\ Step("fill", "latency")
  /\ UNCHANGED <<r2, r3, ram, clockVars, pinVars, tickVars>>
-----------------------------------------------------------------------------
(* SystemClock_Config()                                                    *)

\* Mutant of SetLatency: the field is cleared and not set.
SetLatencyCleared ==
  /\ Step("latency", "confirm")
  /\ acr' = 0
  /\ UNCHANGED <<r2, r3, ram, latency, hsidiv, hsirdy, pinVars, tickVars>>

SetLatency ==
  /\ Step("latency", "confirm")
  /\ acr' = 1
  /\ UNCHANGED <<r2, r3, ram, latency, hsidiv, hsirdy, pinVars, tickVars>>

LatencyTakesEffect ==
  /\ latency # acr
  /\ latency' = acr
  /\ UNCHANGED <<cpuVars, ram, acr, hsidiv, hsirdy, pinVars, tickVars>>

\* Mutant of ConfirmLatency: the poll of step 1 left out.
ConfirmNothing ==
  /\ Step("confirm", "divider")
  /\ UNCHANGED <<r2, r3, ram, clockVars, pinVars, tickVars>>

ConfirmLatency ==
  /\ latency = 1
  /\ Step("confirm", "divider")
  /\ UNCHANGED <<r2, r3, ram, clockVars, pinVars, tickVars>>

\* HSIRDY "goes low briefly when we change the divider".
ClearDivider ==
  /\ Step("divider", "hsirdy")
  /\ hsidiv' = 0
  /\ hsirdy' = FALSE
  /\ UNCHANGED <<r2, r3, ram, acr, latency, pinVars, tickVars>>

HsiStabilises ==
  /\ ~hsirdy
  /\ hsirdy' = TRUE
  /\ UNCHANGED <<cpuVars, ram, acr, latency, hsidiv, pinVars, tickVars>>

\* Mutant of AwaitHsi: SystemCoreClock keeps the reset default.
AwaitHsiKeepsClock ==
  /\ hsirdy
  /\ Step("hsirdy", "gpioaen")
  /\ UNCHANGED <<r2, r3, ram, clockVars, pinVars, tickVars>>

\* SWS shows HSI from reset on: the poll of step 4 ends at once.
AwaitHsi ==
  /\ hsirdy
  /\ Step("hsirdy", "gpioaen")
  /\ ram' = [ram EXCEPT ![SystemCoreClock] = 48000]
  /\ UNCHANGED <<r2, r3, clockVars, pinVars, tickVars>>
-----------------------------------------------------------------------------
(* GPIO_Init()                                                             *)

EnableGpioA ==
  /\ Step("gpioaen", "read_back")
  /\ gpioaen' = TRUE
  /\ UNCHANGED <<r2, r3, ram, clockVars, gate, moder, tickVars>>

GateOpens ==
  /\ gpioaen /\ ~gate
  /\ gate' = TRUE
  /\ UNCHANGED <<cpuVars, ram, clockVars, gpioaen, moder, tickVars>>

\* One read of IOPENR, whose value is not looked at: it takes its bus cycle
\* and waits for nothing.
ReadBack ==
  /\ Step("read_back", "pin")
  /\ UNCHANGED <<r2, r3, ram, clockVars, pinVars, tickVars>>

\* A port without a clock ignores writes.  How long the gate takes is not in
\* the source, so the write may come too early.
ConfigurePin ==
  /\ Step("pin", "reload")
  /\ moder' = IF gate THEN "output" ELSE moder
  /\ UNCHANGED <<r2, r3, ram, clockVars, gpioaen, gate, tickVars>>
-----------------------------------------------------------------------------
(* SysTick_Init(), and the rest of main() as one step                      *)

SetReload ==
  /\ Step("reload", "enable")
  /\ load' = ram[SystemCoreClock] - 1
  /\ UNCHANGED <<r2, r3, ram, clockVars, pinVars, ticking, shpr3, pendsv>>

EnableSysTick ==
  /\ Step("enable", "priorities")
  /\ ticking' = TRUE
  /\ UNCHANGED <<r2, r3, ram, clockVars, pinVars, load, shpr3, pendsv>>

SetPriorities ==
  /\ Step("priorities", "create")
  /\ shpr3' = [systick |-> 1, pendsv |-> 3]
  /\ UNCHANGED <<r2, r3, ram, clockVars, pinVars, load, ticking, pendsv>>

OsStart ==
  /\ Step("create", "run")
  /\ pendsv' = TRUE
  /\ UNCHANGED <<r2, r3, ram, clockVars, pinVars, load, ticking, shpr3>>
-----------------------------------------------------------------------------
(* What goes on meanwhile and afterwards                                   *)

SysTick ==
  /\ ticking
  /\ pendsv' = (pendsv \/ ram[rtos_started] # 0)
  /\ UNCHANGED <<cpuVars, ram, clockVars, pinVars, load, ticking, shpr3>>

PendSV ==
  /\ pendsv
  /\ pendsv' = FALSE
  /\ ram' = [ram EXCEPT ![rtos_started] = 1]
  /\ UNCHANGED <<cpuVars, clockVars, pinVars, load, ticking, shpr3>>

\* The tasks leave anything in memory, except where this module looks.
TaskWrites(a, v) ==
  /\ pc = "run"
  /\ a \notin {SystemCoreClock, rtos_started, sbrk_heap_end}
  /\ ram' = [ram EXCEPT ![a] = v]
  /\ UNCHANGED <<cpuVars, clockVars, pinVars, tickVars>>

HeapEnd == IF ram[sbrk_heap_end] = 0 THEN end ELSE ram[sbrk_heap_end]

\* The C library gives back no more than it got.
CallsSbrk(incr) == pc = "run" /\ HeapEnd + incr >= end

\* Mutant of Sbrk: the reserved stack is not subtracted.
SbrkToRamEnd(incr) ==
  /\ CallsSbrk(incr)
  /\ ram' = [ram EXCEPT ![sbrk_heap_end] =
               IF HeapEnd + incr > estack THEN HeapEnd ELSE HeapEnd + incr]
  /\ UNCHANGED <<cpuVars, clockVars, pinVars, tickVars>>

Sbrk(incr) ==
  /\ CallsSbrk(incr)
  /\ ram' = [ram EXCEPT ![sbrk_heap_end] =
               IF HeapEnd + incr > MaxHeap THEN HeapEnd ELSE HeapEnd + incr]
  /\ UNCHANGED <<cpuVars, clockVars, pinVars, tickVars>>
-----------------------------------------------------------------------------
BootStep ==
  \/ CopyDataInit \/ CopyDone \/ FillZerobss \/ FillDone
  \/ SetLatency \/ ConfirmLatency \/ ClearDivider \/ AwaitHsi
  \/ EnableGpioA \/ ReadBack \/ ConfigurePin
  \/ SetReload \/ EnableSysTick \/ SetPriorities \/ OsStart

Hardware == LatencyTakesEffect \/ HsiStabilises \/ GateOpens

Program ==
  \/ SysTick
  \/ PendSV
  \/ \E a \in Statics, v \in Stale : TaskWrites(a, v)
  \/ \E incr \in Increments : Sbrk(incr)

Next == BootStep \/ Hardware \/ Program \/ Reset

Spec == Init /\ [][Next]_vars

\* The CPU runs (no handler does before the kernel starts but SysTick, once
\* a millisecond), and what the code polls for comes in the end.
FairSpec ==
  /\ Spec
  /\ WF_vars(BootStep)
  /\ WF_vars(LatencyTakesEffect)
  /\ WF_vars(HsiStabilises)
-----------------------------------------------------------------------------
Labels ==
  {"copy", "fill", "latency", "confirm", "divider", "hsirdy", "gpioaen", "read_back",
   "pin", "reload", "enable", "priorities", "create", "run"}

TypeOK ==
  /\ pc \in Labels
  /\ r2 \in sbss .. ebss
  /\ r3 \in 0 .. edata - sdata
  /\ ram \in [Statics -> Nat]
  /\ acr \in {0, 1} /\ latency \in {0, 1}
  /\ hsidiv \in {0, 2} /\ hsirdy \in BOOLEAN
  /\ gpioaen \in BOOLEAN /\ gate \in BOOLEAN /\ moder \in {"analog", "output"}
  /\ load \in Nat /\ ticking \in BOOLEAN
  /\ shpr3 \in [systick : 0 .. 3, pendsv : 0 .. 3]
  /\ pendsv \in BOOLEAN

\* In main(), with no handler running yet that may change a static.
InSetup == pc \in Labels \ {"copy", "fill", "priorities", "create", "run"}

(***************************************************************************)
(* Startup ("Copy the data segment initializers", "Zero fill the bss       *)
(* segment"): whatever an earlier run or an interrupted boot left in RAM,  *)
(* main() finds every static at its initial value, and all but             *)
(* SystemCoreClock keep it until SysTick is enabled.  KernelInit of        *)
(* Kernel.tla rests on it.                                                 *)
(***************************************************************************)
StaticsInitialised ==
  InSetup =>
    /\ \A a \in Bss : ram[a] = 0
    /\ \A a \in Data \ {SystemCoreClock} : ram[a] = Image[a]

(***************************************************************************)
(* clock.c, step 1: at more than 24 MHz the flash works with a wait state, *)
(* from the moment the divider is written, on every boot.                  *)
(***************************************************************************)
WaitStateInTime == Freq(hsidiv) > 24000 => latency >= 1

(***************************************************************************)
(* main.c, SysTick_Init ("1 ms tick at 48 MHz"): once SysTick counts, one  *)
(* period is a millisecond of the clock the core really has, which has     *)
(* settled by then.  SystemCoreClock, which .data initialises to another   *)
(* value, links the two.                                                   *)
(***************************************************************************)
TickIsOneMillisecond == ticking => hsirdy /\ load + 1 = Freq(hsidiv)

(***************************************************************************)
(* main.c: "SysTick_Handler checks rtos_started before touching PendSV, so *)
(* this is safe to call before osTaskCreate()".  No context switch is      *)
(* pended before osStart(), also after a reset of a running kernel, which  *)
(* left rtos_started set in RAM; and from then on PendSV yields to SysTick.*)
(***************************************************************************)
NoSwitchBeforeOsStart == pendsv => pc = "run" /\ shpr3.pendsv > shpr3.systick

(***************************************************************************)
(* sysmem.c ("Protect heap from growing into the reserved MSP stack"): the *)
(* heap ends between _end and the reserved stack, after any sequence of    *)
(* calls and of resets, which start it anew.                               *)
(***************************************************************************)
HeapStaysInPlace ==
  pc = "run" => ram[sbrk_heap_end] = 0 \/ ram[sbrk_heap_end] \in end .. MaxHeap

(***************************************************************************)
(* The polls of clock.c and the loops of Reset_Handler end: the kernel     *)
(* starts, unless resets never stop.                                       *)
(***************************************************************************)
BootCompletes == []<>(pc = "run") \/ []<><<Reset>>_vars
=============================================================================
