--------------------------- MODULE ContextSwitch ----------------------------
(***************************************************************************)
(* Registers, stacks and PSP: os_task_stack_init() (Src/rtos.c),           *)
(* _rtos_start and PendSV_Handler (Src/context_switch.s), one step per     *)
(* group of instructions, with the frames the CPU itself pushes and pops   *)
(* on exceptions.                                                          *)
(*                                                                         *)
(* The unit of memory is a block of four words, the size of the groups     *)
(* that the code moves: R4-R7 ("low"), R8-R11 ("high"), R0-R3 ("args") and *)
(* R12, LR, PC, xPSR ("ctl").  Handlers other than PendSV use the main     *)
(* stack and give back the registers they take.  Which task os_schedule()  *)
(* picks is Scheduler's matter: here any created one.                      *)
(***************************************************************************)
EXTENDS Integers

CONSTANTS
  MAX_TASKS,
  StackBlocks,     \* stack_words / 4, the same for every task
  Versions         \* what thread code can compute, besides what is restored

Frame == 4                              \* blocks in a saved frame
DummyTop == 2                           \* os_dummy_stack[8] lies at 0 .. 1

Tasks == 0 .. MAX_TASKS - 1
Base(t) == DummyTop + t * StackBlocks
Top(t) == Base(t) + StackBlocks
Address == 0 .. DummyTop + MAX_TASKS * StackBlocks - 1
StackOf(t) == Base(t) .. Top(t) - 1

ASSUME ContextAssumption ==
  /\ MAX_TASKS \in Nat \ {0}
  /\ StackBlocks \in Nat

Junk == <<"junk", 0, 0>>
Zero == <<"zero", 0, 0>>
Sentinel == <<"sentinel", 0, 0>>
Entry(t) == <<"entry", t, 0>>           \* PC = func, LR = os_task_exit

Registers == {"low", "high", "args", "ctl"}
Value ==
  {Junk, Zero, Sentinel} \cup {Entry(t) : t \in Tasks}
    \cup (Registers \X Tasks \X Versions)

VARIABLES
  pc,              \* where the CPU is
  reg,             \* the registers
  psp,
  mem,             \* os_dummy_stack and the task stacks
  saved_sp,        \* task_pool[].sp
  r0,              \* R0 of PendSV_Handler
  current,         \* current_task
  task_count,
  rtos_started,
  pendsv           \* PENDSVSET

vars == <<pc, reg, psp, mem, saved_sp, r0, current, task_count, rtos_started, pendsv>>

Init ==
  /\ pc = "create"
  /\ reg = [r \in Registers |-> Junk]
  /\ psp = 0
  /\ mem = [a \in Address |-> Junk]
  /\ saved_sp = [t \in Tasks |-> 0]
  /\ r0 = 0
  /\ current = 0
  /\ task_count = 0
  /\ rtos_started = FALSE
  /\ pendsv = FALSE
-----------------------------------------------------------------------------
(* Boot                                                                    *)

\* os_task_stack_init(): sentinel paint, then both frames.
InitialStack(t) ==
  [a \in StackOf(t) |->
     CASE a = Top(t) - 1 -> Entry(t)
       [] a \in Top(t) - Frame .. Top(t) - 2 -> Zero
       [] OTHER -> Sentinel]

TaskCreate ==
  /\ pc = "create"
  /\ task_count < MAX_TASKS
  /\ StackBlocks >= Frame
  /\ mem' = [a \in Address |->
               IF a \in StackOf(task_count) THEN InitialStack(task_count)[a] ELSE mem[a]]
  /\ saved_sp' = [saved_sp EXCEPT ![task_count] = Top(task_count) - Frame]
  /\ current' = IF task_count = 0 THEN 0 ELSE current
  /\ task_count' = task_count + 1
  /\ UNCHANGED <<pc, reg, psp, r0, rtos_started, pendsv>>

\* The guards of osTaskCreate(): interrupts masked for ever.
CreateTrap ==
  /\ pc = "create"
  /\ task_count >= MAX_TASKS \/ StackBlocks < Frame
  /\ pc' = "halt"
  /\ UNCHANGED <<reg, psp, mem, saved_sp, r0, current, task_count, rtos_started, pendsv>>

\* Mutant of OsStart: PSP put one block too high.
OsStartAboveDummy ==
  /\ pc = "create"
  /\ task_count > 0
  /\ current' = task_count - 1
  /\ psp' = DummyTop + 1
  /\ pendsv' = TRUE
  /\ pc' = "spin"
  /\ UNCHANGED <<reg, mem, saved_sp, r0, task_count, rtos_started>>

\* osStart() and _rtos_start.
OsStart ==
  /\ pc = "create"
  /\ task_count > 0
  /\ current' = task_count - 1
  /\ psp' = DummyTop
  /\ pendsv' = TRUE
  /\ pc' = "spin"
  /\ UNCHANGED <<reg, mem, saved_sp, r0, task_count, rtos_started>>
-----------------------------------------------------------------------------
(* Thread code of the current task                                         *)

\* No PendSV is about to be taken.
InThread == pc = "thread" /\ ~pendsv

Compute(v) ==
  /\ InThread
  /\ reg' = [r \in Registers |-> <<r, current, v>>]
  /\ UNCHANGED <<pc, psp, mem, saved_sp, r0, current, task_count, rtos_started, pendsv>>

\* PUSH {R4-R7} of a function that is called.  The task keeps room for one
\* frame below its PSP.
Push ==
  /\ InThread
  /\ psp - 1 - Frame >= Base(current)
  /\ psp' = psp - 1
  /\ mem' = [mem EXCEPT ![psp - 1] = reg.low]
  /\ UNCHANGED <<pc, reg, saved_sp, r0, current, task_count, rtos_started, pendsv>>

\* POP {R4-R7}.
Pop ==
  /\ InThread
  /\ psp < Top(current)
  /\ psp' = psp + 1
  /\ reg' = [reg EXCEPT !.low = mem[psp]]
  /\ UNCHANGED <<pc, mem, saved_sp, r0, current, task_count, rtos_started, pendsv>>

TriggerPendSV ==
  /\ InThread
  /\ pendsv' = TRUE
  /\ UNCHANGED <<pc, reg, psp, mem, saved_sp, r0, current, task_count, rtos_started>>

\* os_task_exit(), where a task function returns to.
TaskExit ==
  /\ InThread
  /\ psp = Top(current)
  /\ pc' = "halt"
  /\ UNCHANGED <<reg, psp, mem, saved_sp, r0, current, task_count, rtos_started, pendsv>>
-----------------------------------------------------------------------------
(* Exceptions                                                              *)

\* SysTick pends PendSV; other handlers may, by osSemaphoreSignal().
PendFromHandler == pendsv' \in {pendsv, pendsv \/ rtos_started}

\* The CPU pushes args and ctl onto PSP, in this order of addresses.
PushFrame == mem' = [mem EXCEPT ![psp - 2] = reg.args, ![psp - 1] = reg.ctl]

\* Any other interrupt of thread code: its frame is pushed and popped.
Interrupt ==
  /\ pc \in {"spin", "thread"}
  /\ PushFrame
  /\ PendFromHandler
  /\ UNCHANGED <<pc, reg, psp, saved_sp, r0, current, task_count, rtos_started>>

\* The same in the two unmasked windows of PendSV_Handler, on the main stack.
NestedInterrupt ==
  /\ pc \in {"entered", "return"}
  /\ PendFromHandler
  /\ UNCHANGED <<pc, reg, psp, mem, saved_sp, r0, current, task_count, rtos_started>>

PendSVEnter ==
  /\ pc \in {"spin", "thread"}
  /\ pendsv
  /\ PushFrame
  /\ psp' = psp - 2
  /\ reg' = [reg EXCEPT !.args = Junk, !.ctl = Junk]
  /\ pendsv' = FALSE
  /\ pc' = "entered"
  /\ UNCHANGED <<saved_sp, r0, current, task_count, rtos_started>>

\* Mutant of CheckStarted: the first switch saves as well.
CheckStartedSaves ==
  /\ pc = "entered"
  /\ pc' = "save_low"
  /\ rtos_started' = TRUE
  /\ UNCHANGED <<reg, psp, mem, saved_sp, r0, current, task_count, pendsv>>

\* CPSID I: from here to SetPSP interrupts are masked.
CheckStarted ==
  /\ pc = "entered"
  /\ pc' = IF rtos_started THEN "save_low" ELSE "pick"
  /\ rtos_started' = TRUE
  /\ UNCHANGED <<reg, psp, mem, saved_sp, r0, current, task_count, pendsv>>

SaveLow ==
  /\ pc = "save_low"
  /\ mem' = [mem EXCEPT ![psp - 2] = reg.low]
  /\ r0' = psp - 1
  /\ pc' = "move_high"
  /\ UNCHANGED <<reg, psp, saved_sp, current, task_count, rtos_started, pendsv>>

MoveHigh ==
  /\ pc = "move_high"
  /\ reg' = [reg EXCEPT !.low = reg.high]
  /\ pc' = "save_high"
  /\ UNCHANGED <<psp, mem, saved_sp, r0, current, task_count, rtos_started, pendsv>>

\* Mutant of SaveHigh: the second SUBS is left out.
SaveHighKeepsR0 ==
  /\ pc = "save_high"
  /\ mem' = [mem EXCEPT ![r0] = reg.low]
  /\ saved_sp' = [saved_sp EXCEPT ![current] = r0 + 1]
  /\ r0' = r0 + 1
  /\ pc' = "pick"
  /\ UNCHANGED <<reg, psp, current, task_count, rtos_started, pendsv>>

\* With the second SUBS R0, #32 and the store to TCB->sp.
SaveHigh ==
  /\ pc = "save_high"
  /\ mem' = [mem EXCEPT ![r0] = reg.low]
  /\ saved_sp' = [saved_sp EXCEPT ![current] = r0 - 1]
  /\ r0' = r0 - 1
  /\ pc' = "pick"
  /\ UNCHANGED <<reg, psp, current, task_count, rtos_started, pendsv>>

\* os_schedule(), between the PUSH and the POP that borrows R4.
Pick ==
  /\ pc = "pick"
  /\ current' \in 0 .. task_count - 1
  /\ reg' = [reg EXCEPT !.low = Junk]
  /\ pc' = "load_high"
  /\ UNCHANGED <<psp, mem, saved_sp, r0, task_count, rtos_started, pendsv>>

LoadHigh ==
  /\ pc = "load_high"
  /\ reg' = [reg EXCEPT !.low = mem[saved_sp[current] + 1]]
  /\ r0' = saved_sp[current] + 2
  /\ pc' = "move_back"
  /\ UNCHANGED <<psp, mem, saved_sp, current, task_count, rtos_started, pendsv>>

MoveBack ==
  /\ pc = "move_back"
  /\ reg' = [reg EXCEPT !.high = reg.low]
  /\ pc' = "load_low"
  /\ UNCHANGED <<psp, mem, saved_sp, r0, current, task_count, rtos_started, pendsv>>

LoadLow ==
  /\ pc = "load_low"
  /\ reg' = [reg EXCEPT !.low = mem[r0 - 2]]
  /\ r0' = r0 - 1
  /\ pc' = "set_psp"
  /\ UNCHANGED <<psp, mem, saved_sp, current, task_count, rtos_started, pendsv>>

\* ADDS, MSR PSP, CPSIE I.
SetPSP ==
  /\ pc = "set_psp"
  /\ psp' = r0 + 1
  /\ r0' = r0 + 1
  /\ pc' = "return"
  /\ UNCHANGED <<reg, mem, saved_sp, current, task_count, rtos_started, pendsv>>

\* BX LR.  A PendSV pended since CPSIE I is taken at once, frame in place.
TailChain ==
  /\ pc = "return"
  /\ pendsv
  /\ pendsv' = FALSE
  /\ pc' = "entered"
  /\ UNCHANGED <<reg, psp, mem, saved_sp, r0, current, task_count, rtos_started>>

ExceptionReturn ==
  /\ pc = "return"
  /\ ~pendsv
  /\ reg' = [reg EXCEPT !.args = mem[psp], !.ctl = mem[psp + 1]]
  /\ psp' = psp + 2
  /\ pc' = "thread"
  /\ UNCHANGED <<mem, saved_sp, r0, current, task_count, rtos_started, pendsv>>
-----------------------------------------------------------------------------
Boot == TaskCreate \/ CreateTrap \/ OsStart

Thread ==
  \/ \E v \in Versions : Compute(v)
  \/ Push
  \/ Pop
  \/ TriggerPendSV
  \/ TaskExit

Exceptions == Interrupt \/ NestedInterrupt \/ PendSVEnter \/ TailChain \/ ExceptionReturn

Save == CheckStarted \/ SaveLow \/ MoveHigh \/ SaveHigh

Restore == Pick \/ LoadHigh \/ MoveBack \/ LoadLow \/ SetPSP

Next == Boot \/ Thread \/ Exceptions \/ Save \/ Restore

Spec == Init /\ [][Next]_vars
-----------------------------------------------------------------------------
Labels ==
  {"create", "spin", "thread", "halt", "entered", "save_low", "move_high", "save_high",
   "pick", "load_high", "move_back", "load_low", "set_psp", "return"}

TypeOK ==
  /\ pc \in Labels
  /\ reg \in [Registers -> Value]
  /\ psp \in Nat
  /\ mem \in [Address -> Value]
  /\ saved_sp \in [Tasks -> Address]
  /\ r0 \in Nat
  /\ current \in Tasks
  /\ task_count \in 0 .. MAX_TASKS
  /\ rtos_started \in BOOLEAN
  /\ pendsv \in BOOLEAN

(***************************************************************************)
(* Once the kernel is started, everything is written into the stack of the *)
(* task that is on the CPU; before that, exceptions write into             *)
(* os_dummy_stack (scheduler.h: "landing pad") and never beyond it.        *)
(***************************************************************************)
WritesStayInside ==
  [][pc # "create" =>
       \A a \in Address : mem'[a] # mem[a] =>
         IF rtos_started THEN a \in StackOf(current) ELSE a < DummyTop]_vars

\* A context, given where its four register groups and its stack are.
Context(low, high, args, ctl, sp, t) ==
  [low |-> low, high |-> high, args |-> args, ctl |-> ctl,
   stack |-> [depth \in 1 .. Top(t) - sp |-> mem[Top(t) - depth]]]

InMemory(t) ==
  \/ ~rtos_started
  \/ t # current
  \/ pc \in {"pick", "load_high", "move_back", "load_low", "set_psp", "return"}

\* Where the context of t is, at each point of the switch.
ContextOf(t) ==
  CASE t >= task_count -> Context(Junk, Junk, Junk, Junk, Top(t), t)
    [] t < task_count /\ InMemory(t) ->
         LET sp == saved_sp[t]
         IN Context(mem[sp], mem[sp + 1], mem[sp + 2], mem[sp + 3], sp + Frame, t)
    [] t < task_count /\ ~InMemory(t) /\ pc \in {"entered", "save_low"} ->
         Context(reg.low, reg.high, mem[psp], mem[psp + 1], psp + 2, t)
    [] t < task_count /\ ~InMemory(t) /\ pc \in {"move_high", "save_high"} ->
         Context(mem[psp - 2], reg.high, mem[psp], mem[psp + 1], psp + 2, t)
    [] OTHER -> Context(reg.low, reg.high, reg.args, reg.ctl, psp, t)

A == INSTANCE AbstractTasks WITH
  NoContext <- [low |-> Junk, high |-> Junk, args |-> Junk, ctl |-> Junk, stack |-> <<>>],
  Start <- [t \in Tasks |->
              [low |-> Zero, high |-> Zero, args |-> Zero, ctl |-> Entry(t), stack |-> <<>>]],
  context <- [t \in Tasks |-> ContextOf(t)],
  running <- current,
  mode <- IF pc \in {"create", "spin"} THEN "boot"
          ELSE IF pc = "thread" THEN "thread" ELSE "handler"

(***************************************************************************)
(* A task resumes with the registers and the stack it was switched out     *)
(* with, whatever interrupts and switches lie between; its first context   *)
(* is the one os_task_stack_init() wrote.                                  *)
(***************************************************************************)
ImplementsTasks == A!Spec
=============================================================================
