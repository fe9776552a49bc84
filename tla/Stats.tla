------------------------------- MODULE Stats --------------------------------
(***************************************************************************)
(* Runtime statistics on top of Kernel: run_ticks and run_count, charged   *)
(* by SysTick_Handler and os_schedule(), the stack high-water mark and     *)
(* osGetTaskStats() (Src/rtos.c), called by one task while the others run. *)
(*                                                                         *)
(* A stack is the set of its words that no longer carry OS_STACK_SENTINEL, *)
(* numbered from stack_base[0] as in the code.                             *)
(***************************************************************************)
EXTENDS Kernel, FiniteSetsExt

CONSTANTS
  StackWords,   \* stack_words of every task
  FrameWords,   \* words of the initial frame, never sentinel
  Reader        \* the task that calls osGetTaskStats()

ASSUME StatsAssumption ==
  /\ FrameWords \in Nat \ {0}
  /\ StackWords \in Nat
  /\ FrameWords <= StackWords
  /\ Reader \in Tasks

VARIABLES
  run_ticks,    \* task_pool[].run_ticks, as wide as sys_tick
  run_count,    \* task_pool[].run_count, likewise
  written,      \* the words of each stack that are not sentinel any more
  reader_pc,    \* "app", or inside osGetTaskStats(): "scan", "filled"
  idx,          \* its argument task_idx
  unused,       \* its counter of sentinel words
  out,          \* *out
  marks,        \* history: the true marks of the subject during the call
  dispatched    \* history: the tasks os_schedule() ever selected

readerVars == <<reader_pc, idx, unused, out>>
statsVars == <<run_ticks, run_count, written, readerVars, marks, dispatched>>
vars == <<kernelVars, statsVars>>

\* The words of task_pool[].stack_base and those of the initial frame.
Words == 0 .. StackWords - 1
Frame == StackWords - FrameWords .. StackWords - 1

\* The true high-water mark: the words from the deepest written one up.
Mark(t) == StackWords - Min(written[t])

NoStats == [run_ticks |-> 0, run_count |-> 0, state |-> "READY", hwm |-> 0]

Init ==
  /\ KernelInit
  /\ run_ticks = [t \in Tasks |-> 0]
  /\ run_count = [t \in Tasks |-> 0]
  /\ written = [t \in Tasks |-> Frame]
  /\ reader_pc = "app"
  /\ idx = 0
  /\ unused = 0
  /\ out = NoStats
  /\ marks = {}
  /\ dispatched = {}

InCall == reader_pc # "app"

\* Every step of a call adds the mark that is true after it.
Observe == marks' = IF InCall' THEN marks \cup {Mark(idx)'} ELSE {}
-----------------------------------------------------------------------------
(* The kernel's steps with their accounting                                *)

CountedCreate ==
  /\ TaskCreate
  /\ run_ticks' = [run_ticks EXCEPT ![task_count] = 0]
  /\ run_count' = [run_count EXCEPT ![task_count] = 0]
  /\ written' = [written EXCEPT ![task_count] = Frame]
  /\ UNCHANGED <<dispatched, readerVars>>
  /\ Observe

\* Mutant of CountedTick: charged before rtos_started is looked at.
CountedTickAlways ==
  /\ SysTick
  /\ run_ticks' = [run_ticks EXCEPT ![current] = (@ + 1) % TickModulus]
  /\ UNCHANGED <<run_count, written, dispatched, readerVars>>
  /\ Observe

\* SysTick_Handler charges the task the tick interrupts.
CountedTick ==
  /\ SysTick
  /\ run_ticks' = IF rtos_started
                    THEN [run_ticks EXCEPT ![current] = (@ + 1) % TickModulus]
                    ELSE run_ticks
  /\ UNCHANGED <<run_count, written, dispatched, readerVars>>
  /\ Observe

\* os_schedule() counts a selection; its fallback counts nothing.
CountedSwitch ==
  /\ PendSVSwitch
  /\ IF Ready(Release(state, current), task_count) # {}
       THEN /\ run_count' = [run_count EXCEPT ![current'] = (@ + 1) % TickModulus]
            /\ dispatched' = dispatched \cup {current'}
       ELSE UNCHANGED <<run_count, dispatched>>
  /\ UNCHANGED <<run_ticks, written, readerVars>>
  /\ Observe

OtherKernelStep ==
  /\ \/ OsStart
     \/ PendSVEnter
     \/ \E t \in Tasks : (t = Reader => ~InCall) /\ TaskStep(t)
     \/ \E u \in Tasks : ReadyByIsr(u)
  /\ UNCHANGED <<run_ticks, run_count, written, dispatched, readerVars>>
  /\ Observe

\* The task on the CPU writes below its stack pointer: a local variable, or
\* all the words of a PUSH, an exception frame or PendSV's STMIA at once.  A
\* word in between that nobody wrote (an unused local) stays a sentinel.
UseStack(t) ==
  /\ rtos_started
  /\ t = current
  /\ \E W \in SUBSET (Words \ written[t]) :
       /\ W # {}
       /\ written' = [written EXCEPT ![t] = @ \cup W]
  /\ UNCHANGED <<kernelVars, run_ticks, run_count, dispatched, readerVars>>
  /\ Observe
-----------------------------------------------------------------------------
(* osGetTaskStats()                                                        *)

unchangedByReader == <<kernelVars, run_ticks, run_count, written, dispatched>>

\* Guard, masked snapshot, constant fields.
Snapshot(t) ==
  /\ At(Reader, "app")
  /\ ~InCall
  /\ t < task_count
  /\ idx' = t
  /\ out' = [run_ticks |-> run_ticks[t], run_count |-> run_count[t],
             state |-> state[t], hwm |-> 0]
  /\ unused' = 0
  /\ reader_pc' = "scan"
  /\ UNCHANGED unchangedByReader
  /\ Observe

\* Mutant of ScanWord: counts before it compares.
ScanWordCountsFirst ==
  /\ At(Reader, "app")
  /\ reader_pc = "scan"
  /\ unused' = unused + 1
  /\ IF unused < StackWords /\ unused \notin written[idx]
       THEN UNCHANGED <<reader_pc, out>>
       ELSE /\ out' = [out EXCEPT !.hwm = StackWords - unused']
            /\ reader_pc' = "filled"
  /\ UNCHANGED <<idx, unchangedByReader>>
  /\ Observe

\* One iteration of the unmasked scan (i = unused throughout), and the
\* result when the loop ends.
ScanWord ==
  /\ At(Reader, "app")
  /\ reader_pc = "scan"
  /\ IF unused < StackWords /\ unused \notin written[idx]
       THEN /\ unused' = unused + 1
            /\ UNCHANGED <<reader_pc, out>>
       ELSE /\ out' = [out EXCEPT !.hwm = StackWords - unused]
            /\ reader_pc' = "filled"
            /\ UNCHANGED unused
  /\ UNCHANGED <<idx, unchangedByReader>>
  /\ Observe

Return ==
  /\ At(Reader, "app")
  /\ reader_pc = "filled"
  /\ reader_pc' = "app"
  /\ out' = NoStats
  /\ unused' = 0
  /\ idx' = 0
  /\ UNCHANGED unchangedByReader
  /\ Observe
-----------------------------------------------------------------------------
Next ==
  \/ CountedCreate
  \/ CountedTick
  \/ CountedSwitch
  \/ OtherKernelStep
  \/ \E t \in Tasks : UseStack(t) \/ Snapshot(t)
  \/ ScanWord
  \/ Return

Spec == Init /\ [][Next]_vars
-----------------------------------------------------------------------------
StatsTypeOK ==
  /\ TypeOK
  /\ run_ticks \in [Tasks -> Ticks]
  /\ run_count \in [Tasks -> Ticks]
  /\ written \in [Tasks -> {W \in SUBSET Words : Frame \subseteq W}]
  /\ reader_pc \in {"app", "scan", "filled"}
  /\ idx \in Tasks
  /\ unused \in 0 .. StackWords - FrameWords

(***************************************************************************)
(* rtos.c, SysTick_Handler: a tick is charged "to whichever task was       *)
(* running".  No task pays for ticks before os_schedule() selected it, in  *)
(* particular not the one osStart() pretends to be outgoing.               *)
(***************************************************************************)
OnlyDispatchedPay == \A t \in Tasks : run_ticks[t] > 0 => t \in dispatched

(***************************************************************************)
(* rtos.c on the unmasked scan: whatever the subject writes meanwhile, the *)
(* reported mark is not below the true one when the call began nor above   *)
(* the true one when the scan ends; of a stack that is quiet it is exact.  *)
(***************************************************************************)
MarkIsBracketed ==
  reader_pc = "filled" => \E low, high \in marks : low <= out.hwm /\ out.hwm <= high

(***************************************************************************)
(* rtos.c on the same: "a mid-scan race is harmless -- the worst case is a *)
(* one-tick stale value".  A stale value is one that was true.             *)
(***************************************************************************)
MarkWasTrue ==
  reader_pc = "filled" => out.hwm \in marks
=============================================================================
