---------------------------- MODULE StatsProofs -----------------------------
(***************************************************************************)
(* The runtime statistics for every task table, tick width and stack size. *)
(* No idle task and no bound on delays is needed: BaseInv of KernelProofs  *)
(* suffices.                                                               *)
(***************************************************************************)
EXTENDS Stats, KernelProofs

StatsTypes ==
  /\ run_ticks \in [Tasks -> Ticks]
  /\ run_count \in [Tasks -> Ticks]
  /\ written \in [Tasks -> {W \in SUBSET Words : Frame \subseteq W}]
  /\ reader_pc \in {"app", "scan", "filled"}
  /\ idx \in Tasks
  /\ unused \in 0 .. StackWords - FrameWords
  /\ out \in [run_ticks : Ticks, run_count : Ticks, state : TaskState, hwm : Int]

\* From the first switch on, the task on the CPU is one that was selected.
PayInv ==
  /\ rtos_started => current \in dispatched
  /\ OnlyDispatchedPay

\* During a scan the true mark is the last one seen; the scan has not got past
\* the word that gave one of the earlier marks, which stays written.
ScanInv ==
  /\ reader_pc # "app" => rtos_started
  /\ reader_pc = "app" => marks = {}
  /\ reader_pc = "scan" =>
       /\ Mark(idx) \in marks
       /\ \E low \in marks : /\ low \in Nat /\ low <= StackWords - unused
                            /\ StackWords - low \in written[idx]
  /\ MarkIsBracketed

StatsInv == BaseInv /\ StatsTypes /\ PayInv /\ ScanInv
-----------------------------------------------------------------------------
(* The kernel below                                                        *)

LEMMA StatsSteps == [Next]_vars => [KernelNext]_kernelVars
BY DEF Next, vars, CountedCreate, CountedTick, CountedSwitch, OtherKernelStep, UseStack,
       Snapshot, ScanWord, Return, unchangedByReader, KernelNext, Main, Handlers

LEMMA StatsConstants ==
  /\ FrameWords \in Nat \ {0} /\ StackWords \in Nat /\ FrameWords <= StackWords
  /\ FrameWords \in FrameWords .. StackWords
  /\ Frame \in {W \in SUBSET Words : Frame \subseteq W}
  /\ 0 \in 0 .. StackWords - FrameWords
  /\ Reader \in Tasks /\ 0 \in Tasks /\ 0 \in Ticks
  /\ \A x \in Ticks : (x + 1) % TickModulus \in Ticks
<1>1. /\ FrameWords \in Nat \ {0} /\ StackWords \in Nat /\ FrameWords <= StackWords
      /\ Reader \in Tasks
  BY StatsAssumption DEF StatsAssumption
<1>2. 0 \in Tasks /\ 0 \in Ticks /\ \A x \in Ticks : (x + 1) % TickModulus \in Ticks
  <2>1. 0 \in Tasks
    BY TaskTypes
  <2>2. ASSUME NEW x \in Ticks
        PROVE  (x + 1) % TickModulus \in Ticks
    <3>1. x + 1 \in Nat
      BY TickTypes
    <3> QED
      BY <3>1, TickTypes
  <2> QED
    BY <2>1, <2>2, TickTypes
<1>3. Frame \subseteq Words
  BY <1>1 DEF Frame, Words
<1> QED
  BY <1>1, <1>2, <1>3

LEMMA InitStats == Init => StatsInv
<1> SUFFICES ASSUME Init
             PROVE  StatsInv
  OBVIOUS
<1>1. BaseInv
  BY InitBase DEF Init
<1>2. StatsTypes
  BY StatsConstants DEF Init, StatsTypes, NoStats, TaskState
<1>3. PayInv
  BY TickTypes DEF Init, KernelInit, PayInv, OnlyDispatchedPay
<1>4. ScanInv
  BY DEF Init, ScanInv, MarkIsBracketed
<1> QED
  BY <1>1, <1>2, <1>3, <1>4 DEF StatsInv
-----------------------------------------------------------------------------
(* The marks of a call                                                     *)

\* The true mark is given by a written word, and no deeper one is written.
LEMMA LeastWritten ==
  ASSUME NEW W \in SUBSET Words, Frame \subseteq W
  PROVE  /\ Min(W) \in W /\ Min(W) \in 0 .. StackWords - FrameWords
         /\ \A k \in W : Min(W) <= k
<1>1. FrameWords \in Nat \ {0} /\ StackWords \in Nat /\ FrameWords <= StackWords
  BY StatsConstants
<1>2. StackWords - FrameWords \in W
  BY <1>1 DEF Frame
<1>3. W \in SUBSET Nat
  BY <1>1 DEF Words
<1>4. \E m \in W : \A k \in W : m <= k
  BY <1>2, <1>3, LeastElement
<1>5. Min(W) \in W /\ \A k \in W : Min(W) <= k
  BY <1>4 DEF Min
<1>6. Min(W) \in Nat /\ Min(W) <= StackWords - FrameWords
  BY <1>2, <1>3, <1>5
<1> QED
  BY <1>1, <1>5, <1>6

\* A step of others leaves the reader's variables and adds to the marks.
LEMMA ScanKept ==
  ASSUME StatsInv, UNCHANGED readerVars, Observe, rtos_started => rtos_started',
         reader_pc # "app" => written[idx] \subseteq written'[idx]
  PROVE  ScanInv'
<1>1. /\ UNCHANGED <<reader_pc, idx, unused, out>>
      /\ marks' = IF reader_pc # "app" THEN marks \cup {Mark(idx)'} ELSE {}
  BY DEF readerVars, Observe, InCall
<1> QED
  BY <1>1 DEF StatsInv, ScanInv, MarkIsBracketed

LEMMA SnapshotScan ==
  ASSUME StatsInv, NEW t \in Tasks, Snapshot(t), StatsTypes'
  PROVE  ScanInv'
<1>1. /\ reader_pc' = "scan" /\ idx' = t /\ unused' = 0 /\ UNCHANGED rtos_started
      /\ marks' = marks \cup {Mark(idx)'}
  BY DEF Snapshot, Observe, InCall, unchangedByReader, kernelVars, bootVars
<1>2. rtos_started
  BY DEF Snapshot, StatsInv, At, Executing
<1>3. Min(written'[t]) \in written'[t] /\ Min(written'[t]) \in 0 .. StackWords - FrameWords
  BY LeastWritten DEF StatsTypes
<1>4. StackWords \in Nat /\ FrameWords \in Nat
  BY StatsConstants
<1>5. /\ Mark(idx)' = StackWords - Min(written'[t])
      /\ StackWords - Mark(idx)' = Min(written'[t])
      /\ Mark(idx)' \in Nat /\ Mark(idx)' <= StackWords - 0
  BY <1>1, <1>3, <1>4 DEF Mark
<1> QED
  BY <1>1, <1>2, <1>3, <1>5 DEF ScanInv, MarkIsBracketed

LEMMA ScanWordKeeps ==
  ASSUME StatsInv, ScanWord
  PROVE  /\ ScanInv' /\ unused' \in 0 .. StackWords - FrameWords
         /\ reader_pc' \in {"scan", "filled"}
         /\ out' \in [run_ticks : Ticks, run_count : Ticks, state : TaskState, hwm : Int]
<1>1. /\ reader_pc = "scan" /\ UNCHANGED <<written, idx, rtos_started>> /\ rtos_started
      /\ idx \in Tasks
      /\ FrameWords \in Nat \ {0} /\ StackWords \in Nat /\ FrameWords <= StackWords
      /\ unused \in 0 .. StackWords - FrameWords
      /\ out \in [run_ticks : Ticks, run_count : Ticks, state : TaskState, hwm : Int]
  BY StatsConstants
  DEF ScanWord, StatsInv, StatsTypes, ScanInv, unchangedByReader, kernelVars, bootVars
<1>2. PICK low \in marks : /\ low \in Nat /\ low <= StackWords - unused
                            /\ StackWords - low \in written[idx]
  BY <1>1 DEF StatsInv, ScanInv
<1>3. Mark(idx) \in marks /\ Mark(idx)' = Mark(idx) /\ marks' = marks
  <2>1. Mark(idx) \in marks /\ Mark(idx)' = Mark(idx)
    BY <1>1 DEF StatsInv, ScanInv, Mark
  <2>2. marks' = marks \cup {Mark(idx)'}
    BY <1>1 DEF ScanWord, Observe, InCall
  <2> QED
    BY <2>1, <2>2
<1>4. CASE unused < StackWords /\ unused \notin written[idx]
  <2>1. unused' = unused + 1 /\ reader_pc' = "scan" /\ UNCHANGED out
    BY <1>1, <1>4 DEF ScanWord
  <2>2. StackWords - FrameWords \in written[idx]
    BY <1>1 DEF StatsInv, StatsTypes, Frame
  <2>3. unused' \in 0 .. StackWords - FrameWords
    BY <1>1, <1>4, <2>1, <2>2
  <2>4. StackWords - low # unused /\ StackWords - low \in Int
    BY <1>1, <1>2, <1>4 DEF StatsInv, StatsTypes, Words
  <2>5. low <= StackWords - unused'
    BY <1>1, <1>2, <2>1, <2>4
  <2>6. /\ low \in marks' /\ low \in Nat /\ low <= StackWords - unused'
        /\ StackWords - low \in written'[idx']
    BY <1>1, <1>2, <1>3, <2>5
  <2> QED
    BY <1>1, <1>3, <2>1, <2>3, <2>6 DEF ScanInv, MarkIsBracketed
<1>5. CASE ~(unused < StackWords /\ unused \notin written[idx])
  <2>1. /\ UNCHANGED unused /\ reader_pc' = "filled"
        /\ out' = [out EXCEPT !.hwm = StackWords - unused]
    BY <1>1, <1>5 DEF ScanWord
  <2>2. StackWords - unused <= Mark(idx)
    <3>1. unused \in written[idx]
      BY <1>1, <1>5
    <3>2. Min(written[idx]) <= unused /\ Min(written[idx]) \in Nat
      BY <1>1, <3>1, LeastWritten DEF StatsInv, StatsTypes
    <3> QED
      BY <1>1, <3>2 DEF Mark
  <2>3. StackWords - unused \in Int
    BY <1>1
  <2>4. /\ out'.hwm = StackWords - unused
        /\ out' \in [run_ticks : Ticks, run_count : Ticks, state : TaskState, hwm : Int]
    BY <1>1, <2>1, <2>3
  <2> QED
    BY <1>1, <1>2, <1>3, <2>1, <2>2, <2>4 DEF ScanInv, MarkIsBracketed
<1> QED
  BY <1>4, <1>5
-----------------------------------------------------------------------------
(* One lemma per step                                                      *)

LocalInv == StatsTypes /\ PayInv /\ ScanInv

LEMMA CreateStats == ASSUME StatsInv, CountedCreate PROVE LocalInv'
<1>1. /\ ~rtos_started /\ ~rtos_started' /\ task_count \in Tasks
      /\ run_ticks' = [run_ticks EXCEPT ![task_count] = 0]
      /\ run_count' = [run_count EXCEPT ![task_count] = 0]
      /\ written' = [written EXCEPT ![task_count] = Frame]
      /\ UNCHANGED <<dispatched, reader_pc, idx, unused, out>>
  BY TaskTypes
  DEF CountedCreate, TaskCreate, StatsInv, BaseInv, BootInv, TypeOK, readerVars
<1>2. StatsTypes'
  BY <1>1, StatsConstants DEF StatsInv, StatsTypes
<1>3. PayInv'
  BY <1>1 DEF StatsInv, StatsTypes, PayInv, OnlyDispatchedPay
<1>4. reader_pc = "app"
  BY <1>1 DEF StatsInv, ScanInv
<1>5. ScanInv'
  BY <1>1, <1>2, <1>4, ScanKept DEF CountedCreate, StatsTypes
<1> QED
  BY <1>2, <1>3, <1>5 DEF LocalInv

LEMMA TickStats == ASSUME StatsInv, CountedTick PROVE LocalInv'
<1>1. /\ UNCHANGED <<rtos_started, current, run_count, written, dispatched, reader_pc, idx,
                     unused, out>>
      /\ current \in Tasks
  BY DEF CountedTick, SysTick, bootVars, readerVars, StatsInv, BaseInv, TypeOK
<1>2. run_ticks' \in [Tasks -> Ticks]
  BY <1>1, StatsConstants DEF CountedTick, StatsInv, StatsTypes
<1>3. StatsTypes'
  BY <1>1, <1>2 DEF StatsInv, StatsTypes
<1>4. \A t \in Tasks : run_ticks'[t] # run_ticks[t] => rtos_started /\ t = current
  BY <1>1 DEF CountedTick, StatsInv, StatsTypes
<1>5. PayInv'
  BY <1>1, <1>4 DEF StatsInv, PayInv, OnlyDispatchedPay
<1>6. ScanInv'
  BY <1>1, <1>3, ScanKept DEF CountedTick, StatsTypes
<1> QED
  BY <1>3, <1>5, <1>6 DEF LocalInv

\* Before the first switch every task is READY, so it selects one.
LEMMA FirstSwitchSelects ==
  ASSUME BaseInv, PendSVSwitch, ~rtos_started
  PROVE  Ready(Release(state, current), task_count) # {}
<1>1. task_count = NTasks /\ 0 \in 0 .. NTasks - 1 /\ 0 \in Tasks
  BY SwitchResult, TaskTypes
<1>2. state[0] = "READY" /\ state[current] # "RUNNING"
  BY <1>1 DEF BaseInv, TypeOK, BootInv
<1>3. 0 \in Ready(Release(state, current), task_count)
  BY <1>1, <1>2 DEF Ready, Release
<1> QED
  BY <1>3

LEMMA SwitchStats == ASSUME StatsInv, CountedSwitch PROVE LocalInv'
<1>1. BaseInv /\ PendSVSwitch
  BY DEF StatsInv, CountedSwitch
<1>2. UNCHANGED <<run_ticks, written, reader_pc, idx, unused, out>> /\ current' \in Tasks
  BY <1>1, SwitchResult DEF CountedSwitch, readerVars
<1>3. run_count' \in [Tasks -> Ticks]
  BY <1>2, StatsConstants DEF CountedSwitch, StatsInv, StatsTypes
<1>4. StatsTypes'
  BY <1>2, <1>3 DEF StatsInv, StatsTypes
<1>5. current' \in dispatched' /\ dispatched \subseteq dispatched'
  <2>1. CASE Ready(Release(state, current), task_count) # {}
    BY <2>1 DEF CountedSwitch
  <2>2. CASE Ready(Release(state, current), task_count) = {}
    <3>1. rtos_started
      BY <1>1, <2>2, FirstSwitchSelects
    <3>2. current' = current /\ UNCHANGED dispatched
      BY <2>2 DEF CountedSwitch, PendSVSwitch, AfterSchedule
    <3> QED
      BY <3>1, <3>2 DEF StatsInv, PayInv
  <2> QED
    BY <2>1, <2>2
<1>6. PayInv'
  BY <1>2, <1>5 DEF StatsInv, PayInv, OnlyDispatchedPay
<1>7. rtos_started'
  BY <1>1 DEF PendSVSwitch
<1>8. ScanInv'
  BY <1>2, <1>4, <1>7, ScanKept DEF CountedSwitch, StatsTypes
<1> QED
  BY <1>4, <1>6, <1>8 DEF LocalInv

LEMMA OtherStats == ASSUME StatsInv, OtherKernelStep PROVE LocalInv'
<1>1. UNCHANGED <<run_ticks, run_count, written, dispatched, reader_pc, idx, unused, out>>
  BY DEF OtherKernelStep, readerVars
<1>2. StatsTypes'
  BY <1>1 DEF StatsInv, StatsTypes
<1>3. UNCHANGED rtos_started
  BY DEF OtherKernelStep, OsStart, PendSVEnter, TaskStep, OsDelay, Yield, YieldFrom, Block,
         ReadyByTask, ReadyByIsr, bootVars
<1>4. rtos_started => UNCHANGED current
  BY DEF OtherKernelStep, OsStart, PendSVEnter, TaskStep, OsDelay, Yield, YieldFrom, Block,
         ReadyByTask, ReadyByIsr, bootVars, StatsInv, BaseInv, BootInv
<1>5. PayInv'
  BY <1>1, <1>3, <1>4 DEF StatsInv, PayInv, OnlyDispatchedPay
<1>6. ScanInv'
  BY <1>1, <1>2, <1>3, ScanKept DEF OtherKernelStep, StatsTypes
<1> QED
  BY <1>2, <1>5, <1>6 DEF LocalInv

LEMMA UseStackStats == ASSUME StatsInv, NEW t \in Tasks, UseStack(t) PROVE LocalInv'
<1>1. /\ UNCHANGED <<rtos_started, current, run_ticks, run_count, dispatched, reader_pc, idx,
                     unused, out>>
      /\ \E W \in SUBSET (Words \ written[t]) : written' = [written EXCEPT ![t] = written[t] \cup W]
  BY DEF UseStack, kernelVars, bootVars, readerVars
<1>2. written' \in [Tasks -> {W \in SUBSET Words : Frame \subseteq W}]
  BY <1>1 DEF StatsInv, StatsTypes
<1>3. StatsTypes'
  BY <1>1, <1>2 DEF StatsInv, StatsTypes
<1>4. PayInv'
  BY <1>1 DEF StatsInv, PayInv, OnlyDispatchedPay
<1>5. written[idx] \subseteq written'[idx]
  BY <1>1 DEF StatsInv, StatsTypes
<1>6. ScanInv'
  BY <1>1, <1>5, ScanKept DEF UseStack
<1> QED
  BY <1>3, <1>4, <1>6 DEF LocalInv

LEMMA ReaderStats ==
  ASSUME StatsInv, (\E t \in Tasks : Snapshot(t)) \/ ScanWord \/ Return
  PROVE  LocalInv'
<1>1. UNCHANGED <<rtos_started, current, state, run_ticks, run_count, written, dispatched>>
  BY DEF Snapshot, ScanWord, Return, unchangedByReader, kernelVars, bootVars, taskVars
<1>2. PayInv'
  BY <1>1 DEF StatsInv, PayInv, OnlyDispatchedPay
<1>3. ASSUME NEW t \in Tasks, Snapshot(t)
      PROVE  LocalInv'
  <2>1. /\ run_ticks[t] \in Ticks /\ run_count[t] \in Ticks /\ state[t] \in TaskState
        /\ out' = [run_ticks |-> run_ticks[t], run_count |-> run_count[t],
                   state |-> state[t], hwm |-> 0]
        /\ reader_pc' = "scan" /\ unused' = 0 /\ idx' = t
    BY <1>3 DEF Snapshot, StatsInv, StatsTypes, BaseInv, TypeOK
  <2>2. StatsTypes'
    BY <1>1, <2>1, StatsConstants DEF StatsInv, StatsTypes
  <2> QED
    BY <1>2, <1>3, <2>2, SnapshotScan DEF LocalInv
<1>4. CASE ScanWord
  <2>1. UNCHANGED idx
    BY <1>4 DEF ScanWord
  <2>2. StatsTypes' /\ ScanInv'
    BY <1>1, <1>4, <2>1, ScanWordKeeps DEF StatsInv, StatsTypes
  <2> QED
    BY <1>2, <2>2 DEF LocalInv
<1>5. CASE Return
  <2>1. StatsTypes'
    BY <1>1, <1>5, StatsConstants DEF Return, NoStats, StatsInv, StatsTypes, TaskState
  <2>2. ScanInv'
    BY <1>5 DEF Return, Observe, InCall, ScanInv, MarkIsBracketed
  <2> QED
    BY <1>2, <2>1, <2>2 DEF LocalInv
<1> QED
  BY <1>3, <1>4, <1>5

LEMMA StatsStep == StatsInv /\ [Next]_vars => StatsInv'
<1> SUFFICES ASSUME StatsInv, [Next]_vars
             PROVE  StatsInv'
  OBVIOUS
<1>1. BaseInv'
  BY StatsSteps, BaseStep DEF StatsInv
<1>2. CASE UNCHANGED vars
  <2>1. UNCHANGED <<rtos_started, current, run_ticks, run_count, written, reader_pc, idx,
                    unused, out, marks, dispatched>>
    BY <1>2 DEF vars, statsVars, readerVars, kernelVars, bootVars
  <2>2. StatsTypes' /\ PayInv' /\ ScanInv'
    BY <2>1 DEF StatsInv, StatsTypes, PayInv, OnlyDispatchedPay, ScanInv, MarkIsBracketed, Mark
  <2> QED
    BY <1>1, <2>2 DEF StatsInv
<1>3. CASE Next
  <2>1. LocalInv'
    BY <1>3, CreateStats, TickStats, SwitchStats, OtherStats, UseStackStats, ReaderStats
    DEF Next
  <2> QED
    BY <1>1, <2>1 DEF StatsInv, LocalInv
<1> QED
  BY <1>2, <1>3

LEMMA StatsInvariance == Spec => []StatsInv
BY InitStats, StatsStep, PTL DEF Spec

\* Type correctness of the statistics; in particular the scan of
\* osGetTaskStats() counts at most the words that can carry the sentinel.
THEOREM StatsTypeCorrect == Spec => []StatsTypeOK
<1>1. StatsInv => StatsTypeOK
  BY DEF StatsInv, StatsTypes, BaseInv, StatsTypeOK
<1> QED
  BY <1>1, StatsInvariance, PTL

\* SysTick_Handler charges no task that os_schedule() has not selected.
THEOREM ChargesAreEarned == Spec => []OnlyDispatchedPay
<1>1. StatsInv => OnlyDispatchedPay
  BY DEF StatsInv, PayInv
<1> QED
  BY <1>1, StatsInvariance, PTL

\* The high-water mark of osGetTaskStats() is neither below the true one at
\* the start of the call nor above the true one at its end, although the scan
\* is not masked and the subject may write any words of its stack meanwhile.
THEOREM MarksAreBracketed == Spec => []MarkIsBracketed
<1>1. StatsInv => MarkIsBracketed
  BY DEF StatsInv, ScanInv
<1> QED
  BY <1>1, StatsInvariance, PTL
=============================================================================
