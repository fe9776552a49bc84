----------------------------- MODULE RtosProofs -----------------------------
(***************************************************************************)
(* The semaphores and mutexes for every task table and every client code,  *)
(* and the kernel's theorems carried over to the system with real wait     *)
(* queues.  The two invariants need each other: a step of Rtos is a step   *)
(* of Kernel because the queues hold BLOCKED tasks only, and the queues    *)
(* stay right because Kernel lets no BLOCKED task run past its wait.  On   *)
(* top of them: where the permit of a mutex is, what a step does to the    *)
(* permits and to the order of a queue, and the trap of osMutexRelease().  *)
(***************************************************************************)
EXTENDS Rtos, FiniteSetTheorems, TLAPS

\* The kernel's theorems about the mapped state.
KP == INSTANCE KernelProofs WITH pc <- KernelPc

RtosLabels ==
  {"app", "delay_yield", "signal_yield", "wait_yield",
   "wait_return", "set_owner", "release_signal", "trap"}

\* How KernelPc maps a label.
Seen(label) ==
  CASE label = "wait_yield" -> "block_yield"
    [] label \in {"wait_return", "set_owner", "release_signal", "trap"} -> "app"
    [] OTHER -> label

SemTypes ==
  /\ pc \in [Tasks -> RtosLabels]
  /\ count \in [Sems -> Nat]
  /\ waiting \in [Sems -> Seq(Tasks)]
  /\ owner \in [Mutexes -> Tasks \cup {NoTask}]
  /\ obj \in [Tasks -> Sems \cup {NoSem}]

\* The object of a call is one the task's code may use it on.
MayBe(t, label, o) ==
  /\ label = "wait_yield" => o \in Sems
  /\ label = "wait_return" => o \in Sems \ Mutexes
  /\ label = "set_owner" => o \in Mutexes
  /\ label = "release_signal" => o \in Mutexes /\ "signal" \in Calls[t]

CallInv == \A t \in Tasks : MayBe(t, pc[t], obj[t])

Waiters(s) == ToSet(waiting[s])

Once(q) == \A i, j \in DOMAIN q : q[i] = q[j] => i = j

\* BlockedIffQueued, said by queue.
QueueInv ==
  /\ \A s \in Sems : Once(waiting[s])
  /\ \A t \in Tasks : state[t] = "BLOCKED" => \E s \in Sems : t \in Waiters(s)
  /\ \A s \in Sems : \A t \in Waiters(s) :
       /\ t \in Tasks /\ state[t] = "BLOCKED" /\ obj[t] = s
       /\ pc[t] \in {"wait_yield", AfterWait(s)}

RtosInv == KP!KernelInv /\ SemTypes /\ CallInv /\ QueueInv /\ NoLostWakeup
-----------------------------------------------------------------------------
(* The instance is the kernel Rtos extends, and the one it names K         *)

LEMMA KernelAssumptions == KP!PoolAssumption /\ KP!KernelAssumption
BY PoolAssumption, KernelAssumption
DEF PoolAssumption, KernelAssumption, KP!PoolAssumption, KP!KernelAssumption,
    MAX_TASKS, Tasks, CallNames, Ticks, TickModulus,
    KP!MAX_TASKS, KP!Tasks, KP!CallNames, KP!Ticks, KP!TickModulus

LEMMA SameTasks ==
  /\ KP!Tasks = Tasks /\ K!Tasks = Tasks
  /\ KP!TaskState = TaskState /\ KP!IdleTasks = IdleTasks
  /\ \A t : KP!Executing(t) <=> Executing(t)
BY DEF KP!Tasks, K!Tasks, Tasks, KP!TaskState, TaskState, KP!IdleTasks, IdleTasks,
       KP!Executing, Executing

LEMMA SameInit == KP!KernelInit => K!KernelInit
BY DEF KP!KernelInit, K!KernelInit, KP!Tasks, K!Tasks

LEMMA SameNext == KP!KernelNext => K!KernelNext
<1> SUFFICES ASSUME KP!KernelNext
             PROVE  K!KernelNext
  OBVIOUS
<1>1. CASE KP!Main
  BY <1>1
  DEF KP!Main, K!Main, K!KernelNext, KP!TaskCreate, K!TaskCreate, KP!OsStart, K!OsStart,
      KP!taskVars, K!taskVars, KP!cpuVars, K!cpuVars
<1>2. CASE KP!SysTick
  <2>1. K!SysTick
    BY <1>2
    DEF KP!SysTick, K!SysTick, KP!Expired, K!Expired, KP!Reached, K!Reached,
        KP!TickModulus, K!TickModulus, KP!Tasks, K!Tasks, KP!bootVars, K!bootVars
  <2> QED
    BY <2>1 DEF K!KernelNext, K!Handlers
<1>3. CASE KP!PendSVEnter
  BY <1>3
  DEF KP!PendSVEnter, K!PendSVEnter, K!KernelNext, K!Handlers, KP!taskVars, K!taskVars,
      KP!bootVars, K!bootVars
<1>4. CASE KP!PendSVSwitch
  <2>1. \A n : KP!AfterSchedule(state, current, n) = K!AfterSchedule(state, current, n)
    BY DEF KP!AfterSchedule, K!AfterSchedule, KP!Release, K!Release, KP!Ready, K!Ready,
           KP!NextTask, K!NextTask, KP!Slot, K!Slot, KP!FirstHit, K!FirstHit, KP!Top, K!Top
  <2>2. K!PendSVSwitch
    BY <1>4, <2>1 DEF KP!PendSVSwitch, K!PendSVSwitch
  <2> QED
    BY <2>2 DEF K!KernelNext, K!Handlers
<1>5. ASSUME NEW t \in KP!Tasks, KP!TaskStep(t)
      PROVE  K!KernelNext
  <2>1. K!TaskStep(t)
    BY <1>5
    DEF KP!TaskStep, K!TaskStep, KP!OsDelay, K!OsDelay, KP!Yield, K!Yield, KP!YieldFrom,
        K!YieldFrom, KP!Block, K!Block, KP!ReadyByTask, K!ReadyByTask, KP!At, K!At,
        KP!Executing, K!Executing, KP!Goto, K!Goto, KP!TickModulus, K!TickModulus,
        KP!Tasks, K!Tasks, KP!bootVars, K!bootVars, KP!cpuVars, K!cpuVars
  <2> QED
    BY <1>5, <2>1, SameTasks DEF K!KernelNext
<1>6. ASSUME NEW u \in KP!Tasks, KP!ReadyByIsr(u)
      PROVE  K!KernelNext
  <2>1. K!ReadyByIsr(u)
    BY <1>6 DEF KP!ReadyByIsr, K!ReadyByIsr, KP!bootVars, K!bootVars
  <2> QED
    BY <1>6, <2>1, SameTasks DEF K!KernelNext
<1> QED
  BY <1>1, <1>2, <1>3, <1>4, <1>5, <1>6 DEF KP!KernelNext, KP!Handlers
-----------------------------------------------------------------------------
(* Queues                                                                  *)

LEMMA AppendFacts ==
  ASSUME NEW Elem, NEW q \in Seq(Elem), NEW x \in Elem
  PROVE  /\ Append(q, x) \in Seq(Elem)
         /\ ToSet(Append(q, x)) = ToSet(q) \cup {x}
         /\ Once(q) /\ x \notin ToSet(q) => Once(Append(q, x))
<1> DEFINE r == Append(q, x)
           n == Len(q)
<1>1. /\ n \in Nat /\ Len(r) = n + 1 /\ r \in Seq(Elem)
      /\ DOMAIN q = 1 .. n /\ DOMAIN r = 1 .. n + 1
      /\ r[n + 1] = x
      /\ \A i \in 1 .. n : r[i] = q[i]
  OBVIOUS
<1> HIDE DEF r, n
<1>2. ToSet(r) = ToSet(q) \cup {x}
  <2>1. \A y \in ToSet(r) : y \in ToSet(q) \cup {x}
    BY <1>1 DEF ToSet
  <2>2. x \in ToSet(r)
    <3>1. n + 1 \in DOMAIN r
      BY <1>1
    <3> QED
      BY <1>1, <3>1 DEF ToSet
  <2>3. \A y \in ToSet(q) : y \in ToSet(r)
    BY <1>1 DEF ToSet
  <2> QED
    BY <2>1, <2>2, <2>3
<1>3. ASSUME Once(q), x \notin ToSet(q)
      PROVE  Once(r)
  <2>1. \A i \in 1 .. n : q[i] # x
    BY <1>1, <1>3 DEF ToSet
  <2>2. \A i \in 1 .. n + 1 : i \in 1 .. n \/ i = n + 1
    BY <1>1
  <2> QED
    BY <1>1, <1>3, <2>1, <2>2 DEF Once
<1> QED
  BY <1>1, <1>2, <1>3 DEF r

LEMMA TailFacts ==
  ASSUME NEW Elem, NEW q \in Seq(Elem), q # <<>>, Once(q)
  PROVE  /\ Head(q) \in Elem /\ Head(q) \in ToSet(q)
         /\ Tail(q) \in Seq(Elem)
         /\ ToSet(Tail(q)) = ToSet(q) \ {Head(q)}
         /\ Once(Tail(q))
<1> DEFINE r == Tail(q)
           n == Len(q)
<1>1. /\ n \in Nat \ {0} /\ Len(r) = n - 1 /\ r \in Seq(Elem)
      /\ DOMAIN q = 1 .. n /\ DOMAIN r = 1 .. n - 1
      /\ Head(q) = q[1] /\ Head(q) \in Elem
      /\ \A i \in 1 .. n - 1 : r[i] = q[i + 1]
  OBVIOUS
<1> HIDE DEF r, n
<1>2. Head(q) \in ToSet(q)
  <2>1. 1 \in DOMAIN q
    BY <1>1
  <2> QED
    BY <1>1, <2>1 DEF ToSet
<1>3. \A y \in ToSet(r) : y \in ToSet(q) \ {Head(q)}
  <2> SUFFICES ASSUME NEW i \in DOMAIN r
               PROVE  r[i] \in ToSet(q) \ {Head(q)}
    BY DEF ToSet
  <2>1. i + 1 \in DOMAIN q /\ 1 \in DOMAIN q /\ i + 1 # 1
    BY <1>1
  <2> QED
    BY <1>1, <2>1 DEF ToSet, Once
<1>4. \A y \in ToSet(q) \ {Head(q)} : y \in ToSet(r)
  <2> SUFFICES ASSUME NEW i \in DOMAIN q, q[i] # Head(q)
               PROVE  q[i] \in ToSet(r)
    BY DEF ToSet
  <2>1. i - 1 \in DOMAIN r /\ r[i - 1] = q[i]
    BY <1>1
  <2> QED
    BY <2>1 DEF ToSet
<1>5. Once(r)
  <2> SUFFICES ASSUME NEW i \in DOMAIN r, NEW j \in DOMAIN r, r[i] = r[j]
               PROVE  i = j
    BY DEF Once
  <2>1. i + 1 \in DOMAIN q /\ j + 1 \in DOMAIN q /\ q[i + 1] = q[j + 1]
    BY <1>1
  <2>2. i + 1 = j + 1
    BY <2>1 DEF Once
  <2> QED
    BY <1>1, <2>2
<1> QED
  BY <1>1, <1>2, <1>3, <1>4, <1>5 DEF r

LEMMA QueueInvSays ==
  ASSUME SemTypes
  PROVE  QueueInv => BlockedIffQueued
BY DEF SemTypes, QueueInv, BlockedIffQueued, Waiters, Once
-----------------------------------------------------------------------------
(* Every step is a step of the kernel, or none                             *)

LEMMA KernelTypes ==
  ASSUME RtosInv
  PROVE  /\ state \in [Tasks -> TaskState] /\ current \in Tasks
         /\ pc \in [Tasks -> RtosLabels]
BY SameTasks DEF RtosInv, SemTypes, KP!KernelInv, KP!BaseInv, KP!TypeOK

LEMMA MappedLabel ==
  ASSUME NEW t \in Tasks
  PROVE  KernelPc[t] = Seen(pc[t])
BY DEF KernelPc, Seen

LEMMA MappedGoto ==
  ASSUME pc \in [Tasks -> RtosLabels], NEW t \in Tasks, NEW label, Goto(t, label)
  PROVE  KernelPc' = [KernelPc EXCEPT ![t] = Seen(label)]
BY DEF Goto, KernelPc, Seen

FreeLabels == {"app", "wait_return", "set_owner", "release_signal"}

\* A task that executes outside the blocking calls was not left in a queue.
LEMMA CallerFacts ==
  ASSUME RtosInv, NEW t \in Tasks, NEW label \in FreeLabels, At(t, label)
  PROVE  /\ t = current /\ state[t] = "RUNNING"
         /\ KernelPc[t] = "app" /\ KP!At(t, "app")
         /\ \A s \in Sems : t \notin Waiters(s)
<1>1. t = current /\ KP!Executing(t)
  BY SameTasks DEF At, Executing
<1>2. KernelPc[t] = "app"
  BY MappedLabel DEF At, Seen, FreeLabels
<1>3. state[t] = "RUNNING"
  BY <1>1, <1>2, SameTasks DEF RtosInv, KP!KernelInv, KP!CpuInv
<1>4. \A s \in Sems : t \notin Waiters(s)
  BY <1>3 DEF RtosInv, QueueInv
<1> QED
  BY <1>1, <1>2, <1>3, <1>4 DEF KP!At

\* A task moves between labels the kernel does not tell apart.
LEMMA SilentGoto ==
  ASSUME RtosInv, NEW t \in Tasks, NEW from \in FreeLabels, At(t, from),
         NEW to \in FreeLabels \cup {"trap"}, Goto(t, to),
         UNCHANGED <<state, wake_tick, remaining, bootVars, cpuVars>>
  PROVE  UNCHANGED KP!kernelVars
<1>1. KernelPc[t] = "app" /\ Seen(to) = "app"
  BY CallerFacts DEF Seen, FreeLabels
<1>2. KernelPc' = [KernelPc EXCEPT ![t] = "app"]
  BY <1>1, MappedGoto, KernelTypes
<1>3. KernelPc' = KernelPc
  BY <1>1, <1>2 DEF KernelPc
<1> QED
  BY <1>3 DEF KP!kernelVars, KP!taskVars, KP!bootVars, KP!cpuVars, bootVars, cpuVars

LEMMA MapsSwitch ==
  ASSUME RtosInv, PendSVSwitch
  PROVE  KP!PendSVSwitch
<1>1. \A n : KP!AfterSchedule(state, current, n) = AfterSchedule(state, current, n)
  BY DEF KP!AfterSchedule, AfterSchedule, KP!Release, Release, KP!Ready, Ready,
         KP!NextTask, NextTask, KP!Slot, Slot, KP!FirstHit, FirstHit, KP!Top, Top
<1>2. KernelPc' = KernelPc
  BY DEF PendSVSwitch, KernelPc
<1> QED
  BY <1>1, <1>2 DEF PendSVSwitch, KP!PendSVSwitch

LEMMA MapsHandlers ==
  ASSUME RtosInv, Main \/ Handlers
  PROVE  KP!KernelNext
<1>1. KernelPc' = KernelPc
  BY DEF Main, Handlers, TaskCreate, OsStart, SysTick, PendSVEnter, PendSVSwitch, taskVars,
         KernelPc
<1>2. CASE Main
  BY <1>1, <1>2
  DEF Main, KP!Main, KP!KernelNext, TaskCreate, KP!TaskCreate, OsStart, KP!OsStart,
      taskVars, KP!taskVars, cpuVars, KP!cpuVars
<1>3. CASE SysTick
  <2>1. KP!SysTick
    BY <1>1, <1>3
    DEF SysTick, KP!SysTick, Expired, KP!Expired, Reached, KP!Reached, TickModulus,
        KP!TickModulus, Tasks, KP!Tasks, bootVars, KP!bootVars
  <2> QED
    BY <2>1 DEF KP!KernelNext, KP!Handlers
<1>4. CASE PendSVEnter
  BY <1>1, <1>4
  DEF PendSVEnter, KP!PendSVEnter, KP!KernelNext, KP!Handlers, taskVars, KP!taskVars,
      bootVars, KP!bootVars
<1>5. CASE PendSVSwitch
  BY <1>5, MapsSwitch DEF KP!KernelNext, KP!Handlers
<1> QED
  BY <1>2, <1>3, <1>4, <1>5 DEF Handlers

LEMMA MapsDelay ==
  ASSUME RtosInv, NEW t \in Tasks, NEW ticks \in Delays, OsDelay(t, ticks)
  PROVE  KP!KernelNext
<1>1. KP!At(t, "app")
  BY CallerFacts DEF OsDelay, FreeLabels
<1>2. KP!Goto(t, "delay_yield")
  BY MappedGoto, KernelTypes DEF OsDelay, KP!Goto, Seen
<1>3. KP!OsDelay(t, ticks)
  BY <1>1, <1>2
  DEF OsDelay, KP!OsDelay, TickModulus, KP!TickModulus, bootVars, KP!bootVars, cpuVars,
      KP!cpuVars
<1> QED
  BY <1>3, SameTasks DEF KP!KernelNext, KP!TaskStep

LEMMA MapsYield ==
  ASSUME RtosInv, NEW t \in Tasks, NEW from, NEW to,
         YieldFrom(t, from, to),
         from \in {"delay_yield", "signal_yield", "wait_yield"},
         to \in FreeLabels
  PROVE  KP!KernelNext
<1>1. KP!At(t, Seen(from))
  BY SameTasks, MappedLabel DEF YieldFrom, At, KP!At
<1>2. KP!Goto(t, "app")
  BY MappedGoto, KernelTypes DEF YieldFrom, KP!Goto, Seen, FreeLabels
<1>3. KP!YieldFrom(t, Seen(from), "app")
  BY <1>1, <1>2 DEF YieldFrom, KP!YieldFrom, bootVars, KP!bootVars
<1>4. Seen(from) \in {"delay_yield", "block_yield", "signal_yield"}
  BY DEF Seen
<1> QED
  BY <1>3, <1>4, SameTasks DEF KP!KernelNext, KP!TaskStep, KP!Yield

LEMMA MapsBlock ==
  ASSUME RtosInv, NEW t \in Tasks, NEW s \in Sems, WaitBlock(t, s)
  PROVE  KP!KernelNext
<1>1. KP!At(t, "app") /\ t = current
  BY CallerFacts DEF WaitBlock, CallsWait, FreeLabels
<1>2. "block" \in Calls[t]
  BY RtosAssumption DEF RtosAssumption, WaitBlock, CallsWait, WaitOps
<1>3. KP!Goto(t, "block_yield")
  BY MappedGoto, KernelTypes DEF WaitBlock, KP!Goto, Seen
<1>4. KP!Block(t)
  BY <1>1, <1>2, <1>3
  DEF WaitBlock, KP!Block, bootVars, KP!bootVars, cpuVars, KP!cpuVars
<1> QED
  BY <1>4, SameTasks DEF KP!KernelNext, KP!TaskStep

LEMMA HeadIsBlocked ==
  ASSUME RtosInv, NEW s \in Sems, waiting[s] # <<>>
  PROVE  /\ Head(waiting[s]) \in Waiters(s) /\ Head(waiting[s]) \in Tasks
         /\ state[Head(waiting[s])] = "BLOCKED"
<1>1. waiting[s] \in Seq(Tasks) /\ Once(waiting[s])
  BY DEF RtosInv, SemTypes, QueueInv
<1>2. Head(waiting[s]) \in Waiters(s)
  BY <1>1, TailFacts DEF Waiters
<1> QED
  BY <1>2 DEF RtosInv, QueueInv

LEMMA SignallerFacts ==
  ASSUME RtosInv, NEW t \in Tasks, NEW s \in Sems, CallsSignal(t, s)
  PROVE  /\ \E label \in FreeLabels : At(t, label)
         /\ "signal" \in Calls[t]
         /\ \/ pc[t] = "app" /\ s \notin Mutexes
            \/ pc[t] = "release_signal" /\ s \in Mutexes /\ obj[t] = s
<1>1. CASE At(t, "app") /\ <<"signal", s>> \in Uses[t]
  <2>1. s \notin Mutexes /\ "signal" \in Calls[t]
    BY <1>1, RtosAssumption DEF RtosAssumption
  <2>2. "app" \in FreeLabels /\ pc[t] = "app"
    BY <1>1 DEF FreeLabels, At
  <2> QED
    BY <1>1, <2>1, <2>2
<1>2. CASE At(t, "release_signal") /\ obj[t] = s
  BY <1>2 DEF RtosInv, CallInv, MayBe, FreeLabels, At
<1> QED
  BY <1>1, <1>2 DEF CallsSignal

LEMMA MapsSignal ==
  ASSUME RtosInv, NEW t \in Tasks, NEW s \in Sems, Signal(t, s)
  PROVE  KP!KernelNext \/ UNCHANGED KP!kernelVars
<1>1. PICK label \in FreeLabels : At(t, label)
  BY SignallerFacts DEF Signal
<1>2. CASE HandOff(s) /\ Goto(t, "signal_yield")
  <2> DEFINE u == Head(waiting[s])
  <2>1. u \in Tasks /\ state[u] = "BLOCKED"
    BY <1>2, HeadIsBlocked DEF HandOff
  <2>2. KP!At(t, "app") /\ "signal" \in Calls[t]
    BY <1>1, CallerFacts, SignallerFacts DEF Signal
  <2>3. KP!Goto(t, "signal_yield")
    BY <1>2, MappedGoto, KernelTypes DEF KP!Goto, Seen
  <2>4. KP!ReadyByTask(t, u)
    BY <1>2, <2>1, <2>2, <2>3
    DEF Signal, HandOff, KP!ReadyByTask, bootVars, KP!bootVars, cpuVars, KP!cpuVars
  <2> QED
    BY <2>1, <2>4, SameTasks DEF KP!KernelNext, KP!TaskStep
<1>3. CASE Post(s) /\ Goto(t, "app")
  BY <1>1, <1>3, SilentGoto DEF Signal, Post, FreeLabels
<1> QED
  BY <1>2, <1>3 DEF Signal

LEMMA MapsIsrSignal ==
  ASSUME RtosInv, NEW s \in IsrSems, IsrSignal(s)
  PROVE  KP!KernelNext \/ UNCHANGED KP!kernelVars
<1>1. s \in Sems /\ IsrSignals
  BY RtosAssumption DEF RtosAssumption
<1>2. KernelPc' = KernelPc
  BY DEF IsrSignal, KernelPc
<1>3. CASE HandOff(s) /\ pendsv' = TRUE
  <2> DEFINE u == Head(waiting[s])
  <2>1. u \in Tasks /\ state[u] = "BLOCKED"
    BY <1>1, <1>3, HeadIsBlocked DEF HandOff
  <2>2. KP!ReadyByIsr(u)
    BY <1>1, <1>2, <1>3, <2>1 DEF IsrSignal, HandOff, KP!ReadyByIsr, bootVars, KP!bootVars
  <2> QED
    BY <2>1, <2>2, SameTasks DEF KP!KernelNext
<1>4. CASE Post(s) /\ UNCHANGED pendsv
  BY <1>2, <1>4
  DEF IsrSignal, Post, KP!kernelVars, KP!taskVars, KP!bootVars, KP!cpuVars, bootVars
<1> QED
  BY <1>3, <1>4 DEF IsrSignal

LEMMA MapsSemStep ==
  ASSUME RtosInv, NEW t \in Tasks, SemStep(t)
  PROVE  KP!KernelNext \/ UNCHANGED KP!kernelVars
<1>1. CASE WaitYield(t)
  BY <1>1, MapsYield DEF WaitYield, AfterWait, FreeLabels
<1>2. CASE WaitReturn(t)
  BY <1>2, SilentGoto DEF WaitReturn, FreeLabels
<1>3. CASE SetOwner(t)
  BY <1>3, SilentGoto DEF SetOwner, FreeLabels
<1>4. ASSUME NEW s \in Sems, WaitFast(t, s)
      PROVE  UNCHANGED KP!kernelVars
  <2>1. AfterWait(s) \in FreeLabels
    BY DEF AfterWait, FreeLabels
  <2> QED
    BY <1>4, <2>1, SilentGoto DEF WaitFast, CallsWait, FreeLabels
<1>5. ASSUME NEW m \in Mutexes, ReleaseTrap(t, m) \/ MutexRelease(t, m)
      PROVE  UNCHANGED KP!kernelVars
  BY <1>5, SilentGoto DEF ReleaseTrap, MutexRelease, CallsRelease, FreeLabels
<1> QED
  BY <1>1, <1>2, <1>3, <1>4, <1>5, MapsBlock, MapsSignal DEF SemStep

LEMMA MapsNext ==
  ASSUME RtosInv, [Next]_vars
  PROVE  [KP!KernelNext]_(KP!kernelVars)
<1>1. CASE KernelStep
  <2>1. ASSUME NEW t \in Tasks, Yield(t)
        PROVE  KP!KernelNext
    <3>1. PICK from \in {"delay_yield", "block_yield", "signal_yield"} :
            YieldFrom(t, from, "app")
      BY <2>1 DEF Yield
    <3>2. from # "block_yield"
      BY <3>1, KernelTypes DEF YieldFrom, At, RtosLabels
    <3> QED
      BY <3>1, <3>2, MapsYield DEF FreeLabels
  <2> QED
    BY <1>1, <2>1, MapsHandlers, MapsDelay DEF KernelStep
<1>2. ASSUME NEW t \in Tasks, SemStep(t)
      PROVE  [KP!KernelNext]_(KP!kernelVars)
  BY <1>2, MapsSemStep
<1>3. ASSUME NEW s \in IsrSems, IsrSignal(s)
      PROVE  [KP!KernelNext]_(KP!kernelVars)
  BY <1>3, MapsIsrSignal
<1>4. CASE UNCHANGED vars
  BY <1>4
  DEF vars, kernelVars, taskVars, bootVars, cpuVars, KP!kernelVars, KP!taskVars,
      KP!bootVars, KP!cpuVars, KernelPc
<1> QED
  BY <1>1, <1>2, <1>3, <1>4 DEF Next
-----------------------------------------------------------------------------
(* What a step does to the queues                                          *)

\* A step that leaves the queues and does not touch blocked tasks, unless
\* to take one on behind its trigger_pendsv().
LEMMA QueuesKept ==
  ASSUME RtosInv, UNCHANGED waiting,
         \A u \in Tasks : state'[u] = "BLOCKED" <=> state[u] = "BLOCKED",
         \A u \in Tasks : state[u] = "BLOCKED" =>
           /\ obj'[u] = obj[u]
           /\ \/ pc'[u] = pc[u]
              \/ pc[u] = "wait_yield" /\ pc'[u] = AfterWait(obj[u])
  PROVE  QueueInv'
<1>1. \A s \in Sems : Waiters(s)' = Waiters(s)
  BY DEF Waiters
<1>2. ASSUME NEW s \in Sems, NEW u \in Waiters(s)
      PROVE  /\ u \in Tasks /\ state'[u] = "BLOCKED" /\ obj'[u] = s
             /\ pc'[u] \in {"wait_yield", AfterWait(s)}
  BY <1>2 DEF RtosInv, QueueInv
<1> QED
  BY <1>1, <1>2 DEF RtosInv, QueueInv, AfterWait

LEMMA QueuesAfterHandOff ==
  ASSUME RtosInv, NEW s \in Sems, HandOff(s),
         \A u \in Tasks : state[u] = "BLOCKED" => obj'[u] = obj[u] /\ pc'[u] = pc[u]
  PROVE  QueueInv' /\ waiting' \in [Sems -> Seq(Tasks)]
<1> DEFINE h == Head(waiting[s])
<1>1. /\ waiting[s] \in Seq(Tasks) /\ waiting[s] # <<>> /\ Once(waiting[s])
      /\ waiting' = [waiting EXCEPT ![s] = Tail(waiting[s])]
      /\ state' = [state EXCEPT ![h] = "READY"]
      /\ waiting \in [Sems -> Seq(Tasks)] /\ state \in [Tasks -> TaskState]
  BY KernelTypes DEF RtosInv, SemTypes, QueueInv, HandOff
<1>2. /\ h \in Tasks /\ h \in Waiters(s) /\ Tail(waiting[s]) \in Seq(Tasks)
      /\ ToSet(Tail(waiting[s])) = Waiters(s) \ {h}
      /\ Once(Tail(waiting[s]))
  BY <1>1, TailFacts DEF Waiters
<1> HIDE DEF h
<1>3. waiting' \in [Sems -> Seq(Tasks)] /\ \A r \in Sems : Once(waiting'[r])
  BY <1>1, <1>2 DEF RtosInv, QueueInv
<1>4. \A r \in Sems : Waiters(r)' = Waiters(r) \ {h}
  <2> TAKE r \in Sems
  <2>1. CASE r = s
    BY <1>1, <1>2, <2>1 DEF Waiters
  <2>2. CASE r # s
    <3>1. waiting'[r] = waiting[r]
      BY <1>1, <2>2
    <3>2. h \notin Waiters(r)
      BY <1>2, <2>2 DEF RtosInv, QueueInv
    <3> QED
      BY <3>1, <3>2 DEF Waiters
  <2> QED
    BY <2>1, <2>2
<1>5. \A u \in Tasks : state'[u] = "BLOCKED" <=> state[u] = "BLOCKED" /\ u # h
  BY <1>1, <1>2
<1>6. ASSUME NEW r \in Sems, NEW u \in Waiters(r)'
      PROVE  /\ u \in Tasks /\ state'[u] = "BLOCKED" /\ obj'[u] = r
             /\ pc'[u] \in {"wait_yield", AfterWait(r)}
  BY <1>4, <1>5, <1>6 DEF RtosInv, QueueInv
<1>7. ASSUME NEW u \in Tasks, state'[u] = "BLOCKED"
      PROVE  \E r \in Sems : u \in Waiters(r)'
  BY <1>4, <1>5, <1>7 DEF RtosInv, QueueInv
<1> QED
  BY <1>3, <1>6, <1>7 DEF QueueInv, AfterWait

\* A blocked task is inside osSemaphoreWait().
LEMMA BlockedLabel ==
  ASSUME RtosInv, NEW u \in Tasks, state[u] = "BLOCKED"
  PROVE  pc[u] \in {"wait_yield", "wait_return", "set_owner"}
BY DEF RtosInv, QueueInv, AfterWait

\* One task moves on, with a new object.
LEMMA TypesAfterGoto ==
  ASSUME RtosInv, NEW t \in Tasks, NEW label \in RtosLabels, NEW o \in Sems \cup {NoSem},
         Goto(t, label), obj' = [obj EXCEPT ![t] = o], MayBe(t, label, o)
  PROVE  /\ pc' \in [Tasks -> RtosLabels] /\ obj' \in [Tasks -> Sems \cup {NoSem}]
         /\ CallInv'
         /\ \A u \in Tasks \ {t} : pc'[u] = pc[u] /\ obj'[u] = obj[u]
<1>1. /\ pc \in [Tasks -> RtosLabels] /\ obj \in [Tasks -> Sems \cup {NoSem}]
      /\ pc' = [pc EXCEPT ![t] = label]
  BY DEF RtosInv, SemTypes, Goto
<1>2. \A u \in Tasks : MayBe(u, pc'[u], obj'[u])
  BY <1>1 DEF RtosInv, CallInv
<1> QED
  BY <1>1, <1>2 DEF CallInv, MayBe

LEMMA TypesAfterSilentGoto ==
  ASSUME RtosInv, NEW t \in Tasks, NEW label \in RtosLabels,
         Goto(t, label), UNCHANGED obj, MayBe(t, label, obj[t])
  PROVE  /\ pc' \in [Tasks -> RtosLabels] /\ CallInv'
         /\ \A u \in Tasks \ {t} : pc'[u] = pc[u]
<1>1. obj \in [Tasks -> Sems \cup {NoSem}]
  BY DEF RtosInv, SemTypes
<1>2. obj' = [obj EXCEPT ![t] = obj[t]] /\ obj[t] \in Sems \cup {NoSem}
  BY <1>1
<1> QED
  BY <1>2, TypesAfterGoto

LocalInv == SemTypes /\ CallInv /\ QueueInv /\ NoLostWakeup

\* main() and the handlers neither block a task, nor release one that waits
\* in a queue, nor put one to sleep.
LEMMA HandlersKeepWaits ==
  ASSUME RtosInv, Main \/ Handlers, NEW u \in Tasks
  PROVE  /\ state'[u] = "BLOCKED" <=> state[u] = "BLOCKED"
         /\ state'[u] = "SLEEPING" => state[u] = "SLEEPING"
<1>1. CASE TaskCreate
  <2>1. state[u] = "READY"
    BY <1>1, SameTasks DEF TaskCreate, RtosInv, KP!KernelInv, KP!BaseInv, KP!BootInv
  <2> QED
    BY <1>1, <2>1, KernelTypes DEF TaskCreate
<1>2. CASE SysTick
  BY <1>2, KernelTypes DEF SysTick, Expired
<1>3. CASE PendSVSwitch
  <2>1. KP!BaseInv /\ KP!PendSVSwitch
    BY <1>3, MapsSwitch DEF RtosInv, KP!KernelInv
  <2>2. /\ state[u] \in {"SLEEPING", "BLOCKED"} => state'[u] = state[u]
        /\ state[u] \in {"READY", "RUNNING"} => state'[u] \in {"READY", "RUNNING"}
    BY <2>1, KP!SwitchResult, KernelAssumptions, SameTasks
  <2> QED
    BY <2>2, KernelTypes DEF TaskState
<1> QED
  BY <1>1, <1>2, <1>3 DEF Main, Handlers, OsStart, PendSVEnter, taskVars

LEMMA LocalHandlers ==
  ASSUME RtosInv, Main \/ Handlers, UNCHANGED semVars
  PROVE  LocalInv'
<1>1. UNCHANGED <<pc, count, waiting, owner, obj>>
  BY DEF Main, Handlers, TaskCreate, OsStart, SysTick, PendSVEnter, PendSVSwitch, taskVars,
         semVars
<1>2. QueueInv'
  BY <1>1, HandlersKeepWaits, QueuesKept
<1> QED
  BY <1>1, <1>2 DEF LocalInv, RtosInv, SemTypes, CallInv, MayBe, NoLostWakeup

LEMMA LocalDelay ==
  ASSUME RtosInv, NEW t \in Tasks, NEW ticks \in Delays, OsDelay(t, ticks), UNCHANGED semVars
  PROVE  LocalInv'
<1>1. Goto(t, "delay_yield") /\ UNCHANGED <<count, waiting, owner, obj>>
  BY DEF OsDelay, semVars
<1>2. pc' \in [Tasks -> RtosLabels] /\ CallInv' /\ \A u \in Tasks \ {t} : pc'[u] = pc[u]
  BY <1>1, TypesAfterSilentGoto DEF RtosLabels, MayBe
<1>3. state[t] = "RUNNING" /\ state' = [state EXCEPT ![t] = "SLEEPING"]
  BY CallerFacts DEF OsDelay, FreeLabels
<1>4. QueueInv'
  BY <1>1, <1>2, <1>3, KernelTypes, QueuesKept
<1> QED
  BY <1>1, <1>2, <1>4 DEF LocalInv, RtosInv, SemTypes, NoLostWakeup

LEMMA LocalYield ==
  ASSUME RtosInv, NEW t \in Tasks, Yield(t), UNCHANGED semVars
  PROVE  LocalInv'
<1>1. PICK from \in {"delay_yield", "block_yield", "signal_yield"} : YieldFrom(t, from, "app")
  BY DEF Yield
<1>2. Goto(t, "app") /\ pc[t] = from /\ UNCHANGED <<state, count, waiting, owner, obj>>
  BY <1>1 DEF YieldFrom, At, semVars
<1>3. pc' \in [Tasks -> RtosLabels] /\ CallInv' /\ \A u \in Tasks \ {t} : pc'[u] = pc[u]
  BY <1>2, TypesAfterSilentGoto DEF RtosLabels, MayBe
<1>4. state[t] # "BLOCKED"
  BY <1>2, BlockedLabel
<1>5. QueueInv'
  BY <1>2, <1>3, <1>4, QueuesKept
<1> QED
  BY <1>2, <1>3, <1>5 DEF LocalInv, RtosInv, SemTypes, NoLostWakeup

LEMMA LocalWaitFast ==
  ASSUME RtosInv, NEW t \in Tasks, NEW s \in Sems, WaitFast(t, s)
  PROVE  LocalInv'
<1>1. /\ Goto(t, AfterWait(s)) /\ obj' = [obj EXCEPT ![t] = s]
      /\ count[s] > 0 /\ count' = [count EXCEPT ![s] = count[s] - 1]
      /\ UNCHANGED <<state, waiting, owner>>
  BY DEF WaitFast
<1>2. MayBe(t, AfterWait(s), s) /\ AfterWait(s) \in RtosLabels
  BY DEF MayBe, AfterWait, RtosLabels
<1>3. /\ pc' \in [Tasks -> RtosLabels] /\ obj' \in [Tasks -> Sems \cup {NoSem}] /\ CallInv'
      /\ \A u \in Tasks \ {t} : pc'[u] = pc[u] /\ obj'[u] = obj[u]
  BY <1>1, <1>2, TypesAfterGoto
<1>4. state[t] = "RUNNING"
  BY CallerFacts DEF WaitFast, CallsWait, FreeLabels
<1>5. QueueInv'
  BY <1>1, <1>3, <1>4, QueuesKept
<1>6. count \in [Sems -> Nat] /\ count' \in [Sems -> Nat]
  BY <1>1 DEF RtosInv, SemTypes
<1>7. NoLostWakeup'
  BY <1>1, <1>6 DEF RtosInv, NoLostWakeup
<1> QED
  BY <1>1, <1>3, <1>5, <1>6, <1>7 DEF LocalInv, RtosInv, SemTypes

LEMMA LocalWaitBlock ==
  ASSUME RtosInv, NEW t \in Tasks, NEW s \in Sems, WaitBlock(t, s)
  PROVE  LocalInv'
<1>1. t = current /\ state[t] = "RUNNING" /\ \A r \in Sems : t \notin Waiters(r)
  BY CallerFacts DEF WaitBlock, CallsWait, FreeLabels
<1>2. /\ Goto(t, "wait_yield") /\ obj' = [obj EXCEPT ![t] = s]
      /\ count[s] <= 0 /\ UNCHANGED <<count, owner>>
      /\ waiting' = [waiting EXCEPT ![s] = Append(waiting[s], t)]
      /\ state' = [state EXCEPT ![t] = "BLOCKED"]
  BY <1>1 DEF WaitBlock
<1>3. /\ pc' \in [Tasks -> RtosLabels] /\ obj' \in [Tasks -> Sems \cup {NoSem}] /\ CallInv'
      /\ \A u \in Tasks \ {t} : pc'[u] = pc[u] /\ obj'[u] = obj[u]
  BY <1>2, TypesAfterGoto DEF MayBe, RtosLabels
<1>4. /\ waiting \in [Sems -> Seq(Tasks)] /\ state \in [Tasks -> TaskState]
      /\ pc \in [Tasks -> RtosLabels] /\ obj \in [Tasks -> Sems \cup {NoSem}]
      /\ count \in [Sems -> Nat]
      /\ waiting[s] \in Seq(Tasks) /\ Once(waiting[s])
  BY KernelTypes DEF RtosInv, SemTypes, QueueInv
<1>5. /\ Append(waiting[s], t) \in Seq(Tasks)
      /\ ToSet(Append(waiting[s], t)) = Waiters(s) \cup {t}
      /\ Once(Append(waiting[s], t))
  BY <1>1, <1>4, AppendFacts DEF Waiters
<1>6. waiting' \in [Sems -> Seq(Tasks)] /\ \A r \in Sems : Once(waiting'[r])
  BY <1>2, <1>4, <1>5 DEF RtosInv, QueueInv
<1>7. \A r \in Sems : Waiters(r)' = IF r = s THEN Waiters(s) \cup {t} ELSE Waiters(r)
  BY <1>2, <1>4, <1>5 DEF Waiters
<1>8. /\ pc'[t] = "wait_yield" /\ obj'[t] = s /\ state'[t] = "BLOCKED"
      /\ \A u \in Tasks \ {t} : state'[u] = state[u]
  BY <1>2, <1>4 DEF Goto
<1>9. QueueInv'
  <2>1. ASSUME NEW r \in Sems, NEW u \in Waiters(r)'
        PROVE  /\ u \in Tasks /\ state'[u] = "BLOCKED" /\ obj'[u] = r
               /\ pc'[u] \in {"wait_yield", AfterWait(r)}
    <3>1. CASE u = t
      BY <1>1, <1>7, <1>8, <2>1, <3>1
    <3>2. CASE u # t
      <4>1. u \in Waiters(r)
        BY <1>7, <2>1, <3>2
      <4>2. /\ u \in Tasks /\ state[u] = "BLOCKED" /\ obj[u] = r
            /\ pc[u] \in {"wait_yield", AfterWait(r)}
        BY <4>1 DEF RtosInv, QueueInv
      <4> QED
        BY <1>3, <1>8, <3>2, <4>2
    <3> QED
      BY <3>1, <3>2
  <2>2. ASSUME NEW u \in Tasks, state'[u] = "BLOCKED"
        PROVE  \E r \in Sems : u \in Waiters(r)'
    <3>1. CASE u = t
      BY <1>7, <3>1
    <3>2. CASE u # t
      <4>1. PICK r \in Sems : u \in Waiters(r)
        BY <1>8, <2>2, <3>2 DEF RtosInv, QueueInv
      <4> QED
        BY <1>7, <4>1
    <3> QED
      BY <3>1, <3>2
  <2> QED
    BY <1>6, <2>1, <2>2 DEF QueueInv, AfterWait
<1>10. NoLostWakeup'
  BY <1>2, <1>4 DEF RtosInv, NoLostWakeup
<1> QED
  BY <1>2, <1>3, <1>6, <1>9, <1>10 DEF LocalInv, RtosInv, SemTypes

LEMMA LocalWaitYield ==
  ASSUME RtosInv, NEW t \in Tasks, WaitYield(t)
  PROVE  LocalInv'
<1>1. /\ Goto(t, AfterWait(obj[t])) /\ pc[t] = "wait_yield"
      /\ UNCHANGED <<state, count, waiting, owner, obj>>
  BY DEF WaitYield, YieldFrom, At, semVars
<1>2. MayBe(t, AfterWait(obj[t]), obj[t]) /\ AfterWait(obj[t]) \in RtosLabels
  BY <1>1 DEF RtosInv, CallInv, MayBe, AfterWait, RtosLabels
<1>3. pc' \in [Tasks -> RtosLabels] /\ CallInv' /\ \A u \in Tasks \ {t} : pc'[u] = pc[u]
  BY <1>1, <1>2, TypesAfterSilentGoto
<1>4. pc'[t] = AfterWait(obj[t])
  BY <1>1, KernelTypes DEF Goto
<1>5. QueueInv'
  BY <1>1, <1>3, <1>4, QueuesKept
<1> QED
  BY <1>1, <1>3, <1>5 DEF LocalInv, RtosInv, SemTypes, NoLostWakeup

\* The steps of a running task that touch neither queue nor count.
LEMMA LocalQuiet ==
  ASSUME RtosInv, NEW t \in Tasks, NEW from \in FreeLabels, At(t, from),
         NEW to \in {"app", "release_signal", "trap"}, Goto(t, to),
         NEW o \in Sems \cup {NoSem}, obj' = [obj EXCEPT ![t] = o], MayBe(t, to, o),
         owner' \in [Mutexes -> Tasks \cup {NoTask}],
         UNCHANGED <<state, count, waiting>>
  PROVE  LocalInv'
<1>1. /\ pc' \in [Tasks -> RtosLabels] /\ obj' \in [Tasks -> Sems \cup {NoSem}] /\ CallInv'
      /\ \A u \in Tasks \ {t} : pc'[u] = pc[u] /\ obj'[u] = obj[u]
  BY TypesAfterGoto DEF RtosLabels
<1>2. state[t] = "RUNNING"
  BY CallerFacts
<1>3. QueueInv'
  BY <1>1, <1>2, QueuesKept
<1> QED
  BY <1>1, <1>3 DEF LocalInv, RtosInv, SemTypes, NoLostWakeup

\* A permit given to the oldest waiter, or stored.
LEMMA LocalPermit ==
  ASSUME RtosInv, NEW s \in Sems, HandOff(s) \/ Post(s),
         pc' \in [Tasks -> RtosLabels], obj' \in [Tasks -> Sems \cup {NoSem}], CallInv',
         \A u \in Tasks : state[u] = "BLOCKED" => pc'[u] = pc[u] /\ obj'[u] = obj[u],
         UNCHANGED owner
  PROVE  LocalInv'
<1>1. /\ count \in [Sems -> Nat] /\ waiting \in [Sems -> Seq(Tasks)]
      /\ owner' \in [Mutexes -> Tasks \cup {NoTask}]
  BY DEF RtosInv, SemTypes
<1>2. CASE HandOff(s)
  <2>1. QueueInv' /\ waiting' \in [Sems -> Seq(Tasks)]
    BY <1>2, QueuesAfterHandOff
  <2>2. NoLostWakeup'
    <3>1. /\ waiting[s] # <<>> /\ waiting' = [waiting EXCEPT ![s] = Tail(waiting[s])]
          /\ count' = count
      BY <1>2 DEF HandOff
    <3>2. ~(count[s] > 0)
      BY <3>1 DEF RtosInv, NoLostWakeup
    <3> QED
      BY <1>1, <3>1, <3>2 DEF RtosInv, NoLostWakeup
  <2> QED
    BY <1>1, <1>2, <2>1, <2>2 DEF HandOff, LocalInv, SemTypes
<1>3. CASE Post(s)
  <2>1. QueueInv'
    BY <1>3, QueuesKept DEF Post
  <2>2. count' \in [Sems -> Nat]
    BY <1>1, <1>3 DEF Post
  <2>3. NoLostWakeup'
    BY <1>1, <1>3 DEF Post, RtosInv, NoLostWakeup
  <2> QED
    BY <1>1, <1>3, <2>1, <2>2, <2>3 DEF Post, LocalInv, SemTypes
<1> QED
  BY <1>2, <1>3

LEMMA LocalSignal ==
  ASSUME RtosInv, NEW t \in Tasks, NEW s \in Sems, Signal(t, s)
  PROVE  LocalInv'
<1>1. PICK label \in {"signal_yield", "app"} : Goto(t, label)
  BY DEF Signal
<1>2. HandOff(s) \/ Post(s)
  BY DEF Signal
<1>3. obj' = [obj EXCEPT ![t] = NoSem] /\ UNCHANGED owner
  BY DEF Signal
<1>4. /\ pc' \in [Tasks -> RtosLabels] /\ obj' \in [Tasks -> Sems \cup {NoSem}] /\ CallInv'
      /\ \A u \in Tasks \ {t} : pc'[u] = pc[u] /\ obj'[u] = obj[u]
  BY <1>1, <1>3, TypesAfterGoto DEF RtosLabels, MayBe
<1>5. state[t] = "RUNNING"
  BY SignallerFacts, CallerFacts DEF Signal
<1> QED
  BY <1>2, <1>3, <1>4, <1>5, LocalPermit

LEMMA LocalIsrSignal ==
  ASSUME RtosInv, NEW s \in IsrSems, IsrSignal(s)
  PROVE  LocalInv'
<1>1. s \in Sems
  BY RtosAssumption DEF RtosAssumption
<1>2. (HandOff(s) \/ Post(s)) /\ UNCHANGED <<pc, obj, owner>>
  BY DEF IsrSignal
<1>3. pc' \in [Tasks -> RtosLabels] /\ obj' \in [Tasks -> Sems \cup {NoSem}] /\ CallInv'
  BY <1>2 DEF RtosInv, SemTypes, CallInv, MayBe
<1> QED
  BY <1>1, <1>2, <1>3, LocalPermit

LEMMA LocalRest ==
  ASSUME RtosInv, NEW t \in Tasks,
         \/ WaitReturn(t) \/ SetOwner(t)
         \/ \E m \in Mutexes : ReleaseTrap(t, m) \/ MutexRelease(t, m)
  PROVE  LocalInv'
<1>1. /\ owner \in [Mutexes -> Tasks \cup {NoTask}] /\ obj \in [Tasks -> Sems \cup {NoSem}]
      /\ Mutexes \subseteq Sems
  BY RtosAssumption DEF RtosAssumption, RtosInv, SemTypes
<1>2. MayBe(t, "app", NoSem)
  BY DEF MayBe
<1>3. CASE WaitReturn(t)
  BY <1>1, <1>2, <1>3, LocalQuiet DEF WaitReturn, FreeLabels
<1>4. CASE SetOwner(t)
  <2>1. owner' \in [Mutexes -> Tasks \cup {NoTask}]
    BY <1>1, <1>4, KernelTypes DEF SetOwner
  <2> QED
    BY <1>2, <1>4, <2>1, LocalQuiet DEF SetOwner, FreeLabels
<1>5. ASSUME NEW m \in Mutexes, ReleaseTrap(t, m)
      PROVE  LocalInv'
  <2>1. obj' = [obj EXCEPT ![t] = obj[t]] /\ MayBe(t, "trap", obj[t])
    BY <1>1, <1>5 DEF ReleaseTrap, semVars, MayBe
  <2> QED
    BY <1>1, <1>5, <2>1, LocalQuiet DEF ReleaseTrap, CallsRelease, semVars, FreeLabels
<1>6. ASSUME NEW m \in Mutexes, MutexRelease(t, m)
      PROVE  LocalInv'
  <2>1. "signal" \in Calls[t]
    BY <1>1, <1>6, RtosAssumption DEF RtosAssumption, MutexRelease, CallsRelease
  <2>2. MayBe(t, "release_signal", m)
    BY <2>1 DEF MayBe
  <2>3. owner' \in [Mutexes -> Tasks \cup {NoTask}]
    BY <1>1, <1>6 DEF MutexRelease
  <2> QED
    BY <1>1, <1>6, <2>2, <2>3, LocalQuiet DEF MutexRelease, CallsRelease, FreeLabels
<1> QED
  BY <1>3, <1>4, <1>5, <1>6

LEMMA LocalNext ==
  ASSUME RtosInv, [Next]_vars
  PROVE  LocalInv'
<1>1. CASE KernelStep
  BY <1>1, LocalHandlers, LocalDelay, LocalYield DEF KernelStep
<1>2. ASSUME NEW t \in Tasks, SemStep(t)
      PROVE  LocalInv'
  BY <1>2, LocalWaitYield, LocalRest, LocalWaitFast, LocalWaitBlock, LocalSignal DEF SemStep
<1>3. ASSUME NEW s \in IsrSems, IsrSignal(s)
      PROVE  LocalInv'
  BY <1>3, LocalIsrSignal
<1>4. CASE UNCHANGED vars
  <2>1. UNCHANGED <<state, pc, count, waiting, owner, obj>>
    BY <1>4 DEF vars, kernelVars, taskVars, semVars
  <2>2. QueueInv'
    BY <2>1, QueuesKept
  <2> QED
    BY <2>1, <2>2 DEF RtosInv, LocalInv, SemTypes, CallInv, MayBe, NoLostWakeup
<1> QED
  BY <1>1, <1>2, <1>3, <1>4 DEF Next
-----------------------------------------------------------------------------
(* The invariant and the kernel below                                      *)

\* main.c: one task "must always remain READY".
HasIdleTask == IdleTasks # {}

\* The longest delay the signed comparison of SysTick_Handler represents.
ShortDelays == Delays \subseteq 0 .. HalfRange + 1

LEMMA SameAssumptions == (HasIdleTask <=> KP!HasIdleTask) /\ (ShortDelays <=> KP!ShortDelays)
BY SameTasks DEF HasIdleTask, KP!HasIdleTask, ShortDelays, KP!ShortDelays

LEMMA InitMaps == Init => KP!KernelInit
<1> SUFFICES ASSUME Init
             PROVE  KP!KernelInit
  OBVIOUS
<1>1. KernelPc = [t \in Tasks |-> "app"]
  BY DEF Init, KernelInit, KernelPc
<1> QED
  BY <1>1, SameTasks DEF Init, KernelInit, KP!KernelInit

LEMMA InitRtos == Init => RtosInv
<1> SUFFICES ASSUME Init
             PROVE  RtosInv
  OBVIOUS
<1>1. KP!KernelInv
  BY InitMaps, KP!InitKernel, KernelAssumptions
<1>2. /\ pc = [t \in Tasks |-> "app"] /\ state = [t \in Tasks |-> "READY"]
      /\ count = InitialCount /\ waiting = [s \in Sems |-> <<>>]
      /\ owner = [m \in Mutexes |-> NoTask] /\ obj = [t \in Tasks |-> NoSem]
  BY DEF Init, KernelInit
<1>3. SemTypes
  BY <1>2, RtosAssumption DEF RtosAssumption, SemTypes, RtosLabels
<1>4. CallInv /\ NoLostWakeup
  BY <1>2 DEF CallInv, MayBe, NoLostWakeup
<1>5. \A s \in Sems : waiting[s] = <<>> /\ Waiters(s) = {}
  BY <1>2 DEF Waiters, ToSet
<1>6. QueueInv
  BY <1>2, <1>5 DEF QueueInv, Once
<1> QED
  BY <1>1, <1>3, <1>4, <1>6 DEF RtosInv

LEMMA RtosStep ==
  ASSUME HasIdleTask, ShortDelays
  PROVE  RtosInv /\ [Next]_vars => RtosInv'
<1> SUFFICES ASSUME RtosInv, [Next]_vars
             PROVE  RtosInv'
  OBVIOUS
<1>1. KP!KernelInv /\ [KP!KernelNext]_(KP!kernelVars)
  BY MapsNext DEF RtosInv
<1>2. KP!KernelInv'
  BY <1>1, KP!KernelStep, SameAssumptions, KernelAssumptions
<1> QED
  BY <1>2, LocalNext DEF LocalInv, RtosInv

LEMMA RtosInvariance ==
  ASSUME HasIdleTask, ShortDelays
  PROVE  Spec => []RtosInv
BY InitRtos, RtosStep, PTL DEF Spec

\* Type correctness of the system with real wait queues: count never goes
\* below zero, and no queue or owner ever names something else than a task.
THEOREM RtosTypeCorrect ==
  ASSUME HasIdleTask, ShortDelays
  PROVE  Spec => []RtosTypeOK
<1>1. KP!TypeOK => K!TypeOK
  BY DEF KP!TypeOK, K!TypeOK, KP!Tasks, K!Tasks, KP!TaskState, K!TaskState, KP!Ticks,
         K!Ticks, KP!TickModulus, K!TickModulus, KP!KernelLabels, K!KernelLabels
<1>2. RtosInv => RtosTypeOK
  BY <1>1 DEF RtosInv, KP!KernelInv, KP!BaseInv, SemTypes, RtosLabels, RtosTypeOK
<1> QED
  BY <1>2, RtosInvariance, PTL

\* A task is BLOCKED exactly while it is in a wait queue, once, and in that
\* of the call it is in.
THEOREM QueuesCorrect ==
  ASSUME HasIdleTask, ShortDelays
  PROVE  Spec => []BlockedIffQueued
<1>1. RtosInv => BlockedIffQueued
  BY QueueInvSays DEF RtosInv
<1> QED
  BY <1>1, RtosInvariance, PTL

\* No task waits on a semaphore that has a permit (osSemaphoreSignal()).
THEOREM WakeupsAreNotLost ==
  ASSUME HasIdleTask, ShortDelays
  PROVE  Spec => []NoLostWakeup
<1>1. RtosInv => NoLostWakeup
  BY DEF RtosInv
<1> QED
  BY <1>1, RtosInvariance, PTL

\* The system with wait queues implements the kernel with free Block and
\* Ready, so that the kernel's theorems hold of it.
THEOREM RtosImplementsKernel ==
  ASSUME HasIdleTask, ShortDelays
  PROVE  Spec => ImplementsKernel
<1>1. Init => K!KernelInit
  BY InitMaps, SameInit
<1>2. RtosInv /\ [Next]_vars => [K!KernelNext]_(K!kernelVars)
  <2> SUFFICES ASSUME RtosInv, [Next]_vars
               PROVE  [K!KernelNext]_(K!kernelVars)
    OBVIOUS
  <2>1. KP!KernelNext \/ UNCHANGED KP!kernelVars
    BY MapsNext
  <2>2. UNCHANGED KP!kernelVars => UNCHANGED K!kernelVars
    BY DEF KP!kernelVars, K!kernelVars, KP!taskVars, K!taskVars, KP!bootVars, K!bootVars,
           KP!cpuVars, K!cpuVars
  <2> QED
    BY <2>1, <2>2, SameNext
<1> QED
  BY <1>1, <1>2, RtosInvariance, PTL DEF Spec, ImplementsKernel, K!KernelSpec

\* No queue ever fills: the idle task, which never waits, leaves a slot
\* (osSemaphoreWait() does not test wait_count against MAX_TASKS).
THEOREM QueuesFit ==
  ASSUME HasIdleTask, ShortDelays
  PROVE  Spec => []QueueFits
<1>1. ASSUME RtosInv, NEW s \in Sems
      PROVE  Len(waiting[s]) < NTasks
  <2>1. PICK i \in Tasks : i \in IdleTasks
    BY DEF HasIdleTask, IdleTasks
  <2>2. i \notin Waiters(s)
    BY <1>1, <2>1, SameTasks DEF RtosInv, QueueInv, KP!KernelInv, KP!IdleInv
  <2>3. /\ waiting[s] \in Seq(Tasks) /\ Len(waiting[s]) \in Nat
        /\ DOMAIN waiting[s] = 1 .. Len(waiting[s]) /\ Once(waiting[s])
    BY <1>1 DEF RtosInv, SemTypes, QueueInv
  <2>4. \A j \in 1 .. Len(waiting[s]) : waiting[s][j] \in Tasks \ {i}
    BY <2>2, <2>3 DEF Waiters, ToSet
  <2>5. waiting[s] \in Injection(1 .. Len(waiting[s]), Tasks \ {i})
    BY <2>3, <2>4 DEF Injection, IsInjective, Once
  <2>6. IsFiniteSet(Tasks) /\ Cardinality(Tasks) = NTasks /\ NTasks \in Nat \ {0}
    <3>1. NTasks \in Nat \ {0} /\ Tasks = 0 .. NTasks - 1
      BY PoolAssumption DEF PoolAssumption, Tasks, MAX_TASKS
    <3> QED
      BY <3>1, FS_Interval
  <2>7. IsFiniteSet(Tasks \ {i}) /\ Cardinality(Tasks \ {i}) = NTasks - 1
    BY <2>1, <2>6, FS_RemoveElement
  <2>8. Cardinality(1 .. Len(waiting[s])) <= NTasks - 1
    BY <2>5, <2>7, FS_Injection
  <2>9. Cardinality(1 .. Len(waiting[s])) = Len(waiting[s])
    BY <2>3, FS_Interval
  <2> QED
    BY <2>3, <2>6, <2>8, <2>9
<1>2. RtosInv => QueueFits
  BY <1>1 DEF QueueFits
<1> QED
  BY <1>2, RtosInvariance, PTL

\* What the kernel guarantees holds of the system with semaphores and
\* mutexes: no waiting task runs, strict priority, exact delays, round robin.
THEOREM KernelGuaranteesHold ==
  ASSUME HasIdleTask, ShortDelays
  PROVE  Spec => /\ [](KP!RunningMatchesCPU /\ KP!HighestPriorityRuns /\ KP!DelayExact)
                 /\ KP!NeverWakesEarly /\ KP!RoundRobinProgress
<1>1. KP!KernelSpec => [](KP!RunningMatchesCPU /\ KP!HighestPriorityRuns /\ KP!DelayExact)
  BY KP!CpuCorrect, KP!StrictPriority, KP!ExactDelays, SameAssumptions, KernelAssumptions, PTL
<1>2. KP!KernelSpec => KP!NeverWakesEarly /\ KP!RoundRobinProgress
  BY KP!NoEarlyWakeUp, KP!RoundRobin, SameAssumptions, KernelAssumptions
<1>3. Init => KP!KernelInit
  BY InitMaps
<1>4. RtosInv /\ [Next]_vars => [KP!KernelNext]_(KP!kernelVars)
  BY MapsNext
<1>5. Spec => KP!KernelSpec
  BY <1>3, <1>4, RtosInvariance, PTL DEF Spec, KP!KernelSpec
<1> QED
  BY <1>1, <1>2, <1>5, PTL
-----------------------------------------------------------------------------
(* Mutexes: the permit is in count, with an owner, or in one task's hand   *)

\* The clauses of Holding other than the recorded owner: t was given the
\* permit and has not recorded it, or is giving it back.
InHand(t, m) ==
  /\ obj[t] = m
  /\ \/ pc[t] = "release_signal"
     \/ pc[t] \in {"wait_yield", "set_owner"} /\ t \notin Waiters(m)

Hands(m) == {t \in Tasks : InHand(t, m)}
Askers(m) == {t \in Tasks : Asking(t, m)}

MutexInv ==
  \A m \in Mutexes :
    \/ count[m] = 1 /\ owner[m] = NoTask /\ Hands(m) = {}
    \/ count[m] = 0 /\ owner[m] \in Tasks /\ Hands(m) = {}
    \/ count[m] = 0 /\ owner[m] = NoTask /\ \E t \in Tasks : Hands(m) = {t}

\* What the steps of the code do to a mutex.
Same(m) ==
  /\ count'[m] = count[m] /\ owner'[m] = owner[m]
  /\ Hands(m)' = Hands(m) /\ Askers(m)' = Askers(m)

AskedAndGot(t, m) ==
  /\ pc[t] = "app" /\ count[m] > 0
  /\ count'[m] = count[m] - 1 /\ owner'[m] = owner[m]
  /\ Hands(m)' = Hands(m) \cup {t} /\ Askers(m)' = Askers(m) \cup {t}

AskedAndQueued(t, m) ==
  /\ pc[t] = "app"
  /\ count'[m] = count[m] /\ owner'[m] = owner[m]
  /\ Hands(m)' = Hands(m) /\ Askers(m)' = Askers(m) \cup {t}

Recorded(t, m) ==
  /\ t \in Hands(m) /\ t \in Askers(m)
  /\ count'[m] = count[m] /\ owner'[m] = t
  /\ Hands(m)' = Hands(m) \ {t} /\ Askers(m)' = Askers(m) \ {t}

Erased(t, m) ==
  /\ At(t, "app") /\ owner[m] = t
  /\ count'[m] = count[m] /\ owner'[m] = NoTask
  /\ Hands(m)' = Hands(m) \cup {t} /\ Askers(m)' = Askers(m)

HandedOn(t, m) ==
  /\ t \in Hands(m)
  /\ count'[m] = count[m] /\ owner'[m] = owner[m]
  /\ \E h \in Tasks : Hands(m)' = (Hands(m) \ {t}) \cup {h}
  /\ Askers(m)' = Askers(m)

PutBack(t, m) ==
  /\ t \in Hands(m)
  /\ count'[m] = count[m] + 1 /\ owner'[m] = owner[m]
  /\ Hands(m)' = Hands(m) \ {t} /\ Askers(m)' = Askers(m)

Effect(t, m) ==
  \/ AskedAndGot(t, m)
  \/ AskedAndQueued(t, m)
  \/ Recorded(t, m)
  \/ Erased(t, m)
  \/ HandedOn(t, m)
  \/ PutBack(t, m)

MutexStep ==
  \/ \A m \in Mutexes : Same(m)
  \/ \E t \in Tasks, m \in Mutexes : Effect(t, m) /\ \A l \in Mutexes \ {m} : Same(l)

\* Only t moves, and m's queue stays.
LEMMA OneMover ==
  ASSUME NEW t \in Tasks, NEW m \in Mutexes, waiting'[m] = waiting[m],
         \A u \in Tasks \ {t} : pc'[u] = pc[u] /\ obj'[u] = obj[u]
  PROVE  /\ Hands(m)' = (Hands(m) \ {t}) \cup {u \in {t} : InHand(u, m)'}
         /\ Askers(m)' = (Askers(m) \ {t}) \cup {u \in {t} : Asking(u, m)'}
<1>1. \A u \in Tasks \ {t} : (InHand(u, m)' <=> InHand(u, m)) /\ (Asking(u, m)' <=> Asking(u, m))
  BY DEF InHand, Asking, Waiters
<1> QED
  BY <1>1 DEF Hands, Askers

\* A step that gives no task a part in a mutex or takes one away.
LEMMA QuietMove ==
  ASSUME NEW t \in Tasks,
         \A u \in Tasks \ {t} : pc'[u] = pc[u] /\ obj'[u] = obj[u],
         \A m \in Mutexes :
           /\ waiting'[m] = waiting[m] /\ count'[m] = count[m] /\ owner'[m] = owner[m]
           /\ InHand(t, m)' <=> InHand(t, m)
           /\ Asking(t, m)' <=> Asking(t, m)
  PROVE  MutexStep
<1> SUFFICES ASSUME NEW m \in Mutexes
             PROVE  Same(m)
  BY DEF MutexStep
<1>1. /\ Hands(m)' = (Hands(m) \ {t}) \cup {u \in {t} : InHand(u, m)'}
      /\ Askers(m)' = (Askers(m) \ {t}) \cup {u \in {t} : Asking(u, m)'}
  BY OneMover
<1>2. Hands(m)' = Hands(m) /\ Askers(m)' = Askers(m)
  BY <1>1 DEF Hands, Askers
<1> QED
  BY <1>2 DEF Same

\* t enters or leaves calls of which no mutex learns.
Silent == {"app", "delay_yield", "signal_yield", "wait_return", "trap"}

LEMMA SilentMove ==
  ASSUME RtosInv, NEW t \in Tasks, pc[t] \in Silent, pc'[t] \in Silent \cup {"wait_yield"},
         pc[t] = "wait_return" => obj[t] \notin Mutexes,
         pc'[t] \in {"wait_return", "wait_yield"} => obj'[t] \notin Mutexes,
         \A u \in Tasks \ {t} : pc'[u] = pc[u] /\ obj'[u] = obj[u],
         \A m \in Mutexes :
           waiting'[m] = waiting[m] /\ count'[m] = count[m] /\ owner'[m] = owner[m]
  PROVE  MutexStep
<1>1. \A m \in Mutexes : ~InHand(t, m) /\ ~Asking(t, m) /\ ~InHand(t, m)' /\ ~Asking(t, m)'
  BY DEF InHand, Asking, Silent
<1> QED
  BY <1>1, QuietMove

LEMMA KernelStepOnMutex == ASSUME RtosInv, KernelStep PROVE MutexStep
<1>1. UNCHANGED <<count, waiting, owner, obj>> /\ pc \in [Tasks -> RtosLabels]
  BY KernelTypes DEF KernelStep, semVars
<1>2. CASE UNCHANGED pc
  <2>1. \A m \in Mutexes : Same(m)
    BY <1>1, <1>2 DEF Same, Hands, InHand, Askers, Asking, Waiters
  <2> QED
    BY <2>1 DEF MutexStep
<1>3. CASE Main \/ Handlers
  BY <1>2, <1>3
  DEF Main, Handlers, TaskCreate, OsStart, SysTick, PendSVEnter, PendSVSwitch, taskVars
<1>4. ASSUME NEW t \in Tasks, NEW from \in Silent, NEW to \in {"app", "delay_yield"},
             pc[t] = from, from # "wait_return", Goto(t, to)
      PROVE  MutexStep
  <2>1. pc'[t] = to /\ \A u \in Tasks \ {t} : pc'[u] = pc[u] /\ obj'[u] = obj[u]
    BY <1>1, <1>4 DEF Goto
  <2> QED
    BY <1>1, <1>4, <2>1, SilentMove DEF Silent
<1>5. ASSUME NEW t \in Tasks, NEW ticks \in Delays, OsDelay(t, ticks)
      PROVE  MutexStep
  BY <1>4, <1>5 DEF OsDelay, At, Silent
<1>6. ASSUME NEW t \in Tasks, Yield(t)
      PROVE  MutexStep
  <2>1. PICK from \in {"delay_yield", "block_yield", "signal_yield"} : YieldFrom(t, from, "app")
    BY <1>6 DEF Yield
  <2>2. pc[t] = from /\ from \in Silent /\ from # "wait_return" /\ Goto(t, "app")
    BY <1>1, <2>1 DEF YieldFrom, At, RtosLabels, Silent
  <2> QED
    BY <1>4, <2>2
<1> QED
  BY <1>3, <1>5, <1>6 DEF KernelStep

LEMMA WaitFastOnMutex ==
  ASSUME RtosInv, NEW t \in Tasks, NEW s \in Sems, WaitFast(t, s) PROVE MutexStep
<1>1. /\ pc[t] = "app" /\ count[s] > 0
      /\ pc'[t] = AfterWait(s) /\ obj'[t] = s
      /\ count' = [count EXCEPT ![s] = count[s] - 1]
      /\ \A u \in Tasks \ {t} : pc'[u] = pc[u] /\ obj'[u] = obj[u]
      /\ UNCHANGED <<waiting, owner>> /\ count \in [Sems -> Nat]
  BY KernelTypes DEF RtosInv, SemTypes, WaitFast, CallsWait, At, Goto
<1>2. \A r \in Sems : t \notin Waiters(r)
  BY CallerFacts DEF WaitFast, CallsWait, FreeLabels
<1>3. Mutexes \subseteq Sems
  BY RtosAssumption DEF RtosAssumption
<1>4. CASE s \notin Mutexes
  <2>1. \A m \in Mutexes : count'[m] = count[m]
    BY <1>1, <1>3, <1>4
  <2> QED
    BY <1>1, <1>4, <2>1, SilentMove DEF AfterWait, Silent
<1>5. CASE s \in Mutexes
  <2>1. \A m \in Mutexes : ~InHand(t, m) /\ ~Asking(t, m)
    BY <1>1 DEF InHand, Asking
  <2>2. \A m \in Mutexes : (InHand(t, m)' <=> m = s) /\ (Asking(t, m)' <=> m = s)
    BY <1>1, <1>2, <1>3, <1>5 DEF InHand, Asking, AfterWait, Waiters
  <2>3. \A m \in Mutexes :
          /\ Hands(m)' = (Hands(m) \ {t}) \cup {u \in {t} : InHand(u, m)'}
          /\ Askers(m)' = (Askers(m) \ {t}) \cup {u \in {t} : Asking(u, m)'}
    BY <1>1, OneMover
  <2>4. AskedAndGot(t, s)
    BY <1>1, <1>5, <2>1, <2>2, <2>3 DEF AskedAndGot, Hands, Askers
  <2>5. \A l \in Mutexes \ {s} : Same(l)
    BY <1>1, <1>3, <2>1, <2>2, <2>3 DEF Same, Hands, Askers
  <2> QED
    BY <1>5, <2>4, <2>5 DEF MutexStep, Effect
<1> QED
  BY <1>4, <1>5

LEMMA WaitBlockOnMutex ==
  ASSUME RtosInv, NEW t \in Tasks, NEW s \in Sems, WaitBlock(t, s) PROVE MutexStep
<1>1. t = current /\ \A r \in Sems : t \notin Waiters(r)
  BY CallerFacts DEF WaitBlock, CallsWait, FreeLabels
<1>2. /\ pc[t] = "app" /\ pc'[t] = "wait_yield" /\ obj'[t] = s
      /\ waiting' = [waiting EXCEPT ![s] = Append(waiting[s], t)]
      /\ \A u \in Tasks \ {t} : pc'[u] = pc[u] /\ obj'[u] = obj[u]
      /\ UNCHANGED <<count, owner>> /\ waiting \in [Sems -> Seq(Tasks)]
  BY <1>1, KernelTypes DEF RtosInv, SemTypes, WaitBlock, CallsWait, At, Goto
<1>3. Mutexes \subseteq Sems
  BY RtosAssumption DEF RtosAssumption
<1>4. CASE s \notin Mutexes
  <2>1. \A m \in Mutexes : waiting'[m] = waiting[m]
    BY <1>2, <1>3, <1>4
  <2> QED
    BY <1>2, <1>4, <2>1, SilentMove DEF Silent
<1>5. CASE s \in Mutexes
  <2>1. Waiters(s)' = Waiters(s) \cup {t}
    BY <1>2, AppendFacts DEF Waiters
  <2>2. \A m \in Mutexes \ {s} : waiting'[m] = waiting[m]
    BY <1>2, <1>3
  <2>3. \A m \in Mutexes : \A u \in Tasks : InHand(u, m)' <=> InHand(u, m)
    <3> TAKE m \in Mutexes
    <3> TAKE u \in Tasks
    <3>1. CASE u = t
      BY <1>2, <2>1, <2>2, <3>1 DEF InHand, Waiters
    <3>2. CASE u # t
      <4>1. u \in Waiters(m)' <=> u \in Waiters(m)
        BY <2>1, <2>2, <3>2 DEF Waiters
      <4> QED
        BY <1>2, <3>2, <4>1 DEF InHand
    <3> QED
      BY <3>1, <3>2
  <2>4. \A m \in Mutexes : \A u \in Tasks : Asking(u, m)' <=> Asking(u, m) \/ (u = t /\ m = s)
    BY <1>2 DEF Asking
  <2>5. AskedAndQueued(t, s)
    BY <1>2, <1>5, <2>3, <2>4 DEF AskedAndQueued, Hands, Askers
  <2>6. \A l \in Mutexes \ {s} : Same(l)
    BY <1>2, <2>3, <2>4 DEF Same, Hands, Askers
  <2> QED
    BY <1>5, <2>5, <2>6 DEF MutexStep, Effect
<1> QED
  BY <1>4, <1>5

LEMMA WaitYieldOnMutex ==
  ASSUME RtosInv, NEW t \in Tasks, WaitYield(t) PROVE MutexStep
<1>1. /\ pc[t] = "wait_yield" /\ pc'[t] = AfterWait(obj[t])
      /\ \A u \in Tasks \ {t} : pc'[u] = pc[u] /\ obj'[u] = obj[u]
      /\ UNCHANGED <<count, waiting, owner, obj>>
  BY KernelTypes DEF WaitYield, YieldFrom, At, Goto, semVars
<1>2. \A m \in Mutexes : (InHand(t, m)' <=> InHand(t, m)) /\ (Asking(t, m)' <=> Asking(t, m))
  BY <1>1 DEF InHand, Asking, Waiters, AfterWait
<1> QED
  BY <1>1, <1>2, QuietMove

LEMMA SetOwnerOnMutex ==
  ASSUME RtosInv, NEW t \in Tasks, SetOwner(t) PROVE MutexStep
<1>1. t = current /\ \A r \in Sems : t \notin Waiters(r)
  BY CallerFacts DEF SetOwner, FreeLabels
<1>2. PICK m \in Mutexes : m = obj[t]
  BY DEF RtosInv, CallInv, MayBe, SetOwner, At
<1>3. /\ pc[t] = "set_owner" /\ pc'[t] = "app" /\ obj'[t] = NoSem
      /\ owner' = [owner EXCEPT ![m] = t] /\ owner \in [Mutexes -> Tasks \cup {NoTask}]
      /\ \A u \in Tasks \ {t} : pc'[u] = pc[u] /\ obj'[u] = obj[u]
      /\ UNCHANGED <<count, waiting>>
  BY <1>1, <1>2, KernelTypes DEF RtosInv, SemTypes, SetOwner, At, Goto
<1>4. \A l \in Mutexes : (InHand(t, l) <=> l = m) /\ (Asking(t, l) <=> l = m)
  BY <1>1, <1>2, <1>3, RtosAssumption DEF RtosAssumption, InHand, Asking
<1>5. \A l \in Mutexes : ~InHand(t, l)' /\ ~Asking(t, l)'
  BY <1>3, RtosAssumption DEF RtosAssumption, InHand, Asking
<1>6. \A l \in Mutexes :
        /\ Hands(l)' = (Hands(l) \ {t}) \cup {u \in {t} : InHand(u, l)'}
        /\ Askers(l)' = (Askers(l) \ {t}) \cup {u \in {t} : Asking(u, l)'}
  BY <1>3, OneMover
<1>7. Recorded(t, m)
  BY <1>3, <1>4, <1>5, <1>6 DEF Recorded, Hands, Askers
<1>8. \A l \in Mutexes \ {m} : Same(l)
  BY <1>3, <1>4, <1>5, <1>6 DEF Same, Hands, Askers
<1> QED
  BY <1>7, <1>8 DEF MutexStep, Effect

LEMMA ReleaseOnMutex ==
  ASSUME RtosInv, NEW t \in Tasks, NEW m \in Mutexes, MutexRelease(t, m) PROVE MutexStep
<1>1. At(t, "app") /\ t = current
  BY DEF MutexRelease, CallsRelease, At, Executing
<1>2. /\ pc[t] = "app" /\ pc'[t] = "release_signal" /\ obj'[t] = m
      /\ owner[m] = t /\ owner' = [owner EXCEPT ![m] = NoTask]
      /\ owner \in [Mutexes -> Tasks \cup {NoTask}]
      /\ \A u \in Tasks \ {t} : pc'[u] = pc[u] /\ obj'[u] = obj[u]
      /\ UNCHANGED <<count, waiting>>
  BY <1>1, KernelTypes, RtosAssumption
  DEF RtosAssumption, RtosInv, SemTypes, MutexRelease, At, Goto
<1>3. \A l \in Mutexes : ~InHand(t, l) /\ ~Asking(t, l) /\ ~Asking(t, l)'
  BY <1>2 DEF InHand, Asking
<1>4. \A l \in Mutexes : InHand(t, l)' <=> l = m
  BY <1>2 DEF InHand
<1>5. \A l \in Mutexes :
        /\ Hands(l)' = (Hands(l) \ {t}) \cup {u \in {t} : InHand(u, l)'}
        /\ Askers(l)' = (Askers(l) \ {t}) \cup {u \in {t} : Asking(u, l)'}
  BY <1>2, OneMover
<1>6. Erased(t, m)
  BY <1>1, <1>2, <1>3, <1>4, <1>5 DEF Erased, Hands, Askers
<1>7. \A l \in Mutexes \ {m} : Same(l)
  BY <1>2, <1>3, <1>4, <1>5 DEF Same, Hands, Askers
<1> QED
  BY <1>6, <1>7 DEF MutexStep, Effect

LEMMA SignalOnMutex ==
  ASSUME RtosInv, NEW t \in Tasks, NEW s \in Sems, Signal(t, s) PROVE MutexStep
<1>1. PICK label \in {"signal_yield", "app"} : Goto(t, label)
  BY DEF Signal
<1>2. /\ pc'[t] = label /\ obj'[t] = NoSem
      /\ \A u \in Tasks \ {t} : pc'[u] = pc[u] /\ obj'[u] = obj[u]
      /\ UNCHANGED owner
      /\ waiting \in [Sems -> Seq(Tasks)] /\ count \in [Sems -> Nat]
  BY <1>1, KernelTypes DEF RtosInv, SemTypes, Signal, Goto
<1>3. \A r \in Sems : t \notin Waiters(r)
  BY SignallerFacts, CallerFacts DEF Signal
<1>4. Mutexes \subseteq Sems /\ NoSem \notin Mutexes
  BY RtosAssumption DEF RtosAssumption
<1>5. CASE pc[t] = "app" /\ s \notin Mutexes
  <2>1. \A m \in Mutexes : waiting'[m] = waiting[m] /\ count'[m] = count[m]
    BY <1>2, <1>4, <1>5 DEF Signal, HandOff, Post
  <2> QED
    BY <1>2, <1>5, <2>1, SilentMove DEF Silent
<1>6. CASE pc[t] = "release_signal" /\ s \in Mutexes /\ obj[t] = s
  <2>1. \A m \in Mutexes : (InHand(t, m) <=> m = s) /\ ~InHand(t, m)'
    BY <1>2, <1>4, <1>6 DEF InHand
  <2>2. \A u \in Tasks, m \in Mutexes : Asking(u, m)' <=> Asking(u, m)
    BY <1>2, <1>6 DEF Asking
  <2>3. CASE Post(s)
    <3>1. UNCHANGED waiting /\ count' = [count EXCEPT ![s] = count[s] + 1]
      BY <2>3 DEF Post
    <3>2. \A m \in Mutexes : Hands(m)' = (Hands(m) \ {t}) \cup {u \in {t} : InHand(u, m)'}
      BY <1>2, <3>1, OneMover
    <3>3. PutBack(t, s)
      BY <1>2, <1>4, <1>6, <2>1, <2>2, <3>1, <3>2 DEF PutBack, Hands, Askers
    <3>4. \A l \in Mutexes \ {s} : Same(l)
      BY <1>2, <1>4, <2>1, <2>2, <3>1, <3>2 DEF Same, Hands, Askers
    <3> QED
      BY <1>6, <3>3, <3>4 DEF MutexStep, Effect
  <2>4. CASE HandOff(s)
    <3>1. PICK h : h = Head(waiting[s])
      OBVIOUS
    <3>2. /\ h \in Waiters(s) /\ h \in Tasks /\ h # t /\ obj[h] = s
          /\ pc[h] \in {"wait_yield", "set_owner"}
      BY <1>3, <1>6, <2>4, <3>1, HeadIsBlocked DEF RtosInv, QueueInv, HandOff, AfterWait
    <3>3. /\ waiting[s] \in Seq(Tasks) /\ waiting[s] # <<>> /\ Once(waiting[s])
          /\ waiting' = [waiting EXCEPT ![s] = Tail(waiting[s])] /\ UNCHANGED count
      BY <1>2, <2>4 DEF RtosInv, QueueInv, HandOff
    <3>4. Waiters(s)' = Waiters(s) \ {h}
      BY <1>2, <3>1, <3>3, TailFacts DEF Waiters
    <3>5. \A m \in Mutexes \ {s} : waiting'[m] = waiting[m]
      BY <3>3
    <3>6. \A u \in Tasks \ {t} : InHand(u, s)' <=> InHand(u, s) \/ u = h
      BY <1>2, <3>2, <3>4 DEF InHand
    <3>7. Hands(s)' = (Hands(s) \ {t}) \cup {h}
      BY <1>6, <2>1, <3>2, <3>6 DEF Hands
    <3>8. HandedOn(t, s)
      BY <1>2, <1>6, <2>1, <2>2, <3>2, <3>3, <3>7 DEF HandedOn, Hands, Askers
    <3>9. \A m \in Mutexes \ {s} :
            Hands(m)' = (Hands(m) \ {t}) \cup {u \in {t} : InHand(u, m)'}
      BY <1>2, <3>5, OneMover
    <3>10. \A l \in Mutexes \ {s} : Same(l)
      BY <1>2, <2>1, <2>2, <3>3, <3>9 DEF Same, Hands, Askers
    <3> QED
      BY <1>6, <3>8, <3>10 DEF MutexStep, Effect
  <2> QED
    BY <2>3, <2>4 DEF Signal
<1> QED
  BY <1>5, <1>6, SignallerFacts DEF Signal

LEMMA IsrSignalOnMutex ==
  ASSUME RtosInv, NEW s \in IsrSems, IsrSignal(s) PROVE MutexStep
<1>1. s \in Sems \ Mutexes /\ Mutexes \subseteq Sems
  BY RtosAssumption DEF RtosAssumption
<1>2. /\ UNCHANGED <<pc, obj, owner>>
      /\ \A m \in Mutexes : waiting'[m] = waiting[m] /\ count'[m] = count[m]
  BY <1>1 DEF IsrSignal, HandOff, Post, RtosInv, SemTypes
<1>3. \A m \in Mutexes : Same(m)
  BY <1>2 DEF Same, Hands, InHand, Askers, Asking, Waiters
<1> QED
  BY <1>3 DEF MutexStep

LEMMA MutexNext == ASSUME RtosInv, [Next]_vars PROVE MutexStep
<1>1. ASSUME NEW t \in Tasks, SemStep(t)
      PROVE  MutexStep
  <2>1. CASE WaitReturn(t)
    <3>1. /\ pc[t] = "wait_return" /\ pc'[t] = "app"
          /\ \A u \in Tasks \ {t} : pc'[u] = pc[u] /\ obj'[u] = obj[u]
          /\ UNCHANGED <<count, waiting, owner>>
      BY <2>1, KernelTypes DEF WaitReturn, At, Goto, RtosInv, SemTypes
    <3>2. obj[t] \notin Mutexes
      BY <3>1 DEF RtosInv, CallInv, MayBe
    <3> QED
      BY <3>1, <3>2, SilentMove DEF Silent
  <2>2. ASSUME NEW m \in Mutexes, ReleaseTrap(t, m)
        PROVE  MutexStep
    <3>1. /\ pc[t] = "app" /\ pc'[t] = "trap"
          /\ \A u \in Tasks \ {t} : pc'[u] = pc[u] /\ obj'[u] = obj[u]
          /\ UNCHANGED <<count, waiting, owner>>
      BY <2>2, KernelTypes DEF ReleaseTrap, CallsRelease, At, Goto, semVars
    <3> QED
      BY <3>1, SilentMove DEF Silent
  <2> QED
    BY <1>1, <2>1, <2>2, WaitYieldOnMutex, SetOwnerOnMutex, WaitFastOnMutex,
       WaitBlockOnMutex, SignalOnMutex, ReleaseOnMutex DEF SemStep
<1>2. CASE UNCHANGED vars
  <2>1. \A m \in Mutexes : Same(m)
    BY <1>2 DEF vars, kernelVars, taskVars, semVars, Same, Hands, InHand, Askers, Asking,
       Waiters
  <2> QED
    BY <2>1 DEF MutexStep
<1> QED
  BY <1>1, <1>2, KernelStepOnMutex, IsrSignalOnMutex DEF Next

LEMMA InitMutex == Init => MutexInv
<1> SUFFICES ASSUME Init, NEW m \in Mutexes
             PROVE  count[m] = 1 /\ owner[m] = NoTask /\ Hands(m) = {}
  BY DEF MutexInv
<1>1. count[m] = 1 /\ owner[m] = NoTask
  BY RtosAssumption DEF RtosAssumption, Init
<1>2. \A t \in Tasks : pc[t] = "app"
  BY DEF Init, KernelInit
<1> QED
  BY <1>1, <1>2 DEF Hands, InHand

LEMMA NoTaskIsNone == NoTask \notin Tasks
BY PoolAssumption DEF PoolAssumption, NoTask, Tasks, MAX_TASKS

LEMMA EffectKeepsMutex ==
  ASSUME RtosInv, MutexInv, NEW t \in Tasks, NEW m \in Mutexes, Effect(t, m)
  PROVE  \/ count'[m] = 1 /\ owner'[m] = NoTask /\ Hands(m)' = {}
         \/ count'[m] = 0 /\ owner'[m] \in Tasks /\ Hands(m)' = {}
         \/ count'[m] = 0 /\ owner'[m] = NoTask /\ \E u \in Tasks : Hands(m)' = {u}
<1>1. \/ count[m] = 1 /\ owner[m] = NoTask /\ Hands(m) = {}
      \/ count[m] = 0 /\ owner[m] \in Tasks /\ Hands(m) = {}
      \/ count[m] = 0 /\ owner[m] = NoTask /\ \E u \in Tasks : Hands(m) = {u}
  BY DEF MutexInv
<1>2. CASE AskedAndGot(t, m)
  BY <1>1, <1>2 DEF AskedAndGot
<1>3. CASE AskedAndQueued(t, m)
  BY <1>1, <1>3 DEF AskedAndQueued
<1>4. CASE Recorded(t, m)
  BY <1>1, <1>4 DEF Recorded
<1>5. CASE Erased(t, m)
  BY <1>1, <1>5, NoTaskIsNone DEF Erased
<1>6. CASE HandedOn(t, m)
  BY <1>1, <1>6 DEF HandedOn
<1>7. CASE PutBack(t, m)
  BY <1>1, <1>7 DEF PutBack
<1> QED
  BY <1>2, <1>3, <1>4, <1>5, <1>6, <1>7 DEF Effect

LEMMA MutexKept == ASSUME RtosInv, MutexInv, [Next]_vars PROVE MutexInv'
<1> SUFFICES ASSUME NEW m \in Mutexes
             PROVE  \/ count'[m] = 1 /\ owner'[m] = NoTask /\ Hands(m)' = {}
                    \/ count'[m] = 0 /\ owner'[m] \in Tasks /\ Hands(m)' = {}
                    \/ /\ count'[m] = 0 /\ owner'[m] = NoTask
                       /\ \E t \in Tasks : Hands(m)' = {t}
  BY DEF MutexInv
<1>1. Same(m) \/ \E t \in Tasks : Effect(t, m)
  BY MutexNext DEF MutexStep
<1>2. CASE Same(m)
  BY <1>2 DEF Same, MutexInv
<1> QED
  BY <1>1, <1>2, EffectKeepsMutex

LEMMA MutexInvariance ==
  ASSUME HasIdleTask, ShortDelays
  PROVE  Spec => [](RtosInv /\ MutexInv)
<1>1. RtosInv /\ MutexInv /\ [Next]_vars => MutexInv'
  BY MutexKept
<1> QED
  BY <1>1, InitRtos, RtosStep, InitMutex, PTL DEF Spec

\* Mutual exclusion without loss: the permit of a mutex is in its count or
\* with one task, also for callers that release what they do not own.
THEOREM OnePermit ==
  ASSUME HasIdleTask, ShortDelays
  PROVE  Spec => []OnePermitPerMutex
<1>1. ASSUME RtosInv, MutexInv, NEW m \in Mutexes
      PROVE  count[m] + Cardinality({t \in Tasks : Holding(t, m)}) = 1
  <2>1. \A t \in Tasks : Holding(t, m) <=> owner[m] = t \/ t \in Hands(m)
    BY DEF Holding, Hands, InHand, Waiters
  <2>2. CASE count[m] = 1 /\ owner[m] = NoTask /\ Hands(m) = {}
    <3>1. {t \in Tasks : Holding(t, m)} = {}
      BY <2>1, <2>2, NoTaskIsNone
    <3> QED
      BY <2>2, <3>1, FS_EmptySet
  <2>3. CASE count[m] = 0 /\ owner[m] \in Tasks /\ Hands(m) = {}
    <3>1. {t \in Tasks : Holding(t, m)} = {owner[m]}
      BY <2>1, <2>3
    <3>2. Cardinality({owner[m]}) = 1
      BY FS_Singleton
    <3> QED
      BY <2>3, <3>1, <3>2
  <2>4. ASSUME NEW u \in Tasks, count[m] = 0, owner[m] = NoTask, Hands(m) = {u}
        PROVE  count[m] + Cardinality({t \in Tasks : Holding(t, m)}) = 1
    <3>1. {t \in Tasks : Holding(t, m)} = {u}
      BY <2>1, <2>4, NoTaskIsNone
    <3>2. Cardinality({u}) = 1
      BY FS_Singleton
    <3> QED
      BY <2>4, <3>1, <3>2
  <2> QED
    BY <1>1, <2>2, <2>3, <2>4 DEF MutexInv
<1>2. RtosInv /\ MutexInv => OnePermitPerMutex
  BY <1>1 DEF OnePermitPerMutex
<1> QED
  BY <1>2, MutexInvariance, PTL

\* A recorded owner loses the mutex only by its own osMutexRelease().
THEOREM OwnersAreNotRobbed ==
  ASSUME HasIdleTask, ShortDelays
  PROVE  Spec => OnlyOwnerReleases
<1> DEFINE Robbed(m) == owner[m] # NoTask /\ owner'[m] # owner[m]
           NoRobbery ==
             \A m \in Mutexes : Robbed(m) => owner'[m] = NoTask /\ At(owner[m], "app")
<1>1. RtosInv /\ MutexInv /\ [Next]_vars => [NoRobbery]_vars
  <2> SUFFICES ASSUME RtosInv, MutexInv, [Next]_vars, NEW m \in Mutexes, Robbed(m)
               PROVE  owner'[m] = NoTask /\ At(owner[m], "app")
    OBVIOUS
  <2>1. PICK t \in Tasks : Effect(t, m)
    BY MutexNext DEF MutexStep, Same
  <2>2. Hands(m) = {}
    BY DEF MutexInv
  <2> QED
    BY <2>1, <2>2 DEF Effect, AskedAndGot, AskedAndQueued, Recorded, Erased, HandedOn, PutBack
<1>2. Spec => [][NoRobbery]_vars
  BY <1>1, MutexInvariance, PTL DEF Spec
<1> QED
  BY <1>2 DEF OnlyOwnerReleases

\* The mutexes implement AbstractLock, although osMutexAcquire() records
\* the owner without looking and osMutexRelease() erases it early.
THEOREM MutexesAreLocks ==
  ASSUME HasIdleTask, ShortDelays
  PROVE  Spec => ImplementsLock
<1> DEFINE wanting == [m \in Mutexes |-> {t \in Tasks : Asking(t, m)}]
<1>1. Init => L!Init
  <2> SUFFICES ASSUME Init
               PROVE  owner = [m \in Mutexes |-> NoTask] /\ wanting = [m \in Mutexes |-> {}]
    BY DEF L!Init
  <2>1. \A t \in Tasks, m \in Mutexes : ~Asking(t, m)
    BY DEF Init, KernelInit, Asking
  <2> QED
    BY <2>1 DEF Init
<1>2. RtosInv /\ MutexInv /\ [Next]_vars => [L!Next]_<<owner, wanting>>
  <2> SUFFICES ASSUME RtosInv, MutexInv, [Next]_vars, ~UNCHANGED <<owner, wanting>>
               PROVE  L!Next
    OBVIOUS
  <2>1. /\ wanting = [m \in Mutexes |-> Askers(m)]
        /\ wanting' = [m \in Mutexes |-> Askers(m)']
    BY DEF Askers
  <2> HIDE DEF wanting
  <2>2. owner \in [Mutexes -> Tasks \cup {NoTask}] /\ owner' \in [Mutexes -> Tasks \cup {NoTask}]
    BY LocalNext DEF RtosInv, LocalInv, SemTypes
  <2>3. PICK t \in Tasks, m \in Mutexes : Effect(t, m) /\ \A l \in Mutexes \ {m} : Same(l)
    <3>1. CASE \A l \in Mutexes : Same(l)
      BY <2>1, <2>2, <3>1 DEF Same, wanting
    <3> QED
      BY <3>1, MutexNext DEF MutexStep
  <2>4. /\ owner' = [owner EXCEPT ![m] = owner'[m]]
        /\ wanting' = [wanting EXCEPT ![m] = Askers(m)']
    BY <2>1, <2>2, <2>3 DEF Same
  <2>5. pc[t] = "app" => ~L!Busy(t)
    BY DEF L!Busy, Asking
  <2>6. owner'[m] = owner[m] => UNCHANGED owner
    BY <2>2, <2>4
  <2>7. Askers(m)' = Askers(m) => UNCHANGED wanting
    BY <2>1, <2>4
  <2>8. wanting[m] = Askers(m)
    BY <2>1
  <2>9. CASE AskedAndGot(t, m) \/ AskedAndQueued(t, m)
    <3>1. L!Request(t, m)
      BY <2>4, <2>5, <2>6, <2>8, <2>9 DEF AskedAndGot, AskedAndQueued, L!Request, wanting
    <3> QED
      BY <3>1 DEF L!Next
  <2>10. CASE Recorded(t, m)
    <3>1. owner[m] = NoTask /\ t \in wanting[m]
      BY <2>8, <2>10 DEF Recorded, MutexInv
    <3>2. L!Take(t, m)
      BY <2>4, <2>8, <2>10, <3>1 DEF Recorded, L!Take, wanting
    <3> QED
      BY <3>2 DEF L!Next
  <2>11. CASE Erased(t, m)
    <3>1. L!Drop(t, m)
      BY <2>4, <2>5, <2>7, <2>11 DEF Erased, At, L!Drop, wanting
    <3> QED
      BY <3>1 DEF L!Next
  <2>12. CASE HandedOn(t, m) \/ PutBack(t, m)
    BY <2>6, <2>7, <2>12 DEF HandedOn, PutBack
  <2> QED
    BY <2>3, <2>9, <2>10, <2>11, <2>12 DEF Effect
<1>3. Spec => L!Init /\ [][L!Next]_<<owner, wanting>>
  BY <1>1, <1>2, MutexInvariance, PTL DEF Spec
<1> QED
  BY <1>3, PTL DEF ImplementsLock, L!Spec
-----------------------------------------------------------------------------
(* Plain semaphores: a permit of AbstractSemaphore is one that is in count *)
(* or was handed to a task that has not returned with it yet               *)

Grants(s) == {t \in Tasks : Granted(t, s)}

Unmoved(s) == count'[s] = count[s] /\ Askers(s)' = Askers(s) /\ Grants(s)' = Grants(s)

Took(t, s) ==
  /\ pc[t] = "app" /\ count[s] > 0
  /\ count'[s] = count[s] - 1
  /\ Askers(s)' = Askers(s) \cup {t}
  /\ t \notin Grants(s) /\ Grants(s)' = Grants(s) \cup {t}

Queued(t, s) ==
  /\ pc[t] = "app"
  /\ count'[s] = count[s]
  /\ Askers(s)' = Askers(s) \cup {t}
  /\ Grants(s)' = Grants(s)

Returned(t, s) ==
  /\ t \in Grants(s)
  /\ count'[s] = count[s]
  /\ Askers(s)' = Askers(s) \ {t}
  /\ Grants(s)' = Grants(s) \ {t}

Handed(s) ==
  /\ count'[s] = count[s]
  /\ Askers(s)' = Askers(s)
  /\ \E h \in Tasks \ Grants(s) : Grants(s)' = Grants(s) \cup {h}

Stored(s) ==
  /\ count'[s] = count[s] + 1
  /\ Askers(s)' = Askers(s)
  /\ Grants(s)' = Grants(s)

PlainEffect(s) ==
  \/ \E t \in Tasks : Took(t, s) \/ Queued(t, s) \/ Returned(t, s)
  \/ Handed(s)
  \/ Stored(s)

PlainStep ==
  \/ \A s \in Plain : Unmoved(s)
  \/ \E s \in Plain : PlainEffect(s) /\ \A r \in Plain \ {s} : Unmoved(r)
-----------------------------------------------------------------------------
(* What a step does to the plain semaphores                                *)

LEMMA PlainAreSems == Plain \subseteq Sems /\ Plain \cap Mutexes = {} /\ NoSem \notin Plain
BY RtosAssumption DEF RtosAssumption, Plain

\* Only t moves, and the queue of s stays.
LEMMA OnePlainMover ==
  ASSUME NEW t \in Tasks, NEW s \in Plain, waiting'[s] = waiting[s],
         \A u \in Tasks \ {t} : pc'[u] = pc[u] /\ obj'[u] = obj[u]
  PROVE  /\ Askers(s)' = (Askers(s) \ {t}) \cup {u \in {t} : Asking(u, s)'}
         /\ Grants(s)' = (Grants(s) \ {t}) \cup {u \in {t} : Granted(u, s)'}
<1>1. \A u \in Tasks \ {t} : (Asking(u, s)' <=> Asking(u, s)) /\ (Granted(u, s)' <=> Granted(u, s))
  BY DEF Asking, Granted
<1> QED
  BY <1>1 DEF Askers, Grants

\* t stays inside its call, or outside.
LEMMA QuietPlainMove ==
  ASSUME NEW t \in Tasks,
         \A u \in Tasks \ {t} : pc'[u] = pc[u] /\ obj'[u] = obj[u],
         \A s \in Plain :
           /\ waiting'[s] = waiting[s] /\ count'[s] = count[s]
           /\ Asking(t, s)' <=> Asking(t, s)
  PROVE  PlainStep
<1> SUFFICES ASSUME NEW s \in Plain
             PROVE  Unmoved(s)
  BY DEF PlainStep
<1>1. Granted(t, s)' <=> Granted(t, s)
  BY DEF Granted
<1>2. /\ Askers(s)' = (Askers(s) \ {t}) \cup {u \in {t} : Asking(u, s)'}
      /\ Grants(s)' = (Grants(s) \ {t}) \cup {u \in {t} : Granted(u, s)'}
  BY OnePlainMover
<1>3. Askers(s)' = Askers(s) /\ Grants(s)' = Grants(s)
  BY <1>1, <1>2 DEF Askers, Grants
<1> QED
  BY <1>3 DEF Unmoved

LEMMA KernelStepOnPlain == ASSUME RtosInv, KernelStep PROVE PlainStep
<1>1. UNCHANGED <<count, waiting, owner, obj>> /\ pc \in [Tasks -> RtosLabels]
  BY KernelTypes DEF KernelStep, semVars
<1>2. CASE UNCHANGED pc
  <2>1. \A s \in Plain : Unmoved(s)
    BY <1>1, <1>2 DEF Unmoved, Askers, Asking, Grants, Granted
  <2> QED
    BY <2>1 DEF PlainStep
<1>3. CASE Main \/ Handlers
  BY <1>2, <1>3
  DEF Main, Handlers, TaskCreate, OsStart, SysTick, PendSVEnter, PendSVSwitch, taskVars
<1>4. ASSUME NEW t \in Tasks, pc[t] \in {"app", "delay_yield", "signal_yield"},
             NEW to \in {"app", "delay_yield"}, Goto(t, to)
      PROVE  PlainStep
  <2>1. pc'[t] = to /\ \A u \in Tasks \ {t} : pc'[u] = pc[u] /\ obj'[u] = obj[u]
    BY <1>1, <1>4 DEF Goto
  <2>2. \A s \in Plain : ~Asking(t, s) /\ ~Asking(t, s)'
    BY <1>4, <2>1 DEF Asking
  <2> QED
    BY <1>1, <2>1, <2>2, QuietPlainMove
<1>5. ASSUME NEW t \in Tasks, NEW ticks \in Delays, OsDelay(t, ticks)
      PROVE  PlainStep
  BY <1>4, <1>5 DEF OsDelay, At
<1>6. ASSUME NEW t \in Tasks, Yield(t)
      PROVE  PlainStep
  <2>1. PICK from \in {"delay_yield", "block_yield", "signal_yield"} : YieldFrom(t, from, "app")
    BY <1>6 DEF Yield
  <2>2. pc[t] = from /\ from # "block_yield" /\ Goto(t, "app")
    BY <1>1, <2>1 DEF YieldFrom, At, RtosLabels
  <2> QED
    BY <1>4, <2>2
<1> QED
  BY <1>3, <1>5, <1>6 DEF KernelStep

LEMMA WaitFastOnPlain ==
  ASSUME RtosInv, NEW t \in Tasks, NEW s \in Sems, WaitFast(t, s) PROVE PlainStep
<1>1. /\ pc[t] = "app" /\ count[s] > 0
      /\ pc'[t] = AfterWait(s) /\ obj'[t] = s
      /\ count' = [count EXCEPT ![s] = count[s] - 1]
      /\ \A u \in Tasks \ {t} : pc'[u] = pc[u] /\ obj'[u] = obj[u]
      /\ UNCHANGED waiting /\ count \in [Sems -> Nat]
  BY KernelTypes DEF RtosInv, SemTypes, WaitFast, CallsWait, At, Goto
<1>2. \A r \in Sems : t \notin ToSet(waiting[r])
  BY CallerFacts DEF WaitFast, CallsWait, FreeLabels, Waiters
<1>3. \A r \in Plain : ~Asking(t, r)
  BY <1>1 DEF Asking
<1>4. \A r \in Plain : (Asking(t, r)' <=> r = s) /\ (Granted(t, r)' <=> r = s)
  BY <1>1, <1>2, PlainAreSems DEF Asking, Granted, AfterWait
<1>5. CASE s \in Mutexes
  <2>1. \A r \in Plain : r # s /\ count'[r] = count[r]
    BY <1>1, <1>5, PlainAreSems
  <2> QED
    BY <1>1, <1>3, <1>4, <2>1, QuietPlainMove
<1>6. CASE s \notin Mutexes
  <2>1. \A r \in Plain :
          /\ Askers(r)' = (Askers(r) \ {t}) \cup {u \in {t} : Asking(u, r)'}
          /\ Grants(r)' = (Grants(r) \ {t}) \cup {u \in {t} : Granted(u, r)'}
    BY <1>1, OnePlainMover
  <2>2. t \notin Grants(s) /\ \A r \in Plain : t \notin Askers(r) /\ t \notin Grants(r)
    BY <1>3, <1>6 DEF Askers, Grants, Granted, Plain
  <2>3. s \in Plain /\ Took(t, s)
    BY <1>1, <1>4, <1>6, <2>1, <2>2 DEF Took, Plain
  <2>4. \A r \in Plain \ {s} : Unmoved(r)
    <3> TAKE r \in Plain \ {s}
    <3>1. count'[r] = count[r] /\ ~Asking(t, r)' /\ ~Granted(t, r)'
      BY <1>1, <1>4, PlainAreSems
    <3> QED
      BY <2>1, <2>2, <3>1 DEF Unmoved
  <2> QED
    BY <2>3, <2>4 DEF PlainStep, PlainEffect
<1> QED
  BY <1>5, <1>6

LEMMA WaitBlockOnPlain ==
  ASSUME RtosInv, NEW t \in Tasks, NEW s \in Sems, WaitBlock(t, s) PROVE PlainStep
<1>1. t = current
  BY CallerFacts DEF WaitBlock, CallsWait, FreeLabels
<1>2. /\ pc[t] = "app" /\ pc'[t] = "wait_yield" /\ obj'[t] = s
      /\ waiting' = [waiting EXCEPT ![s] = Append(waiting[s], t)]
      /\ \A u \in Tasks \ {t} : pc'[u] = pc[u] /\ obj'[u] = obj[u]
      /\ UNCHANGED count /\ waiting \in [Sems -> Seq(Tasks)]
  BY <1>1, KernelTypes DEF RtosInv, SemTypes, WaitBlock, CallsWait, At, Goto
<1>3. \A r \in Plain : ~Asking(t, r) /\ (Asking(t, r)' <=> r = s)
  BY <1>2 DEF Asking
<1>4. \A r \in Plain \ {s} : waiting'[r] = waiting[r]
  BY <1>2, PlainAreSems
<1>5. CASE s \in Mutexes
  <2>1. \A r \in Plain : r # s /\ waiting'[r] = waiting[r]
    BY <1>4, <1>5, PlainAreSems
  <2> QED
    BY <1>2, <1>3, <2>1, QuietPlainMove
<1>6. CASE s \notin Mutexes
  <2>1. s \in Plain
    BY <1>6 DEF Plain
  <2>2. ToSet(waiting'[s]) = ToSet(waiting[s]) \cup {t}
    BY <1>2, AppendFacts
  <2>3. \A u \in Tasks : Asking(u, s)' <=> Asking(u, s) \/ u = t
    BY <1>2, <1>3, <2>1 DEF Asking
  <2>4. \A u \in Tasks : Granted(u, s)' <=> Granted(u, s)
    BY <1>3, <2>1, <2>2, <2>3 DEF Granted
  <2>5. Queued(t, s)
    BY <1>2, <2>3, <2>4 DEF Queued, Askers, Grants
  <2>6. ASSUME NEW r \in Plain \ {s}
        PROVE  Unmoved(r)
    <3>1. /\ Askers(r)' = (Askers(r) \ {t}) \cup {u \in {t} : Asking(u, r)'}
          /\ Grants(r)' = (Grants(r) \ {t}) \cup {u \in {t} : Granted(u, r)'}
      BY <1>2, <1>4, OnePlainMover
    <3>2. ~Asking(t, r) /\ ~Asking(t, r)' /\ ~Granted(t, r) /\ ~Granted(t, r)'
      BY <1>3 DEF Granted
    <3> QED
      BY <1>2, <3>1, <3>2 DEF Unmoved, Askers, Grants
  <2> QED
    BY <2>1, <2>5, <2>6 DEF PlainStep, PlainEffect
<1> QED
  BY <1>5, <1>6

LEMMA WaitReturnOnPlain ==
  ASSUME RtosInv, NEW t \in Tasks, WaitReturn(t) PROVE PlainStep
<1>1. /\ pc[t] = "wait_return" /\ pc'[t] = "app" /\ obj'[t] = NoSem
      /\ \A u \in Tasks \ {t} : pc'[u] = pc[u] /\ obj'[u] = obj[u]
      /\ UNCHANGED <<count, waiting>>
  BY KernelTypes DEF WaitReturn, At, Goto, RtosInv, SemTypes
<1>2. PICK s \in Plain : s = obj[t]
  BY <1>1 DEF RtosInv, CallInv, MayBe, Plain
<1>3. \A r \in Sems : t \notin ToSet(waiting[r])
  BY CallerFacts DEF WaitReturn, FreeLabels, Waiters
<1>4. \A r \in Plain : (Asking(t, r) <=> r = s) /\ (Granted(t, r) <=> r = s)
  BY <1>1, <1>2, <1>3, PlainAreSems DEF Asking, Granted
<1>5. \A r \in Plain : ~Asking(t, r)' /\ ~Granted(t, r)'
  BY <1>1 DEF Asking, Granted
<1>6. \A r \in Plain :
        /\ Askers(r)' = (Askers(r) \ {t}) \cup {u \in {t} : Asking(u, r)'}
        /\ Grants(r)' = (Grants(r) \ {t}) \cup {u \in {t} : Granted(u, r)'}
  BY <1>1, OnePlainMover
<1>7. Returned(t, s)
  BY <1>1, <1>4, <1>5, <1>6 DEF Returned, Grants
<1>8. \A r \in Plain \ {s} : Unmoved(r)
  BY <1>1, <1>4, <1>5, <1>6 DEF Unmoved, Askers, Grants
<1> QED
  BY <1>7, <1>8 DEF PlainStep, PlainEffect

\* A signal on a plain semaphore, from a task or from an interrupt handler.
LEMMA PermitOnPlain ==
  ASSUME RtosInv, NEW s \in Plain, HandOff(s) \/ Post(s),
         \A u \in Tasks, r \in Plain : Asking(u, r)' <=> Asking(u, r)
  PROVE  PlainStep
<1>1. /\ waiting \in [Sems -> Seq(Tasks)] /\ count \in [Sems -> Nat] /\ s \in Sems
  BY PlainAreSems DEF RtosInv, SemTypes
<1>2. \A r \in Plain : Askers(r)' = Askers(r)
  BY DEF Askers
<1>3. ASSUME NEW r \in Plain \ {s}
      PROVE  Unmoved(r)
  <2>1. waiting'[r] = waiting[r] /\ count'[r] = count[r]
    BY <1>1, PlainAreSems DEF HandOff, Post
  <2> QED
    BY <1>2, <2>1 DEF Unmoved, Grants, Granted
<1>4. CASE Post(s)
  <2>1. count'[s] = count[s] + 1 /\ UNCHANGED waiting
    BY <1>1, <1>4 DEF Post
  <2>2. Grants(s)' = Grants(s)
    BY <2>1 DEF Grants, Granted
  <2> QED
    BY <1>2, <1>3, <2>1, <2>2 DEF Stored, PlainStep, PlainEffect
<1>5. CASE HandOff(s)
  <2>1. PICK h : h = Head(waiting[s])
    OBVIOUS
  <2>2. /\ waiting[s] \in Seq(Tasks) /\ waiting[s] # <<>> /\ Once(waiting[s])
        /\ waiting' = [waiting EXCEPT ![s] = Tail(waiting[s])] /\ UNCHANGED count
    BY <1>1, <1>5 DEF RtosInv, QueueInv, HandOff
  <2>3. ToSet(waiting'[s]) = ToSet(waiting[s]) \ {h}
    BY <1>1, <2>1, <2>2, TailFacts
  <2>4. h \in Tasks /\ h \in ToSet(waiting[s]) /\ Asking(h, s)
    BY <1>1, <2>1, <2>2, HeadIsBlocked DEF RtosInv, QueueInv, Waiters, Asking, AfterWait
  <2>5. \A u \in Tasks : Granted(u, s)' <=> Granted(u, s) \/ u = h
    BY <2>3, <2>4 DEF Granted
  <2>6. h \in Tasks \ Grants(s) /\ Grants(s)' = Grants(s) \cup {h}
    BY <2>4, <2>5 DEF Grants, Granted
  <2> QED
    BY <1>2, <1>3, <2>2, <2>6 DEF Handed, PlainStep, PlainEffect
<1> QED
  BY <1>4, <1>5

LEMMA SignalOnPlain ==
  ASSUME RtosInv, NEW t \in Tasks, NEW s \in Sems, Signal(t, s) PROVE PlainStep
<1>1. PICK label \in {"signal_yield", "app"} : Goto(t, label)
  BY DEF Signal
<1>2. /\ pc'[t] = label /\ obj'[t] = NoSem
      /\ \A u \in Tasks \ {t} : pc'[u] = pc[u] /\ obj'[u] = obj[u]
  BY <1>1, KernelTypes DEF RtosInv, SemTypes, Signal, Goto
<1>3. pc[t] \in {"app", "release_signal"}
  BY SignallerFacts DEF Signal
<1>4. \A u \in Tasks, r \in Plain : Asking(u, r)' <=> Asking(u, r)
  BY <1>2, <1>3 DEF Asking
<1>5. HandOff(s) \/ Post(s)
  BY DEF Signal
<1>6. CASE s \in Plain
  BY <1>4, <1>5, <1>6, PermitOnPlain
<1>7. CASE s \notin Plain
  <2>1. \A r \in Plain : waiting'[r] = waiting[r] /\ count'[r] = count[r]
    BY <1>5, <1>7, PlainAreSems DEF HandOff, Post, RtosInv, SemTypes
  <2> QED
    BY <1>2, <1>4, <2>1, QuietPlainMove
<1> QED
  BY <1>6, <1>7

LEMMA RestOnPlain ==
  ASSUME RtosInv, NEW t \in Tasks,
         \/ WaitYield(t) \/ SetOwner(t)
         \/ \E m \in Mutexes : ReleaseTrap(t, m) \/ MutexRelease(t, m)
  PROVE  PlainStep
<1>1. /\ pc \in [Tasks -> RtosLabels] /\ obj \in [Tasks -> Sems \cup {NoSem}]
      /\ UNCHANGED <<count, waiting>>
      /\ \A u \in Tasks \ {t} : pc'[u] = pc[u] /\ obj'[u] = obj[u]
  BY KernelTypes
  DEF RtosInv, SemTypes, WaitYield, YieldFrom, SetOwner, ReleaseTrap, MutexRelease, Goto,
      semVars
<1>2. \A s \in Plain : Asking(t, s)' <=> Asking(t, s)
  <2>1. CASE WaitYield(t)
    BY <1>1, <2>1 DEF WaitYield, YieldFrom, At, Goto, semVars, Asking, AfterWait
  <2>2. CASE SetOwner(t)
    <3>1. obj[t] \in Mutexes
      BY <2>2 DEF SetOwner, At, RtosInv, CallInv, MayBe
    <3> QED
      BY <1>1, <2>2, <3>1, PlainAreSems DEF SetOwner, Goto, Asking
  <2>3. ASSUME NEW m \in Mutexes, ReleaseTrap(t, m) \/ MutexRelease(t, m)
        PROVE  \A s \in Plain : Asking(t, s)' <=> Asking(t, s)
    BY <1>1, <2>3 DEF ReleaseTrap, MutexRelease, CallsRelease, At, Goto, Asking
  <2> QED
    BY <2>1, <2>2, <2>3
<1> QED
  BY <1>1, <1>2, QuietPlainMove

LEMMA PlainNext == ASSUME RtosInv, [Next]_vars PROVE PlainStep
<1>1. ASSUME NEW t \in Tasks, SemStep(t)
      PROVE  PlainStep
  BY <1>1, RestOnPlain, WaitReturnOnPlain, WaitFastOnPlain, WaitBlockOnPlain, SignalOnPlain
  DEF SemStep
<1>2. ASSUME NEW s \in IsrSems, IsrSignal(s)
      PROVE  PlainStep
  <2>1. s \in Plain
    BY RtosAssumption DEF RtosAssumption, Plain
  <2>2. (HandOff(s) \/ Post(s)) /\ UNCHANGED <<pc, obj>>
    BY <1>2 DEF IsrSignal
  <2>3. \A u \in Tasks, r \in Plain : Asking(u, r)' <=> Asking(u, r)
    BY <2>2 DEF Asking
  <2> QED
    BY <2>1, <2>2, <2>3, PermitOnPlain
<1>3. CASE UNCHANGED vars
  <2>1. \A s \in Plain : Unmoved(s)
    BY <1>3 DEF vars, kernelVars, taskVars, semVars, Unmoved, Askers, Asking, Grants, Granted
  <2> QED
    BY <2>1 DEF PlainStep
<1> QED
  BY <1>1, <1>2, <1>3, KernelStepOnPlain DEF Next
-----------------------------------------------------------------------------
(* The refinement                                                          *)

LEMMA GrantsCount ==
  /\ \A s \in Plain : IsFiniteSet(Grants(s)) /\ Cardinality(Grants(s)) \in Nat
  /\ \A s \in Plain : Grants(s) # {} => Cardinality(Grants(s)) > 0
<1>1. IsFiniteSet(Tasks)
  <2>1. NTasks - 1 \in Int
    BY PoolAssumption DEF PoolAssumption, MAX_TASKS
  <2> QED
    BY <2>1, FS_Interval DEF Tasks
<1>2. \A s \in Plain : IsFiniteSet(Grants(s))
  BY <1>1, FS_Subset DEF Grants
<1>3. \A s \in Plain : Cardinality(Grants(s)) \in Nat
  BY <1>2, FS_CardinalityType
<1>4. \A s \in Plain : Cardinality(Grants(s)) = 0 <=> Grants(s) = {}
  BY <1>2, FS_EmptySet
<1> QED
  BY <1>2, <1>3, <1>4

Permits(s) == count[s] + Cardinality(Grants(s))

\* The plain semaphores implement AbstractSemaphore: a hand-off is a permit
\* of its own, which no other task can take.
THEOREM SemaphoresAreTextbook ==
  ASSUME HasIdleTask, ShortDelays
  PROVE  Spec => ImplementsSemaphore
<1> DEFINE permits == [s \in Plain |-> count[s] + Cardinality({t \in Tasks : Granted(t, s)})]
           asking == [s \in Plain |-> {t \in Tasks : Asking(t, s)}]
<1>1. Init => S!Init
  <2> SUFFICES ASSUME Init
               PROVE  /\ permits = [s \in Plain |-> InitialCount[s]]
                      /\ asking = [s \in Plain |-> {}]
    BY DEF S!Init
  <2>1. \A t \in Tasks, s \in Plain : ~Asking(t, s) /\ ~Granted(t, s)
    BY DEF Init, KernelInit, Asking, Granted
  <2>2. \A s \in Plain : /\ {t \in Tasks : Asking(t, s)} = {}
                         /\ Cardinality({t \in Tasks : Granted(t, s)}) = 0
    BY <2>1, FS_EmptySet
  <2>3. \A s \in Plain : count[s] = InitialCount[s] /\ InitialCount[s] \in Nat
    BY PlainAreSems, RtosAssumption DEF RtosAssumption, Init
  <2>4. \A s \in Plain :
          count[s] + Cardinality({t \in Tasks : Granted(t, s)}) = InitialCount[s]
    BY <2>2, <2>3
  <2> QED
    BY <2>2, <2>4
<1>2. RtosInv /\ [Next]_vars => [S!Next]_<<permits, asking>>
  <2> SUFFICES ASSUME RtosInv, [Next]_vars, ~UNCHANGED <<permits, asking>>
               PROVE  S!Next
    OBVIOUS
  <2>1. /\ permits = [s \in Plain |-> Permits(s)]
        /\ permits' = [s \in Plain |-> Permits(s)']
        /\ asking = [s \in Plain |-> Askers(s)]
        /\ asking' = [s \in Plain |-> Askers(s)']
    BY DEF Permits, Grants, Askers
  <2> HIDE DEF permits, asking
  <2>2. \A s \in Plain : Unmoved(s) => Permits(s)' = Permits(s) /\ Askers(s)' = Askers(s)
    BY DEF Unmoved, Permits
  <2>3. PICK s \in Plain : PlainEffect(s) /\ \A r \in Plain \ {s} : Unmoved(r)
    <3>1. CASE \A r \in Plain : Unmoved(r)
      BY <2>1, <2>2, <3>1
    <3> QED
      BY <3>1, PlainNext DEF PlainStep
  <2>4. /\ permits' = [permits EXCEPT ![s] = Permits(s)']
        /\ asking' = [asking EXCEPT ![s] = Askers(s)']
        /\ permits[s] = Permits(s) /\ asking[s] = Askers(s)
    BY <2>1, <2>2, <2>3
  <2>5. Permits(s)' = Permits(s) => UNCHANGED permits
    BY <2>1, <2>4
  <2>6. Askers(s)' = Askers(s) => UNCHANGED asking
    BY <2>1, <2>4
  <2>7. /\ IsFiniteSet(Grants(s)) /\ Cardinality(Grants(s)) \in Nat
        /\ Grants(s) # {} => Cardinality(Grants(s)) > 0
        /\ count[s] \in Nat
    BY GrantsCount, PlainAreSems DEF RtosInv, SemTypes
  <2>8. \A t \in Tasks : pc[t] = "app" => \A o \in Plain : t \notin asking[o]
    BY <2>1 DEF Askers, Asking
  <2>9. ASSUME NEW t \in Tasks, Took(t, s)
        PROVE  S!Ask(t, s)
    <3>1. Cardinality(Grants(s)') = Cardinality(Grants(s)) + 1
      BY <2>7, <2>9, FS_AddElement DEF Took
    <3>2. Permits(s)' = Permits(s)
      BY <2>7, <2>9, <3>1 DEF Took, Permits
    <3> QED
      BY <2>4, <2>5, <2>8, <2>9, <3>2 DEF Took, S!Ask, permits, asking
  <2>10. ASSUME NEW t \in Tasks, Queued(t, s)
         PROVE  S!Ask(t, s)
    <3>1. Permits(s)' = Permits(s)
      BY <2>10 DEF Queued, Permits
    <3> QED
      BY <2>4, <2>5, <2>8, <2>10, <3>1 DEF Queued, S!Ask, permits, asking
  <2>11. ASSUME NEW t \in Tasks, Returned(t, s)
         PROVE  S!Return(t, s)
    <3>1. Cardinality(Grants(s)') = Cardinality(Grants(s)) - 1
      <4>1. t \in Grants(s) /\ Grants(s)' = Grants(s) \ {t}
        BY <2>11 DEF Returned
      <4> QED
        BY <2>7, <4>1, FS_RemoveElement
    <3>2. Permits(s)' = Permits(s) - 1 /\ Permits(s) > 0
      BY <2>7, <2>11, <3>1 DEF Returned, Permits
    <3>3. t \in asking[s]
      BY <2>4, <2>11 DEF Returned, Grants, Granted, Askers
    <3> QED
      BY <2>4, <2>11, <3>2, <3>3 DEF Returned, S!Return, permits, asking
  <2>12. CASE Handed(s)
    <3>1. Cardinality(Grants(s)') = Cardinality(Grants(s)) + 1
      BY <2>7, <2>12, FS_AddElement DEF Handed
    <3>2. Permits(s)' = Permits(s) + 1
      BY <2>7, <2>12, <3>1 DEF Handed, Permits
    <3>3. permits' = [permits EXCEPT ![s] = permits[s] + 1] /\ UNCHANGED asking
      BY <2>4, <2>6, <2>12, <3>2 DEF Handed
    <3> QED
      BY <3>3 DEF S!Next, S!Signal, permits, asking
  <2>13. CASE Stored(s)
    <3>1. Permits(s)' = Permits(s) + 1
      BY <2>7, <2>13 DEF Stored, Permits
    <3>2. permits' = [permits EXCEPT ![s] = permits[s] + 1] /\ UNCHANGED asking
      BY <2>4, <2>6, <2>13, <3>1 DEF Stored
    <3> QED
      BY <3>2 DEF S!Next, S!Signal, permits, asking
  <2> QED
    BY <2>3, <2>9, <2>10, <2>11, <2>12, <2>13 DEF PlainEffect, S!Next
<1>3. Spec => S!Init /\ [][S!Next]_<<permits, asking>>
  BY <1>1, <1>2, RtosInvariance, PTL DEF Spec
<1> QED
  BY <1>3, PTL DEF ImplementsSemaphore, S!Spec
-----------------------------------------------------------------------------
(* Order in the queues                                                     *)

InOrder(q, t, u) == \E i, j \in DOMAIN q : i < j /\ q[i] = t /\ q[j] = u

LEMMA AppendOrder ==
  ASSUME NEW Elem, NEW q \in Seq(Elem), NEW x \in Elem, NEW t \in ToSet(q), NEW u
  PROVE  /\ InOrder(q, t, u) => InOrder(Append(q, x), t, u)
         /\ InOrder(Append(q, x), t, x)
<1> DEFINE r == Append(q, x)
           n == Len(q)
<1>1. /\ n \in Nat /\ DOMAIN q = 1 .. n /\ DOMAIN r = 1 .. n + 1
      /\ r[n + 1] = x /\ \A i \in 1 .. n : r[i] = q[i]
  OBVIOUS
<1> HIDE DEF r, n
<1>2. \A i \in 1 .. n : i \in 1 .. n + 1 /\ i < n + 1
  BY <1>1
<1>3. InOrder(q, t, u) => InOrder(r, t, u)
  BY <1>1, <1>2 DEF InOrder
<1>4. InOrder(r, t, x)
  <2>1. PICK i \in 1 .. n : q[i] = t
    BY <1>1 DEF ToSet
  <2>2. n + 1 \in DOMAIN r
    BY <1>1
  <2> QED
    BY <1>1, <1>2, <2>1, <2>2 DEF InOrder
<1> QED
  BY <1>3, <1>4 DEF r

LEMMA ShiftDown ==
  ASSUME NEW n \in Nat, NEW i \in 2 .. n, NEW j \in 1 .. n, i < j
  PROVE  /\ i - 1 \in 1 .. n - 1 /\ j - 1 \in 1 .. n - 1 /\ i - 1 < j - 1
         /\ (i - 1) + 1 = i /\ (j - 1) + 1 = j
OBVIOUS

LEMMA TailOrder ==
  ASSUME NEW Elem, NEW q \in Seq(Elem), q # <<>>, NEW t, NEW u,
         InOrder(q, t, u), t # Head(q)
  PROVE  InOrder(Tail(q), t, u)
<1> DEFINE r == Tail(q)
           n == Len(q)
<1>1. /\ n \in Nat \ {0} /\ DOMAIN q = 1 .. n /\ DOMAIN r = 1 .. n - 1
      /\ Head(q) = q[1] /\ \A i \in 1 .. n - 1 : r[i] = q[i + 1]
  OBVIOUS
<1> HIDE DEF r, n
<1>2. PICK i \in DOMAIN q, j \in DOMAIN q : i < j /\ q[i] = t /\ q[j] = u
  BY DEF InOrder
<1>3. i # 1
  <2>1. q[i] # q[1]
    BY <1>1, <1>2
  <2> QED
    BY <2>1
<1>4. /\ i - 1 \in 1 .. n - 1 /\ j - 1 \in 1 .. n - 1 /\ i - 1 < j - 1
      /\ (i - 1) + 1 = i /\ (j - 1) + 1 = j
  <2>1. n \in Nat /\ i \in 2 .. n /\ j \in 1 .. n /\ i < j
    BY <1>1, <1>2, <1>3
  <2> QED
    BY <2>1, ShiftDown
<1>5. r[i - 1] = t /\ r[j - 1] = u
  BY <1>1, <1>2, <1>4
<1> QED
  BY <1>1, <1>4, <1>5 DEF InOrder, r

\* What a step does to the queue of s and to those that hold a permit of s.
QueueStays(s) ==
  /\ waiting'[s] = waiting[s]
  /\ \A u \in Tasks : Granted(u, s)' => Granted(u, s) \/ waiting[s] = <<>>

QueueGrows(s) ==
  \E v \in Tasks :
    /\ waiting'[s] = Append(waiting[s], v)
    /\ \A u \in Tasks : Granted(u, s)' => Granted(u, s)

QueueServes(s) ==
  /\ waiting[s] # <<>>
  /\ waiting'[s] = Tail(waiting[s])
  /\ \A u \in Tasks : Granted(u, s)' => Granted(u, s) \/ u = Head(waiting[s])

QueueEffect(s) == QueueStays(s) \/ QueueGrows(s) \/ QueueServes(s)

WaitLabels == {"wait_yield", "wait_return", "set_owner"}

\* Nobody begins to ask for s, and its queue is left alone.
LEMMA QueueUntouched ==
  ASSUME NEW s \in Sems, waiting'[s] = waiting[s],
         \A u \in Tasks : Asking(u, s)' => Asking(u, s)
  PROVE  QueueEffect(s)
BY DEF QueueEffect, QueueStays, Granted

\* The label and the object of one task at most have changed.
LEMMA QueueUnasked ==
  ASSUME RtosInv, NEW s \in Sems, NEW t \in Tasks, NEW label, Goto(t, label),
         \/ label \notin WaitLabels
         \/ pc[t] = "wait_yield" /\ obj'[t] = obj[t]
         \/ obj'[t] # s,
         \A u \in Tasks \ {t} : obj'[u] = obj[u]
  PROVE  \A u \in Tasks : Asking(u, s)' => Asking(u, s)
<1>1. pc'[t] = label /\ \A u \in Tasks \ {t} : pc'[u] = pc[u]
  BY KernelTypes DEF Goto
<1> QED
  BY <1>1 DEF Asking, WaitLabels

LEMMA KernelQueues ==
  ASSUME RtosInv, NEW s \in Sems, KernelStep PROVE QueueEffect(s)
<1>1. waiting'[s] = waiting[s] /\ UNCHANGED obj
  BY DEF KernelStep, semVars
<1>2. CASE Main \/ Handlers
  <2>1. UNCHANGED pc
    BY <1>2 DEF Main, Handlers, TaskCreate, OsStart, SysTick, PendSVEnter, PendSVSwitch, taskVars
  <2> QED
    BY <1>1, <2>1, QueueUntouched DEF Asking
<1>3. ASSUME NEW t \in Tasks, Yield(t) \/ \E ticks \in Delays : OsDelay(t, ticks)
      PROVE  QueueEffect(s)
  <2>1. PICK label \in {"app", "delay_yield"} : Goto(t, label)
    BY <1>3 DEF Yield, YieldFrom, OsDelay
  <2>2. label \notin WaitLabels
    BY DEF WaitLabels
  <2> QED
    BY <1>1, <2>1, <2>2, QueueUnasked, QueueUntouched
<1> QED
  BY <1>2, <1>3 DEF KernelStep

LEMMA QueuesOfOthers ==
  ASSUME RtosInv, NEW s \in Sems, NEW t \in Tasks,
         \/ WaitYield(t) \/ WaitReturn(t) \/ SetOwner(t)
         \/ \E m \in Mutexes : ReleaseTrap(t, m) \/ MutexRelease(t, m)
  PROVE  QueueEffect(s)
<1>1. obj \in [Tasks -> Sems \cup {NoSem}]
  BY DEF RtosInv, SemTypes
<1>2. waiting'[s] = waiting[s] /\ \A u \in Tasks \ {t} : obj'[u] = obj[u]
  BY <1>1 DEF WaitYield, WaitReturn, SetOwner, ReleaseTrap, MutexRelease, semVars
<1>3. CASE WaitYield(t)
  BY <1>2, <1>3, QueueUnasked, QueueUntouched DEF WaitYield, YieldFrom, At, semVars
<1>4. CASE WaitReturn(t) \/ SetOwner(t) \/ \E m \in Mutexes : ReleaseTrap(t, m) \/ MutexRelease(t, m)
  <2>1. PICK label \in {"app", "trap", "release_signal"} : Goto(t, label)
    BY <1>4 DEF WaitReturn, SetOwner, ReleaseTrap, MutexRelease
  <2>2. label \notin WaitLabels
    BY DEF WaitLabels
  <2> QED
    BY <1>2, <2>1, <2>2, QueueUnasked, QueueUntouched
<1> QED
  BY <1>3, <1>4

\* A permit is taken without queueing only while nobody waits.
LEMMA QueuesOfWait ==
  ASSUME RtosInv, NEW s \in Sems, NEW t \in Tasks, NEW o \in Sems,
         WaitFast(t, o) \/ WaitBlock(t, o)
  PROVE  QueueEffect(s)
<1>1. /\ obj \in [Tasks -> Sems \cup {NoSem}] /\ waiting \in [Sems -> Seq(Tasks)]
      /\ pc \in [Tasks -> RtosLabels]
  BY DEF RtosInv, SemTypes
<1>2. obj'[t] = o /\ \A u \in Tasks \ {t} : obj'[u] = obj[u]
  BY <1>1 DEF WaitFast, WaitBlock
<1>3. PICK label : Goto(t, label)
  BY DEF WaitFast, WaitBlock
<1>4. CASE o # s
  <2>1. waiting'[s] = waiting[s]
    BY <1>1, <1>4 DEF WaitFast, WaitBlock
  <2> QED
    BY <1>2, <1>3, <1>4, <2>1, QueueUnasked, QueueUntouched
<1>5. CASE o = s /\ WaitFast(t, o)
  <2>1. waiting[s] = <<>> /\ waiting'[s] = waiting[s]
    BY <1>5 DEF WaitFast, RtosInv, NoLostWakeup
  <2> QED
    BY <2>1 DEF QueueEffect, QueueStays
<1>6. CASE o = s /\ WaitBlock(t, o)
  <2>1. t = current
    BY <1>6 DEF WaitBlock, CallsWait, At, Executing
  <2>2. waiting'[s] = Append(waiting[s], t)
    BY <1>1, <1>6, <2>1 DEF WaitBlock
  <2>3. ToSet(waiting'[s]) = ToSet(waiting[s]) \cup {t}
    BY <1>1, <2>2, AppendFacts
  <2>4. \A u \in Tasks \ {t} : pc'[u] = pc[u]
    BY <1>1, <1>3 DEF Goto
  <2>5. \A u \in Tasks : Granted(u, s)' => Granted(u, s)
    BY <1>2, <2>3, <2>4 DEF Granted, Asking
  <2> QED
    BY <2>2, <2>5 DEF QueueEffect, QueueGrows
<1> QED
  BY <1>4, <1>5, <1>6

\* A signal serves the head of the queue, from a task or an interrupt.
LEMMA QueuesOfSignal ==
  ASSUME RtosInv, NEW s \in Sems, NEW o \in Sems, HandOff(o) \/ Post(o),
         \A u \in Tasks : Asking(u, s)' => Asking(u, s)
  PROVE  QueueEffect(s)
<1>1. waiting \in [Sems -> Seq(Tasks)] /\ Once(waiting[s])
  BY DEF RtosInv, SemTypes, QueueInv
<1>2. CASE o = s /\ HandOff(o)
  <2>1. waiting[s] # <<>> /\ waiting'[s] = Tail(waiting[s])
    BY <1>1, <1>2 DEF HandOff
  <2>2. ToSet(waiting'[s]) = ToSet(waiting[s]) \ {Head(waiting[s])}
    BY <1>1, <2>1, TailFacts
  <2> QED
    BY <2>1, <2>2 DEF QueueEffect, QueueServes, Granted
<1>3. CASE o # s \/ Post(o)
  <2>1. waiting'[s] = waiting[s]
    BY <1>1, <1>3 DEF HandOff, Post
  <2> QED
    BY <2>1, QueueUntouched
<1> QED
  BY <1>2, <1>3

LEMMA QueueStep ==
  ASSUME RtosInv, [Next]_vars, NEW s \in Sems PROVE QueueEffect(s)
<1>1. ASSUME NEW t \in Tasks, NEW o \in Sems, Signal(t, o)
      PROVE  QueueEffect(s)
  <2>1. PICK label \in {"app", "signal_yield"} : Goto(t, label)
    BY <1>1 DEF Signal
  <2>2. label \notin WaitLabels
    BY DEF WaitLabels
  <2>3. \A u \in Tasks \ {t} : obj'[u] = obj[u]
    BY <1>1 DEF Signal, RtosInv, SemTypes
  <2> QED
    BY <1>1, <2>1, <2>2, <2>3, QueueUnasked, QueuesOfSignal DEF Signal
<1>2. ASSUME NEW o \in IsrSems, IsrSignal(o)
      PROVE  QueueEffect(s)
  <2>1. o \in Sems
    BY RtosAssumption DEF RtosAssumption
  <2>2. UNCHANGED <<pc, obj>> /\ (HandOff(o) \/ Post(o))
    BY <1>2 DEF IsrSignal
  <2> QED
    BY <2>1, <2>2, QueuesOfSignal DEF Asking
<1>3. CASE UNCHANGED vars
  BY <1>3, QueueUntouched DEF vars, kernelVars, taskVars, semVars, Asking
<1> QED
  BY <1>1, <1>2, <1>3, KernelQueues, QueuesOfOthers, QueuesOfWait DEF Next, SemStep

\* semaphore.c, "Dequeue the longest-waiting task (FIFO)": whoever comes
\* behind a waiting task stays behind it until that task is served, whatever
\* signals from tasks and interrupts, hand-offs and ticks come in between.
THEOREM ServiceIsFifo ==
  ASSUME HasIdleTask, ShortDelays
  PROVE  Spec => FirstComeFirstServed
<1> DEFINE Behind == \A s \in Sems, t, u \in Tasks :
             WaitsAhead(t, u, s) /\ t \in ToSet(waiting'[s]) => WaitsAhead(t, u, s)'
<1>1. RtosInv /\ [Next]_vars => [Behind]_vars
  <2> SUFFICES ASSUME RtosInv, [Next]_vars, NEW s \in Sems, NEW t \in Tasks, NEW u \in Tasks,
                      WaitsAhead(t, u, s), t \in ToSet(waiting'[s])
               PROVE  WaitsAhead(t, u, s)'
    OBVIOUS
  <2> DEFINE q == waiting[s]
             r == waiting'[s]
  <2>1. q \in Seq(Tasks) /\ Once(q)
    BY DEF RtosInv, SemTypes, QueueInv
  <2>2. t \in ToSet(q) /\ (u \in ToSet(q) => InOrder(q, t, u)) /\ ~Granted(u, s)
    BY DEF WaitsAhead, InOrder
  <2>3. q # <<>>
    BY <2>2 DEF ToSet
  <2> SUFFICES (u \in ToSet(r) => InOrder(r, t, u)) /\ ~Granted(u, s)'
    BY DEF WaitsAhead, InOrder
  <2>4. QueueEffect(s)
    BY QueueStep
  <2> HIDE DEF q, r
  <2>5. CASE QueueStays(s)
    BY <2>2, <2>3, <2>5 DEF QueueStays, q, r
  <2>6. CASE QueueGrows(s)
    <3>1. PICK v \in Tasks : r = Append(q, v)
      BY <2>6 DEF QueueGrows, q, r
    <3>2. ToSet(r) = ToSet(q) \cup {v}
      BY <2>1, <3>1, AppendFacts
    <3>3. u \in ToSet(r) => InOrder(r, t, u)
      BY <2>1, <2>2, <3>1, <3>2, AppendOrder
    <3> QED
      BY <2>2, <2>6, <3>3 DEF QueueGrows
  <2>7. CASE QueueServes(s)
    <3>1. r = Tail(q)
      BY <2>7 DEF QueueServes, q, r
    <3>2. ToSet(r) = ToSet(q) \ {Head(q)} /\ Head(q) \in ToSet(q)
      BY <2>1, <2>3, <3>1, TailFacts
    <3>3. t # Head(q)
      BY <3>2 DEF r
    <3>4. u \in ToSet(r) => InOrder(r, t, u)
      BY <2>1, <2>2, <2>3, <3>1, <3>2, <3>3, TailOrder
    <3>5. u # Head(q)
      <4> SUFFICES ASSUME u = Head(q)
                   PROVE  FALSE
        OBVIOUS
      <4>1. InOrder(q, t, Head(q))
        BY <2>2, <3>2
      <4>2. PICK i \in DOMAIN q, j \in DOMAIN q : i < j /\ q[i] = t /\ q[j] = Head(q)
        BY <4>1 DEF InOrder
      <4>3. DOMAIN q = 1 .. Len(q) /\ Len(q) \in Nat /\ Head(q) = q[1] /\ 1 \in DOMAIN q
        BY <2>1, <2>3
      <4>4. j = 1
        BY <2>1, <4>2, <4>3 DEF Once
      <4> QED
        BY <4>2, <4>3, <4>4
    <3> QED
      BY <2>2, <2>7, <3>4, <3>5 DEF QueueServes, q
  <2> QED
    BY <2>4, <2>5, <2>6, <2>7 DEF QueueEffect
<1>2. Spec => [][Behind]_vars
  BY <1>1, RtosInvariance, PTL DEF Spec
<1> QED
  BY <1>2 DEF FirstComeFirstServed
-----------------------------------------------------------------------------
(* The trap of osMutexRelease()                                            *)

TrapInv == \A t \in Tasks : pc[t] = "trap" => state[t] \in {"READY", "RUNNING"}

LEMMA TrapStep == ASSUME RtosInv, RtosInv', TrapInv, [Next]_vars PROVE TrapInv'
<1> SUFFICES ASSUME NEW t \in Tasks, pc'[t] = "trap"
             PROVE  state'[t] \in {"READY", "RUNNING"}
  BY DEF TrapInv
<1>1. /\ pc \in [Tasks -> RtosLabels] /\ state \in [Tasks -> TaskState]
      /\ state'[t] \in TaskState /\ current \in Tasks
  BY KernelTypes DEF RtosInv, KP!KernelInv, KP!BaseInv, KP!TypeOK, KP!Tasks, Tasks,
                     KP!TaskState, TaskState
<1>2. CASE Main \/ Handlers
  <2>1. pc[t] = "trap"
    BY <1>2 DEF Main, Handlers, TaskCreate, OsStart, SysTick, PendSVEnter, PendSVSwitch, taskVars
  <2>2. state[t] # "BLOCKED" /\ state[t] # "SLEEPING"
    BY <2>1 DEF TrapInv
  <2> QED
    BY <1>1, <1>2, <2>2, HandlersKeepWaits DEF TaskState
<1>3. ASSUME NEW u \in Tasks, NEW m \in Mutexes, ReleaseTrap(u, m)
      PROVE  state'[t] \in {"READY", "RUNNING"}
  <2>1. state[u] = "RUNNING" /\ UNCHANGED state
    BY <1>3, CallerFacts DEF ReleaseTrap, CallsRelease, FreeLabels
  <2>2. t # u => pc[t] = "trap"
    BY <1>1, <1>3 DEF ReleaseTrap, Goto
  <2> QED
    BY <2>1, <2>2 DEF TrapInv
<1>4. ASSUME NEW u \in Tasks, NEW label \in RtosLabels \ {"trap"}, Goto(u, label),
             state'[t] \in {state[t], "READY"} \/ t = u
      PROVE  state'[t] \in {"READY", "RUNNING"}
  <2>1. t # u /\ pc[t] = "trap"
    BY <1>1, <1>4 DEF Goto
  <2> QED
    BY <1>4, <2>1 DEF TrapInv
<1>5. ASSUME NEW u \in Tasks, Yield(u) \/ \E ticks \in Delays : OsDelay(u, ticks)
      PROVE  state'[t] \in {"READY", "RUNNING"}
  BY <1>1, <1>4, <1>5 DEF Yield, YieldFrom, OsDelay, RtosLabels
<1>6. ASSUME NEW u \in Tasks, WaitYield(u) \/ WaitReturn(u) \/ SetOwner(u)
      PROVE  state'[t] \in {"READY", "RUNNING"}
  BY <1>4, <1>6 DEF WaitYield, YieldFrom, AfterWait, WaitReturn, SetOwner, RtosLabels
<1>7. ASSUME NEW u \in Tasks, NEW s \in Sems, WaitFast(u, s) \/ WaitBlock(u, s)
      PROVE  state'[t] \in {"READY", "RUNNING"}
  BY <1>1, <1>4, <1>7
  DEF WaitFast, WaitBlock, CallsWait, At, Executing, AfterWait, RtosLabels
<1>8. ASSUME NEW s \in Sems, HandOff(s) \/ Post(s)
      PROVE  state'[t] \in {state[t], "READY"}
  BY <1>1, <1>8 DEF HandOff, Post
<1>9. ASSUME NEW u \in Tasks, NEW s \in Sems, Signal(u, s)
      PROVE  state'[t] \in {"READY", "RUNNING"}
  BY <1>4, <1>8, <1>9 DEF Signal, RtosLabels
<1>10. ASSUME NEW s \in IsrSems, IsrSignal(s)
       PROVE  state'[t] \in {"READY", "RUNNING"}
  <2>1. s \in Sems /\ pc[t] = "trap"
    BY <1>10, RtosAssumption DEF RtosAssumption, IsrSignal
  <2> QED
    BY <1>8, <1>10, <2>1 DEF IsrSignal, TrapInv
<1>11. ASSUME NEW u \in Tasks, NEW m \in Mutexes, MutexRelease(u, m)
       PROVE  state'[t] \in {"READY", "RUNNING"}
  BY <1>4, <1>11 DEF MutexRelease, RtosLabels
<1>12. CASE UNCHANGED vars
  BY <1>12 DEF vars, kernelVars, taskVars, TrapInv
<1> QED
  BY <1>2, <1>3, <1>5, <1>6, <1>7, <1>9, <1>10, <1>11, <1>12
  DEF Next, KernelStep, SemStep

\* While a task spins in the trap of osMutexRelease(), no task of a lower
\* priority executes its own code.
THEOREM TrapIsContained ==
  ASSUME HasIdleTask, ShortDelays
  PROVE  Spec => []TrapStopsLower
<1>1. Init => TrapInv
  BY DEF Init, KernelInit, TrapInv
<1>2. RtosInv /\ TrapInv => TrapStopsLower
  <2> SUFFICES ASSUME RtosInv, TrapInv, NEW t \in Tasks, NEW u \in Tasks,
                      pc[t] = "trap", At(u, "app")
               PROVE  Priority[t] <= Priority[u]
    BY DEF TrapStopsLower
  <2>1. KP!Executing(u) /\ KernelPc[u] = "app" /\ u = current
    BY SameTasks, CallerFacts DEF FreeLabels, At
  <2>2. CASE state[t] = "READY"
    BY <2>1, <2>2, SameTasks DEF RtosInv, KP!KernelInv, KP!HighestPriorityRuns
  <2>3. CASE state[t] = "RUNNING"
    <3>1. t = u
      BY <2>1, <2>3, SameTasks DEF RtosInv, KP!KernelInv, KP!BaseInv, KP!OnlyCurrentRuns
    <3> QED
      BY <3>1 DEF At
  <2> QED
    BY <2>2, <2>3 DEF TrapInv
<1> QED
  BY <1>1, <1>2, TrapStep, RtosInvariance, PTL DEF Spec
=============================================================================
