-------------------------- MODULE SchedulerProofs ---------------------------
(***************************************************************************)
(* The loops of os_schedule() compute AfterSchedule for every task table.  *)
(* The inductive invariant says, per phase, what the loop counter has      *)
(* already covered.                                                        *)
(***************************************************************************)
EXTENDS Scheduler, TaskPoolProofs

\* max_prio is the highest priority of the READY tasks among the first k.
HighestOf(k) ==
  /\ \E t \in 0 .. k - 1 : state[t] = "READY" /\ Priority[t] = max_prio
  /\ \A t \in 0 .. k - 1 : state[t] = "READY" => Priority[t] <= max_prio

NoneReadyIn(k) == \A t \in 0 .. k - 1 : state[t] # "READY"

AtEntry == state = entry.state /\ current = entry.current

Released == state = Release(entry.state, entry.current) /\ current = entry.current

Inv ==
  /\ TypeOK
  /\ phase = "release" => AtEntry
  /\ phase \in {"pass1", "pass2", "fallback"} => Released
  /\ phase = "pass1" =>
       /\ i \in 0 .. NTasks
       /\ IF any_ready THEN HighestOf(i) ELSE NoneReadyIn(i)
  /\ phase = "pass2" =>
       /\ i \in 1 .. NTasks
       /\ HighestOf(NTasks)
       /\ \A j \in 1 .. i - 1 : Slot(current, j, NTasks) \notin Top(state, NTasks)
  /\ phase = "fallback" => NoneReadyIn(NTasks)
  /\ LoopsMeetPolicy
-----------------------------------------------------------------------------
LEMMA ConstantTypes ==
  /\ NTasks \in Nat \ {0}
  /\ NTasks \in 1 .. NTasks
  /\ NTasks - 1 \in Tasks
  /\ Tasks = 0 .. NTasks - 1
  /\ \A t \in Tasks : Priority[t] \in 0 .. 255
BY PoolAssumption DEF PoolAssumption, MAX_TASKS, Tasks

\* Comparisons of two uint8_t priorities.
LEMMA ByteOrder ==
  \A a, b, c \in 0 .. 255 :
    /\ ~(a > b) <=> a <= b
    /\ a <= b /\ c > b => a <= c
    /\ a <= b /\ b <= a => a = b
OBVIOUS

LEMMA ReleaseType ==
  ASSUME NEW st \in [Tasks -> TaskState], NEW cur \in Tasks
  PROVE  Release(st, cur) \in [Tasks -> TaskState]
BY DEF Release, TaskState

\* When pass 1 is through, Top is the level it found.
LEMMA TopIsLevel ==
  ASSUME state \in [Tasks -> TaskState], max_prio \in 0 .. 255, HighestOf(NTasks)
  PROVE  Top(state, NTasks)
           = {t \in Tasks : state[t] = "READY" /\ Priority[t] = max_prio}
<1>1. PICK m \in Tasks : state[m] = "READY" /\ Priority[m] = max_prio
  BY ConstantTypes DEF HighestOf
<1>2. \A t \in Ready(state, NTasks) : t \in Tasks /\ Priority[t] <= max_prio
  BY ConstantTypes DEF HighestOf, Ready
<1>3. m \in Ready(state, NTasks)
  BY <1>1, ConstantTypes DEF Ready
<1>4. ASSUME NEW t \in Top(state, NTasks)
      PROVE  t \in Tasks /\ state[t] = "READY" /\ Priority[t] = max_prio
  <2>1. t \in Ready(state, NTasks) /\ Priority[m] <= Priority[t]
    BY <1>3 DEF Top
  <2>2. t \in Tasks /\ state[t] = "READY" /\ Priority[t] <= max_prio
    BY <1>2, <2>1 DEF Ready
  <2>3. Priority[t] \in 0 .. 255
    BY <2>2, ConstantTypes
  <2> QED
    BY <1>1, <2>1, <2>2, <2>3, ByteOrder
<1>5. ASSUME NEW t \in Tasks, state[t] = "READY", Priority[t] = max_prio
      PROVE  t \in Top(state, NTasks)
  BY <1>2, <1>5, ConstantTypes DEF Top, Ready
<1> QED
  BY <1>4, <1>5
-----------------------------------------------------------------------------
LEMMA InitInv == Init => Inv
<1> SUFFICES ASSUME Init PROVE Inv
  OBVIOUS
<1>1. TypeOK
  <2>1. 0 \in 0 .. NTasks + 1 /\ 0 \in 0 .. 255
    BY ConstantTypes
  <2>2. state \in [Tasks -> TaskState] /\ current \in Tasks
    BY ConstantTypes DEF Init, TaskState
  <2> QED
    BY <2>1, <2>2 DEF Init, TypeOK, Phases
<1> QED
  BY <1>1 DEF Init, Inv, LoopsMeetPolicy

LEMMA CallInv == ASSUME Inv, Call PROVE Inv'
<1>1. TypeOK'
  BY DEF Inv, Call, TypeOK, Pools, Phases
<1> QED
  BY <1>1 DEF Inv, Call, AtEntry, LoopsMeetPolicy

LEMMA ReleaseInv == ASSUME Inv, ReleaseOutgoing PROVE Inv'
<1>1. TypeOK'
  <2>1. 0 \in 0 .. NTasks + 1 /\ 0 \in 0 .. 255
    BY ConstantTypes
  <2>2. state' \in [Tasks -> TaskState]
    BY ReleaseType DEF Inv, ReleaseOutgoing, TypeOK
  <2> QED
    BY <2>1, <2>2 DEF Inv, ReleaseOutgoing, TypeOK, Phases
<1>2. Released'
  BY DEF Inv, ReleaseOutgoing, AtEntry, Released
<1>3. NoneReadyIn(0)' /\ 0 \in 0 .. NTasks
  BY ConstantTypes DEF NoneReadyIn
<1> QED
  BY <1>1, <1>2, <1>3 DEF Inv, ReleaseOutgoing, LoopsMeetPolicy

\* One iteration of pass 1 extends the scanned prefix by slot i.
LEMMA ScanPriorityInv == ASSUME Inv, ScanPriority PROVE Inv'
<1>1. /\ i \in Tasks
      /\ i' = i + 1
      /\ UNCHANGED <<phase, state, current, entry>>
      /\ phase = "pass1"
  BY ConstantTypes DEF Inv, ScanPriority, TypeOK
<1>2. TypeOK'
  <2>1. i' \in 0 .. NTasks + 1
    BY <1>1, ConstantTypes
  <2>2. Priority[i] \in 0 .. 255
    BY <1>1, ConstantTypes
  <2>3. max_prio' \in 0 .. 255 /\ any_ready' \in BOOLEAN
    BY <2>2 DEF Inv, ScanPriority, TypeOK
  <2> QED
    BY <1>1, <2>1, <2>3 DEF Inv, TypeOK
<1>3. 0 .. i' - 1 = (0 .. i - 1) \cup {i}
  BY <1>1, ConstantTypes
<1>4. IF any_ready' THEN HighestOf(i)' ELSE NoneReadyIn(i)'
  <2>1. Priority[i] \in 0 .. 255 /\ max_prio \in 0 .. 255
    BY <1>1, ConstantTypes DEF Inv, TypeOK
  <2>2. \A t \in 0 .. i - 1 : Priority[t] \in 0 .. 255
    BY <1>1, ConstantTypes
  <2>3. IF any_ready THEN HighestOf(i) ELSE NoneReadyIn(i)
    BY <1>1 DEF Inv
  <2>4. CASE state[i] = "READY" /\ (~any_ready \/ Priority[i] > max_prio)
    <3>1. max_prio' = Priority[i] /\ any_ready'
      BY <2>4 DEF ScanPriority
    <3>2. \A t \in 0 .. i - 1 : state[t] = "READY" => Priority[t] <= Priority[i]
      <4>1. CASE any_ready
        <5> SUFFICES ASSUME NEW t \in 0 .. i - 1, state[t] = "READY"
                     PROVE  Priority[t] <= Priority[i]
          OBVIOUS
        <5>1. Priority[i] > max_prio
          BY <2>4, <4>1
        <5>2. Priority[t] <= max_prio /\ Priority[t] \in 0 .. 255
          BY <2>2, <2>3, <4>1 DEF HighestOf
        <5> QED
          BY <2>1, <5>1, <5>2, ByteOrder
      <4>2. CASE ~any_ready
        BY <2>3, <4>2 DEF NoneReadyIn
      <4> QED
        BY <4>1, <4>2
    <3> QED
      <4>1. \E t \in 0 .. i' - 1 : state'[t] = "READY" /\ Priority[t] = max_prio'
        BY <1>1, <1>3, <2>4, <3>1
      <4>2. \A t \in 0 .. i' - 1 : state'[t] = "READY" => Priority[t] <= max_prio'
        BY <1>1, <1>3, <2>1, <3>1, <3>2
      <4> QED
        BY <3>1, <4>1, <4>2 DEF HighestOf
  <2>5. CASE ~(state[i] = "READY" /\ (~any_ready \/ Priority[i] > max_prio))
    <3>1. UNCHANGED <<max_prio, any_ready>>
      BY <2>5 DEF ScanPriority
    <3>2. state[i] = "READY" => any_ready /\ Priority[i] <= max_prio
      BY <2>1, <2>5, ByteOrder
    <3> QED
      BY <1>1, <1>3, <2>3, <3>1, <3>2 DEF HighestOf, NoneReadyIn
  <2> QED
    BY <2>4, <2>5
<1>5. i' \in 0 .. NTasks
  BY <1>1, ConstantTypes
<1>6. Released'
  BY <1>1 DEF Inv, Released
<1> QED
  BY <1>1, <1>2, <1>4, <1>5, <1>6 DEF Inv, LoopsMeetPolicy

LEMMA StartPass2Inv == ASSUME Inv, StartPass2 PROVE Inv'
<1>1. TypeOK'
  BY ConstantTypes DEF Inv, StartPass2, TypeOK, Phases
<1>2. /\ phase = "pass1" /\ i = NTasks /\ i' = 1
      /\ phase' = IF any_ready THEN "pass2" ELSE "fallback"
      /\ UNCHANGED <<state, current, max_prio, any_ready, entry>>
  BY DEF StartPass2
<1>3. Released'
  BY <1>2 DEF Inv, Released
<1>4. IF any_ready THEN HighestOf(NTasks)' ELSE NoneReadyIn(NTasks)'
  BY <1>2 DEF Inv, HighestOf, NoneReadyIn
<1>5. 1 \in 1 .. NTasks /\ 1 .. 1 - 1 = {}
  BY ConstantTypes
<1> QED
  BY <1>1, <1>2, <1>3, <1>4, <1>5 DEF Inv, LoopsMeetPolicy

\* One iteration of pass 2: a hit is the first hit; a miss is never the last.
LEMMA SelectSlotInv == ASSUME Inv, SelectSlot PROVE Inv'
<1> DEFINE idx == Slot(current, i, NTasks)
<1>1. /\ phase = "pass2"
      /\ i \in 1 .. NTasks
      /\ current \in Tasks
      /\ UNCHANGED <<max_prio, any_ready, entry>>
  BY DEF Inv, SelectSlot, TypeOK
<1>2. idx \in Tasks
  BY <1>1, ConstantTypes, SlotValue
<1>3. Released /\ HighestOf(NTasks)
  BY <1>1 DEF Inv
<1>4. Top(state, NTasks)
        = {t \in Tasks : state[t] = "READY" /\ Priority[t] = max_prio}
  BY <1>3, TopIsLevel DEF Inv, TypeOK
<1>5. \A j \in 1 .. i - 1 : Slot(current, j, NTasks) \notin Top(state, NTasks)
  BY <1>1 DEF Inv
<1>6. CASE state[idx] = "READY" /\ Priority[idx] = max_prio
  <2>1. /\ current' = idx
        /\ state' = [state EXCEPT ![idx] = "RUNNING"]
        /\ phase' = "done"
        /\ i' = i
    BY <1>6 DEF SelectSlot
  <2>2. TypeOK'
    BY <1>1, <1>2, <2>1 DEF Inv, TypeOK, TaskState, Phases
  <2>3. idx \in Top(state, NTasks)
    BY <1>2, <1>4, <1>6
  <2>4. FirstHit(state, current, NTasks) = i
    BY <1>1, <1>5, <2>3, ConstantTypes, PoolAssumption, FirstHitUnique
  <2>5. NextTask(state, current, NTasks) = idx
    BY <2>4 DEF NextTask
  <2>6. Ready(state, NTasks) # {}
    BY <2>3 DEF Top
  <2>7. LoopsMeetPolicy'
    BY <1>1, <1>3, <2>1, <2>5, <2>6 DEF LoopsMeetPolicy, AfterSchedule, Released
  <2> QED
    BY <2>1, <2>2, <2>7 DEF Inv
<1>7. CASE ~(state[idx] = "READY" /\ Priority[idx] = max_prio)
  <2>1. /\ phase' = IF i = NTasks THEN "fallback" ELSE "pass2"
        /\ i' = i + 1
        /\ UNCHANGED <<current, state>>
    BY <1>7 DEF SelectSlot
  <2>2. idx \notin Top(state, NTasks)
    BY <1>4, <1>7
  <2>3. \A j \in 1 .. i : Slot(current, j, NTasks) \notin Top(state, NTasks)
    BY <1>1, <1>5, <2>2, ConstantTypes
  <2>4. i # NTasks
    <3> SUFFICES ASSUME i = NTasks PROVE FALSE
      OBVIOUS
    <3>1. PICK t \in Tasks : t \in Top(state, NTasks)
      BY <1>3, <1>4, ConstantTypes DEF HighestOf
    <3>2. PICK j \in 1 .. NTasks : Slot(current, j, NTasks) = t
      BY <1>1, ConstantTypes, EverySlotScanned
    <3> QED
      BY <2>3, <3>1, <3>2
  <2>5. i' \in 1 .. NTasks /\ i' - 1 = i
    BY <1>1, <2>1, <2>4, ConstantTypes
  <2>6. TypeOK'
    BY <1>1, <2>1, <2>5, ConstantTypes DEF Inv, TypeOK, Phases
  <2>7. Released' /\ HighestOf(NTasks)'
    BY <1>1, <1>3, <2>1 DEF Released, HighestOf
  <2>8. \A j \in 1 .. i' - 1 : Slot(current', j, NTasks) \notin Top(state', NTasks)
    BY <2>1, <2>3, <2>5
  <2>9. phase' = "pass2"
    BY <2>1, <2>4
  <2> QED
    BY <2>5, <2>6, <2>7, <2>8, <2>9 DEF Inv, LoopsMeetPolicy
<1> QED
  BY <1>6, <1>7

LEMMA FallbackInv == ASSUME Inv, Fallback PROVE Inv'
<1>1. /\ phase = "fallback" /\ phase' = "done"
      /\ Released /\ NoneReadyIn(NTasks) /\ current \in Tasks
      /\ UNCHANGED <<current, i, max_prio, any_ready, entry>>
  BY DEF Inv, Fallback, TypeOK
<1>2. state' = state
  BY <1>1, ConstantTypes DEF Fallback, NoneReadyIn
<1>3. TypeOK'
  BY <1>1, <1>2 DEF Inv, TypeOK, Phases
<1>4. Ready(state, NTasks) = {}
  BY <1>1 DEF NoneReadyIn, Ready
<1>5. LoopsMeetPolicy'
  BY <1>1, <1>2, <1>4 DEF LoopsMeetPolicy, AfterSchedule, Released
<1> QED
  BY <1>1, <1>3, <1>5 DEF Inv

LEMMA StutterInv == ASSUME Inv, UNCHANGED vars PROVE Inv'
BY DEF Inv, vars, TypeOK, AtEntry, Released, HighestOf, NoneReadyIn, LoopsMeetPolicy

LEMMA Invariance == Spec => []Inv
<1>1. Init => Inv
  BY InitInv
<1>2. Inv /\ [Next]_vars => Inv'
  BY CallInv, ReleaseInv, ScanPriorityInv, StartPass2Inv, SelectSlotInv,
     FallbackInv, StutterInv DEF Next
<1> QED
  BY <1>1, <1>2, PTL DEF Spec

\* The variables of os_schedule() stay in their ranges; in particular the
\* loop counter stays a slot number or one past it.
THEOREM TypeCorrect == Spec => []TypeOK
<1>1. Inv => TypeOK
  BY DEF Inv
<1> QED
  BY <1>1, Invariance, PTL

\* The two passes of os_schedule() choose the READY task of the highest
\* priority that comes first after the outgoing one, for every number of
\* tasks and every assignment of priorities.
THEOREM PolicyCorrect == Spec => []LoopsMeetPolicy
<1>1. Inv => LoopsMeetPolicy
  BY DEF Inv
<1> QED
  BY <1>1, Invariance, PTL

\* The code behind the loops is reached only when no task is READY.
THEOREM FallbackCorrect == Spec => []FallbackOnlyWhenNoneReady
<1>1. Inv => FallbackOnlyWhenNoneReady
  BY DEF Inv, FallbackOnlyWhenNoneReady, NoneReadyIn, Ready
<1> QED
  BY <1>1, Invariance, PTL
=============================================================================
