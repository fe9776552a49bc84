------------------------ MODULE ContextSwitchProofs -------------------------
(***************************************************************************)
(* The context switch for any number of tasks, any stack size and anything *)
(* that thread code computes.  Geometry says where PSP, R0 and the saved   *)
(* stack pointers are at each instruction group; with it, no write leaves  *)
(* the stack of the task on the CPU.                                       *)
(***************************************************************************)
EXTENDS ContextSwitch, TLAPS

Saving == {"save_low", "move_high", "save_high"}

\* A frame of t at sp lies inside the stack of t.
Parked(t, sp) == sp \in Base(t) .. Top(t) - Frame

Geometry ==
  /\ pc = "create" => current = 0 /\ ~rtos_started
  /\ pc = "spin" => psp = DummyTop /\ ~rtos_started
  /\ pc = "entered" /\ ~rtos_started => psp = 0
  /\ pc \notin {"create", "spin", "entered", "halt"} => rtos_started
  /\ pc \in {"spin", "entered"} \/ rtos_started => current < task_count
  /\ task_count > 0 => StackBlocks >= Frame
  /\ \A t \in Tasks : t < task_count => Parked(t, saved_sp[t])
  /\ pc = "thread" => psp \in Base(current) + Frame .. Top(current)
  /\ pc \in {"entered"} \cup Saving /\ rtos_started => Parked(current, psp - 2)
  /\ pc \in {"move_high", "save_high"} => r0 = psp - 1
  /\ pc \in {"move_back", "load_low"} => r0 = saved_sp[current] + 2
  /\ pc = "set_psp" => r0 = saved_sp[current] + 1
  /\ pc = "return" => psp = saved_sp[current] + 2

CoreInv == TypeOK /\ Geometry
-----------------------------------------------------------------------------
(* Where the stacks are                                                    *)

LEMMA Multiples ==
  ASSUME NEW m \in Nat, NEW n \in Nat, m < n, NEW k \in Nat
  PROVE  m * k \in Nat /\ n * k \in Nat /\ m * k + k <= n * k
<1> DEFINE d == n - m - 1
<1>1. d \in Nat /\ n = m + 1 + d
  OBVIOUS
<1> HIDE DEF d
<1>2. n * k = m * k + k + d * k
  BY <1>1
<1>3. d * k \in Nat /\ m * k \in Nat
  BY <1>1
<1> QED
  BY <1>2, <1>3

LEMMA StackBounds ==
  /\ StackBlocks \in Nat
  /\ DummyTop = 2 /\ Frame = 4
  /\ 0 \in Tasks /\ Tasks \subseteq Nat
  /\ MAX_TASKS \in Nat /\ \A t \in Nat : t < MAX_TASKS => t \in Tasks
  /\ 0 \in Address /\ 1 \in Address
  /\ \A t \in Tasks :
       /\ Base(t) \in Nat /\ Top(t) = Base(t) + StackBlocks /\ Top(t) \in Nat
       /\ DummyTop <= Base(t)
       /\ StackOf(t) = Base(t) .. Top(t) - 1
       /\ \A a \in Int : Base(t) <= a /\ a < Top(t) => a \in Address
<1>1. StackBlocks \in Nat /\ MAX_TASKS \in Nat \ {0} /\ MAX_TASKS * StackBlocks \in Nat
  BY ContextAssumption DEF ContextAssumption
<1>2. ASSUME NEW t \in Tasks
      PROVE  /\ Base(t) \in Nat /\ Top(t) = Base(t) + StackBlocks /\ Top(t) \in Nat
             /\ DummyTop <= Base(t)
             /\ StackOf(t) = Base(t) .. Top(t) - 1
             /\ \A a \in Int : Base(t) <= a /\ a < Top(t) => a \in Address
  <2>1. t \in Nat /\ t < MAX_TASKS
    BY <1>1 DEF Tasks
  <2>2. t * StackBlocks \in Nat /\ t * StackBlocks + StackBlocks <= MAX_TASKS * StackBlocks
    BY <1>1, <2>1, Multiples
  <2> QED
    BY <1>1, <2>2 DEF Base, Top, StackOf, DummyTop, Address
<1>3. 0 \in Tasks /\ Tasks \subseteq Nat /\ \A t \in Nat : t < MAX_TASKS => t \in Tasks
  BY <1>1 DEF Tasks
<1>4. 0 \in Address /\ 1 \in Address
  BY <1>1 DEF Address, DummyTop
<1> QED
  BY <1>1, <1>2, <1>3, <1>4 DEF DummyTop, Frame

LEMMA StacksApart ==
  ASSUME NEW t \in Tasks, NEW u \in Tasks, t # u
  PROVE  Top(t) <= Base(u) \/ Top(u) <= Base(t)
<1>1. t \in Nat /\ u \in Nat /\ StackBlocks \in Nat
  BY StackBounds
<1>2. CASE t < u
  <2>1. t * StackBlocks + StackBlocks <= u * StackBlocks
    BY <1>1, <1>2, Multiples
  <2>2. t * StackBlocks \in Nat /\ u * StackBlocks \in Nat
    BY <1>1
  <2> QED
    BY <1>1, <2>1, <2>2 DEF Base, Top, DummyTop
<1>3. CASE u < t
  <2>1. u * StackBlocks + StackBlocks <= t * StackBlocks
    BY <1>1, <1>3, Multiples
  <2>2. t * StackBlocks \in Nat /\ u * StackBlocks \in Nat
    BY <1>1
  <2> QED
    BY <1>1, <2>1, <2>2 DEF Base, Top, DummyTop
<1> QED
  BY <1>1, <1>2, <1>3

LEMMA InStack ==
  ASSUME NEW t \in Tasks
  PROVE  /\ Base(t) \in Nat /\ Top(t) \in Nat /\ Frame = 4 /\ DummyTop = 2
         /\ \A a \in Int : Base(t) <= a /\ a < Top(t)
              => a \in Address /\ a \in StackOf(t) /\ a \in Nat
BY StackBounds

\* The four blocks of a saved frame.
LEMMA FrameInStack ==
  ASSUME NEW t \in Tasks, NEW sp \in Int, Parked(t, sp)
  PROVE  /\ sp \in Nat /\ Base(t) \in Nat /\ Top(t) \in Nat
         /\ Base(t) <= sp /\ sp + 4 <= Top(t)
         /\ \A a \in {sp, sp + 1, sp + 2, sp + 3} : a \in Address /\ a \in StackOf(t)
<1>1. /\ Base(t) \in Nat /\ Top(t) \in Nat /\ Base(t) <= sp /\ sp + 4 <= Top(t)
  BY InStack DEF Parked
<1> QED
  BY <1>1, InStack

LEMMA Values ==
  /\ Junk \in Value /\ Zero \in Value /\ Sentinel \in Value
  /\ \A t \in Tasks : Entry(t) \in Value
  /\ \A r \in Registers, t \in Tasks, v \in Versions : <<r, t, v>> \in Value
BY DEF Value

LEMMA RegisterNames == Registers = {"low", "high", "args", "ctl"}
BY DEF Registers
-----------------------------------------------------------------------------
(* Types and geometry are invariant                                        *)

LEMMA InitCore == Init => CoreInv
<1> SUFFICES ASSUME Init
             PROVE  CoreInv
  OBVIOUS
<1>1. /\ reg \in [Registers -> Value] /\ mem \in [Address -> Value]
      /\ saved_sp \in [Tasks -> Address]
  BY StackBounds, Values DEF Init
<1>2. TypeOK
  <2>1. rtos_started \in BOOLEAN /\ pendsv \in BOOLEAN
    BY Zenon DEF Init
  <2> QED
    BY <1>1, <2>1, StackBounds DEF Init, TypeOK, Labels
<1>3. Geometry
  BY StackBounds DEF Init, Geometry, Saving
<1> QED
  BY <1>2, <1>3 DEF CoreInv

LEMMA BootKeepsCore == ASSUME CoreInv, Boot PROVE CoreInv'
<1> USE DEF CoreInv, TypeOK, Geometry, Saving, Labels
<1>1. CASE TaskCreate
  <2>1. /\ task_count \in Tasks /\ task_count < MAX_TASKS
        /\ task_count' = task_count + 1 /\ pc = "create" /\ pc' = "create"
        /\ UNCHANGED <<reg, psp, r0, rtos_started, pendsv>>
        /\ StackBlocks >= Frame
        /\ saved_sp' = [saved_sp EXCEPT ![task_count] = Top(task_count) - Frame]
    BY <1>1, StackBounds DEF TaskCreate
  <2>2. current' = 0
    BY <1>1 DEF TaskCreate
  <2>3. mem' \in [Address -> Value]
    <3>1. \A a \in StackOf(task_count) : InitialStack(task_count)[a] \in Value
      BY <2>1, Values DEF InitialStack
    <3> QED
      BY <1>1, <3>1 DEF TaskCreate
  <2>4. Top(task_count) - Frame \in Address /\ Parked(task_count, Top(task_count) - Frame)
    <3> HIDE DEF CoreInv, TypeOK, Geometry
    <3>1. /\ Base(task_count) \in Nat /\ Top(task_count) = Base(task_count) + StackBlocks
          /\ StackBlocks \in Nat /\ StackBlocks >= 4 /\ Frame = 4
      BY <2>1, StackBounds
    <3> QED
      BY <2>1, <3>1, InStack DEF Parked
  <2>5. TypeOK'
    <3>1. saved_sp' \in [Tasks -> Address]
      BY <2>1, <2>4
    <3>2. task_count' \in 0 .. MAX_TASKS /\ current' \in Tasks
      BY <2>1, <2>2, StackBounds
    <3>3. /\ pc' \in Labels /\ reg' \in [Registers -> Value] /\ psp' \in Nat /\ r0' \in Nat
          /\ rtos_started' \in BOOLEAN /\ pendsv' \in BOOLEAN
      BY <2>1
    <3> QED
      BY <2>3, <3>1, <3>2, <3>3
  <2>6. \A t \in Tasks : t < task_count' => Parked(t, saved_sp[t])'
    BY <2>1, <2>4, StackBounds DEF Parked, Base, Top
  <2> QED
    BY <2>1, <2>2, <2>5, <2>6
<1>2. CASE CreateTrap
  BY <1>2 DEF CreateTrap, Parked
<1>3. CASE OsStart
  <2>1. /\ task_count \in Nat /\ task_count > 0 /\ task_count - 1 < MAX_TASKS
        /\ current' = task_count - 1 /\ psp' = DummyTop /\ pc = "create" /\ pc' = "spin"
        /\ pendsv' = TRUE
        /\ UNCHANGED <<reg, mem, saved_sp, r0, task_count, rtos_started>>
    BY <1>3, StackBounds DEF OsStart
  <2>2. TypeOK'
    BY <2>1, StackBounds
  <2>3. Geometry'
    BY <2>1, StackBounds DEF Parked
  <2> QED
    BY <2>2, <2>3
<1> QED
  BY <1>1, <1>2, <1>3 DEF Boot

LEMMA ThreadKeepsCore == ASSUME CoreInv, Thread PROVE CoreInv'
<1> USE DEF CoreInv, TypeOK, Geometry, Saving, Labels
<1>1. /\ pc = "thread" /\ rtos_started /\ current \in Tasks /\ current < task_count
      /\ psp \in Base(current) + Frame .. Top(current)
  BY DEF Thread, Compute, Push, Pop, TriggerPendSV, TaskExit, InThread
<1>2. ASSUME NEW v \in Versions, Compute(v)
      PROVE  CoreInv'
  <2>1. reg' \in [Registers -> Value]
    BY <1>2, Values DEF Compute
  <2> QED
    BY <1>2, <2>1 DEF Compute, Parked
<1>3. CASE Push
  <2>1. /\ psp - 1 \in Address /\ psp - 1 \in Base(current) + Frame .. Top(current)
        /\ psp - 1 \in Nat
    <3>1. psp \in Nat /\ psp - 1 - Frame >= Base(current)
      BY <1>3 DEF Push
    <3> HIDE DEF CoreInv, TypeOK, Geometry
    <3> QED
      BY <1>1, <3>1, InStack
  <2>2. reg.low \in Value
    BY RegisterNames
  <2>3. mem' \in [Address -> Value]
    BY <1>3, <2>1, <2>2 DEF Push
  <2> QED
    BY <1>1, <1>3, <2>1, <2>3 DEF Push, Parked
<1>4. CASE Pop
  <2>1. /\ psp \in Address /\ psp + 1 \in Base(current) + Frame .. Top(current)
        /\ psp + 1 \in Nat
    <3>1. psp \in Nat /\ psp < Top(current)
      BY <1>4 DEF Pop
    <3> HIDE DEF CoreInv, TypeOK, Geometry
    <3> QED
      BY <1>1, <3>1, InStack
  <2>2. reg' \in [Registers -> Value]
    BY <1>4, <2>1, RegisterNames DEF Pop
  <2> QED
    BY <1>1, <1>4, <2>1, <2>2 DEF Pop, Parked
<1>5. CASE TriggerPendSV
  BY <1>5 DEF TriggerPendSV, Parked
<1>6. CASE TaskExit
  BY <1>1, <1>6 DEF TaskExit, Parked
<1> QED
  BY <1>2, <1>3, <1>4, <1>5, <1>6 DEF Thread

\* A frame is pushed below PSP, in thread mode and while main() spins.
LEMMA RoomForFrame ==
  ASSUME CoreInv, pc \in {"spin", "thread"}
  PROVE  /\ psp - 2 \in Address /\ psp - 1 \in Address /\ psp - 2 \in Nat
         /\ pc = "spin" => psp - 2 = 0 /\ psp - 1 = 1 /\ ~rtos_started
         /\ pc = "thread" => /\ rtos_started
                             /\ psp - 2 \in StackOf(current) /\ psp - 1 \in StackOf(current)
                             /\ Parked(current, psp - 4)
<1>1. CASE pc = "spin"
  BY <1>1, StackBounds DEF CoreInv, Geometry
<1>2. CASE pc = "thread"
  <2>1. /\ rtos_started /\ current \in Tasks /\ psp \in Nat
        /\ psp \in Base(current) + Frame .. Top(current)
    BY <1>2 DEF CoreInv, TypeOK, Geometry
  <2> QED
    BY <1>2, <2>1, InStack DEF Parked
<1> QED
  BY <1>1, <1>2

LEMMA PushedFrame ==
  ASSUME CoreInv, pc \in {"spin", "thread"}, PushFrame
  PROVE  /\ mem' \in [Address -> Value]
         /\ mem'[psp - 2] = reg.args /\ mem'[psp - 1] = reg.ctl
         /\ \A a \in Address \ {psp - 2, psp - 1} : mem'[a] = mem[a]
<1>1. /\ psp - 2 \in Address /\ psp - 1 \in Address /\ psp \in Nat
      /\ reg.args \in Value /\ reg.ctl \in Value /\ mem \in [Address -> Value]
  BY RoomForFrame, RegisterNames DEF CoreInv, TypeOK
<1> QED
  BY <1>1 DEF PushFrame

LEMMA PendBit ==
  ASSUME CoreInv, PendFromHandler PROVE pendsv' \in BOOLEAN
BY Zenon DEF CoreInv, TypeOK, PendFromHandler

LEMMA ExceptionsKeepCore == ASSUME CoreInv, Exceptions PROVE CoreInv'
<1> USE DEF CoreInv, TypeOK, Geometry, Saving, Labels
<1>1. CASE Interrupt
  <2>1. pendsv' \in BOOLEAN
    BY <1>1, PendBit DEF Interrupt
  <2>2. mem' \in [Address -> Value]
    BY <1>1, PushedFrame DEF Interrupt
  <2> QED
    BY <1>1, <2>1, <2>2 DEF Interrupt, Parked
<1>2. CASE NestedInterrupt
  <2>1. pendsv' \in BOOLEAN
    BY <1>2, PendBit DEF NestedInterrupt
  <2> QED
    BY <1>2, <2>1 DEF NestedInterrupt, Parked
<1>3. CASE PendSVEnter
  <2>1. /\ pc \in {"spin", "thread"} /\ pc' = "entered" /\ psp' = psp - 2 /\ PushFrame
        /\ pendsv' = FALSE /\ UNCHANGED <<saved_sp, r0, current, task_count, rtos_started>>
    BY <1>3 DEF PendSVEnter
  <2>2. mem' \in [Address -> Value] /\ psp - 2 \in Nat
    BY <2>1, PushedFrame, RoomForFrame
  <2>3. reg' \in [Registers -> Value]
    BY <1>3, Values, RegisterNames DEF PendSVEnter
  <2>4. TypeOK'
    BY <2>1, <2>2, <2>3
  <2>5. rtos_started => Parked(current, psp - 4)
    BY <2>1, RoomForFrame
  <2>6. ~rtos_started => psp - 2 = 0
    BY <2>1, RoomForFrame
  <2>7. psp - 4 = psp' - 2
    BY <2>1
  <2> QED
    BY <2>1, <2>4, <2>5, <2>6, <2>7 DEF Parked
<1>4. CASE TailChain
  <2>1. /\ pc = "return" /\ pc' = "entered" /\ pendsv' = FALSE
        /\ UNCHANGED <<reg, psp, mem, saved_sp, r0, current, task_count, rtos_started>>
    BY <1>4 DEF TailChain
  <2>2. rtos_started /\ current \in Tasks /\ Parked(current, psp - 2)
    <3>1. /\ rtos_started /\ current \in Tasks /\ saved_sp[current] \in Int
          /\ Parked(current, saved_sp[current]) /\ psp = saved_sp[current] + 2
      BY <2>1 DEF Address
    <3>2. psp - 2 = saved_sp[current]
      BY <3>1
    <3> QED
      BY <3>1, <3>2
  <2> QED
    BY <2>1, <2>2 DEF Parked
<1>5. CASE ExceptionReturn
  <2>1. /\ current \in Tasks /\ current < task_count /\ rtos_started
        /\ Parked(current, psp - 2) /\ psp \in Nat
    <3>1. /\ rtos_started /\ current \in Tasks /\ saved_sp[current] \in Int
          /\ current < task_count
          /\ Parked(current, saved_sp[current]) /\ psp = saved_sp[current] + 2
      BY <1>5 DEF ExceptionReturn, Address
    <3>2. psp - 2 = saved_sp[current]
      BY <3>1
    <3> QED
      BY <3>1, <3>2
  <2>2. /\ psp \in Address /\ psp + 1 \in Address
        /\ psp + 2 \in Base(current) + Frame .. Top(current) /\ psp + 2 \in Nat
    <3> HIDE DEF CoreInv, TypeOK, Geometry
    <3> QED
      BY <2>1, FrameInStack, InStack
  <2>3. reg' \in [Registers -> Value]
    BY <1>5, <2>2, RegisterNames DEF ExceptionReturn
  <2> QED
    BY <1>5, <2>1, <2>2, <2>3 DEF ExceptionReturn, Parked
<1> QED
  BY <1>1, <1>2, <1>3, <1>4, <1>5 DEF Exceptions

\* The frame of the task that is switched out lies inside its stack.
LEMMA SaveArea ==
  ASSUME CoreInv, pc \in Saving
  PROVE  /\ current \in Tasks /\ current < task_count /\ rtos_started /\ psp \in Nat
         /\ Parked(current, psp - 2)
         /\ \A a \in {psp - 2, psp - 1, psp, psp + 1} : a \in Address /\ a \in StackOf(current)
         /\ psp - 2 \in Nat
<1>1. /\ current \in Tasks /\ current < task_count /\ rtos_started /\ psp \in Nat
      /\ Parked(current, psp - 2)
  BY DEF CoreInv, TypeOK, Geometry, Saving
<1> QED
  BY <1>1, FrameInStack

LEMMA SaveKeepsCore == ASSUME CoreInv, Save PROVE CoreInv'
<1> USE DEF CoreInv, TypeOK, Geometry, Labels
<1>1. CASE CheckStarted
  BY <1>1, StackBounds DEF CheckStarted, Saving, Parked
<1>2. CASE SaveLow
  <2>1. psp - 2 \in Address /\ psp - 1 \in Nat /\ reg.low \in Value
    BY <1>2, SaveArea, RegisterNames DEF SaveLow, Saving
  <2>2. mem' \in [Address -> Value]
    BY <1>2, <2>1 DEF SaveLow
  <2> QED
    BY <1>2, <2>1, <2>2 DEF SaveLow, Saving, Parked
<1>3. CASE MoveHigh
  <2>1. reg' \in [Registers -> Value]
    BY <1>3, RegisterNames DEF MoveHigh
  <2> QED
    BY <1>3, <2>1 DEF MoveHigh, Saving, Parked
<1>4. CASE SaveHigh
  <2>1. /\ pc = "save_high" /\ pc' = "pick" /\ r0 = psp - 1 /\ r0' = psp - 2
        /\ saved_sp' = [saved_sp EXCEPT ![current] = psp - 2]
        /\ UNCHANGED <<reg, psp, current, task_count, rtos_started, pendsv>>
    <3>1. pc = "save_high" /\ r0 = psp - 1 /\ r0 - 1 = psp - 2
      BY <1>4 DEF SaveHigh
    <3> QED
      BY <1>4, <3>1 DEF SaveHigh
  <2>2. /\ current \in Tasks /\ Parked(current, psp - 2) /\ psp - 2 \in Nat
        /\ psp - 2 \in Address /\ psp - 1 \in Address /\ reg.low \in Value
    BY <2>1, SaveArea, RegisterNames DEF Saving
  <2>3. mem' \in [Address -> Value]
    BY <1>4, <2>1, <2>2 DEF SaveHigh
  <2> QED
    BY <2>1, <2>2, <2>3 DEF Saving, Parked
<1> QED
  BY <1>1, <1>2, <1>3, <1>4 DEF Save

\* The frame of the task that is switched in lies inside its stack.
LEMMA LoadArea ==
  ASSUME CoreInv, rtos_started
  PROVE  /\ current \in Tasks /\ current < task_count
         /\ saved_sp[current] \in Nat
         /\ Parked(current, saved_sp[current])
         /\ \A d \in 0 .. 3 : saved_sp[current] + d \in Address
         /\ saved_sp[current] \in Address
<1>1. /\ current \in Tasks /\ current < task_count /\ saved_sp[current] \in Int
      /\ Parked(current, saved_sp[current])
  BY DEF CoreInv, TypeOK, Geometry, Address
<1> QED
  BY <1>1, FrameInStack

LEMMA RestoreKeepsCore == ASSUME CoreInv, Restore PROVE CoreInv'
<1> USE DEF CoreInv, TypeOK, Geometry, Labels
<1>1. rtos_started
  BY DEF Restore, Pick, LoadHigh, MoveBack, LoadLow, SetPSP
<1>2. CASE Pick
  <2>1. reg' \in [Registers -> Value]
    BY <1>2, Values, RegisterNames DEF Pick
  <2>2. current' \in Tasks /\ current' < task_count
    <3>1. /\ current' \in 0 .. task_count - 1 /\ task_count \in Nat
          /\ task_count <= MAX_TASKS
      BY <1>2, StackBounds DEF Pick
    <3> QED
      BY <3>1, StackBounds
  <2> QED
    BY <1>1, <1>2, <2>1, <2>2 DEF Pick, Saving, Parked
<1>3. CASE LoadHigh
  <2>1. saved_sp[current] \in Nat /\ saved_sp[current] + 1 \in Address
    BY <1>1, LoadArea
  <2>2. reg' \in [Registers -> Value]
    BY <1>3, <2>1, RegisterNames DEF LoadHigh
  <2> QED
    BY <1>3, <2>1, <2>2 DEF LoadHigh, Saving, Parked
<1>4. CASE MoveBack
  <2>1. reg' \in [Registers -> Value]
    BY <1>4, RegisterNames DEF MoveBack
  <2> QED
    BY <1>4, <2>1 DEF MoveBack, Saving, Parked
<1>5. CASE LoadLow
  <2>1. /\ saved_sp[current] \in Nat /\ saved_sp[current] \in Address
        /\ r0 = saved_sp[current] + 2 /\ r0 - 2 = saved_sp[current]
        /\ r0 - 1 = saved_sp[current] + 1
    BY <1>1, <1>5, LoadArea DEF LoadLow
  <2>2. reg' \in [Registers -> Value]
    BY <1>5, <2>1, RegisterNames DEF LoadLow
  <2> QED
    BY <1>5, <2>1, <2>2 DEF LoadLow, Saving, Parked
<1>6. CASE SetPSP
  BY <1>6 DEF SetPSP, Saving, Parked
<1> QED
  BY <1>2, <1>3, <1>4, <1>5, <1>6 DEF Restore

LEMMA CoreInvariance == Spec => []CoreInv
<1>1. CoreInv /\ [Next]_vars => CoreInv'
  <2> SUFFICES ASSUME CoreInv, [Next]_vars
               PROVE  CoreInv'
    OBVIOUS
  <2>1. CASE UNCHANGED vars
    BY <2>1 DEF vars, CoreInv, TypeOK, Geometry, Saving, Parked
  <2> QED
    BY <2>1, BootKeepsCore, ThreadKeepsCore, ExceptionsKeepCore, SaveKeepsCore, RestoreKeepsCore
    DEF Next
<1> QED
  BY <1>1, InitCore, PTL DEF Spec

(***************************************************************************)
(* PSP, R0 and the saved stack pointers keep their types, and every        *)
(* address that the handler reads or writes exists.                        *)
(***************************************************************************)
THEOREM ContextTypeCorrect == Spec => []TypeOK
BY CoreInvariance, PTL DEF CoreInv
-----------------------------------------------------------------------------
(* Every write lands in the stack of the task on the CPU                   *)

\* WritesStayInside, of one step.
Inside ==
  \A a \in Address : mem'[a] # mem[a] =>
    IF rtos_started THEN a \in StackOf(current) ELSE a < DummyTop

LEMMA StepInside == ASSUME CoreInv, Next, pc # "create" PROVE Inside
<1> USE DEF Inside
<1>1. CASE UNCHANGED mem
  BY <1>1
<1>2. CASE Boot
  BY <1>2 DEF Boot, TaskCreate, CreateTrap, OsStart
<1>3. CASE Thread
  <2>1. CASE Push
    <3>1. /\ pc = "thread" /\ rtos_started /\ current \in Tasks /\ psp \in Nat
          /\ psp - 1 - Frame >= Base(current) /\ psp \in Base(current) + Frame .. Top(current)
          /\ mem' = [mem EXCEPT ![psp - 1] = reg.low] /\ mem \in [Address -> Value]
      BY <2>1 DEF Push, InThread, CoreInv, TypeOK, Geometry
    <3>2. psp - 1 \in StackOf(current)
      BY <3>1, InStack
    <3> QED
      BY <3>1, <3>2
  <2> QED
    BY <1>1, <1>3, <2>1 DEF Thread, Compute, Pop, TriggerPendSV, TaskExit
<1>4. CASE Exceptions
  <2>1. ASSUME pc \in {"spin", "thread"}, PushFrame
        PROVE  Inside
    BY <2>1, RoomForFrame, PushedFrame, StackBounds
  <2> QED
    BY <1>1, <1>4, <2>1
    DEF Exceptions, Interrupt, NestedInterrupt, PendSVEnter, TailChain, ExceptionReturn
<1>5. CASE Save
  <2>1. CASE SaveLow
    <3>1. rtos_started /\ psp - 2 \in StackOf(current)
      BY <2>1, SaveArea DEF SaveLow, Saving
    <3> QED
      BY <2>1, <3>1 DEF SaveLow, CoreInv, TypeOK
  <2>2. CASE SaveHigh
    <3>1. rtos_started /\ psp - 1 \in StackOf(current) /\ r0 = psp - 1
      BY <2>2, SaveArea DEF SaveHigh, Saving, CoreInv, Geometry
    <3> QED
      BY <2>2, <3>1 DEF SaveHigh, CoreInv, TypeOK
  <2> QED
    BY <1>1, <1>5, <2>1, <2>2 DEF Save, CheckStarted, MoveHigh
<1>6. CASE Restore
  BY <1>1, <1>6 DEF Restore, Pick, LoadHigh, MoveBack, LoadLow, SetPSP
<1> QED
  BY <1>2, <1>3, <1>4, <1>5, <1>6 DEF Next

(***************************************************************************)
(* No exception, no push of thread code and no save of PendSV_Handler      *)
(* writes outside the stack of the task on the CPU, nor, before the first  *)
(* dispatch, beyond os_dummy_stack: WritesStayInside.                      *)
(***************************************************************************)
THEOREM WritesCorrect == Spec => WritesStayInside
<1>1. ASSUME CoreInv, [Next]_vars
      PROVE  [pc # "create" =>
               \A a \in Address : mem'[a] # mem[a] =>
                 IF rtos_started THEN a \in StackOf(current) ELSE a < DummyTop]_vars
  BY <1>1, StepInside DEF Inside
<1> QED
  BY <1>1, CoreInvariance, PTL DEF Spec, WritesStayInside
-----------------------------------------------------------------------------
(* Contexts                                                                *)

\* The stack of t from sp upwards, read in memory m.
Above(m, sp, t) == [depth \in 1 .. Top(t) - sp |-> m[Top(t) - depth]]

Ctx(m, low, high, args, ctl, sp, t) ==
  [low |-> low, high |-> high, args |-> args, ctl |-> ctl, stack |-> Above(m, sp, t)]

\* A context that is in memory altogether.
Saved(m, sp, t) == Ctx(m, m[sp], m[sp + 1], m[sp + 2], m[sp + 3], sp + Frame, t)

NoCtx == [low |-> Junk, high |-> Junk, args |-> Junk, ctl |-> Junk, stack |-> <<>>]

\* ContextOf, place by place.
Places ==
  task_count \in Nat =>
    \A t \in Tasks :
      /\ ~(t < task_count) => ContextOf(t) = NoCtx
      /\ t < task_count /\ InMemory(t) => ContextOf(t) = Saved(mem, saved_sp[t], t)
      /\ t < task_count /\ ~InMemory(t) =>
           /\ pc \in {"entered", "save_low"} =>
                ContextOf(t) = Ctx(mem, reg.low, reg.high, mem[psp], mem[psp + 1], psp + 2, t)
           /\ pc \in {"move_high", "save_high"} =>
                ContextOf(t) = Ctx(mem, mem[psp - 2], reg.high, mem[psp], mem[psp + 1], psp + 2, t)
           /\ pc \notin {"entered"} \cup Saving =>
                ContextOf(t) = Ctx(mem, reg.low, reg.high, reg.args, reg.ctl, psp, t)

LEMMA AboveTop == ASSUME NEW m, NEW t \in Tasks PROVE Above(m, Top(t), t) = <<>>
<1>1. 1 .. Top(t) - Top(t) = {}
  BY StackBounds
<1> QED
  BY <1>1 DEF Above

LEMMA AboveSame ==
  ASSUME NEW m, NEW n, NEW t \in Tasks, NEW sp \in Int,
         \A a \in Int : sp <= a /\ a < Top(t) => m[a] = n[a]
  PROVE  Above(m, sp, t) = Above(n, sp, t)
<1>1. ASSUME NEW depth \in 1 .. Top(t) - sp
      PROVE  m[Top(t) - depth] = n[Top(t) - depth]
  <2>1. Top(t) - depth \in Int /\ sp <= Top(t) - depth /\ Top(t) - depth < Top(t)
    BY InStack
  <2> QED
    BY <2>1
<1> QED
  BY <1>1 DEF Above

LEMMA AllPlaces == Places
<1> SUFFICES ASSUME task_count \in Nat, NEW t \in Tasks
             PROVE
      /\ ~(t < task_count) => ContextOf(t) = NoCtx
      /\ t < task_count /\ InMemory(t) => ContextOf(t) = Saved(mem, saved_sp[t], t)
      /\ t < task_count /\ ~InMemory(t) =>
           /\ pc \in {"entered", "save_low"} =>
                ContextOf(t) = Ctx(mem, reg.low, reg.high, mem[psp], mem[psp + 1], psp + 2, t)
           /\ pc \in {"move_high", "save_high"} =>
                ContextOf(t) = Ctx(mem, mem[psp - 2], reg.high, mem[psp], mem[psp + 1], psp + 2, t)
           /\ pc \notin {"entered"} \cup Saving =>
                ContextOf(t) = Ctx(mem, reg.low, reg.high, reg.args, reg.ctl, psp, t)
  BY DEF Places
<1>1. t \in Nat /\ (t >= task_count <=> ~(t < task_count))
  BY StackBounds
<1>2. CASE ~(t < task_count)
  <2>1. ContextOf(t) = Context(Junk, Junk, Junk, Junk, Top(t), t)
    BY <1>1, <1>2 DEF ContextOf
  <2>2. ContextOf(t) = Ctx(mem, Junk, Junk, Junk, Junk, Top(t), t)
    BY <2>1 DEF Context, Ctx, Above
  <2> QED
    BY <1>2, <2>2, AboveTop DEF Ctx, NoCtx
<1>3. CASE t < task_count /\ InMemory(t)
  <2>1. ContextOf(t) = Context(mem[saved_sp[t]], mem[saved_sp[t] + 1], mem[saved_sp[t] + 2],
                               mem[saved_sp[t] + 3], saved_sp[t] + Frame, t)
    BY <1>1, <1>3 DEF ContextOf
  <2> QED
    BY <1>3, <2>1 DEF Context, Saved, Ctx, Above
<1>4. CASE t < task_count /\ ~InMemory(t)
  <2>1. CASE pc \in {"entered", "save_low"}
    <3>1. ContextOf(t) = Context(reg.low, reg.high, mem[psp], mem[psp + 1], psp + 2, t)
      BY <1>1, <1>4, <2>1 DEF ContextOf
    <3> QED
      BY <1>4, <2>1, <3>1 DEF Context, Ctx, Above, Saving
  <2>2. CASE pc \in {"move_high", "save_high"}
    <3>1. ContextOf(t) = Context(mem[psp - 2], reg.high, mem[psp], mem[psp + 1], psp + 2, t)
      BY <1>1, <1>4, <2>2 DEF ContextOf
    <3> QED
      BY <1>4, <2>2, <3>1 DEF Context, Ctx, Above, Saving
  <2>3. CASE pc \notin {"entered"} \cup Saving
    <3>1. ContextOf(t) = Context(reg.low, reg.high, reg.args, reg.ctl, psp, t)
      BY <1>1, <1>4, <2>3 DEF ContextOf, Saving
    <3> QED
      BY <1>4, <2>3, <3>1 DEF Context, Ctx, Above, Saving
  <2> QED
    BY <2>1, <2>2, <2>3 DEF Saving
<1> QED
  BY <1>2, <1>3, <1>4

LEMMA NextPlaces == Places'
BY AllPlaces, PTL
-----------------------------------------------------------------------------
(* What the registers and the memory hold during a switch                  *)

Contents ==
  /\ pc = "save_high" => reg.low = reg.high
  /\ pc = "move_back" => reg.low = mem[saved_sp[current] + 1]
  /\ pc \in {"load_low", "set_psp", "return"} => reg.high = mem[saved_sp[current] + 1]
  /\ pc \in {"set_psp", "return"} => reg.low = mem[saved_sp[current]]

\* A created task has a program counter.
Runnable == \A t \in Tasks : t < task_count => ContextOf(t).ctl # Junk

ContextInv == CoreInv /\ Contents /\ Runnable

\* What a step may do to the contexts.
Kept == task_count' = task_count /\ \A t \in Tasks : ContextOf(t)' = ContextOf(t)

Created(t) ==
  /\ pc = "create" /\ pc' = "create" /\ current' = current
  /\ t = task_count /\ task_count' = task_count + 1
  /\ ContextOf(t) = NoCtx
  /\ ContextOf(t)' = Ctx(mem', Zero, Zero, Zero, Entry(t), Top(t), t)
  /\ \A u \in Tasks \ {t} : ContextOf(u)' = ContextOf(u)

Worked ==
  /\ pc = "thread" /\ pc' = "thread" /\ current' = current /\ task_count' = task_count
  /\ ContextOf(current).ctl # Junk => ContextOf(current)'.ctl # Junk
  /\ \A u \in Tasks \ {current} : ContextOf(u)' = ContextOf(u)

LEMMA ContentsNext == ASSUME CoreInv, Contents, Next PROVE Contents'
<1> USE DEF Contents
<1>1. CASE Boot
  BY <1>1 DEF Boot, TaskCreate, CreateTrap, OsStart
<1>2. CASE Thread
  BY <1>2 DEF Thread, Compute, Push, Pop, TriggerPendSV, TaskExit, InThread
<1>3. CASE Exceptions
  BY <1>3 DEF Exceptions, Interrupt, NestedInterrupt, PendSVEnter, TailChain, ExceptionReturn
<1>4. CASE Save
  BY <1>4, RegisterNames DEF Save, CheckStarted, SaveLow, MoveHigh, SaveHigh, CoreInv, TypeOK
<1>5. CASE Restore
  <2>1. CASE Pick
    BY <2>1 DEF Pick
  <2>2. CASE LoadHigh
    BY <2>2, RegisterNames DEF LoadHigh, CoreInv, TypeOK
  <2>3. CASE MoveBack
    BY <2>3, RegisterNames DEF MoveBack, CoreInv, TypeOK
  <2>4. CASE LoadLow
    <3>1. pc = "load_low" /\ rtos_started /\ r0 = saved_sp[current] + 2 /\ saved_sp[current] \in Nat
      BY <2>4, LoadArea DEF LoadLow, CoreInv, Geometry
    <3>2. r0 - 2 = saved_sp[current]
      BY <3>1
    <3> QED
      BY <2>4, <3>1, <3>2, RegisterNames DEF LoadLow, CoreInv, TypeOK
  <2>5. CASE SetPSP
    BY <2>5 DEF SetPSP
  <2> QED
    BY <1>5, <2>1, <2>2, <2>3, <2>4, <2>5 DEF Restore
<1> QED
  BY <1>1, <1>2, <1>3, <1>4, <1>5 DEF Next

LEMMA SavedSame ==
  ASSUME NEW m, NEW n, NEW t \in Tasks, NEW sp \in Int, Parked(t, sp),
         \A a \in StackOf(t) : m[a] = n[a]
  PROVE  Saved(m, sp, t) = Saved(n, sp, t)
<1>1. \A a \in {sp, sp + 1, sp + 2, sp + 3} : m[a] = n[a]
  BY FrameInStack
<1>2. \A a \in Int : sp + Frame <= a /\ a < Top(t) => m[a] = n[a]
  BY FrameInStack, InStack
<1>3. Above(m, sp + Frame, t) = Above(n, sp + Frame, t)
  BY <1>2, AboveSame DEF Frame
<1> QED
  BY <1>1, <1>3 DEF Saved, Ctx

\* A context that stays in memory, and is not written to.
LEMMA ParkedKept ==
  ASSUME CoreInv, CoreInv', NEW t \in Tasks, t < task_count' <=> t < task_count,
         t < task_count => /\ InMemory(t) /\ InMemory(t)'
                           /\ saved_sp'[t] = saved_sp[t]
                           /\ \A a \in StackOf(t) : mem'[a] = mem[a]
  PROVE  ContextOf(t)' = ContextOf(t)
<1>1. task_count \in Nat /\ task_count' \in Nat
  BY StackBounds DEF CoreInv, TypeOK
<1>2. CASE ~(t < task_count)
  BY <1>1, <1>2, AllPlaces, NextPlaces DEF Places, NoCtx
<1>3. CASE t < task_count
  <2>1. saved_sp[t] \in Int /\ Parked(t, saved_sp[t])
    BY <1>3 DEF CoreInv, TypeOK, Geometry, Address
  <2>2. Saved(mem', saved_sp[t], t) = Saved(mem, saved_sp[t], t)
    BY <1>3, <2>1, SavedSame
  <2>3. ContextOf(t) = Saved(mem, saved_sp[t], t)
    BY <1>1, <1>3, AllPlaces DEF Places
  <2>4. ContextOf(t)' = Saved(mem', saved_sp'[t], t)
    BY <1>1, <1>3, NextPlaces DEF Places
  <2> QED
    BY <1>3, <2>2, <2>3, <2>4
<1> QED
  BY <1>2, <1>3

LEMMA Elsewhere ==
  ASSUME NEW t \in Tasks, NEW a \in StackOf(t)
  PROVE  /\ a \in Address /\ ~(a < DummyTop)
         /\ \A u \in Tasks \ {t} : a \notin StackOf(u)
<1>1. a \in Int /\ Base(t) <= a /\ a < Top(t)
  BY StackBounds
<1>2. a \in Address /\ ~(a < DummyTop)
  BY <1>1, StackBounds
<1>3. ASSUME NEW u \in Tasks, t # u
      PROVE  a \notin StackOf(u)
  <2>1. Top(t) <= Base(u) \/ Top(u) <= Base(t)
    BY <1>3, StacksApart
  <2>2. StackOf(u) = Base(u) .. Top(u) - 1
    BY StackBounds
  <2> QED
    BY <1>1, <2>1, <2>2, InStack
<1> QED
  BY <1>2, <1>3

\* Of the tasks that are not on the CPU, before and after a step.
LEMMA OthersKept ==
  ASSUME CoreInv, CoreInv', Next, pc # "create", NEW t \in Tasks,
         current' = current, ~rtos_started \/ t # current,
         rtos_started' => rtos_started \/ pc' = "pick"
  PROVE  ContextOf(t)' = ContextOf(t)
<1>1. Inside
  BY StepInside
<1>2. task_count' = task_count
  BY DEF Next, Boot, TaskCreate, CreateTrap, OsStart, Thread, Compute, Push, Pop, TriggerPendSV,
         TaskExit, Exceptions, Interrupt, NestedInterrupt, PendSVEnter, TailChain, ExceptionReturn,
         Save, CheckStarted, SaveLow, MoveHigh, SaveHigh, Restore, Pick, LoadHigh, MoveBack,
         LoadLow, SetPSP
<1>3. \A a \in StackOf(t) : mem'[a] = mem[a]
  BY <1>1, Elsewhere DEF Inside, CoreInv, TypeOK
<1>4. saved_sp'[t] = saved_sp[t]
  <2>1. CASE UNCHANGED saved_sp
    BY <2>1
  <2>2. CASE SaveHigh
    BY <2>2 DEF SaveHigh, CoreInv, TypeOK, Geometry
  <2> QED
    BY <2>1, <2>2
    DEF Next, Boot, TaskCreate, CreateTrap, OsStart, Thread, Compute, Push, Pop, TriggerPendSV,
        TaskExit, Exceptions, Interrupt, NestedInterrupt, PendSVEnter, TailChain, ExceptionReturn,
        Save, CheckStarted, SaveLow, MoveHigh, Restore, Pick, LoadHigh, MoveBack, LoadLow, SetPSP
<1>5. InMemory(t) /\ InMemory(t)'
  BY DEF InMemory
<1> QED
  BY <1>2, <1>3, <1>4, <1>5, ParkedKept

\* The task on the CPU.
LEMMA OnCpu ==
  ASSUME CoreInv, rtos_started
  PROVE  /\ task_count \in Nat /\ current \in Tasks /\ current < task_count
         /\ pc \in {"thread", "halt"} => ~InMemory(current) /\
              ContextOf(current) = Ctx(mem, reg.low, reg.high, reg.args, reg.ctl, psp, current)
         /\ pc \in {"entered", "save_low"} => ~InMemory(current) /\
              ContextOf(current) =
                Ctx(mem, reg.low, reg.high, mem[psp], mem[psp + 1], psp + 2, current)
         /\ pc \in {"move_high", "save_high"} => ~InMemory(current) /\
              ContextOf(current) =
                Ctx(mem, mem[psp - 2], reg.high, mem[psp], mem[psp + 1], psp + 2, current)
<1>1. task_count \in Nat /\ current \in Tasks /\ current < task_count
  BY StackBounds DEF CoreInv, TypeOK, Geometry
<1>2. pc \in {"thread", "halt", "entered"} \cup Saving => ~InMemory(current)
  BY DEF InMemory, Saving
<1> QED
  BY <1>1, <1>2, AllPlaces DEF Places, Saving

LEMMA OnCpuNext ==
  ASSUME CoreInv', rtos_started'
  PROVE  /\ pc' \in {"thread", "halt"} =>
              ContextOf(current)' =
                Ctx(mem', reg'.low, reg'.high, reg'.args, reg'.ctl, psp', current')
         /\ pc' \in {"entered", "save_low"} =>
              ContextOf(current)' =
                Ctx(mem', reg'.low, reg'.high, mem'[psp'], mem'[psp' + 1], psp' + 2, current')
         /\ pc' \in {"move_high", "save_high"} =>
              ContextOf(current)' =
                Ctx(mem', mem'[psp' - 2], reg'.high, mem'[psp'], mem'[psp' + 1], psp' + 2, current')
<1>1. task_count' \in Nat /\ current' \in Tasks /\ current' < task_count'
  BY StackBounds DEF CoreInv, TypeOK, Geometry
<1>2. pc' \in {"thread", "halt", "entered"} \cup Saving => ~InMemory(current)'
  BY DEF InMemory, Saving
<1> QED
  BY <1>1, <1>2, NextPlaces DEF Places, Saving

LEMMA ThreadOnContexts ==
  ASSUME CoreInv, CoreInv', Thread PROVE Worked \/ (TaskExit /\ Kept)
<1>1. /\ pc = "thread" /\ rtos_started /\ rtos_started' /\ current' = current
      /\ task_count' = task_count /\ current \in Tasks /\ reg \in [Registers -> Value]
  BY DEF Thread, Compute, Push, Pop, TriggerPendSV, TaskExit, InThread, CoreInv, TypeOK, Geometry
<1>2. \A u \in Tasks \ {current} : ContextOf(u)' = ContextOf(u)
  BY <1>1, OthersKept DEF Next
<1>3. ContextOf(current) = Ctx(mem, reg.low, reg.high, reg.args, reg.ctl, psp, current)
  BY <1>1, OnCpu
<1>4. CASE TaskExit
  <2>1. ContextOf(current)' = Ctx(mem, reg.low, reg.high, reg.args, reg.ctl, psp, current)
    BY <1>1, <1>4, OnCpuNext DEF TaskExit
  <2> QED
    BY <1>1, <1>2, <1>3, <1>4, <2>1 DEF Kept
<1>5. CASE pc' = "thread"
  <2>1. ContextOf(current)' =
          Ctx(mem', reg'.low, reg'.high, reg'.args, reg'.ctl, psp', current)
    BY <1>1, <1>5, OnCpuNext
  <2>2. ContextOf(current).ctl = reg.ctl /\ ContextOf(current)'.ctl = reg'.ctl
    BY <1>3, <2>1 DEF Ctx
  <2>3. reg'.ctl = reg.ctl \/ reg'.ctl # Junk
    <3>1. ASSUME NEW v \in Versions, Compute(v)
          PROVE  reg'.ctl # Junk
      BY <3>1, RegisterNames DEF Compute, Junk
    <3> QED
      BY <1>1, <1>5, <3>1, RegisterNames DEF Thread, Push, Pop, TriggerPendSV, TaskExit
  <2> QED
    BY <1>1, <1>2, <1>5, <2>2, <2>3 DEF Worked
<1> QED
  BY <1>1, <1>4, <1>5 DEF Thread, Compute, Push, Pop, TriggerPendSV, TaskExit

LEMMA ExceptionsOnContexts ==
  ASSUME CoreInv, CoreInv', Contents, Exceptions PROVE Kept
<1>1. /\ pc # "create" /\ rtos_started' = rtos_started /\ current' = current
      /\ task_count' = task_count /\ saved_sp' = saved_sp /\ psp \in Nat
      /\ current \in Tasks /\ reg \in [Registers -> Value]
  BY DEF Exceptions, Interrupt, NestedInterrupt, PendSVEnter, TailChain, ExceptionReturn,
         CoreInv, TypeOK
<1>2. \A u \in Tasks : ~rtos_started \/ u # current => ContextOf(u)' = ContextOf(u)
  BY <1>1, OthersKept DEF Next
<1>3. SUFFICES ASSUME rtos_started
               PROVE  ContextOf(current)' = ContextOf(current)
  BY <1>1, <1>2 DEF Kept
<1>4. ASSUME pc = "thread", PushFrame
      PROVE  /\ mem'[psp - 2] = reg.args /\ mem'[psp - 1] = reg.ctl
             /\ Above(mem', psp, current) = Above(mem, psp, current)
  <2>1. \A a \in Address \ {psp - 2, psp - 1} : mem'[a] = mem[a]
    BY <1>4, PushedFrame
  <2>2. psp >= Base(current)
    BY <1>1, <1>4, InStack DEF CoreInv, Geometry
  <2>3. \A a \in Int : psp <= a /\ a < Top(current) => mem'[a] = mem[a]
    BY <1>1, <2>1, <2>2, InStack
  <2> QED
    BY <1>1, <1>4, <2>3, AboveSame, PushedFrame
<1>5. CASE Interrupt
  <2>1. /\ pc = "thread" /\ pc' = "thread" /\ PushFrame /\ UNCHANGED <<reg, psp>>
    BY <1>3, <1>5 DEF Interrupt, CoreInv, Geometry
  <2>2. /\ ContextOf(current) = Ctx(mem, reg.low, reg.high, reg.args, reg.ctl, psp, current)
        /\ ContextOf(current)' = Ctx(mem', reg.low, reg.high, reg.args, reg.ctl, psp, current)
    BY <1>1, <1>3, <2>1, OnCpu, OnCpuNext
  <2> QED
    BY <1>4, <2>1, <2>2 DEF Ctx
<1>6. CASE NestedInterrupt
  BY <1>6 DEF NestedInterrupt, ContextOf, Context, InMemory
<1>7. CASE PendSVEnter
  <2>1. /\ pc = "thread" /\ pc' = "entered" /\ PushFrame /\ psp' = psp - 2
        /\ reg'.low = reg.low /\ reg'.high = reg.high
    BY <1>1, <1>3, <1>7, RegisterNames DEF PendSVEnter, CoreInv, Geometry
  <2>2. psp' + 1 = psp - 1 /\ psp' + 2 = psp
    BY <1>1, <2>1
  <2>3. /\ ContextOf(current) = Ctx(mem, reg.low, reg.high, reg.args, reg.ctl, psp, current)
        /\ ContextOf(current)' =
             Ctx(mem', reg.low, reg.high, mem'[psp - 2], mem'[psp - 1], psp, current)
    <3>1. ContextOf(current)' =
            Ctx(mem', reg'.low, reg'.high, mem'[psp'], mem'[psp' + 1], psp' + 2, current')
      BY <1>1, <1>3, <2>1, OnCpuNext
    <3> QED
      BY <1>1, <1>3, <2>1, <2>2, <3>1, OnCpu
  <2> QED
    BY <1>4, <2>1, <2>3 DEF Ctx
<1>8. ASSUME pc = "return", mem' = mem
      PROVE  ContextOf(current) =
               Ctx(mem', reg.low, reg.high, mem'[psp], mem'[psp + 1], psp + 2, current)
  <2>1. /\ psp = saved_sp[current] + 2 /\ saved_sp[current] \in Nat
        /\ reg.low = mem[saved_sp[current]] /\ reg.high = mem[saved_sp[current] + 1]
    BY <1>3, <1>8, LoadArea DEF CoreInv, Geometry, Contents
  <2>2. psp + 1 = saved_sp[current] + 3 /\ psp + 2 = saved_sp[current] + Frame
    BY <2>1 DEF Frame
  <2>3. InMemory(current)
    BY <1>8 DEF InMemory
  <2>4. ContextOf(current) = Saved(mem, saved_sp[current], current)
    BY <1>3, <2>3, OnCpu, AllPlaces DEF Places
  <2> QED
    BY <1>8, <2>1, <2>2, <2>4 DEF Saved
<1>9. CASE TailChain
  <2>1. /\ pc = "return" /\ mem' = mem /\ pc' = "entered" /\ UNCHANGED <<reg, psp>>
    BY <1>9 DEF TailChain
  <2> QED
    BY <1>1, <1>3, <1>8, <2>1, OnCpuNext
<1>10. CASE ExceptionReturn
  <2>1. /\ pc = "return" /\ mem' = mem /\ pc' = "thread" /\ psp' = psp + 2
        /\ reg'.low = reg.low /\ reg'.high = reg.high
        /\ reg'.args = mem'[psp] /\ reg'.ctl = mem'[psp + 1]
    BY <1>1, <1>10, RegisterNames DEF ExceptionReturn
  <2> QED
    BY <1>1, <1>3, <1>8, <2>1, OnCpuNext
<1> QED
  BY <1>5, <1>6, <1>7, <1>9, <1>10 DEF Exceptions

LEMMA SaveOnContexts ==
  ASSUME CoreInv, CoreInv', Contents, Save PROVE Kept
<1>1. /\ pc # "create" /\ current' = current /\ task_count' = task_count /\ psp' = psp
      /\ psp \in Nat /\ current \in Tasks /\ reg \in [Registers -> Value] /\ rtos_started'
      /\ mem \in [Address -> Value]
      /\ rtos_started' => rtos_started \/ pc' = "pick"
  BY DEF Save, CheckStarted, SaveLow, MoveHigh, SaveHigh, CoreInv, TypeOK, Geometry
<1>2. \A u \in Tasks : ~rtos_started \/ u # current => ContextOf(u)' = ContextOf(u)
  BY <1>1, OthersKept DEF Next
<1>3. SUFFICES ASSUME rtos_started
               PROVE  ContextOf(current)' = ContextOf(current)
  BY <1>1, <1>2 DEF Kept
<1>4. CASE CheckStarted
  <2>1. pc = "entered" /\ pc' = "save_low" /\ UNCHANGED <<reg, psp, mem, current>>
    BY <1>3, <1>4 DEF CheckStarted
  <2> QED
    BY <1>1, <1>3, <2>1, OnCpu, OnCpuNext
<1>5. CASE SaveLow
  <2>1. /\ pc = "save_low" /\ pc' = "move_high" /\ UNCHANGED <<reg, psp>>
        /\ mem' = [mem EXCEPT ![psp - 2] = reg.low]
    BY <1>5 DEF SaveLow
  <2>2. /\ psp - 2 \in Address /\ psp \in Address /\ psp + 1 \in Address
        /\ Base(current) <= psp - 2
    BY <1>1, <2>1, SaveArea, InStack DEF Saving, Parked
  <2>3. mem'[psp - 2] = reg.low /\ mem'[psp] = mem[psp] /\ mem'[psp + 1] = mem[psp + 1]
    BY <1>1, <2>1, <2>2
  <2>4. \A a \in Int : psp + 2 <= a /\ a < Top(current) => mem'[a] = mem[a]
    BY <1>1, <2>1, <2>2, InStack
  <2>5. Above(mem', psp + 2, current) = Above(mem, psp + 2, current)
    BY <1>1, <2>4, AboveSame
  <2>6. /\ ContextOf(current) =
             Ctx(mem, reg.low, reg.high, mem[psp], mem[psp + 1], psp + 2, current)
        /\ ContextOf(current)' =
             Ctx(mem', mem'[psp - 2], reg.high, mem'[psp], mem'[psp + 1], psp + 2, current)
    BY <1>1, <1>3, <2>1, OnCpu, OnCpuNext
  <2> QED
    BY <2>3, <2>5, <2>6 DEF Ctx
<1>6. CASE MoveHigh
  <2>1. /\ pc = "move_high" /\ pc' = "save_high" /\ UNCHANGED <<psp, mem, current>>
        /\ reg'.high = reg.high
    BY <1>1, <1>6, RegisterNames DEF MoveHigh
  <2> QED
    BY <1>1, <1>3, <2>1, OnCpu, OnCpuNext
<1>7. CASE SaveHigh
  <2>1. /\ pc = "save_high" /\ pc' = "pick" /\ r0 = psp - 1 /\ r0 - 1 = psp - 2
    BY <1>1, <1>7 DEF SaveHigh, CoreInv, Geometry
  <2>2. /\ mem' = [mem EXCEPT ![psp - 1] = reg.low] /\ reg.low = reg.high
        /\ saved_sp' = [saved_sp EXCEPT ![current] = psp - 2]
    BY <1>7, <2>1 DEF SaveHigh, Contents
  <2>3. /\ psp - 2 \in Address /\ psp - 1 \in Address /\ psp \in Address /\ psp + 1 \in Address
        /\ Base(current) <= psp - 2
    BY <1>1, <2>1, SaveArea, InStack DEF Saving, Parked
  <2>4. /\ mem'[psp - 2] = mem[psp - 2] /\ mem'[psp - 1] = reg.high
        /\ mem'[psp] = mem[psp] /\ mem'[psp + 1] = mem[psp + 1]
    BY <1>1, <2>2, <2>3
  <2>5. \A a \in Int : psp + 2 <= a /\ a < Top(current) => mem'[a] = mem[a]
    BY <1>1, <2>2, <2>3, InStack
  <2>6. Above(mem', psp + 2, current) = Above(mem, psp + 2, current)
    BY <1>1, <2>5, AboveSame
  <2>7. ContextOf(current) =
          Ctx(mem, mem[psp - 2], reg.high, mem[psp], mem[psp + 1], psp + 2, current)
    BY <1>1, <1>3, <2>1, OnCpu
  <2>8. saved_sp'[current] = psp - 2
    BY <1>1, <2>2 DEF CoreInv, TypeOK
  <2>9. ContextOf(current)' = Saved(mem', psp - 2, current)
    <3>1. InMemory(current)' /\ task_count' \in Nat /\ current < task_count'
      BY <1>1, <1>3, <2>1, OnCpu DEF InMemory
    <3> QED
      BY <1>1, <2>8, <3>1, NextPlaces DEF Places
  <2>10. psp - 2 + 1 = psp - 1 /\ psp - 2 + 2 = psp /\ psp - 2 + 3 = psp + 1
         /\ psp - 2 + Frame = psp + 2
    BY <1>1, StackBounds
  <2> QED
    BY <2>4, <2>6, <2>7, <2>9, <2>10 DEF Saved, Ctx
<1> QED
  BY <1>4, <1>5, <1>6, <1>7 DEF Save

LEMMA RestoreOnContexts ==
  ASSUME CoreInv, CoreInv', Restore PROVE Kept
<1>1. /\ pc \in {"pick", "load_high", "move_back", "load_low", "set_psp"}
      /\ pc' \in {"load_high", "move_back", "load_low", "set_psp", "return"}
      /\ UNCHANGED <<mem, saved_sp, task_count>>
  BY DEF Restore, Pick, LoadHigh, MoveBack, LoadLow, SetPSP
<1>2. \A t \in Tasks : InMemory(t) /\ InMemory(t)'
  BY <1>1 DEF InMemory
<1> QED
  BY <1>1, <1>2, ParkedKept DEF Kept

LEMMA BootOnContexts ==
  ASSUME CoreInv, CoreInv', Boot PROVE Kept \/ \E t \in Tasks : Created(t)
<1>1. pc = "create" /\ current = 0 /\ ~rtos_started /\ ~rtos_started' /\ task_count \in Nat
  <2>1. task_count \in Nat
    BY StackBounds DEF CoreInv, TypeOK
  <2> QED
    BY <2>1 DEF Boot, TaskCreate, CreateTrap, OsStart, CoreInv, Geometry
<1>2. \A t \in Tasks : InMemory(t) /\ InMemory(t)'
  BY <1>1 DEF InMemory
<1>3. CASE UNCHANGED <<mem, saved_sp, task_count>>
  BY <1>2, <1>3, ParkedKept DEF Kept
<1>4. CASE TaskCreate
  <2>0. PICK t \in Tasks : t = task_count
    BY <1>1, <1>4, StackBounds DEF TaskCreate
  <2> DEFINE sp == Top(t) - Frame
  <2>1. /\ task_count' = t + 1 /\ pc' = "create" /\ current' = current
        /\ StackBlocks >= Frame /\ saved_sp' = [saved_sp EXCEPT ![t] = sp]
        /\ mem' = [a \in Address |-> IF a \in StackOf(t) THEN InitialStack(t)[a] ELSE mem[a]]
    BY <1>1, <1>4, <2>0 DEF TaskCreate
  <2>2. /\ Top(t) \in Nat /\ Base(t) \in Nat /\ Top(t) = Base(t) + StackBlocks
        /\ StackBlocks \in Nat /\ StackBlocks >= 4 /\ Frame = 4
    BY <2>1, StackBounds
  <2>3. /\ sp \in Nat /\ Parked(t, sp) /\ sp + Frame = Top(t)
        /\ sp + 2 = Top(t) - 2 /\ sp + 3 = Top(t) - 1
    BY <2>2 DEF Parked
  <2>4. \A a \in {sp, sp + 1, sp + 2} : a \in Top(t) - Frame .. Top(t) - 2 /\ a # Top(t) - 1
    BY <2>2
  <2> HIDE DEF sp
  <2>5. \A a \in {sp, sp + 1, sp + 2, sp + 3} : a \in StackOf(t) /\ mem'[a] = InitialStack(t)[a]
    <3>1. \A a \in {sp, sp + 1, sp + 2, sp + 3} : a \in Address /\ a \in StackOf(t)
      BY <2>1, <2>3, FrameInStack
    <3> QED
      BY <2>1, <3>1
  <2>6. /\ mem'[sp] = Zero /\ mem'[sp + 1] = Zero /\ mem'[sp + 2] = Zero
        /\ mem'[sp + 3] = Entry(t)
    <3>1. ASSUME NEW a \in StackOf(t), a # Top(t) - 1, a \in Top(t) - Frame .. Top(t) - 2
          PROVE  InitialStack(t)[a] = Zero
      BY <3>1 DEF InitialStack
    <3>2. ASSUME NEW a \in StackOf(t), a = Top(t) - 1
          PROVE  InitialStack(t)[a] = Entry(t)
      <4>1. a \notin Top(t) - Frame .. Top(t) - 2
        BY <2>2, <3>2
      <4> QED
        BY <3>2, <4>1 DEF InitialStack
    <3> QED
      BY <2>3, <2>4, <2>5, <3>1, <3>2
  <2>7. ContextOf(t) = NoCtx
    BY <1>1, <2>0, AllPlaces DEF Places
  <2>8. ContextOf(t)' = Saved(mem', sp, t)
    <3>1. saved_sp'[t] = sp /\ t < task_count' /\ task_count' \in Nat /\ InMemory(t)'
      BY <1>1, <1>2, <2>0, <2>1 DEF CoreInv, TypeOK
    <3> QED
      BY <3>1, NextPlaces DEF Places
  <2>9. ContextOf(t)' = Ctx(mem', Zero, Zero, Zero, Entry(t), Top(t), t)
    BY <2>3, <2>6, <2>8 DEF Saved
  <2>10. ASSUME NEW u \in Tasks, u # t
         PROVE  ContextOf(u)' = ContextOf(u)
    <3>1. \A a \in StackOf(u) : a \in Address /\ a \notin StackOf(t)
      BY <2>10, Elsewhere
    <3>2. \A a \in StackOf(u) : mem'[a] = mem[a]
      BY <2>1, <3>1
    <3>3. saved_sp'[u] = saved_sp[u]
      BY <2>1, <2>10 DEF CoreInv, TypeOK
    <3>4. u < task_count' <=> u < task_count
      <4>1. u \in Nat /\ t \in Nat
        BY StackBounds
      <4> QED
        BY <2>0, <2>1, <2>10, <4>1
    <3>5. InMemory(u) /\ InMemory(u)'
      BY <1>2
    <3> QED
      BY <3>2, <3>3, <3>4, <3>5, ParkedKept
  <2> QED
    BY <1>1, <2>0, <2>1, <2>7, <2>9, <2>10 DEF Created
<1> QED
  BY <1>3, <1>4 DEF Boot, CreateTrap, OsStart
-----------------------------------------------------------------------------
(* The context switch implements AbstractTasks                             *)

Mode ==
  IF pc \in {"create", "spin"} THEN "boot" ELSE IF pc = "thread" THEN "thread" ELSE "handler"

\* Which tasks a step that keeps the contexts lets run.
Moved ==
  \/ current' = current /\ Mode' \in {Mode, "handler"}
  \/ current' = current /\ rtos_started /\ Mode = "handler" /\ Mode' = "thread"
  \/ Mode \in {"boot", "handler"} /\ Mode' = Mode /\ current' \in Tasks

LEMMA StepOnContexts ==
  ASSUME CoreInv, CoreInv', Contents, Next
  PROVE  Worked \/ Kept \/ \E t \in Tasks : Created(t)
BY ThreadOnContexts, ExceptionsOnContexts, SaveOnContexts, RestoreOnContexts, BootOnContexts
DEF Next

LEMMA StepMoves ==
  ASSUME CoreInv, CoreInv', Next PROVE Moved
<1> USE DEF Moved, Mode
<1>1. CASE Boot
  BY <1>1 DEF Boot, TaskCreate, CreateTrap, OsStart, CoreInv, TypeOK, Geometry
<1>2. CASE Thread
  BY <1>2 DEF Thread, Compute, Push, Pop, TriggerPendSV, TaskExit, InThread
<1>3. CASE Exceptions
  BY <1>3
  DEF Exceptions, Interrupt, NestedInterrupt, PendSVEnter, TailChain, ExceptionReturn, CoreInv,
      Geometry
<1>4. CASE Save
  BY <1>4 DEF Save, CheckStarted, SaveLow, MoveHigh, SaveHigh
<1>5. CASE Restore
  BY <1>5 DEF Restore, Pick, LoadHigh, MoveBack, LoadLow, SetPSP, CoreInv, TypeOK
<1> QED
  BY <1>1, <1>2, <1>3, <1>4, <1>5 DEF Next

LEMMA RunnableNext ==
  ASSUME CoreInv, CoreInv', Contents, Runnable, Next PROVE Runnable'
<1>1. SUFFICES ASSUME NEW t \in Tasks, t < task_count'
               PROVE  ContextOf(t)'.ctl # Junk
  BY DEF Runnable
<1>2. task_count \in Nat /\ t \in Nat /\ current \in Tasks
  BY StackBounds DEF CoreInv, TypeOK
<1>3. CASE Worked
  BY <1>1, <1>3 DEF Worked, Runnable
<1>4. CASE Kept
  BY <1>1, <1>4 DEF Kept, Runnable
<1>5. ASSUME NEW u \in Tasks, Created(u)
      PROVE  ContextOf(t)'.ctl # Junk
  <2>1. CASE t = u
    <3>1. ContextOf(t)'.ctl = Entry(t)
      BY <1>5, <2>1 DEF Created, Ctx
    <3> QED
      BY <3>1 DEF Entry, Junk
  <2>2. CASE t # u
    <3>1. t < task_count
      BY <1>1, <1>2, <1>5, <2>2 DEF Created
    <3> QED
      BY <1>5, <2>2, <3>1 DEF Created, Runnable
  <2> QED
    BY <2>1, <2>2
<1> QED
  BY <1>3, <1>4, <1>5, StepOnContexts

LEMMA ContextInvariance == Spec => []ContextInv
<1>1. Init => ContextInv
  <2> SUFFICES ASSUME Init
               PROVE  ContextInv
    OBVIOUS
  <2>1. Contents
    BY DEF Init, Contents
  <2>2. Runnable
    BY StackBounds DEF Init, Runnable
  <2> QED
    BY <2>1, <2>2, InitCore DEF ContextInv
<1>2. ASSUME ContextInv, CoreInv', [Next]_vars
      PROVE  ContextInv'
  <2>1. CASE UNCHANGED vars
    BY <1>2, <2>1 DEF vars, ContextInv, Contents, Runnable, ContextOf, Context, InMemory
  <2> QED
    BY <1>2, <2>1, ContentsNext, RunnableNext DEF ContextInv
<1> QED
  BY <1>1, <1>2, CoreInvariance, PTL DEF Spec

(***************************************************************************)
(* Every task resumes with its own registers and its own stack, whatever   *)
(* runs in between and wherever interrupts come: ImplementsTasks.          *)
(***************************************************************************)
THEOREM SwitchesImplementTasks == Spec => ImplementsTasks
<1> DEFINE contexts == [t \in Tasks |-> ContextOf(t)]
<1>1. Init => A!Init
  <2> SUFFICES ASSUME Init
               PROVE  A!Init
    OBVIOUS
  <2>1. \A t \in Tasks : ContextOf(t) = NoCtx
    BY StackBounds, AllPlaces DEF Init, Places
  <2> QED
    BY <2>1, StackBounds DEF Init, A!Init, NoCtx
<1>2. ASSUME ContextInv, ContextInv', [Next]_vars
      PROVE  [A!Next]_<<contexts, current, Mode>>
  <2>1. CASE UNCHANGED vars
    BY <2>1 DEF vars, ContextOf, Context, InMemory, Mode
  <2>2. ASSUME Next, Kept
        PROVE  [A!Next]_<<contexts, current, Mode>>
    <3>1. contexts' = contexts
      BY <2>2 DEF Kept
    <3>2. Moved
      BY <1>2, <2>2, StepMoves DEF ContextInv
    <3>3. CASE current' = current /\ Mode' = Mode
      BY <3>1, <3>3
    <3>4. CASE current' = current /\ Mode' = "handler"
      BY <3>1, <3>4 DEF A!Next, A!Enter, Mode
    <3>5. CASE current' = current /\ rtos_started /\ Mode = "handler" /\ Mode' = "thread"
      <4>1. current \in Tasks /\ ContextOf(current).ctl # Junk
        BY <1>2, <3>5, OnCpu DEF ContextInv, Runnable
      <4>2. contexts[current] # NoCtx
        BY <4>1 DEF NoCtx
      <4> QED
        BY <3>1, <3>5, <4>2 DEF A!Next, A!Leave, Mode, NoCtx
    <3>6. CASE Mode \in {"boot", "handler"} /\ Mode' = Mode /\ current' \in Tasks
      BY <3>1, <3>6 DEF A!Next, A!Choose, Mode
    <3> QED
      BY <3>2, <3>3, <3>4, <3>5, <3>6 DEF Moved
  <2>3. CASE Worked
    <3>1. \A u \in Tasks \ {current} : contexts'[u] = contexts[u]
      BY <2>3 DEF Worked
    <3> QED
      BY <2>3, <3>1 DEF Worked, A!Next, A!Work, Mode
  <2>4. ASSUME NEW t \in Tasks, Created(t)
        PROVE  A!Create(t)
    <3>1. /\ ContextOf(t) = NoCtx
          /\ ContextOf(t)' = [low |-> Zero, high |-> Zero, args |-> Zero, ctl |-> Entry(t),
                              stack |-> <<>>]
      BY <2>4, AboveTop DEF Created, Ctx
    <3>2. contexts' = [contexts EXCEPT ![t] = ContextOf(t)']
      BY <2>4 DEF Created
    <3> QED
      BY <2>4, <3>1, <3>2 DEF Created, A!Create, NoCtx
  <2> QED
    BY <1>2, <2>1, <2>2, <2>3, <2>4, StepOnContexts DEF ContextInv, A!Next
<1>3. [A!Next]_<<contexts, current, Mode>>
        <=> [A!Next]_<<contexts, current,
              IF pc \in {"create", "spin"} THEN "boot"
              ELSE IF pc = "thread" THEN "thread" ELSE "handler">>
  BY DEF Mode
<1> QED
  BY <1>1, <1>2, <1>3, ContextInvariance, PTL DEF Spec, ImplementsTasks, A!Spec
=============================================================================
