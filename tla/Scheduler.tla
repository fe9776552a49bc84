----------------------------- MODULE Scheduler ------------------------------
(***************************************************************************)
(* os_schedule() of Src/scheduler.c, one step per loop iteration.  The     *)
(* function is called again and again; between two calls the other         *)
(* components may have changed the task states (Call).                     *)
(***************************************************************************)
EXTENDS TaskPool

VARIABLES
  phase,      \* where the function is: "idle" between two calls
  state,      \* task_pool[].state
  current,    \* current_task_index (and current_task)
  i,          \* loop counter of the pass being run
  max_prio,
  any_ready,
  entry       \* history: the pool and the outgoing task at the call

vars == <<phase, state, current, i, max_prio, any_ready, entry>>
Phases == {"idle", "release", "pass1", "pass2", "fallback", "done"}

\* The pools a caller can pass: only the outgoing task can be RUNNING.
Pools(cur) ==
  {st \in [Tasks -> TaskState] : \A t \in Tasks : st[t] = "RUNNING" => t = cur}

\* Mutant of Init: osStart() forgets the "- 1".
InitPastLast ==
  /\ phase = "idle"
  /\ state = [t \in Tasks |-> "READY"]
  /\ current = NTasks
  /\ i = 0
  /\ max_prio = 0
  /\ any_ready = FALSE
  /\ entry = [state |-> state, current |-> current]

\* osStart() leaves every task READY and the last one outgoing.
Init ==
  /\ phase = "idle"
  /\ state = [t \in Tasks |-> "READY"]
  /\ current = NTasks - 1
  /\ i = 0
  /\ max_prio = 0
  /\ any_ready = FALSE
  /\ entry = [state |-> state, current |-> current]

Call ==
  /\ phase \in {"idle", "done"}
  /\ \E st \in Pools(current) :
       /\ state' = st
       /\ entry' = [state |-> st, current |-> current]
  /\ phase' = "release"
  /\ UNCHANGED <<current, i, max_prio, any_ready>>

ReleaseOutgoing ==
  /\ phase = "release"
  /\ state' = Release(state, current)
  /\ phase' = "pass1"
  /\ i' = 0
  /\ max_prio' = 0
  /\ any_ready' = FALSE
  /\ UNCHANGED <<current, entry>>

\* One iteration of pass 1.
ScanPriority ==
  /\ phase = "pass1"
  /\ i < NTasks
  /\ IF state[i] = "READY" /\ (~any_ready \/ Priority[i] > max_prio)
       THEN max_prio' = Priority[i] /\ any_ready' = TRUE
       ELSE UNCHANGED <<max_prio, any_ready>>
  /\ i' = i + 1
  /\ UNCHANGED <<phase, state, current, entry>>

\* Mutant of StartPass2: pass 2 starts at the outgoing task itself.
StartPass2AtZero ==
  /\ phase = "pass1"
  /\ i = NTasks
  /\ phase' = IF any_ready THEN "pass2" ELSE "fallback"
  /\ i' = 0
  /\ UNCHANGED <<state, current, max_prio, any_ready, entry>>

StartPass2 ==
  /\ phase = "pass1"
  /\ i = NTasks
  /\ phase' = IF any_ready THEN "pass2" ELSE "fallback"
  /\ i' = 1
  /\ UNCHANGED <<state, current, max_prio, any_ready, entry>>

\* One iteration of pass 2; the loop runs while i <= task_count.
SelectSlot ==
  /\ phase = "pass2"
  /\ LET idx == Slot(current, i, NTasks)
     IN IF state[idx] = "READY" /\ Priority[idx] = max_prio
          THEN /\ current' = idx
               /\ state' = [state EXCEPT ![idx] = "RUNNING"]
               /\ phase' = "done"
               /\ UNCHANGED i
          ELSE /\ phase' = IF i = NTasks THEN "fallback" ELSE "pass2"
               /\ i' = i + 1
               /\ UNCHANGED <<current, state>>
  /\ UNCHANGED <<max_prio, any_ready, entry>>

Fallback ==
  /\ phase = "fallback"
  /\ state' = IF state[current] = "READY"
                THEN [state EXCEPT ![current] = "RUNNING"] ELSE state
  /\ phase' = "done"
  /\ UNCHANGED <<current, i, max_prio, any_ready, entry>>

Next ==
  Call \/ ReleaseOutgoing \/ ScanPriority \/ StartPass2 \/ SelectSlot \/ Fallback

Spec == Init /\ [][Next]_vars

-----------------------------------------------------------------------------
\* Type correctness; any_ready is the uint8_t flag read as a Boolean.
TypeOK ==
  /\ phase \in Phases
  /\ state \in [Tasks -> TaskState]
  /\ current \in Tasks
  /\ i \in 0 .. NTasks + 1
  /\ max_prio \in 0 .. 255
  /\ any_ready \in BOOLEAN
  /\ entry \in [state : [Tasks -> TaskState], current : Tasks]

(***************************************************************************)
(* The two loops compute the policy of scheduler.c's header: when the call *)
(* is over, the pool and current_task are what AfterSchedule says, i.e.    *)
(* the READY task of the highest priority that comes first in creation     *)
(* order after the outgoing one, and nothing else has changed.             *)
(***************************************************************************)
LoopsMeetPolicy ==
  phase = "done" =>
    [state |-> state, current |-> current]
      = AfterSchedule(entry.state, entry.current, NTasks)

(***************************************************************************)
(* The code after the two loops is never a second chance: it is reached    *)
(* only if no task at all was READY, so pass 2 never misses a level that   *)
(* pass 1 found.                                                           *)
(***************************************************************************)
FallbackOnlyWhenNoneReady ==
  phase = "fallback" => Ready(state, NTasks) = {}
=============================================================================
