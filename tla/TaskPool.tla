------------------------------ MODULE TaskPool ------------------------------
(***************************************************************************)
(* The TCB pool of Inc/scheduler.h and, as operators on a pool, what one   *)
(* call of os_schedule() (Src/scheduler.c) decides.  Scheduler.tla runs    *)
(* the two loops of that function and shows that they compute              *)
(* AfterSchedule; Kernel.tla takes AfterSchedule as one step, because the  *)
(* function runs with interrupts masked.                                   *)
(*                                                                         *)
(* A task is its index in task_pool[]; current_task and                    *)
(* current_task_index always denote the same slot and are one value.       *)
(***************************************************************************)
EXTENDS Integers

CONSTANTS
  NTasks,     \* number of tasks main() creates
  Priority    \* the priority main() gives to each task

MAX_TASKS == 8
Tasks == 0 .. NTasks - 1
TaskState == {"READY", "RUNNING", "SLEEPING", "BLOCKED"}

ASSUME PoolAssumption ==
  /\ NTasks \in 1 .. MAX_TASKS
  /\ Priority \in [Tasks -> 0 .. 255]

-----------------------------------------------------------------------------
(* st maps tasks to states, cur is the outgoing task, n is task_count.     *)

\* Mutant of Release: step 0 left out.
KeepRunning(st, cur) == st

\* Step 0: a preempted task goes back to READY; a blocked or sleeping one
\* keeps the state its own call gave it.
Release(st, cur) ==
  IF st[cur] = "RUNNING" THEN [st EXCEPT ![cur] = "READY"] ELSE st

Ready(st, n) == {t \in 0 .. n - 1 : st[t] = "READY"}

\* What pass 1 looks for: the READY tasks of the highest priority level.
Top(st, n) ==
  {t \in Ready(st, n) : \A u \in Ready(st, n) : Priority[u] <= Priority[t]}

\* The i-th slot pass 2 visits.
Slot(cur, i, n) == (cur + i) % n

\* The first slot of pass 2 that holds a task of Top.
FirstHit(st, cur, n) ==
  CHOOSE i \in 1 .. n : /\ Slot(cur, i, n) \in Top(st, n)
                        /\ \A j \in 1 .. i - 1 : Slot(cur, j, n) \notin Top(st, n)

\* Mutant of NextTask: pass 2 starts at slot 0 instead of behind the outgoing
\* task.
LowestTop(st, cur, n) == CHOOSE t \in Top(st, n) : \A u \in Top(st, n) : t <= u

NextTask(st, cur, n) == Slot(cur, FirstHit(st, cur, n), n)

\* The whole of os_schedule().  Without a READY task the outgoing task stays
\* on the CPU in whatever state it is (its READY branch cannot be taken: a
\* READY outgoing task is in Ready).
AfterSchedule(st, cur, n) ==
  LET released == Release(st, cur)
      next     == NextTask(released, cur, n)
  IN IF Ready(released, n) = {}
       THEN [state |-> released, current |-> cur]
       ELSE [state |-> [released EXCEPT ![next] = "RUNNING"], current |-> next]
=============================================================================
