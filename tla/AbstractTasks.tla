--------------------------- MODULE AbstractTasks ----------------------------
(***************************************************************************)
(* What a context switch promises: every task has a context of its own     *)
(* (registers and stack), which changes only by the task's own code while  *)
(* the task runs, whoever runs in between.                                 *)
(***************************************************************************)
CONSTANTS
  Tasks,
  NoContext,    \* of a task that was not created
  Start         \* [Tasks -> contexts] in which the tasks begin

VARIABLES
  context,      \* [Tasks -> contexts]
  running,      \* the task that runs in thread mode
  mode          \* "boot" in main(), else "thread" or "handler"

Init ==
  /\ context = [t \in Tasks |-> NoContext]
  /\ mode = "boot"
  /\ running \in Tasks

Create(t) ==
  /\ mode = "boot"
  /\ context[t] = NoContext
  /\ context' = [context EXCEPT ![t] = Start[t]]
  /\ UNCHANGED <<running, mode>>

\* From boot or from a task; nobody's context changes.
Enter ==
  /\ mode' = "handler"
  /\ UNCHANGED <<context, running>>

Choose ==
  /\ mode \in {"boot", "handler"}
  /\ running' \in Tasks
  /\ UNCHANGED <<context, mode>>

Leave ==
  /\ mode = "handler"
  /\ context[running] # NoContext
  /\ mode' = "thread"
  /\ UNCHANGED <<context, running>>

\* The code of the running task may do anything to its own context.
Work ==
  /\ mode = "thread"
  /\ \A t \in Tasks \ {running} : context'[t] = context[t]
  /\ UNCHANGED <<running, mode>>

Next == Enter \/ Choose \/ Leave \/ Work \/ \E t \in Tasks : Create(t)

Spec == Init /\ [][Next]_<<context, running, mode>>
=============================================================================
