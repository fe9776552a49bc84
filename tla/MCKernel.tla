------------------------------ MODULE MCKernel ------------------------------
(* Kernel on main.c's task table: led and counter (priority 1), consumer   *)
(* (priority 2, blocks) and idle (priority 0).  MaxDelay is the longest    *)
(* delay that the comparison across the wrap of sys_tick can represent.    *)
EXTENDS Kernel

MCPriority == [t \in Tasks |-> CASE t = 2 -> 2 [] t = 3 -> 0 [] OTHER -> 1]
MCCalls ==
  [t \in Tasks |-> CASE t = 0 -> {"delay", "signal"}
                     [] t = 1 -> {"delay"}
                     [] t = 2 -> {"block"}
                     [] OTHER -> {}]
MaxDelay == HalfRange + 1
MCDelays == {0, 1, MaxDelay}

\* Two tasks that never block below one that sleeps: task_led and
\* task_counter without their delays, and a periodic task above them.
LadderPriority == [t \in Tasks |-> IF t = 2 THEN 2 ELSE 1]
LadderCalls == [t \in Tasks |-> IF t = 2 THEN {"delay"} ELSE {}]

\* An application of one level without an idle task.
LevelPriority == [t \in Tasks |-> 1]
NoIdleCalls == [t \in Tasks |-> {"delay"}]
=============================================================================
