---------------------------- MODULE MCScheduler -----------------------------
(* Scheduler on four tasks laid out like main.c's: two tasks share a level *)
(* between a higher and a lower one.                                       *)
EXTENDS Scheduler

MCPriority == [t \in Tasks |-> CASE t = 0 -> 1 [] t = 1 -> 1 [] t = 2 -> 2 [] OTHER -> 0]
=============================================================================
