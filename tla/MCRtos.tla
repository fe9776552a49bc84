------------------------------- MODULE MCRtos -------------------------------
(* Rtos on four tasks: sem is a plain semaphore, mtx a mutex.              *)
EXTENDS Rtos

CONSTANTS sem, mtx
BothSems == {sem, mtx}
BothMutexes == {mtx}
BothInitial == [s \in Sems |-> IF s = mtx THEN 1 ELSE 0]
AllTasks == Tasks

UsesMutex == {<<"acquire", mtx>>, <<"release", mtx>>}

\* Three tasks on two levels compete for the mutex, two of them wait for
\* the semaphore as well, which an idle task and an interrupt signal.
CrowdPriority == [t \in Tasks |-> IF t = NTasks - 1 THEN 0 ELSE 1 + (t \div 2)]
CrowdCalls ==
  [t \in Tasks |-> CASE t = NTasks - 1 -> {"signal"}
                     [] t = 2 -> {"block", "signal", "delay"}
                     [] OTHER -> {"block", "signal"}]
CrowdUses ==
  [t \in Tasks |-> CASE t = NTasks - 1 -> {<<"signal", sem>>}
                     [] t = 0 -> UsesMutex
                     [] OTHER -> UsesMutex \cup {<<"wait", sem>>}]

\* Two equals share the mutex below a task that sleeps and may also wait for
\* a semaphore that nobody signals.
TopPriority == [t \in Tasks |-> CASE t = 2 -> 0 [] t = 3 -> 2 [] OTHER -> 1]
TopCalls ==
  [t \in Tasks |-> CASE t = 2 -> {}
                     [] t = 3 -> {"block", "delay"}
                     [] OTHER -> {"block", "signal"}]
TopUses ==
  [t \in Tasks |-> CASE t = 2 -> {}
                     [] t = 3 -> {<<"wait", sem>>}
                     [] OTHER -> UsesMutex]
=============================================================================
