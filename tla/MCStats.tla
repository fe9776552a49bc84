------------------------------ MODULE MCStats -------------------------------
(* Stats on a reader and a task of its own level that never blocks and     *)
(* preempts it in the middle of a call.                                    *)
EXTENDS Stats

MCPriority == [t \in Tasks |-> 1]
MCCalls == [t \in Tasks |-> IF t = Reader THEN {"delay"} ELSE {}]
=============================================================================
