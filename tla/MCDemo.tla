------------------------------- MODULE MCDemo -------------------------------
(* The shipped application, with delays of one tick.                       *)
EXTENDS Demo

DemoSems == {sem_blink}
DemoInitial == [s \in Sems |-> 0]
=============================================================================
