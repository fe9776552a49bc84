------------------------- MODULE AbstractSemaphore --------------------------
(***************************************************************************)
(* The textbook counting semaphore (rtos.h: "Wait (P / acquire)", "Signal  *)
(* (V / release)").  Signal adds a permit; Wait returns by taking one.     *)
(***************************************************************************)
EXTENDS Naturals

CONSTANTS Tasks, Objects, InitialPermits

VARIABLES
  permits,    \* [Objects -> Nat]
  asking      \* the tasks inside osSemaphoreWait() of each object

Init ==
  /\ permits = InitialPermits
  /\ asking = [s \in Objects |-> {}]

Ask(t, s) ==
  /\ \A o \in Objects : t \notin asking[o]
  /\ asking' = [asking EXCEPT ![s] = @ \cup {t}]
  /\ UNCHANGED permits

Return(t, s) ==
  /\ t \in asking[s]
  /\ permits[s] > 0
  /\ permits' = [permits EXCEPT ![s] = @ - 1]
  /\ asking' = [asking EXCEPT ![s] = @ \ {t}]

Signal(s) ==
  /\ permits' = [permits EXCEPT ![s] = @ + 1]
  /\ UNCHANGED asking

Next ==
  \E s \in Objects :
    \/ Signal(s)
    \/ \E t \in Tasks : Ask(t, s) \/ Return(t, s)

Spec == Init /\ [][Next]_<<permits, asking>>
=============================================================================
