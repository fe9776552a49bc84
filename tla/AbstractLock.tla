---------------------------- MODULE AbstractLock ----------------------------
(***************************************************************************)
(* What osMutexAcquire() and osMutexRelease() promise (rtos.h): a lock has *)
(* at most one holder, is given only to a task that asked for it and only  *)
(* while it is free, and is freed only by its holder.                      *)
(***************************************************************************)
CONSTANTS
  Tasks,
  Locks,
  Free        \* the holder of a lock that nobody holds

VARIABLES
  holder,     \* [Locks -> Tasks \cup {Free}]
  wanting     \* the tasks inside osMutexAcquire() of each lock

Init ==
  /\ holder = [l \in Locks |-> Free]
  /\ wanting = [l \in Locks |-> {}]

Busy(t) == \E l \in Locks : t \in wanting[l]

\* A holder may ask too: it then waits for itself.
Request(t, l) ==
  /\ ~Busy(t)
  /\ wanting' = [wanting EXCEPT ![l] = @ \cup {t}]
  /\ UNCHANGED holder

Take(t, l) ==
  /\ holder[l] = Free
  /\ t \in wanting[l]
  /\ holder' = [holder EXCEPT ![l] = t]
  /\ wanting' = [wanting EXCEPT ![l] = @ \ {t}]

Drop(t, l) ==
  /\ holder[l] = t
  /\ ~Busy(t)
  /\ holder' = [holder EXCEPT ![l] = Free]
  /\ UNCHANGED wanting

Next == \E t \in Tasks, l \in Locks : Request(t, l) \/ Take(t, l) \/ Drop(t, l)

Spec == Init /\ [][Next]_<<holder, wanting>>
=============================================================================
