--------------------------- MODULE TaskPoolProofs ---------------------------
(***************************************************************************)
(* What one call of os_schedule() decides, proved for every pool: pass 2   *)
(* visits every slot, so its first hit exists whenever some task is READY, *)
(* and the chosen task is READY and of the highest priority.               *)
(***************************************************************************)
EXTENDS TaskPool, WellFoundedInduction, TLAPS

\* A nonempty set of naturals has a least element.
LEMMA LeastElement ==
  ASSUME NEW S \in SUBSET Nat, S # {}
  PROVE  \E m \in S : \A k \in S : m <= k
<1>1. \E m \in S : \A k \in S : <<k, m>> \notin OpToRel(<, Nat)
  BY NatLessThanWellFounded, WFMin
<1>2. PICK m \in S : \A k \in S : <<k, m>> \notin OpToRel(<, Nat)
  BY <1>1
<1>3. \A k \in S : ~(k < m)
  BY <1>2 DEF OpToRel
<1> QED
  BY <1>3

\* (current_task_index + i) % task_count without the modulo.
LEMMA SlotValue ==
  ASSUME NEW n \in Nat \ {0}, NEW cur \in 0 .. n - 1, NEW i \in 1 .. n
  PROVE  /\ Slot(cur, i, n) = IF cur + i < n THEN cur + i ELSE cur + i - n
         /\ Slot(cur, i, n) \in 0 .. n - 1
<1>1. cur + i \in 0 .. 2 * n - 1
  OBVIOUS
<1>2. (cur + i) % n = IF cur + i < n THEN cur + i ELSE cur + i - n
  BY <1>1
<1> QED
  BY <1>2 DEF Slot

\* Pass 2 of os_schedule() visits every slot, the outgoing task's last.
LEMMA EverySlotScanned ==
  ASSUME NEW n \in Nat \ {0}, NEW cur \in 0 .. n - 1, NEW t \in 0 .. n - 1
  PROVE  \E i \in 1 .. n : Slot(cur, i, n) = t
<1>1. CASE t > cur
  <2>1. t - cur \in 1 .. n
    BY <1>1
  <2>2. Slot(cur, t - cur, n) = t
    BY <2>1, SlotValue
  <2> QED
    BY <2>1, <2>2
<1>2. CASE ~(t > cur)
  <2>1. t - cur + n \in 1 .. n
    BY <1>2
  <2>2. Slot(cur, t - cur + n, n) = t
    BY <1>2, <2>1, SlotValue
  <2> QED
    BY <2>1, <2>2
<1> QED
  BY <1>1, <1>2

\* Pass 1 finds a level whenever some task is READY.
LEMMA TopExists ==
  ASSUME PoolAssumption, NEW st, NEW n \in 1 .. NTasks, Ready(st, n) # {}
  PROVE  Top(st, n) # {}
<1> DEFINE Gap(t) == 255 - Priority[t]
           Gaps   == {Gap(t) : t \in Ready(st, n)}
<1>1. \A t \in Ready(st, n) : t \in Tasks /\ Priority[t] \in 0 .. 255
  BY DEF PoolAssumption, Tasks, Ready, MAX_TASKS
<1>2. Gaps \in SUBSET Nat /\ Gaps # {}
  BY <1>1
<1>3. PICK g \in Gaps : \A h \in Gaps : g <= h
  BY <1>2, LeastElement
<1>4. PICK t \in Ready(st, n) : g = Gap(t)
  OBVIOUS
<1>5. \A u \in Ready(st, n) : Priority[u] <= Priority[t]
  <2> SUFFICES ASSUME NEW u \in Ready(st, n)
               PROVE  Priority[u] <= Priority[t]
    OBVIOUS
  <2>1. 255 - Priority[t] <= 255 - Priority[u]
    BY <1>3, <1>4
  <2>2. Priority[t] \in Int /\ Priority[u] \in Int
    BY <1>1
  <2> HIDE DEF Gaps
  <2> QED
    BY <2>1, <2>2
<1> QED
  BY <1>5 DEF Top

\* The first hit of pass 2 exists and is what its definition says.
LEMMA FirstHitMeetsTop ==
  ASSUME PoolAssumption, NEW st, NEW n \in 1 .. NTasks, NEW cur \in 0 .. n - 1,
         Ready(st, n) # {}
  PROVE  /\ FirstHit(st, cur, n) \in 1 .. n
         /\ Slot(cur, FirstHit(st, cur, n), n) \in Top(st, n)
         /\ \A j \in 1 .. FirstHit(st, cur, n) - 1 : Slot(cur, j, n) \notin Top(st, n)
<1> DEFINE Hits == {i \in 1 .. n : Slot(cur, i, n) \in Top(st, n)}
<1>0. n \in Nat \ {0} /\ cur \in 0 .. n - 1
  BY DEF PoolAssumption, MAX_TASKS
<1>1. PICK t \in Top(st, n) : TRUE
  BY TopExists
<1>2. t \in 0 .. n - 1
  BY DEF Top, Ready
<1>3. \E i \in 1 .. n : Slot(cur, i, n) = t
  BY <1>0, <1>2, EverySlotScanned
<1>4. Hits \in SUBSET Nat /\ Hits # {}
  BY <1>0, <1>3
<1>5. PICK i \in Hits : \A k \in Hits : i <= k
  BY <1>4, LeastElement
<1>6. \A j \in 1 .. i - 1 : Slot(cur, j, n) \notin Top(st, n)
  BY <1>0, <1>5
<1>7. \E k \in 1 .. n : /\ Slot(cur, k, n) \in Top(st, n)
                        /\ \A j \in 1 .. k - 1 : Slot(cur, j, n) \notin Top(st, n)
  BY <1>5, <1>6
<1> QED
  BY <1>7 DEF FirstHit

\* A slot that meets the condition of pass 2 first is the first hit.
LEMMA FirstHitUnique ==
  ASSUME PoolAssumption, NEW st, NEW n \in 1 .. NTasks, NEW cur \in 0 .. n - 1,
         NEW i \in 1 .. n,
         Slot(cur, i, n) \in Top(st, n),
         \A j \in 1 .. i - 1 : Slot(cur, j, n) \notin Top(st, n)
  PROVE  FirstHit(st, cur, n) = i
<1>1. Ready(st, n) # {} /\ n \in Nat
  BY DEF Top, PoolAssumption, MAX_TASKS
<1> DEFINE h == FirstHit(st, cur, n)
<1>2. /\ h \in 1 .. n
      /\ Slot(cur, h, n) \in Top(st, n)
      /\ \A j \in 1 .. h - 1 : Slot(cur, j, n) \notin Top(st, n)
  BY <1>1, FirstHitMeetsTop
<1> HIDE DEF h
<1>3. ~(h < i) /\ ~(i < h)
  BY <1>1, <1>2
<1> QED
  BY <1>1, <1>2, <1>3 DEF h

\* No READY task outranks the chosen one (scheduler.c, policy 1).
LEMMA NextTaskIsTop ==
  ASSUME PoolAssumption, NEW st, NEW n \in 1 .. NTasks, NEW cur \in 0 .. n - 1,
         Ready(st, n) # {}
  PROVE  /\ NextTask(st, cur, n) \in 0 .. n - 1
         /\ st[NextTask(st, cur, n)] = "READY"
         /\ \A u \in Ready(st, n) : Priority[u] <= Priority[NextTask(st, cur, n)]
<1>1. NextTask(st, cur, n) \in Top(st, n)
  BY FirstHitMeetsTop DEF NextTask
<1> QED
  BY <1>1 DEF Top, Ready

\* How many slots pass 2 visits before slot t.
LEMMA SlotDistance ==
  ASSUME NEW n \in Nat \ {0}, NEW cur \in 0 .. n - 1, NEW i \in 1 .. n
  PROVE  (Slot(cur, i, n) - cur - 1) % n = i - 1
<1> DEFINE d == Slot(cur, i, n) - cur - 1
<1>1. d = i - 1 \/ d = i - 1 - n
  <2>1. CASE cur + i < n
    <3>1. Slot(cur, i, n) = cur + i
      BY <2>1, SlotValue
    <3> QED
      BY <3>1
  <2>2. CASE ~(cur + i < n)
    <3>1. Slot(cur, i, n) = cur + i - n
      BY <2>2, SlotValue
    <3> QED
      BY <3>1
  <2> QED
    BY <2>1, <2>2
<1>2. (i - 1) % n = i - 1 /\ (i - 1 - n) % n = i - 1
  OBVIOUS
<1> HIDE DEF d
<1>3. d % n = i - 1
  BY <1>1, <1>2
<1> QED
  BY <1>3 DEF d

\* Going on from the h-th slot reaches the later slots of the same scan.
LEMMA SlotAfterSlot ==
  ASSUME NEW n \in Nat \ {0}, NEW cur \in 0 .. n - 1,
         NEW h \in 1 .. n, NEW i \in 1 .. n, h # i, ~(i < h)
  PROVE  Slot(Slot(cur, h, n), i - h, n) = Slot(cur, i, n)
<1> DEFINE c == Slot(cur, h, n)
<1>1. i - h \in 1 .. n /\ c \in 0 .. n - 1
  BY SlotValue
<1>2. c = IF cur + h < n THEN cur + h ELSE cur + h - n
  BY SlotValue
<1>3. Slot(cur, i, n) = IF cur + i < n THEN cur + i ELSE cur + i - n
  BY SlotValue
<1> HIDE DEF c
<1>4. Slot(c, i - h, n) = IF c + (i - h) < n THEN c + (i - h) ELSE c + (i - h) - n
  BY <1>1, SlotValue
<1>5. CASE cur + h < n
  <2>1. c = cur + h /\ c + (i - h) = cur + i
    BY <1>2, <1>5
  <2> QED
    BY <1>3, <1>4, <2>1 DEF c
<1>6. CASE ~(cur + h < n)
  <2>1. c = cur + h - n /\ c + (i - h) = cur + i - n
    BY <1>2, <1>6
  <2>2. ~(cur + i < n) /\ cur + i - n < n
    BY <1>6
  <2>3. Slot(cur, i, n) = cur + i - n
    BY <1>3, <2>2
  <2>4. Slot(c, i - h, n) = cur + i - n
    BY <1>4, <2>1, <2>2
  <2> QED
    BY <2>3, <2>4 DEF c
<1> QED
  BY <1>5, <1>6

\* A task of the top level that is not chosen comes later in the scan than
\* the chosen one, and is closer to it than to the outgoing task.
LEMMA PassedOverGetsCloser ==
  ASSUME PoolAssumption, NEW st, NEW n \in 1 .. NTasks, NEW cur \in 0 .. n - 1,
         NEW t \in Top(st, n), t # NextTask(st, cur, n)
  PROVE  (t - NextTask(st, cur, n) - 1) % n < (t - cur - 1) % n
<1> DEFINE h == FirstHit(st, cur, n)
           c == NextTask(st, cur, n)
<1>1. n \in Nat \ {0} /\ t \in 0 .. n - 1 /\ Ready(st, n) # {}
  BY DEF PoolAssumption, MAX_TASKS, Top, Ready
<1>2. /\ h \in 1 .. n
      /\ c = Slot(cur, h, n)
      /\ \A j \in 1 .. h - 1 : Slot(cur, j, n) \notin Top(st, n)
  BY <1>1, FirstHitMeetsTop DEF NextTask
<1>3. PICK i \in 1 .. n : Slot(cur, i, n) = t
  BY <1>1, EverySlotScanned
<1> HIDE DEF h, c
<1>4. i # h
  BY <1>2, <1>3 DEF c
<1>5. ~(i < h)
  BY <1>1, <1>2, <1>3
<1>6. i - h \in 1 .. n
  BY <1>1, <1>2, <1>4, <1>5
<1>7. c \in 0 .. n - 1
  BY <1>1, <1>2, SlotValue
<1>8. Slot(c, i - h, n) = t
  BY <1>1, <1>2, <1>3, <1>4, <1>5, SlotAfterSlot
<1>9. (t - cur - 1) % n = i - 1
  BY <1>1, <1>3, SlotDistance
<1>10. (t - c - 1) % n = i - h - 1
  BY <1>1, <1>6, <1>7, <1>8, SlotDistance
<1> QED
  BY <1>1, <1>2, <1>9, <1>10 DEF c

\* What a context switch does to a pool in which only the outgoing task can
\* be RUNNING: nobody falls asleep or wakes up, and if anyone can run, the
\* incoming task is RUNNING and outranks or equals all that stay READY.
LEMMA ScheduleResult ==
  ASSUME PoolAssumption,
         NEW st \in [Tasks -> TaskState], NEW cur \in Tasks,
         \A t \in Tasks : st[t] = "RUNNING" => t = cur
  PROVE  LET r == AfterSchedule(st, cur, NTasks)
         IN /\ r.state \in [Tasks -> TaskState]
            /\ r.current \in Tasks
            /\ \A t \in Tasks :
                 /\ r.state[t] = "RUNNING" => t = r.current
                 /\ st[t] \in {"SLEEPING", "BLOCKED"} => r.state[t] = st[t]
                 /\ st[t] \in {"READY", "RUNNING"} => r.state[t] \in {"READY", "RUNNING"}
            /\ (\E t \in Tasks : st[t] \in {"READY", "RUNNING"}) =>
                 /\ r.state[r.current] = "RUNNING"
                 /\ \A u \in Tasks :
                      r.state[u] = "READY" => Priority[u] <= Priority[r.current]
<1> DEFINE rel  == Release(st, cur)
           next == NextTask(rel, cur, NTasks)
           r    == AfterSchedule(st, cur, NTasks)
<1>1. /\ NTasks \in 1 .. NTasks
      /\ Tasks = 0 .. NTasks - 1
  BY DEF PoolAssumption, MAX_TASKS, Tasks
<1>2. /\ rel \in [Tasks -> TaskState]
      /\ \A t \in Tasks : rel[t] # "RUNNING"
      /\ \A t \in Tasks : st[t] \in {"SLEEPING", "BLOCKED"} => rel[t] = st[t]
      /\ \A t \in Tasks : st[t] \in {"READY", "RUNNING"} => rel[t] = "READY"
  BY DEF Release, TaskState
<1>3. Ready(rel, NTasks) = {t \in Tasks : rel[t] = "READY"}
  BY <1>1 DEF Ready
<1> HIDE DEF rel
<1>4. CASE Ready(rel, NTasks) = {}
  <2>1. r = [state |-> rel, current |-> cur]
    BY <1>4 DEF AfterSchedule, rel
  <2>2. ~\E t \in Tasks : st[t] \in {"READY", "RUNNING"}
    BY <1>2, <1>3, <1>4
  <2> QED
    BY <1>2, <2>1, <2>2
<1>5. CASE Ready(rel, NTasks) # {}
  <2>1. r = [state |-> [rel EXCEPT ![next] = "RUNNING"], current |-> next]
    BY <1>5 DEF AfterSchedule, rel
  <2>2. /\ next \in Tasks
        /\ rel[next] = "READY"
        /\ \A u \in Ready(rel, NTasks) : Priority[u] <= Priority[next]
    BY <1>1, <1>5, NextTaskIsTop
  <2> HIDE DEF next, r
  <2>3. /\ r.state = [rel EXCEPT ![next] = "RUNNING"]
        /\ r.current = next
    BY <2>1
  <2>4. r.state \in [Tasks -> TaskState] /\ r.state[next] = "RUNNING"
    BY <1>2, <2>2, <2>3 DEF TaskState
  <2>5. \A t \in Tasks : t # next => r.state[t] = rel[t]
    BY <1>2, <2>3
  <2>6. \A t \in Tasks :
          /\ r.state[t] = "RUNNING" => t = next
          /\ st[t] \in {"SLEEPING", "BLOCKED"} => r.state[t] = st[t]
          /\ st[t] \in {"READY", "RUNNING"} => r.state[t] \in {"READY", "RUNNING"}
    BY <1>2, <2>2, <2>4, <2>5
  <2>7. \A u \in Tasks : r.state[u] = "READY" => Priority[u] <= Priority[next]
    BY <1>3, <2>2, <2>4, <2>5
  <2> QED
    BY <2>2, <2>3, <2>4, <2>6, <2>7 DEF r
<1> QED
  BY <1>4, <1>5
=============================================================================
