CONSTANTS
  NTasks = 4
  Priority <- CrowdPriority
  Calls <- CrowdCalls
  Delays = {1}
  HalfRange = 1
  IsrSignals = TRUE
  sem = sem
  mtx = mtx
  NoSem = NoSem
  Sems <- BothSems
  Mutexes <- BothMutexes
  InitialCount <- BothInitial
  MaxCount = 1
  Uses <- CrowdUses
  IsrSems = {sem}
  Disciplined = {0, 1}
SPECIFICATION Spec
INVARIANTS
  RtosTypeOK
  BlockedIffQueued
  NoLostWakeup
  QueueFits
  OnePermitPerMutex
  TrapStopsLower
PROPERTIES
  OnlyOwnerReleases
  FirstComeFirstServed
  ImplementsLock
  ImplementsSemaphore
  ImplementsKernel
