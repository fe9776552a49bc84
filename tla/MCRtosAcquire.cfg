CONSTANTS
  NTasks = 4
  Priority <- TopPriority
  Calls <- TopCalls
  Delays = {1}
  HalfRange = 1
  IsrSignals = FALSE
  sem = sem
  mtx = mtx
  NoSem = NoSem
  Sems <- BothSems
  Mutexes <- BothMutexes
  InitialCount <- BothInitial
  MaxCount = 1
  Uses <- TopUses
  IsrSems = {}
  Disciplined <- AllTasks
SPECIFICATION FairSpec
PROPERTIES
  AcquireReturns
  DelayReturnsToTop
  FairWithinLevel
