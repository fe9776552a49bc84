CONSTANTS
  NTasks = 4
  Priority <- DemoPriority
  Calls <- DemoCalls
  Delays = {1}
  HalfRange = 1
  IsrSignals = FALSE
  sem_blink = sem_blink
  NoSem = NoSem
  Sems <- DemoSems
  Mutexes = {}
  InitialCount <- DemoInitial
  MaxCount = 1
  Uses <- DemoUses
  IsrSems = {}
  Disciplined = {}
  LedDelay = 1
  CounterDelay = 1
  CountRange = 3
SPECIFICATION FairDemoSpec
INVARIANTS
  LockStep
  NoStoredPermit
PROPERTIES
  ImplementsBlink
  EverybodyProgresses
