CONSTANTS
  NTasks = 2
  Priority <- LevelPriority
  Calls <- NoIdleCalls
  Delays = {2}
  HalfRange = 2
  IsrSignals = FALSE
SPECIFICATION KernelSpec
INVARIANT
  WaitsForWakeUp
