CONSTANTS
  NTasks = 4
  Priority <- MCPriority
  Calls <- MCCalls
  Delays <- MCDelays
  HalfRange = 3
  IsrSignals = TRUE
SPECIFICATION KernelSpec
INVARIANTS
  TypeOK
  RunningMatchesCPU
  HighestPriorityRuns
  DelayExact
PROPERTIES
  RoundRobinProgress
