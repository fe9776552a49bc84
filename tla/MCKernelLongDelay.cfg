CONSTANTS
  NTasks = 3
  Priority <- LadderPriority
  Calls <- LadderCalls
  Delays = {5}
  HalfRange = 3
  IsrSignals = FALSE
SPECIFICATION KernelSpec
PROPERTY
  NeverWakesEarly
