CONSTANTS
  NTasks = 3
  Priority <- LadderPriority
  Calls <- LadderCalls
  Delays = {1}
  HalfRange = 2
  IsrSignals = FALSE
SPECIFICATION FairKernelSpec
PROPERTY
  FairShare
