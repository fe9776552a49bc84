CONSTANTS
  NTasks = 2
  Priority <- MCPriority
  Calls <- MCCalls
  Delays = {1}
  HalfRange = 1
  IsrSignals = FALSE
  StackWords = 3
  FrameWords = 1
  Reader = 0
SPECIFICATION Spec
INVARIANTS
  StatsTypeOK
  OnlyDispatchedPay
  MarkIsBracketed
