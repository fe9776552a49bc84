CONSTANTS
  NTasks = 4
  Priority <- MCPriority
SPECIFICATION Spec
INVARIANTS
  TypeOK
  LoopsMeetPolicy
