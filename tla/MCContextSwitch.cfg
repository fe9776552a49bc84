CONSTANTS
  MAX_TASKS = 2
  StackBlocks = 5
  Versions = {0, 1}
SPECIFICATION Spec
INVARIANT
  TypeOK
PROPERTIES
  WritesStayInside
  ImplementsTasks
CHECK_DEADLOCK FALSE
