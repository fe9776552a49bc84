CONSTANTS
  sdata = 1
  edata = 3
  sbss = 4
  ebss = 7
  end = 8
  estack = 12
  MinStackSize = 2
  SystemCoreClock = 1
  rtos_started = 5
  sbrk_heap_end = 6
  Image <- MCImage
  Stale = {0, 7}
  Increments <- MCIncrements
SPECIFICATION FairSpec
INVARIANTS
  TypeOK
  StaticsInitialised
  WaitStateInTime
  TickIsOneMillisecond
  NoSwitchBeforeOsStart
  HeapStaysInPlace
PROPERTY
  BootCompletes
