\* IO_type 0 with three threads sharing a pool of eight descriptors
\* (two chains): pool exhaustion, partial allocation and its rollback.
CONSTANTS
  t1 = t1
  t2 = t2
  t3 = t3
  Threads <- ThreeThreads
  Blocks = {1, 2, 3}
  Dirs = {0}
  NUM = 8
  Modes = {0}
  InitMode = 0
  MaxSubmits = 4
  QuiescentSwitch = TRUE
  HeapSlots = 3
  QSlots = 3
  TreeSize = 2
  TickBits = 3
  TimeLimit = 1
  MaxTicks = 0
SPECIFICATION Spec
INVARIANT ChainsAllOrNothing
INVARIANT InFlightChainsOwned
PROPERTY BlockDeviceSpec
