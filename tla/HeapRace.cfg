\* One thread, every elevator, set_policy only while no I/O is in progress.
CONSTANTS
  t1 = t1
  t2 = t2
  t3 = t3
  Threads <- TwoThreads
  Blocks = {1, 2}
  Dirs = {0}
  NUM = 8
  Modes = {1}
  InitMode = 1
  MaxSubmits = 2
  QuiescentSwitch = TRUE
  HeapSlots = 3
  QSlots = 3
  TreeSize = 2
  TickBits = 3
  TimeLimit = 1
  MaxTicks = 0
SPECIFICATION Spec

PROPERTY OwnRequestServiced
CHECK_DEADLOCK FALSE
