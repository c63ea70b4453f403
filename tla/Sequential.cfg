\* One thread, every elevator, set_policy only while no I/O is in progress.
CONSTANTS
  t1 = t1
  t2 = t2
  t3 = t3
  Threads <- OneThread
  Blocks = {1, 2}
  Dirs = {0, 1}
  NUM = 8
  Modes = {0, 1, 2, 3}
  InitMode = 0
  MaxSubmits = 3
  QuiescentSwitch = TRUE
  HeapSlots = 3
  QSlots = 3
  TreeSize = 2
  TickBits = 3
  TimeLimit = 1
  MaxTicks = 1
SPECIFICATION Spec
INVARIANT TypeOK
PROPERTY OwnRequestServiced
PROPERTY CallsReturn
