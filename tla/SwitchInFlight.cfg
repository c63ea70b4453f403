\* One thread; set_policy may switch between passthrough and the heap
\* while a request is in flight.
CONSTANTS
  t1 = t1
  t2 = t2
  t3 = t3
  Threads <- OneThread
  Blocks = {1, 2}
  Dirs = {0}
  NUM = 8
  Modes = {0, 1}
  InitMode = 0
  MaxSubmits = 2
  QuiescentSwitch = FALSE
  HeapSlots = 3
  QSlots = 3
  TreeSize = 2
  TickBits = 3
  TimeLimit = 1
  MaxTicks = 0
SPECIFICATION Spec
PROPERTY RetireMatchesCompletion
CHECK_DEADLOCK FALSE
