\* Two callers in the deadline elevator with the clock running past the
\* time limit: the starvation bound.
CONSTANTS
  t1 = t1
  t2 = t2
  t3 = t3
  Threads <- TwoThreads
  Blocks = {1, 2}
  Dirs = {0, 1}
  NUM = 8
  Modes = {3}
  InitMode = 3
  MaxSubmits = 2
  QuiescentSwitch = TRUE
  HeapSlots = 3
  QSlots = 3
  TreeSize = 2
  TickBits = 3
  TimeLimit = 1
  MaxTicks = 2
SPECIFICATION Spec
PROPERTY ExpiredPickedFirst
CHECK_DEADLOCK FALSE
