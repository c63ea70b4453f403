\* Two threads, three home blocks and two buffers (so bget recycles), a
\* log region one block larger than LOGSIZE (the header's block), one crash
\* anywhere, during recovery included.
CONSTANTS
  Procs = {1, 2}
  Blocks = {1, 2, 3}
  Vals = {1, 2}
  NBUF = 2
  LOGSIZE = 2
  MAXOPBLOCKS = 1
  LogDiskSize = 3
  MaxOps = 3
  MaxCrashes = 1
SPECIFICATION Spec
INVARIANT LogRecoverable
INVARIANT CacheServesLatest
PROPERTY OpsFinish
CHECK_DEADLOCK FALSE
