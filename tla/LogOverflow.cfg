\* The log region as xv6's mkfs lays it out: nlog = LOGSIZE blocks, header
\* included.  Two calls admitted by begin_op each write one new block.
CONSTANTS
  Procs = {1, 2}
  Blocks = {1, 2}
  Vals = {1}
  NBUF = 2
  LOGSIZE = 2
  MAXOPBLOCKS = 1
  LogDiskSize = 2
  MaxOps = 2
  MaxCrashes = 0
SPECIFICATION Spec
INVARIANT ReservationHonoured
CHECK_DEADLOCK FALSE
