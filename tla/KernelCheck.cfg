\* The inode layer: three processes, three disk inodes, two table slots, two
\* direct blocks per inode, two data blocks, four reference-taking calls.
\* The file layer: two processes, the same inodes and slots, two file slots,
\* two descriptors per process, files of up to two units, five system calls.
\* sys_sleep: two threads, a 2-bit ticks counter (so n + MaxLag < 4 and
\* only a negative n reaches the wrap), a woken thread runs before the
\* second tick after its wakeup, two calls.
CONSTANTS
  Procs = {p1, p2, p3}
  NINODES = 4
  NINODE = 2
  NBLOCKS = 2
  NDIRECT = 2
  NoProc = NoProc
  IMaxCalls = 4
  FProcs = {q1, q2}
  NFILE = 2
  NOFILE = 2
  MAXFILE = 2
  MaxN = 2
  FMaxCalls = 5
  Threads = {t1, t2}
  TickBits = 2
  Ns <- SleepNs
  MaxLag = 1
  SMaxCalls = 2
SYMMETRY Perms
SPECIFICATION Spec
INVARIANTS TypeOK BlocksOwnedOnce CachedInodeCoherent IputFreeNeverBlocks FileRefsMatchDescriptors InodeRefsMatchFiles WritesNeverOverlap SleepsAtLeastN SleepBounded
