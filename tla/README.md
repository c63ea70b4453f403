# TLA+ models of the xv6 virtio disk path and its I/O elevators

This directory holds TLC-checked TLA+ models of the block I/O path in
`src/kernel/virtio_disk.c`. That path is the xv6 legacy virtio block driver,
extended with a pluggable request scheduler ("elevator"). The scheduler is
selected by the global `IO_type`.

## 1. Inventory

### Components and their state

| Component | Code | State it keeps |
|---|---|---|
| Dispatcher | `rw_queue` (virtio_disk.c 530-597), called by `bread`/`bwrite` (bio.c 97-120) | none of its own; it reads `IO_type` and the policy structures |
| Transport | `virtio_disk_rw`, `alloc_desc`, `free_desc`, `free_chain`, `alloc3_desc` (723-873) | `disk.free[NUM]`, `disk.info[NUM].{b,status}`, `disk.avail`, `b->disk`, `vdisk_lock` |
| Completion handler | `virtio_disk_intr` (876-939) | `disk.used_idx`; it retires one entry of the active policy |
| Passthrough policy | `IO_type == 0` | none |
| Heap policy ("cfq") | `struct HNode`, `insertMinHeap`, `deleteFromMinHeap` (34-39, 192-231) | `data[128]` with a sentinel at `data[0]`, `Size`, `Capacity`; guarded by `queue_lock` |
| SSTF policy | `struct Queue`, `distance`, `SSTF`, `enqueue`, `dequeue` (257-306) | `data[128]`, `size`, `capacity`; guarded by `queue_lock` |
| Deadline policy | red-black trees and arrival rings, `InsertToRing`, `InsertToRBTree`, `DeleteFromRBTree`, `RenewReadyArea`, `PrimRBTree` (240-520) | `disk.tree[2]`, `disk.ring[2]` (node and section arenas with free-index stacks), `disk.readyArea` |
| Policy switch | `sys_IO_schedule` → `IO_switch` (not in `src/`) | `IO_type` |
| Buffer cache | `bio.c`: `binit`, `bget`, `bread`, `bwrite`, `brelse`, `bpin`, `bunpin` | `bcache.buf[NBUF]` (blockno, valid, refcnt, data) and the LRU list from `bcache.head` |
| Write-ahead log | `log.c`: `begin_op`, `log_write`, `end_op`, `commit`, `initlog`/`recover_from_log` | `log.lh` (n, block[]), `outstanding`, `committing`; on disk the header block and the log blocks |
| Inode layer | `fs.c`: `balloc`, `bfree`, `iget`, `idup`, `ilock`, `iunlock`, `iput`, `itrunc`, `ialloc`, `iupdate`, `bmap`, `writei`, `dirlookup` | the bitmap and disk inodes (through the log), `itable.inode[NINODE]` (inum, ref, valid, the cached dinode, a sleeplock), `itable.lock` |
| File table | `file.c`: `filealloc`, `filedup`, `fileclose`, `fileread`, `filewrite` | `ftable.file[NFILE]` (ref, type, ip, off, readable, writable), `ftable.lock`; each process's `ofile[]` |
| Sleep | `sys_sleep` (sysproc.c 56-76), over the clock interrupt and `kill` of `trap.c` and `proc.c` (not in `src/`) | `ticks` (uint), `tickslock`; per call `ticks0` (uint) and `n` (int); `p->killed` |
| Device | qemu's virtio-blk | the published chains; it appends completions to the used ring and raises an interrupt |

Path lookup, directories, pipes and devices, boot, the system calls other
than `sys_sleep` and `sys_IO_schedule`, and the user test programs are listed in `PROJECT.json` as not modelled.

### How the parts interact

1. A thread in `bread`/`bwrite` holds the buffer's sleeplock and calls
   `rw_queue(b, write)`.
2. In modes 1 and 2, `rw_queue` inserts the request under `queue_lock` and
   releases the lock. It then reads the policy's pick (`heap->data[1]` or
   `sstfq->data[0]`) and calls `virtio_disk_rw` with that pick, which is not
   necessarily its own buffer.
3. `virtio_disk_rw` takes `vdisk_lock`. It allocates three descriptors,
   sleeping on `disk.free[0]` while fewer than three are free. It records
   `info[head].b`, sets `b->disk = 1`, publishes the chain and sleeps on `b`
   until `b->disk == 0`. It then frees the chain.
4. The device completes chains in any order. The interrupt handler
   acknowledges the interrupt and drains every new used-ring entry: for each
   one it checks the status byte, clears `b->disk` and wakes `b`.
5. After the drain, the handler retires exactly one entry from the structure
   that `IO_type` names at that moment. This holds however many entries the
   drain handled, zero included.
6. Above the driver, every file-system call brackets its block writes with
   `begin_op`/`end_op`. `log_write` records the block in `log.lh` and pins
   its buffer. The last `end_op` commits, using four disk writes:
   - `write_log` copies the cached blocks into the log region;
   - `write_head` writes the header, which is the commit point;
   - `install_trans` copies the log to the home blocks and unpins them;
   - a second `write_head` with n = 0 clears the log.

   At boot, `recover_from_log` repeats the installation from whatever header
   is on disk.

### Hard behaviours

- The pick is read after `queue_lock` is released, so it may belong to
  another thread.
- One retire happens per interrupt, not one per completion.
- `IO_type` is read without a lock in both the dispatcher and the handler.
- The pool can run out; `alloc3_desc` rolls back a partial allocation, and
  a caller sleeps until descriptors are freed.
- Off-by-one and negative sizes occur in the heap and the queue.
- The device completes chains in arbitrary order.

`PROJECT.json` lists every hazard at its source line, with the properties that
cover it.

## 2. Modules

| Module | Models | Main state / actions |
|---|---|---|
| `MinHeap` | the heap elevator as pure operators | `insertMinHeap` (`SiftUp`), `deleteFromMinHeap` (`SiftDown`, `SmallerChild`), plus the conditions under which the code panics (`InsertPanics`), writes outside `data[]` (`InsertOutOfBounds`, `DeleteUB`) or hangs (`InsertHangs`, the sift-up spinning at `p = 0` once the sentinel is gone) |
| `SstfQueue` | the SSTF elevator as pure operators | `SSTFLoop`/`SSTF`, `enqueue`, `dequeue`, `distance` |
| `MinHeapCheck` | a caller that uses the heap correctly, with a reference bag of pending requests | `Insert(x)`, `Delete` |
| `SstfCheck` | the same for the queue, with the reference "nearest to `data[0]`" | `Enqueue(x)`, `Dequeue` |
| `ElevatorCheck` | both harnesses side by side (`INSTANCE MinHeapCheck`, `INSTANCE SstfCheck`), steps interleaved | one run for both algorithms |
| `IOSched` | dispatcher + transport + device + interrupt handler + policy switch, composing `MinHeap` and `SstfQueue` | described below |
| `Deadline` | the deadline elevator as pure operators | `InsertToRing`, `InsertToRBTree`, `BalanceAfterAddition`, `RenewReadyArea` (`Expire` per ring), `DeleteFromRBTree`, `BalanceAfterDeletion`, `GetFromRBTree`, `PrimRBTree` over `disk.tree[2]`/`disk.ring[2]`, with `Nowtime` as a `TickBits`-bit counter |
| `BlockDevice` | the abstract promise of the block layer | per caller `idle` → `waiting` → `done` → `idle`: a call returns only after its own transfer, and every call returns |
| `MCIOSched` | model values for the threads | `ThreeThreads`, `TwoThreads`, `OneThread` |
| `BufCache` | `bio.c` as operators on the buffers and the LRU list | `bget` (hit, or recycle the unreferenced buffer nearest `head.prev`, else panic), `bread`, `bwrite`, `brelse` (to the LRU head when unreferenced), `bpin`, `bunpin` |
| `Log` | `log.c` over `BufCache`, with crashes | described below |
| `Inode` | the inode layer of `fs.c` under concurrent threads | described below |
| `FileTable` | `file.c` under processes that open, dup, fork, read, write and close | described below |
| `SysSleep` | `sys_sleep` against the clock, with kills | described below |
| `KernelCheck` | `Inode`, `FileTable` and `SysSleep` in one model, each behaviour running one of them (its initial `layer`) | one run for the three |

### IOSched in detail

Each thread has a `pc`, whose values follow the code:

| `pc` | Where the thread is |
|---|---|
| `idle` | not in a call |
| `heapReady` / `sstfReady` | after `release(&queue_lock)`, before reading the pick |
| `lock` | entering `virtio_disk_rw`, or runnable after a wakeup on the pool |
| `sleepFree` | asleep on `disk.free[0]` |
| `sleepBuf` | asleep on `b` |
| `wakeBuf` | woken on `b` |

Each region of the code that runs under `vdisk_lock` is a single action:

| Action | Code region |
|---|---|
| `DiskRwSubmit` | the allocation through `sleep(b)` |
| `DiskRwWaitDesc` | a failed `alloc3_desc` with its rollback wakeups, then `sleep(&disk.free[0])` |
| `DiskRwWake` | the re-check of `b->disk`, `free_chain` with its wakeups, and `release` |
| `IntrAck` | the handler's acknowledge |
| `IntrDrainPassthrough`, `IntrDrainHeap`, `IntrDrainSstf` | the used-ring loop together with the retire |

The other actions and state:

- `SubmitPassthrough`, `SubmitHeap` and `SubmitSstf` are the three mode
  branches of `rw_queue`.
- `ReadyHeap` and `ReadySstf` are the unlocked reads of the pick.
- `DeviceComplete(e)` is the device finishing chain `e`.
- `SetPolicy(m)` writes `IO_type`.
- C faults stop the system through `halted`: a panic, a NULL dereference, an
  out-of-array access or a double free.
- `xfer` is a ghost variable: it records that the device has transferred the
  caller's own request.
- `SubmitDeadline`, `ReadyDeadline` and `IntrDrainDeadline` cover the
  `IO_type == 3` branches. `dd` is the deadline state, starting from
  `DInit`, which is what `virtio_disk_init` leaves. `Tick` advances `ticks`
  up to `MaxTicks`. `arrival` is a ghost variable: the tick at which each
  caller submitted.

### Deadline, as the code behaves

`Deadline` translates the pointer structures into index-linked arenas:
- `lnk[n][0..2]` holds `p[0..2]`;
- `fr`/`bk` hold `pFront`/`pBack`;
- `SEN` is the sentinel and `NULLP` is NULL.

Several facts follow from the code, and the model states them rather than
assuming an ordered red-black tree:

- `tree->root` is never assigned. Every insert therefore hangs under the
  sentinel and replaces `sen.p[0]`: the tree holds only the newest node.
- The rebalancing loops never run. Reaching one stops the model with
  `"rebalance"`, and `TypeOK` says this never happens.
- `rank` is never set, so every free pushes 0.
- `virtio_disk_init` fills only class 0's free stacks, so the write class
  always takes slot 0.
- `ring->rear` is not updated on removal.
- The expiry path does not decrement `tree->size`, and its search for `dir`
  runs past `p[2]`.

Faults (NULL dereference, reading past `p[]` or `avail[]`, a panic) are
returned as results and stop the system through `halted`.

### The log and the buffer cache

`Log` has one step per `log.lock` region (`BeginOp`, `LogWrite`, `EndOp`,
`CommitDone`) and one per disk write of commit and recovery:

| Action | Disk write |
|---|---|
| `WriteLog` | a `write_log` iteration |
| `WriteHead` | the committing `write_head` |
| `InstallTrans` | an `install_trans` iteration |
| `ClearLog` | the clearing `write_head` |
| `ReadHead` | (no write) `read_head` at boot |
| `RecoverClear` | recovery's clearing `write_head` |

Commit runs without the lock, but while `committing` is set nothing else
touches the log. The crash points are therefore exactly the gaps between
these writes.

`Crash` can happen at any point, recovery included. It loses `log`, the
cache and the threads, and keeps the home blocks, the log blocks and the
header.

Block contents are small values, and the ghost variables describe them:
- `latest`: each block's last write;
- `intent`: `latest` when commit starts;
- `stable`: `intent` once the committing header is on disk.

Only the home blocks go through `BufCache`. The header and log blocks use a
buffer for the duration of one step, and that use is left out.

### The inode layer

`Inode` keeps the disk inodes (`dinode`: type, nlink, size in blocks,
direct addrs), the allocation `bitmap`, and `itable` (per slot the inum,
ref, valid, the cached dinode fields and the sleeplock holder). Each thread
holds at most one reference (`hold`), as a process with one open file, and
follows the rules of the comment at fs.c 160-178.

| Action | Code |
|---|---|
| `IAlloc`, then `IAllocGet` | `ialloc`'s scan and memset, then its `iget` |
| `Open(p, i)` | `dirlookup`'s `iget` of an inode a directory names (`links[i] > 0`) |
| `IDup(p, q)` | `idup`, a second thread sharing the inode (`fork`'s cwd) |
| `ILock`, `IUnlock` | `ilock` (reads the disk when `valid == 0`), `iunlock` |
| `WriteI(p, bn)` | `writei` of block `bn` at `off <= size`: `bmap`/`balloc`, size, `iupdate` |
| `Link`, `Unlink` | the `nlink` side of `sys_link`/`create`/`sys_unlink` (`sysfile.c`, not in the repository) |
| `IPut`, `ITrunc`, `IPutFreeType`, `IPutInvalidate`, `IPutRef` | `iput`'s check and `acquiresleep` under `itable.lock`, `itrunc`, `type = 0; iupdate`, `valid = 0; releasesleep`, the final `ref--` |

The bitmap and the disk inodes are read and written through the buffer cache
and the log, which `log_crash` shows to serve the latest write, so the model
sees them directly and has no crashes. Each region under one lock is one
step. `iput`'s free path is four steps because it drops `itable.lock`
between them, and that is where `ialloc`/`iget` of the same inum by another
thread can fall. A thread that would block in `iput`'s `acquiresleep` goes
to `iput.wait`, which has no way out: it sleeps holding `itable.lock`.

### The file table

`FileTable` keeps `ftable` (`ftab`), each process's descriptors (`ofile`),
and, from the inode layer, only a reference count (`iref`) and a size
(`isize`) per inode. Sizes and offsets are counted in units of
`filewrite`'s per-transaction maximum, so each turn of its loop writes one
unit.

| Action | Code |
|---|---|
| `SysOpen(p, i, trunc, rw)` | `sys_open` of an existing inode: `iget` (panic when `NINODE` others are referenced), `O_TRUNC`'s `itrunc`, `filealloc`, `fdalloc`, with the failure path's `fileclose`/`iunlockput` |
| `SysDup`, `Fork(p, q)` | `sys_dup`, and `fork`'s `filedup` of every descriptor |
| `SysClose`, then `CloseIput` | `fileclose` under `ftable.lock` (`ff = *f`, `ref = 0`, `FD_NONE`), then `begin_op; iput(ff.ip); end_op` |
| `FileRead(p, d, n, ok)` | `fileread`: `readi` at `f->off`, `-1` on a `copyout` fault, `off += r` if `r > 0` |
| `FileWrite`, then `WriteChunk(p, ok)` | `filewrite`'s loop, one step per turn: `writei` (`-1` past the end or `MAXFILE`, `0` on a `copyin` fault), `off += r` if `r > 0`, break if `r != n1` |

The system calls come from `sysfile.c` and `proc.c`, which are not in the
repository. They are modelled from xv6's documented behaviour and marked
`spec_modelled` in the map. `f->off` is read and written only under the
inode's sleeplock, so each `ilock` .. `iunlock` region is one step.
`wrote` and `nwrites` are history variables: they record the units written
through each open file.

### sys_sleep

`SysSleep` keeps `ticks` as a `TickBits`-bit unsigned counter and, per
thread, the loop's `ticks0` and `n`, `killed`, and a `pc` that is `idle`,
`asleep` (in `sleep(&ticks, &tickslock)`) or `woken` (made runnable, not yet
holding `tickslock` again). Each `tickslock` region is one step.

| Action | Code |
|---|---|
| `Sleep(t, k)` | `argint`, `acquire`, `ticks0 = ticks`, the loop's first test (`LoopTest`) |
| `Recheck(t)` | `sleep` returning with the lock held, and the next test |
| `Tick` | `clockintr`: `ticks++` modulo `2^TickBits`, `wakeup(&ticks)` |
| `Kill(t)` | `kill`: `killed = 1`, a sleeping thread made runnable |

`Waiting` is the loop condition as C evaluates it: the unsigned difference
`ticks - ticks0` modulo `2^TickBits`, against `n` converted to unsigned
(`Unsigned`), so `-1` is the longest sleep. `Tick` and `Kill` are modelled
from xv6's documented behaviour. `Tick` may not fire while a woken thread
has waited `MaxLag` ticks to run: with a 32-bit counter no thread waits
`2^32` ticks for the CPU, and the bound stands for that where the model's
counter is narrow. `elapsed` is a history variable, the ticks since the call
read `ticks0`; it stops at `2^TickBits + MaxLag`.

### Atomicity argument

A thread's `vdisk_lock` region ends in `sleep` or `release`, and it touches
nothing that another thread reads without the lock, so it can be one step.

The handler holds `vdisk_lock` from the acknowledge to its return. Between
those points only the device can move. That is why the handler is two steps:
completions that arrive after the acknowledge are drained by the same
invocation.

## 3. Runs

| Run | Cfg | Bounds | Shows |
|---|---|---|---|
| `elevator_algorithms` (pass) | `ElevatorCheck.cfg` | heap: 5 slots, up to 4 held, blocks {1,2,3}; queue: 4 slots, blocks {1,3,4,6} (ties in distance) | heap order and contents are preserved over all insert/delete sequences, including duplicate keys; `data[1]` is always the nearest to `data[0]`, and nothing is lost |
| `heap_full` (violation) | `MinHeapFull.cfg` | 3 slots | the capacity check lets an insert write past `data[]` |
| `passthrough_concurrent` (pass) | `Passthrough.cfg` | 3 threads, NUM = 8 (two chains fit, the third call waits), 4 calls | chains are all-or-nothing, in-flight chains are owned, and `IOSched` refines `BlockDevice` (`BlockDeviceSpec`, with its fairness: every call returns) |
| `sequential_policies` (pass) | `Sequential.cfg` | 1 thread, modes {0,1,2,3}, switch only when idle, 3 calls, both directions, one tick | each policy is used correctly by a lone caller: the structures stay in range (`TypeOK`), each call returns after its own transfer (`OwnRequestServiced`), and every call returns (`CallsReturn`) |
| `deadline_order` (violation) | `DeadlineOrder.cfg` | 2 threads, deadline mode, no ticks | finding 5 |
| `deadline_starvation` (violation) | `DeadlineStarvation.cfg` | 2 threads, deadline mode, 2 ticks, time limit 1 | finding 6 |
| `log_crash` (pass) | `Log.cfg` | 2 threads, 3 blocks, 2 values, NBUF = 2, LOGSIZE = 2, MAXOPBLOCKS = 1, log region 3 blocks, 3 calls, 1 crash | `LogRecoverable`: at every point the on-disk header and log recover to exactly the last committed transaction. `CacheServesLatest`: a read returns the last write, from the cache or, when the block is not cached, from disk. `OpsFinish`: every `begin_op` caller finishes |
| `log_overflow` (violation) | `LogOverflow.cfg` | as `log_crash` but log region = LOGSIZE blocks | finding 7 |
| `kernel_layers` (pass) | `KernelCheck.cfg` | inode layer: 3 threads, 3 disk inodes, 2 table slots, 2 direct addrs, 2 data blocks, 4 reference-taking calls; file layer: 2 processes, 3 inodes, 2 in-memory slots, 2 file slots, 2 descriptors each, files of 2 units, 5 calls; sleep: 2 threads, a 2-bit counter, n in {-1, 0, 2}, `MaxLag` = 1, 2 calls | `BlocksOwnedOnce`: the bitmap marks exactly the blocks inodes own, none twice. `CachedInodeCoherent`: a referenced, valid, unlocked table entry equals its disk inode. `IputFreeNeverBlocks`: `iput`'s free path never waits for the sleeplock. `FileRefsMatchDescriptors`: a file's `ref` is the number of descriptors naming it. `InodeRefsMatchFiles`: an inode's references are its open files plus the pending `iput(ff.ip)` calls. `WritesNeverOverlap`: no unit is written twice through one open file. `SleepsAtLeastN`: `sleep(n)` returns 0 only after `n` ticks (as unsigned), across the counter's wrap. `SleepBounded`: a sleep of `n >= 0` ticks is over within `n + MaxLag` ticks |
| `heap_race` (violation) | `HeapRace.cfg` | 2 threads, heap mode | finding 1 |
| `heap_double_issue` (violation) | `HeapDoubleIssue.cfg` | 2 threads, heap mode | finding 2 |
| `switch_in_flight` (violation) | `SwitchInFlight.cfg` | 1 thread, switch while busy | finding 3 |

### Why the bounds are enough

- Pool exhaustion needs two chains plus one more caller, hence NUM = 8 with
  three threads.
- The races need two threads and one call each.
- The policy structures need three or more entries to exercise every branch
  of sift-up and sift-down and of the SSTF swap.

The heap and queue sizes in `IOSched` runs are 3, which is above the number
of requests a run can hold.

Deadline bounds:
- `TreeSize = 2` lets two requests of one class be queued.
- The code's `timeLimit` is 22 ticks. The model scales it to 1, with two
  ticks, so a request can expire.
- `TickBits = 3` keeps the runs below the counter's wrap. The wrap is
  listed as a hazard.

Log bounds:
- With `MAXOPBLOCKS = 1` and `LOGSIZE = 2`:
  - two calls can share a transaction;
  - a third call must sleep for space;
  - a call can sleep on `committing`.
- Three blocks against two buffers make `bget` recycle.
- One crash is enough to reach every point of commit and of recovery.

Inode bounds:
- Two threads and three calls reach the free-path race: one thread frees
  an inode while another allocates it again, and one thread shares an
  inode with another (`idup`) while it is locked.
- Two data blocks against four direct addresses reach `balloc`'s
  "out of blocks" panic, three disk inodes and four calls reach `ialloc`'s,
  and three threads holding three inums against two table slots reach
  `iget`'s "no inodes".
- In the file layer, two file slots and three inodes against two
  in-memory slots let a freed file slot be reallocated to another inode
  while the close's `iput` is still pending. Two processes reach
  fork-shared offsets, and an `O_TRUNC` open by one process can leave the
  other's offset past the end. Five calls are the fewest for
  open, fork, a truncating open, and a write through each.
- In the sleep layer, a 2-bit counter wraps within every sleep that starts
  past tick 1, which is what a test against absolute ticks gets wrong.
  `n + MaxLag` stays below 4 for `n` in {0, 2}, so for those no wrap can
  hide a late thread. `n = -1` is the counter's longest sleep (3 ticks).
  `MaxLag = 1` lets a woken thread run one tick late, so `elapsed` can
  exceed `n`. Two threads share each tick's `wakeup`, and a kill can land
  between a wakeup and the thread's test.

The pass run's log region is `LOGSIZE + 1` blocks. With the region
`LOGSIZE` blocks, as xv6's `mkfs` makes it, the panic of finding 7 cuts
behaviours short.

### Fairness

Weak fairness is assumed for:

- every thread's step, because xv6's scheduler runs every runnable thread;
- the device's completion of some published chain, because qemu completes
  every notified request;
- the interrupt acknowledge and the drain, because a pending interrupt is
  delivered.

Sleeping threads are not enabled, so fairness never wakes them. Only a
`wakeup` in the code does.

`Tick` has no fairness: the clock is not needed for any call to finish.

In `Log`:
- each thread's `begin_op`/`end_op` is weakly fair;
- so is the committing thread's commit step, and boot's recovery.

A thread in the middle of an operation may stop writing, and a crash is never
forced.

`Inode`, `FileTable` and `SysSleep` check only safety and assume no
fairness. `SysSleep`'s progress is stated as a bound (`SleepBounded`), with
`MaxLag` as the only scheduling assumption.

## 4. Findings

1. **Another caller's request (`heap_race`).** A heap-mode caller can
   transfer another caller's request and return; `bread` then marks its own
   buffer valid even though it was never read.
2. **Chain freed too early (`heap_double_issue`).** Two callers can issue
   the same heap root. One completion wakes both, so one of them frees a
   chain the device still holds, and a later interrupt dereferences a NULL
   buffer.
3. **Retire from an empty heap (`switch_in_flight`).** A switch while a
   request is in flight makes the handler retire from an empty heap: `Size`
   becomes -1 and the sentinel becomes the next pick. The spec (§5) calls
   this read benign.
4. **Write past the heap array (`heap_full`).** `Capacity` equals the array
   length, so the 128th insert writes `data[128]`.
5. **The deadline tree is a LIFO (`deadline_order`).** `tree->root` is never
   set, so each insert replaces `sen.p[0]`, and `readyArea` becomes the
   newest request rather than the lowest block.
6. **An expired request crashes the kernel (`deadline_starvation`).**
   1. The oldest section expires after a later insert has displaced its node.
   2. `DeleteFromRBTree`'s direction search then runs past `p[2]`.
   3. `BalanceAfterDeletion(sen)` dereferences `sen.p[2]`, which is NULL.

   If the delete did succeed, line 483 would still overwrite the expired pick.
7. **An admitted transaction overflows the log (`log_overflow`).**
   `begin_op` reserves against `LOGSIZE`, but `log_write` panics at
   `log.size - 1`. With `nlog = LOGSIZE` (xv6's `mkfs`, which is not in this
   repository), calls within their `MAXOPBLOCKS` can hit "too big a
   transaction".

## 5. Refinement

`IOSched` instantiates `BlockDevice` with two substitutions:
- `req <- own`;
- `st <- CallState`: idle when not busy, done once `xfer` is set, waiting
  otherwise.

`passthrough_concurrent` checks `BlockDeviceSpec` as a property. The heap
race (finding 1) is exactly a behaviour that is not a `BlockDevice`
behaviour.

## 6. Plan for the following sittings

1. A two-thread SSTF run, and a deadline run with two queued writes, to cover
   the class-1 slot aliasing.
2. `bio.c` recycling under the scheduler: `bget` reassigns a buffer that a
   stale policy entry still points at.
3. `IOSched` composed with `BufCache`, so that `bread`'s valid flag follows
   the transfer.
4. A crash between two transactions of one `filewrite`, with `FileTable`
   over `Log`.

## 7. Not modelled

- Descriptor contents (addresses, lengths, flags). These are abstracted to
  the chain's three indices.
- The uint16 ring indices. They wrap harmlessly modulo NUM.
- MMIO initialisation.
- In `fs.c`: the indirect block, `readi` and `stati` (they change no
  state), directory contents and path lookup (`namex`; a count of entries
  per inode stands for them), devices' major/minor.
- In `file.c`: pipes and devices (`pipe.c` and the drivers are not in
  `src/`), and `filestat`, which changes no state.
- `main.c`'s boot sequence. It is sequential initialisation; each model's
  `Init` is the state it leaves.
- The system calls of `sysproc.c` other than `sys_sleep` and
  `sys_IO_schedule`. `sys_exit`, `sys_fork`, `sys_wait`, `sys_kill`,
  `sys_sbrk` and `sys_getpid` only call into `proc.c` and `vm.c`, which are
  not in the repository. `sys_uptime` only reads `ticks`, and `sys_sysinfo`
  copies `kfree_memory()`'s count (from `kalloc.c`, not in the repository)
  out to the user.
- The user programs. They are callers
  above the file table, the inode layer, the log and the scheduler, and
  their requests are the models' arbitrary calls, submissions and writes.
- Rotations and deep rebalancing in the deadline trees. No reachable state
  enters them, and the model halts if one would.
- The log's use of buffers for its header and log blocks, and `Log`'s own
  transfers through the driver. `Log` treats each `bwrite` as an atomic disk
  write.
- The clock interrupt (`trap.c`, not in `src/`). `Tick` is modelled from the
  spec as `ticks++`.
- `IO_switch`. It is not in the sources, so it is modelled from the spec as
  a plain write of `IO_type`. Whether it accepts mode 4 ("cscan", which
  `rw_queue` ignores) is unknown.
