------------------------------ MODULE IOSched ------------------------------
(***************************************************************************)
(* The block I/O path of src/kernel/virtio_disk.c: the dispatcher         *)
(* rw_queue, the transport virtio_disk_rw, the interrupt handler          *)
(* virtio_disk_intr, the descriptor pool, and the device, with the        *)
(* passthrough (IO_type 0), heap (1) and SSTF (2) elevators.               *)
(*                                                                         *)
(* Threads are kernel threads inside bread/bwrite (src/kernel/bio.c).     *)
(* Every stretch of virtio_disk_rw that runs under vdisk_lock ends in a   *)
(* sleep or in release, touches no state another thread reads without the *)
(* lock, and so is one step here.  The interrupt handler holds vdisk_lock *)
(* from its acknowledge to its return: it is two steps (IntrAck, then a   *)
(* drain-and-retire), between which only the device moves.  queue_lock    *)
(* regions are single steps; the reads of heap->data[1] and               *)
(* sstfq->data[0] that rw_queue makes after releasing queue_lock are      *)
(* steps of their own.                                                     *)
(***************************************************************************)
EXTENDS Integers, Sequences, FiniteSetsExt, MinHeap, SstfQueue, Deadline

CONSTANTS
  Threads,         \* kernel threads calling bread/bwrite
  Blocks,          \* block numbers they transfer (block 0 is the sentinel's)
  Dirs,            \* directions used: 0 read, 1 write
  NUM,             \* descriptors in the virtqueue (8 in xv6)
  Modes,           \* IO_type values set_policy may select
  InitMode,        \* IO_type at boot
  MaxSubmits,      \* bound on rw_queue calls in a behaviour
  QuiescentSwitch, \* TRUE: set_policy only runs while no I/O is in progress
  MaxTicks         \* bound on clock ticks in a behaviour

ASSUME
  /\ Blocks \subseteq Nat \ {0}
  /\ Dirs \subseteq {0, 1}
  /\ NUM \in Nat /\ NUM >= 3
  /\ Modes \subseteq {0, 1, 2, 3} /\ InitMode \in Modes
  /\ MaxSubmits \in Nat
  /\ QuiescentSwitch \in BOOLEAN
  /\ MaxTicks \in Nat

VARIABLES
  IO_type,   \* the active elevator
  pc,        \* where each thread is in rw_queue / virtio_disk_rw
  own,       \* the request each thread passed to rw_queue
  target,    \* the request it passes to virtio_disk_rw (the policy's pick)
  idx,       \* its three descriptors, idx[0..2], while it holds them
  free,      \* disk.free[]
  info,      \* disk.info[].b, a block number or -1 for NULL
  status,    \* disk.info[].status: 255 until the device writes 0
  bufDisk,   \* b->disk of every buffer
  devq,      \* chains published in the avail ring, not yet completed
  used,      \* used-ring entries not yet consumed by the driver
  intr,      \* the device's interrupt is pending
  ipc,       \* "drain" while the handler holds vdisk_lock after its ack
  heap,      \* disk.hnode
  sq,        \* sstfqnode
  dd,        \* disk.tree[], disk.ring[] and disk.readyArea
  ticks,     \* the clock's tick count (Nowtime() reads it modulo 2^TickBits)
  arrival,   \* ghost: the tick at which each thread called rw_queue
  xfer,      \* ghost: the device has transferred own[t] during t's call
  nsub,      \* rw_queue calls made so far
  halted     \* "none", or why the kernel stopped (panic, NULL, UB)

vars == <<IO_type, pc, own, target, idx, free, info, status, bufDisk, devq,
          used, intr, ipc, heap, sq, dd, ticks, arrival, xfer, nsub, halted>>

Req == [b : Blocks, w : Dirs]
Bufs == Blocks \cup {0}        \* buffer 0 is the sentinel's static temp
Descs == 0 .. NUM - 1
NULL == -1

Busy(t) == pc[t] # "idle"
Holding(t) == pc[t] \in {"sleepBuf", "wakeBuf"}
\* The thread holds vdisk_lock only inside a step; the handler between steps.
LockFree == ipc = "idle" /\ halted = "none"
Running == halted = "none"

Init ==
  /\ IO_type = InitMode
  /\ pc = [t \in Threads |-> "idle"]
  /\ own = [t \in Threads |-> NullReq]
  /\ target = [t \in Threads |-> NullReq]
  /\ idx = [t \in Threads |-> <<>>]
  /\ free = [i \in Descs |-> TRUE]
  /\ info = [i \in Descs |-> NULL]
  /\ status = [i \in Descs |-> 0]
  /\ bufDisk = [b \in Bufs |-> 0]
  /\ devq = {}
  /\ used = <<>>
  /\ intr = FALSE
  /\ ipc = "idle"
  /\ heap = InitHeap
  /\ sq = InitQueue
  /\ dd = DInit
  /\ ticks = 0
  /\ arrival = [t \in Threads |-> 0]
  /\ xfer = [t \in Threads |-> FALSE]
  /\ nsub = 0
  /\ halted = "none"

-----------------------------------------------------------------------------
(***************************************************************************)
(* rw_queue(b, write).  bread/bwrite call it holding b's sleeplock, so    *)
(* two calls in progress never name the same buffer.                      *)
(***************************************************************************)
Call(t, r) ==
  /\ Running
  /\ pc[t] = "idle"
  /\ nsub < MaxSubmits
  /\ \A u \in Threads : Busy(u) => own[u].b # r.b
  /\ own' = [own EXCEPT ![t] = r]
  /\ xfer' = [xfer EXCEPT ![t] = FALSE]
  /\ arrival' = [arrival EXCEPT ![t] = ticks]
  /\ nsub' = nsub + 1

\* IO_type 0: virtio_disk_rw(b, write) on the caller's own request.
SubmitPassthrough(t, r) ==
  /\ Call(t, r)
  /\ IO_type = 0
  /\ pc' = [pc EXCEPT ![t] = "lock"]
  /\ target' = [target EXCEPT ![t] = r]
  /\ UNCHANGED <<IO_type, idx, free, info, status, bufDisk, devq, used, intr,
                 ipc, heap, sq, halted, dd, ticks>>

\* IO_type 1: insertMinHeap under queue_lock.
SubmitHeap(t, r) ==
  /\ Call(t, r)
  /\ IO_type = 1
  /\ LET stop == InsertPanics(heap) \/ InsertUB(heap, r)
     IN  /\ heap' = IF stop THEN heap ELSE insertMinHeap(heap, r)
         /\ halted' = IF stop THEN "heap" ELSE "none"
  /\ pc' = [pc EXCEPT ![t] = "heapReady"]
  /\ UNCHANGED <<IO_type, target, idx, free, info, status, bufDisk, devq,
                 used, intr, ipc, sq, dd, ticks>>

\* IO_type 2: enqueue under queue_lock.
SubmitSstf(t, r) ==
  /\ Call(t, r)
  /\ IO_type = 2
  /\ LET stop == EnqueuePanics(sq) \/ EnqueueUB(sq)
     IN  /\ sq' = IF stop THEN sq ELSE enqueue(sq, r)
         /\ halted' = IF stop THEN "sstf" ELSE "none"
  /\ pc' = [pc EXCEPT ![t] = "sstfReady"]
  /\ UNCHANGED <<IO_type, target, idx, free, info, status, bufDisk, devq,
                 used, intr, ipc, heap, dd, ticks>>

\* IO_type 3: InsertToRing, InsertToRBTree (which ends in RenewReadyArea)
\* and the cross-links, under queue_lock.
SubmitDeadline(t, r) ==
  /\ Call(t, r)
  /\ IO_type = 3
  /\ LET res == DeadlineInsert(dd, r, Nowtime(ticks))
     IN  /\ dd' = res.d
         /\ halted' = res.fault
  /\ pc' = [pc EXCEPT ![t] = "dlReady"]
  /\ UNCHANGED <<IO_type, target, idx, free, info, status, bufDisk, devq,
                 used, intr, ipc, heap, sq, ticks>>

\* After release(&queue_lock): the argument of virtio_disk_rw is read
\* from the structure as it is now; a NULL b faults on b->blockno.
Pick(t, r) ==
  /\ Running
  /\ target' = [target EXCEPT ![t] = r]
  /\ pc' = [pc EXCEPT ![t] = "lock"]
  /\ halted' = IF r.b = NULL THEN "null" ELSE "none"
  /\ UNCHANGED <<IO_type, own, idx, free, info, status, bufDisk, devq, used,
                 intr, ipc, heap, sq, xfer, nsub, dd, ticks, arrival>>

\* Mutant: the heap's ready request is read from data[0], the sentinel.
ReadyHeapSlot0(t) == pc[t] = "heapReady" /\ Pick(t, heap.data[0])

ReadyHeap(t) == pc[t] = "heapReady" /\ Pick(t, HeapReady(heap))

ReadySstf(t) == pc[t] = "sstfReady" /\ Pick(t, QueueReady(sq))

ReadyDeadline(t) == pc[t] = "dlReady" /\ Pick(t, dd.ready)

-----------------------------------------------------------------------------
(***************************************************************************)
(* virtio_disk_rw(b, write): acquire vdisk_lock and alloc3_desc.  On      *)
(* success, format the chain, record b in info[idx[0]], set b->disk,      *)
(* publish idx[0] in the avail ring, notify, and sleep on b.              *)
(***************************************************************************)
FreeDescs == {i \in Descs : free[i]}

\* alloc_desc three times: the three lowest free indices, in order.
Alloc3 ==
  LET i0 == Min(FreeDescs)
      i1 == Min(FreeDescs \ {i0})
  IN  <<i0, i1, Min(FreeDescs \ {i0, i1})>>

\* Mutant: b->disk = 1 is not set before the thread waits on it.
DiskRwSubmitNoOwnership(t) ==
  /\ pc[t] = "lock"
  /\ LockFree
  /\ Cardinality(FreeDescs) >= 3
  /\ LET c == Alloc3 IN
     /\ free' = [i \in Descs |-> free[i] /\ i \notin {c[1], c[2], c[3]}]
     /\ idx' = [idx EXCEPT ![t] = c]
     /\ info' = [info EXCEPT ![c[1]] = target[t].b]
     /\ status' = [status EXCEPT ![c[1]] = 255]
     /\ devq' = devq \cup {[head |-> c[1], req |-> target[t]]}
  /\ pc' = [pc EXCEPT ![t] = "wakeBuf"]
  /\ UNCHANGED <<IO_type, own, target, bufDisk, used, intr, ipc, heap, sq,
                 xfer, nsub, halted, dd, ticks, arrival>>

DiskRwSubmit(t) ==
  /\ pc[t] = "lock"
  /\ LockFree
  /\ Cardinality(FreeDescs) >= 3
  /\ LET c == Alloc3 IN
     /\ free' = [i \in Descs |-> free[i] /\ i \notin {c[1], c[2], c[3]}]
     /\ idx' = [idx EXCEPT ![t] = c]
     /\ info' = [info EXCEPT ![c[1]] = target[t].b]
     /\ status' = [status EXCEPT ![c[1]] = 255]
     /\ devq' = devq \cup {[head |-> c[1], req |-> target[t]]}
  /\ bufDisk' = [bufDisk EXCEPT ![target[t].b] = 1]
  /\ pc' = [pc EXCEPT ![t] = "sleepBuf"]
  /\ UNCHANGED <<IO_type, own, target, used, intr, ipc, heap, sq, xfer, nsub,
                 halted, dd, ticks, arrival>>

\* wakeup(&disk.free[0]): every thread asleep on the pool becomes runnable.
WakeFreeWaiters(p) == [u \in Threads |-> IF p[u] = "sleepFree" THEN "lock"
                                                               ELSE p[u]]

\* Mutant: alloc3_desc returns -1 without freeing what it took.
DiskRwWaitDescLeaks(t) ==
  /\ pc[t] = "lock"
  /\ LockFree
  /\ Cardinality(FreeDescs) < 3
  /\ free' = [i \in Descs |-> FALSE]
  /\ pc' = [pc EXCEPT ![t] = "sleepFree"]
  /\ UNCHANGED <<IO_type, own, target, idx, info, status, bufDisk, devq, used,
                 intr, ipc, heap, sq, xfer, nsub, halted, dd, ticks, arrival>>

\* alloc3_desc fails: it frees the descriptors it took (each free_desc
\* wakes the pool's sleepers); the thread then sleeps on the pool.
DiskRwWaitDesc(t) ==
  /\ pc[t] = "lock"
  /\ LockFree
  /\ Cardinality(FreeDescs) < 3
  /\ pc' = [IF FreeDescs # {} THEN WakeFreeWaiters(pc) ELSE pc
              EXCEPT ![t] = "sleepFree"]
  /\ UNCHANGED <<IO_type, own, target, idx, free, info, status, bufDisk, devq,
                 used, intr, ipc, heap, sq, xfer, nsub, halted, dd, ticks, arrival>>

\* Mutant: free_desc does not call wakeup(&disk.free[0]).
DiskRwWakeNoFreeWakeup(t) ==
  /\ pc[t] = "wakeBuf"
  /\ LockFree
  /\ LET done == bufDisk[target[t].b] = 0
         c == idx[t]
     IN  /\ pc' = [pc EXCEPT ![t] = IF done THEN "idle" ELSE "sleepBuf"]
         /\ free' = IF done THEN [i \in Descs |-> free[i] \/ i \in Range(c)]
                            ELSE free
         /\ info' = IF done THEN [info EXCEPT ![c[1]] = NULL] ELSE info
         /\ idx' = IF done THEN [idx EXCEPT ![t] = <<>>] ELSE idx
         /\ halted' = IF done /\ \E i \in Range(c) : free[i]
                      THEN "free_desc" ELSE "none"
  /\ UNCHANGED <<IO_type, own, target, status, bufDisk, devq, used, intr, ipc,
                 heap, sq, xfer, nsub, dd, ticks, arrival>>

\* Woken on b: re-acquire vdisk_lock; while b->disk == 1 sleep again;
\* then info[idx[0]].b = 0, free_chain(idx[0]) (free_desc panics on a
\* descriptor already free, and wakes the pool's sleepers), release.
DiskRwWake(t) ==
  /\ pc[t] = "wakeBuf"
  /\ LockFree
  /\ LET done == bufDisk[target[t].b] = 0
         c == idx[t]
     IN  /\ pc' = IF done THEN [WakeFreeWaiters(pc) EXCEPT ![t] = "idle"]
                          ELSE [pc EXCEPT ![t] = "sleepBuf"]
         /\ free' = IF done THEN [i \in Descs |-> free[i] \/ i \in Range(c)]
                            ELSE free
         /\ info' = IF done THEN [info EXCEPT ![c[1]] = NULL] ELSE info
         /\ idx' = IF done THEN [idx EXCEPT ![t] = <<>>] ELSE idx
         /\ halted' = IF done /\ \E i \in Range(c) : free[i]
                      THEN "free_desc" ELSE "none"
  /\ UNCHANGED <<IO_type, own, target, status, bufDisk, devq, used, intr, ipc,
                 heap, sq, xfer, nsub, dd, ticks, arrival>>

-----------------------------------------------------------------------------
(***************************************************************************)
(* The device completes any published chain, in any order: it transfers   *)
(* the request, writes status 0, appends the head to the used ring and    *)
(* raises its interrupt.                                                   *)
(***************************************************************************)
DeviceComplete(e) ==
  /\ Running
  /\ devq' = devq \ {e}
  /\ status' = [status EXCEPT ![e.head] = 0]
  /\ used' = Append(used, e)
  /\ intr' = TRUE
  /\ xfer' = [t \in Threads |-> xfer[t] \/ (Busy(t) /\ own[t] = e.req)]
  /\ UNCHANGED <<IO_type, pc, own, target, idx, free, info, bufDisk, ipc,
                 heap, sq, nsub, halted, dd, ticks, arrival>>

\* virtio_disk_intr: acquire vdisk_lock and acknowledge the interrupt.
IntrAck ==
  /\ intr
  /\ LockFree
  /\ intr' = FALSE
  /\ ipc' = "drain"
  /\ UNCHANGED <<IO_type, pc, own, target, idx, free, info, status, bufDisk,
                 devq, used, heap, sq, xfer, nsub, halted, dd, ticks, arrival>>

(***************************************************************************)
(* The used-ring loop: for each entry, panic unless its status is 0, set  *)
(* info[id].b->disk = 0 (a NULL b faults) and wakeup(b).  Then retire one *)
(* entry of the elevator IO_type names now, and release vdisk_lock.      *)
(***************************************************************************)
DrainedHeads == {used[k].head : k \in DOMAIN used}
DrainedBufs == {info[h] : h \in DrainedHeads}

\* Mutant: the loop clears b->disk but never calls wakeup(b).
DrainNoWakeup ==
  /\ ipc = "drain"
  /\ Running
  /\ bufDisk' = [b \in Bufs |-> IF b \in DrainedBufs THEN 0 ELSE bufDisk[b]]
  /\ UNCHANGED pc
  /\ used' = <<>>
  /\ ipc' = "idle"

Drain ==
  /\ ipc = "drain"
  /\ Running
  /\ bufDisk' = [b \in Bufs |-> IF b \in DrainedBufs THEN 0 ELSE bufDisk[b]]
  /\ pc' = [t \in Threads |->
              IF pc[t] = "sleepBuf" /\ target[t].b \in DrainedBufs
              THEN "wakeBuf" ELSE pc[t]]
  /\ used' = <<>>
  /\ ipc' = "idle"

DrainFault ==
  IF \E h \in DrainedHeads : status[h] # 0 THEN "status"
  ELSE IF NULL \in DrainedBufs THEN "null" ELSE "none"

IntrDrainPassthrough ==
  /\ Drain
  /\ IO_type = 0
  /\ halted' = DrainFault
  /\ UNCHANGED <<IO_type, own, target, idx, free, info, status, devq, intr,
                 heap, sq, xfer, nsub, dd, ticks, arrival>>

\* deleteFromMinHeap under queue_lock; Size < 0 reads before data[].
IntrDrainHeap ==
  /\ Drain
  /\ IO_type = 1
  /\ heap' = IF DeleteUB(heap) THEN heap ELSE deleteFromMinHeap(heap)
  /\ halted' = IF DeleteUB(heap) THEN "heap" ELSE DrainFault
  /\ UNCHANGED <<IO_type, own, target, idx, free, info, status, devq, intr,
                 sq, xfer, nsub, dd, ticks, arrival>>

\* Mutant: the SSTF retire runs without its IO_type == 2 test.
IntrDrainSstfAnyMode ==
  /\ Drain
  /\ sq' = dequeue(sq)
  /\ halted' = DrainFault
  /\ UNCHANGED <<IO_type, own, target, idx, free, info, status, devq, intr,
                 heap, xfer, nsub, dd, ticks, arrival>>

\* dequeue under queue_lock.
IntrDrainSstf ==
  /\ Drain
  /\ IO_type = 2
  /\ sq' = dequeue(sq)
  /\ halted' = DrainFault
  /\ UNCHANGED <<IO_type, own, target, idx, free, info, status, devq, intr,
                 heap, xfer, nsub, dd, ticks, arrival>>

\* PrimRBTree(&disk.tree[0]) under queue_lock, after the used-ring loop.
IntrDrainDeadline ==
  /\ Drain
  /\ IO_type = 3
  /\ LET res == PrimRBTree(dd, 0)
     IN  /\ dd' = IF DrainFault = "none" THEN res.d ELSE dd
         /\ halted' = IF DrainFault = "none" THEN res.fault ELSE DrainFault
  /\ UNCHANGED <<IO_type, own, target, idx, free, info, status, devq, intr,
                 heap, sq, xfer, nsub, ticks, arrival>>

\* The clock interrupt: ticks++ (under tickslock, which nothing here holds).
Tick ==
  /\ Running
  /\ ticks < MaxTicks
  /\ ticks' = ticks + 1
  /\ UNCHANGED <<IO_type, pc, own, target, idx, free, info, status, bufDisk,
                 devq, used, intr, ipc, heap, sq, dd, arrival, xfer, nsub,
                 halted>>

-----------------------------------------------------------------------------
\* set_policy (IO_switch, called by sys_IO_schedule): writes IO_type.
Quiescent == \A t \in Threads : ~Busy(t)

SetPolicy(m) ==
  /\ Running
  /\ m # IO_type
  /\ QuiescentSwitch => Quiescent
  /\ IO_type' = m
  /\ UNCHANGED <<pc, own, target, idx, free, info, status, bufDisk, devq,
                 used, intr, ipc, heap, sq, xfer, nsub, halted, dd, ticks, arrival>>

\* All calls made and answered, nothing left at the device.
Finished ==
  /\ Running /\ nsub = MaxSubmits /\ Quiescent
  /\ devq = {} /\ used = <<>> /\ ~intr /\ ipc = "idle"

ThreadStep(t) ==
  \/ ReadyHeap(t) \/ ReadySstf(t) \/ ReadyDeadline(t)
  \/ DiskRwSubmit(t) \/ DiskRwWaitDesc(t) \/ DiskRwWake(t)

Next ==
  \/ \E t \in Threads, r \in Req :
        \/ SubmitPassthrough(t, r) \/ SubmitHeap(t, r) \/ SubmitSstf(t, r)
        \/ SubmitDeadline(t, r)
  \/ \E t \in Threads : ThreadStep(t)
  \/ \E e \in devq : DeviceComplete(e)
  \/ IntrAck
  \/ IntrDrainPassthrough \/ IntrDrainHeap \/ IntrDrainSstf \/ IntrDrainDeadline
  \/ Tick
  \/ \E m \in Modes : SetPolicy(m)
  \/ (Finished /\ UNCHANGED vars)

(***************************************************************************)
(* Fairness: xv6's scheduler runs every runnable thread, qemu completes   *)
(* every published chain, and a pending interrupt is delivered.  Sleeping *)
(* threads are not runnable, so nothing forces them on.                   *)
(***************************************************************************)
Fairness ==
  /\ \A t \in Threads : WF_vars(ThreadStep(t))
  /\ WF_vars(\E e \in devq : DeviceComplete(e))
  /\ WF_vars(IntrAck)
  /\ WF_vars(IntrDrainPassthrough \/ IntrDrainHeap \/ IntrDrainSstf
             \/ IntrDrainDeadline)

Spec == Init /\ [][Next]_vars /\ Fairness
-----------------------------------------------------------------------------
(* Types of the state; the policy sizes are array indices of the C code. *)
TypeOK ==
  /\ IO_type \in Modes
  /\ pc \in [Threads -> {"idle", "heapReady", "sstfReady", "dlReady", "lock",
                         "sleepFree", "sleepBuf", "wakeBuf"}]
  /\ own \in [Threads -> Req \cup {NullReq}]
  /\ free \in [Descs -> BOOLEAN]
  /\ info \in [Descs -> Bufs \cup {NULL}]
  /\ status \in [Descs -> {0, 255}]
  /\ bufDisk \in [Bufs -> {0, 1}]
  /\ intr \in BOOLEAN /\ ipc \in {"idle", "drain"}
  /\ xfer \in [Threads -> BOOLEAN]
  /\ nsub \in 0 .. MaxSubmits
  \* the C ints heap->Size and sstfq->size index data[]: never negative,
  \* never past the array
  /\ heap.Size \in 0 .. HeapSlots - 1
  /\ sq.size \in 0 .. QSlots - 1
  /\ \A c \in Classes : dd.tree[c].size \in 0 .. TreeSize
  \* the red-black rotations, which the model leaves out, are never reached
  /\ halted # "rebalance"

(***************************************************************************)
(* Descriptor pool: the descriptors not free are exactly those of the     *)
(* threads holding a chain, three each, no two threads sharing one.       *)
(* alloc3_desc must give back a partial allocation, and free_chain must   *)
(* return the whole chain, whatever order threads run in.                 *)
(***************************************************************************)
ChainsAllOrNothing ==
  /\ {i \in Descs : ~free[i]} = UNION {Range(idx[t]) : t \in {u \in Threads : Holding(u)}}
  /\ \A t \in Threads : Holding(t) => Cardinality(Range(idx[t])) = 3
  /\ \A t, u \in Threads :
        t # u /\ Holding(t) /\ Holding(u) => Range(idx[t]) \cap Range(idx[u]) = {}

(***************************************************************************)
(* Every chain the device still holds belongs to a thread that is still   *)
(* waiting in virtio_disk_rw for that very request: no thread frees a     *)
(* chain, and returns, before the device has finished with it.            *)
(***************************************************************************)
InFlightChainsOwned ==
  \A e \in devq : \E t \in Threads :
     Holding(t) /\ idx[t][1] = e.head /\ target[t] = e.req

(***************************************************************************)
(* A call to rw_queue returns only after the device has transferred the   *)
(* caller's own request: bread marks its buffer valid on return, and the  *)
(* log writes it commits are assumed to be on disk.                       *)
(***************************************************************************)
OwnRequestServiced ==
  [][\A t \in Threads : Busy(t) /\ pc'[t] = "idle" => xfer[t]]_vars

(***************************************************************************)
(* In the heap, SSTF and deadline modes, the entry the interrupt handler retires is *)
(* the request whose completion that interrupt reports, so the policy     *)
(* never drops a request it has not had serviced.                         *)
(***************************************************************************)
RetiredReq == CASE IO_type = 1 -> HeapReady(heap)
                [] IO_type = 2 -> QueueReady(sq)
                [] OTHER -> DeadlineRetired(dd)

RetireMatchesCompletion ==
  [][ipc = "drain" /\ ipc' = "idle" /\ IO_type \in {1, 2, 3}
       => RetiredReq \in {used[k].req : k \in DOMAIN used}]_vars

(***************************************************************************)
(* Every rw_queue call eventually returns: no thread sleeps forever on    *)
(* the descriptor pool or on its buffer.                                  *)
(***************************************************************************)
CallsReturn == \A t \in Threads : Busy(t) ~> ~Busy(t)

\* A submission step of thread t in the deadline elevator.
DeadlineSubmitStep(t) == pc[t] = "idle" /\ pc'[t] = "dlReady"

\* The requests whose callers still wait for them to be transferred, and
\* those among them that have waited longer than the time limit.
Waiting == {own[u] : u \in {v \in Threads : Busy(v) /\ ~xfer[v]}}
Overdue == {own[u] : u \in {v \in Threads : Busy(v) /\ ~xfer[v] /\
                                            ticks - arrival[v] > TimeLimit}}

\* The deadline rule without expiry: the lowest block of the read class,
\* or of the write class when no read is queued.
Nearest(S) ==
  LET rs == {r \in S : r.w = 0}
      cls == IF rs # {} THEN rs ELSE S
  IN  CHOOSE r \in cls : \A q \in cls : r.b <= q.b

(***************************************************************************)
(* Starvation bound (spec 4.5, 8): when a caller submits while another    *)
(* request has waited longer than the time limit, the request made ready  *)
(* is an overdue one, and the kernel keeps running.                       *)
(***************************************************************************)
ExpiredPickedFirst ==
  [][\A t \in Threads : DeadlineSubmitStep(t) /\ Overdue # {}
       => dd'.ready \in Overdue /\ halted' = "none"]_vars

(***************************************************************************)
(* Seek order (spec 4.5, 8): a submission with nothing overdue makes      *)
(* ready the waiting request of lowest block, reads before writes.        *)
(***************************************************************************)
NearestFirst ==
  [][\A t \in Threads : DeadlineSubmitStep(t) /\ Overdue = {} /\ halted' = "none"
       => dd'.ready = Nearest(Waiting')]_vars

(***************************************************************************)
(* Refinement: the driver implements BlockDevice.  A caller is waiting    *)
(* from its rw_queue call until the device has transferred its own        *)
(* request, done from then until virtio_disk_rw returns, idle otherwise.  *)
(***************************************************************************)
CallState == [t \in Threads |-> IF ~Busy(t) THEN "idle"
                                ELSE IF xfer[t] THEN "done" ELSE "waiting"]

Abstract == INSTANCE BlockDevice WITH req <- own, st <- CallState, NoReq <- NullReq

(***************************************************************************)
(* Every behaviour of the driver is a behaviour of BlockDevice: no call   *)
(* returns before its own transfer, and every call is served and returns. *)
(***************************************************************************)
BlockDeviceSpec == Abstract!Spec
=============================================================================
