----------------------------- MODULE SstfCheck -----------------------------
(***************************************************************************)
(* Checks enqueue and dequeue of the SSTF queue against a reference: the  *)
(* bag of requests enqueued and not yet dequeued, and the nearest-first   *)
(* choice relative to the request in service.  The caller dequeues only   *)
(* from a non-empty queue and holds at most MaxFill requests.             *)
(***************************************************************************)
EXTENDS SstfQueue, Bags

CONSTANTS
  Blocks,    \* block numbers of the requests
  MaxFill    \* most requests the caller keeps queued at once

ASSUME Blocks \subseteq Nat \ {0} /\ MaxFill \in 1 .. QSlots

VARIABLES
  sq,        \* sstfqnode
  pending    \* reference: bag of the requests enqueued and not dequeued

vars == <<sq, pending>>

Req == [b : Blocks, w : {0}]

Init ==
  /\ sq = InitQueue
  /\ pending = EmptyBag

\* enqueue(sstfq, r) of rw_queue (virtio_disk.c 290-296).
Enqueue(x) ==
  /\ sq.size < MaxFill
  /\ sq' = enqueue(sq, x)
  /\ pending' = pending (+) SetToBag({x})

\* dequeue(sstfq) of virtio_disk_intr (virtio_disk.c 299-306).
Dequeue ==
  /\ sq.size > 0
  /\ sq' = dequeue(sq)
  /\ pending' = pending (-) SetToBag({QueueReady(sq)})

Next == (\E x \in Req : Enqueue(x)) \/ Dequeue

Spec == Init /\ [][Next]_vars

(***************************************************************************)
(* Nearest next: after every enqueue and dequeue, data[1], the request    *)
(* that becomes data[0] at the next dequeue, is at least as near to the   *)
(* request in service, data[0], as every other queued request.           *)
(***************************************************************************)
NearestNext ==
  \A i \in 2 .. sq.size - 1 :
     distance(sq.data[0], sq.data[1]) <= distance(sq.data[0], sq.data[i])

(***************************************************************************)
(* The queue holds exactly the requests enqueued and not yet dequeued:    *)
(* the shifts and swaps lose and duplicate nothing.                       *)
(***************************************************************************)
QueueContentsPreserved == QueueBag(sq) = pending
=============================================================================
