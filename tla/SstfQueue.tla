----------------------------- MODULE SstfQueue -----------------------------
(***************************************************************************)
(* The SSTF elevator (IO_type 2) in src/kernel/virtio_disk.c: struct      *)
(* Queue, distance, SSTF, enqueue and dequeue.                             *)
(*                                                                         *)
(* A queue is a record [data |-> d, size |-> n]: d maps the array indices *)
(* 0 .. QSlots-1 to requests, n is the C int qp->size, which dequeue can  *)
(* drive negative.  data[0] is the request being serviced; SSTF moves the *)
(* request nearest to it into data[1].                                     *)
(***************************************************************************)
EXTENDS Integers, FiniteSets

CONSTANT QSlots   \* length of data[] and qp->capacity (128 in the code)

QNullReq == [b |-> -1, w |-> 0]

InitQueue == [data |-> [i \in 0 .. QSlots - 1 |-> QNullReq], size |-> 0]

\* distance(x, y) == |x.b->blockno - y.b->blockno|
distance(x, y) == IF x.b - y.b >= 0 THEN x.b - y.b ELSE y.b - x.b

(***************************************************************************)
(* SSTF(qp): for i in 1 .. size-1, swap data[i] and data[1] when data[i]  *)
(* is strictly nearer to data[0] than the current data[1].                *)
(***************************************************************************)
RECURSIVE SSTFLoop(_, _, _)

\* Mutant: the loop stops at i < size - 1 and never looks at the tail.
SSTFLoopShort(d, i, n) ==
  IF i >= n - 1 THEN d
  ELSE SSTFLoop(IF distance(d[0], d[i]) < distance(d[0], d[1])
                THEN [d EXCEPT ![i] = d[1], ![1] = d[i]] ELSE d, i + 1, n)

SSTFLoop(d, i, n) ==
  IF i >= n THEN d
  ELSE SSTFLoop(IF distance(d[0], d[i]) < distance(d[0], d[1])
                THEN [d EXCEPT ![i] = d[1], ![1] = d[i]] ELSE d, i + 1, n)

SSTF(q) == [q EXCEPT !.data = SSTFLoop(q.data, 1, q.size)]

EnqueuePanics(q) == q.size = QSlots          \* "queue out of capacity"
EnqueueUB(q) == q.size < 0                    \* data[size++] before data[]

\* enqueue(qp, x): data[size++] = x; SSTF(qp).
enqueue(q, x) ==
  SSTF([data |-> [q.data EXCEPT ![q.size] = x], size |-> q.size + 1])

\* Mutant: the shift loop runs to i < size - 2 and keeps a stale duplicate.
dequeueShortShift(q) ==
  SSTF([data |-> [i \in DOMAIN q.data |->
                    IF i < q.size - 2 THEN q.data[i + 1] ELSE q.data[i]],
        size |-> q.size - 1])

\* dequeue(qp): data[i] = data[i+1] for i < size-1; size--; SSTF(qp).
dequeue(q) ==
  SSTF([data |-> [i \in DOMAIN q.data |->
                    IF i < q.size - 1 THEN q.data[i + 1] ELSE q.data[i]],
        size |-> q.size - 1])

\* The request rw_queue issues in IO_type 2: sstfq->data[0].
QueueReady(q) == q.data[0]

\* The requests held in data[0..size-1], as a bag.
QueueBag(q) == [r \in {q.data[i] : i \in 0 .. q.size - 1} |->
                  Cardinality({i \in 0 .. q.size - 1 : q.data[i] = r})]
=============================================================================
