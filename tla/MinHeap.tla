------------------------------ MODULE MinHeap ------------------------------
(***************************************************************************)
(* The array-backed binary min-heap of the CFQ-labelled elevator           *)
(* (IO_type 1) in src/kernel/virtio_disk.c: struct HNode, insertMinHeap   *)
(* and deleteFromMinHeap.                                                  *)
(*                                                                         *)
(* A heap is a record [data |-> d, Size |-> n].  d maps the array indices *)
(* 0 .. HeapSlots-1 to requests; index 0 holds the sentinel installed by  *)
(* virtio_disk_init (block 0 of the static buffer temp).  n is the C int  *)
(* heap->Size: it is not clamped and can become negative.                 *)
(*                                                                         *)
(* The operators below only compute the new heap.  The conditions under   *)
(* which the C code panics, hangs, or writes outside data[] are separate  *)
(* predicates so that callers can stop the system there.                  *)
(***************************************************************************)
EXTENDS Integers, FiniteSets

CONSTANT HeapSlots   \* length of data[] (128 in the code)

\* heap->Capacity: virtio_disk_init sets it to the array length.
Capacity == HeapSlots

\* A request is the pair (struct req){b, write}; a buffer is named by its
\* block number.  NullReq is an all-zero struct req (b == NULL).
NullReq == [b |-> -1, w |-> 0]
Sentinel == [b |-> 0, w |-> 0]

\* x.b->blockno
Key(r) == r.b

InitHeap == [data |-> [i \in 0 .. HeapSlots - 1 |->
                         IF i = 0 THEN Sentinel ELSE NullReq],
             Size |-> 0]

(***************************************************************************)
(* insertMinHeap: p = ++Size; while data[p/2] > x { data[p] = data[p/2];  *)
(* p /= 2 }; data[p] = x.  The loop only reads ancestors of p, which it    *)
(* has not yet overwritten, so the final array is computed from d.        *)
(***************************************************************************)
RECURSIVE SiftUp(_, _, _)
SiftUp(d, p, x) ==
  IF Key(d[p \div 2]) > Key(x)
  THEN SiftUp([d EXCEPT ![p] = d[p \div 2]], p \div 2, x)
  ELSE [d EXCEPT ![p] = x]

\* The sift-up loop never ends: it reaches p = 0 with data[0] > x (the
\* sentinel has been overwritten), where p /= 2 leaves p at 0.
RECURSIVE InsertHangs(_, _, _)
InsertHangs(d, p, x) ==
  /\ Key(d[p \div 2]) > Key(x)
  /\ (p = 0 \/ InsertHangs(d, p \div 2, x))

InsertPanics(h) == h.Size = Capacity            \* "queue out of capacity"
InsertOutOfBounds(h) == h.Size + 1 >= HeapSlots  \* data[++Size] past data[]
InsertUB(h, x) == InsertOutOfBounds(h) \/ InsertHangs(h.data, h.Size + 1, x)

insertMinHeap(h, x) ==
  [data |-> SiftUp(h.data, h.Size + 1, x), Size |-> h.Size + 1]

(***************************************************************************)
(* deleteFromMinHeap: last = data[Size--]; then sift last down from the   *)
(* root, taking the smaller child (the right one only if it exists and    *)
(* is strictly smaller), stopping when the child is strictly larger than  *)
(* last.  With Size = 0 on entry, last is the sentinel and Size becomes   *)
(* -1; with Size < 0, data[Size] is read from before the array.           *)
(***************************************************************************)
SmallerChild(d, n, parent) ==
  IF 2 * parent # n /\ Key(d[2 * parent]) > Key(d[2 * parent + 1])
  THEN 2 * parent + 1 ELSE 2 * parent

RECURSIVE SiftDown(_, _, _, _)

\* Mutant: the loop bound parent * 2 < Size skips a last, lone left child.
SiftDownSkipsLastChild(d, n, parent, last) ==
  LET child == SmallerChild(d, n, parent)
  IN  IF 2 * parent >= n \/ Key(d[child]) > Key(last)
      THEN [d EXCEPT ![parent] = last]
      ELSE SiftDown([d EXCEPT ![parent] = d[child]], n, child, last)

SiftDown(d, n, parent, last) ==
  LET child == SmallerChild(d, n, parent)
  IN  IF 2 * parent > n \/ Key(d[child]) > Key(last)
      THEN [d EXCEPT ![parent] = last]
      ELSE SiftDown([d EXCEPT ![parent] = d[child]], n, child, last)

DeleteUB(h) == h.Size < 0

\* Mutant: last is taken as data[--Size] instead of data[Size--].
deleteFromMinHeapPreDecrement(h) ==
  [data |-> SiftDown(h.data, h.Size - 1, 1, h.data[h.Size - 1]),
   Size |-> h.Size - 1]

deleteFromMinHeap(h) ==
  [data |-> SiftDown(h.data, h.Size - 1, 1, h.data[h.Size]),
   Size |-> h.Size - 1]

\* The request rw_queue issues in IO_type 1: heap->data[1].
HeapReady(h) == h.data[1]

\* The requests held in data[1..Size], as a bag.
HeapBag(h) == [r \in {h.data[i] : i \in 1 .. h.Size} |->
                 Cardinality({i \in 1 .. h.Size : h.data[i] = r})]
=============================================================================
