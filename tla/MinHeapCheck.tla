---------------------------- MODULE MinHeapCheck ----------------------------
(***************************************************************************)
(* Checks insertMinHeap and deleteFromMinHeap against a reference: the    *)
(* bag of requests inserted and not yet deleted.  The caller is the one   *)
(* rw_queue and virtio_disk_intr are meant to be: it deletes only from a  *)
(* non-empty heap, and holds at most MaxFill requests at a time.           *)
(***************************************************************************)
EXTENDS MinHeap, Bags

CONSTANTS
  Blocks,    \* block numbers of the requests (all > 0, block 0 is the sentinel)
  MaxFill    \* most requests the caller keeps in the heap at once

ASSUME Blocks \subseteq Nat \ {0} /\ MaxFill \in 1 .. HeapSlots

VARIABLES
  heap,      \* disk.hnode
  pending,   \* reference: bag of the requests inserted and not deleted
  halted     \* the last insert wrote outside data[] or panicked

vars == <<heap, pending, halted>>

Req == [b : Blocks, w : {0}]

Init ==
  /\ heap = InitHeap
  /\ pending = EmptyBag
  /\ halted = FALSE

\* insertMinHeap(heap, x) of rw_queue (virtio_disk.c 192-208).
Insert(x) ==
  /\ ~halted
  /\ heap.Size < MaxFill
  /\ LET stop == InsertPanics(heap) \/ InsertUB(heap, x)
     IN  /\ halted' = stop
         /\ heap' = IF stop THEN [heap EXCEPT !.Size = @ + 1]
                            ELSE insertMinHeap(heap, x)
         /\ pending' = IF stop THEN pending ELSE pending (+) SetToBag({x})

\* deleteFromMinHeap(heap) of virtio_disk_intr (virtio_disk.c 210-231).
Delete ==
  /\ ~halted
  /\ heap.Size > 0
  /\ heap' = deleteFromMinHeap(heap)
  /\ pending' = pending (-) SetToBag({HeapReady(heap)})
  /\ UNCHANGED halted

Next == (\E x \in Req : Insert(x)) \/ Delete

Spec == Init /\ [][Next]_vars

(***************************************************************************)
(* Heap order: every element of data[2..Size] is no smaller than its     *)
(* parent, so data[1], the request rw_queue issues, is a minimum.  Broken *)
(* by a sift-down that stops one level early.                            *)
(***************************************************************************)
HeapOrdered ==
  \A i \in 2 .. heap.Size : Key(heap.data[i]) >= Key(heap.data[i \div 2])

(***************************************************************************)
(* The heap holds exactly the requests inserted and not yet deleted: no   *)
(* insert or delete loses or duplicates a request while it moves entries. *)
(***************************************************************************)
ContentsPreserved == HeapBag(heap) = pending

(***************************************************************************)
(* Every element the heap holds lies inside data[]: an insert admitted by *)
(* the capacity check never writes past the array.                        *)
(***************************************************************************)
ElementsInArray == heap.Size < HeapSlots
=============================================================================
