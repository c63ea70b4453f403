---------------------------- MODULE ElevatorCheck ----------------------------
(***************************************************************************)
(* The two pure elevators of virtio_disk.c checked in one model: the heap *)
(* harness (MinHeapCheck) and the SSTF harness (SstfCheck) run side by    *)
(* side, each step moving one of them, as rw_queue and virtio_disk_intr   *)
(* would drive whichever elevator IO_type selects.                        *)
(***************************************************************************)
CONSTANTS
  HeapSlots, QSlots,   \* lengths of the heap and queue arrays
  HeapBlocks, QBlocks, \* block numbers of the requests each one gets
  HeapFill, QFill      \* most requests each one holds at once

VARIABLES heap, hpending, halted, sq, qpending

hvars == <<heap, hpending, halted>>
qvars == <<sq, qpending>>
vars == <<hvars, qvars>>

H == INSTANCE MinHeapCheck WITH Blocks <- HeapBlocks, MaxFill <- HeapFill,
                                pending <- hpending
S == INSTANCE SstfCheck WITH Blocks <- QBlocks, MaxFill <- QFill,
                             pending <- qpending

Init == H!Init /\ S!Init

Next == \/ H!Next /\ UNCHANGED qvars
        \/ S!Next /\ UNCHANGED hvars

Spec == Init /\ [][Next]_vars
-----------------------------------------------------------------------------
\* After every insertMinHeap/deleteFromMinHeap, data[1..Size] is a min-heap
\* on block number (MinHeapCheck!HeapOrdered).
HeapOrdered == H!HeapOrdered

\* The heap holds exactly the requests inserted and not deleted, duplicates
\* included (MinHeapCheck!ContentsPreserved).
ContentsPreserved == H!ContentsPreserved

\* After every enqueue/dequeue, data[1] is the request nearest to data[0],
\* the one in service (SstfCheck!NearestNext).
NearestNext == S!NearestNext

\* The queue holds exactly the requests enqueued and not dequeued
\* (SstfCheck!QueueContentsPreserved).
QueueContentsPreserved == S!QueueContentsPreserved
=============================================================================
