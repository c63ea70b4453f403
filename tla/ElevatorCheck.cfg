\* Heap: 5 slots, up to 4 held, blocks {1,2,3} (duplicate keys).  Queue: 4
\* slots, up to 4 held, blocks {1,3,4,6} (ties in distance).
CONSTANTS
  HeapSlots = 5
  QSlots = 4
  HeapBlocks = {1, 2, 3}
  QBlocks = {1, 3, 4, 6}
  HeapFill = 4
  QFill = 4
SPECIFICATION Spec
INVARIANT HeapOrdered
INVARIANT ContentsPreserved
INVARIANT NearestNext
INVARIANT QueueContentsPreserved
