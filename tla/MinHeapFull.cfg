CONSTANTS
  HeapSlots = 3
  MaxFill = 3
  Blocks = {1, 2}
SPECIFICATION Spec
INVARIANT ElementsInArray
CHECK_DEADLOCK FALSE
