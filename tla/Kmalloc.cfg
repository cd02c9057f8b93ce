CONSTANTS
  HeapStart = 8
  HeapEnd = 32
  HeaderSize = 2
  MinBlock = 2
  PageSize = 4
  WindowPages = {2, 3, 4}
  Requests = {0, 1, 3, 5, 17}
SPECIFICATION Spec
INVARIANTS
  HeapInv
  HandedOutIsMapped
  FreedHeapIsWhole
PROPERTIES
  ImplementsHeapArena
CHECK_DEADLOCK FALSE
