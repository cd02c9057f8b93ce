CONSTANTS
  HeapStart = 8
  HEAP_END = 32
  Modulus = 40
  ByteModulus = 4
  DWord = 2
  HeaderSize = 2
  MinBlock = 2
  PageSize = 8
  Pages = {1, 2, 3}
  Requests = {0, 1, 3, 7, 9}
SPECIFICATION Spec
INVARIANTS
  HeapInv
  HandedOutIsMapped
  FreedHeapIsWhole
PROPERTIES
  ImplementsHeapArena
