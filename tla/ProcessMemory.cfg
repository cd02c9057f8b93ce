CONSTANTS
  Users = {u1, u2, u3}
  Idle = Idle
  PageSize = 4
  TableSize = 4
  Blocks = 64
  Usable <- Mixed
  MaxBlocks = 24
  EXE_MAX_SEGMENTS = 3
  Leftover <- Zeros
  Binaries <- AllBinaries
  StackPages <- TopOfSpace
  Requests <- HeapRequests
SPECIFICATION Spec
SYMMETRY Symmetry
INVARIANTS
  BlocksAreOwned
  SegmentsAreLoaded
  BlocksAreAccounted
CHECK_DEADLOCK FALSE
