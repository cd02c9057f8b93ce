CONSTANTS
  WordBits = 3
  BlockSize = 2
  MaxBlocks = 7
  MapBits = 9
  Modulus = 16
  Amounts = {1, 2, 4}
  Regions <- MCRegions
SPECIFICATION RunsSpec
INVARIANTS
  MapIsLedger
  RefusedOnlyWhenFull
PROPERTIES
  RuntimeKeepsDrift
  ImplementsFrameAllocator
  RunIsFresh
