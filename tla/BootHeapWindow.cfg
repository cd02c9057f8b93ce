CONSTANTS
  WordBits = 4
  BlockSize = 4
  MaxBlocks = 17
  MapBits = 20
  Modulus = 32
  Regions = {}
  BiosMap <- WindowMap
  EbdaBases = {34, 68}
  RomBase = 36
  ParagraphBits = 1
  UsedBefore <- MCUsedBefore
  UsedAfter <- MCUsedAfter
  OldPageTable <- MCOldPageTable
  InUse <- MCInUse
  KernelWindow <- MCKernelWindow
  Disks <- MCDisks
  Stage2Length = 1024
  Bioses <- WindowBioses
SPECIFICATION WholeSpec
INVARIANT WindowNeverHeld
CHECK_DEADLOCK FALSE
