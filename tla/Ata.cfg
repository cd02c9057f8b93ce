SPECIFICATION FairSpec
CONSTANTS
  Reads <- MCReads
  Sleeps <- MCSleeps
  WordsPerSector = 2
  Timeout = 8
  TickStep = 5
  Modulus = 33
  FirstTicks <- MCFirstTicks
  Unready <- MCUnready
  MaxElapsed = 15
INVARIANTS
  ReadIsRight
  WaitIsWhole
PROPERTIES
  EveryWaitEnds
  EveryTransferEnds
