CONSTANTS
  Idle = Idle
  Users = {u1, u2}
  MaxThreads = 2
  KernelTables = {k1}
  StaleExits = FALSE
  InnerExits = FALSE
  NULL = NULL
  BOOT = BOOT
SPECIFICATION FairSpec
INVARIANTS
  RunningIsAlive
  LinksAreSound
  ContextsAreKept
  DirectoryIsReady
PROPERTIES
  ImplementsRoundRobin
  EveryThreadRuns
CHECK_DEADLOCK FALSE
