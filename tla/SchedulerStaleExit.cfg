CONSTANTS
  Idle = Idle
  Users = {u1, u2, u3}
  MaxThreads = 1
  KernelTables = {k1}
  StaleExits = TRUE
  InnerExits = FALSE
  NULL = NULL
  BOOT = BOOT
SPECIFICATION Spec
INVARIANTS
  RunningIsAlive
CHECK_DEADLOCK FALSE
