SPECIFICATION FairSpec
CONSTANTS
  SCREEN_COLS = 2
  SCREEN_ROWS = 3
  Keys = {"a", "lshift", "capslock", "backspace"}
  KeyBuffer = 2
  Lines = {0, 1, 8}
  PRINTF_BUF_LEN = 6
  DecimalRoom = 3
  HexRoom = 3
  IntSize = 16
  Delimiters <- MCDelimiters
  Ring <- MCRing
  Idle = "idle"
  Shell = "shell"
  ShellText <- MCShellText
  Sessions <- MCSessions
  Calls <- MCCalls
  Faults <- MCFaults
INVARIANTS
  ScreenShowsText
  HandlersRunAlone
  ShiftIsFollowed
  PrintfSaysAll
  ShellPrintsWords
CHECK_DEADLOCK FALSE
PROPERTIES
  EveryRequestIsServed
  EveryProgramEnds
