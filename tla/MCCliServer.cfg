CONSTANTS
  c1 = c1
  c2 = c2
  Clients = {c1, c2}
  Backlog = 2
  GarbageState = {"CLI_INIT", "CLI_DOWN", "CLI_FINI"}
  Faults = TRUE
  Impatient = {c1, c2}
  MaxCreates = 2
  BufInit = 2
  ShrinkAbove = 3
  MaxPrint = 2
  MaxBuf = 4
SPECIFICATION FairSpec
CHECK_DEADLOCK FALSE
INVARIANTS ReplyIsExact NoUseAfterFree CrashesExplained
PROPERTIES DestroyReturns ClientsFinish
