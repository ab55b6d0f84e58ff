CONSTANTS
  c1 = c1
  c2 = c2
  Clients = {c1, c2}
  Backlog = 1
  GarbageState = {"CLI_INIT"}
  Faults = FALSE
  Impatient = {c1, c2}
  MaxCreates = 2
  BufInit = 2
  ShrinkAbove = 3
  MaxPrint = 2
  MaxBuf = 4
SPECIFICATION Spec
CHECK_DEADLOCK FALSE
INVARIANT CreateListens
