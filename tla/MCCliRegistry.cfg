CONSTANTS
  t1 = t1
  t2 = t2
  Threads = {t1, t2}
  Names = {"help", "test"}
  Slots = 3
  MaxRegs = 2
  NULL = NULL
SPECIFICATION Spec
CHECK_DEADLOCK FALSE
INVARIANTS RegisteredIsFound CallsTheRightOne CountsEntries
PROPERTY EntriesStay
