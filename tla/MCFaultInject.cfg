CONSTANTS
  t1 = t1
  t2 = t2
  Names = {"x"}
  Threads = {t1, t2}
  IntMax = 4
  Windows <- MCWindows
  MaxHits = 5
  MaxCtl = 4
SPECIFICATION Spec
CHECK_DEADLOCK FALSE
INVARIANTS PassesExactWindow NeverOvercounts
PROPERTY NeverEarly
SYMMETRY Symmetry
