CONSTANTS
  Requests <- MCRequests
  Known <- MCKnown
  MaxLen = 3
  MaxArgc = 2
  BufBytes = 9
  Texts = {"a", "b"}
  BufInit = 3
  ShrinkAbove = 8
  MaxPrint = 3
  MaxBuf = 12
SPECIFICATION SignalSpec
CHECK_DEADLOCK FALSE
INVARIANT WritesTheBuffer
