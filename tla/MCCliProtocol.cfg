CONSTANTS
  Requests <- MCRequests
  Known <- MCKnown
  MaxLen = 3
  MaxArgc = 2
  BufBytes = 9
  Texts = {"a", "b"}
  BufInit = 3
  ShrinkAbove = 8
  MaxPrint = 3
  MaxBuf = 12
SPECIFICATION FairProtoSpec
CHECK_DEADLOCK FALSE
INVARIANTS TypeOK TerminatorInside OutputIsPrinted ExecutesTheRequest ShowsTheReply
PROPERTY ClientEnds
