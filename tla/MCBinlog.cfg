CONSTANTS
  t1 = t1
  t2 = t2
  Threads = {t1, t2}
  Formats <- MCFormats
  Json <- MCJson
  Strs <- MCStrs
  BINLOG_STACK_SIZE = 3
  ParserSize = 10
  Cuts = {0, 1, 5}
  MaxRecords = 3
  MaxTorn = 1
SPECIFICATION Spec
INVARIANTS BufferHoldsRecord ParsedInOrder DoneIsComplete FailuresExplained
SYMMETRY Symmetry
