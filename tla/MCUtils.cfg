CONSTANTS
  BitLen = 10
  PointSize = 7
  Strings <- MCStrings
  Items <- MCItems
  Leftovers <- MCLeftovers
  MaxCol = 3
  IntBits = 5
  LongBits = 8
  Copts <- MCCopts
  StrMax = 2
SPECIFICATION Spec
INVARIANTS StrToIntExact FormatsAgree ParsesWhatWasTyped
PROPERTY StoresOneElement
