CONSTANTS
  A = A
  B = B
  n1 = n1
  n2 = n2
  n3 = n3
  n4 = n4
  Heads = {A, B}
  Nodes = {n1, n2, n3, n4}
  NULL = NULL
  JUNK = JUNK
SPECIFICATION Spec
SYMMETRY MCSymmetry
CHECK_DEADLOCK FALSE
INVARIANT BackLinks
PROPERTY ImplementsNodeLists
