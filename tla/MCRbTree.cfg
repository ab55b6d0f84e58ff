CONSTANTS
  Size = 10
  NULL = NULL
  Nodes <- MCNodes
  Key <- MCKey
  Weight <- MCWeight
SPECIFICATION Spec
INVARIANTS LinksAgree LoopInvariants Traversals AugmentedMax
PROPERTIES LoopsClimb ImplementsSortedList
