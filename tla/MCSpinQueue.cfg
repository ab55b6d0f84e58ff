CONSTANTS
  p1 = p1
  p2 = p2
  k1 = k1
  k2 = k2
  Producers = {p1, p2}
  Consumers = {k1, k2}
  Count = 2
  HEAD = HEAD
  NULL = NULL
SPECIFICATION Spec
INVARIANTS TypeOK WalkedIsTaken
PROPERTY ImplementsBatchQueue
