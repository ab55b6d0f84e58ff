CONSTANTS
  p1 = p1
  p2 = p2
  Producers = {p1, p2}
  Count = 2
  MaxRuns = 2
  HEAD = HEAD
  NULL = NULL
SPECIFICATION FairSpec
INVARIANTS WalksWhatWasTaken
PROPERTIES ImplementsBatchQueue BenchmarkEnds
