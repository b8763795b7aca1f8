SPECIFICATION FairSpec
CONSTANTS
  Chunks = {c1, c2, c3, c4}
  NumWorkers = 2
INVARIANTS
  TypeOK
  EveryChunkOnce
  ScanComplete
  NoPanic
PROPERTIES
  Returns
  NoGoroutineLeft
CHECK_DEADLOCK FALSE
