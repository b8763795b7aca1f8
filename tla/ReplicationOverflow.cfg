SPECIFICATION FairSpec
CONSTANTS
  Blocks = {b1, b2, b3, b4, b5, b6}
  MaxWrites = 2
  WCount = 1
  CCount = 1
  Starts = {"scan"}
  Fits = {TRUE}
  Differs = {TRUE}
  QueueSize = 1
  Window = 1
  Workers = 1
  MaxIssued = 0
  MaxBreaks = 0
  MaxErrors = 0
PROPERTIES
  OverflowStopsClient
CHECK_DEADLOCK FALSE
