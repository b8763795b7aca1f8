SPECIFICATION FairSpec
CONSTANTS
  Blocks = {b1}
  MaxWrites = 2
  WCount = 1
  CCount = 1
  Starts = {"scan"}
  Fits = {TRUE}
  Differs = {TRUE, FALSE}
  QueueSize = 1
  Window = 8
  Workers = 1
  MaxIssued = 1
  MaxBreaks = 1
  MaxErrors = 0
PROPERTIES
  ReconnectsIfNecessary
CHECK_DEADLOCK FALSE
