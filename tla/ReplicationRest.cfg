SPECIFICATION FairSpec
CONSTANTS
  Blocks = {b1}
  MaxWrites = 2
  WCount = 1
  CCount = 1
  Starts = {"none", "scan", "full", "replicate"}
  Fits = {TRUE, FALSE}
  Differs = {TRUE}
  QueueSize = 1
  Window = 8
  Workers = 1
  MaxIssued = 2
  MaxBreaks = 0
  MaxErrors = 1
INVARIANTS
  TypeOK
  Converged
PROPERTIES
  ComesToRest
CHECK_DEADLOCK FALSE
