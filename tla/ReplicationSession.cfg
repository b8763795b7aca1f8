SPECIFICATION Spec
CONSTANTS
  Blocks = {b1, b2}
  MaxWrites = 3
  WCount = 2
  CCount = 2
  Starts = {"none"}
  Fits = {TRUE}
  Differs = {TRUE, FALSE}
  QueueSize = 1
  Window = 8
  Workers = 1
  MaxIssued = 2
  MaxBreaks = 1
  MaxErrors = 0
INVARIANTS
  PrefixConsistent
  Converged
CHECK_DEADLOCK FALSE
