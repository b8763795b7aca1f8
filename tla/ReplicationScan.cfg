SPECIFICATION Spec
CONSTANTS
  Blocks = {b1, b2}
  MaxWrites = 3
  WCount = 3
  CCount = 3
  Starts = {"none", "scan"}
  Fits = {TRUE}
  Differs = {TRUE, FALSE}
  QueueSize = 8
  Window = 16
  Workers = 2
  MaxIssued = 3
  MaxBreaks = 0
  MaxErrors = 0
INVARIANTS
  PrefixConsistent
  Converged
  
CHECK_DEADLOCK FALSE
