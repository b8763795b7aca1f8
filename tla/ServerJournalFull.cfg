SPECIFICATION Spec
CONSTANTS
  Blocks = {b1, b2}
  Vals = {0, 1}
  Blank = 0
  Empty = Empty
  HeaderSize = 1
  DiskSize = 13
  MaxWrites = 2
  KernelWriteSize = 4
  BufWriteByteSize = 5
  CorrBlockByteSize = 3
  Faults = {"process"}
INVARIANT Recoverable
