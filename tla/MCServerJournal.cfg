SPECIFICATION Spec
CONSTANTS
  Blocks = {b1, b2}
  Vals = {0, 1}
  Blank = 0
  Empty = Empty
  HeaderSize = 2
  DiskSize = 25
  MaxWrites = 4
  KernelWriteSize = 4
  BufWriteByteSize = 5
  CorrBlockByteSize = 3
  Faults = {"process", "power", "io"}
INVARIANTS
  TypeOK
  
  
  
SYMMETRY Symmetry
