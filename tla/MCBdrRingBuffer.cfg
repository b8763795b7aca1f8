SPECIFICATION Spec
CONSTANTS
  Writers = {w1, w2}
  b1 = b1
  b2 = b2
  Blocks <- TwoBlocks
  Bios <- TwoBios
  MaxWrites = 3
  MaxAccepted = 4
SYMMETRY WriterSymmetry
INVARIANTS TypeOK DistinctTargets ReaderBatchKept NoSilentRefusal
PROPERTY ImplementsQueue
