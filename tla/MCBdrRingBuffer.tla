--------------------------- MODULE MCBdrRingBuffer ---------------------------
(* Small instances of the ring buffer for TLC.                             *)
EXTENDS BdrRingBuffer, TLC

CONSTANTS b1, b2

\* one single-segment bio and one that spans two blocks
TwoBios == {<<b1>>, <<b1, b2>>}
TwoBlocks == {b1, b2}

WriterSymmetry == Permutations(Writers)
=============================================================================
