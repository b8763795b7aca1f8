--------------------------- MODULE MCServerJournal ---------------------------
(* ServerJournal for TLC: no action tells one block from another.            *)
EXTENDS ServerJournal, TLC

Symmetry == Permutations(Blocks)
=============================================================================
