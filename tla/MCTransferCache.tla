--------------------------- MODULE MCTransferCache ---------------------------
EXTENDS TransferCache, TLC

Symmetry == Permutations(Thread) \cup Permutations(Block)
=============================================================================
