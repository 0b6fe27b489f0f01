----------------------------- MODULE MCRseqList -----------------------------
EXTENDS RseqList, TLC

Symmetry == Permutations(Thread) \cup Permutations(Block) \cup Permutations(CPU)
=============================================================================
