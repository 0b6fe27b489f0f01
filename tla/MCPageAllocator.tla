--------------------------- MODULE MCPageAllocator ---------------------------
EXTENDS PageAllocator, TLC

CONSTANTS a1, a2, a3

Sym == Permutations(Arena)
===============================================================================
