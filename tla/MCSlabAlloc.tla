----------------------------- MODULE MCSlabAlloc -----------------------------
EXTENDS SlabAlloc, TLC

OneNode == <<<<0, NCPU - 1>>>>

TwoNodes == <<<<0, 0>>, <<1, NCPU - 1>>>>

Tables == {OneNode, TwoNodes}

Sym == Permutations(Thread) \cup Permutations(Block)
===============================================================================
