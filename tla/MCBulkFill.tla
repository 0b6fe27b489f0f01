----------------------------- MODULE MCBulkFill -----------------------------
EXTENDS BulkFill, TLC

CONSTANTS t1, t2, t3, s1, s2

Sym == Permutations(Thread) \cup Permutations(Span)
===============================================================================
