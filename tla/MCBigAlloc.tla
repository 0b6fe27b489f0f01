------------------------------ MODULE MCBigAlloc -----------------------------
\* Two threads and two pointers.  The programs: small blocks that grow by an
\* order or two, and large ones that grow within their block.
EXTENDS BigAlloc, TLC

Symmetric == Permutations(Thread) \cup Permutations(Handle)

SmallAndLarge == {[malloc |-> {1, 2}, realloc |-> {2}], [malloc |-> {2}, realloc |-> {3}]}

All == {[malloc |-> {1, 2, 3}, realloc |-> {1, 2, 3}]}
==============================================================================
