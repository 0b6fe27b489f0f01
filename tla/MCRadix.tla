------------------------------- MODULE MCRadix -------------------------------
EXTENDS Radix, TLC

\* Neighbours in one word, a span over two leaves, an unaligned one, and
\* one that a realloc has grown.
SomeSpans == {<<0, 2>>, <<3, 6>>, <<10, 2>>, <<0, 4>>}

Symmetric == Permutations(Thread) \cup Permutations(Page)
==============================================================================
