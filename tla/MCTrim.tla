------------------------------- MODULE MCTrim ---------------------------------
\* The background trimmer and a manual caller among the mallocs and frees of a
\* program: three blocks and one CPU, or two blocks and two CPUs, in a class of
\* one unit.
EXTENDS Trim, TLC

Symmetric == Permutations(Block)

OneClass(b) == 0
OneUnit(k) == 1
Small == {[ncpu |-> 1, blocks |-> Block]}
         \cup {[ncpu |-> 2, blocks |-> Block \ {b}] : b \in Block}
===============================================================================
