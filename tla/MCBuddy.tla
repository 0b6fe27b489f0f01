------------------------------- MODULE MCBuddy -------------------------------
EXTENDS Buddy, TLC

\* Concurrent calls on one region; one call after the other on two nodes.
Both == {[nodes |-> 1, most |-> 1, least |-> 0, solo |-> FALSE],
         [nodes |-> 2, most |-> 2, least |-> 1, solo |-> TRUE]}

Symmetric == Permutations(Thread) \cup Permutations(Region)

==============================================================================
