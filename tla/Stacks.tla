-------------------------------- MODULE Stacks --------------------------------
(***************************************************************************)
(* Sequences as stacks of blocks, the top first.                           *)
(***************************************************************************)
EXTENDS Naturals, Sequences

Blocks(s) == {s[i] : i \in 1..Len(s)}

Distinct(s) == \A i, j \in 1..Len(s) : s[i] = s[j] => i = j

\* c is the top of s, and what remains of s under it.
OnTop(c, s) == Len(c) <= Len(s) /\ \A i \in 1..Len(c) : c[i] = s[i]

Below(c, s) == SubSeq(s, Len(c) + 1, Len(s))
===============================================================================
