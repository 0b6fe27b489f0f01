------------------------------- MODULE Extents -------------------------------
(***************************************************************************)
(* What a backend of large blocks promises: the extents it has given out   *)
(* and not got back are pairwise disjoint.  An extent is a run of units    *)
(* of one region; it may grow upwards while it is out.                     *)
(***************************************************************************)
EXTENDS Naturals

CONSTANTS
    Place,   \* regions
    Units    \* units of a region

VARIABLE out

Extent == {e \in [r : Place, a : 0..(Units - 1), len : 1..Units] : e.a + e.len <= Units}

Apart(e, f) == e.r # f.r \/ e.a + e.len <= f.a \/ f.a + f.len <= e.a

Init == out = {}

Give(e) ==
    /\ e \notin out
    /\ \A f \in out : Apart(e, f)
    /\ out' = out \cup {e}

TakeBack(e) ==
    /\ e \in out
    /\ out' = out \ {e}

Extend(e, n) ==
    LET bigger == [e EXCEPT !.len = n]
    IN  /\ e \in out
        /\ n > e.len
        /\ \A f \in out \ {e} : Apart(bigger, f)
        /\ out' = (out \ {e}) \cup {bigger}

\* Every step changes what is out.
Next ==
    /\ out' # out
    /\ \/ \E e \in Extent : Give(e)
       \/ \E e \in out : TakeBack(e) \/ \E n \in 1..(Units - e.a) : Extend(e, n)

Spec == Init /\ [][Next]_out

==============================================================================
