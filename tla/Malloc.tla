-------------------------------- MODULE Malloc --------------------------------
(***************************************************************************)
(* What malloc and free promise: a block handed out is not one that is     *)
(* already in use, and it stays in use until it is freed.  live counts the *)
(* pointers to a block that the program holds.                             *)
(***************************************************************************)
EXTENDS Naturals

CONSTANTS Block

VARIABLES live

MallocInit == live = [b \in Block |-> 0]

Alloc(b) == live[b] = 0 /\ live' = [live EXCEPT ![b] = 1]

Free(b) == live[b] = 1 /\ live' = [live EXCEPT ![b] = 0]

MallocNext == \E b \in Block : Alloc(b) \/ Free(b)

MallocSpec == MallocInit /\ [][MallocNext]_live
===============================================================================
