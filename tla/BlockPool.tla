------------------------------ MODULE BlockPool ------------------------------
(***************************************************************************)
(* What the free lists of src/rseq_core/slab_cache.rs promise their        *)
(* callers, with no words, tags, links or critical sections: stacks of     *)
(* free blocks, and for each thread the set of blocks it owns.  A push     *)
(* moves a chain of owned blocks on top of a stack in one step, a take     *)
(* moves a prefix of a stack to one thread in one step.  Blocks are        *)
(* neither made nor lost.                                                  *)
(***************************************************************************)
EXTENDS Stacks

CONSTANTS Thread, Block, Stack, MaxBatch

VARIABLES stack, held

poolVars == <<stack, held>>

\* The chains of blocks one call can push.
Chains == UNION {[1..n -> Block] : n \in 1..MaxBatch}

PoolInit ==
    /\ stack = [l \in Stack |-> <<>>]
    /\ \E own \in [Block -> Thread] :
           held = [t \in Thread |-> {b \in Block : own[b] = t}]

Push(t, l, c) ==
    /\ Distinct(c)
    /\ Blocks(c) \subseteq held[t]
    /\ stack' = [stack EXCEPT ![l] = c \o @]
    /\ held' = [held EXCEPT ![t] = @ \ Blocks(c)]

Take(t, l, n) ==
    /\ stack' = [stack EXCEPT ![l] = SubSeq(@, n + 1, Len(@))]
    /\ held' = [held EXCEPT ![t] = @ \cup Blocks(SubSeq(stack[l], 1, n))]

\* Every step changes what some thread holds.
PoolNext ==
    /\ held' # held
    /\ \E t \in Thread, l \in Stack :
           \/ \E c \in Chains : Push(t, l, c)
           \/ \E n \in 1..Len(stack[l]) : Take(t, l, n)

PoolSpec == PoolInit /\ [][PoolNext]_poolVars
=============================================================================
