------------------------------ MODULE BulkFill ------------------------------
(***************************************************************************)
(* Lazy carving of refill spans: src/rseq_core/bulk_fill.rs and            *)
(* src/rseq_core/pending_queue.rs, for one size class.                     *)
(*                                                                         *)
(* A span is carved batch by batch.  What is left of it waits in its       *)
(* thread's ThreadBulk; when the thread exits, a destructor registered     *)
(* with the C library moves it to the queue of its node, where any thread  *)
(* of the node finds it.  A queue is only touched under its SpinLock and   *)
(* the rest is thread-local, so a fill is one step, or two when it finds   *)
(* the queue empty and goes to the page backend.                           *)
(***************************************************************************)
EXTENDS Integers, Sequences, FiniteSetsExt

CONSTANTS
    Thread,    \* threads
    Span,      \* refill spans that can be mapped
    None,      \* null
    Nodes,     \* number of NUMA nodes
    IsNuma,    \* is_numa of the queue
    Cap,       \* blocks of a span
    MaxBatch   \* bound: max_init

Node == 0..(Nodes - 1)

ASSUME ConstAssumption ==
    /\ Nodes \in Nat \ {0} /\ IsNuma \in BOOLEAN /\ Cap \in Nat \ {0} /\ MaxBatch \in Nat \ {0}
    /\ None \notin Span

VARIABLES
    ready,   \* the queue's table could be mapped at start-up
    queue,   \* linked stack of each node
    free,    \* ThreadBulk::free of each thread
    tls,     \* ThreadBulk::init and whether the destructor is registered
    status,  \* running, past its destructor, or gone
    miss,    \* the node for which a thread goes to the page backend, or None
    mapped,  \* spans that exist
    home,    \* MetaData::node_id
    next     \* blocks carved so far, MetaData::next

vars == <<ready, queue, free, tls, status, miss, mapped, home, next>>

Init ==
    /\ ready \in BOOLEAN
    /\ queue = [n \in Node |-> <<>>]
    /\ free = [t \in Thread |-> None]
    /\ tls = [t \in Thread |-> [init |-> FALSE, hook |-> FALSE]]
    /\ status = [t \in Thread |-> "run"]
    /\ miss = [t \in Thread |-> None]
    /\ mapped = {}
    /\ home = [s \in Span |-> 0]
    /\ next = [s \in Span |-> 0]

\* ThreadQueue::slot: without NUMA all traffic goes to the first slot.
Slot(n) == IF IsNuma THEN n ELSE 0

\* get_or_init and touch_tls: registration may fail and is then tried again.
TouchTls(t) ==
    IF tls[t].init THEN UNCHANGED tls
    ELSE \E ok \in BOOLEAN : tls' = [tls EXCEPT ![t] = [init |-> ok, hook |-> @.hook \/ ok]]

remaining_blocks(s) == Cap - next[s]

\* init_blocks: the next blocks of the span, at most max_init.
InitBlocks(s, m) == next' = [next EXCEPT ![s] = @ + Min({remaining_blocks(s), m})]

\* Mutant: an exhausted span is kept too.
StashAlways(t, s, m) == free' = [free EXCEPT ![t] = s]

\* What is left after a batch of m waits for the thread's next fill.
Stash(t, s, m) ==
    free' = [free EXCEPT ![t] = IF remaining_blocks(s) > m THEN s ELSE None]

\* bulk_fill from the thread's own span (which is never exhausted, see
\* PendingHasBlocks; bulk_fill would then go on as if it had none).
FillOwn(t, m) ==
    /\ status[t] # "dead" /\ miss[t] = None
    /\ free[t] # None
    /\ TouchTls(t)
    /\ InitBlocks(free[t], m)
    /\ Stash(t, free[t], m)
    /\ UNCHANGED <<ready, queue, status, miss, mapped, home>>

\* ThreadQueue::pop of a nonempty stack.
PopQueue(t, n) ==
    /\ queue[Slot(n)] # <<>>
    /\ queue' = [queue EXCEPT ![Slot(n)] = Tail(@)]

\* ... from a span another thread left behind on this node ...
FillQueued(t, n, m) ==
    LET s == Head(queue[Slot(n)])
    IN  /\ status[t] # "dead" /\ miss[t] = None
        /\ free[t] = None
        /\ PopQueue(t, n)
        /\ TouchTls(t)
        /\ InitBlocks(s, m)
        /\ Stash(t, s, m)
        /\ UNCHANGED <<ready, status, miss, mapped, home>>

\* ... or, the queue being empty, ...
FillMiss(t, n) ==
    /\ status[t] # "dead" /\ miss[t] = None
    /\ free[t] = None
    /\ queue[Slot(n)] = <<>>
    /\ TouchTls(t)
    /\ miss' = [miss EXCEPT ![t] = n]
    /\ UNCHANGED <<ready, queue, free, status, mapped, home, next>>

\* ... from a new span of the page backend, ...
FillMapped(t, m) ==
    /\ miss[t] # None
    /\ \E s \in Span \ mapped :
           /\ mapped' = mapped \cup {s}
           /\ home' = [home EXCEPT ![s] = miss[t]]
           /\ InitBlocks(s, m)
           /\ Stash(t, s, m)
    /\ miss' = [miss EXCEPT ![t] = None]
    /\ UNCHANGED <<ready, queue, tls, status>>

\* ... which may have no memory.
FillFails(t) ==
    /\ miss[t] # None
    /\ miss' = [miss EXCEPT ![t] = None]
    /\ UNCHANGED <<ready, queue, free, tls, status, mapped, home, next>>

\* ThreadQueue::insert; without a table the span is dropped.
Insert(s, n) ==
    queue' = IF ready THEN [queue EXCEPT ![Slot(home[s])] = <<s>> \o @] ELSE queue

\* Mutant: the thread keeps the span it has queued.
DrainKeeps(t, n) ==
    /\ status[t] = "run" /\ miss[t] = None /\ tls[t].hook
    /\ status' = [status EXCEPT ![t] = "drained"]
    /\ IF free[t] = None THEN UNCHANGED queue ELSE Insert(free[t], n)
    /\ UNCHANGED <<ready, free, tls, miss, mapped, home, next>>

\* The destructor, run by the exiting thread on node n: cleanup_thread_bulk.
\* Destructors registered earlier run after it and may allocate.
Drain(t, n) ==
    /\ status[t] = "run" /\ miss[t] = None /\ tls[t].hook
    /\ status' = [status EXCEPT ![t] = "drained"]
    /\ free' = [free EXCEPT ![t] = None]
    /\ IF free[t] = None THEN UNCHANGED queue ELSE Insert(free[t], n)
    /\ UNCHANGED <<ready, tls, miss, mapped, home, next>>

\* The thread is gone; a registered destructor has run.
Die(t) ==
    /\ miss[t] = None
    /\ status[t] = IF tls[t].hook THEN "drained" ELSE "run"
    /\ status' = [status EXCEPT ![t] = "dead"]
    /\ UNCHANGED <<ready, queue, free, tls, miss, mapped, home, next>>

Next ==
    \E t \in Thread :
        \/ \E m \in 1..MaxBatch :
               FillOwn(t, m) \/ FillMapped(t, m) \/ \E n \in Node : FillQueued(t, n, m)
        \/ \E n \in Node : FillMiss(t, n) \/ Drain(t, n)
        \/ FillFails(t) \/ Die(t)

Spec == Init /\ [][Next]_vars
-----------------------------------------------------------------------------
\* Types; init_blocks never carves past the end of a span.
TypeOK ==
    /\ ready \in BOOLEAN
    /\ queue \in [Node -> Seq(Span)] /\ free \in [Thread -> Span \cup {None}]
    /\ tls \in [Thread -> [init : BOOLEAN, hook : BOOLEAN]]
    /\ status \in [Thread -> {"run", "drained", "dead"}]
    /\ miss \in [Thread -> Node \cup {None}]
    /\ mapped \subseteq Span /\ home \in [Span -> Node] /\ next \in [Span -> 0..Cap]

\* A span waits in at most one place, and in a queue only on the node its
\* memory is on, however fills, exits and late destructors interleave: two
\* threads never carve the same MetaData.
SpanOnce ==
    /\ \A s \in Span :
           Cardinality({t \in Thread : free[t] = s})
           + Cardinality({p \in Node \X (1..Cardinality(Span)) :
                 p[2] \in DOMAIN queue[p[1]] /\ queue[p[1]][p[2]] = s}) <= 1
    /\ \A n \in Node : \A i \in DOMAIN queue[n] : IsNuma => home[queue[n][i]] = n

\* Only spans with blocks left wait, so a fill that finds one never comes
\* back with an empty batch, which bulk_fill would report as out of memory;
\* and no fill carves past a span's end (the types).
PendingHasBlocks ==
    /\ TypeOK
    /\ \A t \in Thread : free[t] # None => remaining_blocks(free[t]) > 0
    /\ \A n \in Node : \A i \in DOMAIN queue[n] : remaining_blocks(queue[n][i]) > 0
-----------------------------------------------------------------------------
(* The inductive invariant.                                                *)

\* No two threads hold one span.
HeldApart == \A t, u \in Thread : free[t] = free[u] /\ free[t] # None => t = u

\* No span is queued twice.
QueueApart(q) ==
    \A n, k \in Node : \A i \in DOMAIN q[n], j \in DOMAIN q[k] : q[n][i] = q[k][j] => n = k /\ i = j

\* None is both held and queued.
HeldOrQueued == \A t \in Thread, n \in Node : \A i \in DOMAIN queue[n] : queue[n][i] # free[t]

Apart == HeldApart /\ QueueApart(queue) /\ HeldOrQueued

\* A span that waits exists, so the page backend does not give it out again;
\* it has blocks left; and a queued one is on the node of its queue.
Pending(s) == s \in mapped /\ remaining_blocks(s) > 0

IInv ==
    /\ TypeOK /\ Apart
    /\ \A t \in Thread : free[t] # None => Pending(free[t])
    /\ \A n \in Node : \A i \in DOMAIN queue[n] :
           Pending(queue[n][i]) /\ (IsNuma => home[queue[n][i]] = n)
===============================================================================
