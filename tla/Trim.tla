-------------------------------- MODULE Trim ----------------------------------
\* The trimmer of the slab lists (trim.rs) beside the program's mallocs and
\* frees: trim_small takes whole transfer lists, sorts out the blocks that have
\* rested long enough, gives their pages back with madvise, and puts every block
\* back.  The background thread and one manual caller (malloc_trim, rs_trim)
\* share GLOBAL_TRIM_LOCK.
\*
\* Push, pop and detach of a list are single steps (TransferCache shows that each
\* takes effect at its compare-exchange), but the links are kept: the chains the
\* trimmer builds are linked through the blocks it is handing back.
\*
\* Blocks move between a list, the cache of a CPU ("cached") and the program
\* ("used").  The moving average of ages is left open: avg_life is any of Lives.
EXTENDS Naturals, FiniteSets

CONSTANTS
    NClass,
    Block,
    Machines,       \* numbers of CPUs, and the blocks in play
    ClassOf(_),     \* the class of a block
    Size(_),        \* SIZE_CLASSES, in units
    Manual,         \* threads that call malloc_trim and rs_trim
    Bg,             \* the background trimmer
    NULL,
    Batch,          \* TRIM_REPUSH_BATCH
    MaxStamp,       \* bound on the clock
    Lives,          \* values of the average life
    Requests,       \* sizes asked of a manual trim; 0 asks for everything
    MaxBuddy        \* most units a trim of the buddy backend gives back

VARIABLES
    machine,        \* one of Machines
    head, cold,     \* list and trimmed of each transfer list
    next, flags, life,      \* the headers
    place,          \* "pool", "cached" or "used"
    data,           \* "written" by the program, or "blank"
    stamp,          \* CURRENT_STAMP
    lock,           \* GLOBAL_TRIM_LOCK
    call            \* the trim call of each caller

vars == <<machine, head, cold, next, flags, life, place, data, stamp, lock, call>>
heap == <<head, cold, next, flags, life, place, data>>

Caller == Manual \cup {Bg}

\* The transfer lists, CPU by CPU and class by class.
NList == machine.ncpu * NClass
List == 1..NList
Ptr == Block \cup {NULL}
Class(l) == (l - 1) % NClass

Idle == [pc |-> "idle", kind |-> "trimmer", asked |-> 0, buddy |-> 0, req |-> 0, total |-> 0,
         i |-> 1, scan |-> NULL, stamp |-> 0, avg |-> 0, trim |-> NULL,
         push |-> NULL, start |-> NULL, n |-> 0]

\* bulk_fill has handed out blocks that were never used.
Init ==
    /\ machine \in Machines
    /\ head = [l \in List |-> NULL]
    /\ cold = [l \in List |-> NULL]
    /\ next = [b \in Block |-> NULL]
    /\ flags = [b \in Block |-> "ZERO"]
    /\ life = [b \in Block |-> 0]
    /\ place = [b \in Block |-> "cached"]
    /\ data = [b \in Block |-> "blank"]
    /\ stamp = 0
    /\ lock = NULL
    /\ call = [t \in Caller |-> Idle]

-------------------------------------------------------------------------------
\* The program.

\* transfer_pop_single: the normal list first, the trimmed one when it is empty.
Pop(l) ==
    LET warm == head[l] # NULL
        b == IF warm THEN head[l] ELSE cold[l]
    IN  /\ b # NULL
        /\ head' = IF warm THEN [head EXCEPT ![l] = next[b]] ELSE head
        /\ cold' = IF warm THEN cold ELSE [cold EXCEPT ![l] = next[b]]
        /\ next' = [next EXCEPT ![b] = NULL]
        /\ place' = [place EXCEPT ![b] = "cached"]
        /\ UNCHANGED <<flags, life, data, stamp, lock, call>>

\* A CPU's full list is spilled to a transfer list of the block's class.
Spill(b, l) ==
    /\ place[b] = "cached" /\ Class(l) = ClassOf(b)
    /\ head' = [head EXCEPT ![l] = b]
    /\ next' = [next EXCEPT ![b] = head[l]]
    /\ place' = [place EXCEPT ![b] = "pool"]
    /\ UNCHANGED <<cold, flags, life, data, stamp, lock, call>>

\* rs_alloc gives the block out; the program writes to it.
Malloc(b) ==
    /\ place[b] = "cached"
    /\ place' = [place EXCEPT ![b] = "used"]
    /\ flags' = [flags EXCEPT ![b] = "ALLOCATED"]
    /\ data' = [data EXCEPT ![b] = "written"]
    /\ UNCHANGED <<head, cold, next, life, stamp, lock, call>>

\* rs_free: the time of the free goes into the header.
Free(b) ==
    /\ place[b] = "used"
    /\ place' = [place EXCEPT ![b] = "cached"]
    /\ life' = [life EXCEPT ![b] = stamp]
    /\ UNCHANGED <<head, cold, next, flags, data, stamp, lock, call>>

-------------------------------------------------------------------------------
\* Calls to trim.

\* trimmer_main wakes up, publishes the time, and trims when enough of it has
\* passed since the last trim.
Tick ==
    /\ call[Bg].pc = "idle" /\ stamp < MaxStamp
    /\ stamp' = stamp + 1
    /\ \/ call' = [call EXCEPT ![Bg].pc = "small"]
       \/ UNCHANGED call
    /\ UNCHANGED <<heap, lock>>

\* malloc_trim(asked), or rs_trim(asked).
TrimCall(t, k, asked) ==
    /\ call[t].pc = "idle"
    /\ call' = [call EXCEPT ![t] = [Idle EXCEPT !.pc = "buddy", !.kind = k, !.asked = asked]]
    /\ UNCHANGED <<heap, stamp, lock>>

Minus(a, b) == IF a > b THEN a - b ELSE 0

\* Mutant: malloc_trim goes on when nothing is left to ask for.
MallocTrimAlways(c, n) == TRUE

\* Whether malloc_trim and rs_trim go on to the slabs when the buddy backend gave
\* back n units.
MallocTrimMore(c, n) == Minus(c.asked, n) # 0 \/ c.asked = 0

RsTrimMore(c, n) == n < c.asked /\ c.asked # 0

\* The caller asks the slabs for the rest, or has finished.
AfterBuddy(t, n) ==
    LET c == call[t]
        more == \/ c.kind = "malloc_trim" /\ MallocTrimMore(c, n)
                \/ c.kind = "rs_trim" /\ RsTrimMore(c, n)
    IN  [call EXCEPT ![t] = IF more
                            THEN [c EXCEPT !.pc = "small", !.kind = "trimmer", !.buddy = n, !.req = Minus(c.asked, n)]
                            ELSE Idle]

\* trim_inner of the buddy backend: nothing when another trim holds the lock.
BuddyTry(t) ==
    /\ call[t].pc = "buddy"
    /\ IF lock = NULL
       THEN lock' = t /\ call' = [call EXCEPT ![t].pc = "inbuddy"]
       ELSE lock' = lock /\ call' = AfterBuddy(t, 0)
    /\ UNCHANGED <<heap, stamp>>

BuddyEnd(t, n) ==
    /\ call[t].pc = "inbuddy"
    /\ lock' = NULL
    /\ call' = AfterBuddy(t, n)
    /\ UNCHANGED <<heap, stamp>>

-------------------------------------------------------------------------------
\* trim_small.

\* try_lock: a caller that finds the lock taken has trimmed nothing.
SmallTry(t) ==
    /\ call[t].pc = "small"
    /\ IF lock = NULL
       THEN lock' = t /\ call' = [call EXCEPT ![t].pc = "detach"]
       ELSE lock' = lock /\ call' = [call EXCEPT ![t] = IF t = Bg THEN [Idle EXCEPT !.pc = "buddy"] ELSE Idle]
    /\ UNCHANGED <<heap, stamp>>

\* Mutant: a list is detached again until it stays empty.
NextListEmpty(c) ==
    [c EXCEPT !.pc = IF c.i = NList /\ head[c.i] = NULL THEN "unlock" ELSE "detach",
              !.i = IF c.i = NList \/ head[c.i] # NULL THEN @ ELSE @ + 1, !.stamp = 0, !.avg = 0]

\* The next list, if there is one.
NextList(c) ==
    [c EXCEPT !.pc = IF c.i = NList THEN "unlock" ELSE "detach",
              !.i = IF c.i = NList THEN @ ELSE @ + 1, !.stamp = 0, !.avg = 0]

\* On to the blocks to trim, or to the next list when there are none.
Onward(c) == IF c.trim = NULL THEN NextList(c) ELSE [c EXCEPT !.pc = "trim"]

\* The whole normal list is taken; an empty one is passed over.
Detach(t) ==
    LET c == call[t]
    IN  /\ c.pc = "detach"
        /\ head' = [head EXCEPT ![c.i] = NULL]
        /\ call' = [call EXCEPT ![t] = IF head[c.i] = NULL THEN NextList(c)
                                       ELSE [c EXCEPT !.pc = "stamp", !.scan = head[c.i]]]
        /\ UNCHANGED <<cold, next, flags, life, place, data, stamp, lock>>

\* The time and the average life are read once for the list.
ReadStamp(t) ==
    /\ call[t].pc = "stamp"
    /\ \E a \in Lives : call' = [call EXCEPT ![t].pc = "scan", ![t].stamp = stamp, ![t].avg = a]
    /\ UNCHANGED <<heap, stamp, lock>>

Old(c, b) == Minus(c.stamp, life[b]) > c.avg /\ flags[b] = "ALLOCATED"

\* Mutant: the list is overwritten.
PushBatchOver(c, first, last, nx) == head' = [head EXCEPT ![c.i] = first] /\ next' = nx

\* transfer_push_batch: the chain from first to last goes on top of the list,
\* which may have filled up again since it was detached.
PushBatch(c, first, last, nx) ==
    /\ head' = [head EXCEPT ![c.i] = first]
    /\ next' = [nx EXCEPT ![last] = head[c.i]]

\* The call after b was put on the chain of blocks to put back, which is pushed
\* and reset when it is Batch blocks long.
Pushed(c, b) ==
    IF c.n + 1 = Batch THEN [c EXCEPT !.scan = next[b], !.n = 0, !.push = NULL, !.start = NULL]
    ELSE [c EXCEPT !.scan = next[b], !.n = @ + 1, !.push = b, !.start = IF c.n = 0 THEN b ELSE @]

\* One block of the detached list: to the chain of blocks to trim, or to the
\* chain to put back.
Scan(t) ==
    LET c == call[t]
        b == c.scan
        linked(to) == [next EXCEPT ![b] = to]
    IN  /\ c.pc = "scan" /\ b # NULL
        /\ IF Old(c, b)
           THEN /\ next' = linked(c.trim)
                /\ call' = [call EXCEPT ![t].scan = next[b], ![t].trim = b]
                /\ UNCHANGED head
           ELSE /\ call' = [call EXCEPT ![t] = Pushed(c, b)]
                /\ IF c.n + 1 = Batch
                   THEN PushBatch(c, b, IF c.n = 0 THEN b ELSE c.start, linked(c.push))
                   ELSE next' = linked(c.push) /\ UNCHANGED head
        /\ UNCHANGED <<cold, flags, life, place, data, stamp, lock>>

\* The rest of the chain is put back.
Rest(t) ==
    LET c == call[t]
    IN  /\ c.pc = "scan" /\ c.scan = NULL
        /\ IF c.n > 0 THEN PushBatch(c, c.push, c.start, next) ELSE UNCHANGED <<head, next>>
        /\ call' = [call EXCEPT ![t] = Onward([c EXCEPT !.n = 0, !.push = NULL, !.start = NULL])]
        /\ UNCHANGED <<cold, flags, life, place, data, stamp, lock>>

\* transfer_push_single and transfer_push_single_trimmed.
PushSingle(c, b, trimmed) ==
    /\ next' = [next EXCEPT ![b] = IF trimmed THEN cold[c.i] ELSE head[c.i]]
    /\ head' = IF trimmed THEN head ELSE [head EXCEPT ![c.i] = b]
    /\ cold' = IF trimmed THEN [cold EXCEPT ![c.i] = b] ELSE cold

Wanted(c) == c.req = 0 \/ c.total < c.req

\* Mutant: the flag is not set, so that the block looks used.
AdviseNoFlag(c, b) == flags' = flags /\ data' = [data EXCEPT ![b] = "blank"]

\* release_memory with success: the pages read as zeros from now on.
Advise(c, b) ==
    /\ flags' = [flags EXCEPT ![b] = "TRIMMED"]
    /\ data' = [data EXCEPT ![b] = "blank"]

\* Mutant: a block is put back before its pages are released, with the next one.
TrimNextLate(t) ==
    LET c == call[t]
        b == c.trim
    IN  /\ c.pc = "trim" /\ b # NULL
        /\ PushSingle(c, b, TRUE)
        /\ IF c.scan # NULL THEN Advise(c, c.scan) ELSE UNCHANGED <<flags, data>>
        /\ call' = [call EXCEPT ![t] = Onward([c EXCEPT !.trim = next[b], !.scan = b])]
        /\ life' = [life EXCEPT ![b] = c.stamp]
        /\ UNCHANGED <<place, stamp, lock>>

\* One block of the trim chain: its pages are released unless the request is
\* met already or madvise refuses, and it goes back to the trimmed or the normal
\* list.
TrimNext(t) ==
    LET c == call[t]
        b == c.trim
    IN  /\ c.pc = "trim" /\ b # NULL
        /\ \E ok \in BOOLEAN :
               /\ ok => Wanted(c)
               /\ IF ok THEN Advise(c, b) ELSE UNCHANGED <<flags, data>>
               /\ PushSingle(c, b, ok)
               /\ call' = [call EXCEPT ![t] =
                      Onward([c EXCEPT !.trim = next[b], !.total = IF ok THEN @ + Size(Class(c.i)) ELSE @])]
        /\ life' = [life EXCEPT ![b] = c.stamp]
        /\ UNCHANGED <<place, stamp, lock>>

\* The guard is dropped; the background trimmer goes on to the buddy backend.
Unlock(t) ==
    /\ call[t].pc = "unlock"
    /\ lock' = NULL
    /\ call' = [call EXCEPT ![t] = IF t = Bg THEN [Idle EXCEPT !.pc = "buddy"] ELSE Idle]
    /\ UNCHANGED <<heap, stamp>>

-------------------------------------------------------------------------------
\* A step of a trim that was called.
TrimStep(t) ==
    \/ BuddyTry(t) \/ (\E n \in 0..MaxBuddy : BuddyEnd(t, n))
    \/ SmallTry(t) \/ Detach(t) \/ ReadStamp(t) \/ Scan(t) \/ Rest(t)
    \/ TrimNext(t) \/ Unlock(t)

Program ==
    \/ \E l \in List : Pop(l)
    \/ \E b \in machine.blocks : Malloc(b) \/ Free(b) \/ \E l \in List : Spill(b, l)

Next ==
    /\ UNCHANGED machine
    /\ \/ Program \/ Tick
       \/ \E t \in Manual, k \in {"malloc_trim", "rs_trim"}, n \in Requests : TrimCall(t, k, n)
       \/ \E t \in Caller : TrimStep(t)

Spec == Init /\ [][Next]_vars

-------------------------------------------------------------------------------
\* The blocks linked from p.
Chain(p) ==
    LET at[k \in 0..Cardinality(Block)] ==
            IF k = 0 THEN p ELSE IF at[k - 1] = NULL THEN NULL ELSE next[at[k - 1]]
    IN  {at[k] : k \in DOMAIN at} \ {NULL}

\* The chains a trim call has in hand.
Hand(t) ==
    LET c == call[t]
    IN  (IF c.pc \in {"stamp", "scan"} THEN Chain(c.scan) ELSE {}) \cup Chain(c.push) \cup Chain(c.trim)

\* Where a block can be found.
Places(b) ==
    {<<"list", l>> : l \in {l \in List : b \in Chain(head[l])}}
    \cup {<<"trimmed", l>> : l \in {l \in List : b \in Chain(cold[l])}}
    \cup {<<"hand", t>> : t \in {t \in Caller : b \in Hand(t)}}
    \cup (IF place[b] = "pool" THEN {} ELSE {<<place[b]>>})

TypeOK ==
    /\ head \in [List -> Ptr] /\ cold \in [List -> Ptr] /\ next \in [Block -> Ptr]
    /\ flags \in [Block -> {"ZERO", "ALLOCATED", "TRIMMED"}]
    /\ life \in [Block -> 0..MaxStamp] /\ stamp \in 0..MaxStamp
    /\ place \in [Block -> {"pool", "cached", "used"}]
    /\ data \in [Block -> {"written", "blank"}]
    /\ lock \in Caller \cup {NULL}

\* Every block is in exactly one place (a list, a trimmer's chains, a CPU's
\* cache, the program) and in a list of its own class, however the chains that
\* trim_small relinks while it walks them are cut into batches.
OnePlace ==
    /\ TypeOK
    /\ \A b \in Block :
           /\ Cardinality(Places(b)) = 1
           /\ \A p \in Places(b) : p[1] \in {"list", "trimmed"} => Class(p[2]) = ClassOf(b)

\* The program's data survives trims: a block it holds was never advised under
\* its feet, although the block may have been on a list when the trim began.
DataKept == \A b \in Block : place[b] = "used" => data[b] = "written"

\* A block waiting to be advised has been written to since it was last advised
\* or mapped, whatever caches and lists it went through in between: madvise is
\* never repeated on pages that are already gone.
AdvisedOnce == \A t \in Caller : \A b \in Chain(call[t].trim) : data[b] = "written"

\* A request is exceeded by less than one block: what the buddy backend gave
\* back and what the slabs gave back are counted together, and a request that
\* the backend has met does not turn into a request for everything.
NotMoreThanAsked ==
    \A t \in Manual :
        LET c == call[t]
        IN  (c.asked # 0 /\ c.total > 0) =>
                \E k \in 0..(NClass - 1) : c.buddy + c.total < c.asked + Size(k)

\* How far a call is from its end: the lists left, and in the list at hand the
\* blocks to look at (each may still have to be trimmed) and those to trim.
Distance(t) ==
    LET c == call[t]
        n == Cardinality(Block)
        here == CASE c.pc = "detach" -> 2 * n + 3
                  [] c.pc = "stamp" -> 2 * n + 2
                  [] c.pc = "scan" -> 2 * Cardinality(Chain(c.scan)) + Cardinality(Chain(c.trim)) + 1
                  [] c.pc = "trim" -> Cardinality(Chain(c.trim))
                  [] OTHER -> 0
        small == 3 + (NList - c.i) * (2 * n + 4) + here
    IN  CASE c.pc = "idle" -> 0
          [] c.pc = "inbuddy" -> IF t = Bg THEN 1 ELSE small + 2 * n + 5
          [] c.pc = "buddy" -> IF t = Bg THEN 2 ELSE small + 2 * n + 6
          [] c.pc = "small" -> small + 2 * n + 4
          [] OTHER -> small

\* Every step of a trim brings it nearer its end, when no block is left in its
\* hand (OnePlace), whatever the program pushes and pops meanwhile: trimming
\* waits for nobody and cannot chase a list that keeps growing.
TrimNearsEnd == [][\A t \in Caller : call[t].pc # "idle" => call'[t] = call[t] \/ Distance(t)' < Distance(t)]_vars
===============================================================================
