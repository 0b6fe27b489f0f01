-------------------------------- MODULE Buddy --------------------------------
(***************************************************************************)
(* The buddy backend of big allocations: src/big_allocations/buddy.rs.     *)
(* A region is Tops blocks of the largest order; every order of a region   *)
(* has a free list, a bitmap and one bit of nonempty_mask, changed under   *)
(* the order's spin lock, so one locked section is one step.  Between its  *)
(* sections a call holds its block in hand and other calls run.  Orders    *)
(* count from BIG_BUDDY_MIN_ORDER and addresses are in blocks of order 0   *)
(* from the region's base.                                                 *)
(***************************************************************************)
EXTENDS Naturals, Sequences, Functions

CONSTANTS
    Thread,    \* callers, the trimmer thread among them
    Region,    \* regions that can be mapped
    Machines,  \* the machines explored: number of NUMA nodes (more than one is
               \* is_numa), most regions mmap grants, least order asked for,
               \* and whether calls come one at a time (solo) or at once
    MaxOrder,  \* BIG_BUDDY_MAX_ORDER
    Tops,      \* blocks of the largest order in a region
    Trims      \* trim calls made: TRUE is trim, FALSE is trim_old

ASSUME ConstAssumption ==
    /\ Machines \subseteq [nodes : Nat \ {0}, most : Nat \ {0}, least : Nat, solo : BOOLEAN]
    /\ MaxOrder \in Nat /\ Tops \in Nat \ {0} /\ Trims \subseteq BOOLEAN

VARIABLES
    machine,  \* the machine, which never changes
    regions,  \* published regions, newest first
    home,     \* node_id of a region
    reg,      \* per region: free lists, bitmaps, nonempty_mask and block headers
    dirt,     \* per region and unit: what has been written there since it was last zero
    live,     \* blocks given out and not yet given back
    call      \* what each thread is doing

vars == <<machine, regions, home, reg, dirt, live, call>>

\* 1 << n.
Pow2[n \in Nat] == IF n = 0 THEN 1 ELSE 2 * Pow2[n - 1]

Node == 0..(machine.nodes - 1)
Order == 0..MaxOrder
Size == Tops * Pow2[MaxOrder]
Addr == 0..(Size - 1)

\* FreeBlock.trim_state.
TrimState == {"NotAllocated", "Allocated", "Trimmed"}

\* What a unit holds: nothing, a FreeBlock header, user data in its first page
\* only, user data anywhere.
Dirt == {"clean", "header", "first", "full"}

UnitsOf(a, o) == a..(a + Pow2[o] - 1)

Block == [r : Region, a : Addr, o : Order]

\* The order list, its bitmap and its mask bit change together.
PushFree(R, o, a, s) ==
    [R EXCEPT !.free[o] = <<a>> \o @, !.bitmap[o] = @ \cup {a}, !.mask = @ \cup {o}, !.state[a] = s]

\* A list with one of its blocks unlinked.
Unlinked(l, a) ==
    LET i == CHOOSE j \in DOMAIN l : l[j] = a
    IN  IF a \in Range(l) THEN SubSeq(l, 1, i - 1) \o SubSeq(l, i + 1, Len(l)) ELSE l

\* Mutant: the mask bit is cleared when one block is left.
RemoveFreeLast(R, o, a) ==
    LET l == Unlinked(R.free[o], a)
    IN  [R EXCEPT !.free[o] = l, !.bitmap[o] = @ \ {a}, !.state[a] = "NotAllocated",
                  !.mask = IF Len(l) <= 1 THEN @ \ {o} ELSE @]

\* The state of a block that is not free is never read: its header is gone.
RemoveFree(R, o, a) ==
    LET l == Unlinked(R.free[o], a)
    IN  [R EXCEPT !.free[o] = l, !.bitmap[o] = @ \ {a}, !.state[a] = "NotAllocated",
                  !.mask = IF l = <<>> THEN @ \ {o} ELSE @]

\* buddy: the relative address with the order's bit flipped.
Sibling(a, o) == IF (a \div Pow2[o]) % 2 = 0 THEN a + Pow2[o] ELSE a - Pow2[o]

\* FreeBlock::new writes its header over what is at the start of the block.
Headed(d, a) == [d EXCEPT ![a] = IF @ = "clean" THEN "header" ELSE @]

Tainted(d, a, o) == [u \in Addr |-> IF u \in UnitsOf(a, o) THEN "full" ELSE d[u]]

\* madvise on all of each block of order o at A but its first page.
Released(d, A, o) ==
    [u \in Addr |-> CASE u \in A -> IF d[u] = "full" THEN "first" ELSE d[u]
                      [] u \notin A /\ (\E a \in A : u \in UnitsOf(a, o)) -> "clean"
                      [] OTHER -> d[u]]

Idle == [op |-> "idle"]

TopBlocks == [i \in 1..Tops |-> (Tops - i) * Pow2[MaxOrder]]

\* A region before and after add_region fills it with blocks of the largest order.
EmptyRegion ==
    [free |-> [o \in Order |-> <<>>], bitmap |-> [o \in Order |-> {}], mask |-> {},
     state |-> [a \in Addr |-> "NotAllocated"]]

NewRegion ==
    [EmptyRegion EXCEPT !.free[MaxOrder] = TopBlocks, !.bitmap[MaxOrder] = Range(TopBlocks),
                        !.mask = {MaxOrder}]

NewDirt == [a \in Addr |-> IF a \in Range(TopBlocks) THEN "header" ELSE "clean"]

\* After init, which maps the first region: big_malloc does not call before.
Init ==
    \E m \in Machines, r \in Region : \E n \in 0..(m.nodes - 1) :
        /\ machine = m
        /\ regions = <<r>>
        /\ home = [q \in Region |-> IF q = r THEN n ELSE 0]
        /\ reg = [q \in Region |-> IF q = r THEN NewRegion ELSE EmptyRegion]
        /\ dirt = [q \in Region |-> IF q = r THEN NewDirt ELSE [a \in Addr |-> "clean"]]
        /\ live = {}
        /\ call = [t \in Thread |-> Idle]

------------------------------------------------------------------------------
(* alloc: the regions of a node, then a new region, then every node *)

AllocCall(t, k, n) ==
    /\ call[t] = Idle
    /\ call' = [call EXCEPT ![t] = [op |-> "head", k |-> k, node |-> n, try |-> 0]]
    /\ UNCHANGED <<regions, home, reg, dirt, live>>

\* Mutant: the last attempts stay on the caller's node.
TryNodeOwn(c) == c.node

\* The node whose regions this attempt walks: the caller's own twice, then all.
TryNode(c) == IF c.try < 2 THEN c.node ELSE (c.try - 2 + c.node) % machine.nodes

\* regions_head.
Walk(t) ==
    /\ call[t].op = "head"
    /\ call' = [call EXCEPT ![t] = [op |-> "walk", k |-> @.k, node |-> @.node, try |-> @.try,
                                    left |-> regions]]
    /\ UNCHANGED <<regions, home, reg, dirt, live>>

\* One region of the walk: its mask is read once.
Visit(t) ==
    LET c == call[t]
        r == Head(c.left)
        seen == {o \in reg[r].mask : o >= c.k}
    IN  /\ c.op = "walk" /\ c.left # <<>>
        /\ call' = [call EXCEPT ![t] =
                        IF home[r] # TryNode(c) \/ seen = {}
                        THEN [c EXCEPT !.left = Tail(@)]
                        ELSE [op |-> "orders", k |-> c.k, node |-> c.node, try |-> c.try,
                              left |-> c.left, seen |-> seen]]
        /\ UNCHANGED <<regions, home, reg, dirt, live>>

\* alloc_from_region tries the orders seen nonempty from the lowest upwards.
Lowest(S) == CHOOSE m \in S : \A p \in S : m <= p

\* One order seen nonempty: its head block, or on to the next order.
TakeHead(t) ==
    LET c == call[t]
        r == Head(c.left)
        o == Lowest(c.seen)
        l == reg[r].free[o]
    IN  /\ c.op = "orders"
        /\ IF l = <<>>
           THEN /\ reg' = [reg EXCEPT ![r].mask = @ \ {o}]
                /\ call' = [call EXCEPT ![t] =
                               IF c.seen = {o}
                               THEN [op |-> "walk", k |-> c.k, node |-> c.node, try |-> c.try,
                                     left |-> Tail(c.left)]
                               ELSE [c EXCEPT !.seen = @ \ {o}]]
           ELSE /\ reg' = [reg EXCEPT ![r] = RemoveFree(@, o, l[1])]
                /\ call' = [call EXCEPT ![t] =
                               [op |-> "split", k |-> c.k, r |-> r, a |-> l[1], o |-> o,
                                s |-> reg[r].state[l[1]]]]
        /\ UNCHANGED <<regions, home, dirt, live>>

\* Mutant: the lower half is pushed, while the caller keeps its address.
SplitLower(t) ==
    LET c == call[t]
        half == c.a
    IN  /\ c.op = "split" /\ c.o > c.k
        /\ reg' = [reg EXCEPT ![c.r] = PushFree(@, c.o - 1, half, c.s)]
        /\ dirt' = [dirt EXCEPT ![c.r] = Headed(@, half)]
        /\ call' = [call EXCEPT ![t].o = @ - 1]
        /\ UNCHANGED <<regions, home, live>>

\* The upper half goes to the list below, as fresh or as trimmed as the block.
Split(t) ==
    LET c == call[t]
        half == c.a + Pow2[c.o - 1]
    IN  /\ c.op = "split" /\ c.o > c.k
        /\ reg' = [reg EXCEPT ![c.r] = PushFree(@, c.o - 1, half, c.s)]
        /\ dirt' = [dirt EXCEPT ![c.r] = Headed(@, half)]
        /\ call' = [call EXCEPT ![t].o = @ - 1]
        /\ UNCHANGED <<regions, home, live>>

\* The block is the caller's, who may write all of it.
AllocReturn(t) ==
    LET c == call[t]
    IN  /\ c.op = "split" /\ c.o = c.k
        /\ live' = live \cup {[r |-> c.r, a |-> c.a, o |-> c.o]}
        /\ dirt' = [dirt EXCEPT ![c.r] = Tainted(@, c.a, c.o)]
        /\ call' = [call EXCEPT ![t] = Idle]
        /\ UNCHANGED <<regions, home, reg>>

\* After a walk that found nothing: the next attempt, or None.
NextTry(c, n) ==
    IF n < (IF machine.nodes > 1 THEN 2 + machine.nodes ELSE 2)
    THEN [op |-> "head", k |-> c.k, node |-> c.node, try |-> n]
    ELSE Idle

\* add_region: the whole region as free blocks of the largest order, published
\* last.  A refused mmap skips the second attempt on the own node.
AddRegion(t) ==
    LET c == call[t]
    IN  /\ c.op = "walk" /\ c.left = <<>> /\ c.try = 0
        /\ \/ \E r \in Region \ Range(regions) :
                  /\ Len(regions) < machine.most
                  /\ regions' = <<r>> \o regions
                  /\ home' = [home EXCEPT ![r] = c.node]
                  /\ reg' = [reg EXCEPT ![r] = NewRegion]
                  /\ dirt' = [dirt EXCEPT ![r] = NewDirt]
                  /\ call' = [call EXCEPT ![t] = NextTry(c, 1)]
           \/ /\ call' = [call EXCEPT ![t] = NextTry(c, 2)]
              /\ UNCHANGED <<regions, home, reg, dirt>>
        /\ UNCHANGED live

WalkFailed(t) ==
    LET c == call[t]
    IN  /\ c.op = "walk" /\ c.left = <<>> /\ c.try > 0
        /\ call' = [call EXCEPT ![t] = NextTry(c, c.try + 1)]
        /\ UNCHANGED <<regions, home, reg, dirt, live>>

------------------------------------------------------------------------------
(* free and try_grow_inplace *)

FreeCall(t, b) ==
    /\ call[t] = Idle
    /\ live' = live \ {b}
    /\ call' = [call EXCEPT ![t] = [op |-> "free", r |-> b.r, a |-> b.a, o |-> b.o]]
    /\ UNCHANGED <<regions, home, reg, dirt>>

\* Mutant: the sibling is absorbed whether or not its bit is set.
MergeUnchecked(t) ==
    LET c == call[t]
        b == Sibling(c.a, c.o)
    IN  /\ c.op = "free"
        /\ IF c.o < MaxOrder
           THEN /\ reg' = [reg EXCEPT ![c.r] = RemoveFree(@, c.o, b)]
                /\ call' = [call EXCEPT ![t].a = IF b < c.a THEN b ELSE c.a, ![t].o = c.o + 1]
           ELSE /\ call' = [call EXCEPT ![t].op = "push"]
                /\ UNCHANGED reg
        /\ UNCHANGED <<regions, home, dirt, live>>

\* One turn of free's loop: a free sibling is absorbed, any other ends the loop.
Merge(t) ==
    LET c == call[t]
        b == Sibling(c.a, c.o)
    IN  /\ c.op = "free"
        /\ IF c.o < MaxOrder /\ b \in reg[c.r].bitmap[c.o]
           THEN /\ reg' = [reg EXCEPT ![c.r] = RemoveFree(@, c.o, b)]
                /\ call' = [call EXCEPT ![t].a = IF b < c.a THEN b ELSE c.a, ![t].o = c.o + 1]
           ELSE /\ call' = [call EXCEPT ![t].op = "push"]
                /\ UNCHANGED reg
        /\ UNCHANGED <<regions, home, dirt, live>>

\* Mutant: the block goes back as if it had never been given out.
FreePushFresh(t) ==
    LET c == call[t]
    IN  /\ c.op = "push"
        /\ reg' = [reg EXCEPT ![c.r] = PushFree(@, c.o, c.a, "NotAllocated")]
        /\ dirt' = [dirt EXCEPT ![c.r] = Headed(@, c.a)]
        /\ call' = [call EXCEPT ![t] = Idle]
        /\ UNCHANGED <<regions, home, live>>

FreePush(t) ==
    LET c == call[t]
    IN  /\ c.op = "push"
        /\ reg' = [reg EXCEPT ![c.r] = PushFree(@, c.o, c.a, "Allocated")]
        /\ dirt' = [dirt EXCEPT ![c.r] = Headed(@, c.a)]
        /\ call' = [call EXCEPT ![t] = Idle]
        /\ UNCHANGED <<regions, home, live>>

\* try_grow_inplace: the sibling above, if it is free.
TryGrow(t, b) ==
    LET s == Sibling(b.a, b.o)
    IN  /\ call[t] = Idle
        /\ b.o < MaxOrder /\ s > b.a /\ s \in reg[b.r].bitmap[b.o]
        /\ reg' = [reg EXCEPT ![b.r] = RemoveFree(@, b.o, s)]
        /\ live' = (live \ {b}) \cup {[b EXCEPT !.o = @ + 1]}
        /\ dirt' = [dirt EXCEPT ![b.r] = Tainted(@, b.a, b.o + 1)]
        /\ UNCHANGED <<regions, home, call>>

------------------------------------------------------------------------------
(* trim and trim_old: one order at a time; a second trimmer is turned away *)

TrimCall(t, force) ==
    /\ call[t] = Idle
    /\ \A u \in Thread : call[u].op # "trim"
    /\ call' = [call EXCEPT ![t] =
                   [op |-> "trim", force |-> force, left |-> regions, o |-> 0]]
    /\ UNCHANGED <<regions, home, reg, dirt, live>>

\* The blocks an order gives up: reused ones that are old or whose trim is
\* forced, up to the size asked for, as far as madvise succeeds.  Ages and
\* sizes are not modelled: it is some set of reused blocks, and a forced trim
\* may have had enough once it released one.
TrimOrder(t) ==
    LET c == call[t]
        r == Head(c.left)
        reused == {a \in Range(reg[r].free[c.o]) : reg[r].state[a] = "Allocated"}
    IN  /\ c.op = "trim"
        /\ \E gone \in SUBSET reused :
               /\ reg' = [reg EXCEPT ![r].state = [a \in Addr |-> IF a \in gone THEN "Trimmed" ELSE @[a]]]
               /\ dirt' = [dirt EXCEPT ![r] = Released(@, gone, c.o)]
               /\ \/ call' = [call EXCEPT ![t] =
                                 IF c.o < MaxOrder THEN [c EXCEPT !.o = @ + 1]
                                 ELSE IF Len(c.left) > 1 THEN [c EXCEPT !.left = Tail(@), !.o = 0]
                                 ELSE Idle]
                  \/ /\ c.force /\ gone # {}
                     /\ call' = [call EXCEPT ![t] = Idle]
        /\ UNCHANGED <<regions, home, live>>

Next ==
    /\ UNCHANGED machine
    /\ \E t \in Thread :
           /\ machine.solo => \A u \in Thread \ {t} : call[u] = Idle
           /\ \/ \E k \in machine.least..MaxOrder, n \in Node : AllocCall(t, k, n)
              \/ Walk(t) \/ Visit(t) \/ TakeHead(t) \/ Split(t) \/ AllocReturn(t)
              \/ AddRegion(t) \/ WalkFailed(t)
              \/ \E b \in live : FreeCall(t, b) \/ TryGrow(t, b)
              \/ Merge(t) \/ FreePush(t)
              \/ \E force \in Trims : ~machine.solo /\ TrimCall(t, force)
              \/ TrimOrder(t)

Spec == Init /\ [][Next]_vars

------------------------------------------------------------------------------
(* Properties *)

Free(r) == UNION {{[r |-> r, a |-> a, o |-> o] : a \in Range(reg[r].free[o])} : o \in Order}

\* The block a call has in hand between two locked sections.
InHand(r, t) ==
    IF call[t].op \in {"split", "free", "push"} /\ call[t].r = r
    THEN {[r |-> r, a |-> call[t].a, o |-> call[t].o]} ELSE {}

\* Every block of a region with the place it is in.
Placed(r) ==
    ({<<"live">>} \X {b \in live : b.r = r}) \cup ({<<"free">>} \X Free(r))
    \cup UNION {{<<"hand", t>>} \X InHand(r, t) : t \in Thread}

\* Blocks are aligned to their size and lists have no repeats.
TypeOK ==
    /\ Range(regions) \subseteq Region /\ IsInjective(regions)
    /\ machine \in Machines /\ home \in [Region -> Node]
    /\ \A r \in Region :
           /\ \A o \in Order : IsInjective(reg[r].free[o])
           /\ reg[r].state \in [Addr -> TrimState]
           /\ dirt[r] \in [Addr -> Dirt]
           /\ \A p \in Placed(r) : p[2] \in Block /\ p[2].a % Pow2[p[2].o] = 0

\* Free blocks, live blocks and blocks in hand partition every published
\* region: allocation, coalescing, growth and splitting neither lose a unit
\* nor have it in two places, however their locked sections interleave.
Partition ==
    /\ TypeOK
    /\ \A r \in Range(regions) :
           LET all == Placed(r)
           IN  \A u \in Addr : \E p \in all :
                   \A q \in all : u \in UnitsOf(q[2].a, q[2].o) <=> q = p

\* bitmap, list and nonempty_mask of an order agree whenever its lock is free:
\* free trusts the bitmap and alloc the mask without walking a list.
InSync ==
    \A r \in Region : \A o \in Order :
        /\ reg[r].bitmap[o] = Range(reg[r].free[o])
        /\ o \in reg[r].mask <=> reg[r].free[o] # <<>>

\* What a trim_state says about a block's memory.
Honest(d, s, a, o) ==
    LET rest == UnitsOf(a, o) \ {a}
    IN  /\ s # "Allocated" => \A u \in rest : d[u] = "clean"
        /\ s = "NotAllocated" => d[a] = "header"
        /\ s = "Trimmed" => d[a] # "full"

\* The trim_state of a free block tells the truth about its memory: a block
\* never given out holds nothing but its own FreeBlock header, a trimmed one
\* has released all but its first page.  calloc and trim rely on it.
StateHonest ==
    \A r \in Region : \A b \in Free(r) : Honest(dirt[r], reg[r].state[b.a], b.a, b.o)

\* Undisturbed by other calls, alloc gives up only when no region of any node
\* has a free block large enough: the walks after a failed growth leave no
\* node out.
NoneMeansNone ==
    [][machine.solo => \A t \in Thread :
           call[t].op = "walk" /\ call'[t] = Idle =>
               \A r \in Region : \A b \in Free(r) : b.o < call[t].k]_vars

\* A block as the run of units it is.
AsExtent(b) == [r |-> b.r, a |-> b.a, len |-> Pow2[b.o]]

\* The extents given out.
Given == {AsExtent(b) : b \in live}

\* The backend gives out disjoint extents.
Backend == INSTANCE Extents WITH Place <- Region, Units <- Size, out <- Given

\* The buddy backend implements that promise: what alloc returns is apart from
\* everything out, and try_grow_inplace grows into no one else's block.
BackendSpec == Backend!Spec

------------------------------------------------------------------------------
(* The inductive invariant *)

\* What a thread can be doing.
HeadRec == [op : {"head"}, k : Order, node : Node, try : Nat]
WalkRec == [op : {"walk"}, k : Order, node : Node, try : Nat, left : Seq(Region)]
OrdersRec == [op : {"orders"}, k : Order, node : Node, try : Nat, left : Seq(Region) \ {<<>>},
              seen : (SUBSET Order) \ {{}}]
SplitRec == [op : {"split"}, k : Order, r : Region, a : Addr, o : Order, s : TrimState]
BackRec == [op : {"free", "push"}, r : Region, a : Addr, o : Order]
TrimRec == [op : {"trim"}, force : BOOLEAN, left : Seq(Region) \ {<<>>}, o : Order]
CallRec == {Idle} \cup HeadRec \cup WalkRec \cup OrdersRec \cup SplitRec \cup BackRec \cup TrimRec

RegionRec == [free : [Order -> Seq(Addr)], bitmap : [Order -> SUBSET Addr], mask : SUBSET Order,
              state : [Addr -> TrimState]]

Typed ==
    /\ machine \in Machines /\ home \in [Region -> Node]
    /\ regions \in Seq(Region) /\ regions # <<>> /\ IsInjective(regions)
    /\ reg \in [Region -> RegionRec] /\ dirt \in [Region -> [Addr -> Dirt]]
    /\ live \subseteq Block /\ call \in [Thread -> CallRec]
    /\ \A r \in Region : \A o \in Order : IsInjective(reg[r].free[o])

\* The units of a block and its place.
Cells(p) == UnitsOf(p[2].a, p[2].o)

Apart(P) == \A p, q \in P : \A u \in Addr : u \in Cells(p) /\ u \in Cells(q) => p = q

Covers(P) == \A u \in Addr : \E p \in P : u \in Cells(p)

\* A block lies in its region at a multiple of its size.
Fits(b) == b \in Block /\ b.a % Pow2[b.o] = 0 /\ b.a + Pow2[b.o] <= Size

\* The blocks of a region are apart, and tile it from the time it is published.
Tiled(r) ==
    /\ \A p \in Placed(r) : Fits(p[2])
    /\ Apart(Placed(r))
    /\ IF r \in Range(regions) THEN Covers(Placed(r)) ELSE Placed(r) = {}

\* The state that alloc carries along while it splits is as true as that of a
\* free block.
Truthful ==
    /\ StateHonest
    /\ \A t \in Thread : call[t].op = "split" =>
           Honest(dirt[call[t].r], call[t].s, call[t].a, call[t].o)

IInv == Typed /\ InSync /\ Truthful /\ \A r \in Region : Tiled(r)

==============================================================================
