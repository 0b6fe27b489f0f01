---------------------------- MODULE PageAllocator ----------------------------
(***************************************************************************)
(* The page backend of the slab classes: src/backend/page_allocator.rs.    *)
(* Every node has a doubly linked list of arenas, carved from the front    *)
(* and never given back; one of them is the node's current arena.  alloc   *)
(* and try_grow_inplace hold the node's Mutex, so each is one step.        *)
(* Sizes are in pages; an address is an arena and an offset in it, for the *)
(* kernel never maps two arenas at one place.  A failed mmap changes       *)
(* nothing.                                                                *)
(***************************************************************************)
EXTENDS Naturals, Sequences, FiniteSets

CONSTANTS
    Nodes,       \* number of nodes
    Arena,       \* arenas that can be mapped
    None,        \* null
    ArenaPages,  \* ARENA_SIZE
    MinPages,    \* MIN_REFILL_BYTES, below which an arena is given up
    MaxPages,    \* bound: pages of one request
    MaxSpans     \* bound: spans handed out

Node == 0..(Nodes - 1)

ASSUME ConstAssumption ==
    /\ Nodes \in Nat \ {0}
    /\ None \notin Arena
    /\ ArenaPages \in Nat \ {0} /\ MinPages \in Nat \ {0} /\ MaxPages \in Nat /\ MaxSpans \in Nat

VARIABLES
    list,    \* per node: arenas (head) and current; per arena: next and prev
    mapped,  \* arenas that exist
    home,    \* the node an arena was mapped for
    size,    \* end - base
    used,    \* current - base
    spans    \* what alloc has returned, as last grown

vars == <<list, mapped, home, size, used, spans>>

Ref == Arena \cup {None}

Links == [head : [Node -> Ref], cur : [Node -> Ref], next : [Arena -> Ref], prev : [Arena -> Ref]]

Span == [arena : Arena, off : Nat, len : Nat \ {0}, node : Nat]

Init ==
    /\ list = [head |-> [n \in Node |-> None], cur |-> [n \in Node |-> None],
               next |-> [a \in Arena |-> None], prev |-> [a \in Arena |-> None]]
    /\ mapped = {}
    /\ home = [a \in Arena |-> 0]
    /\ size = [a \in Arena |-> 0]
    /\ used = [a \in Arena |-> 0]
    /\ spans = {}

\* An out-of-range node falls back to node 0.
NodeOf(id) == IF id \in Node THEN id ELSE 0

\* From the head of node n the next links lead through w, to null.
Chained(L, n, w) ==
    /\ L.head[n] = IF w = <<>> THEN None ELSE w[1]
    /\ \A i \in DOMAIN w : L.next[w[i]] = IF i = Len(w) THEN None ELSE w[i + 1]

\* The arenas of a node in list order.
Walk(n) ==
    CHOOSE w \in UNION {[1..k -> mapped] : k \in 0..Cardinality(mapped)} : Chained(list, n, w)

Fits(a, k) == used[a] + k <= size[a]

\* Mutant: the node after the removed one keeps its prev.
UnlinkNoPrev(n, a, L) ==
    LET p == L.prev[a]
        x == L.next[a]
    IN  [head |-> IF p = None THEN [L.head EXCEPT ![n] = x] ELSE L.head,
         cur  |-> IF L.cur[n] = a THEN [L.cur EXCEPT ![n] = x] ELSE L.cur,
         next |-> IF p = None THEN L.next ELSE [L.next EXCEPT ![p] = x],
         prev |-> L.prev]

\* remove_arena: the next arena, if any, becomes current.
Unlink(n, a, L) ==
    LET p == L.prev[a]
        x == L.next[a]
    IN  [head |-> IF p = None THEN [L.head EXCEPT ![n] = x] ELSE L.head,
         cur  |-> IF L.cur[n] = a THEN [L.cur EXCEPT ![n] = x] ELSE L.cur,
         next |-> IF p = None THEN L.next ELSE [L.next EXCEPT ![p] = x],
         prev |-> IF x = None THEN L.prev ELSE [L.prev EXCEPT ![x] = p]]

\* The arena's pages up to `end` are taken; a nearly full arena is given up.
Advance(n, a, end, pages, L) ==
    /\ used' = [used EXCEPT ![a] = end]
    /\ list' = IF pages - end < MinPages THEN Unlink(n, a, L) ELSE L

\* allocate_current and allocate_search: the current arena, or else the first
\* other one of the list with room.
AllocListed(id, k) ==
    LET n == NodeOf(id)
        w == Walk(n)
        c == list.cur[n]
    IN  \E a \in Arena :
            /\ \/ a = c
               \/ /\ c # None => ~Fits(c, k)
                  /\ \E i \in DOMAIN w : w[i] = a /\ \A j \in 1..(i - 1) : ~Fits(w[j], k)
            /\ Fits(a, k)
            /\ spans' = spans \cup {[arena |-> a, off |-> used[a], len |-> k, node |-> id]}
            /\ Advance(n, a, used[a] + k, size[a], list)
            /\ UNCHANGED <<mapped, home, size>>

\* data_size of new_arena_locked.
ArenaSize(k) == IF k > ArenaPages THEN k ELSE ArenaPages

\* new_arena_locked, then allocate_current in the new arena.
AllocNew(id, k) ==
    LET n == NodeOf(id)
        w == Walk(n)
        h == list.head[n]
        s == ArenaSize(k)
    IN  /\ list.cur[n] # None => ~Fits(list.cur[n], k)
        /\ \A i \in DOMAIN w : ~Fits(w[i], k)
        /\ \E a \in Arena \ mapped :
               /\ mapped' = mapped \cup {a}
               /\ home' = [home EXCEPT ![a] = n]
               /\ size' = [size EXCEPT ![a] = s]
               /\ spans' = spans \cup {[arena |-> a, off |-> 0, len |-> k, node |-> id]}
               /\ Advance(n, a, k, s,
                      [head |-> [list.head EXCEPT ![n] = a],
                       cur  |-> [list.cur EXCEPT ![n] = a],
                       next |-> [list.next EXCEPT ![a] = h],
                       prev |-> IF h = None THEN list.prev ELSE [list.prev EXCEPT ![h] = a]])

\* Mutant: a span grows although another one follows it.
TryGrowAnywhere(s, k) ==
    LET n == NodeOf(s.node)
        a == s.arena
        w == Walk(n)
    IN  /\ k > s.len
        /\ \E i \in DOMAIN w : w[i] = a
        /\ s.off + k <= size[a]
        /\ spans' = (spans \ {s}) \cup {[s EXCEPT !.len = k]}
        /\ Advance(n, a, s.off + k, size[a], list)
        /\ UNCHANGED <<mapped, home, size>>

\* try_grow_inplace: only the last span of a listed arena, only within it.
TryGrow(s, k) ==
    LET n == NodeOf(s.node)
        a == s.arena
        w == Walk(n)
    IN  /\ k > s.len
        /\ \E i \in DOMAIN w : w[i] = a
        /\ s.off + s.len = used[a]
        /\ s.off + k <= size[a]
        /\ spans' = (spans \ {s}) \cup {[s EXCEPT !.len = k]}
        /\ Advance(n, a, s.off + k, size[a], list)
        /\ UNCHANGED <<mapped, home, size>>

\* The bound on the spans of a run.
Room == Cardinality(spans) < MaxSpans

Next ==
    \E k \in 1..MaxPages :
        \/ \E id \in 0..Nodes : Room /\ (AllocListed(id, k) \/ AllocNew(id, k))
        \/ \E s \in spans : TryGrow(s, k)

Spec == Init /\ [][Next]_vars
-----------------------------------------------------------------------------
\* Types; an arena's cursor never passes its end.
TypeOK ==
    /\ list \in Links
    /\ mapped \subseteq Arena /\ home \in [Arena -> Node]
    /\ size \in [Arena -> Nat]
    /\ used \in [Arena -> Nat] /\ \A a \in Arena : used[a] <= size[a]
    /\ spans \subseteq Span

\* Two spans never share a page, however spans are carved from current and
\* older arenas and grown in place by realloc.
SpansDisjoint ==
    \A s, t \in spans :
        s # t /\ s.arena = t.arena => s.off + s.len <= t.off \/ t.off + t.len <= s.off

\* Every span lies below the cursor of its arena, ...
SpansCarved == \A s \in spans : s.arena \in mapped /\ s.off + s.len <= used[s.arena]

\* ... an arena that is not mapped has no pages, ...
Unmapped == \A a \in Arena \ mapped : size[a] = 0 /\ used[a] = 0

\* ... and so alloc and try_grow_inplace, which take pages from the cursor
\* on, keep the spans disjoint: the invariant of the proof.
IInv == TypeOK /\ SpansCarved /\ Unmapped /\ SpansDisjoint

\* The arenas of a node with room for a refill.
Usable(n) == {a \in mapped : home[a] = n /\ size[a] - used[a] >= MinPages}

\* In L, the list of node n runs through w: the arenas U, each once and with
\* matching prev links; the current arena is one of them.
Lists(L, n, w, U) ==
    /\ Chained(L, n, w)
    /\ \A i \in DOMAIN w : L.prev[w[i]] = IF i = 1 THEN None ELSE w[i - 1]
    /\ \A i, j \in DOMAIN w : i # j => w[i] # w[j]
    /\ {w[i] : i \in DOMAIN w} = U
    /\ L.cur[n] \in U \cup {None}

\* The links of a node list exactly its arenas with room for a refill, each
\* once and with matching prev links, and the current arena is one of them:
\* no usable arena drops out of reach and no given-up one is visited again.
ListShape == \A n \in Node : Lists(list, n, Walk(n), Usable(n))
===============================================================================
