------------------------------ MODULE BigAlloc -------------------------------
(***************************************************************************)
(* Big allocations: big_malloc and big_free of                             *)
(* src/big_allocations/big_allocation.rs, big_realloc and the aligned path *)
(* of src/inner/realloc.rs, calloc's zeroing of src/inner/calloc.rs.       *)
(* Memory is a line of pages: the first KPages are the kernel's, the rest  *)
(* one buddy region.  The buddy backend is what Buddy shows of it: aligned *)
(* blocks disjoint from those out, fresh only if never given out.  BIG_MAP *)
(* and RADIX are a function and a set, changed one entry or one range at a *)
(* time.  A handle is a pointer of the program; no two calls use one       *)
(* handle at a time.                                                       *)
(***************************************************************************)
EXTENDS Naturals, FiniteSets

CONSTANTS
    Thread,
    Handle,
    None,
    KPages,    \* pages the kernel can map
    BPages,    \* pages of the buddy region
    Unit,      \* pages of a block of BIG_BUDDY_MIN_ORDER
    Huge,      \* TWO_MB in pages
    Slack,     \* 64 KiB in pages
    Programs   \* the pages a program asks of malloc and of realloc

ASSUME ConstAssumption ==
    /\ KPages \in Nat /\ BPages \in Nat /\ Unit \in Nat \ {0}
    /\ Huge \in Nat \ {0} /\ Slack \in Nat
    /\ Programs \subseteq [malloc : SUBSET (Nat \ {0}), realloc : SUBSET (Nat \ {0})]

VARIABLES
    asks,     \* the program, one of Programs
    mapped,   \* kernel pages that are mapped
    given,    \* buddy pages that are out
    fresh,    \* buddy pages never given out
    owned,    \* RADIX
    big,      \* BIG_MAP
    content,  \* what a page holds
    live,     \* what the program knows of a handle
    call      \* what a thread is doing

vars == <<asks, mapped, given, fresh, owned, big, content, live, call>>

Page == 0..(KPages + BPages - 1)
BuddyPage == KPages..(KPages + BPages - 1)

\* BigAllocMeta: len is the block of 2^order bytes of a buddy allocation.
Meta == [size : Nat, len : Nat, buddy : BOOLEAN, aligned : BOOLEAN]

\* estimate_and_align_2mb.
Estimate(n) ==
    LET gap == Huge - (n % Huge)
    IN  IF gap < Huge /\ gap <= Slack THEN n + gap ELSE n

Run(a, n) == a..(a + n - 1)

\* The least block of the buddy backend that holds n pages.
BlockLen(n) == CHOOSE l \in {Unit * 2^o : o \in 0..BPages} :
                   l >= n /\ \A o \in 0..BPages : Unit * 2^o >= n => l <= Unit * 2^o

\* What big_free gives back.
Extent(a, m) == Run(a, IF m.buddy THEN m.len ELSE Estimate(m.size))

Idle == [op |-> "idle"]

Init ==
    /\ asks \in Programs
    /\ mapped = {} /\ given = {} /\ fresh = BuddyPage
    /\ owned = BuddyPage
    /\ big = << >>
    /\ content = [p \in Page |-> "zero"]
    /\ live = [h \in Handle |-> None]
    /\ call = [t \in Thread |-> Idle]

Put(f, k, v) == [x \in DOMAIN f \cup {k} |-> IF x = k THEN v ELSE f[x]]

Drop(f, k) == [x \in DOMAIN f \ {k} |-> f[x]]

Fill(c, P, v) == [p \in Page |-> IF p \in P THEN v ELSE c[p]]

------------------------------------------------------------------------------
(* big_malloc.  A request is aligned by one page more, and zeroed for calloc;  *)
(* old is the handle's block when realloc moves it.                            *)

MallocCall(t, h, s, aligned, zero) ==
    /\ call[t] = Idle /\ live[h] = None
    /\ \A u \in Thread : call[u] # Idle => call[u].h # h
    /\ ~(aligned /\ zero)
    /\ call' = [call EXCEPT ![t] =
                   [op |-> "back", h |-> h, s |-> IF aligned THEN s + 1 ELSE s,
                    aligned |-> aligned, zero |-> zero, old |-> None]]
    /\ UNCHANGED <<mapped, given, fresh, owned, big, content, live>>

\* A block of the buddy backend.  A fresh one holds only its FreeBlock header,
\* whose life_time lies where the payload begins; ZERO_FLAG goes with it unless
\* it was merged on its way.
FromBuddy(t) ==
    LET c == call[t]
        n == BlockLen(Estimate(c.s))
    IN  /\ c.op = "back"
        /\ \E a \in BuddyPage :
               /\ (a - KPages) % n = 0 /\ Run(a, n) \subseteq BuddyPage \ given
               /\ \E zeroFlag \in BOOLEAN, stamp \in {"zero", "stamp"} :
                      /\ zeroFlag => Run(a, n) \subseteq fresh
                      /\ content' = IF zeroFlag THEN [content EXCEPT ![a] = stamp]
                                    ELSE Fill(content, {a}, "junk")
                      /\ call' = [call EXCEPT ![t] =
                                     [op |-> "insert", h |-> c.h, a |-> a, zeroFlag |-> zeroFlag,
                                      zero |-> c.zero, old |-> c.old,
                                      meta |-> [size |-> c.s, len |-> n, buddy |-> TRUE,
                                                aligned |-> c.aligned]]]
               /\ given' = given \cup Run(a, n)
               /\ fresh' = fresh \ Run(a, n)
        /\ UNCHANGED <<mapped, owned, big, live>>

\* mmap_anonymous: any free range, all zero.
FromKernel(t) ==
    LET c == call[t]
        n == Estimate(c.s)
    IN  /\ c.op = "back"
        /\ \E a \in Page :
               /\ Run(a, n) \subseteq (Page \ BuddyPage) \ mapped
               /\ mapped' = mapped \cup Run(a, n)
               /\ content' = Fill(content, Run(a, n), "zero")
               /\ call' = [call EXCEPT ![t] =
                              [op |-> "own", h |-> c.h, a |-> a, zeroFlag |-> TRUE,
                               zero |-> c.zero, old |-> c.old,
                               meta |-> [size |-> c.s, len |-> n, buddy |-> FALSE,
                                         aligned |-> c.aligned]]]
        /\ UNCHANGED <<given, fresh, owned, big, live>>

\* Neither backend has memory: null, and a moving realloc leaves its block.
NoMemory(t) ==
    /\ call[t].op = "back"
    /\ call' = [call EXCEPT ![t] = Idle]
    /\ UNCHANGED <<mapped, given, fresh, owned, big, content, live>>

\* Mutant: the first page stands for the allocation, aligned or not.
MarkedFirst(a, m) == {a}

\* The pages RADIX is told of: one, unless the pointer may lie further up.
Marked(a, m) == IF m.aligned THEN Extent(a, m) ELSE {a}

Own(t) ==
    LET c == call[t]
    IN  /\ c.op = "own"
        /\ owned' = owned \cup Marked(c.a, c.meta)
        /\ call' = [call EXCEPT ![t].op = "insert"]
        /\ UNCHANGED <<mapped, given, fresh, big, content, live>>

\* Mutant: reused memory is handed out as it is.
ZeroedNever(c) == FALSE

\* calloc_zero: whether calloc clears the payload.
Zeroed(c) == c.zero /\ ~c.zeroFlag

\* Mutant: the last page is forgotten.
CopiedShort(o, at) ==
    [p \in Page |-> IF p \in Run(at, (o.size - o.off) - 1) THEN content[o.a + o.off + (p - at)] ELSE content[p]]

\* copy_nonoverlapping of the old payload.
Copied(o, at) ==
    [p \in Page |-> IF p \in Run(at, o.size - o.off) THEN content[o.a + o.off + (p - at)] ELSE content[p]]

\* BIG_MAP.insert; then the caller has its pointer, calloc zeroes, and realloc
\* copies what the old block held and frees that.
Insert(t) ==
    LET c == call[t]
        m == c.meta
        pages == Run(c.a, m.size)
    IN  /\ c.op = "insert"
        /\ big' = Put(big, c.a, m)
        /\ \E off \in 0..(IF m.aligned THEN 1 ELSE 0) :
               LET at == c.a + off
                   o == c.old
               IN  IF o = None
                   THEN /\ content' = IF Zeroed(c) THEN Fill(content, pages, "zero") ELSE content
                        /\ live' = [live EXCEPT ![c.h] = [a |-> c.a, off |-> off, size |-> m.size,
                                                          kept |-> 0, zero |-> c.zero]]
                        /\ call' = [call EXCEPT ![t] = Idle]
                   ELSE /\ content' = Copied(o, at)
                        /\ live' = [live EXCEPT ![c.h] = [a |-> c.a, off |-> off, size |-> m.size,
                                                          kept |-> o.kept, zero |-> FALSE]]
                        /\ call' = [call EXCEPT ![t] = [op |-> "free", h |-> c.h, p |-> o.a + o.off, a |-> o.a]]
        /\ UNCHANGED <<mapped, given, fresh, owned>>

\* The program writes all it asked for.
Write(h) ==
    LET l == live[h]
    IN  /\ l # None
        /\ \A u \in Thread : call[u] # Idle => call[u].h # h
        /\ content' = Fill(content, Run(l.a + l.off, l.size - l.off), h)
        /\ live' = [live EXCEPT ![h].kept = l.size - l.off, ![h].zero = FALSE]
        /\ UNCHANGED <<mapped, given, fresh, owned, big, call>>

------------------------------------------------------------------------------
(* rs_free and big_free *)

FreeCall(t, h) ==
    /\ call[t] = Idle /\ live[h] # None
    /\ \A u \in Thread : call[u] # Idle => call[u].h # h
    /\ live' = [live EXCEPT ![h] = None]
    /\ call' = [call EXCEPT ![t] = [op |-> "free", h |-> h, p |-> live[h].a + live[h].off, a |-> live[h].a]]
    /\ UNCHANGED <<mapped, given, fresh, owned, big, content>>

\* is_owned: a pointer RADIX does not know is a foreign one.
CheckOwned(t) ==
    /\ call[t].op = "free"
    /\ call' = [call EXCEPT ![t].op = IF call[t].p \in owned THEN "remove" ELSE "foreign"]
    /\ UNCHANGED <<mapped, given, fresh, owned, big, content, live>>

\* BIG_MAP.remove; a missing entry aborts.
Remove(t) ==
    LET c == call[t]
    IN  /\ c.op = "remove"
        /\ IF c.a \in DOMAIN big
           THEN /\ big' = Drop(big, c.a)
                /\ call' = [call EXCEPT ![t] =
                               [op |-> IF big[c.a].buddy THEN "giveBack" ELSE "disown",
                                h |-> c.h, a |-> c.a, meta |-> big[c.a]]]
           ELSE /\ call' = [call EXCEPT ![t].op = "abort"]
                /\ UNCHANGED big
        /\ UNCHANGED <<mapped, given, fresh, owned, content, live>>

GiveBack(t) ==
    LET c == call[t]
    IN  /\ c.op = "giveBack"
        /\ given' = given \ Extent(c.a, c.meta)
        /\ content' = Fill(content, Extent(c.a, c.meta), "junk")
        /\ call' = [call EXCEPT ![t] = Idle]
        /\ UNCHANGED <<mapped, fresh, owned, big, live>>

Disown(t) ==
    LET c == call[t]
    IN  /\ c.op = "disown"
        /\ owned' = owned \ Marked(c.a, c.meta)
        /\ call' = [call EXCEPT ![t].op = "unmap"]
        /\ UNCHANGED <<mapped, given, fresh, big, content, live>>

Unmap(t) ==
    LET c == call[t]
    IN  /\ c.op = "unmap"
        /\ mapped' = mapped \ Extent(c.a, c.meta)
        /\ content' = Fill(content, Extent(c.a, c.meta), "zero")
        /\ call' = [call EXCEPT ![t] = Idle]
        /\ UNCHANGED <<given, fresh, owned, big, live>>

------------------------------------------------------------------------------
(* rs_realloc and big_realloc to a larger size; a smaller one changes nothing *)

Growing(t, h, s) ==
    /\ call[t] = Idle /\ live[h] # None
    /\ \A u \in Thread : call[u] # Idle => call[u].h # h
    /\ live[h].a \in DOMAIN big
    /\ s > big[live[h].a].size - live[h].off

\* Mutant: the map keeps the old size.
ResizedMapStale(h, m) ==
    /\ big' = big
    /\ live' = [live EXCEPT ![h].size = m.size, ![h].zero = FALSE]

\* BIG_META_MAP.replace and the new size of the pointer.
Resized(h, m) ==
    /\ big' = [big EXCEPT ![live[h].a] = m]
    /\ live' = [live EXCEPT ![h].size = m.size, ![h].zero = FALSE]

\* The buddy block is large enough already.
ReallocSlack(t, h, s) ==
    LET m == big[live[h].a]
    IN  /\ Growing(t, h, s) /\ ~m.aligned /\ m.buddy /\ m.len >= Estimate(s)
        /\ Resized(h, [m EXCEPT !.size = s])
        /\ UNCHANGED <<mapped, given, fresh, owned, content, call>>

\* mremap without leave to move: the pages behind the mapping must be free.
ReallocRemap(t, h, s) ==
    LET a == live[h].a
        m == big[a]
        more == Run(a, Estimate(s)) \ Extent(a, m)
    IN  /\ Growing(t, h, s) /\ ~m.aligned /\ ~m.buddy
        /\ more \subseteq (Page \ BuddyPage) \ mapped
        /\ mapped' = mapped \cup more
        /\ content' = Fill(content, more, "zero")
        /\ Resized(h, [size |-> s, len |-> Estimate(s), buddy |-> FALSE, aligned |-> FALSE])
        /\ UNCHANGED <<given, fresh, owned, call>>

Moving(h, s) ==
    LET m == big[live[h].a]
    IN  [op |-> "back", h |-> h, s |-> IF m.aligned THEN s + 1 ELSE s, aligned |-> m.aligned,
         zero |-> FALSE,
         old |-> [a |-> live[h].a, off |-> live[h].off, size |-> m.size, kept |-> live[h].kept]]

\* An aligned pointer, or a mapping that could not grow: allocate, copy, free.
\* A buddy block first tries to grow where it is.
ReallocMove(t, h, s) ==
    LET m == big[live[h].a]
    IN  /\ Growing(t, h, s)
        /\ m.aligned \/ ~m.buddy \/ m.len < Estimate(s)
        /\ call' = [call EXCEPT ![t] = IF m.aligned \/ ~m.buddy THEN Moving(h, s)
                                       ELSE [op |-> "grow", h |-> h, s |-> s]]
        /\ UNCHANGED <<mapped, given, fresh, owned, big, content, live>>

\* One turn of the growth loop: the sibling above joins the block and the new
\* order is recorded at once; when it is not free the block moves.
Grow(t) ==
    LET c == call[t]
        a == live[c.h].a
        m == big[a]
        up == [m EXCEPT !.len = 2 * @]
        upper == Run(a + m.len, m.len)
    IN  /\ c.op = "grow"
        /\ \/ /\ m.len < BPages /\ BlockLen(Estimate(c.s)) <= BPages
              /\ (a - KPages) % up.len = 0 /\ upper \cap given = {}
              /\ given' = given \cup upper
              /\ fresh' = fresh \ upper
              /\ IF up.len >= Estimate(c.s)
                 THEN Resized(c.h, [up EXCEPT !.size = c.s]) /\ call' = [call EXCEPT ![t] = Idle]
                 ELSE big' = [big EXCEPT ![a] = up] /\ UNCHANGED <<live, call>>
           \/ /\ call' = [call EXCEPT ![t] = Moving(c.h, c.s)]
              /\ UNCHANGED <<given, fresh, big, live>>
        /\ UNCHANGED <<mapped, owned, content>>

Next ==
    /\ UNCHANGED asks
    /\ \/ \E t \in Thread :
              \/ \E h \in Handle, s \in asks.malloc, aligned, zero \in BOOLEAN : MallocCall(t, h, s, aligned, zero)
              \/ \E h \in Handle, s \in asks.realloc :
                     ReallocSlack(t, h, s) \/ ReallocRemap(t, h, s) \/ ReallocMove(t, h, s)
              \/ \E h \in Handle : FreeCall(t, h)
              \/ FromBuddy(t) \/ FromKernel(t) \/ NoMemory(t) \/ Own(t) \/ Insert(t)
              \/ CheckOwned(t) \/ Remove(t) \/ GiveBack(t) \/ Disown(t) \/ Unmap(t)
              \/ Grow(t)
       \/ \E h \in Handle : Write(h)

Spec == Init /\ [][Next]_vars

------------------------------------------------------------------------------
(* Properties *)

\* The pages a thread holds between a backend and BIG_MAP.
Held(t) == IF call[t].op \in {"own", "insert", "giveBack", "disown", "unmap"}
           THEN Extent(call[t].a, call[t].meta) ELSE {}

\* Types; addresses and recorded lengths stay inside their region or mapping.
TypeOK ==
    /\ mapped \subseteq Page \ BuddyPage /\ given \subseteq BuddyPage /\ fresh \subseteq BuddyPage \ given
    /\ owned \subseteq Page
    /\ DOMAIN big \subseteq Page /\ \A a \in DOMAIN big : big[a] \in Meta
    /\ content \in [Page -> {"zero", "stamp", "junk"} \cup Handle]
    /\ \A h \in Handle : live[h] = None \/ Run(live[h].a, live[h].size) \subseteq Page

\* Every page a backend has handed out belongs to exactly one entry of BIG_MAP
\* or one call under way, computed from the sizes the entry records: what
\* big_free returns is what was taken, after any number of growths.
Accounted ==
    /\ TypeOK
    /\ mapped \cup given = UNION ({Extent(a, big[a]) : a \in DOMAIN big} \cup {Held(t) : t \in Thread})
    /\ \A a, b \in DOMAIN big : a # b => Extent(a, big[a]) \cap Extent(b, big[b]) = {}
    /\ \A t \in Thread : \A a \in DOMAIN big : Held(t) \cap Extent(a, big[a]) = {}
    /\ \A t, u \in Thread : t # u => Held(t) \cap Held(u) = {}

\* No legal call is refused: free finds its pointer owned and its entry in the
\* map, whatever other threads map and unmap.  RADIX owns no page that is not
\* mapped: a foreign pointer is never taken for one of ours because a mapping
\* was there before.
NeverRefused ==
    /\ \A t \in Thread : call[t].op \notin {"foreign", "abort"}
    /\ owned \subseteq mapped \cup BuddyPage

\* Realloc keeps what the program wrote, in place or moved, and on failure.
DataKept ==
    \A h \in Handle :
        live[h] # None => \A p \in Run(live[h].a + live[h].off, live[h].kept) : content[p] = h

\* Memory from calloc holds nothing of an earlier owner.
CallocClean ==
    \A h \in Handle :
        live[h] # None /\ live[h].zero =>
            \A p \in Run(live[h].a, live[h].size) : content[p] \in {"zero", "stamp"}

\* Memory from calloc is zero.
CallocZeroed ==
    \A h \in Handle :
        live[h] # None /\ live[h].zero =>
            \A p \in Run(live[h].a, live[h].size) : content[p] = "zero"

==============================================================================
