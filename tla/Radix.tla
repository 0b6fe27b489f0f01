-------------------------------- MODULE Radix --------------------------------
(***************************************************************************)
(* The ownership map of src/internals/radix_tree.rs: which chunks of the   *)
(* address space belong to the allocator.  Writers share its pages without *)
(* a lock: a missing page is mapped privately and published by a           *)
(* compare-exchange, whose loser unmaps its own; bits change by fetch_or   *)
(* and fetch_and on whole words.  Readers take no lock either.             *)
(*                                                                         *)
(* Of the three levels of pointers two are kept (all behave alike), with   *)
(* Fan entries each.  The kernel may give the page of a loser out again.   *)
(* A range is changed by the thread that has mapped that memory, so that   *)
(* no two calls change one chunk at a time.  `want` is what the calls      *)
(* asked for and `calm` marks a lookup that met no change of its chunk:    *)
(* both are history, read by no action.                                    *)
(***************************************************************************)
EXTENDS Naturals, FiniteSets

CONSTANTS
    Thread,
    Page,       \* pages the kernel can map
    Root,       \* l0, mapped at start-up
    Null,
    Fan,        \* entries of a page of pointers
    LeafSize,   \* L3_SIZE
    WordSize,   \* L3_WORD_BITS
    ChunkSize,  \* CHUNK_SIZE
    Spans       \* the <<address, size>> pairs that callers map and unmap

ASSUME ConstAssumption ==
    /\ Root \notin Page /\ Null \notin Page \cup {Root}
    /\ Fan \in Nat \ {0} /\ WordSize \in Nat \ {0} /\ ChunkSize \in Nat \ {0}
    /\ LeafSize \in Nat \ {0} /\ LeafSize % WordSize = 0
    /\ \A s \in Spans : s[1] \in Nat /\ s[2] \in Nat \ {0}
    /\ \A s \in Spans : s[1] + s[2] <= Fan * Fan * LeafSize * ChunkSize

VARIABLES
    mapped,  \* pages that are mapped
    entry,   \* the pointers in a page
    bits,    \* the set bits of a leaf
    call,    \* what each thread is doing
    want     \* history: see above

vars == <<mapped, entry, bits, call, want>>

Chunk == 0..(Fan * Fan * LeafSize - 1)

Index == 0..(Fan - 1)

\* split: the index at each level, and the bit in the leaf.
Split(c) == <<c \div (Fan * LeafSize), (c \div LeafSize) % Fan, c % LeafSize>>

Idle == [op |-> "idle"]

Init ==
    /\ mapped = {}
    /\ entry = [p \in Page \cup {Root} |-> [i \in Index |-> Null]]
    /\ bits = [p \in Page |-> {}]
    /\ call = [t \in Thread |-> Idle]
    /\ want = [c \in Chunk |-> FALSE]

Step(t, rec) == call' = [call EXCEPT ![t] = rec]

Changing(t) == IF call[t].op = "set" THEN call[t].lo..call[t].hi ELSE {}
-----------------------------------------------------------------------------
(* RadixTree::set_range, set_single_big and is_owned                       *)

\* The chunks that a span of bytes touches.
Hit(addr, size) == (addr \div ChunkSize)..((addr + size - 1) \div ChunkSize)

\* Some byte of the span lies in the chunk.
Touched(c, addr, size) == \E b \in addr..(addr + size - 1) : b \div ChunkSize = c

SetCall(t, addr, size, val) ==
    LET hit == Hit(addr, size)
        lo == addr \div ChunkSize
        hi == lo + Cardinality(hit) - 1
    IN  /\ call[t] = Idle
        /\ \A u \in Thread : hit \cap Changing(u) = {}
        /\ call' = [u \in Thread |->
               IF u = t THEN [op |-> "set", pc |-> "load", at |-> Root, level |-> 1, new |-> Null,
                              chunk |-> lo, lo |-> lo, hi |-> hi, val |-> val]
               ELSE IF call[u].op \in {"get", "got"} /\ call[u].chunk \in hit
               THEN [call[u] EXCEPT !.calm = FALSE] ELSE call[u]]
        /\ want' = [c \in Chunk |-> IF Touched(c, addr, size) THEN val ELSE want[c]]
        /\ UNCHANGED <<mapped, entry, bits>>

GetCall(t, c) ==
    /\ call[t] = Idle
    /\ Step(t, [op |-> "get", pc |-> "load", at |-> Root, level |-> 1, chunk |-> c,
                calm |-> \A u \in Thread : c \notin Changing(u)])
    /\ UNCHANGED <<mapped, entry, bits, want>>

Answer(t, res) == [op |-> "got", chunk |-> call[t].chunk, calm |-> call[t].calm, res |-> res]

GetReturn(t) ==
    /\ call[t].op = "got"
    /\ Step(t, Idle)
    /\ UNCHANGED <<mapped, entry, bits, want>>
-----------------------------------------------------------------------------
(* get_or_alloc and get_or_alloc_l3                                        *)

\* The page below the current one, or the leaf.
Descend(t, p) ==
    LET c == call[t]
    IN  [c EXCEPT !.at = p, !.level = @ + 1, !.pc = IF c.level = 2 THEN "word" ELSE "load"]

Here(t) == entry[call[t].at][Split(call[t].chunk)[call[t].level]]

Load(t) ==
    /\ call[t].op \in {"set", "get"} /\ call[t].pc = "load"
    /\ Step(t, IF Here(t) # Null THEN Descend(t, Here(t))
               ELSE IF call[t].op = "set" THEN [call[t] EXCEPT !.pc = "map"]
               ELSE Answer(t, FALSE))
    /\ UNCHANGED <<mapped, entry, bits, want>>

\* map_memory: a page of zeroes.
Map(t, p) ==
    /\ call[t].op = "set" /\ call[t].pc = "map"
    /\ p \notin mapped
    /\ mapped' = mapped \cup {p}
    /\ entry' = [entry EXCEPT ![p] = [i \in Index |-> Null]]
    /\ bits' = [bits EXCEPT ![p] = {}]
    /\ Step(t, [call[t] EXCEPT !.pc = "cas", !.new = p])
    /\ UNCHANGED want

Published(t) == [entry EXCEPT ![call[t].at][Split(call[t].chunk)[call[t].level]] = call[t].new]

\* Mutant: the loser keeps its page.
CasLeaks(t) ==
    /\ call[t].op = "set" /\ call[t].pc = "cas"
    /\ \/ /\ Here(t) = Null
          /\ entry' = Published(t)
          /\ Step(t, [Descend(t, call[t].new) EXCEPT !.new = Null])
       \/ /\ Here(t) # Null
          /\ Step(t, [Descend(t, Here(t)) EXCEPT !.new = Null])
          /\ UNCHANGED entry
    /\ UNCHANGED <<mapped, bits, want>>

\* The compare-exchange from null; who loses unmaps its page and goes on with
\* the winner's.
Cas(t) ==
    /\ call[t].op = "set" /\ call[t].pc = "cas"
    /\ \/ /\ Here(t) = Null
          /\ entry' = Published(t)
          /\ Step(t, [Descend(t, call[t].new) EXCEPT !.new = Null])
          /\ UNCHANGED mapped
       \/ /\ Here(t) # Null
          /\ mapped' = mapped \ {call[t].new}
          /\ Step(t, [Descend(t, Here(t)) EXCEPT !.new = Null])
          /\ UNCHANGED entry
    /\ UNCHANGED <<bits, want>>
-----------------------------------------------------------------------------
(* The words of a leaf                                                     *)

\* The last chunk of the range in the word of c.
LastOf(c, hi) ==
    LET end == c + (WordSize - 1) - (c % WordSize)
    IN  IF hi < end THEN hi ELSE end

BitsOf(c, last) == {Split(d)[3] : d \in c..last}

\* Mutant: a word is cleared as a whole.
MaskWord(c, last, val) ==
    LET first == c - (c % WordSize)
    IN  IF val THEN BitsOf(c, last) ELSE BitsOf(first, first + WordSize - 1)

\* low_mask & high_mask.
Mask(c, last, val) == BitsOf(c, last)

\* One fetch_or or fetch_and, then the next word, the next leaf, or the end.
SetWord(t) ==
    LET c == call[t]
        last == LastOf(c.chunk, c.hi)
        mask == Mask(c.chunk, last, c.val)
    IN  /\ c.op = "set" /\ c.pc = "word"
        /\ bits' = [bits EXCEPT ![c.at] = IF c.val THEN @ \cup mask ELSE @ \ mask]
        /\ Step(t, IF last = c.hi THEN Idle
                   ELSE IF (last + 1) % LeafSize = 0
                   THEN [c EXCEPT !.chunk = last + 1, !.pc = "load", !.at = Root, !.level = 1]
                   ELSE [c EXCEPT !.chunk = last + 1])
        /\ UNCHANGED <<mapped, entry, want>>

\* Mutant: the first bit of the word is tested.
GetWordFirst(t) ==
    LET c == call[t].chunk
    IN  /\ call[t].op = "get" /\ call[t].pc = "word"
        /\ Step(t, Answer(t, Split(c - (c % WordSize))[3] \in bits[call[t].at]))
        /\ UNCHANGED <<mapped, entry, bits, want>>

GetWord(t) ==
    /\ call[t].op = "get" /\ call[t].pc = "word"
    /\ Step(t, Answer(t, Split(call[t].chunk)[3] \in bits[call[t].at]))
    /\ UNCHANGED <<mapped, entry, bits, want>>

Next ==
    \E t \in Thread :
        \/ \E s \in Spans, val \in BOOLEAN : SetCall(t, s[1], s[2], val)
        \/ \E c \in Chunk : GetCall(t, c)
        \/ Load(t) \/ Cas(t) \/ SetWord(t) \/ GetWord(t) \/ GetReturn(t)
        \/ \E p \in Page : Map(t, p)

Spec == Init /\ [][Next]_vars
-----------------------------------------------------------------------------
Places == {Root} \cup mapped

\* Bits stay inside a leaf (split masks them) and chunks inside the map.
TypeOK ==
    /\ mapped \subseteq Page
    /\ entry \in [Page \cup {Root} -> [Index -> Page \cup {Null}]]
    /\ bits \in [Page -> SUBSET (0..(LeafSize - 1))]
    /\ want \in [Chunk -> BOOLEAN]
    /\ \A t \in Thread : call[t] # Idle => call[t].chunk \in Chunk

\* What a lookup finds that runs on its own.
Lookup(c) ==
    LET p == entry[Root][Split(c)[1]]
        leaf == entry[p][Split(c)[2]]
    IN  p # Null /\ leaf # Null /\ Split(c)[3] \in bits[leaf]

\* No update is lost: a chunk that no call is changing is owned just if the
\* last call on it said so, although other calls change bits of its word, map
\* its leaf at the same time, or lose the race to publish it.
Settled ==
    /\ TypeOK
    /\ \A c \in Chunk : (\A t \in Thread : c \notin Changing(t)) => (Lookup(c) <=> want[c])

\* A lock-free lookup of a chunk that nobody changes meanwhile is exact: free
\* never takes a block of ours for a foreign one.
GetExact ==
    \A t \in Thread : call[t].op = "got" /\ call[t].calm => call[t].res = want[call[t].chunk]

\* Every mapped page is reached from one entry or is in the hands of one thread
\* that has still to publish it; no thread stands in an unmapped page.  So the
\* losers of a race leak nothing and nothing in use is unmapped.
PagesOwned ==
    /\ \A p \in Page :
           Cardinality({s \in Places \X Index : entry[s[1]][s[2]] = p})
           + Cardinality({t \in Thread : call[t].op = "set" /\ call[t].new = p})
               = IF p \in mapped THEN 1 ELSE 0
    /\ \A t \in Thread : call[t].op \in {"set", "get"} => call[t].at \in Places
-----------------------------------------------------------------------------
(* The inductive invariant.                                                *)

\* What a thread can be doing.
Spot == Page \cup {Root}
SetRec == [op : {"set"}, pc : {"load", "map", "cas", "word"}, at : Spot, level : 1..3,
           new : Page \cup {Null}, chunk : Chunk, lo : Chunk, hi : Chunk, val : BOOLEAN]
GetRec == [op : {"get"}, pc : {"load", "word"}, at : Spot, level : 1..3, chunk : Chunk,
           calm : BOOLEAN]
GotRec == [op : {"got"}, chunk : Chunk, calm : BOOLEAN, res : BOOLEAN]

\* The pages on the way to a chunk.
Middle(c) == entry[Root][Split(c)[1]]
Leaf(c) == entry[Middle(c)][Split(c)[2]]

\* A page that a thread has mapped and not yet published.
Unpublished(t) == IF call[t].op = "set" THEN call[t].new ELSE Null

\* Entries point to mapped pages, no two of them to the same one, and only the
\* pages below the root have entries: the map is a tree of two levels.
Tree ==
    /\ \A x \in Spot, i \in Index : entry[x][i] # Null => entry[x][i] \in mapped
    /\ \A x, y \in Spot : \A i, j \in Index :
           entry[x][i] = entry[y][j] /\ entry[x][i] # Null => x = y /\ i = j
    /\ \A p \in Page, i \in Index : entry[p][i] # Null => \E j \in Index : entry[Root][j] = p

\* Unpublished pages are mapped, clear and private; no mapped page is lost.
Hands ==
    /\ \A t \in Thread : Unpublished(t) # Null =>
           /\ Unpublished(t) \in mapped /\ bits[Unpublished(t)] = {}
           /\ \A x \in Spot, i \in Index : entry[x][i] # Unpublished(t)
    /\ \A t, u \in Thread : Unpublished(t) = Unpublished(u) /\ Unpublished(t) # Null => t = u
    /\ \A p \in mapped :
           \/ \E x \in Spot, i \in Index : entry[x][i] = p
           \/ \E t \in Thread : Unpublished(t) = p

\* A call stands on the way to its chunk.
OnPath(r) ==
    \/ r.level = 1 /\ r.pc # "word" /\ r.at = Root
    \/ r.level = 2 /\ r.pc # "word" /\ r.at = Middle(r.chunk)
    \/ r.level = 3 /\ r.pc = "word" /\ Middle(r.chunk) # Null /\ r.at = Leaf(r.chunk)

\* The chunks that a call has still to change.
Left(t) == IF call[t].op = "set" THEN call[t].chunk..call[t].hi ELSE {}

CallInv(t) ==
    /\ call[t].op \in {"set", "get"} => OnPath(call[t])
    /\ call[t].op = "set" =>
           /\ call[t].lo <= call[t].chunk /\ call[t].chunk <= call[t].hi
           /\ call[t].pc = "cas" <=> call[t].new # Null
           /\ \A c \in Left(t) : want[c] = call[t].val
    /\ call[t].op \in {"get", "got"} /\ call[t].calm =>
           /\ \A u \in Thread : call[t].chunk \notin Changing(u)
           /\ call[t].op = "got" => call[t].res = want[call[t].chunk]

IInv ==
    /\ TypeOK
    /\ call \in [Thread -> {Idle} \cup SetRec \cup GetRec \cup GotRec]
    /\ Tree /\ Hands
    /\ \A t \in Thread : CallInv(t)
    /\ \A t, u \in Thread : t # u => Changing(t) \cap Changing(u) = {}
    /\ \A c \in Chunk : (\A t \in Thread : c \notin Left(t)) => (Lookup(c) <=> want[c])
==============================================================================
