---------------------------- MODULE TransferCache ----------------------------
(***************************************************************************)
(* One TransferCache of src/rseq_core/slab_cache.rs: the overflow stacks   *)
(* `list` and `trimmed` of one CPU and size class, and that CPU's bit of   *)
(* the class's nonempty bitmap.                                            *)
(*                                                                         *)
(* Every atomic access, and every access to a header's `next`, is a step   *)
(* of its own; the steps of the threads interleave freely.  A word packs a *)
(* pointer and a tag that every successful update advances, TagMod = 256   *)
(* in the code.  Atomicity is sequentially consistent: the crate is        *)
(* x86-64 only, where the compare-exchanges, fetch_or and fetch_and are    *)
(* locked instructions and loads are not reordered.                        *)
(*                                                                         *)
(* `content` and `lag` are history variables, read by no action except     *)
(* for the bound MaxLag: content[l] is the stack the updates of l build    *)
(* up, and lag[t] counts the updates that others made to the word which    *)
(* thread t has loaded and not yet compared.                               *)
(***************************************************************************)
EXTENDS Stacks

CONSTANTS
    Thread,    \* threads of the process, the trimmer among them
    Block,     \* block headers of one size class
    NULL,      \* the null pointer
    TagMod,    \* number of tag values
    MaxLag,    \* bound: updates a stalled operation can miss, 255 in UPDATES.md
    MaxBatch   \* bound: blocks moved by one operation

ASSUME ConstAssumption ==
    /\ NULL \notin Block
    /\ TagMod \in Nat \ {0}
    /\ MaxLag \in Nat /\ MaxLag < TagMod
    /\ MaxBatch \in Nat \ {0}

VARIABLES
    word,      \* list, trimmed: the packed AtomicUsize
    next,      \* Header::next of every block
    hint,      \* the CPU's bit in nonempty_bitmap for this class
    held,      \* blocks each thread owns outside the two stacks
    th,        \* what each thread is doing: program counter and locals
    content,   \* history: the blocks on each stack, top first
    lag        \* history: updates missed since the thread's load

vars == <<word, next, hint, held, th, content, lag>>

List == {"list", "trimmed"}

Ptr == Block \cup {NULL}

Word == [ptr : Ptr, tag : 0..(TagMod - 1)]

Chains == UNION {[1..n -> Block] : n \in 1..MaxBatch}

PC == {"idle", "push_load", "push_link", "push_cas", "mark_load", "mark_or",
       "pop_load", "pop_walk", "pop_cas", "clear_load", "clear_and",
       "recheck", "detach_cas"}

\* Where a thread holds a loaded word that it has still to compare.
Window == {"push_link", "push_cas", "pop_walk", "pop_cas", "detach_cas"}

Op == {"none", "push", "pop_single", "pop_batch", "detach"}

ThreadRec == [pc : PC, op : Op, lst : List, old : Word, chain : Seq(Block),
              nxt : Ptr, want : 0..MaxBatch]

NullWord == [ptr |-> NULL, tag |-> 0]

Rec(pc, op, l, w, c, n) ==
    [pc |-> pc, op |-> op, lst |-> l, old |-> w, chain |-> c, nxt |-> NULL, want |-> n]

\* A thread outside the TransferCache, or busy with the hint only.
At(pc) == Rec(pc, "none", "list", NullWord, <<>>, 0)

Idle == At("idle")

\* Mutant: the tag is not advanced.
PackKeepsTag(ptr, old) == [ptr |-> ptr, tag |-> old.tag]

\* pack: the new pointer under the tag that follows the tag of the old word.
Pack(ptr, old) == [ptr |-> ptr, tag |-> (old.tag + 1) % TagMod]
-----------------------------------------------------------------------------
Init ==
    /\ word = [l \in List |-> NullWord]
    /\ next = [b \in Block |-> NULL]
    /\ hint = FALSE
    /\ \E own \in [Block -> Thread] :
           held = [t \in Thread |-> {b \in Block : own[b] = t}]
    /\ th = [t \in Thread |-> Idle]
    /\ content = [l \in List |-> <<>>]
    /\ lag = [t \in Thread |-> 0]

\* t's compare-exchange on l succeeds: every other window on l falls behind
\* by one update, which the bound must allow.
Stalled(t, l) == {u \in Thread \ {t} : th[u].pc \in Window /\ th[u].lst = l}

Update(t, l, w) ==
    /\ \A u \in Stalled(t, l) : lag[u] < MaxLag
    /\ word' = [word EXCEPT ![l] = w]
    /\ lag' = [u \in Thread |-> IF u \in Stalled(t, l) THEN lag[u] + 1 ELSE lag[u]]

Step(t, rec) == th' = [th EXCEPT ![t] = rec]
-----------------------------------------------------------------------------
(* transfer_push_batch, transfer_push_single, transfer_push_single_trimmed *)

\* The caller's chain start..tail; its inner links are already in place.
Linked(c) ==
    [b \in Block |->
        IF \E i \in 1..(Len(c) - 1) : c[i] = b
        THEN c[(CHOOSE i \in 1..(Len(c) - 1) : c[i] = b) + 1]
        ELSE next[b]]

PushStart(t, l, c) ==
    /\ th[t].pc = "idle"
    /\ Distinct(c)
    /\ Blocks(c) \subseteq held[t]
    /\ l = "trimmed" => Len(c) = 1
    /\ next' = Linked(c)
    /\ Step(t, Rec("push_load", "push", l, NullWord, c, 0))
    /\ UNCHANGED <<word, hint, held, content, lag>>

PushLoad(t) ==
    /\ th[t].pc = "push_load"
    /\ Step(t, [th[t] EXCEPT !.pc = "push_link", !.old = word[th[t].lst]])
    /\ lag' = [lag EXCEPT ![t] = 0]
    /\ UNCHANGED <<word, next, hint, held, content>>

PushLink(t) ==
    /\ th[t].pc = "push_link"
    /\ next' = [next EXCEPT ![th[t].chain[Len(th[t].chain)]] = th[t].old.ptr]
    /\ Step(t, [th[t] EXCEPT !.pc = "push_cas"])
    /\ UNCHANGED <<word, hint, held, content, lag>>

PushCas(t) ==
    LET l == th[t].lst
        c == th[t].chain
    IN  /\ th[t].pc = "push_cas"
        /\ word[l] = th[t].old
        /\ Update(t, l, Pack(c[1], th[t].old))
        /\ content' = [content EXCEPT ![l] = c \o @]
        /\ held' = [held EXCEPT ![t] = @ \ Blocks(c)]
        /\ Step(t, IF th[t].old.ptr = NULL THEN At("mark_load") ELSE Idle)
        /\ UNCHANGED <<next, hint>>

\* Mutant: the retry reloads the word but does not link the tail again.
PushRetryNoRelink(t) ==
    /\ th[t].pc = "push_cas"
    /\ word[th[t].lst] # th[t].old
    /\ Step(t, [th[t] EXCEPT !.old = word[th[t].lst]])
    /\ lag' = [lag EXCEPT ![t] = 0]
    /\ UNCHANGED <<word, next, hint, held, content>>

PushRetry(t) ==
    /\ th[t].pc = "push_cas"
    /\ word[th[t].lst] # th[t].old
    /\ Step(t, [th[t] EXCEPT !.pc = "push_load", !.old = NullWord])
    /\ UNCHANGED <<word, next, hint, held, content, lag>>
-----------------------------------------------------------------------------
(* mark_class_nonempty, clear_class_hint and the recheck of clear_hint.    *)

MarkLoad(t) ==
    /\ th[t].pc = "mark_load"
    /\ Step(t, IF hint THEN Idle ELSE At("mark_or"))
    /\ UNCHANGED <<word, next, hint, held, content, lag>>

MarkOr(t) ==
    /\ th[t].pc = "mark_or"
    /\ hint' = TRUE
    /\ Step(t, Idle)
    /\ UNCHANGED <<word, next, held, content, lag>>

ClearLoad(t) ==
    /\ th[t].pc = "clear_load"
    /\ Step(t, At(IF hint THEN "clear_and" ELSE "recheck"))
    /\ UNCHANGED <<word, next, hint, held, content, lag>>

ClearAnd(t) ==
    /\ th[t].pc = "clear_and"
    /\ hint' = FALSE
    /\ Step(t, At("recheck"))
    /\ UNCHANGED <<word, next, held, content, lag>>

\* Mutant: the hint is cleared without looking at the list again.
RecheckSkipped(t) ==
    /\ th[t].pc = "recheck"
    /\ Step(t, Idle)
    /\ UNCHANGED <<word, next, hint, held, content, lag>>

Recheck(t) ==
    /\ th[t].pc = "recheck"
    /\ Step(t, IF word["list"].ptr = NULL THEN Idle ELSE At("mark_load"))
    /\ UNCHANGED <<word, next, hint, held, content, lag>>
-----------------------------------------------------------------------------
(* transfer_pop_single and transfer_pop_batch                              *)

PopSingleStart(t) ==
    /\ th[t].pc = "idle"
    /\ Step(t, Rec("pop_load", "pop_single", "list", NullWord, <<>>, 1))
    /\ UNCHANGED <<word, next, hint, held, content, lag>>

\* try_pop on the own CPU and a thief's scan call it once they saw the bit.
PopBatchStart(t, n) ==
    /\ th[t].pc = "idle"
    /\ hint
    /\ Step(t, Rec("pop_load", "pop_batch", "list", NullWord, <<>>, n))
    /\ UNCHANGED <<word, next, hint, held, content, lag>>

PopLoad(t) ==
    LET w == word[th[t].lst]
    IN  /\ th[t].pc = "pop_load"
        /\ \/ /\ w.ptr # NULL
              /\ Step(t, [th[t] EXCEPT !.pc = "pop_walk", !.old = w, !.chain = <<w.ptr>>])
              /\ lag' = [lag EXCEPT ![t] = 0]
           \/ /\ w.ptr = NULL /\ th[t].lst = "list"
              /\ Step(t, [th[t] EXCEPT !.lst = "trimmed"])
              /\ UNCHANGED lag
           \/ /\ w.ptr = NULL /\ th[t].lst = "trimmed"
              /\ Step(t, At("clear_load"))
              /\ UNCHANGED lag
        /\ UNCHANGED <<word, next, hint, held, content>>

\* Reads (*tail).next and goes on while the batch is short and the chain is not.
PopWalk(t) ==
    LET c == th[t].chain
        n == next[c[Len(c)]]
    IN  /\ th[t].pc = "pop_walk"
        /\ Step(t, IF Len(c) < th[t].want /\ n # NULL
                   THEN [th[t] EXCEPT !.chain = Append(c, n)]
                   ELSE [th[t] EXCEPT !.pc = "pop_cas", !.nxt = n])
        /\ UNCHANGED <<word, next, hint, held, content, lag>>

\* Mutant: the chain is unlinked but only its head is handed to the caller.
PopCasHeadOnly(t) ==
    LET l == th[t].lst
        c == th[t].chain
    IN  /\ th[t].pc = "pop_cas"
        /\ word[l] = th[t].old
        /\ Update(t, l, Pack(th[t].nxt, th[t].old))
        /\ content' = [content EXCEPT ![l] = SubSeq(@, Len(c) + 1, Len(@))]
        /\ held' = [held EXCEPT ![t] = @ \cup {c[1]}]
        /\ Step(t, Idle)
        /\ UNCHANGED <<next, hint>>

PopCas(t) ==
    LET l == th[t].lst
        c == th[t].chain
    IN  /\ th[t].pc = "pop_cas"
        /\ word[l] = th[t].old
        /\ Update(t, l, Pack(th[t].nxt, th[t].old))
        /\ content' = [content EXCEPT ![l] = SubSeq(@, Len(c) + 1, Len(@))]
        /\ held' = [held EXCEPT ![t] = @ \cup Blocks(c)]
        /\ Step(t, IF th[t].op = "pop_batch" /\ th[t].nxt = NULL
                   THEN At("clear_load") ELSE Idle)
        /\ UNCHANGED <<next, hint>>

PopRetry(t) ==
    /\ th[t].pc = "pop_cas"
    /\ word[th[t].lst] # th[t].old
    /\ Step(t, [th[t] EXCEPT !.pc = "pop_load", !.old = NullWord, !.chain = <<>>, !.nxt = NULL])
    /\ UNCHANGED <<word, next, hint, held, content, lag>>
-----------------------------------------------------------------------------
(* The detach loop of trim_small: the whole normal list to the trimmer.    *)

DetachStart(t) ==
    /\ th[t].pc = "idle"
    /\ word["list"].ptr # NULL
    /\ Step(t, Rec("detach_cas", "detach", "list", word["list"], <<>>, 0))
    /\ lag' = [lag EXCEPT ![t] = 0]
    /\ UNCHANGED <<word, next, hint, held, content>>

DetachCas(t) ==
    /\ th[t].pc = "detach_cas"
    /\ word["list"] = th[t].old
    /\ Update(t, "list", Pack(NULL, th[t].old))
    /\ content' = [content EXCEPT !["list"] = <<>>]
    /\ held' = [held EXCEPT ![t] = @ \cup Blocks(content["list"])]
    /\ Step(t, Idle)
    /\ UNCHANGED <<next, hint>>

DetachRetry(t) ==
    /\ th[t].pc = "detach_cas"
    /\ word["list"] # th[t].old
    /\ Step(t, IF word["list"].ptr = NULL THEN Idle
               ELSE [th[t] EXCEPT !.old = word["list"]])
    /\ lag' = [lag EXCEPT ![t] = 0]
    /\ UNCHANGED <<word, next, hint, held, content>>
-----------------------------------------------------------------------------
(* A block outside the stacks sits in an RSEQ list or in a chain being     *)
(* built; that code rewrites its next link while stale readers may look.   *)

Relink(t, b, p) ==
    /\ th[t].pc = "idle"
    /\ b \in held[t]
    /\ p = NULL \/ \E u \in Thread : p \in held[u]
    /\ next' = [next EXCEPT ![b] = p]
    /\ UNCHANGED <<word, hint, held, th, content, lag>>

ThreadStep(t) ==
    \/ \E l \in List, c \in Chains : PushStart(t, l, c)
    \/ PushLoad(t) \/ PushLink(t) \/ PushCas(t) \/ PushRetry(t)
    \/ MarkLoad(t) \/ MarkOr(t)
    \/ ClearLoad(t) \/ ClearAnd(t) \/ Recheck(t)
    \/ PopSingleStart(t)
    \/ \E n \in 1..MaxBatch : PopBatchStart(t, n)
    \/ PopLoad(t) \/ PopWalk(t) \/ PopCas(t) \/ PopRetry(t)
    \/ DetachStart(t) \/ DetachCas(t) \/ DetachRetry(t)
    \/ \E b \in Block, p \in Ptr : Relink(t, b, p)

Next == \E t \in Thread : ThreadStep(t)

Spec == Init /\ [][Next]_vars
-----------------------------------------------------------------------------
\* Types; the tag in a packed word never spills into the pointer bits.
TypeOK ==
    /\ word \in [List -> Word]
    /\ next \in [Block -> Ptr]
    /\ hint \in BOOLEAN
    /\ held \in [Thread -> SUBSET Block]
    /\ th \in [Thread -> ThreadRec]
    /\ content \in [List -> Seq(Block)]
    /\ lag \in [Thread -> 0..MaxLag]

\* A block is owned once: no block is held by two threads, twice on the
\* stacks, or held and on a stack.  This is what the compare-exchange loops
\* have to ensure for malloc never to return one block to two callers.
SingleOwner ==
    /\ \A t, u \in Thread : t # u => held[t] \cap held[u] = {}
    /\ \A t \in Thread, l \in List : held[t] \cap Blocks(content[l]) = {}
    /\ Blocks(content["list"]) \cap Blocks(content["trimmed"]) = {}
    /\ \A l \in List : Distinct(content[l])

\* No block is lost: each is held by a thread or is on a stack.
NoBlockLost ==
    \A b \in Block : \/ \E t \in Thread : b \in held[t]
                     \/ \E l \in List : b \in Blocks(content[l])

\* The packed word and the next links spell out the stack that the updates
\* built: what a walk by transfer_pop_batch or trim_small meets.
StackShape ==
    \A l \in List :
        LET c == content[l]
        IN  /\ word[l].ptr = IF c = <<>> THEN NULL ELSE c[1]
            /\ \A i \in 1..Len(c) : next[c[i]] = IF i = Len(c) THEN NULL ELSE c[i + 1]

\* The inductive strengthening of the three invariants above, per thread:
\* a pusher owns its chain and has linked it; ...
PushReady(t) ==
    th[t].pc \in {"push_load", "push_link", "push_cas"} =>
        LET c == th[t].chain
        IN  /\ c \in Chains /\ Distinct(c) /\ Blocks(c) \subseteq held[t]
            /\ \A i \in 1..(Len(c) - 1) : next[c[i]] = c[i + 1]
            /\ th[t].pc = "push_cas" => next[c[Len(c)]] = th[t].old.ptr

\* ... the tag of the word runs lag ahead of the tag a thread has loaded; ...
TagFollows(t) ==
    th[t].pc \in Window =>
        LET w == word[th[t].lst]
        IN  /\ \/ w.tag = th[t].old.tag + lag[t]
               \/ w.tag + TagMod = th[t].old.tag + lag[t]
            /\ lag[t] = 0 => w = th[t].old

\* ... and until an update intervenes a popper has seen the top of the stack.
PopSeen(t) ==
    th[t].pc \in {"pop_walk", "pop_cas"} =>
        LET c == th[t].chain
            s == content[th[t].lst]
        IN  /\ c # <<>>
            /\ lag[t] = 0 =>
                  /\ Len(c) <= Len(s)
                  /\ \A i \in 1..Len(c) : c[i] = s[i]
                  /\ th[t].pc = "pop_cas" =>
                        th[t].nxt = IF Len(c) = Len(s) THEN NULL ELSE s[Len(c) + 1]

DetachOnList(t) == th[t].pc = "detach_cas" => th[t].lst = "list" /\ th[t].old.ptr # NULL

ThreadInv(t) == PushReady(t) /\ TagFollows(t) /\ PopSeen(t) /\ DetachOnList(t)

\* The inductive invariant of the proofs: no block is lost or doubled, the words and
\* links of memory spell the stacks, and every push, pop and detach under way
\* remembers a stack that is still there, or its compare-exchange will fail.
IInv ==
    /\ TypeOK /\ SingleOwner /\ NoBlockLost /\ StackShape
    /\ \A t \in Thread : ThreadInv(t)

\* A clear hint never strands blocks of the normal list: while list is
\* nonempty and the bit is clear, some thread is still on its way to set it
\* (a pusher that found the list empty, or a clearer before its recheck).
HintNotLost ==
    content["list"] # <<>> /\ ~hint
        => \E t \in Thread : th[t].pc \in {"mark_load", "mark_or", "clear_load",
                                           "clear_and", "recheck"}

Pool == INSTANCE BlockPool WITH stack <- content, Stack <- List

\* Each operation takes effect at its successful compare-exchange, as one
\* atomic push or take of BlockPool.
PoolSpec == Pool!PoolSpec
=============================================================================
