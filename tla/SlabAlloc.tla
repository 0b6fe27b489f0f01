------------------------------ MODULE SlabAlloc ------------------------------
(***************************************************************************)
(* Small allocations end to end, for one size class: rs_alloc, fill,       *)
(* refill and take_one_from_batch of src/inner/alloc.rs, rs_free of        *)
(* src/inner/free.rs, and the victim scan of src/rseq_core/slab_cache.rs.  *)
(*                                                                         *)
(* The per-CPU lists and the transfer lists are the atomic pools that      *)
(* RseqList and TransferCache implement, as sets: which block a pop finds  *)
(* does not matter here.  A push goes to the RSEQ list or, past the usage  *)
(* limit or after aborts, to the transfer list.  `fresh` holds the blocks  *)
(* bulk_fill has still to carve (BulkFill); it may fail at any time.       *)
(*                                                                         *)
(* The hint words hold WordSize bits, 64 in the code; the CPUs of a NUMA   *)
(* node are an interval.  The class is one the trimmer never visits (below *)
(* 4096 bytes), so that its trimmed lists stay empty.  `stocked` is a      *)
(* history variable: the CPUs whose transfer list was hinted and nonempty  *)
(* ever since the thread's scan began.                                     *)
(***************************************************************************)
EXTENDS Naturals, Sequences, FiniteSetsExt

CONSTANTS
    Thread,      \* threads of the process
    Block,       \* block headers of the class
    NCPU,        \* number of CPUs
    WordSize,    \* CPUs per word of the hint bitmap
    Topologies,  \* NUMA tables a machine can have: first and last CPU of each node
    MaxRetries,  \* MAX_REFILL_RETRIES, 3
    MaxBatch     \* bound: blocks moved by one operation

CPU == 0..(NCPU - 1)

ASSUME ConstAssumption ==
    /\ NCPU \in Nat \ {0} /\ WordSize \in Nat \ {0}
    /\ MaxRetries \in Nat \ {0} /\ MaxBatch \in Nat \ {0}
    /\ IsFiniteSet(Block)
    /\ \A nodes \in Topologies :
           /\ nodes \in Seq(CPU \X CPU)
           /\ \A c \in CPU : \E k \in DOMAIN nodes : c \in nodes[k][1]..nodes[k][2]

VARIABLES
    node,      \* the NUMA table, read at start-up
    cache,     \* RSEQ list of each CPU
    mail,      \* normal transfer list of each CPU
    hint,      \* nonempty_bitmap
    stealing,  \* being_stolen_bitmap
    fresh,     \* blocks not yet carved from the refill spans
    magic,     \* Header::magic of every block
    live,      \* per block: how many pointers to it the program holds
    th,        \* what each thread is doing
    stocked    \* history: see above

vars == <<node, cache, mail, hint, stealing, fresh, magic, live, th, stocked>>

lists == <<cache, mail, hint, stealing, fresh>>

Scanning == {"own", "word", "victim", "mark", "steal", "unmark", "advance"}

PC == {"idle", "pop", "bulk", "take", "stamp", "check", "push", "abort"} \cup Scanning

\* cpu, want: cpu_id and batch of fill; rng, word, force, bits: the scan;
\* got: the blocks in hand; tries: the loop of refill; final: its last try_pop.
ThreadRec == [pc : PC, cpu : CPU, want : 0..MaxBatch, rng : Nat, word : Nat, force : BOOLEAN,
              bits : SUBSET CPU, got : SUBSET Block, tries : 0..(MaxRetries - 1), final : BOOLEAN]

Idle == [pc |-> "idle", cpu |-> 0, want |-> 0, rng |-> 0, word |-> 0, force |-> FALSE,
         bits |-> {}, got |-> {}, tries |-> 0, final |-> FALSE]

Init ==
    /\ node \in Topologies
    /\ cache = [c \in CPU |-> {}]
    /\ mail = [c \in CPU |-> {}]
    /\ hint = [c \in CPU |-> FALSE]
    /\ stealing = [c \in CPU |-> FALSE]
    /\ fresh = Block
    /\ magic = [b \in Block |-> "FREED"]
    /\ live = [b \in Block |-> 0]
    /\ th = [t \in Thread |-> Idle]
    /\ stocked = [t \in Thread |-> {}]

Step(t, rec) == th' = [th EXCEPT ![t] = rec]

At(t, pc) == th[t].pc = pc

\* Where the history follows the scans.
Observe ==
    stocked' = [t \in Thread |->
        IF th'[t].pc \notin Scanning THEN {}
        ELSE {c \in IF th[t].pc \in Scanning THEN stocked[t] ELSE CPU :
                  hint'[c] /\ mail'[c] # {}}]
-----------------------------------------------------------------------------
(* The pools.                                                              *)

\* transfer_push_batch: the bit is set when the list was empty.
Spill(c, S) ==
    /\ mail' = [mail EXCEPT ![c] = @ \cup S]
    /\ hint' = IF mail[c] = {} THEN [hint EXCEPT ![c] = TRUE] ELSE hint
    /\ UNCHANGED cache

\* push and push_tailed, on whatever CPU the thread is then.
PushTailed(S) ==
    \E c \in CPU : \/ /\ cache' = [cache EXCEPT ![c] = @ \cup S]
                      /\ UNCHANGED <<mail, hint>>
                   \/ Spill(c, S)

\* transfer_pop_batch: up to n blocks; the bit is cleared when none is left.
PopBatch(c, n, S) ==
    /\ S \subseteq mail[c]
    /\ Cardinality(S) = Min({n, Cardinality(mail[c])})
    /\ mail' = [mail EXCEPT ![c] = @ \ S]
    /\ hint' = [hint EXCEPT ![c] = @ /\ mail[c] # S]
-----------------------------------------------------------------------------
(* rs_alloc and fill                                                       *)

AllocStart(t) ==
    /\ At(t, "idle")
    /\ Step(t, [Idle EXCEPT !.pc = "pop"])
    /\ UNCHANGED <<lists, magic, live>>

\* SLAB_CACHE.pop: a block of the CPU the thread commits on or, after four
\* aborts, one of its transfer list; if neither, fill reads the CPU again.
Pop(t, c) ==
    /\ At(t, "pop")
    /\ \/ \E b \in cache[c] :
              /\ cache' = [cache EXCEPT ![c] = @ \ {b}]
              /\ Step(t, [th[t] EXCEPT !.pc = "stamp", !.got = {b}])
              /\ UNCHANGED mail
       \/ \E b \in mail[c] :
              /\ mail' = [mail EXCEPT ![c] = @ \ {b}]
              /\ Step(t, [th[t] EXCEPT !.pc = "stamp", !.got = {b}])
              /\ UNCHANGED cache
       \/ /\ cache[c] = {}
          /\ \E n \in 1..MaxBatch, d \in CPU :
                 Step(t, [th[t] EXCEPT !.pc = "own", !.cpu = d, !.want = n])
          /\ UNCHANGED <<cache, mail>>
    /\ UNCHANGED <<hint, stealing, fresh, magic, live>>

\* The transfer list was empty too: its bit is cleared and the loop goes on.
PopAborted(t, c) ==
    /\ At(t, "pop")
    /\ mail[c] = {}
    /\ hint' = [hint EXCEPT ![c] = FALSE]
    /\ UNCHANGED <<cache, mail, stealing, fresh, magic, live, th>>

\* Where a successful try_pop goes: fill takes one of the batch, the last
\* try_pop of refill returns its only block.
Found(t, S) == [Idle EXCEPT !.pc = IF th[t].final THEN "stamp" ELSE "take", !.got = S]

\* The scan starts at the first word of the node of the CPU.
Rngs == Cardinality(DOMAIN node)

HomeOf(c) == CHOOSE k \in DOMAIN node : c \in node[k][1]..node[k][2]

\* The i-th range CPU c visits: the own node, then the others, cyclically.
RangeAt(c, i) == node[((HomeOf(c) - 1 + i) % Rngs) + 1]

LastWord(c, i) == RangeAt(c, i)[2] \div WordSize

AtRange(t, i) == [th[t] EXCEPT !.pc = "word", !.rng = i, !.force = FALSE,
                               !.word = RangeAt(th[t].cpu, i)[1] \div WordSize]

\* try_pop: the own transfer list, if its bit is set.
TryOwn(t) ==
    LET c == th[t].cpu
    IN  /\ At(t, "own")
        /\ \/ /\ hint[c] /\ mail[c] # {}
              /\ \E S \in SUBSET mail[c] : PopBatch(c, th[t].want, S) /\ Step(t, Found(t, S))
           \/ /\ hint[c] /\ mail[c] = {}
              /\ hint' = [hint EXCEPT ![c] = FALSE]
              /\ Step(t, AtRange(t, 0))
              /\ UNCHANGED mail
           \/ ~hint[c] /\ Step(t, AtRange(t, 0)) /\ UNCHANGED <<mail, hint>>
        /\ UNCHANGED <<cache, stealing, fresh, magic, live>>
-----------------------------------------------------------------------------
(* first_nonempty_cpu_in_range                                             *)

\* Load one word, masked to the range.
ScanWord(t) ==
    LET r == RangeAt(th[t].cpu, th[t].rng)
        w == th[t].word
        b == {c \in r[1]..r[2] : c \div WordSize = w /\ hint[c]}
    IN  /\ At(t, "word")
        /\ Step(t, [th[t] EXCEPT !.bits = b, !.pc = IF b = {} THEN "advance" ELSE "victim"])
        /\ UNCHANGED <<lists, magic, live>>

Victim(t) == Min(th[t].bits)

NextVictim(t) ==
    [th[t] EXCEPT !.bits = @ \ {Victim(t)},
                  !.pc = IF th[t].bits = {Victim(t)} THEN "advance" ELSE "victim"]

\* The lowest set bit; cpu_try_marking loads and then ors.
ScanVictim(t) ==
    LET v == Victim(t)
    IN  /\ At(t, "victim")
        /\ Step(t, IF v = th[t].cpu \/ (stealing[v] /\ ~th[t].force) THEN NextVictim(t)
                   ELSE [th[t] EXCEPT !.pc = IF stealing[v] THEN "steal" ELSE "mark"])
        /\ UNCHANGED <<lists, magic, live>>

Mark(t) ==
    /\ At(t, "mark")
    /\ stealing' = [stealing EXCEPT ![Victim(t)] = TRUE]
    /\ Step(t, [th[t] EXCEPT !.pc = "steal"])
    /\ UNCHANGED <<cache, mail, hint, fresh, magic, live>>

Steal(t) ==
    /\ At(t, "steal")
    /\ \E S \in SUBSET mail[Victim(t)] :
           /\ PopBatch(Victim(t), th[t].want, S)
           /\ Step(t, [th[t] EXCEPT !.pc = "unmark", !.got = S])
    /\ UNCHANGED <<cache, stealing, fresh, magic, live>>

\* Mutant: the bit is cleared only when the steal found nothing.
UnmarkMissOnly(t) ==
    /\ At(t, "unmark")
    /\ stealing' = [stealing EXCEPT ![Victim(t)] = th[t].got # {}]
    /\ Step(t, IF th[t].got # {} THEN Found(t, th[t].got) ELSE NextVictim(t))
    /\ UNCHANGED <<cache, mail, hint, fresh, magic, live>>

Unmark(t) ==
    /\ At(t, "unmark")
    /\ stealing' = [stealing EXCEPT ![Victim(t)] = FALSE]
    /\ Step(t, IF th[t].got # {} THEN Found(t, th[t].got) ELSE NextVictim(t))
    /\ UNCHANGED <<cache, mail, hint, fresh, magic, live>>

\* Mutant: no second, forced pass.
AdvanceUnforced(t) ==
    LET last == LastWord(th[t].cpu, th[t].rng)
    IN  /\ At(t, "advance")
        /\ Step(t, IF th[t].word < last
                   THEN [th[t] EXCEPT !.pc = "word", !.force = FALSE, !.word = @ + 1]
                   ELSE IF th[t].rng + 1 < Rngs THEN AtRange(t, th[t].rng + 1)
                   ELSE IF th[t].final THEN Idle
                   ELSE [Idle EXCEPT !.pc = "bulk", !.cpu = th[t].cpu])
        /\ UNCHANGED <<lists, magic, live>>

\* After the plain pass over a word the forced one, then the next word, the
\* next node, and at last refill or, after its last try_pop, NULL.
Advance(t) ==
    LET last == LastWord(th[t].cpu, th[t].rng)
    IN  /\ At(t, "advance")
        /\ Step(t, IF ~th[t].force THEN [th[t] EXCEPT !.pc = "word", !.force = TRUE]
                   ELSE IF th[t].word < last
                   THEN [th[t] EXCEPT !.pc = "word", !.force = FALSE, !.word = @ + 1]
                   ELSE IF th[t].rng + 1 < Rngs THEN AtRange(t, th[t].rng + 1)
                   ELSE IF th[t].final THEN Idle
                   ELSE [Idle EXCEPT !.pc = "bulk", !.cpu = th[t].cpu])
        /\ UNCHANGED <<lists, magic, live>>
-----------------------------------------------------------------------------
(* refill, take_one_from_batch and the end of rs_alloc                     *)

\* Mutant: the last try_pop asks for a whole batch.
BulkManyLast(t) ==
    /\ At(t, "bulk")
    /\ \/ \E S \in SUBSET fresh :
              /\ Cardinality(S) \in 1..MaxBatch
              /\ fresh' = fresh \ S
              /\ Step(t, Found(t, S))
       \/ /\ Step(t, IF th[t].tries + 1 < MaxRetries THEN [th[t] EXCEPT !.tries = @ + 1]
                     ELSE [th[t] EXCEPT !.pc = "own", !.want = MaxBatch, !.final = TRUE])
          /\ UNCHANGED fresh
    /\ UNCHANGED <<cache, mail, hint, stealing, magic, live>>

\* Mutant: the retry count starts again.
BulkForever(t) ==
    /\ At(t, "bulk")
    /\ \/ \E S \in SUBSET fresh :
              /\ Cardinality(S) \in 1..MaxBatch
              /\ fresh' = fresh \ S
              /\ Step(t, Found(t, S))
       \/ /\ Step(t, [th[t] EXCEPT !.tries = (@ + 1) % MaxRetries])
          /\ UNCHANGED fresh
    /\ UNCHANGED <<cache, mail, hint, stealing, magic, live>>

\* One attempt of bulk_fill; after the last one, one more try_pop.
Bulk(t) ==
    /\ At(t, "bulk")
    /\ \/ \E S \in SUBSET fresh :
              /\ Cardinality(S) \in 1..MaxBatch
              /\ fresh' = fresh \ S
              /\ Step(t, Found(t, S))
       \/ /\ Step(t, IF th[t].tries + 1 < MaxRetries THEN [th[t] EXCEPT !.tries = @ + 1]
                     ELSE [th[t] EXCEPT !.pc = "own", !.want = 1, !.final = TRUE])
          /\ UNCHANGED fresh
    /\ UNCHANGED <<cache, mail, hint, stealing, magic, live>>

\* Mutant: the whole batch is pushed, the first block included.
TakeAll(t) ==
    /\ At(t, "take")
    /\ \E b \in th[t].got :
           /\ IF th[t].got = {b} THEN UNCHANGED <<cache, mail, hint>> ELSE PushTailed(th[t].got)
           /\ Step(t, [Idle EXCEPT !.pc = "stamp", !.got = {b}])
    /\ UNCHANGED <<stealing, fresh, magic, live>>

\* The first block is kept, the rest goes to the caches.
TakeOne(t) ==
    /\ At(t, "take")
    /\ \E b \in th[t].got :
           /\ IF th[t].got = {b} THEN UNCHANGED <<cache, mail, hint>> ELSE PushTailed(th[t].got \ {b})
           /\ Step(t, [Idle EXCEPT !.pc = "stamp", !.got = {b}])
    /\ UNCHANGED <<stealing, fresh, magic, live>>

\* Mutant: rs_alloc leaves the magic of the freed block.
StampNoMagic(t) ==
    /\ At(t, "stamp")
    /\ \E b \in th[t].got :
           /\ magic' = magic
           /\ live' = [live EXCEPT ![b] = @ + 1]
    /\ Step(t, Idle)
    /\ UNCHANGED lists

\* rs_alloc writes the magic and returns the block.
Stamp(t) ==
    /\ At(t, "stamp")
    /\ \E b \in th[t].got :
           /\ magic' = [magic EXCEPT ![b] = "MAGIC"]
           /\ live' = [live EXCEPT ![b] = @ + 1]
    /\ Step(t, Idle)
    /\ UNCHANGED lists
-----------------------------------------------------------------------------
(* rs_free: any thread may free any block the program holds.               *)

FreeStart(t, b) ==
    /\ At(t, "idle") /\ live[b] > 0
    /\ live' = [live EXCEPT ![b] = @ - 1]
    /\ Step(t, [Idle EXCEPT !.pc = "check", !.got = {b}])
    /\ UNCHANGED <<lists, magic>>

\* A block that does not carry MAGIC aborts the process.
Check(t) ==
    /\ At(t, "check")
    /\ \E b \in th[t].got :
           IF magic[b] = "MAGIC"
           THEN magic' = [magic EXCEPT ![b] = "FREED"] /\ Step(t, [th[t] EXCEPT !.pc = "push"])
           ELSE Step(t, [th[t] EXCEPT !.pc = "abort"]) /\ UNCHANGED magic
    /\ UNCHANGED <<lists, live>>

FreePush(t) ==
    /\ At(t, "push")
    /\ PushTailed(th[t].got)
    /\ Step(t, Idle)
    /\ UNCHANGED <<stealing, fresh, magic, live>>
-----------------------------------------------------------------------------
\* The steps of a call that has begun.
Run(t) ==
    \/ \E c \in CPU : Pop(t, c)
    \/ TryOwn(t) \/ ScanWord(t) \/ ScanVictim(t) \/ Mark(t) \/ Steal(t) \/ Unmark(t)
    \/ Advance(t) \/ Bulk(t) \/ TakeOne(t) \/ Stamp(t) \/ Check(t) \/ FreePush(t)

Call(t) ==
    \/ AllocStart(t)
    \/ \E b \in Block : FreeStart(t, b)
    \/ \E c \in CPU : PopAborted(t, c)

Next == (\E t \in Thread : Run(t) \/ Call(t)) /\ Observe /\ UNCHANGED node

Spec == Init /\ [][Next]_vars
-----------------------------------------------------------------------------
\* Types; the loop of refill makes at most MaxRetries attempts.
TypeOK ==
    /\ cache \in [CPU -> SUBSET Block] /\ mail \in [CPU -> SUBSET Block]
    /\ hint \in [CPU -> BOOLEAN] /\ stealing \in [CPU -> BOOLEAN]
    /\ fresh \subseteq Block /\ live \in [Block -> 0..1]
    /\ magic \in [Block -> {"MAGIC", "FREED"}]
    /\ th \in [Thread -> ThreadRec]
    /\ stocked \in [Thread -> SUBSET CPU]

\* Places a block can be: the pools, a thread's hands, the program.
Places(b) ==
    {<<"cache", c>> : c \in {d \in CPU : b \in cache[d]}}
    \cup {<<"mail", c>> : c \in {d \in CPU : b \in mail[d]}}
    \cup {<<"held", t>> : t \in {u \in Thread : b \in th[u].got}}
    \cup (IF b \in fresh THEN {<<"fresh", 0>>} ELSE {})
    \cup (IF live[b] > 0 THEN {<<"live", 0>>} ELSE {})

\* Whatever threads allocate, steal, refill and free, a block of the class is
\* in exactly one place: no path drops the rest of a batch or keeps a block
\* it has also given away.
OnePlace == TypeOK /\ \A b \in Block : Cardinality(Places(b)) = 1

\* A legal free never takes the double-free abort: the magic that rs_free
\* checks without a lock is MAGIC for every block the program holds, and a
\* block on its way back to a list no longer carries it.
NeverAborts == \A t \in Thread : ~At(t, "abort")

\* A being_stolen bit is set only while some thief is between marking that
\* victim and unmarking it, so a victim is never skipped for good.
StealFlagOwned ==
    \A c \in CPU : stealing[c] =>
        \E t \in Thread : th[t].pc \in {"steal", "unmark"} /\ Victim(t) = c

M == INSTANCE Malloc

\* rs_alloc hands out only blocks that are not in use, and rs_free takes each back
\* once: small allocation implements Malloc.
MallocSpec == M!MallocSpec

\* fill goes to the page backend (and rs_alloc reports no memory) only if no
\* other CPU's transfer list stayed nonempty and hinted during its scan,
\* wherever that CPU is in the bitmap words and the nodes, and even if
\* another thief was at work on it.
ScanComplete ==
    [][\A t \in Thread : At(t, "advance") /\ th'[t].pc \notin Scanning =>
           stocked[t] \subseteq {th[t].cpu}]_vars

\* How far a call is from its end: its stage, the attempts of refill, and in
\* a scan the ranges, words, passes, candidates and steps still to go.
Stage(r) ==
    CASE r.pc = "pop" -> 5
      [] r.pc = "bulk" -> 3
      [] r.pc \in Scanning -> IF r.final THEN 2 ELSE 4
      [] r.pc \in {"take", "check"} -> 1
      [] OTHER -> 0

StepRank ==
    [own |-> 6, word |-> 5, victim |-> 4, mark |-> 3, steal |-> 2, unmark |-> 1, advance |-> 0]

Distance(r) ==
    IF r.pc \notin Scanning THEN <<Stage(r), MaxRetries - r.tries, 0, 0, 0, 0, 0>>
    ELSE <<Stage(r), MaxRetries - r.tries,
           IF r.pc = "own" THEN Rngs + 1 ELSE Rngs - r.rng,
           IF r.pc = "own" THEN 0 ELSE LastWord(r.cpu, r.rng) - r.word,
           IF r.force THEN 0 ELSE 1,
           IF r.pc = "word" THEN NCPU + 1 ELSE Cardinality(r.bits),
           StepRank[r.pc]>>

Below(v, w) == \E i \in DOMAIN v : v[i] < w[i] /\ \A j \in 1..(i - 1) : v[j] = w[j]

\* Once pop has left the restartable sequence, malloc and free are wait-free:
\* every step of a call, whatever the others steal or free meanwhile, brings
\* it nearer to its end, so that scans and refill attempts cannot go on for ever.
CallNearsEnd ==
    [][\A t \in Thread :
          th[t].pc # "idle" /\ th'[t] # th[t] =>
              th'[t] = Idle \/ Below(Distance(th'[t]), Distance(th[t]))]_vars
-----------------------------------------------------------------------------
(* The inductive invariant behind OnePlace, NeverAborts, MallocSpec,       *)
(* ScanComplete and CallNearsEnd.                                          *)

Spot == ({"cache", "mail"} \X CPU) \cup ({"held"} \X Thread) \cup ({"fresh", "live"} \X {0})

Content(s) ==
    CASE s[1] = "cache" -> cache[s[2]]
      [] s[1] = "mail" -> mail[s[2]]
      [] s[1] = "held" -> th[s[2]].got
      [] s[1] = "fresh" -> fresh
      [] s[1] = "live" -> {b \in Block : live[b] = 1}

\* f says where every block is.
Located(f) == \A s \in Spot : Content(s) = {b \in Block : f[b] = s}

\* What a thread has in its hands at each point of a call.
HandsInv(r) ==
    /\ r.pc \notin {"unmark", "take", "stamp", "check", "push"} => r.got = {}
    /\ r.pc \in {"stamp", "check", "push"} => \E b \in Block : r.got = {b}
    /\ r.pc = "take" => r.got # {}
    /\ r.pc = "check" => \A b \in r.got : magic[b] = "MAGIC"
    /\ r.pc = "unmark" /\ r.final => r.got = {} \/ \E b \in Block : r.got = {b}

\* Where a scan is.
ScanInv(r) ==
    /\ r.pc \in {"pop", "bulk"} => ~r.final
    /\ r.pc \in Scanning => r.want > 0 /\ (r.final => r.want = 1)
    /\ r.pc \in Scanning \ {"own"} => r.rng < Rngs
    /\ r.pc \in {"victim", "mark", "steal", "unmark"} => r.bits # {}
    /\ r.pc = "advance" => r.bits = {}

\* The scan still comes past CPU c.
Ahead(r, c) ==
    \E j \in 0..(Rngs - 1) :
        /\ c \in RangeAt(r.cpu, j)[1]..RangeAt(r.cpu, j)[2]
        /\ \/ j > r.rng
           \/ j = r.rng /\ c \div WordSize > r.word
           \/ /\ j = r.rng /\ c \div WordSize = r.word
              /\ ~r.force \/ r.pc = "word" \/ c \in r.bits

\* Of the lists that stayed stocked a scan has passed none but its own.
AheadInv(t) ==
    /\ th[t].pc \in Scanning \ {"own"} => \A c \in stocked[t] \ {th[t].cpu} : Ahead(th[t], c)
    /\ At(t, "unmark") /\ th[t].got = {} => Victim(t) \notin stocked[t]

IInv ==
    /\ TypeOK /\ node \in Topologies
    /\ \E f \in [Block -> Spot] : Located(f)
    /\ \A b \in Block : live[b] = 1 => magic[b] = "MAGIC"
    /\ \A t \in Thread : th[t].pc # "abort" /\ HandsInv(th[t]) /\ ScanInv(th[t]) /\ AheadInv(t)
===============================================================================
