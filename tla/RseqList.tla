------------------------------- MODULE RseqList -------------------------------
(***************************************************************************)
(* The per-CPU free lists of one size class: push, push_tailed and pop of  *)
(* src/rseq_core/slab_cache.rs and the restartable sequences of            *)
(* src/rseq_core/rseq_asm.rs that they run.                                *)
(*                                                                         *)
(* Threads migrate: Preempt takes a thread off its CPU between any two     *)
(* instructions and Resume puts it on any free one.  A thread preempted    *)
(* inside its sequence resumes at the abort label; this is the promise of  *)
(* the kernel, and the only protection the plain loads and stores have.    *)
(* The usage counter is updated after the sequence, when the thread may    *)
(* already be on another CPU, so it lags the list and can wrap below zero. *)
(*                                                                         *)
(* mail[c] is the transfer list of CPU c.  Its operations are atomic here, *)
(* which TransferCache justifies: it implements BlockPool.  `content` is a *)
(* history variable: the blocks on each list as the commits built it.      *)
(***************************************************************************)
EXTENDS Stacks, FiniteSetsExt

CONSTANTS
    Thread,    \* threads of the process
    CPU,       \* CPUs it may run on
    Block,     \* block headers of one size class
    NULL,      \* the null pointer
    Off,       \* the place of a thread that is not running
    High,      \* CACHE_HIGH_BLOCKS of the class
    UsageMod,  \* number of values of the usage counter, 2^64
    MaxTries,  \* aborts tolerated before the transfer list is used, 3
    MaxBatch   \* bound: blocks moved by one operation

ASSUME ConstAssumption ==
    /\ NULL \notin Block
    /\ Off \notin CPU
    /\ High \in Nat \ {0}
    /\ UsageMod \in Nat \ {0}
    /\ MaxTries \in Nat \ {0}
    /\ MaxBatch \in Nat \ {0}

VARIABLES
    cpu,       \* where each thread runs: rseq.cpu_id_start, or Off
    head,      \* RseqCache::list of each CPU
    next,      \* Header::next of every block
    usage,     \* RseqCache::usage of each CPU
    mail,      \* the transfer list of each CPU, top first
    held,      \* blocks each thread owns outside the lists
    th,        \* what each thread is doing: program counter and locals
    content    \* history: the blocks on each RSEQ list, top first

vars == <<cpu, head, next, usage, mail, held, th, content>>

Ptr == Block \cup {NULL}

Chains == UNION {[1..n -> Block] : n \in 1..MaxBatch}

Op == {"none", "push", "push_tailed", "pop"}

\* Between the labels 1 and 2 of the assembly, after the first compare.
Section == {"load", "link", "fetch", "commit"}

PC == {"idle", "cpu", "gate", "enter", "count", "aborted", "mail_pop", "spill"} \cup Section

ThreadRec == [pc : PC, op : Op, c : CPU \cup {Off}, chain : Seq(Block), tmp : Ptr, nxt : Ptr,
              tries : 0..(MaxTries + 1)]

Rec(pc, op, c, s, k) ==
    [pc |-> pc, op |-> op, c |-> c, chain |-> s, tmp |-> NULL, nxt |-> NULL, tries |-> k]

Idle == Rec("idle", "none", Off, <<>>, 0)

Init ==
    /\ cpu = [t \in Thread |-> Off]
    /\ head = [c \in CPU |-> NULL]
    /\ next = [b \in Block |-> NULL]
    /\ usage = [c \in CPU |-> 0]
    /\ mail = [c \in CPU |-> <<>>]
    /\ \E own \in [Block -> Thread] :
           held = [t \in Thread |-> {b \in Block : own[b] = t}]
    /\ th = [t \in Thread |-> Idle]
    /\ content = [c \in CPU |-> <<>>]

Step(t, rec) == th' = [th EXCEPT ![t] = rec]

Goto(t, pc) == Step(t, [th[t] EXCEPT !.pc = pc])

\* Out of the sequence: its registers are dead.
Leave(t, pc) == Step(t, [th[t] EXCEPT !.pc = pc, !.tmp = NULL, !.nxt = NULL])

At(t, pc) == cpu[t] # Off /\ th[t].pc = pc
-----------------------------------------------------------------------------
(* The kernel.                                                             *)

\* Mutant: the abort of an interrupted sequence does not happen.
PreemptNoAbort(t) ==
    /\ cpu[t] # Off
    /\ cpu' = [cpu EXCEPT ![t] = Off]
    /\ UNCHANGED <<head, next, usage, mail, held, th, content>>

\* At "enter" the thread is before or after its store to rseq_cs.
Preempt(t) ==
    /\ cpu[t] # Off
    /\ cpu' = [cpu EXCEPT ![t] = Off]
    /\ \/ th[t].pc \in Section \cup {"enter"} /\ Leave(t, "aborted")
       \/ th[t].pc \notin Section /\ UNCHANGED th
    /\ UNCHANGED <<head, next, usage, mail, held, content>>

Resume(t, c) ==
    /\ cpu[t] = Off
    /\ \A u \in Thread : cpu[u] # c
    /\ cpu' = [cpu EXCEPT ![t] = c]
    /\ UNCHANGED <<head, next, usage, mail, held, th, content>>
-----------------------------------------------------------------------------
(* Calls.  The inner links of a chain are in place when it is pushed.      *)

Linked(s) ==
    [b \in Block |->
        IF \E i \in 1..(Len(s) - 1) : s[i] = b
        THEN s[(CHOOSE i \in 1..(Len(s) - 1) : s[i] = b) + 1]
        ELSE next[b]]

PushStart(t, op, s) ==
    /\ At(t, "idle")
    /\ op = "push" => Len(s) = 1
    /\ Distinct(s)
    /\ Blocks(s) \subseteq held[t]
    /\ next' = Linked(s)
    /\ Step(t, Rec("cpu", op, Off, s, 0))
    /\ UNCHANGED <<cpu, head, usage, mail, held, content>>

PopStart(t) ==
    /\ At(t, "idle")
    /\ Step(t, Rec("cpu", "pop", Off, <<>>, 0))
    /\ UNCHANGED <<cpu, head, next, usage, mail, held, content>>

\* try_pop: some thread takes a batch off a transfer list, its own or a victim's.
Steal(t, c, n) ==
    /\ At(t, "idle")
    /\ n <= Len(mail[c])
    /\ mail' = [mail EXCEPT ![c] = SubSeq(@, n + 1, Len(@))]
    /\ held' = [held EXCEPT ![t] = @ \cup Blocks(SubSeq(mail[c], 1, n))]
    /\ UNCHANGED <<cpu, head, next, usage, th, content>>
-----------------------------------------------------------------------------
(* Around the sequence.                                                    *)

\* current_cpu = read_volatile(&rseq.cpu_id)
ReadCpu(t) ==
    /\ At(t, "cpu")
    /\ Step(t, [th[t] EXCEPT !.pc = IF th[t].op = "pop" THEN "enter" ELSE "gate",
                             !.c = cpu[t]])
    /\ UNCHANGED <<cpu, head, next, usage, mail, held, content>>

\* usage >= CACHE_HIGH_BLOCKS sends the blocks to the transfer list.
Gate(t) ==
    /\ At(t, "gate")
    /\ Goto(t, IF usage[th[t].c] >= High THEN "spill" ELSE "enter")
    /\ UNCHANGED <<cpu, head, next, usage, mail, held, content>>

\* cmp [cpu_id_start], cpu_id; jne 3f
Enter(t) ==
    /\ At(t, "enter")
    /\ Goto(t, IF cpu[t] = th[t].c THEN "load" ELSE "aborted")
    /\ UNCHANGED <<cpu, head, next, usage, mail, held, content>>

\* Back to where the CPU is read.
Retry(t, k) == [th[t] EXCEPT !.pc = "cpu", !.c = Off, !.tries = k]

\* Mutant: push never gives up.
AbortedForever(t) ==
    /\ At(t, "aborted")
    /\ \/ th[t].op = "push_tailed" /\ Goto(t, "spill")
       \/ th[t].op = "push" /\ Step(t, Retry(t, th[t].tries))
       \/ /\ th[t].op = "pop"
          /\ Step(t, IF th[t].tries = MaxTries THEN [th[t] EXCEPT !.pc = "mail_pop"]
                     ELSE Retry(t, th[t].tries + 1))
    /\ UNCHANGED <<cpu, head, next, usage, mail, held, content>>

Aborted(t) ==
    /\ At(t, "aborted")
    /\ \/ th[t].op = "push_tailed" /\ Goto(t, "spill")
       \/ /\ th[t].op = "push"
          /\ Step(t, IF th[t].tries > MaxTries THEN [th[t] EXCEPT !.pc = "spill"]
                     ELSE Retry(t, th[t].tries + 1))
       \/ /\ th[t].op = "pop"
          /\ Step(t, IF th[t].tries = MaxTries THEN [th[t] EXCEPT !.pc = "mail_pop"]
                     ELSE Retry(t, th[t].tries + 1))
    /\ UNCHANGED <<cpu, head, next, usage, mail, held, content>>

\* transfer_pop_single; when it finds nothing, loop_count = 0 and then + 1.
MailPop(t) ==
    LET c == th[t].c
    IN  /\ At(t, "mail_pop")
        /\ \/ /\ mail[c] # <<>>
              /\ mail' = [mail EXCEPT ![c] = Tail(@)]
              /\ held' = [held EXCEPT ![t] = @ \cup {Head(mail[c])}]
              /\ Step(t, Idle)
           \/ /\ mail[c] = <<>>
              /\ Step(t, Retry(t, 1))
              /\ UNCHANGED <<mail, held>>
        /\ UNCHANGED <<cpu, head, next, usage, content>>

\* Mutant: a batch is spilled as if it were a single block.
SpillHeadOnly(t) ==
    LET c == th[t].c
        s == th[t].chain
    IN  /\ At(t, "spill")
        /\ next' = [next EXCEPT ![s[1]] = IF mail[c] = <<>> THEN NULL ELSE mail[c][1]]
        /\ mail' = [mail EXCEPT ![c] = <<s[1]>> \o @]
        /\ held' = [held EXCEPT ![t] = @ \ Blocks(s)]
        /\ Step(t, Idle)
        /\ UNCHANGED <<cpu, head, usage, content>>

\* transfer_push_single or transfer_push_batch, to the CPU that was read.
Spill(t) ==
    LET c == th[t].c
        s == th[t].chain
    IN  /\ At(t, "spill")
        /\ next' = [next EXCEPT ![s[Len(s)]] = IF mail[c] = <<>> THEN NULL ELSE mail[c][1]]
        /\ mail' = [mail EXCEPT ![c] = s \o @]
        /\ held' = [held EXCEPT ![t] = @ \ Blocks(s)]
        /\ Step(t, Idle)
        /\ UNCHANGED <<cpu, head, usage, content>>
-----------------------------------------------------------------------------
(* The sequence.                                                           *)

\* mov tmp, [list]; a pop leaves the sequence when the list is empty.
Load(t) ==
    LET h == head[th[t].c]
    IN  /\ At(t, "load")
        /\ Step(t, IF th[t].op # "pop" THEN [th[t] EXCEPT !.pc = "link", !.tmp = h]
                   ELSE IF h = NULL THEN Idle
                   ELSE [th[t] EXCEPT !.pc = "fetch", !.tmp = h])
        /\ UNCHANGED <<cpu, head, next, usage, mail, held, content>>

\* mov [tail], tmp
Link(t) ==
    /\ At(t, "link")
    /\ next' = [next EXCEPT ![th[t].chain[Len(th[t].chain)]] = th[t].tmp]
    /\ Goto(t, "commit")
    /\ UNCHANGED <<cpu, head, usage, mail, held, content>>

\* mov next, [tmp]
Fetch(t) ==
    /\ At(t, "fetch")
    /\ Step(t, [th[t] EXCEPT !.pc = "commit", !.nxt = next[th[t].tmp]])
    /\ UNCHANGED <<cpu, head, next, usage, mail, held, content>>

\* mov [list], header, the last instruction of a push.
CommitPush(t) ==
    LET c == th[t].c
        s == th[t].chain
    IN  /\ At(t, "commit") /\ th[t].op # "pop"
        /\ head' = [head EXCEPT ![c] = s[1]]
        /\ content' = [content EXCEPT ![c] = s \o @]
        /\ held' = [held EXCEPT ![t] = @ \ Blocks(s)]
        /\ Leave(t, "count")
        /\ UNCHANGED <<cpu, next, usage, mail>>

\* mov [list], next, the last instruction of a pop.
CommitPop(t) ==
    LET c == th[t].c
    IN  /\ At(t, "commit") /\ th[t].op = "pop"
        /\ head' = [head EXCEPT ![c] = th[t].nxt]
        /\ content' = [content EXCEPT ![c] = SubSeq(@, 2, Len(@))]
        /\ held' = [held EXCEPT ![t] = @ \cup {th[t].tmp}]
        /\ Leave(t, "count")
        /\ UNCHANGED <<cpu, next, usage, mail>>

\* Mutant: a batch is counted as one block.
CountOne(t) ==
    LET c == th[t].c
    IN  /\ At(t, "count")
        /\ usage' = [usage EXCEPT ![c] =
                        (IF th[t].op = "pop" THEN @ + UsageMod - 1 ELSE @ + 1) % UsageMod]
        /\ Step(t, Idle)
        /\ UNCHANGED <<cpu, head, next, mail, held, content>>

\* lock add, inc or dec of usage, outside the sequence; 64-bit wrap-around.
Count(t) ==
    LET c == th[t].c
    IN  /\ At(t, "count")
        /\ usage' = [usage EXCEPT ![c] =
                        (IF th[t].op = "pop" THEN @ + UsageMod - 1
                         ELSE @ + Len(th[t].chain)) % UsageMod]
        /\ Step(t, Idle)
        /\ UNCHANGED <<cpu, head, next, mail, held, content>>

Run(t) ==
    \/ ReadCpu(t) \/ Gate(t) \/ Enter(t) \/ Aborted(t) \/ MailPop(t) \/ Spill(t)
    \/ Load(t) \/ Link(t) \/ Fetch(t) \/ CommitPush(t) \/ CommitPop(t) \/ Count(t)

Call(t) ==
    \/ \E op \in {"push", "push_tailed"}, s \in Chains : PushStart(t, op, s)
    \/ PopStart(t)
    \/ \E c \in CPU, n \in 1..MaxBatch : Steal(t, c, n)

Next ==
    \E t \in Thread : \/ Run(t) \/ Call(t)
                      \/ Preempt(t) \/ \E c \in CPU : Resume(t, c)

Spec == Init /\ [][Next]_vars
-----------------------------------------------------------------------------
\* Types; the usage counter stays within its width however far pops run ahead.
TypeOK ==
    /\ cpu \in [Thread -> CPU \cup {Off}]
    /\ head \in [CPU -> Ptr]
    /\ next \in [Block -> Ptr]
    /\ usage \in [CPU -> 0..(UsageMod - 1)]
    /\ mail \in [CPU -> Seq(Block)]
    /\ held \in [Thread -> SUBSET Block]
    /\ th \in [Thread -> ThreadRec]
    /\ content \in [CPU -> Seq(Block)]

\* The stacks of blocks: an RSEQ list and a transfer list for each CPU.
Stack == {"rseq", "mail"} \X CPU

On(k) == IF k[1] = "rseq" THEN content[k[2]] ELSE mail[k[2]]

\* A block is owned once: by one thread or by one place of one list.  A
\* sequence that commits with a stale head would give a block to two threads.
SingleOwner ==
    /\ \A t, u \in Thread : t # u => held[t] \cap held[u] = {}
    /\ \A t \in Thread, k \in Stack : held[t] \cap Blocks(On(k)) = {}
    /\ \A k, m \in Stack : k # m => Blocks(On(k)) \cap Blocks(On(m)) = {}
    /\ \A k \in Stack : Distinct(On(k))

\* No block is lost: each is held by a thread or is on some list.
NoBlockLost ==
    \A b \in Block : \/ \E t \in Thread : b \in held[t]
                     \/ \E k \in Stack : b \in Blocks(On(k))

\* Head and next links of every CPU spell out the list its commits built.
ListShape ==
    \A c \in CPU :
        LET s == content[c]
        IN  /\ head[c] = IF s = <<>> THEN NULL ELSE s[1]
            /\ \A i \in 1..Len(s) : next[s[i]] = IF i = Len(s) THEN NULL ELSE s[i + 1]

\* What keeps the sequence safe: two threads never share a CPU, a thread in
\* its sequence is on the CPU it read, ...
OnePerCpu == \A t, u \in Thread : t # u /\ cpu[t] = cpu[u] => cpu[t] = Off

OnItsCpu(t) == th[t].pc \in Section => cpu[t] = th[t].c

\* ... a push owns its chain and has linked it under the head it loaded, ...
PushReady(t) ==
    th[t].op \in {"push", "push_tailed"} /\ th[t].pc # "count" =>
        LET s == th[t].chain
        IN  /\ s \in Chains /\ Distinct(s) /\ Blocks(s) \subseteq held[t]
            /\ \A i \in 1..(Len(s) - 1) : next[s[i]] = s[i + 1]
            /\ th[t].pc \in {"link", "commit"} => th[t].tmp = head[th[t].c]
            /\ th[t].pc = "commit" => next[s[Len(s)]] = th[t].tmp

\* ... and a pop has loaded the head, and the block after it.
PopReady(t) ==
    th[t].op = "pop" /\ th[t].pc \in {"fetch", "commit"} =>
        /\ th[t].tmp = head[th[t].c] /\ th[t].tmp # NULL
        /\ th[t].pc = "commit" => th[t].nxt = next[th[t].tmp]

ByOp(t) ==
    /\ th[t].op = "none" <=> th[t].pc = "idle"
    /\ th[t].pc \notin {"idle", "cpu"} => th[t].c \in CPU
    /\ th[t].pc \in {"gate", "link", "spill"} => th[t].op # "pop"
    /\ th[t].pc \in {"fetch", "mail_pop"} => th[t].op = "pop"
    /\ th[t].op = "pop" => th[t].tries <= MaxTries

ThreadInv(t) == OnItsCpu(t) /\ PushReady(t) /\ PopReady(t) /\ ByOp(t)

\* The inductive invariant of the proofs.
IInv ==
    /\ TypeOK /\ SingleOwner /\ NoBlockLost /\ ListShape /\ OnePerCpu
    /\ \A t \in Thread : ThreadInv(t)

\* Blocks that thread t has committed to or taken from list c and not counted.
Uncounted(t, c) ==
    IF th[t].pc = "count" /\ th[t].c = c
    THEN IF th[t].op = "pop" THEN -1 ELSE Len(th[t].chain)
    ELSE 0

\* The usage counter is the length of the list up to what threads between
\* commit and count still owe, modulo 2^64: it never drifts for good.
UsageAccounts ==
    \A c \in CPU :
        usage[c] = (Len(content[c]) - MapThenSumSet(LAMBDA t : Uncounted(t, c), Thread))
                        % UsageMod

\* How far a push is from its end: the attempts left, then the step it is at.
StepRank ==
    [cpu |-> 9, gate |-> 8, enter |-> 7, load |-> 6, link |-> 5, commit |-> 4,
     aborted |-> 3, spill |-> 2, count |-> 1]

Distance(r) == IF r.op = "none" THEN 0 ELSE 10 * (MaxTries + 1 - r.tries) + StepRank[r.pc]

\* A push is wait-free: none of its steps waits for another thread, and each,
\* an abort by the kernel included, brings it nearer to its end.  However
\* often it is interrupted, the transfer list takes the blocks in the end.
PushNearsEnd ==
    [][\A t \in Thread :
          th[t].op \in {"push", "push_tailed"} /\ th'[t] # th[t]
              => Distance(th'[t]) < Distance(th[t])]_vars

Pool == INSTANCE BlockPool WITH stack <- [k \in Stack |-> On(k)]

\* Every push, pop, spill and steal takes effect in one step, its commit.
PoolSpec == Pool!PoolSpec
=============================================================================
