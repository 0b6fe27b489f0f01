--------------------------- MODULE RseqListProofs ---------------------------
(***************************************************************************)
(* IInv is an inductive invariant of RseqList, and RseqList implements     *)
(* BlockPool: for any threads, CPUs and blocks, any width of the usage     *)
(* counter and any limits.                                                 *)
(***************************************************************************)
EXTENDS RseqList, SequenceTheorems, TLAPS

-----------------------------------------------------------------------------
(* Pushing a chain on a stack and taking one off it                        *)

\* The blocks of a chain are exactly the values at its positions.
LEMMA InBlocks ==
    ASSUME NEW s
    PROVE  /\ \A i \in 1..Len(s) : s[i] \in Blocks(s)
           /\ \A b \in Blocks(s) : \E i \in 1..Len(s) : s[i] = b
BY DEF Blocks

\* A push of chain c: the stack gains the blocks of c, and stays free of
\* duplicates when c shares no block with it.
LEMMA StackPush ==
    ASSUME NEW S, NEW c \in Seq(S), NEW s \in Seq(S)
    PROVE  /\ Blocks(c \o s) = Blocks(c) \cup Blocks(s)
           /\ Distinct(c) /\ Distinct(s) /\ Blocks(c) \cap Blocks(s) = {}
                => Distinct(c \o s)
<1> DEFINE r == c \o s
           n == Len(c)
           m == Len(s)
<1>1. /\ n \in Nat /\ m \in Nat /\ Len(r) = n + m
      /\ \A i \in 1..n : r[i] = c[i]
      /\ \A i \in (n + 1)..(n + m) : r[i] = s[i - n]
  BY ConcatProperties, LenProperties
<1>2. \A j \in 1..m : r[n + j] = s[j] /\ n + j \in 1..Len(r)
  BY <1>1
<1>3. \A i \in 1..n : i \in 1..Len(r)
  BY <1>1
<1>4. \A i \in 1..Len(r) : i \in 1..n \/ (i - n \in 1..m /\ r[i] = s[i - n])
  BY <1>1
<1>5. Blocks(r) = Blocks(c) \cup Blocks(s)
  <2>1. ASSUME NEW b \in Blocks(r) PROVE b \in Blocks(c) \cup Blocks(s)
    <3>1. PICK i \in 1..Len(r) : r[i] = b
      BY InBlocks, Zenon
    <3> QED
      BY <1>1, <1>4, <3>1, InBlocks
  <2>2. ASSUME NEW b \in Blocks(c) PROVE b \in Blocks(r)
    <3>1. PICK i \in 1..Len(c) : c[i] = b
      BY InBlocks
    <3>2. r[i] = b /\ i \in 1..Len(r)
      BY <1>1, <1>3, <3>1
    <3> QED
      BY <3>2, InBlocks, Zenon
  <2>3. ASSUME NEW b \in Blocks(s) PROVE b \in Blocks(r)
    <3>1. PICK i \in 1..Len(s) : s[i] = b
      BY InBlocks
    <3>2. r[n + i] = b /\ n + i \in 1..Len(r)
      BY <1>2, <3>1
    <3> HIDE DEF r, n
    <3> QED
      BY <3>2, InBlocks
  <2> HIDE DEF r
  <2> QED
    BY <2>1, <2>2, <2>3
<1>6. ASSUME Distinct(c), Distinct(s), Blocks(c) \cap Blocks(s) = {},
             NEW i \in 1..Len(r), NEW j \in 1..Len(r), r[i] = r[j]
      PROVE  i = j
  <2>1. CASE i \in 1..n /\ j \in 1..n
    BY <1>1, <1>6, <2>1 DEF Distinct
  <2>2. CASE i \notin 1..n /\ j \notin 1..n
    <3>1. i - n \in 1..m /\ j - n \in 1..m /\ s[i - n] = s[j - n]
      BY <1>4, <1>6, <2>2
    <3>2. i - n = j - n
      BY <1>6, <3>1 DEF Distinct
    <3> QED
      BY <1>1, <3>2
  <2>3. CASE i \in 1..n /\ j \notin 1..n
    <3>1. r[i] \in Blocks(c) /\ r[j] \in Blocks(s)
      BY <1>1, <1>4, <2>3, InBlocks
    <3> QED
      BY <1>6, <3>1
  <2>4. CASE i \notin 1..n /\ j \in 1..n
    <3>1. r[i] \in Blocks(s) /\ r[j] \in Blocks(c)
      BY <1>1, <1>4, <2>4, InBlocks
    <3> QED
      BY <1>6, <3>1
  <2> QED
    BY <2>1, <2>2, <2>3, <2>4
<1> QED
  BY <1>5, <1>6 DEF Distinct

\* A take of the top c of a stack: what stays keeps its order, and the blocks
\* divide between c and the rest without overlap.
LEMMA StackTake ==
    ASSUME NEW S, NEW s \in Seq(S), NEW c \in Seq(S), OnTop(c, s),
           NEW r, r = Below(c, s)
    PROVE  /\ r \in Seq(S) /\ Len(r) = Len(s) - Len(c)
           /\ \A i \in 1..Len(r) : r[i] = s[Len(c) + i] /\ Len(c) + i \in 1..Len(s)
           /\ Blocks(s) = Blocks(c) \cup Blocks(r)
           /\ Distinct(s) => Distinct(r) /\ Blocks(c) \cap Blocks(r) = {}
<1> DEFINE n == Len(c)
           m == Len(s)
<1>1. /\ n \in Nat /\ m \in Nat /\ n <= m /\ \A i \in 1..n : c[i] = s[i]
  BY LenProperties DEF OnTop
<1>2. /\ r \in Seq(S) /\ Len(r) = m - n
      /\ \A i \in 1..(m - n) : r[i] = s[n + i]
  <2>1. \A i \in (n + 1)..m : i \in 1..m
    BY <1>1
  <2>2. \A i \in (n + 1)..m : s[i] \in S
    BY <2>1, ElementOfSeq
  <2> QED
    BY <1>1, <2>2 DEF Below
<1>3. \A i \in 1..Len(r) : n + i \in 1..m
  BY <1>1, <1>2
<1>4. \A i \in 1..m : i \in 1..n \/ (i - n \in 1..Len(r) /\ r[i - n] = s[i])
  BY <1>1, <1>2
<1>5. \A i \in 1..n : i \in 1..m
  BY <1>1
<1>6. Blocks(s) = Blocks(c) \cup Blocks(r)
  <2>1. ASSUME NEW b \in Blocks(s) PROVE b \in Blocks(c) \cup Blocks(r)
    <3>1. PICK i \in 1..Len(s) : s[i] = b
      BY InBlocks
    <3> QED
      BY <1>1, <1>4, <3>1, InBlocks, Zenon
  <2>2. ASSUME NEW b \in Blocks(c) PROVE b \in Blocks(s)
    <3>1. PICK i \in 1..n : c[i] = b
      BY InBlocks
    <3>2. s[i] = b /\ i \in 1..Len(s)
      BY <1>1, <1>5, <3>1
    <3> QED
      BY <3>2, InBlocks
  <2>3. ASSUME NEW b \in Blocks(r) PROVE b \in Blocks(s)
    <3>1. PICK i \in 1..Len(r) : r[i] = b
      BY InBlocks
    <3>2. s[n + i] = b /\ n + i \in 1..Len(s)
      BY <1>2, <1>3, <3>1
    <3> HIDE DEF n
    <3> QED
      BY <3>2, InBlocks
  <2> QED
    BY <2>1, <2>2, <2>3
<1>7. ASSUME Distinct(s) PROVE Distinct(r) /\ Blocks(c) \cap Blocks(r) = {}
  <2>1. ASSUME NEW i \in 1..Len(r), NEW j \in 1..Len(r), r[i] = r[j] PROVE i = j
    <3>1. n + i = n + j
      BY <1>2, <1>3, <1>7, <2>1, Zenon DEF Distinct
    <3> QED
      BY <1>1, <3>1
  <2>2. ASSUME NEW i \in 1..n, NEW j \in 1..Len(r) PROVE c[i] # r[j]
    <3>1. i # n + j
      BY <1>1
    <3> QED
      BY <1>1, <1>2, <1>3, <1>5, <1>7, <3>1 DEF Distinct
  <2>3. ASSUME NEW b \in Blocks(c), b \in Blocks(r) PROVE FALSE
    <3>1. (\E i \in 1..n : c[i] = b) /\ (\E j \in 1..Len(r) : r[j] = b)
      BY <2>3, InBlocks
    <3> QED
      BY <2>2, <3>1
  <2> QED
    BY <2>1, <2>3 DEF Distinct
<1> QED
  BY <1>1, <1>2, <1>3, <1>6, <1>7

-----------------------------------------------------------------------------
\* Chains are nonempty sequences of blocks.
LEMMA ChainsAreSeqs ==
    ASSUME NEW s \in Chains
    PROVE  s \in Seq(Block) /\ Len(s) \in Nat \ {0}
<1>1. PICK n \in 1..MaxBatch : s \in [1..n -> Block]
  BY DEF Chains
<1>2. n \in Nat
  BY <1>1, ConstAssumption
<1>3. s \in Seq(Block)
  BY <1>1, <1>2
<1>4. Len(s) = n
  BY <1>1, <1>2, <1>3
<1> QED
  BY <1>1, <1>3, <1>4

\* The first and the last block of a chain are blocks of it.
LEMMA ChainEnds ==
    ASSUME NEW s \in Chains
    PROVE  /\ s[1] \in Block /\ s[1] \in Blocks(s)
           /\ s[Len(s)] \in Block /\ s[Len(s)] \in Blocks(s)
<1>1. s \in Seq(Block) /\ Len(s) \in Nat \ {0}
  BY ChainsAreSeqs
<1>2. 1 \in 1..Len(s) /\ Len(s) \in 1..Len(s)
  BY <1>1
<1> QED
  BY <1>1, <1>2, ElementOfSeq DEF Blocks

\* The initial state satisfies the invariant.
LEMMA InitIInv == Init => IInv
<1> SUFFICES ASSUME Init PROVE IInv
  OBVIOUS
<1>1. PICK own \in [Block -> Thread] : held = [t \in Thread |-> {b \in Block : own[b] = t}]
  BY DEF Init
<1>2. \A c \in CPU : content[c] = <<>> /\ mail[c] = <<>>
  BY DEF Init
<1>3. \A k \in Stack : On(k) = <<>> /\ Blocks(On(k)) = {} /\ Distinct(On(k))
  BY <1>2 DEF Stack, On, Blocks, Distinct
<1>4. \A t \in Thread : th[t] = Idle /\ Idle \in ThreadRec
  <2>1. <<>> \in Seq(Block)
    BY EmptySeq
  <2> QED
    BY <2>1, ConstAssumption DEF Init, Idle, Rec, ThreadRec, PC, Op, Ptr
<1>5. TypeOK
  BY <1>1, <1>4, ConstAssumption, SMTT(30) DEF Init, TypeOK, Ptr
<1>6. SingleOwner
  BY <1>1, <1>3 DEF SingleOwner
<1>7. NoBlockLost
  BY <1>1 DEF NoBlockLost
<1>8. ListShape /\ OnePerCpu
  BY <1>2 DEF Init, ListShape, OnePerCpu
<1>9. \A t \in Thread : ThreadInv(t)
  BY <1>4, ConstAssumption DEF ThreadInv, OnItsCpu, PushReady, PopReady, ByOp, Idle, Rec, Section
<1> QED
  BY <1>5, <1>6, <1>7, <1>8, <1>9 DEF IInv

-----------------------------------------------------------------------------
(* What a step of t leaves alone.                                          *)

\* The other threads keep their invariants: t writes only links of blocks it
\* holds, and only the head of the CPU it runs on.
LEMMA OthersFrame ==
    ASSUME IInv, NEW t \in Thread,
           \A b \in Block \ held[t] : next'[b] = next[b],
           \A c \in CPU : c # cpu[t] => head'[c] = head[c],
           \A u \in Thread : u # t => th'[u] = th[u] /\ held'[u] = held[u] /\ cpu'[u] = cpu[u]
    PROVE  \A u \in Thread : u # t => ThreadInv(u)'
<1> SUFFICES ASSUME NEW u \in Thread, u # t PROVE ThreadInv(u)'
  OBVIOUS
<1>1. /\ ThreadInv(u) /\ th[u] \in ThreadRec /\ cpu[u] \in CPU \cup {Off}
      /\ th'[u] = th[u] /\ held'[u] = held[u] /\ cpu'[u] = cpu[u]
      /\ held[u] \cap held[t] = {}
  BY DEF IInv, TypeOK, SingleOwner
<1>2. OnItsCpu(u)' /\ ByOp(u)'
  BY <1>1, Zenon DEF ThreadInv, OnItsCpu, ByOp
<1>3. th[u].pc \in Section => th[u].c \in CPU /\ head'[th[u].c] = head[th[u].c]
  <2>1. th[u].pc \in Section => th[u].c \in CPU /\ cpu[u] = th[u].c
    BY <1>1 DEF ThreadInv, OnItsCpu, ByOp, Section
  <2>2. cpu[u] = cpu[t] => cpu[u] = Off
    BY ZenonT(30) DEF IInv, OnePerCpu
  <2> QED
    BY <2>1, <2>2, ConstAssumption
<1>4. PushReady(u)'
  <2>1. SUFFICES ASSUME th[u].op \in {"push", "push_tailed"}, th[u].pc # "count"
                 PROVE  PushReady(u)'
    BY <1>1, Zenon DEF PushReady
  <2> DEFINE s == th[u].chain
  <2>2. /\ s \in Chains /\ Distinct(s) /\ Blocks(s) \subseteq held[u]
        /\ \A i \in 1..(Len(s) - 1) : next[s[i]] = s[i + 1]
        /\ th[u].pc \in {"link", "commit"} => th[u].tmp = head[th[u].c]
        /\ th[u].pc = "commit" => next[s[Len(s)]] = th[u].tmp
    BY <1>1, <2>1 DEF ThreadInv, PushReady
  <2>3. s \in Seq(Block) /\ Len(s) \in Nat \ {0}
    BY <2>2, ChainsAreSeqs
  <2>4. ASSUME NEW i \in 1..Len(s) PROVE next'[s[i]] = next[s[i]]
    <3>1. s[i] \in Block /\ s[i] \in Blocks(s)
      BY <2>3, ElementOfSeq DEF Blocks
    <3> QED
      BY <1>1, <2>2, <3>1
  <2>5. next'[s[Len(s)]] = next[s[Len(s)]]
    BY <2>3, <2>4
  <2>6. \A i \in 1..(Len(s) - 1) : next'[s[i]] = s[i + 1]
    BY <2>2, <2>3, <2>4
  <2>7. th[u].pc \in {"link", "commit"} => head'[th[u].c] = head[th[u].c]
    BY <1>3 DEF Section
  <2> QED
    BY <1>1, <2>2, <2>5, <2>6, <2>7, SMTT(30) DEF PushReady
<1>5. PopReady(u)'
  <2>1. SUFFICES ASSUME th[u].op = "pop", th[u].pc \in {"fetch", "commit"}
                 PROVE  PopReady(u)'
    BY <1>1, Zenon DEF PopReady
  <2>2. /\ th[u].tmp = head[th[u].c] /\ th[u].tmp # NULL /\ th[u].c \in CPU
        /\ head'[th[u].c] = head[th[u].c]
        /\ th[u].pc = "commit" => th[u].nxt = next[th[u].tmp]
    BY <1>1, <1>3, <2>1, Zenon DEF ThreadInv, PopReady, Section
  <2>3. next'[th[u].tmp] = next[th[u].tmp]
    <3> DEFINE c == th[u].c
               s == content[c]
    <3>1. s \in Seq(Block) /\ s # <<>> /\ th[u].tmp = s[1]
      BY <2>2 DEF IInv, TypeOK, ListShape
    <3>2. Len(s) \in Nat /\ 1 \in 1..Len(s)
      BY <3>1, EmptySeq
    <3>3. s[1] \in Block /\ s[1] \in Blocks(s)
      BY <3>1, <3>2, ElementOfSeq DEF Blocks
    <3>4. <<"rseq", c>> \in Stack /\ On(<<"rseq", c>>) = s
      BY <2>2 DEF Stack, On
    <3>5. held[t] \cap Blocks(s) = {}
      BY <3>4 DEF IInv, SingleOwner
    <3> QED
      BY <3>1, <3>3, <3>5
  <2> QED
    BY <1>1, <2>2, <2>3, SMTT(30) DEF PopReady
<1> QED
  BY <1>2, <1>4, <1>5 DEF ThreadInv

\* The lists keep their shape when only links of blocks that t holds change.
LEMMA ShapeFrame ==
    ASSUME IInv, NEW t \in Thread, \A b \in Block \ held[t] : next'[b] = next[b],
           NEW c \in CPU, head'[c] = head[c], content'[c] = content[c]
    PROVE  LET s == content'[c]
           IN  /\ head'[c] = IF s = <<>> THEN NULL ELSE s[1]
               /\ \A i \in 1..Len(s) : next'[s[i]] = IF i = Len(s) THEN NULL ELSE s[i + 1]
<1> DEFINE s == content[c]
<1>1. <<"rseq", c>> \in Stack /\ On(<<"rseq", c>>) = s
  BY DEF Stack, On
<1>2. held[t] \cap Blocks(s) = {} /\ s \in Seq(Block)
  BY <1>1 DEF IInv, SingleOwner, TypeOK
<1>3. ASSUME NEW i \in 1..Len(s) PROVE next'[s[i]] = next[s[i]]
  <2>1. s[i] \in Block /\ s[i] \in Blocks(s)
    BY <1>2, ElementOfSeq DEF Blocks
  <2> QED
    BY <1>2, <2>1
<1>4. /\ head[c] = IF s = <<>> THEN NULL ELSE s[1]
      /\ \A i \in 1..Len(s) : next[s[i]] = IF i = Len(s) THEN NULL ELSE s[i + 1]
  BY DEF IInv, ListShape
<1> QED
  BY <1>3, <1>4

-----------------------------------------------------------------------------
(* Moves of blocks between a thread and a stack.                           *)

\* t puts the chain s, which it holds, on top of stack k.
Puts(t, k, s) ==
    /\ On(k)' = s \o On(k)
    /\ \A m \in Stack : m # k => On(m)' = On(m)
    /\ held' = [held EXCEPT ![t] = @ \ Blocks(s)]

\* t takes the chain s off the top of stack k.
Takes(t, k, s) ==
    /\ OnTop(s, On(k)) /\ On(k)' = Below(s, On(k))
    /\ \A m \in Stack : m # k => On(m)' = On(m)
    /\ held' = [held EXCEPT ![t] = @ \cup Blocks(s)]

\* Stacks hold sequences of blocks.
LEMMA OnType ==
    ASSUME TypeOK, NEW k \in Stack
    PROVE  On(k) \in Seq(Block)
BY DEF TypeOK, On, Stack

\* A put leaves every block with one owner.
LEMMA PutsOwner ==
    ASSUME IInv, NEW t \in Thread, NEW k \in Stack, NEW s \in Seq(Block),
           Distinct(s), Blocks(s) \subseteq held[t], Puts(t, k, s)
    PROVE  SingleOwner' /\ NoBlockLost'
<1> DEFINE B(m) == Blocks(On(m))
           B1(m) == Blocks(On(m)')
<1>1. /\ held'[t] = held[t] \ Blocks(s)
      /\ \A u \in Thread : u # t => held'[u] = held[u]
  BY DEF Puts, IInv, TypeOK
<1>2. /\ \A u, v \in Thread : u # v => held[u] \cap held[v] = {}
      /\ \A u \in Thread, m \in Stack : held[u] \cap B(m) = {}
      /\ \A l, m \in Stack : l # m => B(l) \cap B(m) = {}
      /\ \A m \in Stack : Distinct(On(m))
  BY DEF IInv, SingleOwner
<1>3. B1(k) = Blocks(s) \cup B(k) /\ Distinct(On(k)')
  <2>1. On(k) \in Seq(Block)
    BY OnType DEF IInv
  <2>2. Distinct(On(k)) /\ Blocks(s) \cap B(k) = {}
    BY <1>2
  <2>3. Blocks(s \o On(k)) = Blocks(s) \cup B(k) /\ Distinct(s \o On(k))
    BY <2>1, <2>2, StackPush
  <2> QED
    BY <2>3 DEF Puts
<1>4. \A m \in Stack : m # k => B1(m) = B(m) /\ On(m)' = On(m)
  BY DEF Puts
<1>5. \A b \in Block : (\E u \in Thread : b \in held[u]) \/ (\E m \in Stack : b \in B(m))
  BY DEF IInv, NoBlockLost
<1> HIDE DEF B, B1
<1>6. \A u, v \in Thread : u # v => held'[u] \cap held'[v] = {}
  BY <1>1, <1>2
<1>7. ASSUME NEW u \in Thread, NEW m \in Stack PROVE held'[u] \cap B1(m) = {}
  <2>1. held'[u] \cap Blocks(s) = {} /\ held'[u] \subseteq held[u]
    BY <1>1, <1>2
  <2> QED
    BY <1>2, <1>3, <1>4, <2>1
<1>8. ASSUME NEW l \in Stack, NEW m \in Stack, l # m PROVE B1(l) \cap B1(m) = {}
  <2>1. \A n \in Stack : Blocks(s) \cap B(n) = {}
    BY <1>2
  <2> QED
    BY <1>2, <1>3, <1>4, <1>8, <2>1
<1>9. ASSUME NEW m \in Stack PROVE Distinct(On(m)')
  <2>1. CASE m = k
    BY <1>3, <2>1
  <2>2. CASE m # k
    BY <1>2, <1>4, <2>2
  <2> QED
    BY <2>1, <2>2
<1>10. \A b \in Block : (\E u \in Thread : b \in held'[u]) \/ (\E m \in Stack : b \in B1(m))
  <2> SUFFICES ASSUME NEW b \in Block, \A m \in Stack : b \notin B1(m)
               PROVE  \E u \in Thread : b \in held'[u]
    OBVIOUS
  <2>1. b \notin Blocks(s) /\ \A m \in Stack : b \notin B(m)
    BY <1>3, <1>4
  <2> QED
    BY <1>1, <1>5, <2>1
<1> QED
  BY <1>6, <1>7, <1>8, <1>9, <1>10, Zenon DEF SingleOwner, NoBlockLost, B1, Stack, Distinct, Blocks

\* So does a take.
LEMMA TakesOwner ==
    ASSUME IInv, NEW t \in Thread, NEW k \in Stack, NEW s \in Seq(Block), Takes(t, k, s)
    PROVE  SingleOwner' /\ NoBlockLost'
<1> DEFINE B(m) == Blocks(On(m))
           B1(m) == Blocks(On(m)')
<1>1. /\ held'[t] = held[t] \cup Blocks(s)
      /\ \A u \in Thread : u # t => held'[u] = held[u]
  BY DEF Takes, IInv, TypeOK
<1>2. /\ \A u, v \in Thread : u # v => held[u] \cap held[v] = {}
      /\ \A u \in Thread, m \in Stack : held[u] \cap B(m) = {}
      /\ \A l, m \in Stack : l # m => B(l) \cap B(m) = {}
      /\ \A m \in Stack : Distinct(On(m))
  BY DEF IInv, SingleOwner
<1>3. B(k) = Blocks(s) \cup B1(k) /\ Distinct(On(k)') /\ Blocks(s) \cap B1(k) = {}
  <2>1. On(k) \in Seq(Block) /\ OnTop(s, On(k)) /\ On(k)' = Below(s, On(k)) /\ Distinct(On(k))
    BY <1>2, OnType DEF IInv, Takes
  <2> QED
    BY <2>1, StackTake
<1>4. \A m \in Stack : m # k => B1(m) = B(m) /\ On(m)' = On(m)
  BY DEF Takes
<1>5. \A b \in Block : (\E u \in Thread : b \in held[u]) \/ (\E m \in Stack : b \in B(m))
  BY DEF IInv, NoBlockLost
<1> HIDE DEF B, B1
<1>6. \A u, v \in Thread : u # v => held'[u] \cap held'[v] = {}
  BY <1>1, <1>2, <1>3
<1>7. ASSUME NEW u \in Thread, NEW m \in Stack PROVE held'[u] \cap B1(m) = {}
  <2>1. CASE m = k
    BY <1>1, <1>2, <1>3, <2>1
  <2>2. CASE m # k
    <3>1. B1(m) = B(m) /\ held[u] \cap B(m) = {} /\ Blocks(s) \cap B(m) = {}
      BY <1>2, <1>3, <1>4, <2>2
    <3> QED
      BY <1>1, <3>1
  <2> QED
    BY <2>1, <2>2, Zenon
<1>8. \A l, m \in Stack : l # m => B1(l) \cap B1(m) = {}
  BY <1>2, <1>3, <1>4
<1>9. ASSUME NEW m \in Stack PROVE Distinct(On(m)')
  <2>1. CASE m = k
    BY <1>3, <2>1
  <2>2. CASE m # k
    BY <1>2, <1>4, <2>2
  <2> QED
    BY <2>1, <2>2
<1>10. \A b \in Block : (\E u \in Thread : b \in held'[u]) \/ (\E m \in Stack : b \in B1(m))
  BY <1>1, <1>3, <1>4, <1>5
<1> QED
  BY <1>6, <1>7, <1>8, <1>9, <1>10, Zenon DEF SingleOwner, NoBlockLost, B1, Stack, Distinct, Blocks

-----------------------------------------------------------------------------
(* Steps that move no block.                                               *)

\* A step of t, as far as its record is concerned.
LEMMA StepOthers ==
    ASSUME TypeOK, NEW t \in Thread, NEW r, Step(t, r)
    PROVE  /\ th'[t] = r /\ \A u \in Thread : u # t => th'[u] = th[u]
           /\ r \in ThreadRec => th' \in [Thread -> ThreadRec]
BY Zenon DEF TypeOK, Step

\* The idle record has its type, and asks nothing of the state.
LEMMA IdleInv ==
    ASSUME NEW t \in Thread
    PROVE  Idle \in ThreadRec /\ (th'[t] = Idle => ThreadInv(t)')
<1>1. <<>> \in Seq(Block)
  BY EmptySeq
<1> QED
  BY <1>1, ConstAssumption
  DEF Idle, Rec, ThreadRec, PC, Op, Ptr, ThreadInv, OnItsCpu, PushReady, PopReady, ByOp, Section

\* A step of t that moves no block, writes no list and only links of its own
\* blocks preserves IInv if it does so for t itself.
LEMMA QuietInv ==
    ASSUME IInv, TypeOK', OnePerCpu', NEW t \in Thread, ThreadInv(t)',
           UNCHANGED <<head, mail, held, content>>,
           \A b \in Block \ held[t] : next'[b] = next[b],
           \A u \in Thread : u # t => th'[u] = th[u] /\ cpu'[u] = cpu[u]
    PROVE  IInv'
<1>1. SingleOwner' /\ NoBlockLost'
  BY DEF IInv, SingleOwner, NoBlockLost, On
<1>2. ListShape'
  BY ShapeFrame DEF ListShape
<1>3. \A u \in Thread : u # t => ThreadInv(u)'
  BY OthersFrame
<1> QED
  BY <1>1, <1>2, <1>3, Zenon DEF IInv

\* A step of t that changes nothing but its record.
LEMMA LocalInv ==
    ASSUME IInv, NEW t \in Thread, NEW r \in ThreadRec, Step(t, r), ThreadInv(t)',
           UNCHANGED <<cpu, head, next, usage, mail, held, content>>
    PROVE  IInv'
<1>1. TypeOK' /\ OnePerCpu'
  BY StepOthers, Zenon DEF IInv, TypeOK, OnePerCpu
<1>2. \A u \in Thread : u # t => th'[u] = th[u] /\ cpu'[u] = cpu[u]
  BY StepOthers DEF IInv
<1> QED
  BY <1>1, <1>2, QuietInv

\* PopStart, ReadCpu, Gate and Enter: up to the first compare of the sequence.
LEMMA EntryInv ==
    ASSUME IInv, NEW t \in Thread, PopStart(t) \/ ReadCpu(t) \/ Gate(t) \/ Enter(t)
    PROVE  IInv'
<1>1. th[t] \in ThreadRec /\ ThreadInv(t) /\ cpu[t] \in CPU \cup {Off}
  BY DEF IInv, TypeOK
<1>2. CASE PopStart(t)
  <2> DEFINE r == Rec("cpu", "pop", Off, <<>>, 0)
  <2>1. r \in ThreadRec
    BY EmptySeq, ConstAssumption DEF Rec, ThreadRec, PC, Op, Ptr
  <2>2. th'[t] = r
    BY <1>2, StepOthers, Zenon DEF PopStart, IInv
  <2>3. ThreadInv(t)'
    BY <2>2, ConstAssumption DEF Rec, ThreadInv, OnItsCpu, PushReady, PopReady, ByOp, Section
  <2> QED
    BY <1>2, <2>1, <2>3, LocalInv DEF PopStart
<1>3. CASE ReadCpu(t)
  <2> DEFINE r == [th[t] EXCEPT !.pc = IF th[t].op = "pop" THEN "enter" ELSE "gate", !.c = cpu[t]]
  <2>1. r \in ThreadRec
    BY <1>1, <1>3, Zenon DEF ReadCpu, At, ThreadRec, PC
  <2>2. th'[t] = r /\ UNCHANGED <<next, held>>
    BY <1>3, StepOthers DEF ReadCpu, IInv
  <2>3. ThreadInv(t)'
    BY <1>1, <1>3, <2>2
    DEF ReadCpu, At, ThreadRec, ThreadInv, OnItsCpu, PushReady, PopReady, ByOp, Section
  <2> QED
    BY <1>3, <2>1, <2>3, LocalInv DEF ReadCpu
<1>4. CASE Gate(t)
  <2> DEFINE r == [th[t] EXCEPT !.pc = IF usage[th[t].c] >= High THEN "spill" ELSE "enter"]
  <2>1. r \in ThreadRec
    BY <1>1, <1>4 DEF Gate, At, ThreadRec, PC
  <2>2. th'[t] = r /\ UNCHANGED <<next, held>>
    BY <1>4, StepOthers, Zenon DEF Gate, Goto, IInv
  <2>3. ThreadInv(t)'
    BY <1>1, <1>4, <2>2
    DEF Gate, At, ThreadRec, ThreadInv, OnItsCpu, PushReady, PopReady, ByOp, Section
  <2> QED
    BY <1>4, <2>1, <2>3, LocalInv, Zenon DEF Gate, Goto
<1>5. CASE Enter(t)
  <2> DEFINE r == [th[t] EXCEPT !.pc = IF cpu[t] = th[t].c THEN "load" ELSE "aborted"]
  <2>1. r \in ThreadRec
    BY <1>1, <1>5, Zenon DEF Enter, At, ThreadRec, PC, Section
  <2>2. th'[t] = r /\ UNCHANGED <<next, held, cpu>>
    BY <1>5, StepOthers DEF Enter, Goto, IInv
  <2>3. ThreadInv(t)'
    BY <1>1, <1>5, <2>2
    DEF Enter, At, ThreadRec, ThreadInv, OnItsCpu, PushReady, PopReady, ByOp, Section
  <2> QED
    BY <1>5, <2>1, <2>3, LocalInv DEF Enter, Goto
<1> QED
  BY <1>2, <1>3, <1>4, <1>5

\* Aborted, and MailPop that finds nothing: the blocks are spilled, or the CPU
\* is read again.
LEMMA RetryInv ==
    ASSUME IInv, NEW t \in Thread, Aborted(t) \/ (MailPop(t) /\ mail[th[t].c] = <<>>)
    PROVE  IInv'
<1>1. th[t] \in ThreadRec /\ ThreadInv(t) /\ th[t].tries \in 0..(MaxTries + 1)
  BY DEF IInv, TypeOK, ThreadRec
<1>2. /\ th[t].pc \in {"aborted", "mail_pop"}
      /\ UNCHANGED <<cpu, head, next, usage, mail, held, content>>
  BY DEF Aborted, MailPop, At
<1>3. PICK r : /\ Step(t, r)
               /\ \/ th[t].pc = "aborted" /\ th[t].op # "pop" /\ r = [th[t] EXCEPT !.pc = "spill"]
                  \/ /\ th[t].pc = "aborted" /\ th[t].op = "pop"
                     /\ r = [th[t] EXCEPT !.pc = "mail_pop"]
                  \/ \E k \in 0..(MaxTries + 1) :
                        /\ th[t].op = "pop" => k <= MaxTries
                        /\ r = Retry(t, k)
  <2>1. CASE Aborted(t)
    <3>1. CASE th[t].op = "push_tailed"
      BY <2>1, <3>1 DEF Aborted, At, Goto
    <3>2. CASE th[t].op = "push"
      <4>1. CASE th[t].tries > MaxTries
        BY <2>1, <3>2, <4>1 DEF Aborted, At
      <4>2. CASE ~(th[t].tries > MaxTries)
        <5>1. th[t].tries + 1 \in 0..(MaxTries + 1)
          BY <1>1, <4>2, ConstAssumption
        <5> QED
          BY <2>1, <3>2, <4>2, <5>1 DEF Aborted, At
      <4> QED
        BY <4>1, <4>2
    <3>3. CASE th[t].op = "pop"
      <4>1. CASE th[t].tries = MaxTries
        BY <2>1, <3>3, <4>1 DEF Aborted, At
      <4>2. CASE th[t].tries # MaxTries
        <5>1. th[t].tries + 1 \in 0..(MaxTries + 1) /\ th[t].tries + 1 <= MaxTries
          BY <1>1, <3>3, <4>2, ConstAssumption DEF ThreadInv, ByOp
        <5> QED
          BY <2>1, <3>3, <4>2, <5>1, Zenon DEF Aborted, At
      <4> QED
        BY <4>1, <4>2
    <3> QED
      BY <2>1, <3>1, <3>2, <3>3 DEF Aborted
  <2>2. CASE MailPop(t) /\ mail[th[t].c] = <<>>
    <3>1. 1 \in 0..(MaxTries + 1) /\ 1 <= MaxTries
      BY ConstAssumption
    <3> QED
      BY <2>2, <3>1 DEF MailPop
  <2> QED
    BY <2>1, <2>2, Zenon
<1>4. r \in ThreadRec /\ th'[t] = r
  <2>1. r \in ThreadRec
    BY <1>1, <1>3, ZenonT(30) DEF Retry, ThreadRec, PC, Section
  <2> QED
    BY <1>3, <2>1, StepOthers DEF IInv
<1>5. /\ r.op = th[t].op /\ r.chain = th[t].chain /\ r.pc \in {"spill", "mail_pop", "cpu"}
      /\ r.pc = "spill" => th[t].op # "pop" /\ r.c = th[t].c
      /\ r.pc = "mail_pop" => th[t].op = "pop" /\ r.c = th[t].c
      /\ th[t].op = "pop" => r.tries <= MaxTries
  BY <1>1, <1>2, <1>3, Zenon DEF Retry, ThreadRec, ThreadInv, ByOp
<1>6. ThreadInv(t)'
  <2>1. OnItsCpu(t)' /\ PopReady(t)'
    BY <1>4, <1>5 DEF OnItsCpu, PopReady, Section
  <2>2. ByOp(t)'
    BY <1>1, <1>2, <1>4, <1>5, Zenon DEF ThreadInv, ByOp
  <2>3. PushReady(t)'
    BY <1>1, <1>2, <1>4, <1>5, Zenon DEF ThreadInv, PushReady
  <2> QED
    BY <2>1, <2>2, <2>3 DEF ThreadInv
<1> QED
  BY <1>2, <1>3, <1>4, <1>6, LocalInv, ZenonT(30)

\* Load and Fetch: the reads of the sequence.
LEMMA ReadInv ==
    ASSUME IInv, NEW t \in Thread, Load(t) \/ Fetch(t)
    PROVE  IInv'
<1>1. /\ th[t] \in ThreadRec /\ ThreadInv(t) /\ th[t].pc \in {"load", "fetch"}
      /\ th[t].c \in CPU /\ head[th[t].c] \in Ptr
      /\ UNCHANGED <<cpu, head, next, usage, mail, held, content>>
  BY DEF Load, Fetch, At, IInv, TypeOK, ThreadInv, ByOp
<1>2. CASE Load(t) /\ th[t].op = "pop" /\ head[th[t].c] = NULL
  <2>1. Step(t, Idle)
    BY <1>2 DEF Load
  <2> QED
    BY <1>1, <2>1, IdleInv, LocalInv, StepOthers DEF IInv
<1>3. CASE Load(t) /\ ~(th[t].op = "pop" /\ head[th[t].c] = NULL)
  <2> DEFINE r == [th[t] EXCEPT !.pc = IF th[t].op # "pop" THEN "link" ELSE "fetch",
                                !.tmp = head[th[t].c]]
  <2>1. r \in ThreadRec
    BY <1>1, Zenon DEF ThreadRec, PC, Section
  <2>2. Step(t, r) /\ th[t].pc = "load"
    BY <1>3, Zenon DEF Load, At
  <2>3. th'[t] = r
    BY <2>2, StepOthers, ZenonT(30) DEF IInv
  <2>4. ThreadInv(t)'
    BY <1>1, <1>3, <2>2, <2>3
    DEF ThreadRec, ThreadInv, OnItsCpu, PushReady, PopReady, ByOp, Section
  <2> QED
    BY <1>1, <2>1, <2>2, <2>4, LocalInv
<1>4. CASE Fetch(t)
  <2> DEFINE r == [th[t] EXCEPT !.pc = "commit", !.nxt = next[th[t].tmp]]
  <2>1. th[t].pc = "fetch" /\ th[t].op = "pop" /\ th[t].tmp = head[th[t].c] /\ th[t].tmp # NULL
    BY <1>1, <1>4 DEF Fetch, At, ThreadInv, ByOp, PopReady
  <2>2. r \in ThreadRec
    <3>1. next[th[t].tmp] \in Ptr
      BY <1>1, <2>1 DEF IInv, TypeOK, Ptr, ThreadRec
    <3> QED
      BY <1>1, <3>1, ZenonT(30) DEF ThreadRec, PC, Section
  <2>3. Step(t, r) /\ th'[t] = r
    BY <1>4, StepOthers, Zenon DEF Fetch, IInv
  <2>4. ThreadInv(t)'
    BY <1>1, <2>1, <2>3
    DEF ThreadRec, ThreadInv, OnItsCpu, PushReady, PopReady, ByOp, Section
  <2> QED
    BY <1>1, <2>2, <2>3, <2>4, LocalInv
<1> QED
  BY <1>2, <1>3, <1>4

\* Link: the tail of the chain is linked to the head that was loaded.
LEMMA LinkInv ==
    ASSUME IInv, NEW t \in Thread, Link(t)
    PROVE  IInv'
<1> DEFINE s == th[t].chain
           r == [th[t] EXCEPT !.pc = "commit"]
<1>1. /\ th[t] \in ThreadRec /\ ThreadInv(t) /\ th[t].pc = "link"
      /\ th[t].op \in {"push", "push_tailed"}
      /\ next' = [next EXCEPT ![s[Len(s)]] = th[t].tmp]
      /\ UNCHANGED <<cpu, head, usage, mail, held, content>>
  BY Zenon DEF Link, At, IInv, TypeOK, ThreadRec, Op, ThreadInv, ByOp
<1>2. /\ s \in Chains /\ Distinct(s) /\ Blocks(s) \subseteq held[t]
      /\ \A i \in 1..(Len(s) - 1) : next[s[i]] = s[i + 1]
      /\ th[t].tmp = head[th[t].c] /\ th[t].c \in CPU
  BY <1>1, Zenon DEF ThreadInv, PushReady, ByOp
<1>3. s \in Seq(Block) /\ Len(s) \in Nat \ {0} /\ s[Len(s)] \in Block /\ s[Len(s)] \in held[t]
  BY <1>2, ChainsAreSeqs, ChainEnds
<1>4. r \in ThreadRec /\ th'[t] = r /\ \A u \in Thread : u # t => th'[u] = th[u] /\ cpu'[u] = cpu[u]
  <2>1. r \in ThreadRec
    BY <1>1 DEF ThreadRec, PC, Section
  <2> QED
    BY <1>1, <2>1, StepOthers DEF Link, Goto, IInv
<1>5. TypeOK' /\ OnePerCpu'
  <2>1. th[t].tmp \in Ptr /\ th' \in [Thread -> ThreadRec]
    BY <1>1, <1>4, StepOthers, Zenon DEF ThreadRec, Link, Goto, IInv
  <2> QED
    BY <1>1, <2>1, Zenon DEF IInv, TypeOK, OnePerCpu
<1>6. /\ \A b \in Block \ held[t] : next'[b] = next[b]
      /\ next'[s[Len(s)]] = th[t].tmp
  BY <1>1, <1>3, ZenonT(30) DEF IInv, TypeOK
<1>7. ASSUME NEW i \in 1..(Len(s) - 1) PROVE next'[s[i]] = s[i + 1]
  <2>1. i \in 1..Len(s) /\ Len(s) \in 1..Len(s) /\ i # Len(s)
    BY <1>3
  <2>2. s[i] # s[Len(s)] /\ s[i] \in Block
    BY <1>2, <1>3, <2>1, ElementOfSeq DEF Distinct
  <2> QED
    BY <1>1, <1>2, <2>2 DEF IInv, TypeOK
<1>8. ThreadInv(t)'
  <2>1. OnItsCpu(t)' /\ PopReady(t)' /\ ByOp(t)'
    BY <1>1, <1>4 DEF ThreadRec, ThreadInv, OnItsCpu, PopReady, ByOp, Section
  <2>2. th'[t].chain = s /\ th'[t].tmp = th[t].tmp /\ th'[t].c = th[t].c /\ held' = held /\ head' = head
    BY <1>1, <1>4, Zenon DEF ThreadRec
  <2>3. PushReady(t)'
    BY <1>2, <1>6, <1>7, <2>2, ZenonT(30) DEF PushReady
  <2> QED
    BY <2>1, <2>3 DEF ThreadInv
<1> HIDE DEF s, r
<1> QED
  BY <1>1, <1>4, <1>5, <1>6, <1>8, QuietInv, Zenon

\* PushStart: the links inside the chain are in place when it is pushed.
LEMMA PushStartInv ==
    ASSUME IInv, NEW t \in Thread, NEW op \in {"push", "push_tailed"}, NEW s \in Chains,
           PushStart(t, op, s)
    PROVE  IInv'
<1> DEFINE r == Rec("cpu", op, Off, s, 0)
           L(b) == CHOOSE i \in 1..(Len(s) - 1) : s[i] = b
<1>1. s \in Seq(Block) /\ Len(s) \in Nat \ {0}
  BY ChainsAreSeqs
<1>2. /\ Distinct(s) /\ Blocks(s) \subseteq held[t] /\ next' = Linked(s) /\ Step(t, r)
      /\ UNCHANGED <<cpu, head, usage, mail, held, content>>
  BY Zenon DEF PushStart
<1>3. r \in ThreadRec
  BY <1>1, ConstAssumption DEF Rec, ThreadRec, PC, Op, Ptr
<1>4. /\ th'[t] = r /\ th' \in [Thread -> ThreadRec]
      /\ \A u \in Thread : u # t => th'[u] = th[u] /\ cpu'[u] = cpu[u]
  BY <1>2, <1>3, StepOthers DEF IInv
<1>5. ASSUME NEW i \in 1..(Len(s) - 1)
      PROVE  /\ L(s[i]) = i /\ next'[s[i]] = s[i + 1] /\ s[i + 1] \in Block /\ s[i] \in held[t]
             /\ s[i] \in Block
  <2>1. i \in 1..Len(s) /\ i + 1 \in 1..Len(s)
    BY <1>1
  <2>2. s[i] \in Block /\ s[i + 1] \in Block /\ s[i] \in held[t]
    BY <1>1, <1>2, <2>1, ElementOfSeq DEF Blocks
  <2>3. L(s[i]) \in 1..(Len(s) - 1) /\ s[L(s[i])] = s[i]
    OBVIOUS
  <2>4. L(s[i]) = i
    <3>1. L(s[i]) \in 1..Len(s)
      BY <1>1, <2>3
    <3> HIDE DEF L
    <3> QED
      BY <1>2, <2>1, <2>3, <3>1 DEF Distinct
  <2>5. next'[s[i]] = s[L(s[i]) + 1]
    BY <1>2, <2>2, ZenonT(30) DEF Linked
  <2> QED
    BY <2>2, <2>4, <2>5, Zenon
<1>6. ASSUME NEW b \in Block, ~\E i \in 1..(Len(s) - 1) : s[i] = b PROVE next'[b] = next[b]
  BY <1>2, <1>6, Zenon DEF Linked
<1>7. \A b \in Block \ held[t] : next'[b] = next[b]
  BY <1>5, <1>6
<1>8. TypeOK' /\ OnePerCpu'
  <2>1. DOMAIN next' = Block /\ next' = [b \in Block |-> next'[b]]
    BY <1>2 DEF Linked
  <2>2. \A b \in Block : next'[b] \in Ptr
    BY <1>5, <1>6, ZenonT(30) DEF IInv, TypeOK, Ptr
  <2>3. next' \in [Block -> Ptr]
    BY <2>1, <2>2
  <2> QED
    BY <1>2, <1>4, <2>3, Zenon DEF IInv, TypeOK, OnePerCpu
<1>9. ThreadInv(t)'
  <2>1. OnItsCpu(t)' /\ PopReady(t)' /\ ByOp(t)'
    BY <1>4, ConstAssumption DEF Rec, OnItsCpu, PopReady, ByOp, Section
  <2>2. th'[t].chain = s /\ th'[t].pc = "cpu" /\ held' = held
    BY <1>2, <1>4 DEF Rec
  <2>3. PushReady(t)'
    BY <1>2, <1>5, <2>2, Zenon DEF PushReady
  <2> QED
    BY <2>1, <2>3, Zenon DEF ThreadInv
<1> QED
  BY <1>2, <1>4, <1>7, <1>8, <1>9, QuietInv

\* Count: the usage counter is no part of the lists.
LEMMA CountInv ==
    ASSUME IInv, NEW t \in Thread, Count(t)
    PROVE  IInv'
<1>1. /\ th'[t] = Idle /\ th' \in [Thread -> ThreadRec] /\ ThreadInv(t)'
      /\ \A u \in Thread : u # t => th'[u] = th[u] /\ cpu'[u] = cpu[u]
  BY StepOthers, IdleInv DEF Count, IInv
<1>2. usage' \in [CPU -> 0..(UsageMod - 1)]
  <2>1. th[t] \in ThreadRec /\ th[t].pc = "count" /\ ThreadInv(t)
    BY Zenon DEF Count, At, IInv, TypeOK
  <2>2. th[t].c \in CPU /\ th[t].chain \in Seq(Block)
    BY <2>1, Zenon DEF ThreadRec, ThreadInv, ByOp
  <2>3. usage \in [CPU -> 0..(UsageMod - 1)] /\ usage[th[t].c] \in Nat /\ Len(th[t].chain) \in Nat
    BY <2>2, ConstAssumption DEF IInv, TypeOK
  <2> DEFINE m == IF th[t].op = "pop" THEN usage[th[t].c] + UsageMod - 1
                  ELSE usage[th[t].c] + Len(th[t].chain)
  <2>4. m \in Nat
    BY <2>3, ConstAssumption
  <2>5. usage' = [usage EXCEPT ![th[t].c] = m % UsageMod]
    BY DEF Count
  <2> HIDE DEF m
  <2>6. m % UsageMod \in 0..(UsageMod - 1)
    BY <2>4, ConstAssumption
  <2> QED
    BY <2>2, <2>3, <2>5, <2>6, Zenon
<1>3. TypeOK' /\ OnePerCpu'
  BY <1>1, <1>2, Zenon DEF Count, IInv, TypeOK, OnePerCpu
<1> QED
  BY <1>1, <1>3, QuietInv, Zenon DEF Count

\* Preempt and Resume: a thread inside its sequence is thrown out of it, and
\* never comes back to a CPU that is taken.
LEMMA KernelInv ==
    ASSUME IInv, NEW t \in Thread, Preempt(t) \/ \E c \in CPU : Resume(t, c)
    PROVE  IInv'
<1>1. /\ th[t] \in ThreadRec /\ ThreadInv(t) /\ cpu \in [Thread -> CPU \cup {Off}]
      /\ UNCHANGED <<head, next, usage, mail, held, content>>
  BY DEF Preempt, Resume, IInv, TypeOK
<1>2. PICK p \in CPU \cup {Off} :
         /\ cpu' = [cpu EXCEPT ![t] = p]
         /\ p # Off => cpu[t] = Off /\ UNCHANGED th /\ \A u \in Thread : cpu[u] # p
         /\ p = Off => cpu[t] # Off /\ Preempt(t)
  BY ConstAssumption DEF Preempt, Resume
<1>3. OnePerCpu'
  BY <1>1, <1>2, Zenon DEF IInv, OnePerCpu
<1>4. CASE UNCHANGED th
  <2>1. th[t].pc \notin Section
    <3>1. CASE p = Off
      <4>1. th[t].pc \in Section => Leave(t, "aborted")
        BY <1>2, <3>1 DEF Preempt
      <4>2. Leave(t, "aborted") => th'[t].pc = "aborted"
        BY <1>1 DEF Leave, Step, IInv, TypeOK, ThreadRec
      <4> QED
        BY <1>4, <4>1, <4>2, ZenonT(30) DEF Section
    <3>2. CASE p # Off
      <4>1. cpu[t] = Off
        BY <1>2, <3>2
      <4>2. th[t].pc \in Section => cpu[t] = th[t].c
        BY <1>1, Zenon DEF ThreadInv, OnItsCpu
      <4>3. th[t].pc \in Section => th[t].c \in CPU
        BY <1>1 DEF ThreadInv, ByOp, Section
      <4> QED
        BY <4>1, <4>2, <4>3, ConstAssumption
    <3> QED
      BY <3>1, <3>2, Zenon
  <2>2. ThreadInv(t)'
    <3>1. OnItsCpu(t)'
      BY <1>4, <2>1, Zenon DEF OnItsCpu
    <3> QED
      BY <1>1, <1>4, <3>1, Zenon DEF ThreadInv, PushReady, PopReady, ByOp
  <2>3. TypeOK'
    BY <1>1, <1>2, <1>4, Zenon DEF IInv, TypeOK
  <2>4. \A u \in Thread : u # t => th'[u] = th[u] /\ cpu'[u] = cpu[u]
    BY <1>1, <1>2, <1>4
  <2> QED
    BY <1>1, <1>3, <2>2, <2>3, <2>4, QuietInv, Zenon
<1>5. CASE th[t].pc \in Section \cup {"enter"} /\ Leave(t, "aborted")
  <2> DEFINE r == [th[t] EXCEPT !.pc = "aborted", !.tmp = NULL, !.nxt = NULL]
  <2>1. r \in ThreadRec
    BY <1>1, Zenon DEF ThreadRec, PC, Ptr
  <2>2. /\ th'[t] = r /\ th' \in [Thread -> ThreadRec]
        /\ \A u \in Thread : u # t => th'[u] = th[u] /\ cpu'[u] = cpu[u]
    BY <1>1, <1>2, <1>5, <2>1, StepOthers, ZenonT(30) DEF Leave, IInv
  <2>3. ThreadInv(t)'
    BY <1>1, <1>5, <2>2
    DEF ThreadRec, ThreadInv, OnItsCpu, PushReady, PopReady, ByOp, Section
  <2>4. TypeOK'
    BY <1>1, <1>2, <2>2, Zenon DEF IInv, TypeOK
  <2> QED
    BY <1>1, <1>3, <2>2, <2>3, <2>4, QuietInv
<1> QED
  BY <1>2, <1>4, <1>5, Zenon DEF Preempt

-----------------------------------------------------------------------------
(* Steps that move blocks.                                                 *)

\* Spill puts its chain on a transfer list.
LEMMA SpillPuts ==
    ASSUME IInv, NEW t \in Thread, Spill(t), NEW c, c = th[t].c, NEW s, s = th[t].chain
    PROVE  /\ s \in Chains /\ Distinct(s) /\ Blocks(s) \subseteq held[t]
           /\ <<"mail", c>> \in Stack /\ Puts(t, <<"mail", c>>, s)
<1>1. /\ th[t] \in ThreadRec /\ ThreadInv(t) /\ th[t].pc = "spill" /\ c \in CPU
      /\ th[t].op \in {"push", "push_tailed"}
  BY Zenon DEF Spill, At, IInv, TypeOK, ThreadRec, Op, ThreadInv, ByOp
<1>2. s \in Chains /\ Distinct(s) /\ Blocks(s) \subseteq held[t]
  BY <1>1, Zenon DEF ThreadInv, PushReady
<1>3. Puts(t, <<"mail", c>>, s)
  <2>1. /\ mail' = [mail EXCEPT ![c] = s \o @] /\ content' = content
        /\ held' = [held EXCEPT ![t] = @ \ Blocks(s)]
        /\ mail \in [CPU -> Seq(Block)]
    BY DEF Spill, IInv, TypeOK
  <2>2. On(<<"mail", c>>)' = s \o On(<<"mail", c>>)
    BY <1>1, <2>1, Zenon DEF On
  <2>3. \A m \in Stack : m # <<"mail", c>> => On(m)' = On(m)
    BY <1>1, <2>1 DEF On, Stack
  <2> QED
    BY <2>1, <2>2, <2>3, Zenon DEF Puts
<1> QED
  BY <1>1, <1>2, <1>3, Zenon DEF Stack

\* t takes n blocks off the transfer list of c.
TakesMail(t, c, n) ==
    /\ n <= Len(mail[c])
    /\ mail' = [mail EXCEPT ![c] = SubSeq(@, n + 1, Len(@))]
    /\ held' = [held EXCEPT ![t] = @ \cup Blocks(SubSeq(mail[c], 1, n))]

\* Steal, and a MailPop that finds a block, take the top of a transfer list.
LEMMA MailTakes ==
    ASSUME IInv, NEW t \in Thread, NEW c \in CPU, NEW n \in Nat \ {0}, TakesMail(t, c, n),
           UNCHANGED content
    PROVE  /\ SubSeq(mail[c], 1, n) \in Seq(Block) /\ Len(SubSeq(mail[c], 1, n)) = n
           /\ <<"mail", c>> \in Stack /\ Takes(t, <<"mail", c>>, SubSeq(mail[c], 1, n))
<1> DEFINE s == SubSeq(mail[c], 1, n)
<1>1. /\ mail \in [CPU -> Seq(Block)] /\ mail[c] \in Seq(Block) /\ Len(mail[c]) \in Nat
      /\ n <= Len(mail[c])
  BY DEF IInv, TypeOK, TakesMail
<1>2. s \in Seq(Block) /\ Len(s) = n /\ \A i \in 1..n : s[i] = mail[c][i]
  <2>1. \A i \in 1..n : mail[c][i] \in Block
    BY <1>1, ElementOfSeq
  <2> QED
    BY <1>1, <2>1
<1> HIDE DEF s
<1>3. OnTop(s, mail[c])
  BY <1>1, <1>2, Zenon DEF OnTop
<1>4. <<"mail", c>> \in Stack /\ On(<<"mail", c>>) = mail[c]
  BY DEF Stack, On
<1>5. On(<<"mail", c>>)' = Below(s, mail[c])
  BY <1>1, <1>2 DEF On, Below, TakesMail
<1>6. \A m \in Stack : m # <<"mail", c>> => On(m)' = On(m)
  BY <1>1 DEF On, Stack, TakesMail
<1> QED
  BY <1>2, <1>3, <1>4, <1>5, <1>6, Zenon DEF Takes, TakesMail, s

\* transfer_pop_single takes one block.
LEMMA PopIsTake ==
    ASSUME IInv, NEW t \in Thread, MailPop(t), NEW c, c = th[t].c, mail[c] # <<>>, NEW n, n = 1
    PROVE  c \in CPU /\ n \in Nat \ {0} /\ TakesMail(t, c, n)
<1>1. c \in CPU /\ mail[c] \in Seq(Block)
  BY ZenonT(30) DEF MailPop, At, IInv, TypeOK, ThreadInv, ByOp
<1>2. /\ Len(mail[c]) \in Nat /\ 1 <= Len(mail[c])
      /\ Tail(mail[c]) = SubSeq(mail[c], n + 1, Len(mail[c]))
  BY <1>1, EmptySeq
<1>3. Blocks(SubSeq(mail[c], 1, n)) = {Head(mail[c])}
  <2>1. Len(SubSeq(mail[c], 1, n)) = 1 /\ SubSeq(mail[c], 1, n)[1] = Head(mail[c])
    BY <1>1, <1>2
  <2> QED
    BY <2>1 DEF Blocks
<1>4. /\ mail' = [mail EXCEPT ![c] = Tail(mail[c])]
      /\ held' = [held EXCEPT ![t] = held[t] \cup {Head(mail[c])}]
  BY Zenon DEF MailPop
<1>5. n \in Nat \ {0} /\ n <= Len(mail[c])
  BY <1>2
<1>6. mail' = [mail EXCEPT ![c] = SubSeq(@, n + 1, Len(@))]
  BY <1>2, <1>4, Zenon
<1>7. held' = [held EXCEPT ![t] = @ \cup Blocks(SubSeq(mail[c], 1, n))]
  BY <1>3, <1>4, Zenon
<1> QED
  BY <1>1, <1>5, <1>6, <1>7, Zenon DEF TakesMail

\* The commit of a push puts its chain on the list of its CPU.
LEMMA CommitPuts ==
    ASSUME IInv, NEW t \in Thread, CommitPush(t), NEW c, c = th[t].c, NEW s, s = th[t].chain
    PROVE  /\ s \in Chains /\ Distinct(s) /\ Blocks(s) \subseteq held[t]
           /\ c \in CPU /\ c = cpu[t]
           /\ \A i \in 1..(Len(s) - 1) : next[s[i]] = s[i + 1]
           /\ next[s[Len(s)]] = head[c]
           /\ <<"rseq", c>> \in Stack /\ Puts(t, <<"rseq", c>>, s)
<1>1. /\ th[t] \in ThreadRec /\ ThreadInv(t) /\ th[t].pc = "commit" /\ c \in CPU
      /\ th[t].op \in {"push", "push_tailed"}
  BY Zenon DEF CommitPush, At, IInv, TypeOK, ThreadRec, Op, ThreadInv, ByOp
<1>2. /\ s \in Chains /\ Distinct(s) /\ Blocks(s) \subseteq held[t]
      /\ \A i \in 1..(Len(s) - 1) : next[s[i]] = s[i + 1]
      /\ next[s[Len(s)]] = head[c]
  BY <1>1, Zenon DEF ThreadInv, PushReady
<1>3. c = cpu[t]
  BY <1>1 DEF ThreadInv, OnItsCpu, Section
<1>4. Puts(t, <<"rseq", c>>, s)
  <2>1. /\ content' = [content EXCEPT ![c] = s \o @] /\ mail' = mail
        /\ held' = [held EXCEPT ![t] = @ \ Blocks(s)]
        /\ content \in [CPU -> Seq(Block)]
    BY Zenon DEF CommitPush, IInv, TypeOK
  <2>2. On(<<"rseq", c>>)' = s \o On(<<"rseq", c>>)
    BY <1>1, <2>1, Zenon DEF On
  <2>3. \A m \in Stack : m # <<"rseq", c>> => On(m)' = On(m)
    BY <1>1, <2>1 DEF On, Stack
  <2> QED
    BY <2>1, <2>2, <2>3, Zenon DEF Puts
<1> QED
  BY <1>1, <1>2, <1>3, <1>4, ZenonT(30) DEF Stack

\* The commit of a pop takes the first block off the list of its CPU.
LEMMA CommitTakes ==
    ASSUME IInv, NEW t \in Thread, CommitPop(t), NEW c, c = th[t].c, NEW b, b = th[t].tmp
    PROVE  /\ c \in CPU /\ c = cpu[t] /\ b \in Block
           /\ content[c] \in Seq(Block) /\ content[c] # <<>> /\ b = content[c][1]
           /\ th[t].nxt = next[b]
           /\ <<"rseq", c>> \in Stack /\ Takes(t, <<"rseq", c>>, <<b>>)
<1>1. /\ th[t] \in ThreadRec /\ ThreadInv(t) /\ th[t].pc = "commit" /\ c \in CPU
      /\ th[t].op = "pop"
  BY Zenon DEF CommitPop, At, IInv, TypeOK, ThreadInv, ByOp
<1>2. b = head[c] /\ b # NULL /\ th[t].nxt = next[b] /\ c = cpu[t]
  BY <1>1, Zenon DEF ThreadInv, PopReady, OnItsCpu, Section
<1>3. content[c] \in Seq(Block) /\ content[c] # <<>> /\ b = content[c][1]
  BY <1>1, <1>2, ZenonT(30) DEF IInv, TypeOK, ListShape
<1>4. Len(content[c]) \in Nat \ {0} /\ b \in Block
  BY <1>3, EmptySeq, ElementOfSeq
<1>5. Takes(t, <<"rseq", c>>, <<b>>)
  <2>1. /\ content' = [content EXCEPT ![c] = SubSeq(@, 2, Len(@))] /\ mail' = mail
        /\ held' = [held EXCEPT ![t] = @ \cup {b}]
        /\ content \in [CPU -> Seq(Block)]
    BY DEF CommitPop, IInv, TypeOK
  <2>2. Len(<<b>>) = 1 /\ <<b>>[1] = b /\ Blocks(<<b>>) = {b}
    BY DEF Blocks
  <2>3. OnTop(<<b>>, content[c])
    BY <1>3, <1>4, <2>2 DEF OnTop
  <2>4. On(<<"rseq", c>>) = content[c] /\ On(<<"rseq", c>>)' = Below(<<b>>, content[c])
    BY <1>1, <2>1, <2>2 DEF On, Below
  <2>5. \A m \in Stack : m # <<"rseq", c>> => On(m)' = On(m)
    BY <1>1, <2>1 DEF On, Stack
  <2> QED
    BY <2>1, <2>2, <2>3, <2>4, <2>5, Zenon DEF Takes
<1> QED
  BY <1>1, <1>2, <1>3, <1>4, <1>5 DEF Stack

-----------------------------------------------------------------------------
(* They preserve IInv.                                                     *)

\* A step of t that moves blocks preserves IInv if it does so for the lists
\* and for t itself.
LEMMA MoveInv ==
    ASSUME IInv, TypeOK', SingleOwner', NoBlockLost', ListShape', NEW t \in Thread, ThreadInv(t)',
           UNCHANGED cpu,
           \A b \in Block \ held[t] : next'[b] = next[b],
           \A c \in CPU : c # cpu[t] => head'[c] = head[c],
           \A u \in Thread : u # t => th'[u] = th[u] /\ held'[u] = held[u]
    PROVE  IInv'
<1>1. OnePerCpu'
  BY Zenon DEF IInv, OnePerCpu
<1>2. \A u \in Thread : u # t => ThreadInv(u)'
  BY OthersFrame, Zenon
<1> QED
  BY <1>1, <1>2, Zenon DEF IInv

\* Spill: the transfer list takes the chain.
LEMMA SpillInv ==
    ASSUME IInv, NEW t \in Thread, Spill(t)
    PROVE  IInv'
<1>0. PICK c, s : c = th[t].c /\ s = th[t].chain
  BY Zenon
<1>1. /\ s \in Chains /\ Distinct(s) /\ Blocks(s) \subseteq held[t]
      /\ <<"mail", c>> \in Stack /\ Puts(t, <<"mail", c>>, s)
  BY <1>0, SpillPuts, Zenon
<1>2. /\ s \in Seq(Block) /\ Len(s) \in Nat \ {0} /\ s[Len(s)] \in Block /\ s[Len(s)] \in held[t]
      /\ c \in CPU
  BY <1>1, ChainsAreSeqs, ChainEnds, Zenon DEF Stack
<1>3. SingleOwner' /\ NoBlockLost'
  BY <1>1, <1>2, PutsOwner, Zenon
<1>4. /\ th'[t] = Idle /\ ThreadInv(t)' /\ th' \in [Thread -> ThreadRec]
      /\ \A u \in Thread : u # t => th'[u] = th[u]
  BY StepOthers, IdleInv, Zenon DEF Spill, IInv
<1>5. /\ next' = [next EXCEPT ![s[Len(s)]] = IF mail[c] = <<>> THEN NULL ELSE mail[c][1]]
      /\ mail' = [mail EXCEPT ![c] = s \o @]
      /\ held' = [held EXCEPT ![t] = @ \ Blocks(s)]
      /\ UNCHANGED <<cpu, head, usage, content>>
  BY <1>0, Zenon DEF Spill
<1>6. TypeOK'
  <2>1. mail[c] \in Seq(Block) /\ (mail[c] # <<>> => mail[c][1] \in Block)
    BY <1>2, EmptySeq, ElementOfSeq DEF IInv, TypeOK
  <2>2. s \o mail[c] \in Seq(Block)
    BY <1>2, <2>1
  <2>3. mail' \in [CPU -> Seq(Block)]
    BY <1>2, <1>5, <2>2, Zenon DEF IInv, TypeOK
  <2>4. next' \in [Block -> Ptr]
    BY <1>5, <2>1, Zenon DEF IInv, TypeOK, Ptr
  <2>5. held' \in [Thread -> SUBSET Block]
    BY <1>5, Zenon DEF IInv, TypeOK
  <2> QED
    BY <1>4, <1>5, <2>3, <2>4, <2>5, ZenonT(30) DEF IInv, TypeOK
<1>7. /\ \A b \in Block \ held[t] : next'[b] = next[b]
      /\ \A u \in Thread : u # t => held'[u] = held[u]
  BY <1>2, <1>5, Zenon DEF IInv, TypeOK
<1>8. ListShape'
  BY <1>5, <1>7, ShapeFrame, Zenon DEF ListShape
<1> QED
  BY <1>3, <1>4, <1>5, <1>6, <1>7, <1>8, MoveInv, Zenon

\* A take of n blocks off a transfer list.
LEMMA MailTakeInv ==
    ASSUME IInv, NEW t \in Thread, NEW c \in CPU, NEW n \in Nat \ {0}, TakesMail(t, c, n),
           UNCHANGED <<cpu, head, next, usage, content>>,
           th' \in [Thread -> ThreadRec], ThreadInv(t)',
           \A u \in Thread : u # t => th'[u] = th[u]
    PROVE  IInv'
<1> DEFINE s == SubSeq(mail[c], 1, n)
<1>1. s \in Seq(Block) /\ <<"mail", c>> \in Stack /\ Takes(t, <<"mail", c>>, s)
  BY MailTakes
<1>2. SingleOwner' /\ NoBlockLost'
  BY <1>1, TakesOwner, Zenon
<1>3. TypeOK'
  <2>1. mail[c] \in Seq(Block) /\ mail \in [CPU -> Seq(Block)] /\ Len(mail[c]) \in Nat
    BY DEF IInv, TypeOK
  <2>2. SubSeq(mail[c], n + 1, Len(mail[c])) \in Seq(Block)
    <3>1. \A i \in (n + 1)..Len(mail[c]) : i \in 1..Len(mail[c])
      BY <2>1
    <3>2. \A i \in (n + 1)..Len(mail[c]) : mail[c][i] \in Block
      BY <2>1, <3>1, ElementOfSeq, Zenon
    <3> QED
      BY <2>1, <3>2
  <2>3. Blocks(s) \subseteq Block
    BY <1>1, ElementOfSeq DEF Blocks
  <2> HIDE DEF s
  <2>4. mail' \in [CPU -> Seq(Block)]
    BY <2>1, <2>2, Zenon DEF TakesMail
  <2>5. held' \in [Thread -> SUBSET Block]
    BY <2>3, Zenon DEF IInv, TypeOK, TakesMail, s
  <2> QED
    BY <2>4, <2>5, ZenonT(30) DEF IInv, TypeOK
<1>4. ListShape'
  BY ZenonT(30) DEF IInv, ListShape
<1>5. \A u \in Thread : u # t => held'[u] = held[u]
  BY Zenon DEF IInv, TypeOK, TakesMail
<1> QED
  BY <1>2, <1>3, <1>4, <1>5, MoveInv, ZenonT(30)

\* Steal, and MailPop when it finds a block.
LEMMA StealInv ==
    ASSUME IInv, NEW t \in Thread,
           \/ \E c \in CPU, n \in 1..MaxBatch : Steal(t, c, n)
           \/ MailPop(t) /\ mail[th[t].c] # <<>>
    PROVE  IInv'
<1>1. ASSUME NEW c \in CPU, NEW n \in 1..MaxBatch, Steal(t, c, n) PROVE IInv'
  <2>0. MaxBatch \in Nat /\ n \in Nat \ {0}
    BY ConstAssumption
  <2>1. ThreadInv(t) /\ th[t] = th'[t] /\ th[t].pc = "idle"
    BY <1>1, Zenon DEF Steal, At, IInv
  <2>2. ThreadInv(t)'
    BY <2>1, Zenon DEF ThreadInv, OnItsCpu, PushReady, PopReady, ByOp, Section
  <2>3. TakesMail(t, c, n)
    BY <1>1, Zenon DEF Steal, TakesMail
  <2> QED
    BY <1>1, <2>0, <2>2, <2>3, MailTakeInv, ZenonT(30) DEF Steal, IInv, TypeOK
<1>2. CASE MailPop(t) /\ mail[th[t].c] # <<>>
  <2>1. PICK c, n : c = th[t].c /\ n = 1
    BY Zenon
  <2>2. c \in CPU /\ n \in Nat \ {0} /\ TakesMail(t, c, n)
    <3>1. MailPop(t) /\ mail[c] # <<>>
      BY <1>2, <2>1, Zenon
    <3> QED
      BY <2>1, <3>1, PopIsTake, Zenon
  <2>3. UNCHANGED <<cpu, head, next, usage, content>> /\ Step(t, Idle)
    BY <1>2, ZenonT(30) DEF MailPop
  <2>4. /\ th' \in [Thread -> ThreadRec] /\ ThreadInv(t)'
        /\ \A u \in Thread : u # t => th'[u] = th[u]
    BY <2>3, StepOthers, IdleInv DEF IInv
  <2> QED
    BY <2>2, <2>3, <2>4, MailTakeInv, Zenon
<1> QED
  BY <1>1, <1>2, Zenon

\* What the commits leave of a record asks nothing of the lists.
LEMMA LeaveInv ==
    ASSUME TypeOK, NEW t \in Thread, th[t].pc = "commit", ByOp(t), Leave(t, "count")
    PROVE  /\ th' \in [Thread -> ThreadRec] /\ ThreadInv(t)'
           /\ \A u \in Thread : u # t => th'[u] = th[u]
<1> DEFINE r == [th[t] EXCEPT !.pc = "count", !.tmp = NULL, !.nxt = NULL]
<1>1. th[t] \in ThreadRec /\ r \in ThreadRec
  BY ZenonT(30) DEF TypeOK, ThreadRec, PC, Ptr
<1>2. /\ th'[t] = r /\ th' \in [Thread -> ThreadRec]
      /\ \A u \in Thread : u # t => th'[u] = th[u]
  BY <1>1, StepOthers DEF Leave
<1>3. ThreadInv(t)'
  BY <1>1, <1>2 DEF ThreadRec, ThreadInv, OnItsCpu, PushReady, PopReady, ByOp, Section
<1> QED
  BY <1>2, <1>3

\* CommitPush: the chain and the list under it spell one list.
LEMMA CommitPushInv ==
    ASSUME IInv, NEW t \in Thread, CommitPush(t)
    PROVE  IInv'
<1>0. PICK c, s : c = th[t].c /\ s = th[t].chain
  BY Zenon
<1>1. /\ s \in Chains /\ Distinct(s) /\ Blocks(s) \subseteq held[t] /\ c \in CPU /\ c = cpu[t]
      /\ \A i \in 1..(Len(s) - 1) : next[s[i]] = s[i + 1]
      /\ next[s[Len(s)]] = head[c]
      /\ <<"rseq", c>> \in Stack /\ Puts(t, <<"rseq", c>>, s)
  BY <1>0, CommitPuts
<1>2. s \in Seq(Block) /\ Len(s) \in Nat \ {0} /\ s[1] \in Block
  BY <1>1, ChainsAreSeqs, ChainEnds, Zenon
<1>3. SingleOwner' /\ NoBlockLost'
  BY <1>1, <1>2, PutsOwner, Zenon
<1>4. /\ th' \in [Thread -> ThreadRec] /\ ThreadInv(t)'
      /\ \A u \in Thread : u # t => th'[u] = th[u]
  BY LeaveInv, Zenon DEF CommitPush, At, IInv, ThreadInv
<1>5. /\ head' = [head EXCEPT ![c] = s[1]]
      /\ content' = [content EXCEPT ![c] = s \o @]
      /\ held' = [held EXCEPT ![t] = @ \ Blocks(s)]
      /\ UNCHANGED <<cpu, next, usage, mail>>
  BY <1>0, Zenon DEF CommitPush
<1> DEFINE q == content[c]
           r == content'[c]
<1>6. q \in Seq(Block) /\ Len(q) \in Nat /\ r = s \o q
  BY <1>1, <1>5 DEF IInv, TypeOK
<1>7. TypeOK'
  <2>1. s \o q \in Seq(Block)
    BY <1>2, <1>6
  <2>2. content' \in [CPU -> Seq(Block)]
    BY <1>5, <2>1, Zenon DEF IInv, TypeOK
  <2>3. head' \in [CPU -> Ptr] /\ held' \in [Thread -> SUBSET Block]
    BY <1>2, <1>5, ZenonT(30) DEF IInv, TypeOK, Ptr
  <2> QED
    BY <1>4, <1>5, <2>2, <2>3, Zenon DEF IInv, TypeOK
<1>8. ListShape'
  <2>1. /\ head[c] = IF q = <<>> THEN NULL ELSE q[1]
        /\ \A i \in 1..Len(q) : next[q[i]] = IF i = Len(q) THEN NULL ELSE q[i + 1]
        /\ q = <<>> <=> Len(q) = 0
    BY <1>1, <1>6, EmptySeq, ZenonT(30) DEF IInv, ListShape
  <2>2. /\ Len(r) = Len(s) + Len(q) /\ r # <<>>
        /\ \A i \in 1..Len(s) : r[i] = s[i]
        /\ \A j \in 1..Len(q) : r[Len(s) + j] = q[j]
    <3> HIDE DEF q, r
    <3>1. /\ r \in Seq(Block) /\ Len(r) = Len(s) + Len(q)
          /\ \A i \in 1..(Len(s) + Len(q)) : r[i] = IF i <= Len(s) THEN s[i] ELSE q[i - Len(s)]
      BY <1>2, <1>6, ConcatProperties, ZenonT(30)
    <3>2. ASSUME NEW j \in 1..Len(q) PROVE r[Len(s) + j] = q[j]
      <4>1. Len(s) + j \in 1..(Len(s) + Len(q)) /\ ~(Len(s) + j <= Len(s)) /\ (Len(s) + j) - Len(s) = j
        BY <1>2, <1>6
      <4> QED
        BY <3>1, <4>1
    <3> QED
      BY <1>2, <1>6, <3>1, <3>2
  <2>3. head'[c] = r[1]
    BY <1>1, <1>2, <1>5, <2>2 DEF IInv, TypeOK
  <2>4. ASSUME NEW i \in 1..Len(r)
        PROVE  next[r[i]] = IF i = Len(r) THEN NULL ELSE r[i + 1]
    <3> HIDE DEF q, r
    <3>1. CASE i \in 1..(Len(s) - 1)
      BY <1>1, <1>2, <1>6, <2>2, <3>1
    <3>2. CASE i = Len(s)
      <4>1. next[r[i]] = head[c] /\ (i = Len(r) <=> Len(q) = 0)
        BY <1>1, <1>2, <1>6, <2>2, <3>2
      <4>2. Len(q) # 0 => r[i + 1] = q[1]
        BY <1>6, <2>2, <3>2
      <4> QED
        BY <2>1, <4>1, <4>2, Zenon
    <3>3. CASE i \in (Len(s) + 1)..Len(r)
      <4>1. PICK j \in 1..Len(q) : i = Len(s) + j
        BY <1>2, <1>6, <2>2, <3>3
      <4>2. r[i] = q[j] /\ (j = Len(q) <=> i = Len(r))
        <5>1. r[i] = q[j]
          BY <2>2, <4>1
        <5>2. Len(r) = Len(s) + Len(q)
          BY <2>2
        <5>3. Len(s) \in Nat /\ Len(q) \in Nat
          BY <1>2, <1>6, LenProperties, Zenon
        <5>4. j = Len(q) <=> i = Len(r)
          BY <4>1, <5>2, <5>3
        <5> QED
          BY <5>1, <5>4
      <4>3. j # Len(q) => r[i + 1] = q[j + 1]
        <5>1. SUFFICES ASSUME j # Len(q) PROVE r[i + 1] = q[j + 1]
          OBVIOUS
        <5>2. j + 1 \in 1..Len(q) /\ i + 1 = Len(s) + (j + 1)
          BY <1>2, <1>6, <4>1, <5>1
        <5> QED
          BY <2>2, <5>2
      <4> QED
        BY <2>1, <4>2, <4>3, Zenon
    <3> QED
      BY <1>2, <2>2, <3>1, <3>2, <3>3
  <2>5. ASSUME NEW d \in CPU, d # c
        PROVE  /\ head'[d] = IF content'[d] = <<>> THEN NULL ELSE content'[d][1]
               /\ \A i \in 1..Len(content'[d]) :
                     next'[content'[d][i]] = IF i = Len(content'[d]) THEN NULL ELSE content'[d][i + 1]
    <3>1. head'[d] = head[d] /\ content'[d] = content[d] /\ next' = next
      BY <1>5, <2>5, Zenon DEF IInv, TypeOK
    <3> QED
      BY <3>1 DEF IInv, ListShape
  <2>6. next' = next
    BY <1>5
  <2>7. ASSUME NEW d \in CPU
        PROVE  /\ head'[d] = IF content'[d] = <<>> THEN NULL ELSE content'[d][1]
               /\ \A i \in 1..Len(content'[d]) :
                     next'[content'[d][i]] = IF i = Len(content'[d]) THEN NULL ELSE content'[d][i + 1]
    <3>1. CASE d = c
      BY <2>2, <2>3, <2>4, <2>6, <3>1, Zenon
    <3>2. CASE d # c
      BY <2>5, <3>2, Zenon
    <3> QED
      BY <3>1, <3>2, Zenon
  <2> QED
    BY <2>7, Zenon DEF ListShape
<1>9. /\ \A d \in CPU : d # cpu[t] => head'[d] = head[d]
      /\ \A u \in Thread : u # t => held'[u] = held[u]
      /\ \A b \in Block \ held[t] : next'[b] = next[b]
  BY <1>1, <1>5, Zenon DEF IInv, TypeOK
<1> QED
  BY <1>3, <1>4, <1>5, <1>7, <1>8, <1>9, MoveInv

\* CommitPop: the list goes on with the block after the head.
LEMMA CommitPopInv ==
    ASSUME IInv, NEW t \in Thread, CommitPop(t)
    PROVE  IInv'
<1>0. PICK c, b : c = th[t].c /\ b = th[t].tmp
  BY Zenon
<1> DEFINE q == content[c]
           r == content'[c]
<1>1. /\ c \in CPU /\ c = cpu[t] /\ b \in Block
      /\ q \in Seq(Block) /\ q # <<>> /\ b = q[1] /\ th[t].nxt = next[b]
      /\ <<"rseq", c>> \in Stack /\ Takes(t, <<"rseq", c>>, <<b>>)
  BY <1>0, CommitTakes
<1>2. Len(q) \in Nat \ {0}
  BY <1>1, EmptySeq
<1>3. SingleOwner' /\ NoBlockLost'
  <2>1. <<b>> \in Seq(Block)
    BY <1>1
  <2> QED
    BY <1>1, <2>1, TakesOwner, ZenonT(30)
<1>4. /\ th' \in [Thread -> ThreadRec] /\ ThreadInv(t)'
      /\ \A u \in Thread : u # t => th'[u] = th[u]
  BY LeaveInv, Zenon DEF CommitPop, At, IInv, ThreadInv
<1>5. /\ head' = [head EXCEPT ![c] = next[b]]
      /\ content' = [content EXCEPT ![c] = SubSeq(@, 2, Len(@))]
      /\ held' = [held EXCEPT ![t] = @ \cup {b}]
      /\ UNCHANGED <<cpu, next, usage, mail>>
  BY <1>0, <1>1, Zenon DEF CommitPop
<1>6. /\ r \in Seq(Block) /\ Len(r) = Len(q) - 1
      /\ \A i \in 1..Len(r) : r[i] = q[i + 1]
  <2>1. r = SubSeq(q, 2, Len(q))
    BY <1>1, <1>5 DEF IInv, TypeOK
  <2>2. \A i \in 2..Len(q) : i \in 1..Len(q)
    BY <1>2
  <2>3. \A i \in 2..Len(q) : q[i] \in Block
    BY <1>1, <2>2, ElementOfSeq
  <2> HIDE DEF q, r
  <2>4. SubSeq(q, 2, Len(q)) \in Seq(Block) /\ Len(SubSeq(q, 2, Len(q))) = Len(q) - 1
    BY <1>1, <1>2, <2>3
  <2>5. \A i \in 1..(Len(q) - 1) : SubSeq(q, 2, Len(q))[i] = q[i + 1]
    BY <1>1, <1>2
  <2> QED
    BY <2>1, <2>4, <2>5, ZenonT(30)
<1>7. TypeOK'
  <2>1. content' \in [CPU -> Seq(Block)]
    BY <1>1, <1>5, <1>6, ZenonT(30) DEF IInv, TypeOK
  <2>2. head' \in [CPU -> Ptr] /\ held' \in [Thread -> SUBSET Block]
    BY <1>1, <1>5, ZenonT(30) DEF IInv, TypeOK, Ptr
  <2> QED
    BY <1>4, <1>5, <2>1, <2>2, ZenonT(30) DEF IInv, TypeOK
<1>8. ListShape'
  <2>1. \A i \in 1..Len(q) : next[q[i]] = IF i = Len(q) THEN NULL ELSE q[i + 1]
    BY <1>1, Zenon DEF IInv, ListShape
  <2>2. head'[c] = next[q[1]]
    BY <1>1, <1>5 DEF IInv, TypeOK
  <2> HIDE DEF q, r
  <2>3. head'[c] = IF r = <<>> THEN NULL ELSE r[1]
    <3>1. 1 \in 1..Len(q)
      BY <1>2
    <3>2. CASE Len(q) = 1
      <4>1. r = <<>>
        BY <1>6, <3>2, EmptySeq
      <4> QED
        BY <2>1, <2>2, <3>1, <3>2, <4>1
    <3>3. CASE Len(q) # 1
      <4>1. 1 \in 1..Len(r) /\ r # <<>>
        BY <1>2, <1>6, <3>3
      <4> QED
        BY <1>6, <2>1, <2>2, <3>1, <3>3, <4>1, ZenonT(30)
    <3> QED
      BY <3>2, <3>3
  <2>4. ASSUME NEW i \in 1..Len(r)
        PROVE  next[r[i]] = IF i = Len(r) THEN NULL ELSE r[i + 1]
    <3>1. i + 1 \in 1..Len(q) /\ (i + 1 = Len(q) <=> i = Len(r)) /\ r[i] = q[i + 1]
      BY <1>2, <1>6
    <3>2. i # Len(r) => r[i + 1] = q[(i + 1) + 1]
      BY <1>2, <1>6
    <3> QED
      BY <2>1, <3>1, <3>2
  <2>5. ASSUME NEW d \in CPU, d # c
        PROVE  /\ head'[d] = IF content'[d] = <<>> THEN NULL ELSE content'[d][1]
               /\ \A i \in 1..Len(content'[d]) :
                     next'[content'[d][i]] = IF i = Len(content'[d]) THEN NULL ELSE content'[d][i + 1]
    <3>1. head'[d] = head[d] /\ content'[d] = content[d] /\ next' = next
      BY <1>5, <2>5, Zenon DEF IInv, TypeOK
    <3> QED
      BY <3>1 DEF IInv, ListShape
  <2>6. next' = next
    BY <1>5, Zenon
  <2> QED
    BY <2>3, <2>4, <2>5, <2>6, ZenonT(30) DEF ListShape, r
<1>9. /\ \A d \in CPU : d # cpu[t] => head'[d] = head[d]
      /\ \A u \in Thread : u # t => held'[u] = held[u]
      /\ \A d \in Block \ held[t] : next'[d] = next[d]
  BY <1>1, <1>5 DEF IInv, TypeOK
<1> QED
  BY <1>3, <1>4, <1>5, <1>7, <1>8, <1>9, MoveInv, Zenon

-----------------------------------------------------------------------------
(* The theorems.                                                           *)

\* Every step preserves the invariant.
LEMMA IInvStep == IInv /\ [Next]_vars => IInv'
<1> SUFFICES ASSUME IInv, [Next]_vars PROVE IInv'
  OBVIOUS
<1>1. CASE UNCHANGED vars
  <2>1. UNCHANGED <<cpu, head, next, usage, mail, held, th, content>>
    BY <1>1, Zenon DEF vars
  <2>2. TypeOK' /\ ListShape' /\ OnePerCpu'
    BY <2>1, ZenonT(30) DEF IInv, TypeOK, ListShape, OnePerCpu
  <2>3. SingleOwner' /\ NoBlockLost'
    BY <2>1, ZenonT(30) DEF IInv, SingleOwner, NoBlockLost, On
  <2>4. ASSUME NEW t \in Thread PROVE ThreadInv(t)'
    <3>1. ThreadInv(t)
      BY DEF IInv
    <3> QED
      BY <2>1, <3>1, Zenon DEF ThreadInv, OnItsCpu, PushReady, PopReady, ByOp
  <2> QED
    BY <2>2, <2>3, <2>4 DEF IInv
<1>2. ASSUME NEW t \in Thread, Run(t) PROVE IInv'
  <2>1. CASE ReadCpu(t) \/ Gate(t) \/ Enter(t)
    BY <2>1, EntryInv
  <2>2. CASE Aborted(t) \/ MailPop(t)
    BY <2>2, RetryInv, StealInv
  <2>3. CASE Spill(t)
    BY <2>3, SpillInv
  <2>4. CASE Load(t) \/ Fetch(t)
    BY <2>4, ReadInv
  <2>5. CASE Link(t) \/ Count(t)
    BY <2>5, LinkInv, CountInv
  <2>6. CASE CommitPush(t) \/ CommitPop(t)
    BY <2>6, CommitPushInv, CommitPopInv, ZenonT(30)
  <2> QED
    BY <1>2, <2>1, <2>2, <2>3, <2>4, <2>5, <2>6 DEF Run
<1>3. ASSUME NEW t \in Thread, Call(t) PROVE IInv'
  BY <1>3, PushStartInv, EntryInv, StealInv DEF Call
<1>4. ASSUME NEW t \in Thread, Preempt(t) \/ \E c \in CPU : Resume(t, c) PROVE IInv'
  BY <1>4, KernelInv
<1> QED
  BY <1>1, <1>2, <1>3, <1>4 DEF Next

\* push, push_tailed and pop keep the per-CPU lists intact however threads are
\* preempted, aborted and migrated.
THEOREM Inductive == Spec => []IInv
<1>1. Init => IInv
  BY InitIInv
<1>2. IInv /\ [Next]_vars => IInv'
  BY IInvStep
<1> QED
  BY <1>1, <1>2, PTL DEF Spec

\* No block of a size class has two owners.
THEOREM OwnedOnce == Spec => []SingleOwner
<1>1. IInv => SingleOwner
  BY DEF IInv
<1> QED
  BY <1>1, Inductive, PTL

\* Head and links of every per-CPU list spell what the commits built.
THEOREM WellLinked == Spec => []ListShape
<1>1. IInv => ListShape
  BY DEF IInv
<1> QED
  BY <1>1, Inductive, PTL

-----------------------------------------------------------------------------
(* Refinement.                                                             *)

\* The stacks as BlockPool sees them change as Puts and Takes say.
LEMMA StackUpdate ==
    ASSUME NEW k \in Stack, \A m \in Stack : m # k => On(m)' = On(m)
    PROVE  [m \in Stack |-> On(m)]' = [[m \in Stack |-> On(m)] EXCEPT ![k] = On(k)']
BY Zenon DEF Stack

\* A put is a push of BlockPool.
LEMMA PutsMaps ==
    ASSUME IInv, NEW t \in Thread, NEW k \in Stack, NEW s \in Chains,
           Distinct(s), Blocks(s) \subseteq held[t], Puts(t, k, s)
    PROVE  Pool!PoolNext
<1>1. Pool!Push(t, k, s)
  BY StackUpdate, Zenon DEF Puts, Pool!Push, Pool!Distinct, Pool!Blocks, Distinct, Blocks
<1>2. held' # held
  <2>1. s[1] \in held[t] /\ s[1] \notin held'[t]
    BY ChainEnds DEF Puts, IInv, TypeOK
  <2> QED
    BY <2>1, ZenonT(30)
<1> QED
  BY <1>1, <1>2 DEF Pool!PoolNext, Pool!Chains, Chains

\* A take of at least one block is a take of BlockPool.
LEMMA TakesMaps ==
    ASSUME IInv, NEW t \in Thread, NEW k \in Stack, NEW s \in Seq(Block), s # <<>>, Takes(t, k, s)
    PROVE  Pool!PoolNext
<1> DEFINE n == Len(s)
           q == On(k)
<1>1. /\ q \in Seq(Block) /\ Len(q) \in Nat /\ n \in Nat \ {0} /\ n <= Len(q)
      /\ \A i \in 1..n : s[i] = q[i]
  BY OnType, EmptySeq DEF IInv, Takes, OnTop
<1>2. Pool!Blocks(SubSeq(q, 1, n)) = Blocks(s)
  <2>1. Len(SubSeq(q, 1, n)) = n /\ \A i \in 1..n : SubSeq(q, 1, n)[i] = s[i]
    <3> HIDE DEF n, q
    <3> QED
      BY <1>1
  <2> QED
    BY <2>1 DEF Pool!Blocks, Blocks
<1>3. n \in 1..Len(q)
  BY <1>1
<1>4. Pool!Take(t, k, n)
  BY <1>2, StackUpdate, Zenon DEF Takes, Below, Pool!Take
<1>5. held' # held
  <2>1. 1 \in 1..n /\ 1 \in 1..Len(q)
    BY <1>1
  <2>2. s[1] \in Blocks(s) /\ s[1] \in Blocks(q)
    BY <1>1, <2>1, ZenonT(30) DEF Blocks
  <2>3. s[1] \notin held[t] /\ s[1] \in held'[t]
    BY <2>2 DEF IInv, TypeOK, SingleOwner, Takes
  <2> QED
    BY <2>3
<1> HIDE DEF n
<1> QED
  BY <1>3, <1>4, <1>5, Zenon DEF Pool!PoolNext

\* A take off a transfer list is a take of BlockPool.
LEMMA MailTakeMaps ==
    ASSUME IInv, NEW t \in Thread, NEW c \in CPU, NEW n \in Nat \ {0}, TakesMail(t, c, n),
           UNCHANGED content
    PROVE  Pool!PoolNext
<1>1. /\ SubSeq(mail[c], 1, n) \in Seq(Block) /\ Len(SubSeq(mail[c], 1, n)) = n
      /\ <<"mail", c>> \in Stack /\ Takes(t, <<"mail", c>>, SubSeq(mail[c], 1, n))
  BY MailTakes
<1>2. PICK s : s = SubSeq(mail[c], 1, n)
  BY Zenon
<1>3. s \in Seq(Block) /\ s # <<>> /\ Takes(t, <<"mail", c>>, s)
  BY <1>1, <1>2, Zenon DEF Takes
<1> QED
  BY <1>1, <1>3, TakesMaps

\* So is a MailPop that finds a block.
LEMMA MailPopMaps ==
    ASSUME IInv, NEW t \in Thread, MailPop(t), mail[th[t].c] # <<>>
    PROVE  Pool!PoolNext
<1>1. PICK c, n : c = th[t].c /\ n = 1
  OBVIOUS
<1>2. mail[c] # <<>>
  BY <1>1
<1>3. c \in CPU /\ n \in Nat \ {0} /\ TakesMail(t, c, n)
  BY <1>1, <1>2, PopIsTake
<1>4. UNCHANGED content
  BY DEF MailPop
<1> QED
  BY <1>3, <1>4, MailTakeMaps

\* Commits, spills, steals and pops off a transfer list move blocks as
\* BlockPool does; no other step moves any.
LEMMA StepMaps == IInv /\ [Next]_vars => [Pool!PoolNext]_(Pool!poolVars)
<1> SUFFICES ASSUME IInv, [Next]_vars
             PROVE  Pool!PoolNext \/ UNCHANGED <<content, mail, held>>
  <2>1. UNCHANGED <<content, mail, held>> => UNCHANGED Pool!poolVars
    BY DEF Pool!poolVars, On
  <2> QED
    BY <2>1
<1>1. CASE UNCHANGED vars
  BY <1>1 DEF vars
<1>2. ASSUME NEW t \in Thread, Spill(t) PROVE Pool!PoolNext
  <2>1. PICK c, s : c = th[t].c /\ s = th[t].chain
    BY Zenon
  <2>2. /\ s \in Chains /\ Distinct(s) /\ Blocks(s) \subseteq held[t]
        /\ <<"mail", c>> \in Stack /\ Puts(t, <<"mail", c>>, s)
    BY <1>2, <2>1, SpillPuts, Zenon
  <2> QED
    BY <2>2, PutsMaps
<1>3. ASSUME NEW t \in Thread, CommitPush(t) PROVE Pool!PoolNext
  <2>1. PICK c, s : c = th[t].c /\ s = th[t].chain
    BY Zenon
  <2>2. /\ s \in Chains /\ Distinct(s) /\ Blocks(s) \subseteq held[t]
        /\ <<"rseq", c>> \in Stack /\ Puts(t, <<"rseq", c>>, s)
    BY <1>3, <2>1, CommitPuts
  <2> QED
    BY <2>2, PutsMaps
<1>4. ASSUME NEW t \in Thread, CommitPop(t) PROVE Pool!PoolNext
  <2>1. PICK c, b : c = th[t].c /\ b = th[t].tmp
    BY Zenon
  <2>2. b \in Block /\ <<"rseq", c>> \in Stack /\ Takes(t, <<"rseq", c>>, <<b>>)
    BY <1>4, <2>1, CommitTakes
  <2>3. <<b>> \in Seq(Block) /\ <<b>> # <<>>
    BY <2>2
  <2> QED
    BY <2>2, <2>3, TakesMaps, Zenon
<1>5. ASSUME NEW t \in Thread, MailPop(t), mail[th[t].c] # <<>> PROVE Pool!PoolNext
  BY <1>5, MailPopMaps
<1>6. ASSUME NEW t \in Thread, NEW c \in CPU, NEW n \in 1..MaxBatch, Steal(t, c, n)
      PROVE  Pool!PoolNext
  <2>1. n \in Nat \ {0} /\ TakesMail(t, c, n) /\ UNCHANGED content
    BY <1>6, ConstAssumption DEF Steal, TakesMail
  <2> QED
    BY <2>1, MailTakeMaps
<1>7. ASSUME NEW t \in Thread, Run(t) PROVE Pool!PoolNext \/ UNCHANGED <<content, mail, held>>
  <2>1. CASE MailPop(t)
    BY <1>5, <2>1 DEF MailPop
  <2>2. CASE ReadCpu(t) \/ Gate(t) \/ Enter(t) \/ Aborted(t)
    BY <2>2 DEF ReadCpu, Gate, Enter, Aborted
  <2>3. CASE Load(t) \/ Link(t) \/ Fetch(t) \/ Count(t)
    BY <2>3, Zenon DEF Load, Link, Fetch, Count
  <2> QED
    BY <1>2, <1>3, <1>4, <1>7, <2>1, <2>2, <2>3, Zenon DEF Run
<1>8. ASSUME NEW t \in Thread, Call(t) PROVE Pool!PoolNext \/ UNCHANGED <<content, mail, held>>
  BY <1>6, <1>8, ZenonT(30) DEF Call, PushStart, PopStart
<1>9. ASSUME NEW t \in Thread, Preempt(t) \/ \E c \in CPU : Resume(t, c)
      PROVE  UNCHANGED <<content, mail, held>>
  BY <1>9 DEF Preempt, Resume
<1> QED
  BY <1>1, <1>7, <1>8, <1>9, Zenon DEF Next

\* The restartable sequences and their fallback to the transfer lists implement
\* atomic pushes and takes on the stacks of all CPUs.
THEOREM Refines == Spec => PoolSpec
<1>1. Init => Pool!PoolInit
  <2> SUFFICES ASSUME Init PROVE Pool!PoolInit
    OBVIOUS
  <2>1. \A k \in Stack : On(k) = <<>>
    BY DEF Init, On, Stack
  <2>2. [k \in Stack |-> On(k)] = [k \in Stack |-> <<>>]
    BY <2>1
  <2> QED
    BY <2>2 DEF Init, Pool!PoolInit
<1>2. IInv /\ [Next]_vars => [Pool!PoolNext]_(Pool!poolVars)
  BY StepMaps
<1> QED
  BY <1>1, <1>2, Inductive, PTL DEF Spec, PoolSpec, Pool!PoolSpec

-----------------------------------------------------------------------------
(* A push ends.                                                            *)

\* The steps of a push in the order in which it can take them.
LEMMA Ranks ==
    /\ StepRank["cpu"] = 9 /\ StepRank["gate"] = 8 /\ StepRank["enter"] = 7
    /\ StepRank["load"] = 6 /\ StepRank["link"] = 5 /\ StepRank["commit"] = 4
    /\ StepRank["aborted"] = 3 /\ StepRank["spill"] = 2 /\ StepRank["count"] = 1
BY DEF StepRank

\* Step p comes after step o.
After(p, o) == StepRank[p] \in Nat /\ StepRank[o] \in Nat /\ StepRank[p] < StepRank[o]

\* The steps a push can go to from each of its steps come after it.
LEMMA Order ==
    /\ After("gate", "cpu") /\ After("enter", "gate") /\ After("spill", "gate")
    /\ After("load", "enter") /\ After("link", "load") /\ After("commit", "link")
    /\ After("count", "commit") /\ After("spill", "aborted")
    /\ \A o \in {"enter", "load", "link", "commit"} : After("aborted", o)
BY Ranks DEF After

\* Record q is nearer its end than r.
Nearer(q, r) == Distance(q) < Distance(r)

\* In the same attempt a later step is nearer the end.
LEMMA SameTryNears ==
    ASSUME NEW r, NEW q, r.op # "none", q.op = r.op, q.tries = r.tries, r.tries \in 0..(MaxTries + 1),
           After(q.pc, r.pc)
    PROVE  Nearer(q, r)
<1>1. PICK i \in Nat : i = StepRank[q.pc]
  BY Zenon DEF After
<1>2. PICK j \in Nat : j = StepRank[r.pc]
  BY Zenon DEF After
<1>3. PICK k \in Int : k = 10 * (MaxTries + 1 - r.tries)
  BY ConstAssumption
<1>4. i < j
  BY <1>1, <1>2, Zenon DEF After
<1>5. k + i < k + j
  BY <1>4
<1>6. Distance(q) = k + i /\ Distance(r) = k + j
  BY <1>1, <1>2, <1>3, Zenon DEF Distance
<1> QED
  BY <1>5, <1>6, Zenon DEF Nearer

\* A call that has returned is at its end.
LEMMA IdleNears ==
    ASSUME NEW r, r.op # "none", r.tries \in 0..(MaxTries + 1), r.pc \in {"spill", "count"}
    PROVE  Nearer(Idle, r)
<1>1. PICK j \in {1, 2} : j = StepRank[r.pc]
  BY Ranks, Zenon
<1>2. Distance(r) = 10 * (MaxTries + 1 - r.tries) + j
  BY <1>1, Zenon DEF Distance
<1>3. Distance(Idle) = 0
  BY DEF Distance, Idle, Rec
<1>4. 0 < 10 * (MaxTries + 1 - r.tries) + j
  BY ConstAssumption
<1> QED
  BY <1>2, <1>3, <1>4 DEF Nearer

\* A new attempt is nearer the end than the abort of the last one.
LEMMA RetryNears ==
    ASSUME NEW r, NEW q, r.op # "none", q.op = r.op, r.tries \in 0..MaxTries,
           q.tries = r.tries + 1, q.pc = "cpu", r.pc = "aborted"
    PROVE  Nearer(q, r)
<1>1. /\ Distance(q) = 10 * (MaxTries + 1 - (r.tries + 1)) + 9
      /\ Distance(r) = 10 * (MaxTries + 1 - r.tries) + 3
  BY Ranks, Zenon DEF Distance
<1>2. PICK k \in Int : k = r.tries
  OBVIOUS
<1>3. 10 * (MaxTries + 1 - (k + 1)) + 9 < 10 * (MaxTries + 1 - k) + 3
  BY ConstAssumption
<1> QED
  BY <1>1, <1>2, <1>3, Zenon DEF Nearer

\* Every step of the thread itself.
LEMMA RunNears ==
    ASSUME IInv, NEW t \in Thread, th[t].op \in {"push", "push_tailed"}, Run(t)
    PROVE  Distance(th'[t]) < Distance(th[t])
<1>1. PICK r \in ThreadRec : r = th[t]
  BY Zenon DEF IInv, TypeOK
<1>2. PICK q : q = th'[t]
  BY Zenon
<1> SUFFICES Nearer(q, r)
  BY <1>1, <1>2, Zenon DEF Nearer
<1>3. /\ r.op \in {"push", "push_tailed"} /\ r.op # "none" /\ r.op # "pop"
      /\ r.tries \in 0..(MaxTries + 1) /\ th \in [Thread -> ThreadRec]
      /\ r.pc \notin {"fetch", "mail_pop"}
  BY <1>1 DEF IInv, TypeOK, ThreadRec, ThreadInv, ByOp
<1>4. ASSUME NEW p, th' = [th EXCEPT ![t] = p] PROVE q = p
  BY <1>2, <1>3, <1>4
<1>5. ASSUME NEW p, q.op = r.op, q.tries = r.tries, q.pc = p, After(p, r.pc) PROVE Nearer(q, r)
  BY <1>3, <1>5, SameTryNears, Zenon
<1>6. ASSUME NEW p, q = [r EXCEPT !.pc = p], After(p, r.pc) PROVE Nearer(q, r)
  <2>1. q.op = r.op /\ q.tries = r.tries /\ q.pc = p
    BY <1>6 DEF ThreadRec
  <2> QED
    BY <1>5, <1>6, <2>1, Zenon
<1>7. CASE ReadCpu(t)
  <2>1. q = [r EXCEPT !.pc = "gate", !.c = cpu[t]] /\ r.pc = "cpu"
    BY <1>1, <1>3, <1>4, <1>7, Zenon DEF ReadCpu, Step, At
  <2>2. q.op = r.op /\ q.tries = r.tries /\ q.pc = "gate"
    BY <2>1 DEF ThreadRec
  <2> QED
    BY <1>5, <2>1, <2>2, Order, Zenon
<1>8. CASE Gate(t)
  <2>1. r.pc = "gate" /\ \E p \in {"spill", "enter"} : q = [r EXCEPT !.pc = p]
    BY <1>1, <1>4, <1>8, Zenon DEF Gate, Goto, Step, At
  <2> QED
    BY <1>6, <2>1, Order, Zenon
<1>9. CASE Enter(t)
  <2>1. r.pc = "enter" /\ \E p \in {"load", "aborted"} : q = [r EXCEPT !.pc = p]
    BY <1>1, <1>4, <1>9, Zenon DEF Enter, Goto, Step, At
  <2> QED
    BY <1>6, <2>1, Order, Zenon
<1>10. CASE Aborted(t)
  <2>1. /\ r.pc = "aborted"
        /\ \/ q = [r EXCEPT !.pc = "spill"]
           \/ ~(r.tries > MaxTries) /\ q = [r EXCEPT !.pc = "cpu", !.c = Off, !.tries = r.tries + 1]
    BY <1>1, <1>3, <1>4, <1>10, Zenon DEF Aborted, Goto, Step, Retry, At
  <2>2. CASE q = [r EXCEPT !.pc = "spill"]
    BY <1>6, <2>1, <2>2, Order, Zenon
  <2>3. CASE ~(r.tries > MaxTries) /\ q = [r EXCEPT !.pc = "cpu", !.c = Off, !.tries = r.tries + 1]
    <3>1. q.op = r.op /\ q.tries = r.tries + 1 /\ q.pc = "cpu"
      BY <2>3 DEF ThreadRec
    <3>2. r.tries \in 0..MaxTries
      BY <1>3, <2>3, ConstAssumption
    <3> QED
      BY <1>3, <2>1, <3>1, <3>2, RetryNears, Zenon
  <2> QED
    BY <2>1, <2>2, <2>3, Zenon
<1>11. CASE Spill(t) \/ Count(t)
  <2>1. q = Idle /\ r.pc \in {"spill", "count"}
    BY <1>1, <1>4, <1>11, Zenon DEF Spill, Count, Step, At
  <2> QED
    BY <1>3, <2>1, IdleNears, Zenon
<1>12. CASE Load(t)
  <2>1. r.pc = "load" /\ \E h : q = [r EXCEPT !.pc = "link", !.tmp = h]
    BY <1>1, <1>3, <1>4, <1>12, Zenon DEF Load, Step, At
  <2>2. q.op = r.op /\ q.tries = r.tries /\ q.pc = "link"
    BY <2>1 DEF ThreadRec
  <2> QED
    BY <1>5, <2>1, <2>2, Order, Zenon
<1>13. CASE Link(t)
  <2>1. r.pc = "link" /\ q = [r EXCEPT !.pc = "commit"]
    BY <1>1, <1>4, <1>13, Zenon DEF Link, Goto, Step, At
  <2> QED
    BY <1>6, <2>1, Order, Zenon
<1>14. CASE CommitPush(t)
  <2>1. r.pc = "commit" /\ q = [r EXCEPT !.pc = "count", !.tmp = NULL, !.nxt = NULL]
    BY <1>1, <1>4, <1>14, Zenon DEF CommitPush, Leave, Step, At
  <2>2. q.op = r.op /\ q.tries = r.tries /\ q.pc = "count"
    BY <2>1 DEF ThreadRec
  <2> QED
    BY <1>5, <2>1, <2>2, Order, Zenon
<1>15. ~MailPop(t) /\ ~Fetch(t) /\ ~CommitPop(t)
  BY <1>1, <1>3, Zenon DEF MailPop, Fetch, CommitPop, At
<1> QED
  BY <1>7, <1>8, <1>9, <1>10, <1>11, <1>12, <1>13, <1>14, <1>15, Zenon DEF Run

\* An interrupted sequence is nearer the end than it was before.
LEMMA PreemptNears ==
    ASSUME IInv, NEW t \in Thread, th[t].op \in {"push", "push_tailed"}, Preempt(t), th'[t] # th[t]
    PROVE  Distance(th'[t]) < Distance(th[t])
<1>1. PICK r \in ThreadRec : r = th[t]
  BY Zenon DEF IInv, TypeOK
<1>2. PICK q : q = th'[t]
  BY Zenon
<1>3. /\ r.op # "none" /\ r.tries \in 0..(MaxTries + 1) /\ th \in [Thread -> ThreadRec]
      /\ r.pc # "fetch"
  BY <1>1 DEF IInv, TypeOK, ThreadRec, ThreadInv, ByOp
<1>4. th' = [th EXCEPT ![t] = [r EXCEPT !.pc = "aborted", !.tmp = NULL, !.nxt = NULL]]
      /\ r.pc \in {"load", "link", "commit", "enter"}
  BY <1>1, <1>3, Zenon DEF Preempt, Leave, Step, Section
<1>5. q.op = r.op /\ q.tries = r.tries /\ q.pc = "aborted"
  BY <1>2, <1>3, <1>4 DEF ThreadRec
<1>6. Nearer(q, r)
  BY <1>3, <1>4, <1>5, Order, SameTryNears, Zenon
<1> QED
  BY <1>1, <1>2, <1>6, Zenon DEF Nearer

\* A free ends, for any number of threads, CPUs and aborts: every step that
\* changes the state of a push or push_tailed, its own or the kernel's, lowers
\* the number of steps it can still take.
THEOREM PushNearsEndAlways == Spec => PushNearsEnd
<1>1. ASSUME IInv, [Next]_vars, NEW t \in Thread, th[t].op \in {"push", "push_tailed"}, th'[t] # th[t]
      PROVE  Distance(th'[t]) < Distance(th[t])
  <2>1. ~UNCHANGED vars
    BY <1>1, Zenon DEF vars
  <2>2. PICK u \in Thread : \/ Run(u) \/ Call(u) \/ Preempt(u) \/ \E c \in CPU : Resume(u, c)
    BY <1>1, <2>1, Zenon DEF Next
  <2>3. (\E c \in CPU : Resume(u, c)) => th' = th
    BY Zenon DEF Resume
  <2>4. u = t
    <3>1. ASSUME u # t PROVE th'[t] = th[t]
      <4>1. th \in [Thread -> ThreadRec]
        BY <1>1, Zenon DEF IInv, TypeOK
      <4>2. th' = th \/ \E p : th' = [th EXCEPT ![u] = p]
        BY <2>2, <2>3, Zenon DEF Run, Call, Preempt, ReadCpu, Gate, Enter, Aborted, MailPop, Spill,
           Load, Link, Fetch, CommitPush, CommitPop, Count, PushStart, PopStart, Steal, Goto, Leave, Step
      <4> QED
        BY <3>1, <4>1, <4>2
    <3> QED
      BY <1>1, <3>1, Zenon
  <2>5. ~Call(t)
    <3>1. th[t].pc # "idle"
      BY <1>1 DEF IInv, ThreadInv, ByOp
    <3>2. Call(t) => At(t, "idle") \/ th' = th
      BY Zenon DEF Call, PushStart, PopStart, Steal
    <3> QED
      BY <1>1, <3>1, <3>2, Zenon DEF At
  <2> QED
    BY <1>1, <2>2, <2>3, <2>4, <2>5, RunNears, PreemptNears, Zenon
<1>2. IInv /\ [Next]_vars
        => [\A t \in Thread : th[t].op \in {"push", "push_tailed"} /\ th'[t] # th[t]
                => Distance(th'[t]) < Distance(th[t])]_vars
  BY <1>1, Zenon
<1> QED
  BY <1>2, Inductive, PTL DEF Spec, PushNearsEnd
=============================================================================
