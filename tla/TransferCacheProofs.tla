------------------------ MODULE TransferCacheProofs -------------------------
(***************************************************************************)
(* The theorems about TransferCache: its invariants, the hint, and that it *)
(* implements BlockPool, for any sets of threads and blocks and any tag    *)
(* width, as long as no operation stalls for TagMod updates of its word    *)
(* (MaxLag < TagMod).                                                      *)
(***************************************************************************)
EXTENDS TransferCache, SequenceTheorems, TLAPS

-----------------------------------------------------------------------------
(* Pushing a chain on a stack and taking one off it                        *)

\* The blocks of a chain are exactly the values at its positions.
LEMMA InBlocks ==
    ASSUME NEW s
    PROVE  /\ \A i \in 1..Len(s) : s[i] \in Blocks(s)
           /\ \A b \in Blocks(s) : \E i \in 1..Len(s) : s[i] = b
BY DEF Blocks

\* A push of chain c: the stack gains the blocks of c, and stays free of
\* duplicates when c shares no block with it.
LEMMA StackPush ==
    ASSUME NEW S, NEW c \in Seq(S), NEW s \in Seq(S)
    PROVE  /\ Blocks(c \o s) = Blocks(c) \cup Blocks(s)
           /\ Distinct(c) /\ Distinct(s) /\ Blocks(c) \cap Blocks(s) = {}
                => Distinct(c \o s)
<1> DEFINE r == c \o s
           n == Len(c)
           m == Len(s)
<1>1. /\ n \in Nat /\ m \in Nat /\ Len(r) = n + m
      /\ \A i \in 1..n : r[i] = c[i]
      /\ \A i \in (n + 1)..(n + m) : r[i] = s[i - n]
  BY ConcatProperties, LenProperties
<1>2. \A j \in 1..m : r[n + j] = s[j] /\ n + j \in 1..Len(r)
  BY <1>1
<1>3. \A i \in 1..n : i \in 1..Len(r)
  BY <1>1
<1>4. \A i \in 1..Len(r) : i \in 1..n \/ (i - n \in 1..m /\ r[i] = s[i - n])
  BY <1>1
<1>5. Blocks(r) = Blocks(c) \cup Blocks(s)
  <2>1. ASSUME NEW b \in Blocks(r) PROVE b \in Blocks(c) \cup Blocks(s)
    <3>1. PICK i \in 1..Len(r) : r[i] = b
      BY InBlocks, Zenon
    <3> QED
      BY <1>1, <1>4, <3>1, InBlocks
  <2>2. ASSUME NEW b \in Blocks(c) PROVE b \in Blocks(r)
    <3>1. PICK i \in 1..Len(c) : c[i] = b
      BY InBlocks
    <3>2. r[i] = b /\ i \in 1..Len(r)
      BY <1>1, <1>3, <3>1
    <3> QED
      BY <3>2, InBlocks, Zenon
  <2>3. ASSUME NEW b \in Blocks(s) PROVE b \in Blocks(r)
    <3>1. PICK i \in 1..Len(s) : s[i] = b
      BY InBlocks
    <3>2. r[n + i] = b /\ n + i \in 1..Len(r)
      BY <1>2, <3>1
    <3> HIDE DEF r, n
    <3> QED
      BY <3>2, InBlocks
  <2> HIDE DEF r
  <2> QED
    BY <2>1, <2>2, <2>3
<1>6. ASSUME Distinct(c), Distinct(s), Blocks(c) \cap Blocks(s) = {},
             NEW i \in 1..Len(r), NEW j \in 1..Len(r), r[i] = r[j]
      PROVE  i = j
  <2>1. CASE i \in 1..n /\ j \in 1..n
    BY <1>1, <1>6, <2>1 DEF Distinct
  <2>2. CASE i \notin 1..n /\ j \notin 1..n
    <3>1. i - n \in 1..m /\ j - n \in 1..m /\ s[i - n] = s[j - n]
      BY <1>4, <1>6, <2>2
    <3>2. i - n = j - n
      BY <1>6, <3>1 DEF Distinct
    <3> QED
      BY <1>1, <3>2
  <2>3. CASE i \in 1..n /\ j \notin 1..n
    <3>1. r[i] \in Blocks(c) /\ r[j] \in Blocks(s)
      BY <1>1, <1>4, <2>3, InBlocks
    <3> QED
      BY <1>6, <3>1
  <2>4. CASE i \notin 1..n /\ j \in 1..n
    <3>1. r[i] \in Blocks(s) /\ r[j] \in Blocks(c)
      BY <1>1, <1>4, <2>4, InBlocks
    <3> QED
      BY <1>6, <3>1
  <2> QED
    BY <2>1, <2>2, <2>3, <2>4
<1> QED
  BY <1>5, <1>6 DEF Distinct

\* A take of the top c of a stack: what stays keeps its order, and the blocks
\* divide between c and the rest without overlap.
LEMMA StackTake ==
    ASSUME NEW S, NEW s \in Seq(S), NEW c \in Seq(S), OnTop(c, s),
           NEW r, r = Below(c, s)
    PROVE  /\ r \in Seq(S) /\ Len(r) = Len(s) - Len(c)
           /\ \A i \in 1..Len(r) : r[i] = s[Len(c) + i] /\ Len(c) + i \in 1..Len(s)
           /\ Blocks(s) = Blocks(c) \cup Blocks(r)
           /\ Distinct(s) => Distinct(r) /\ Blocks(c) \cap Blocks(r) = {}
<1> DEFINE n == Len(c)
           m == Len(s)
<1>1. /\ n \in Nat /\ m \in Nat /\ n <= m /\ \A i \in 1..n : c[i] = s[i]
  BY LenProperties DEF OnTop
<1>2. /\ r \in Seq(S) /\ Len(r) = m - n
      /\ \A i \in 1..(m - n) : r[i] = s[n + i]
  <2>1. \A i \in (n + 1)..m : i \in 1..m
    BY <1>1
  <2>2. \A i \in (n + 1)..m : s[i] \in S
    BY <2>1, ElementOfSeq
  <2> QED
    BY <1>1, <2>2 DEF Below
<1>3. \A i \in 1..Len(r) : n + i \in 1..m
  BY <1>1, <1>2
<1>4. \A i \in 1..m : i \in 1..n \/ (i - n \in 1..Len(r) /\ r[i - n] = s[i])
  BY <1>1, <1>2
<1>5. \A i \in 1..n : i \in 1..m
  BY <1>1
<1>6. Blocks(s) = Blocks(c) \cup Blocks(r)
  <2>1. ASSUME NEW b \in Blocks(s) PROVE b \in Blocks(c) \cup Blocks(r)
    <3>1. PICK i \in 1..Len(s) : s[i] = b
      BY InBlocks
    <3> QED
      BY <1>1, <1>4, <3>1, InBlocks, Zenon
  <2>2. ASSUME NEW b \in Blocks(c) PROVE b \in Blocks(s)
    <3>1. PICK i \in 1..n : c[i] = b
      BY InBlocks
    <3>2. s[i] = b /\ i \in 1..Len(s)
      BY <1>1, <1>5, <3>1
    <3> QED
      BY <3>2, InBlocks
  <2>3. ASSUME NEW b \in Blocks(r) PROVE b \in Blocks(s)
    <3>1. PICK i \in 1..Len(r) : r[i] = b
      BY InBlocks
    <3>2. s[n + i] = b /\ n + i \in 1..Len(s)
      BY <1>2, <1>3, <3>1
    <3> HIDE DEF n
    <3> QED
      BY <3>2, InBlocks
  <2> QED
    BY <2>1, <2>2, <2>3
<1>7. ASSUME Distinct(s) PROVE Distinct(r) /\ Blocks(c) \cap Blocks(r) = {}
  <2>1. ASSUME NEW i \in 1..Len(r), NEW j \in 1..Len(r), r[i] = r[j] PROVE i = j
    <3>1. n + i = n + j
      BY <1>2, <1>3, <1>7, <2>1, Zenon DEF Distinct
    <3> QED
      BY <1>1, <3>1
  <2>2. ASSUME NEW i \in 1..n, NEW j \in 1..Len(r) PROVE c[i] # r[j]
    <3>1. i # n + j
      BY <1>1
    <3> QED
      BY <1>1, <1>2, <1>3, <1>5, <1>7, <3>1 DEF Distinct
  <2>3. ASSUME NEW b \in Blocks(c), b \in Blocks(r) PROVE FALSE
    <3>1. (\E i \in 1..n : c[i] = b) /\ (\E j \in 1..Len(r) : r[j] = b)
      BY <2>3, InBlocks
    <3> QED
      BY <2>2, <3>1
  <2> QED
    BY <2>1, <2>3 DEF Distinct
<1> QED
  BY <1>1, <1>2, <1>3, <1>6, <1>7

-----------------------------------------------------------------------------
-----------------------------------------------------------------------------
(* Type correctness of the steps.                                          *)

\* Chains are nonempty sequences of blocks.
LEMMA ChainsAreSeqs ==
    ASSUME NEW c \in Chains
    PROVE  c \in Seq(Block) /\ Len(c) \in 1..MaxBatch
<1>1. PICK n \in 1..MaxBatch : c \in [1..n -> Block]
  BY DEF Chains
<1>2. n \in Nat
  BY <1>1, ConstAssumption
<1>3. c \in Seq(Block)
  BY <1>1, <1>2
<1>4. Len(c) = n
  BY <1>1, <1>2, <1>3
<1> QED
  BY <1>1, <1>3, <1>4

\* A thread record built from well-typed fields is well typed.
LEMMA RecType ==
    ASSUME NEW pc \in PC, NEW op \in Op, NEW l \in List, NEW w \in Word,
           NEW c \in Seq(Block), NEW n \in 0..MaxBatch
    PROVE  Rec(pc, op, l, w, c, n) \in ThreadRec
BY DEF Rec, ThreadRec, Ptr

\* The empty word and the records of a thread between operations are well typed.
LEMMA RecTypes == NullWord \in Word /\ \A pc \in PC : At(pc) \in ThreadRec
<1>1. NullWord \in Word
  BY ConstAssumption DEF NullWord, Word, Ptr
<1>2. <<>> \in Seq(Block) /\ 0 \in 0..MaxBatch
  BY EmptySeq, ConstAssumption
<1> QED
  BY <1>1, <1>2, RecType, Zenon DEF At, Op, List

\* pack gives a word: the pointer it is handed and a tag below TagMod.
LEMMA PackType ==
    ASSUME NEW p \in Ptr, NEW w \in Word
    PROVE  Pack(p, w) \in Word
BY ConstAssumption DEF Pack, Word

\* A successful compare-exchange keeps the words and the lags in their types.
LEMMA UpdateType ==
    ASSUME TypeOK, NEW t \in Thread, NEW l \in List, NEW w \in Word, Update(t, l, w)
    PROVE  word' \in [List -> Word] /\ lag' \in [Thread -> 0..MaxLag]
BY ConstAssumption DEF Update, TypeOK, Stalled

\* The initial state is well typed.
LEMMA InitType == Init => TypeOK
<1> SUFFICES ASSUME Init PROVE TypeOK
  OBVIOUS
<1>1. word \in [List -> Word] /\ next \in [Block -> Ptr] /\ hint \in BOOLEAN
  BY RecTypes, Zenon DEF Init, Ptr
<1>2. held \in [Thread -> SUBSET Block]
  BY DEF Init
<1>3. th \in [Thread -> ThreadRec]
  BY RecTypes DEF Init, Idle, PC
<1>4. content \in [List -> Seq(Block)] /\ lag \in [Thread -> 0..MaxLag]
  BY ConstAssumption DEF Init
<1> QED
  BY <1>1, <1>2, <1>3, <1>4 DEF TypeOK

\* A thread's record keeps its type under every assignment the actions make.
LEMMA StepType ==
    ASSUME TypeOK, NEW t \in Thread, NEW r \in ThreadRec, Step(t, r)
    PROVE  th' \in [Thread -> ThreadRec]
BY DEF TypeOK, Step

\* Linking a chain writes only blocks and NULL into next.
LEMMA LinkedType ==
    ASSUME TypeOK, NEW c \in Seq(Block)
    PROVE  Linked(c) \in [Block -> Ptr]
<1> SUFFICES ASSUME NEW b \in Block, NEW j \in 1..(Len(c) - 1), c[j] = b
             PROVE  c[(CHOOSE k \in 1..(Len(c) - 1) : c[k] = b) + 1] \in Ptr
  BY Zenon DEF Linked, TypeOK, Ptr
<1>1. (CHOOSE k \in 1..(Len(c) - 1) : c[k] = b) \in 1..(Len(c) - 1)
  OBVIOUS
<1> QED
  BY <1>1 DEF Ptr

\* Every step of the transfer cache keeps the types.
LEMMA TypeStep == IInv /\ [Next]_vars => TypeOK'
<1> SUFFICES ASSUME IInv, [Next]_vars PROVE TypeOK'
  OBVIOUS
<1>0. TypeOK /\ \A t \in Thread : ThreadInv(t)
  BY DEF IInv
<1> USE <1>0
<1>1. CASE UNCHANGED vars
  BY <1>1 DEF vars, TypeOK
<1>2. ASSUME NEW t \in Thread, ThreadStep(t) PROVE TypeOK'
  <2> DEFINE r == th[t]
  <2>0. /\ r \in ThreadRec /\ Idle \in ThreadRec
        /\ \A pc \in PC : At(pc) \in ThreadRec
        /\ NullWord \in Word /\ NULL \in Ptr
        /\ \A l \in List : word[l] \in Word
        /\ r.lst \in List /\ "list" \in List
        /\ <<>> \in Seq(Block)
    BY RecTypes, EmptySeq DEF TypeOK, Idle, PC, Ptr, ThreadRec, List
  <2>1. ASSUME NEW l \in List, NEW c \in Chains, PushStart(t, l, c) PROVE TypeOK'
    <3>1. c \in Seq(Block)
      BY ChainsAreSeqs
    <3>2. Linked(c) \in [Block -> Ptr]
      BY <3>1, LinkedType
    <3>3. Rec("push_load", "push", l, NullWord, c, 0) \in ThreadRec
      BY <2>0, <3>1, RecType, ConstAssumption DEF PC, Op
    <3> QED
      BY <2>1, <3>2, <3>3, StepType DEF PushStart, TypeOK
  <2>2. CASE PushLoad(t)
    <3>1. [r EXCEPT !.pc = "push_link", !.old = word[r.lst]] \in ThreadRec
      BY <2>0, ZenonT(60) DEF ThreadRec, PC, Op
    <3> QED
      BY <2>2, <3>1, StepType, ConstAssumption DEF PushLoad, TypeOK
  <2>3. CASE PushLink(t)
    BY <2>3, <2>0, StepType, Zenon DEF PushLink, TypeOK, ThreadRec, PC, Word
  <2>4. CASE PushCas(t)
    <3>9. PushReady(t) /\ r.pc = "push_cas"
      BY <2>4, Zenon DEF PushCas, ThreadInv
    <3>0. r.chain \in Seq(Block) /\ r.chain[1] \in Ptr
      <4>1. r.chain \in Chains
        BY <3>9 DEF PushReady
      <4> QED
        BY <4>1, ChainsAreSeqs DEF Ptr
    <3>1. Pack(r.chain[1], r.old) \in Word
      BY <2>0, <3>0, PackType, Zenon DEF ThreadRec
    <3>2. word' \in [List -> Word] /\ lag' \in [Thread -> 0..MaxLag]
      BY <2>4, <2>0, <3>1, UpdateType, Zenon DEF PushCas, ThreadRec
    <3>3. th' \in [Thread -> ThreadRec]
      BY <2>4, <2>0, StepType, Zenon DEF PushCas, PC
    <3>4. content' \in [List -> Seq(Block)]
      BY <2>4, <2>0, <3>0 DEF PushCas, TypeOK
    <3>5. held' \in [Thread -> SUBSET Block]
      BY <2>4 DEF PushCas, TypeOK
    <3> QED
      BY <2>4, <2>0, <3>0, <3>2, <3>3, <3>4, <3>5 DEF PushCas, TypeOK
  <2>5. CASE PushRetry(t)
    BY <2>5, <2>0, StepType, Zenon DEF PushRetry, TypeOK, ThreadRec, PC
  <2>6. CASE MarkLoad(t)
    BY <2>6, <2>0, StepType DEF MarkLoad, TypeOK, PC
  <2>7. CASE MarkOr(t)
    BY <2>7, <2>0, StepType DEF MarkOr, TypeOK
  <2>8. CASE ClearLoad(t)
    BY <2>8, <2>0, StepType DEF ClearLoad, TypeOK, PC
  <2>9. CASE ClearAnd(t)
    BY <2>9, <2>0, StepType, Zenon DEF ClearAnd, TypeOK, PC
  <2>10. CASE Recheck(t)
    BY <2>10, <2>0, StepType DEF Recheck, TypeOK, PC
  <2>11. CASE PopSingleStart(t)
    <3>1. Rec("pop_load", "pop_single", "list", NullWord, <<>>, 1) \in ThreadRec
      BY <2>0, ConstAssumption DEF Rec, ThreadRec, PC, Op
    <3> QED
      BY <2>11, <3>1, StepType, ConstAssumption DEF PopSingleStart, TypeOK
  <2>12. ASSUME NEW n \in 1..MaxBatch, PopBatchStart(t, n) PROVE TypeOK'
    <3>1. n \in 0..MaxBatch
      BY ConstAssumption
    <3>2. Rec("pop_load", "pop_batch", "list", NullWord, <<>>, n) \in ThreadRec
      BY <2>0, <3>1 DEF Rec, ThreadRec, PC, Op
    <3> QED
      BY <2>12, <3>2, StepType DEF PopBatchStart, TypeOK
  <2>13. CASE PopLoad(t)
    <3> DEFINE w == word[r.lst]
    <3>1. w \in Word /\ (w.ptr # NULL => <<w.ptr>> \in Seq(Block))
      BY <2>0 DEF Word, Ptr
    <3> HIDE DEF w
    <3>2. w.ptr # NULL => [r EXCEPT !.pc = "pop_walk", !.old = w, !.chain = <<w.ptr>>] \in ThreadRec
      BY <2>0, <3>1, Zenon DEF ThreadRec, PC
    <3>3. [r EXCEPT !.lst = "trimmed"] \in ThreadRec
      BY <2>0 DEF ThreadRec, List
    <3>4. th' \in [Thread -> ThreadRec]
      BY <2>13, <2>0, <3>2, <3>3, StepType, Zenon DEF PopLoad, PC, w
    <3> QED
      BY <2>13, <3>4, ConstAssumption DEF PopLoad, TypeOK
  <2>14. CASE PopWalk(t)
    <3> DEFINE n == next[r.chain[Len(r.chain)]]
    <3>1. r.chain \in Seq(Block) /\ n \in Ptr
      BY <2>14, <2>0 DEF PopWalk, ThreadInv, PopSeen, TypeOK, ThreadRec
    <3> HIDE DEF n
    <3>2. n # NULL => [r EXCEPT !.chain = Append(r.chain, n)] \in ThreadRec
      <4>1. n # NULL => Append(r.chain, n) \in Seq(Block)
        BY <3>1 DEF Ptr
      <4> QED
        BY <2>0, <4>1, Zenon DEF ThreadRec
    <3>3. [r EXCEPT !.pc = "pop_cas", !.nxt = n] \in ThreadRec
      BY <2>0, <3>1, Zenon DEF ThreadRec, PC
    <3> QED
      BY <2>14, <3>2, <3>3, StepType, Zenon DEF PopWalk, TypeOK, n
  <2>15. CASE PopCas(t)
    <3>1. Pack(r.nxt, r.old) \in Word
      BY <2>0, PackType, Zenon DEF ThreadRec
    <3>2. word' \in [List -> Word] /\ lag' \in [Thread -> 0..MaxLag]
      BY <2>15, <2>0, <3>1, UpdateType, Zenon DEF PopCas, ThreadRec
    <3>3. th' \in [Thread -> ThreadRec]
      BY <2>15, <2>0, StepType DEF PopCas, PC
    <3>4. ASSUME NEW s \in Seq(Block), NEW k \in Nat PROVE SubSeq(s, k + 1, Len(s)) \in Seq(Block)
      OBVIOUS
    <3>5. content' \in [List -> Seq(Block)]
      BY <2>15, <2>0, <3>4 DEF PopCas, TypeOK, ThreadRec
    <3>6. held' \in [Thread -> SUBSET Block]
      BY <2>15, <2>0 DEF PopCas, TypeOK, ThreadRec, Blocks
    <3> QED
      BY <2>15, <3>2, <3>3, <3>5, <3>6, Zenon DEF PopCas, TypeOK
  <2>16. CASE PopRetry(t)
    <3>1. [r EXCEPT !.pc = "pop_load", !.old = NullWord, !.chain = <<>>, !.nxt = NULL] \in ThreadRec
      BY <2>0, ZenonT(60) DEF ThreadRec, PC, Op
    <3> QED
      BY <2>16, <3>1, StepType, ConstAssumption DEF PopRetry, TypeOK
  <2>17. CASE DetachStart(t)
    <3>1. Rec("detach_cas", "detach", "list", word["list"], <<>>, 0) \in ThreadRec
      BY <2>0, ConstAssumption DEF Rec, ThreadRec, PC, Op
    <3> QED
      BY <2>17, <3>1, StepType, ConstAssumption DEF DetachStart, TypeOK
  <2>18. CASE DetachCas(t)
    <3>1. Pack(NULL, r.old) \in Word
      BY <2>0, PackType DEF ThreadRec
    <3>2. word' \in [List -> Word] /\ lag' \in [Thread -> 0..MaxLag]
      BY <2>18, <3>1, UpdateType DEF DetachCas, List
    <3>3. th' \in [Thread -> ThreadRec]
      BY <2>18, <2>0, StepType DEF DetachCas
    <3>4. held' \in [Thread -> SUBSET Block]
      BY <2>18 DEF DetachCas, TypeOK, Blocks, List
    <3>5. content' \in [List -> Seq(Block)]
      BY <2>18, <2>0 DEF DetachCas, TypeOK
    <3> QED
      BY <2>18, <3>2, <3>3, <3>4, <3>5 DEF DetachCas, TypeOK
  <2>19. CASE DetachRetry(t)
    <3>1. [r EXCEPT !.old = word["list"]] \in ThreadRec
      BY <2>0, Zenon DEF TypeOK, ThreadRec, List
    <3> QED
      BY <2>19, <2>0, <3>1, StepType, ConstAssumption DEF DetachRetry, TypeOK
  <2>20. ASSUME NEW b \in Block, NEW p \in Ptr, Relink(t, b, p) PROVE TypeOK'
    BY <2>20 DEF Relink, TypeOK
  <2> QED
    BY <1>2, <2>1, <2>2, <2>3, <2>4, <2>5, <2>6, <2>7, <2>8, <2>9, <2>10, <2>11,
       <2>12, <2>13, <2>14, <2>15, <2>16, <2>17, <2>18, <2>19, <2>20, Zenon DEF ThreadStep
<1> QED
  BY <1>1, <1>2 DEF Next

-----------------------------------------------------------------------------
(* The tags.  A compare-exchange that succeeds has missed no update.       *)

\* A compare-exchange that succeeds met no update since its load: fewer than
\* TagMod updates cannot bring the tag back.
LEMMA CasFresh ==
    ASSUME TypeOK, NEW t \in Thread, TagFollows(t), th[t].pc \in Window,
           word[th[t].lst] = th[t].old
    PROVE  lag[t] = 0
<1>1. /\ th[t].old.tag \in 0..(TagMod - 1) /\ lag[t] \in 0..MaxLag
  BY DEF TypeOK, ThreadRec, Word
<1>2. \/ th[t].old.tag = th[t].old.tag + lag[t]
      \/ th[t].old.tag + TagMod = th[t].old.tag + lag[t]
  BY DEF TagFollows
<1> QED
  BY <1>1, <1>2, ConstAssumption

\* Another thread's update puts a window on the same word one tag further
\* behind, and leaves the windows on the other word alone.
LEMMA OthersTag ==
    ASSUME TypeOK, NEW t \in Thread, NEW l \in List, NEW p \in Ptr,
           Update(t, l, Pack(p, word[l])),
           NEW u \in Thread, u # t, TagFollows(u), th'[u] = th[u]
    PROVE  /\ TagFollows(u)'
           /\ th[u].pc \in Window /\ th[u].lst = l => lag'[u] # 0
           /\ ~(th[u].pc \in Window /\ th[u].lst = l) => lag'[u] = lag[u]
<1>1. CASE th[u].pc \in Window /\ th[u].lst = l
  <2>1. /\ lag'[u] = lag[u] + 1 /\ lag[u] < MaxLag
        /\ word'[l] = [ptr |-> p, tag |-> (word[l].tag + 1) % TagMod]
    BY <1>1 DEF Update, Stalled, TypeOK, Pack
  <2> DEFINE a == word[l].tag
             o == th[u].old.tag
             k == lag[u]
  <2>2. a \in 0..(TagMod - 1) /\ o \in 0..(TagMod - 1) /\ k \in 0..MaxLag
    BY Zenon DEF TypeOK, ThreadRec, Word
  <2>3. a = o + k \/ a + TagMod = o + k
    BY <1>1 DEF TagFollows
  <2>4. (a + 1) % TagMod = IF a = TagMod - 1 THEN 0 ELSE a + 1
    <3> HIDE DEF a
    <3> QED  BY <2>2, ConstAssumption
  <2>5. \/ (a + 1) % TagMod = o + (k + 1)
        \/ ((a + 1) % TagMod) + TagMod = o + (k + 1)
    <3> HIDE DEF a, o, k
    <3> QED  BY <2>1, <2>2, <2>3, <2>4, ConstAssumption DEF k
  <2>6. k + 1 # 0
    BY <2>2, ConstAssumption
  <2> QED
    BY <1>1, <2>1, <2>5, <2>6 DEF TagFollows
<1>2. CASE ~(th[u].pc \in Window /\ th[u].lst = l)
  <2>1. lag'[u] = lag[u]
    BY <1>2 DEF Update, Stalled, TypeOK
  <2>2. th[u].lst # l => word'[th[u].lst] = word[th[u].lst]
    BY DEF Update, TypeOK, ThreadRec
  <2> QED
    BY <1>2, <2>1, <2>2 DEF TagFollows
<1> QED
  BY <1>1, <1>2, Zenon

-----------------------------------------------------------------------------
(* What a step leaves alone.  The global conjuncts and the other threads'  *)
(* invariants depend only on state that the step does not change.          *)

\* Steps of t that move no block and write no link.
LEMMA QuietFrame ==
    ASSUME IInv, NEW t \in Thread,
           UNCHANGED <<word, next, held, content>>,
           \A u \in Thread : u # t => th'[u] = th[u] /\ lag'[u] = lag[u]
    PROVE  /\ SingleOwner' /\ NoBlockLost' /\ StackShape'
           /\ \A u \in Thread : u # t => ThreadInv(u)'
<1>1. SingleOwner' /\ NoBlockLost' /\ StackShape'
  BY DEF IInv, SingleOwner, NoBlockLost, StackShape
<1>2. ASSUME NEW u \in Thread, u # t PROVE ThreadInv(u)'
  <2>1. ThreadInv(u)
    BY DEF IInv
  <2> QED
    BY <1>2, <2>1, Zenon
    DEF ThreadInv, PushReady, TagFollows, PopSeen, DetachOnList
<1> QED
  BY <1>1, <1>2, Zenon

\* Steps of t that write links of blocks t holds.
LEMMA LinkFrame ==
    ASSUME IInv, NEW t \in Thread,
           \A b \in Block \ held[t] : next'[b] = next[b],
           UNCHANGED <<word, held, content, lag>>,
           \A u \in Thread : u # t => th'[u] = th[u]
    PROVE  /\ SingleOwner' /\ NoBlockLost' /\ StackShape'
           /\ \A u \in Thread : u # t => ThreadInv(u)'
<1>1. SingleOwner' /\ NoBlockLost'
  BY DEF IInv, SingleOwner, NoBlockLost
<1>2. ASSUME NEW l \in List, NEW i \in 1..Len(content[l])
      PROVE  next'[content[l][i]] = next[content[l][i]]
  <2>1. content[l][i] \in Block
    BY ElementOfSeq DEF IInv, TypeOK
  <2>2. content[l][i] \notin held[t]
    BY DEF IInv, SingleOwner, Blocks
  <2> QED
    BY <2>1, <2>2
<1>3. StackShape'
  BY <1>2 DEF IInv, StackShape
<1>4. ASSUME NEW u \in Thread, u # t PROVE ThreadInv(u)'
  <2>1. ThreadInv(u) /\ held[u] \cap held[t] = {}
    BY <1>4 DEF IInv, SingleOwner
  <2>2. /\ th'[u] = th[u] /\ lag'[u] = lag[u] /\ word' = word
        /\ content' = content /\ held' = held
    BY <1>4, Zenon
  <2>3. TagFollows(u)' /\ PopSeen(u)' /\ DetachOnList(u)'
    BY <2>1, <2>2, ZenonT(30) DEF ThreadInv, TagFollows, PopSeen, DetachOnList
  <2>4. PushReady(u)'
    <3>1. SUFFICES ASSUME th[u].pc \in {"push_load", "push_link", "push_cas"}
                   PROVE  PushReady(u)'
      BY <2>2, Zenon DEF PushReady
    <3>2. /\ th[u].chain \in Chains /\ Blocks(th[u].chain) \subseteq held[u]
          /\ PushReady(u)
      BY <2>1, <3>1 DEF ThreadInv, PushReady
    <3>3. ASSUME NEW i \in 1..Len(th[u].chain)
          PROVE  next'[th[u].chain[i]] = next[th[u].chain[i]]
      <4>1. th[u].chain[i] \in held[u] /\ th[u].chain[i] \in Block
        BY <3>2, ChainsAreSeqs, ElementOfSeq DEF Blocks
      <4> QED
        BY <4>1, <2>1
    <3>4. Len(th[u].chain) \in Nat \ {0}
      BY <3>2, ChainsAreSeqs
    <3>5. next'[th[u].chain[Len(th[u].chain)]] = next[th[u].chain[Len(th[u].chain)]]
      BY <3>3, <3>4
    <3>6. \A i \in 1..(Len(th[u].chain) - 1) : next'[th[u].chain[i]] = th[u].chain[i + 1]
      BY <3>1, <3>2, <3>3, <3>4 DEF PushReady
    <3> QED
      BY <2>2, <3>1, <3>2, <3>5, <3>6, Zenon DEF PushReady
  <2> QED
    BY <2>3, <2>4 DEF ThreadInv
<1> QED
  BY <1>1, <1>3, <1>4

\* A successful compare-exchange of t on l, as the other threads see it.
LEMMA CasFrame ==
    ASSUME IInv, NEW t \in Thread, NEW l \in List, NEW p \in Ptr,
           Update(t, l, Pack(p, word[l])), next' = next,
           \A k \in List : k # l => content'[k] = content[k],
           \A u \in Thread : u # t => th'[u] = th[u] /\ held'[u] = held[u]
    PROVE  \A u \in Thread : u # t => ThreadInv(u)'
<1> SUFFICES ASSUME NEW u \in Thread, u # t PROVE ThreadInv(u)'
  OBVIOUS
<1>1. /\ ThreadInv(u) /\ th[u] \in ThreadRec
      /\ th'[u] = th[u] /\ held'[u] = held[u]
  BY Zenon DEF IInv, TypeOK
<1>2. /\ TagFollows(u)'
      /\ th[u].pc \in Window /\ th[u].lst = l => lag'[u] # 0
      /\ ~(th[u].pc \in Window /\ th[u].lst = l) => lag'[u] = lag[u]
  BY <1>1, OthersTag, Zenon DEF IInv, ThreadInv
<1>3. PushReady(u)' /\ DetachOnList(u)'
  BY <1>1 DEF ThreadInv, PushReady, DetachOnList
<1>4. PopSeen(u)'
  <2>1. SUFFICES ASSUME th[u].pc \in {"pop_walk", "pop_cas"} PROVE PopSeen(u)'
    BY <1>1, Zenon DEF PopSeen
  <2>2. CASE th[u].lst = l
    BY <1>1, <1>2, <2>1, <2>2, Zenon DEF ThreadInv, PopSeen, Window
  <2>3. CASE th[u].lst # l
    <3>1. content'[th[u].lst] = content[th[u].lst] /\ lag'[u] = lag[u]
      BY <1>1, <1>2, <2>3 DEF ThreadRec
    <3>2. PopSeen(u)
      BY <1>1, Zenon DEF ThreadInv
    <3> QED
      BY <1>1, <3>1, <3>2, SMTT(30) DEF PopSeen
  <2> QED
    BY <2>2, <2>3, Zenon
<1> QED
  BY <1>2, <1>3, <1>4 DEF ThreadInv

\* A thread that is between operations, or that only works on the hint.
LEMMA RestInv ==
    ASSUME NEW t \in Thread, NEW pc, th'[t] = At(pc),
           pc \in {"idle", "mark_load", "mark_or", "clear_load", "clear_and", "recheck"}
    PROVE  ThreadInv(t)'
<1>1. th'[t].pc = pc
  BY DEF At, Rec
<1>2. PushReady(t)' /\ DetachOnList(t)'
  BY <1>1 DEF PushReady, DetachOnList
<1>3. TagFollows(t)' /\ PopSeen(t)'
  BY <1>1 DEF TagFollows, PopSeen, Window
<1> QED
  BY <1>2, <1>3, Zenon DEF ThreadInv

\* A step of t, as far as its record is concerned.
LEMMA StepOthers ==
    ASSUME TypeOK, NEW t \in Thread, NEW r, Step(t, r)
    PROVE  th'[t] = r /\ \A u \in Thread : u # t => th'[u] = th[u]
BY DEF TypeOK, Step
-----------------------------------------------------------------------------
(* The steps that only read the stacks.                                    *)

\* A step that writes no shared memory keeps the invariant when it keeps the
\* conditions of its own thread.
LEMMA QuietInv ==
    ASSUME IInv, TypeOK', NEW t \in Thread, NEW r, Step(t, r),
           UNCHANGED <<word, next, held, content>>,
           \A u \in Thread : u # t => lag'[u] = lag[u],
           ThreadInv(t)'
    PROVE  IInv'
<1>1. \A u \in Thread : u # t => th'[u] = th[u]
  BY StepOthers DEF IInv
<1>2. /\ SingleOwner' /\ NoBlockLost' /\ StackShape'
      /\ \A u \in Thread : u # t => ThreadInv(u)'
  BY <1>1, QuietFrame
<1> QED
  BY <1>2 DEF IInv

\* The load of a push: the tag it saw is the current one.
LEMMA PushLoadInv ==
    ASSUME IInv, TypeOK', NEW t \in Thread, PushLoad(t)
    PROVE  IInv'
<1>1. th[t] \in ThreadRec /\ th[t].pc = "push_load" /\ PushReady(t)
  BY DEF PushLoad, IInv, TypeOK, ThreadInv
<1>2. th'[t] = [th[t] EXCEPT !.pc = "push_link", !.old = word[th[t].lst]]
  BY StepOthers DEF PushLoad, IInv
<1>3. /\ th'[t].pc = "push_link" /\ th'[t].old = word[th[t].lst]
      /\ th'[t].lst = th[t].lst /\ th'[t].chain = th[t].chain
  BY <1>1, <1>2 DEF ThreadRec
<1>4. lag'[t] = 0 /\ \A u \in Thread : u # t => lag'[u] = lag[u]
  BY DEF PushLoad, IInv, TypeOK
<1>5. TagFollows(t)'
  <2>1. word[th[t].lst].tag \in Nat
    BY <1>1 DEF IInv, TypeOK, ThreadRec, Word
  <2> QED
    BY <1>3, <1>4, <2>1, SMTT(30) DEF PushLoad, TagFollows
<1>6. PushReady(t)' /\ PopSeen(t)' /\ DetachOnList(t)'
  BY <1>1, <1>3 DEF PushLoad, PushReady, PopSeen, DetachOnList
<1> QED
  BY <1>4, <1>5, <1>6, QuietInv DEF PushLoad, ThreadInv

\* A failed compare-exchange of a push: the chain is still ready to go.
LEMMA PushRetryInv ==
    ASSUME IInv, TypeOK', NEW t \in Thread, PushRetry(t)
    PROVE  IInv'
<1>1. th[t] \in ThreadRec /\ th[t].pc = "push_cas" /\ PushReady(t)
  BY DEF PushRetry, IInv, TypeOK, ThreadInv
<1>2. th'[t] = [th[t] EXCEPT !.pc = "push_load", !.old = NullWord]
  BY StepOthers DEF PushRetry, IInv
<1>3. th'[t].pc = "push_load" /\ th'[t].chain = th[t].chain
  BY <1>1, <1>2, Zenon DEF ThreadRec
<1>4. ThreadInv(t)'
  BY <1>1, <1>3, Zenon
  DEF PushRetry, ThreadInv, PushReady, TagFollows, PopSeen, DetachOnList, Window
<1> QED
  BY <1>4, QuietInv DEF PushRetry

\* A pop about to load has no obligations.
LEMMA PopLoadPC ==
    ASSUME NEW t \in Thread, th'[t].pc = "pop_load"
    PROVE  ThreadInv(t)'
BY DEF ThreadInv, PushReady, TagFollows, PopSeen, DetachOnList, Window

\* The load of a pop: the head it saw is the top of the stack.
LEMMA PopLoadInv ==
    ASSUME IInv, TypeOK', NEW t \in Thread, PopLoad(t)
    PROVE  IInv'
<1> DEFINE l == th[t].lst
           w == word[l]
<1>1. th[t] \in ThreadRec /\ l \in List /\ w \in Word /\ th[t].pc = "pop_load"
  BY DEF PopLoad, IInv, TypeOK, ThreadRec
<1>2. CASE /\ w.ptr # NULL
           /\ Step(t, [th[t] EXCEPT !.pc = "pop_walk", !.old = w, !.chain = <<w.ptr>>])
           /\ lag' = [lag EXCEPT ![t] = 0]
  <2>1. th'[t] = [th[t] EXCEPT !.pc = "pop_walk", !.old = w, !.chain = <<w.ptr>>]
    BY <1>2, StepOthers DEF IInv
  <2>2. /\ th'[t].pc = "pop_walk" /\ th'[t].old = w /\ th'[t].lst = l
        /\ th'[t].chain = <<w.ptr>>
    BY <1>1, <2>1 DEF ThreadRec
  <2>3. lag'[t] = 0 /\ \A u \in Thread : u # t => lag'[u] = lag[u]
    BY <1>2 DEF IInv, TypeOK
  <2>4. TagFollows(t)'
    BY <1>1, <2>2, <2>3, SMTT(30) DEF PopLoad, TagFollows, Word
  <2>5. PopSeen(t)'
    <3>1. content[l] \in Seq(Block) /\ w.ptr = IF content[l] = <<>> THEN NULL ELSE content[l][1]
      BY <1>1 DEF IInv, TypeOK, StackShape
    <3>2. content[l] # <<>> /\ content[l][1] = w.ptr
      BY <1>2, <3>1
    <3>3. Len(content[l]) \in Nat \ {0}
      BY <3>1, <3>2, EmptySeq
    <3>4. Len(<<w.ptr>>) = 1 /\ <<w.ptr>>[1] = w.ptr /\ <<w.ptr>> # <<>>
      OBVIOUS
    <3>5. content' = content
      BY Zenon DEF PopLoad
    <3> HIDE DEF w, l
    <3> QED
      BY <2>2, <3>2, <3>3, <3>4, <3>5 DEF PopSeen
  <2>6. PushReady(t)' /\ DetachOnList(t)'
    BY <2>2 DEF PushReady, DetachOnList
  <2> QED
    BY <1>2, <2>3, <2>4, <2>5, <2>6, QuietInv DEF PopLoad, ThreadInv
<1>3. CASE /\ w.ptr = NULL /\ th[t].lst = "list"
           /\ Step(t, [th[t] EXCEPT !.lst = "trimmed"])
           /\ UNCHANGED lag
  <2>1. th'[t] = [th[t] EXCEPT !.lst = "trimmed"]
    BY <1>3, StepOthers DEF IInv
  <2>2. th'[t].pc = "pop_load"
    BY <1>1, <2>1 DEF ThreadRec
  <2> QED
    BY <1>3, <2>2, PopLoadPC, QuietInv DEF PopLoad
<1>4. CASE /\ w.ptr = NULL /\ th[t].lst = "trimmed"
           /\ Step(t, At("clear_load"))
           /\ UNCHANGED lag
  BY <1>4, StepOthers, RestInv, QuietInv DEF PopLoad, IInv
<1> QED
  BY <1>2, <1>3, <1>4 DEF PopLoad

\* One step of the walk of a pop: the chain grows by the next block of the
\* stack, unless the stack changed and the compare-exchange will fail.
LEMMA PopWalkInv ==
    ASSUME IInv, TypeOK', NEW t \in Thread, PopWalk(t)
    PROVE  IInv'
<1> DEFINE c == th[t].chain
           s == content[th[t].lst]
           n == next[c[Len(c)]]
<1>1. /\ th[t] \in ThreadRec /\ th[t].pc = "pop_walk" /\ PopSeen(t) /\ TagFollows(t)
      /\ c \in Seq(Block) /\ s \in Seq(Block) /\ th[t].lst \in List
  BY Zenon DEF PopWalk, IInv, TypeOK, ThreadRec, ThreadInv
<1>2. /\ Len(c) \in Nat \ {0} /\ Len(s) \in Nat
      /\ lag[t] = 0 => Len(c) <= Len(s) /\ \A i \in 1..Len(c) : c[i] = s[i]
  BY <1>1, EmptySeq DEF PopSeen
<1>3. lag[t] = 0 => n = IF Len(c) = Len(s) THEN NULL ELSE s[Len(c) + 1]
  <2>1. \A i \in 1..Len(s) : next[s[i]] = IF i = Len(s) THEN NULL ELSE s[i + 1]
    BY <1>1, Zenon DEF IInv, StackShape
  <2>2. lag[t] = 0 => Len(c) \in 1..Len(s) /\ c[Len(c)] = s[Len(c)]
    <3> HIDE DEF c, s
    <3> QED
      BY <1>2
  <2> HIDE DEF c, s
  <2> QED
    BY <2>1, <2>2, Zenon
<1>4. /\ UNCHANGED <<word, next, held, content>> /\ lag' = lag
      /\ \/ /\ Len(c) < th[t].want /\ n # NULL
            /\ Step(t, [th[t] EXCEPT !.chain = Append(c, n)])
         \/ Step(t, [th[t] EXCEPT !.pc = "pop_cas", !.nxt = n])
  BY DEF PopWalk
<1>5. CASE /\ n # NULL
           /\ Step(t, [th[t] EXCEPT !.chain = Append(c, n)])
  <2>1. th'[t] = [th[t] EXCEPT !.chain = Append(c, n)]
    BY <1>5, StepOthers, Zenon DEF IInv
  <2>2. /\ th'[t].pc = "pop_walk" /\ th'[t].old = th[t].old /\ th'[t].lst = th[t].lst
        /\ th'[t].chain = Append(c, n)
    BY <1>1, <2>1, Zenon DEF ThreadRec
  <2>3. PopSeen(t)'
    <3> DEFINE d == Append(c, n)
    <3>1. /\ Len(d) = Len(c) + 1 /\ d # <<>> /\ d[Len(c) + 1] = n
          /\ \A i \in 1..Len(c) : d[i] = c[i]
      <4> HIDE DEF c, n
      <4> QED
        BY <1>1, <1>2
    <3>2. lag[t] = 0 => Len(d) <= Len(s) /\ \A i \in 1..Len(d) : d[i] = s[i]
      <4> HIDE DEF c, s, n, d
      <4>1. SUFFICES ASSUME lag[t] = 0
                     PROVE  Len(d) <= Len(s) /\ \A i \in 1..Len(d) : d[i] = s[i]
        OBVIOUS
      <4>2. Len(c) < Len(s) /\ n = s[Len(c) + 1]
        BY <1>2, <1>3, <1>5, <4>1
      <4>3. \A i \in 1..Len(d) : i \in 1..Len(c) \/ i = Len(c) + 1
        BY <1>2, <3>1
      <4> QED
        BY <1>2, <3>1, <4>1, <4>2, <4>3
    <3>3. content' = content /\ lag' = lag
      BY <1>4
    <3> HIDE DEF d
    <3>4. th'[t].chain = d
      BY <2>2, ZenonT(30) DEF d
    <3> QED
      BY <2>2, <3>1, <3>2, <3>3, <3>4, Zenon DEF PopSeen
  <2>4. TagFollows(t)' /\ PushReady(t)' /\ DetachOnList(t)'
    BY <1>1, <1>4, <2>2 DEF TagFollows, PushReady, DetachOnList
  <2> QED
    BY <1>4, <1>5, <2>3, <2>4, QuietInv DEF ThreadInv
<1>6. CASE Step(t, [th[t] EXCEPT !.pc = "pop_cas", !.nxt = n])
  <2>1. th'[t] = [th[t] EXCEPT !.pc = "pop_cas", !.nxt = n]
    BY <1>6, StepOthers DEF IInv
  <2>2. /\ th'[t].pc = "pop_cas" /\ th'[t].old = th[t].old /\ th'[t].lst = th[t].lst
        /\ th'[t].chain = c /\ th'[t].nxt = n
    BY <1>1, <2>1, Zenon DEF ThreadRec
  <2>3. PopSeen(t)'
    <3>1. c # <<>> /\ content' = content /\ lag' = lag
      BY <1>1, <1>4, Zenon DEF PopSeen
    <3> HIDE DEF c, n
    <3> QED
      BY <1>2, <1>3, <2>2, <3>1, Zenon DEF PopSeen
  <2>4. TagFollows(t)' /\ PushReady(t)' /\ DetachOnList(t)'
    BY <1>1, <1>4, <2>2, Zenon DEF TagFollows, PushReady, DetachOnList, Window
  <2> QED
    BY <1>4, <1>6, <2>3, <2>4, QuietInv DEF ThreadInv
<1> QED
  BY <1>4, <1>5, <1>6, Zenon

\* The load and the failed compare-exchange of the trimmer's detach.
LEMMA DetachReadInv ==
    ASSUME IInv, TypeOK', NEW t \in Thread, DetachStart(t) \/ DetachRetry(t)
    PROVE  IInv'
<1>1. /\ th[t] \in ThreadRec /\ UNCHANGED <<word, next, held, content>>
      /\ lag'[t] = 0 /\ \A u \in Thread : u # t => lag'[u] = lag[u]
  BY DEF DetachStart, DetachRetry, IInv, TypeOK
<1>2. PICK r : Step(t, r) /\ (r = Idle \/ (r.pc = "detach_cas" /\ r.lst = "list"
                                           /\ r.old = word["list"]
                                           /\ word["list"].ptr # NULL))
  <2>1. CASE DetachStart(t)
    BY <2>1 DEF DetachStart, Rec
  <2>2. CASE DetachRetry(t)
    <3>1. th[t].pc = "detach_cas" /\ th[t].lst = "list"
      BY <2>2 DEF DetachRetry, IInv, ThreadInv, DetachOnList
    <3>2. LET q == [th[t] EXCEPT !.old = word["list"]]
          IN  q.pc = "detach_cas" /\ q.lst = "list" /\ q.old = word["list"]
      BY <1>1, <3>1, Zenon DEF ThreadRec
    <3> QED
      BY <2>2, <3>2, Zenon DEF DetachRetry
  <2> QED
    BY <2>1, <2>2, Zenon
<1>3. th'[t] = r
  BY <1>2, StepOthers, Zenon DEF IInv
<1>4. ThreadInv(t)'
  <2>1. CASE r = Idle
    BY <1>3, <2>1, RestInv, SMTT(30) DEF Idle
  <2>2. CASE r.pc = "detach_cas" /\ r.lst = "list" /\ r.old = word["list"]
           /\ word["list"].ptr # NULL
    <3>1. word["list"].tag \in Nat
      BY DEF IInv, TypeOK, List, Word
    <3>2. DetachOnList(t)'
      BY <1>1, <1>3, <2>2 DEF DetachOnList
    <3>3. TagFollows(t)'
      BY <1>1, <1>3, <2>2, <3>1 DEF TagFollows
    <3>4. PushReady(t)' /\ PopSeen(t)'
      BY <1>3, <2>2 DEF PushReady, PopSeen
    <3> QED
      BY <3>2, <3>3, <3>4, Zenon DEF ThreadInv
  <2> QED
    BY <1>2, <2>1, <2>2
<1> QED
  BY <1>1, <1>2, <1>4, QuietInv

\* Starting or retrying a pop, and the steps on the hint.
LEMMA LightInv ==
    ASSUME IInv, TypeOK', NEW t \in Thread,
           \/ PopSingleStart(t) \/ PopRetry(t)
           \/ \E n \in 1..MaxBatch : PopBatchStart(t, n)
           \/ MarkLoad(t) \/ MarkOr(t) \/ ClearLoad(t) \/ ClearAnd(t) \/ Recheck(t)
    PROVE  IInv'
<1>1. UNCHANGED <<word, next, held, content, lag>>
  BY DEF PopSingleStart, PopRetry, PopBatchStart, MarkLoad, MarkOr, ClearLoad,
         ClearAnd, Recheck
<1>2. CASE PopSingleStart(t) \/ \E n \in 1..MaxBatch : PopBatchStart(t, n)
  <2>1. PICK n \in Nat, op \in Op :
            Step(t, Rec("pop_load", op, "list", NullWord, <<>>, n))
    BY <1>2, ConstAssumption DEF PopSingleStart, PopBatchStart, Op
  <2>2. Rec("pop_load", op, "list", NullWord, <<>>, n).pc = "pop_load"
    BY Zenon DEF Rec
  <2> QED
    BY <1>1, <2>1, <2>2, StepOthers, PopLoadPC, QuietInv, Zenon DEF IInv
<1>3. CASE PopRetry(t)
  <2> DEFINE r == [th[t] EXCEPT !.pc = "pop_load", !.old = NullWord, !.chain = <<>>,
                                !.nxt = NULL]
  <2>1. Step(t, r)
    BY <1>3 DEF PopRetry
  <2>2. r.pc = "pop_load"
    <3>1. th[t] \in ThreadRec
      BY DEF IInv, TypeOK
    <3> QED
      BY <3>1 DEF ThreadRec
  <2> HIDE DEF r
  <2> QED
    BY <1>1, <2>1, <2>2, StepOthers, PopLoadPC, QuietInv DEF IInv
<1>4. CASE MarkLoad(t) \/ MarkOr(t) \/ ClearLoad(t) \/ ClearAnd(t) \/ Recheck(t)
  <2>1. PICK pc \in {"idle", "mark_load", "mark_or", "clear_and", "recheck"} :
            Step(t, At(pc))
    BY <1>4, Zenon DEF MarkLoad, MarkOr, ClearLoad, ClearAnd, Recheck, Idle
  <2>2. th'[t] = At(pc)
    BY <2>1, StepOthers, Zenon DEF IInv
  <2> QED
    BY <1>1, <2>1, <2>2, RestInv, QuietInv
<1> QED
  BY <1>2, <1>3, <1>4

-----------------------------------------------------------------------------
(* The initial states, and one lemma for each kind of step.                *)

\* Initially the threads hold all blocks and the stacks are empty.
LEMMA InitIInv == Init => IInv
<1> SUFFICES ASSUME Init PROVE IInv
  OBVIOUS
<1>1. TypeOK
  BY InitType
<1>2. PICK own \in [Block -> Thread] :
          held = [t \in Thread |-> {b \in Block : own[b] = t}]
  BY DEF Init
<1>3. \A l \in List : content[l] = <<>> /\ Blocks(content[l]) = {}
  BY DEF Init, Blocks
<1>4. SingleOwner
  BY <1>2, <1>3 DEF SingleOwner, Distinct, List
<1>5. NoBlockLost
  BY <1>2 DEF NoBlockLost
<1>6. StackShape
  BY <1>3 DEF StackShape, Init, NullWord
<1>7. \A t \in Thread : ThreadInv(t)
  BY DEF Init, Idle, At, Rec, ThreadInv, PushReady, TagFollows, PopSeen,
         DetachOnList, Window
<1> QED
  BY <1>1, <1>4, <1>5, <1>6, <1>7 DEF IInv

\* A push starts with a chain of blocks the thread holds.
LEMMA PushStartInv ==
    ASSUME IInv, TypeOK', NEW t \in Thread, NEW l \in List, NEW c \in Chains,
           PushStart(t, l, c)
    PROVE  IInv'
<1>1. /\ c \in Seq(Block) /\ Len(c) \in Nat \ {0}
      /\ \A i \in 1..Len(c) : c[i] \in held[t]
  BY ChainsAreSeqs DEF PushStart, Blocks
<1>2. /\ th'[t] = Rec("push_load", "push", l, NullWord, c, 0)
      /\ \A u \in Thread : u # t => th'[u] = th[u]
  BY StepOthers, Zenon DEF PushStart, IInv
<1>3. \A b \in Block \ held[t] : next'[b] = next[b]
  BY <1>1 DEF PushStart, Linked
<1>4. /\ SingleOwner' /\ NoBlockLost' /\ StackShape'
      /\ \A u \in Thread : u # t => ThreadInv(u)'
  BY <1>2, <1>3, LinkFrame DEF PushStart
<1>5. ASSUME NEW i \in 1..(Len(c) - 1) PROVE next'[c[i]] = c[i + 1]
  <2> DEFINE j == CHOOSE k \in 1..(Len(c) - 1) : c[k] = c[i]
  <2>1. c[i] \in Block /\ i \in 1..Len(c)
    BY <1>1, ElementOfSeq
  <2>2. next'[c[i]] = c[j + 1]
    BY <2>1, Zenon DEF PushStart, Linked
  <2>3. j \in 1..(Len(c) - 1) /\ c[j] = c[i]
    OBVIOUS
  <2>4. j = i
    BY <1>1, <2>1, <2>3 DEF PushStart, Distinct
  <2> QED
    BY <2>2, <2>4, Zenon
<1>6. ThreadInv(t)'
  BY <1>2, <1>5
  DEF PushStart, Rec, ThreadInv, PushReady, TagFollows, PopSeen, DetachOnList, Window
<1> QED
  BY <1>4, <1>6, Zenon DEF IInv

\* A push writes the links of its chain and of the last block, which nobody
\* else reads as part of a stack.
LEMMA PushLinkInv ==
    ASSUME IInv, TypeOK', NEW t \in Thread, PushLink(t)
    PROVE  IInv'
<1> DEFINE c == th[t].chain
<1>1. /\ PushReady(t) /\ TagFollows(t) /\ th[t].pc = "push_link"
      /\ th[t] \in ThreadRec
  BY Zenon DEF PushLink, IInv, TypeOK, ThreadInv
<1>2. /\ c \in Chains /\ Distinct(c) /\ Blocks(c) \subseteq held[t]
      /\ \A i \in 1..(Len(c) - 1) : next[c[i]] = c[i + 1]
  BY <1>1, Zenon DEF PushReady
<1>3. c \in Seq(Block) /\ Len(c) \in Nat \ {0} /\ c[Len(c)] \in Block
  BY <1>2, ChainsAreSeqs, ElementOfSeq
<1>4. c[Len(c)] \in held[t]
  BY <1>2, <1>3 DEF Blocks
<1>5. /\ th'[t] = [th[t] EXCEPT !.pc = "push_cas"]
      /\ \A u \in Thread : u # t => th'[u] = th[u]
  BY StepOthers DEF PushLink, IInv
<1>6. /\ th'[t].pc = "push_cas" /\ th'[t].chain = c
      /\ th'[t].lst = th[t].lst /\ th'[t].old = th[t].old
  BY <1>1, <1>5 DEF ThreadRec
<1>7. /\ next'[c[Len(c)]] = th[t].old.ptr
      /\ \A b \in Block : b # c[Len(c)] => next'[b] = next[b]
  BY <1>3 DEF PushLink, IInv, TypeOK
<1>8. /\ SingleOwner' /\ NoBlockLost' /\ StackShape'
      /\ \A u \in Thread : u # t => ThreadInv(u)'
  BY <1>4, <1>5, <1>7, LinkFrame DEF PushLink
<1>9. ASSUME NEW i \in 1..(Len(c) - 1) PROVE next'[c[i]] = c[i + 1]
  <2>1. i \in 1..Len(c) /\ Len(c) \in 1..Len(c) /\ i # Len(c)
    BY <1>3
  <2>2. c[i] \in Block /\ c[i] # c[Len(c)]
    BY <1>2, <1>3, <2>1, ElementOfSeq, Zenon DEF Distinct
  <2> QED
    BY <1>2, <1>7, <2>2, Zenon
<1>10. PushReady(t)'
  BY <1>2, <1>6, <1>7, <1>9 DEF PushReady, PushLink
<1>11. TagFollows(t)' /\ PopSeen(t)' /\ DetachOnList(t)'
  BY <1>1, <1>6 DEF PushLink, TagFollows, PopSeen, DetachOnList, Window
<1> QED
  BY <1>8, <1>10, <1>11 DEF IInv, ThreadInv

\* A holder may write anything into the link of its own block: no stack goes
\* through it.
LEMMA RelinkInv ==
    ASSUME IInv, TypeOK', NEW t \in Thread, NEW b \in Block, NEW p \in Ptr,
           Relink(t, b, p)
    PROVE  IInv'
<1>1. \A d \in Block \ held[t] : next'[d] = next[d]
  BY Zenon DEF Relink, IInv, TypeOK
<1>2. /\ SingleOwner' /\ NoBlockLost' /\ StackShape'
      /\ \A u \in Thread : u # t => ThreadInv(u)'
  BY <1>1, LinkFrame, ZenonT(30) DEF Relink
<1>3. ThreadInv(t)'
  BY DEF Relink, ThreadInv, PushReady, TagFollows, PopSeen, DetachOnList, Window
<1> QED
  BY <1>2, <1>3 DEF IInv

-----------------------------------------------------------------------------
(* The three successful compare-exchanges.                                 *)

\* The compare-exchange of a push puts the chain on top of the stack that the
\* last link points to.
LEMMA PushCasInv ==
    ASSUME IInv, TypeOK', NEW t \in Thread, PushCas(t)
    PROVE  IInv'
<1> DEFINE l == th[t].lst
           c == th[t].chain
           s == content[l]
<1>1. /\ th[t] \in ThreadRec /\ l \in List /\ s \in Seq(Block)
      /\ word[l] = th[t].old /\ th[t].pc = "push_cas" /\ PushReady(t)
  BY Zenon DEF PushCas, IInv, TypeOK, ThreadRec, ThreadInv
<1>2. /\ c \in Chains /\ Distinct(c) /\ Blocks(c) \subseteq held[t]
      /\ \A i \in 1..(Len(c) - 1) : next[c[i]] = c[i + 1]
      /\ next[c[Len(c)]] = word[l].ptr
  BY <1>1, ZenonT(30) DEF PushReady
<1>3. /\ c \in Seq(Block) /\ Len(c) \in Nat \ {0} /\ Len(s) \in Nat
      /\ c[1] \in Ptr
  BY <1>1, <1>2, ChainsAreSeqs, ElementOfSeq, SMTT(30) DEF Ptr
<1>4. /\ content'[l] = c \o s /\ \A k \in List : k # l => content'[k] = content[k]
      /\ held'[t] = held[t] \ Blocks(c)
      /\ \A u \in Thread : u # t => held'[u] = held[u]
      /\ next' = next
  BY <1>1, Zenon DEF PushCas, IInv, TypeOK
<1>5. Update(t, l, Pack(c[1], word[l]))
  BY <1>1, Zenon DEF PushCas
<1>6. /\ word'[l].ptr = c[1] /\ \A k \in List : k # l => word'[k] = word[k]
  BY <1>1, <1>5, Zenon DEF Update, Pack, IInv, TypeOK
<1>7. /\ th'[t] = Idle \/ th'[t] = At("mark_load")
      /\ \A u \in Thread : u # t => th'[u] = th[u]
  BY StepOthers, Zenon DEF PushCas, IInv
<1>8. \A u \in Thread : ThreadInv(u)'
  <2>1. \A u \in Thread : u # t => ThreadInv(u)'
    <3> HIDE DEF l, c
    <3> QED
      BY <1>1, <1>3, <1>4, <1>5, <1>7, CasFrame, ZenonT(30)
  <2>2. ThreadInv(t)'
    BY <1>7, RestInv DEF Idle
  <2> QED
    BY <2>1, <2>2, Zenon
<1>9. Blocks(content'[l]) = Blocks(c) \cup Blocks(s) /\ Distinct(content'[l])
  <2>1. Distinct(s) /\ Blocks(c) \cap Blocks(s) = {}
    BY <1>1, <1>2, Zenon DEF IInv, SingleOwner
  <2> HIDE DEF c, s
  <2>2. Blocks(c \o s) = Blocks(c) \cup Blocks(s) /\ Distinct(c \o s)
    BY <1>1, <1>2, <1>3, <2>1, StackPush, SMTT(30)
  <2> QED
    BY <1>4, <2>2, Zenon
<1>10. SingleOwner'
  <2>1. \A u, v \in Thread : u # v => held'[u] \cap held'[v] = {}
    BY <1>4, ZenonT(30) DEF IInv, SingleOwner
  <2>2. \A u \in Thread, k \in List : held'[u] \cap Blocks(content'[k]) = {}
    <3>1. ASSUME NEW u \in Thread, NEW k \in List
          PROVE  held[u] \cap Blocks(content[k]) = {} /\ (u # t => held[u] \cap held[t] = {})
      BY Zenon DEF IInv, SingleOwner
    <3>2. \A u \in Thread : held'[u] \cap Blocks(content'[l]) = {}
      <4> HIDE DEF l, c
      <4>1. ASSUME NEW u \in Thread PROVE held'[u] \cap Blocks(c) = {}
        <5>1. CASE u = t
          BY <1>4, <5>1, Zenon
        <5>2. CASE u # t
          <6>1. held'[u] = held[u]
            BY <1>4, <5>2
          <6>2. held[u] \cap held[t] = {}
            BY <1>1, <3>1, <5>2, Zenon
          <6> QED
            BY <1>2, <6>1, <6>2, ZenonT(30)
        <5> QED
          BY <5>1, <5>2, Zenon
      <4>2. ASSUME NEW u \in Thread PROVE held'[u] \cap Blocks(s) = {}
        BY <1>1, <1>4, <3>1, ZenonT(30)
      <4> QED
        BY <1>9, <4>1, <4>2, Zenon
    <3>3. \A u \in Thread, k \in List : k # l => held'[u] \cap Blocks(content'[k]) = {}
      BY <1>4, <3>1
    <3> QED
      BY <3>2, <3>3, Zenon
  <2>3. Blocks(content'["list"]) \cap Blocks(content'["trimmed"]) = {}
    BY <1>1, <1>2, <1>4, <1>9, Zenon DEF IInv, SingleOwner, List
  <2>4. \A k \in List : Distinct(content'[k])
    BY <1>4, <1>9, Zenon DEF IInv, SingleOwner
  <2> QED
    BY <2>1, <2>2, <2>3, <2>4, Zenon DEF SingleOwner, Blocks, Distinct
<1>11. NoBlockLost'
  <2>1. ASSUME NEW b \in Block
        PROVE  \/ \E u \in Thread : b \in held'[u]
               \/ \E k \in List : b \in Blocks(content'[k])
    BY <1>1, <1>4, <1>9, Zenon DEF IInv, NoBlockLost
  <2> QED
    BY <2>1 DEF NoBlockLost, Blocks
<1>12. StackShape'
  <2> DEFINE r == content'[l]
  <2>1. /\ Len(r) = Len(c) + Len(s) /\ r # <<>>
        /\ \A i \in 1..Len(c) : r[i] = c[i]
        /\ \A i \in (Len(c) + 1)..Len(r) : r[i] = s[i - Len(c)] /\ i - Len(c) \in 1..Len(s)
    <3>0. r = c \o s
      BY <1>4
    <3> HIDE DEF r, c, s, l
    <3>1. /\ r \in Seq(Block) /\ Len(r) = Len(c) + Len(s)
          /\ \A i \in 1..(Len(c) + Len(s)) :
                r[i] = IF i <= Len(c) THEN c[i] ELSE s[i - Len(c)]
      BY <1>1, <1>3, <3>0, ConcatProperties
    <3>2. r # <<>>
      BY <1>3, <3>1
    <3> QED
      BY <1>3, <3>1, <3>2
  <2>2. /\ word[l].ptr = IF s = <<>> THEN NULL ELSE s[1]
        /\ \A i \in 1..Len(s) : next[s[i]] = IF i = Len(s) THEN NULL ELSE s[i + 1]
    BY <1>1, Zenon DEF IInv, StackShape
  <2>3. s = <<>> <=> Len(s) = 0
    BY <1>1, EmptySeq, Zenon
  <2>4. word'[l].ptr = r[1]
    BY <1>3, <1>6, <2>1
  <2>5. ASSUME NEW i \in 1..Len(r)
        PROVE  next[r[i]] = IF i = Len(r) THEN NULL ELSE r[i + 1]
    <3> HIDE DEF r, c, s, l
    <3>1. CASE i \in 1..(Len(c) - 1)
      BY <1>2, <1>3, <2>1, <3>1, SMTT(30)
    <3>2. CASE i = Len(c)
      BY <1>2, <1>3, <2>1, <2>2, <2>3, <3>2
    <3>3. CASE i \in (Len(c) + 1)..Len(r)
      <4> DEFINE j == i - Len(c)
      <4>1. j \in 1..Len(s) /\ r[i] = s[j] /\ (j = Len(s) <=> i = Len(r))
        BY <1>3, <2>1, <3>3
      <4>2. i # Len(r) => r[i + 1] = s[j + 1]
        <5>1. SUFFICES ASSUME i # Len(r) PROVE r[i + 1] = s[j + 1]
          OBVIOUS
        <5>2. i + 1 \in (Len(c) + 1)..Len(r) /\ (i + 1) - Len(c) = j + 1
          BY <1>3, <2>1, <3>3, <5>1, SMTT(30)
        <5> HIDE DEF j
        <5> QED
          BY <2>1, <5>2
      <4> QED
        BY <2>2, <4>1, <4>2, Zenon
    <3> QED
      BY <1>3, <2>1, <3>1, <3>2, <3>3
  <2>6. ASSUME NEW k \in List, k # l
        PROVE  /\ word'[k].ptr = IF content'[k] = <<>> THEN NULL ELSE content'[k][1]
               /\ \A i \in 1..Len(content'[k]) :
                     next[content'[k][i]] = IF i = Len(content'[k]) THEN NULL
                                            ELSE content'[k][i + 1]
    BY <1>4, <1>6, <2>6 DEF IInv, StackShape
  <2>7. /\ word'[l].ptr = IF content'[l] = <<>> THEN NULL ELSE content'[l][1]
        /\ \A i \in 1..Len(content'[l]) :
              next[content'[l][i]] = IF i = Len(content'[l]) THEN NULL
                                     ELSE content'[l][i + 1]
    BY <2>1, <2>4, <2>5, Zenon
  <2>8. next' = next
    BY <1>4
  <2> HIDE DEF l, r
  <2>9. ASSUME NEW k \in List
        PROVE  /\ word'[k].ptr = IF content'[k] = <<>> THEN NULL ELSE content'[k][1]
               /\ \A i \in 1..Len(content'[k]) :
                     next'[content'[k][i]] = IF i = Len(content'[k]) THEN NULL
                                             ELSE content'[k][i + 1]
    BY <2>6, <2>7, <2>8, Zenon
  <2> QED
    BY <2>9, Zenon DEF StackShape
<1> QED
  BY <1>8, <1>10, <1>11, <1>12 DEF IInv

\* A pop and a detach both take the top blocks c of the stack l: p is the
\* head that remains.
TakesTop(t, l, c, p) ==
    /\ OnTop(c, content[l])
    /\ p = IF Len(c) = Len(content[l]) THEN NULL ELSE content[l][Len(c) + 1]
    /\ Update(t, l, Pack(p, word[l]))
    /\ next' = next
    /\ content' = [content EXCEPT ![l] = SubSeq(@, Len(c) + 1, Len(@))]
    /\ held' = [held EXCEPT ![t] = @ \cup Blocks(c)]
    /\ \A u \in Thread : u # t => th'[u] = th[u]

\* Taking the top c of a stack and leaving p as its head keeps the invariant.
LEMMA TakeInv ==
    ASSUME IInv, TypeOK', NEW t \in Thread, NEW l \in List, NEW c \in Seq(Block),
           NEW p \in Ptr, TakesTop(t, l, c, p), ThreadInv(t)'
    PROVE  IInv'
<1> DEFINE s == content[l]
           r == content'[l]
<1>1. /\ s \in Seq(Block) /\ Len(s) \in Nat /\ Len(c) \in Nat
      /\ r = SubSeq(s, Len(c) + 1, Len(s))
      /\ \A k \in List : k # l => content'[k] = content[k]
      /\ held'[t] = held[t] \cup Blocks(c)
      /\ \A u \in Thread : u # t => held'[u] = held[u]
      /\ next' = next
  BY DEF IInv, TypeOK, TakesTop
<1>2. /\ word'[l].ptr = p /\ \A k \in List : k # l => word'[k] = word[k]
  BY Zenon DEF TakesTop, Update, Pack, IInv, TypeOK
<1>3. \A u \in Thread : ThreadInv(u)'
  BY <1>1, CasFrame, Zenon DEF TakesTop
<1>4. /\ Distinct(s) /\ \A k \in List : Distinct(content[k])
      /\ Blocks(content["list"]) \cap Blocks(content["trimmed"]) = {}
      /\ \A u \in Thread, k \in List : held[u] \cap Blocks(content[k]) = {}
      /\ \A u, v \in Thread : u # v => held[u] \cap held[v] = {}
  BY Zenon DEF IInv, SingleOwner
<1>5. /\ r \in Seq(Block) /\ Len(r) = Len(s) - Len(c)
      /\ \A i \in 1..Len(r) : r[i] = s[Len(c) + i] /\ Len(c) + i \in 1..Len(s)
      /\ Blocks(s) = Blocks(c) \cup Blocks(r)
      /\ Distinct(r) /\ Blocks(c) \cap Blocks(r) = {}
  <2>1. OnTop(c, s)
    BY DEF TakesTop
  <2>2. s \in Seq(Block) /\ r = Below(c, s)
    BY <1>1 DEF Below
  <2> HIDE DEF s, r
  <2> QED
    <3>1. /\ r \in Seq(Block) /\ Len(r) = Len(s) - Len(c)
          /\ \A i \in 1..Len(r) : r[i] = s[Len(c) + i] /\ Len(c) + i \in 1..Len(s)
          /\ Blocks(s) = Blocks(c) \cup Blocks(r)
          /\ Distinct(s) => Distinct(r) /\ Blocks(c) \cap Blocks(r) = {}
      BY <2>1, <2>2, StackTake, SMTT(30)
    <3> QED
      BY <1>4, <3>1, Zenon
<1>6. SingleOwner'
  <2> HIDE DEF r
  <2>1. \A u, v \in Thread : u # v => held'[u] \cap held'[v] = {}
    BY <1>1, <1>4, <1>5
  <2>2. \A u \in Thread, k \in List : k # l => held'[u] \cap Blocks(content'[k]) = {}
    <3>1. \A k \in List : k # l => Blocks(c) \cap Blocks(content[k]) = {}
      BY <1>4, <1>5 DEF List
    <3> QED
      BY <1>1, <1>4, <3>1, Zenon
  <2>3. \A u \in Thread : held'[u] \cap Blocks(content'[l]) = {}
    BY <1>1, <1>4, <1>5 DEF r
  <2>4. Blocks(content'["list"]) \cap Blocks(content'["trimmed"]) = {}
    BY <1>1, <1>4, <1>5, Zenon DEF List, r
  <2>5. \A k \in List : Distinct(content'[k])
    BY <1>1, <1>4, <1>5, Zenon DEF r
  <2>6. \A u \in Thread, k \in List : held'[u] \cap Blocks(content'[k]) = {}
    BY <2>2, <2>3, Zenon
  <2> QED
    BY <2>1, <2>4, <2>5, <2>6, Zenon DEF SingleOwner, Blocks, Distinct
<1>7. NoBlockLost'
  <2> HIDE DEF r
  <2>1. ASSUME NEW b \in Block
        PROVE  \/ \E u \in Thread : b \in held'[u]
               \/ \E k \in List : b \in Blocks(content'[k])
    <3>1. \/ \E u \in Thread : b \in held[u]
          \/ \E k \in List : b \in Blocks(content[k])
      BY DEF IInv, NoBlockLost
    <3> QED
      BY <1>1, <1>5, <3>1, Zenon DEF r
  <2> QED
    BY <2>1 DEF NoBlockLost, Blocks
<1>8. StackShape'
  <2>1. /\ \A i \in 1..Len(s) : next[s[i]] = IF i = Len(s) THEN NULL ELSE s[i + 1]
    BY DEF IInv, StackShape
  <2>2. word'[l].ptr = IF r = <<>> THEN NULL ELSE r[1]
    <3> HIDE DEF s, r
    <3>1. CASE Len(c) = Len(s)
      <4>1. Len(r) = 0
        BY <1>1, <1>5, <3>1
      <4>2. r = <<>>
        BY <1>5, <4>1, EmptySeq, Zenon
      <4> QED
        BY <1>2, <3>1, <4>2, ZenonT(30) DEF s, TakesTop
    <3>2. CASE Len(c) # Len(s)
      <4>1. 1 \in 1..Len(r)
        BY <1>1, <1>5, <3>2 DEF s, TakesTop, OnTop
      <4>2. r # <<>> /\ r[1] = s[Len(c) + 1]
        BY <1>5, <4>1
      <4> QED
        BY <1>2, <3>2, <4>2, SMTT(30) DEF s, TakesTop
    <3> QED
      BY <3>1, <3>2, Zenon
  <2>3. ASSUME NEW i \in 1..Len(r)
        PROVE  next[r[i]] = IF i = Len(r) THEN NULL ELSE r[i + 1]
    <3> HIDE DEF s, r
    <3> DEFINE j == Len(c) + i
    <3>1. j \in 1..Len(s) /\ r[i] = s[j] /\ (j = Len(s) <=> i = Len(r))
      BY <1>1, <1>5
    <3>2. i # Len(r) => r[i + 1] = s[j + 1]
      <4>1. SUFFICES ASSUME i # Len(r) PROVE r[i + 1] = s[j + 1]
        BY Zenon
      <4>2. i + 1 \in 1..Len(r) /\ Len(c) + (i + 1) = j + 1
        BY <1>1, <1>5, <4>1, SMTT(30)
      <4> HIDE DEF j
      <4> QED
        BY <1>5, <4>2
    <3> QED
      BY <2>1, <3>1, <3>2, Zenon
  <2>4. ASSUME NEW k \in List, k # l
        PROVE  /\ word'[k].ptr = IF content'[k] = <<>> THEN NULL ELSE content'[k][1]
               /\ \A i \in 1..Len(content'[k]) :
                     next[content'[k][i]] = IF i = Len(content'[k]) THEN NULL
                                            ELSE content'[k][i + 1]
    BY <1>1, <1>2, <2>4, SMTT(30) DEF IInv, StackShape
  <2>5. /\ word'[l].ptr = IF content'[l] = <<>> THEN NULL ELSE content'[l][1]
        /\ \A i \in 1..Len(content'[l]) :
              next[content'[l][i]] = IF i = Len(content'[l]) THEN NULL
                                     ELSE content'[l][i + 1]
    BY <2>2, <2>3
  <2>6. ASSUME NEW k \in List
        PROVE  /\ word'[k].ptr = IF content'[k] = <<>> THEN NULL ELSE content'[k][1]
               /\ \A i \in 1..Len(content'[k]) :
                     next'[content'[k][i]] = IF i = Len(content'[k]) THEN NULL
                                             ELSE content'[k][i + 1]
    <3>1. CASE k = l
      BY <1>1, <2>5, <3>1, Zenon
    <3>2. CASE k # l
      BY <1>1, <2>4, <3>2, ZenonT(30)
    <3> QED
      BY <3>1, <3>2, Zenon
  <2> QED
    BY <2>6, Zenon DEF StackShape
<1> QED
  BY <1>3, <1>6, <1>7, <1>8 DEF IInv

\* The chain a pop walked is the top of the stack when its compare succeeds.
LEMMA PopTakes ==
    ASSUME IInv, NEW t \in Thread, PopCas(t)
    PROVE  /\ th[t].chain \in Seq(Block) /\ th[t].lst \in List /\ th[t].nxt \in Ptr
           /\ th[t].chain # <<>>
           /\ TakesTop(t, th[t].lst, th[t].chain, th[t].nxt)
<1>1. /\ th[t] \in ThreadRec /\ th[t].pc = "pop_cas"
      /\ word[th[t].lst] = th[t].old /\ PopSeen(t) /\ TagFollows(t)
  BY Zenon DEF PopCas, IInv, TypeOK, ThreadInv
<1>2. lag[t] = 0
  BY <1>1, CasFresh, Zenon DEF IInv, Window
<1>3. /\ th[t].chain # <<>> /\ OnTop(th[t].chain, content[th[t].lst])
      /\ th[t].nxt = IF Len(th[t].chain) = Len(content[th[t].lst]) THEN NULL
                     ELSE content[th[t].lst][Len(th[t].chain) + 1]
  BY <1>1, <1>2, ZenonT(30) DEF PopSeen, OnTop
<1>4. \A u \in Thread : u # t => th'[u] = th[u]
  BY StepOthers DEF PopCas, IInv
<1>5. TakesTop(t, th[t].lst, th[t].chain, th[t].nxt)
  BY <1>1, <1>3, <1>4, Zenon DEF PopCas, TakesTop
<1> QED
  BY <1>1, <1>3, <1>5, Zenon DEF ThreadRec

\* The compare-exchange of a pop takes the chain it walked.
LEMMA PopCasInv ==
    ASSUME IInv, TypeOK', NEW t \in Thread, PopCas(t)
    PROVE  IInv'
<1>1. th'[t] = Idle \/ th'[t] = At("clear_load")
  BY StepOthers DEF PopCas, IInv
<1>2. ThreadInv(t)'
  BY <1>1, RestInv, Zenon DEF Idle
<1> QED
  BY <1>2, PopTakes, TakeInv

\* A detach takes the whole normal list.
LEMMA DetachTakes ==
    ASSUME IInv, NEW t \in Thread, DetachCas(t)
    PROVE  /\ content["list"] \in Seq(Block)
           /\ TakesTop(t, "list", content["list"], NULL)
<1> DEFINE s == content["list"]
<1>1. s \in Seq(Block) /\ Len(s) \in Nat /\ "list" \in List
  BY DEF IInv, TypeOK, List
<1>2. SubSeq(s, Len(s) + 1, Len(s)) = <<>>
  BY <1>1, SubSeqEmpty
<1>3. OnTop(s, s)
  BY <1>1 DEF OnTop
<1>4. content' = [content EXCEPT !["list"] = SubSeq(@, Len(s) + 1, Len(@))]
  BY <1>2, Zenon DEF DetachCas
<1>5. \A u \in Thread : u # t => th'[u] = th[u]
  BY StepOthers, Zenon DEF DetachCas, IInv
<1>6. Update(t, "list", Pack(NULL, word["list"])) /\ next' = next
  BY Zenon DEF DetachCas
<1>7. held' = [held EXCEPT ![t] = @ \cup Blocks(s)]
  BY DEF DetachCas
<1> QED
  BY <1>1, <1>3, <1>4, <1>5, <1>6, <1>7, Zenon DEF TakesTop

\* The compare-exchange of the trimmer's detach takes the whole list.
LEMMA DetachCasInv ==
    ASSUME IInv, TypeOK', NEW t \in Thread, DetachCas(t)
    PROVE  IInv'
<1>1. ThreadInv(t)'
  BY StepOthers, RestInv DEF DetachCas, IInv, Idle
<1>2. "list" \in List /\ NULL \in Ptr
  BY DEF List, Ptr
<1> QED
  BY <1>1, <1>2, DetachTakes, TakeInv, ZenonT(30)

-----------------------------------------------------------------------------
(* The invariant, and the theorems on the data structure.                  *)

\* Every step of push, pop, detach and of the hint keeps the invariant.
LEMMA IInvStep == IInv /\ [Next]_vars => IInv'
<1> SUFFICES ASSUME IInv, [Next]_vars PROVE IInv'
  OBVIOUS
<1>0. TypeOK'
  BY TypeStep
<1>1. CASE UNCHANGED vars
  <2>1. /\ word' = word /\ next' = next /\ held' = held /\ th' = th
        /\ content' = content /\ lag' = lag
    BY <1>1 DEF vars
  <2>2. SingleOwner' /\ NoBlockLost' /\ StackShape'
    BY <2>1, Zenon DEF IInv, SingleOwner, NoBlockLost, StackShape
  <2>3. ASSUME NEW t \in Thread PROVE ThreadInv(t)'
    <3>1. ThreadInv(t)
      BY DEF IInv
    <3> QED
      BY <2>1, <3>1, Zenon DEF ThreadInv, PushReady, TagFollows, PopSeen, DetachOnList
  <2> QED
    BY <1>0, <2>2, <2>3 DEF IInv
<1>2. CASE Next
  <2>0. PICK t \in Thread : ThreadStep(t)
    BY <1>2 DEF Next
  <2>1. ASSUME NEW l \in List, NEW c \in Chains, PushStart(t, l, c) PROVE IInv'
    BY <1>0, <2>1, PushStartInv
  <2>2. CASE PushLoad(t)
    BY <1>0, <2>2, PushLoadInv
  <2>3. CASE PushLink(t)
    BY <1>0, <2>3, PushLinkInv
  <2>4. CASE PushCas(t)
    BY <1>0, <2>4, PushCasInv
  <2>5. CASE PushRetry(t)
    BY <1>0, <2>5, PushRetryInv
  <2>6. CASE PopLoad(t)
    BY <1>0, <2>6, PopLoadInv
  <2>7. CASE PopWalk(t)
    BY <1>0, <2>7, PopWalkInv
  <2>8. CASE PopCas(t)
    BY <1>0, <2>8, PopCasInv
  <2>9. CASE DetachStart(t) \/ DetachRetry(t)
    BY <1>0, <2>9, DetachReadInv
  <2>10. CASE DetachCas(t)
    BY <1>0, <2>10, DetachCasInv
  <2>11. ASSUME NEW b \in Block, NEW p \in Ptr, Relink(t, b, p) PROVE IInv'
    BY <1>0, <2>11, RelinkInv
  <2>12. CASE \/ PopSingleStart(t) \/ PopRetry(t)
              \/ \E n \in 1..MaxBatch : PopBatchStart(t, n)
              \/ MarkLoad(t) \/ MarkOr(t) \/ ClearLoad(t) \/ ClearAnd(t) \/ Recheck(t)
    BY <1>0, <2>12, LightInv
  <2> QED
    BY <2>0, <2>1, <2>2, <2>3, <2>4, <2>5, <2>6, <2>7, <2>8, <2>9, <2>10, <2>11,
       <2>12, Zenon DEF ThreadStep
<1> QED
  BY <1>1, <1>2

\* The conjunction is inductive, so every state of every behaviour has it.
THEOREM Inductive == Spec => []IInv
<1>1. Init => IInv
  BY InitIInv
<1>2. IInv /\ [Next]_vars => IInv'
  BY IInvStep
<1> QED
  BY <1>1, <1>2, PTL DEF Spec

\* Every variable keeps its type; a chain that is walked or pushed is made
\* of blocks, never of null (transfer_pop_batch dereferences its tail).
THEOREM TypeCorrect == Spec => []TypeOK
<1>1. IInv => TypeOK
  BY DEF IInv
<1> QED
  BY <1>1, Inductive, PTL

\* No interleaving of pushes, pops and detaches gives one block two owners,
\* for any number of threads and blocks, while no stalled operation misses
\* as many updates as there are tags.
THEOREM OwnedOnce == Spec => []SingleOwner
<1>1. IInv => SingleOwner
  BY DEF IInv
<1> QED
  BY <1>1, Inductive, PTL

\* No compare-exchange loop drops a block.
THEOREM NothingLost == Spec => []NoBlockLost
<1>1. IInv => NoBlockLost
  BY DEF IInv
<1> QED
  BY <1>1, Inductive, PTL

\* The words and links of memory always spell the two stacks.
THEOREM WellLinked == Spec => []StackShape
<1>1. IInv => StackShape
  BY DEF IInv
<1> QED
  BY <1>1, Inductive, PTL
-----------------------------------------------------------------------------
(* The hint.                                                               *)

HintPC == {"mark_load", "mark_or", "clear_load", "clear_and", "recheck"}

\* The stack list is empty exactly when its word says so.
LEMMA EmptyWord == StackShape /\ TypeOK => (content["list"] = <<>> <=> word["list"].ptr = NULL)
<1> SUFFICES ASSUME StackShape, TypeOK
             PROVE  content["list"] = <<>> <=> word["list"].ptr = NULL
  OBVIOUS
<1>1. /\ content["list"] \in Seq(Block)
      /\ word["list"].ptr = IF content["list"] = <<>> THEN NULL ELSE content["list"][1]
  BY Zenon DEF StackShape, TypeOK, List
<1>2. content["list"] # <<>> => content["list"][1] \in Block
  BY <1>1, EmptySeq, ElementOfSeq
<1> QED
  BY <1>1, <1>2, ConstAssumption

\* A thread away from the hint leaves the bit alone, and puts itself on the
\* way to set it when it is the one that made list nonempty.
LEMMA AwayFromHint ==
    ASSUME IInv, NEW t \in Thread, ThreadStep(t), th[t].pc \notin HintPC
    PROVE  /\ hint' = hint
           /\ content["list"] = <<>> /\ content'["list"] # <<>> => th'[t].pc = "mark_load"
<1>1. hint' = hint
  BY Zenon DEF ThreadStep, PushStart, PushLoad, PushLink, PushCas, PushRetry, MarkLoad, MarkOr,
         ClearLoad, ClearAnd, Recheck, PopSingleStart, PopBatchStart, PopLoad, PopWalk,
         PopCas, PopRetry, DetachStart, DetachCas, DetachRetry, Relink, HintPC
<1>2. CASE PushCas(t)
  <2>1. th[t].lst = "list" \/ content'["list"] = content["list"]
    BY <1>2, Zenon DEF PushCas, IInv, TypeOK, ThreadRec, List
  <2>2. CASE th[t].lst = "list" /\ content["list"] = <<>>
    <3>1. th[t].old.ptr = NULL
      BY <1>2, <2>2, EmptyWord, Zenon DEF PushCas, IInv
    <3>2. Step(t, IF th[t].old.ptr = NULL THEN At("mark_load") ELSE Idle)
      BY <1>2, Zenon DEF PushCas
    <3>3. Step(t, At("mark_load"))
      BY <3>1, <3>2, Zenon
    <3>4. th'[t] = At("mark_load")
      BY <3>3, StepOthers, Zenon DEF IInv
    <3> QED
      BY <1>1, <3>4 DEF At, Rec
  <2> QED
    BY <1>1, <2>1, <2>2
<1>3. CASE PopCas(t)
  <2>1. TakesTop(t, th[t].lst, th[t].chain, th[t].nxt) /\ th[t].lst \in List
    BY <1>3, PopTakes
  <2>2. th[t].lst = "list" \/ content'["list"] = content["list"]
    BY <1>3, Zenon DEF PopCas, IInv, TypeOK, List
  <2>3. ~(content["list"] = <<>> /\ th[t].lst = "list")
    <3>1. /\ th[t].chain \in Seq(Block) /\ th[t].chain # <<>>
          /\ Len(th[t].chain) <= Len(content[th[t].lst])
      BY <1>3, <2>1, PopTakes, Zenon DEF TakesTop, OnTop
    <3>2. Len(th[t].chain) \in Nat \ {0}
      BY <3>1, EmptySeq
    <3> QED
      BY <3>1, <3>2
  <2> QED
    BY <1>1, <2>2, <2>3, ZenonT(30)
<1>4. CASE DetachCas(t)
  <2>1. content'["list"] = <<>>
    BY <1>4, Zenon DEF DetachCas, IInv, TypeOK, List
  <2> QED
    BY <1>1, <2>1, Zenon
<1>5. CASE ~(PushCas(t) \/ PopCas(t) \/ DetachCas(t))
  <2>1. content' = content
    BY <1>5, Zenon
    DEF ThreadStep, PushStart, PushLoad, PushLink, PushRetry, MarkLoad, MarkOr,
        ClearLoad, ClearAnd, Recheck, PopSingleStart, PopBatchStart, PopLoad, PopWalk,
        PopRetry, DetachStart, DetachRetry, Relink
  <2> QED
    BY <1>1, <2>1, Zenon
<1> QED
  BY <1>2, <1>3, <1>4, <1>5, Zenon

\* Every step keeps it true that a list with blocks has its hint set or a
\* thread about to set it.
LEMMA HintStep == IInv /\ HintNotLost /\ [Next]_vars => HintNotLost'
<1> SUFFICES ASSUME IInv, HintNotLost, [Next]_vars,
                    content'["list"] # <<>>, ~hint'
             PROVE  \E t \in Thread : th'[t].pc \in HintPC
  BY DEF HintNotLost, HintPC
<1>0. content["list"] # <<>> /\ ~hint => \E t \in Thread : th[t].pc \in HintPC
  BY DEF HintNotLost, HintPC
<1>1. CASE UNCHANGED vars
  BY <1>0, <1>1 DEF vars
<1>2. ASSUME NEW t \in Thread, ThreadStep(t)
      PROVE  \E u \in Thread : th'[u].pc \in HintPC
  <2>0. ASSUME NEW r, Step(t, r) PROVE th'[t] = r
    BY <2>0, StepOthers DEF IInv
  <2>1. \A u \in Thread : u # t => th'[u] = th[u]
    <3>1. (\E r : Step(t, r)) \/ th' = th
      BY <1>2, Zenon
      DEF ThreadStep, PushStart, PushLoad, PushLink, PushCas, PushRetry, MarkLoad, MarkOr,
          ClearLoad, ClearAnd, Recheck, PopSingleStart, PopBatchStart, PopLoad, PopWalk,
          PopCas, PopRetry, DetachStart, DetachCas, DetachRetry, Relink
    <3> QED
      BY <3>1, StepOthers DEF IInv
  <2>2. CASE th[t].pc \notin HintPC
    <3>1. /\ hint' = hint
          /\ content["list"] = <<>> => th'[t].pc = "mark_load"
      BY <1>2, <2>2, AwayFromHint, ZenonT(30)
    <3> QED
      BY <1>0, <2>1, <2>2, <3>1, Zenon DEF HintPC
  <2>3. CASE th[t].pc \in HintPC
    <3>1. MarkLoad(t) \/ MarkOr(t) \/ ClearLoad(t) \/ ClearAnd(t) \/ Recheck(t)
      BY <1>2, <2>3, Zenon
      DEF HintPC, ThreadStep, PushStart, PushLoad, PushLink, PushCas, PushRetry,
          PopSingleStart, PopBatchStart, PopLoad, PopWalk, PopCas, PopRetry,
          DetachStart, DetachCas, DetachRetry, Relink
    <3>2. CASE MarkLoad(t)
      BY <2>0, <3>2 DEF MarkLoad, At, Rec, HintPC
    <3>3. CASE MarkOr(t)
      BY <3>3, ZenonT(30) DEF MarkOr
    <3>4. CASE ClearLoad(t)
      <4>1. th'[t] = At("clear_and") \/ th'[t] = At("recheck")
        BY <2>0, <3>4, Zenon DEF ClearLoad
      <4> QED
        BY <4>1 DEF At, Rec, HintPC
    <3>5. CASE ClearAnd(t)
      BY <2>0, <3>5 DEF ClearAnd, At, Rec, HintPC
    <3>6. CASE Recheck(t)
      <4>1. word["list"].ptr # NULL
        BY <3>6, EmptyWord DEF Recheck, IInv
      <4>2. th'[t] = At("mark_load")
        BY <2>0, <3>6, <4>1 DEF Recheck
      <4> QED
        BY <4>2 DEF At, Rec, HintPC
    <3> QED
      BY <3>1, <3>2, <3>3, <3>4, <3>5, <3>6
  <2> QED
    BY <2>2, <2>3
<1> QED
  BY <1>1, <1>2 DEF Next

\* The clear-and-recheck of clear_hint and the mark of a push that found the
\* list empty never leave blocks of the normal list behind a clear bit.
THEOREM HintKept == Spec => []HintNotLost
<1>1. Init => HintNotLost
  BY DEF Init, HintNotLost, List
<1>2. IInv /\ HintNotLost /\ [Next]_vars => HintNotLost'
  BY HintStep
<1> QED
  BY <1>1, <1>2, Inductive, PTL DEF Spec
-----------------------------------------------------------------------------
(* Refinement.                                                             *)

\* Taking the top of a stack is a take of the abstract pool.
LEMMA TakeMaps ==
    ASSUME IInv, NEW t \in Thread, NEW l \in List, NEW c \in Seq(Block), c # <<>>,
           NEW p, TakesTop(t, l, c, p)
    PROVE  Pool!PoolNext
<1> DEFINE n == Len(c)
           s == content[l]
<1>1. /\ s \in Seq(Block) /\ Len(s) \in Nat /\ n \in Nat \ {0} /\ n <= Len(s)
      /\ \A i \in 1..n : c[i] = s[i]
  BY EmptySeq DEF IInv, TypeOK, TakesTop, OnTop
<1>2. Pool!Blocks(SubSeq(s, 1, n)) = Blocks(c)
  <2>1. Len(SubSeq(s, 1, n)) = n /\ \A i \in 1..n : SubSeq(s, 1, n)[i] = c[i]
    <3> HIDE DEF n, s
    <3> QED
      BY <1>1
  <2> QED
    BY <2>1 DEF Pool!Blocks, Blocks
<1>3. n \in 1..Len(s)
  BY <1>1
<1>4. Pool!Take(t, l, n)
  BY <1>2, Zenon DEF Pool!Take, TakesTop
<1>5. held' # held
  <2>1. 1 \in 1..n /\ 1 \in 1..Len(s)
    BY <1>1
  <2>2. c[1] \in Blocks(c) /\ c[1] \in Blocks(s)
    BY <1>1, <2>1, ZenonT(30) DEF Blocks
  <2>3. c[1] \notin held[t] /\ c[1] \in held'[t]
    BY <2>2 DEF IInv, TypeOK, SingleOwner, TakesTop
  <2> QED
    BY <2>3
<1> HIDE DEF n, s
<1> QED
  BY <1>3, <1>4, <1>5, ZenonT(30) DEF Pool!PoolNext, List, s

\* Every step is a step of the abstract pool or leaves the pool alone.
LEMMA StepMaps == IInv /\ [Next]_vars => [Pool!PoolNext]_(Pool!poolVars)
<1> SUFFICES ASSUME IInv, [Next]_vars
             PROVE  Pool!PoolNext \/ UNCHANGED <<content, held>>
  BY DEF Pool!poolVars
<1>1. CASE UNCHANGED vars
  BY <1>1 DEF vars
<1>2. ASSUME NEW t \in Thread, ThreadStep(t)
      PROVE  Pool!PoolNext \/ UNCHANGED <<content, held>>
  <2>1. CASE PushCas(t)
    <3>1. /\ PushReady(t) /\ th[t].pc = "push_cas" /\ th[t].lst \in List
      BY <2>1, ZenonT(30) DEF PushCas, IInv, ThreadInv, TypeOK, ThreadRec
    <3>2. /\ th[t].chain \in Chains /\ Distinct(th[t].chain)
          /\ Blocks(th[t].chain) \subseteq held[t]
      BY <3>1 DEF PushReady
    <3>3. Pool!Push(t, th[t].lst, th[t].chain)
      BY <2>1, <3>2, Zenon DEF PushCas, Pool!Push, Pool!Distinct, Pool!Blocks, Distinct, Blocks
    <3>4. held' # held
      <4>1. th[t].chain[1] \in Blocks(th[t].chain)
        BY <3>2, ChainsAreSeqs DEF Blocks
      <4>2. th[t].chain[1] \in held[t] /\ th[t].chain[1] \notin held'[t]
        BY <2>1, <3>2, <4>1, Zenon DEF PushCas, IInv, TypeOK
      <4> QED
        BY <4>2
    <3> QED
      BY <3>1, <3>2, <3>3, <3>4, Zenon DEF Pool!PoolNext, List, Pool!Chains, Chains
  <2>2. CASE PopCas(t)
    BY <2>2, PopTakes, TakeMaps
  <2>3. CASE DetachCas(t)
    <3>1. content["list"] # <<>>
      <4>1. th[t].pc = "detach_cas" /\ word["list"] = th[t].old
        BY <2>3, Zenon DEF DetachCas
      <4>2. th[t].old.ptr # NULL
        BY <4>1, Zenon DEF IInv, ThreadInv, DetachOnList
      <4>3. content["list"] = <<>> <=> word["list"].ptr = NULL
        BY EmptyWord, Zenon DEF IInv
      <4> QED
        BY <4>1, <4>2, <4>3, Zenon
    <3> QED
      BY <2>3, <3>1, DetachTakes, TakeMaps, Zenon DEF List
  <2>4. CASE ~(PushCas(t) \/ PopCas(t) \/ DetachCas(t))
    BY <1>2, <2>4
    DEF ThreadStep, PushStart, PushLoad, PushLink, PushRetry, MarkLoad, MarkOr,
        ClearLoad, ClearAnd, Recheck, PopSingleStart, PopBatchStart, PopLoad, PopWalk,
        PopRetry, DetachStart, DetachRetry, Relink
  <2> QED
    BY <2>1, <2>2, <2>3, <2>4, Zenon
<1> QED
  BY <1>1, <1>2 DEF Next

\* transfer_push_*, transfer_pop_* and the detach of trim_small implement
\* atomic pushes and takes on two stacks.
THEOREM Refines == Spec => PoolSpec
<1>1. Init => Pool!PoolInit
  BY DEF Init, Pool!PoolInit, List
<1>2. IInv /\ [Next]_vars => [Pool!PoolNext]_(Pool!poolVars)
  BY StepMaps
<1> QED
  BY <1>1, <1>2, Inductive, PTL DEF Spec, PoolSpec, Pool!PoolSpec
=============================================================================
