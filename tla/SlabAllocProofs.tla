--------------------------- MODULE SlabAllocProofs ---------------------------
(***************************************************************************)
(* IInv is an inductive invariant of SlabAlloc, and with it: a block is in *)
(* one place, a legal free never aborts, allocation implements Malloc, a   *)
(* scan misses no list and every call draws near its end.  For any         *)
(* threads, blocks, CPUs, NUMA tables, word sizes and batch sizes.         *)
(***************************************************************************)
EXTENDS SlabAlloc, FiniteSetTheorems, TLAPS

-----------------------------------------------------------------------------
(* The distance of a call from its end.                                    *)

\* The places of a distance.
LEMMA Seven ==
    1 \in 1..7 /\ 2 \in 1..7 /\ 3 \in 1..7 /\ 4 \in 1..7 /\ 5 \in 1..7 /\ 6 \in 1..7 /\ 7 \in 1..7
OBVIOUS

\* Tuples that agree up to a component that falls.
LEMMA LexBelow ==
    ASSUME NEW v, NEW w, NEW i \in 1..7, DOMAIN v = 1..7, v[i] < w[i],
           \A j \in 1..7 : j < i => v[j] = w[j]
    PROVE  Below(v, w)
<1>1. \A j \in 1..(i - 1) : j \in 1..7 /\ j < i
  OBVIOUS
<1> QED
  BY <1>1, Zenon DEF Below

\* The distances of a scan, component by component.
ScanDistance(r) ==
    <<Stage(r), MaxRetries - r.tries,
      IF r.pc = "own" THEN Rngs + 1 ELSE Rngs - r.rng,
      IF r.pc = "own" THEN 0 ELSE LastWord(r.cpu, r.rng) - r.word,
      IF r.force THEN 0 ELSE 1,
      IF r.pc = "word" THEN NCPU + 1 ELSE Cardinality(r.bits),
      StepRank[r.pc]>>

\* The stage of a call at each point.
LEMMA Stages ==
    ASSUME NEW r \in ThreadRec
    PROVE  /\ r.pc = "pop" => Stage(r) = 5
           /\ r.pc = "bulk" => Stage(r) = 3
           /\ r.pc \in Scanning => Stage(r) = IF r.final THEN 2 ELSE 4
           /\ r.pc \in {"take", "check"} => Stage(r) = 1
           /\ r.pc \in {"idle", "stamp", "push", "abort"} => Stage(r) = 0
BY ZenonT(30) DEF Stage, Scanning

\* The first two components: the stage and the attempts of refill.
LEMMA Heads ==
    ASSUME NEW r \in ThreadRec
    PROVE  /\ DOMAIN Distance(r) = 1..7
           /\ Distance(r)[1] = Stage(r) /\ Distance(r)[2] = MaxRetries - r.tries
           /\ r.pc \in Scanning => Distance(r) = ScanDistance(r)
BY DEF Distance, ScanDistance

\* A lower stage is nearer the end.
LEMMA LowerStage ==
    ASSUME NEW r \in ThreadRec, NEW q \in ThreadRec, Stage(r) < Stage(q)
    PROVE  Below(Distance(r), Distance(q))
<1>1. DOMAIN Distance(r) = 1..7 /\ Distance(r)[1] < Distance(q)[1]
  BY Heads
<1>2. \A j \in 1..7 : ~(j < 1)
  OBVIOUS
<1> QED
  BY <1>1, <1>2, Seven, LexBelow, Zenon

\* The components of a scan's distance.
LEMMA ScanParts ==
    ASSUME NEW r
    PROVE  /\ DOMAIN ScanDistance(r) = 1..7
           /\ ScanDistance(r)[1] = Stage(r) /\ ScanDistance(r)[2] = MaxRetries - r.tries
           /\ ScanDistance(r)[3] = IF r.pc = "own" THEN Rngs + 1 ELSE Rngs - r.rng
           /\ ScanDistance(r)[4] = IF r.pc = "own" THEN 0 ELSE LastWord(r.cpu, r.rng) - r.word
           /\ ScanDistance(r)[5] = IF r.force THEN 0 ELSE 1
           /\ ScanDistance(r)[6] = IF r.pc = "word" THEN NCPU + 1 ELSE Cardinality(r.bits)
           /\ ScanDistance(r)[7] = StepRank[r.pc]
BY DEF ScanDistance

\* The order of the steps at a victim.
LEMMA StepRanks ==
    /\ StepRank["mark"] < StepRank["victim"] /\ StepRank["steal"] < StepRank["victim"]
    /\ StepRank["steal"] < StepRank["mark"] /\ StepRank["unmark"] < StepRank["steal"]
BY DEF StepRank

\* Points in the same stage and attempt agree in the first two.
LEMMA SameParts ==
    ASSUME NEW r, NEW q, Stage(r) = Stage(q), r.tries = q.tries
    PROVE  \A j \in 1..7 : j < 3 => ScanDistance(r)[j] = ScanDistance(q)[j]
<1>1. \A j \in 1..7 : j < 3 => j = 1 \/ j = 2
  OBVIOUS
<1> QED
  BY <1>1, ScanParts, ZenonT(30)

\* A scan has passed the caller's own list.
LEMMA OwnBelow ==
    ASSUME NEW r, NEW q, r.pc = "word", q.pc = "own", r.rng = 0, Rngs \in Nat,
           Stage(r) = Stage(q), r.tries = q.tries
    PROVE  Below(ScanDistance(r), ScanDistance(q))
<1>1. ScanDistance(r)[3] = Rngs - 0 /\ ScanDistance(q)[3] = Rngs + 1
  BY ScanParts, Zenon
<1>2. ScanDistance(r)[3] < ScanDistance(q)[3]
  BY <1>1
<1>3. \A j \in 1..7 : j < 3 => ScanDistance(r)[j] = ScanDistance(q)[j]
  BY SameParts, Zenon
<1>4. DOMAIN ScanDistance(r) = 1..7
  BY ScanParts, Zenon
<1> QED
  BY <1>2, <1>3, <1>4, Seven, LexBelow, Zenon

\* Of two points of a scan, r comes later: another range, another word, the
\* forced pass over the same word, another victim, another step at a victim.
Later(r, q) ==
    \/ r.rng > q.rng
    \/ r.rng = q.rng /\ r.word > q.word
    \/ r.rng = q.rng /\ r.word = q.word /\ r.force /\ ~q.force
    \/ /\ r.rng = q.rng /\ r.word = q.word /\ r.force = q.force /\ r.pc # "word"
       /\ \/ q.pc = "word" /\ Cardinality(r.bits) < NCPU + 1
          \/ q.pc # "word" /\ Cardinality(r.bits) < Cardinality(q.bits)
          \/ q.pc # "word" /\ r.bits = q.bits /\ StepRank[r.pc] < StepRank[q.pc]

\* The later point is nearer the end.
LEMMA LaterBelow ==
    ASSUME NEW r, NEW q, r.pc # "own", q.pc # "own", Stage(r) = Stage(q), r.tries = q.tries,
           r.cpu = q.cpu, r.rng \in Nat, q.rng \in Nat, r.word \in Nat, q.word \in Nat, Rngs \in Nat,
           LastWord(r.cpu, r.rng) \in Nat, Later(r, q)
    PROVE  Below(ScanDistance(r), ScanDistance(q))
<1>1. PICK v, w : v = ScanDistance(r) /\ w = ScanDistance(q)
  BY Zenon
<1>2. DOMAIN v = 1..7 /\ v[1] = w[1] /\ v[2] = w[2]
  BY <1>1, ScanParts, Zenon
<1>3. /\ v[3] = Rngs - r.rng /\ w[3] = Rngs - q.rng
      /\ v[4] = LastWord(r.cpu, r.rng) - r.word /\ w[4] = LastWord(q.cpu, q.rng) - q.word
  BY <1>1, ScanParts, Zenon
<1>4. /\ v[5] = IF r.force THEN 0 ELSE 1
      /\ w[5] = IF q.force THEN 0 ELSE 1
      /\ v[6] = IF r.pc = "word" THEN NCPU + 1 ELSE Cardinality(r.bits)
      /\ w[6] = IF q.pc = "word" THEN NCPU + 1 ELSE Cardinality(q.bits)
      /\ v[7] = StepRank[r.pc] /\ w[7] = StepRank[q.pc]
  BY <1>1, ScanParts, Zenon
<1>5. \A j \in 1..7 : j < 3 => v[j] = w[j]
  BY <1>2
<1> SUFFICES Below(v, w)
  BY <1>1, Zenon
<1>6. CASE r.rng > q.rng
  <2>1. v[3] < w[3]
    BY <1>3, <1>6
  <2> QED
    BY <1>2, <1>5, <2>1, Seven, LexBelow, Zenon
<1>7. CASE r.rng = q.rng /\ r.word > q.word
  <2>1. v[3] = w[3]
    BY <1>3, <1>7, Zenon
  <2>2. PICK l \in Nat : v[4] = l - r.word /\ w[4] = l - q.word
    BY <1>3, <1>7, Zenon
  <2>3. v[4] < w[4]
    BY <1>7, <2>2
  <2>4. \A j \in 1..7 : j < 4 => v[j] = w[j]
    BY <1>5, <2>1
  <2> QED
    BY <1>2, <2>3, <2>4, Seven, LexBelow, Zenon
<1>8. CASE r.rng = q.rng /\ r.word = q.word
  <2>1. v[3] = w[3] /\ v[4] = w[4]
    BY <1>3, <1>8, Zenon
  <2>2. \A j \in 1..7 : j < 5 => v[j] = w[j]
    BY <1>5, <2>1
  <2>3. CASE r.force /\ ~q.force
    <3>1. v[5] = 0 /\ w[5] = 1
      BY <1>4, <2>3, Zenon
    <3>2. v[5] < w[5]
      BY <3>1
    <3> QED
      BY <1>2, <2>2, <3>2, Seven, LexBelow, Zenon
  <2>4. CASE r.force = q.force
    <3>1. v[5] = w[5]
      BY <1>4, <2>4, Zenon
    <3>2. \A j \in 1..7 : j < 6 => v[j] = w[j]
      BY <2>2, <3>1
    <3>3. CASE v[6] < w[6]
      BY <1>2, <3>2, <3>3, Seven, LexBelow, Zenon
    <3>4. CASE v[6] = w[6] /\ v[7] < w[7]
      <4>1. \A j \in 1..7 : j < 7 => v[j] = w[j]
        BY <3>2, <3>4
      <4> QED
        BY <1>2, <3>4, <4>1, Seven, LexBelow, Zenon
    <3>5. v[6] < w[6] \/ (v[6] = w[6] /\ v[7] < w[7])
      <4>1. ~(r.rng > q.rng) /\ ~(r.word > q.word)
        BY <1>8
      <4> QED
        BY <1>4, <2>4, <4>1, ZenonT(30) DEF Later
    <3> QED
      BY <3>3, <3>4, <3>5, Zenon
  <2>5. (r.force /\ ~q.force) \/ r.force = q.force
    <3>1. ~(r.rng > q.rng) /\ ~(r.word > q.word)
      BY <1>8
    <3> QED
      BY <3>1, ZenonT(30) DEF Later
  <2> QED
    BY <2>3, <2>4, <2>5, Zenon
<1> QED
  BY <1>6, <1>7, <1>8, Zenon DEF Later

-----------------------------------------------------------------------------
(* Arithmetic and finite sets.                                             *)

\* A nonempty set of naturals has a least element, which is what
\* trailing_zeros finds in a nonzero word.
LEMMA MinOf ==
    ASSUME NEW S \in SUBSET Nat, S # {}
    PROVE  Min(S) \in S /\ \A n \in S : Min(S) <= n
<1>1. IsWellFoundedOn(OpToRel(<, Nat), Nat)
  BY NatLessThanWellFounded, Zenon
<1>2. PICK m \in S : \A n \in S : <<n, m>> \notin OpToRel(<, Nat)
  BY <1>1, WFMin, Zenon
<1>3. \A n \in S : ~(n < m)
  BY <1>2, Zenon DEF OpToRel
<1>4. \E x \in S : \A n \in S : x <= n
  BY <1>3
<1> QED
  BY <1>4, Zenon DEF Min

\* The word of a CPU grows with the CPU.
LEMMA DivMonotone ==
    ASSUME NEW w \in Nat \ {0}, NEW a \in Nat, NEW b \in Nat, a <= b
    PROVE  a \div w \in Nat /\ b \div w \in Nat /\ a \div w <= b \div w
OBVIOUS

\* Words are numbered from 0, and the word of a CPU grows with the CPU.
LEMMA WordOf ==
    ASSUME NEW a \in CPU
    PROVE  /\ a \in Nat /\ a \div WordSize \in Nat
           /\ \A b \in CPU : a <= b => a \div WordSize <= b \div WordSize
<1>1. a \in Nat /\ \A b \in CPU : b \in Nat
  BY ConstAssumption DEF CPU
<1>2. WordSize \in Nat \ {0}
  BY ConstAssumption
<1>3. a \div WordSize \in Nat
  BY <1>1, <1>2
<1> QED
  BY <1>1, <1>2, <1>3, DivMonotone

\* Going round R nodes from the h-th, one comes past every node.
LEMMA RoundTrip ==
    ASSUME NEW R \in Nat \ {0}, NEW h \in 1..R, NEW k \in 1..R
    PROVE  \E j \in 0..(R - 1) : ((h - 1 + j) % R) + 1 = k
<1>1. \A a \in 0..(R - 1) : a % R = a /\ (a + R) % R = a
  OBVIOUS
<1>2. CASE k >= h
  <2>1. k - h \in 0..(R - 1) /\ h - 1 + (k - h) = k - 1 /\ k - 1 \in 0..(R - 1)
    BY <1>2
  <2>2. ((h - 1 + (k - h)) % R) + 1 = k
    BY <1>1, <2>1
  <2> QED
    BY <2>1, <2>2, Zenon
<1>3. CASE k < h
  <2>1. k - h + R \in 0..(R - 1) /\ h - 1 + (k - h + R) = (k - 1) + R /\ k - 1 \in 0..(R - 1)
    BY <1>3
  <2>2. ((h - 1 + (k - h + R)) % R) + 1 = k
    BY <1>1, <2>1
  <2> QED
    BY <2>1, <2>2, Zenon
<1> QED
  BY <1>2, <1>3

\* transfer_pop_batch of n > 0 blocks takes none only from an empty list, and
\* one from any other when n is 1.
LEMMA PopCount ==
    ASSUME NEW L \in SUBSET Block, NEW S \in SUBSET L, NEW n \in Nat, n > 0,
           Cardinality(S) = Min({n, Cardinality(L)})
    PROVE  /\ S = {} => L = {}
           /\ n = 1 => S = {} \/ \E b \in Block : S = {b}
<1>1. IsFiniteSet(L) /\ IsFiniteSet(S)
  BY ConstAssumption, FS_Subset
<1>2. Cardinality(L) \in Nat /\ Cardinality(S) \in Nat
  BY <1>1, FS_CardinalityType
<1>3. /\ Min({n, Cardinality(L)}) \in {n, Cardinality(L)}
      /\ Min({n, Cardinality(L)}) <= n
  BY <1>2, MinOf
<1>4. S = {} => L = {}
  BY <1>1, <1>3, FS_EmptySet
<1>5. ASSUME n = 1 PROVE S = {} \/ \E b \in Block : S = {b}
  <2>1. Cardinality(S) = 0 \/ Cardinality(S) = 1
    BY <1>2, <1>3, <1>5
  <2> QED
    BY <1>1, <2>1, FS_EmptySet, FS_Singleton
<1> QED
  BY <1>4, <1>5

-----------------------------------------------------------------------------
(* What a step leaves alone, and where blocks are after it.                *)

\* A history only shrinks during a scan, and what is left is hinted.
LEMMA StockedShrinks ==
    ASSUME TypeOK, Observe, NEW u \in Thread
    PROVE  /\ stocked' \in [Thread -> SUBSET CPU]
           /\ th[u].pc \in Scanning => stocked'[u] \subseteq stocked[u]
           /\ \A c \in stocked'[u] : hint'[c] /\ mail'[c] # {}
BY DEF Observe, TypeOK

\* A step that neither moves a block nor empties a hand.
LEMMA QuietLocated ==
    ASSUME IInv, NEW t \in Thread, NEW r, th' = [th EXCEPT ![t] = r],
           r.got = th[t].got, UNCHANGED <<cache, mail, fresh, live>>
    PROVE  \E g \in [Block -> Spot] : Located(g)'
<1>1. PICK f \in [Block -> Spot] : Located(f)
  BY DEF IInv
<1>2. \A u \in Thread : th'[u].got = th[u].got
  BY DEF IInv, TypeOK
<1>3. ASSUME NEW s \in Spot PROVE Content(s)' = Content(s)
  BY <1>2 DEF Content, Spot
<1>4. Located(f)'
  BY <1>1, <1>3 DEF Located
<1> QED
  BY <1>4

\* A step that moves the blocks S from place p to place q.
LEMMA MoveLocated ==
    ASSUME IInv, NEW p \in Spot, NEW q \in Spot, p # q, NEW S \in SUBSET Content(p),
           Content(p)' = Content(p) \ S, Content(q)' = Content(q) \cup S,
           \A s \in Spot \ {p, q} : Content(s)' = Content(s)
    PROVE  \E g \in [Block -> Spot] : Located(g)'
<1>1. PICK f \in [Block -> Spot] : Located(f)
  BY DEF IInv
<1> DEFINE g == [b \in Block |-> IF b \in S THEN q ELSE f[b]]
<1>2. \A b \in S : b \in Block /\ f[b] = p
  BY <1>1 DEF Located
<1>3. ASSUME NEW s \in Spot PROVE Content(s)' = {b \in Block : g[b] = s}
  <2>1. Content(s) = {b \in Block : f[b] = s}
    BY <1>1 DEF Located
  <2>2. CASE s = p
    BY <1>2, <2>1, <2>2
  <2>3. CASE s = q
    BY <1>2, <2>1, <2>3
  <2>4. CASE s \notin {p, q}
    BY <1>2, <2>1, <2>4
  <2> QED
    BY <2>2, <2>3, <2>4
<1>4. g \in [Block -> Spot]
  OBVIOUS
<1>5. Located(g)'
  BY <1>3 DEF Located
<1> QED
  BY <1>4, <1>5

\* The threads that do not move keep their invariants, as long as the blocks
\* in their hands keep their magic.
LEMMA OthersKept ==
    ASSUME IInv, Observe, node' = node, NEW u \in Thread, th'[u] = th[u],
           \A b \in th[u].got : magic'[b] = magic[b]
    PROVE  th'[u].pc # "abort" /\ HandsInv(th[u])' /\ ScanInv(th[u])' /\ AheadInv(u)'
<1>1. HandsInv(th[u])' /\ th'[u].pc # "abort"
  BY DEF IInv, HandsInv
<1>2. ScanInv(th[u])'
  BY DEF IInv, ScanInv, Rngs
<1>3. AheadInv(u)'
  <2>1. th[u].pc \in Scanning => stocked'[u] \subseteq stocked[u]
    BY StockedShrinks DEF IInv
  <2>2. \A c : Ahead(th[u], c)' <=> Ahead(th[u], c)
    BY DEF Ahead, RangeAt, Rngs, HomeOf
  <2>3. AheadInv(u) /\ Victim(u)' = Victim(u)
    BY DEF IInv, Victim
  <2> QED
    BY <2>1, <2>2, <2>3 DEF AheadInv, At, Scanning
<1> QED
  BY <1>1, <1>2, <1>3

\* What is left to show of a step of thread t that ends with record r.
LEMMA StepInv ==
    ASSUME IInv, Observe, node' = node, NEW t \in Thread, NEW r \in ThreadRec,
           th' = [th EXCEPT ![t] = r],
           cache' \in [CPU -> SUBSET Block], mail' \in [CPU -> SUBSET Block],
           hint' \in [CPU -> BOOLEAN], stealing' \in [CPU -> BOOLEAN],
           fresh' \subseteq Block, live' \in [Block -> 0..1],
           magic' \in [Block -> {"MAGIC", "FREED"}],
           \E g \in [Block -> Spot] : Located(g)',
           \A b \in Block : live'[b] = 1 => magic'[b] = "MAGIC",
           \A u \in Thread \ {t} : \A b \in th[u].got : magic'[b] = magic[b],
           r.pc # "abort", HandsInv(r)', ScanInv(r), AheadInv(t)'
    PROVE  IInv'
<1>1. th' \in [Thread -> ThreadRec] /\ th'[t] = r /\ \A u \in Thread \ {t} : th'[u] = th[u]
  BY Zenon DEF IInv, TypeOK
<1>2. TypeOK'
  BY <1>1, StockedShrinks, Zenon DEF IInv, TypeOK
<1>3. ScanInv(r)'
  BY DEF ScanInv, Rngs
<1>4. ASSUME NEW u \in Thread
      PROVE  th'[u].pc # "abort" /\ HandsInv(th[u])' /\ ScanInv(th[u])' /\ AheadInv(u)'
  <2>1. CASE u = t
    BY <1>1, <1>3, <2>1
  <2>2. CASE u # t
    BY <1>1, <2>2, OthersKept
  <2> QED
    BY <2>1, <2>2
<1> QED
  BY <1>2, <1>4, Zenon DEF IInv

\* The values Idle is made of are well typed.
LEMMA IdleType == Idle \in ThreadRec /\ 0 \in CPU
<1>1. 0 \in CPU /\ 0 \in 0..MaxBatch /\ 0 \in 0..(MaxRetries - 1)
  BY ConstAssumption DEF CPU
<1> QED
  BY <1>1 DEF Idle, ThreadRec, PC

\* The initial state: every block is still to be carved.
LEMMA InitIInv == Init => IInv
<1> SUFFICES ASSUME Init PROVE IInv
  OBVIOUS
<1>3. TypeOK
  BY IdleType DEF Init, TypeOK
<1>4. \E f \in [Block -> Spot] : Located(f)
  <2> DEFINE f == [b \in Block |-> <<"fresh", 0>>]
  <2>1. f \in [Block -> Spot]
    BY DEF Spot
  <2>2. Located(f)
    BY DEF Located, Content, Spot, Init, Idle
  <2> QED
    BY <2>1, <2>2
<1>5. \A t \in Thread : th[t] = Idle
  BY DEF Init
<1>6. ASSUME NEW t \in Thread
      PROVE  th[t].pc # "abort" /\ HandsInv(th[t]) /\ ScanInv(th[t]) /\ AheadInv(t)
  BY <1>5 DEF Idle, HandsInv, ScanInv, AheadInv, At, Scanning
<1> QED
  BY <1>3, <1>4, <1>6 DEF IInv, Init

\* A call that is not scanning claims nothing about the scan.
LEMMA NotScanning ==
    ASSUME NEW t \in Thread, NEW r, th'[t] = r, r.pc \notin Scanning
    PROVE  AheadInv(t)'
BY DEF AheadInv, At, Scanning

\* What IInv says of one thread.
LEMMA ThreadFacts ==
    ASSUME IInv, NEW t \in Thread
    PROVE  /\ th \in [Thread -> ThreadRec] /\ th[t] \in ThreadRec /\ th[t].pc # "abort"
           /\ HandsInv(th[t]) /\ ScanInv(th[t]) /\ AheadInv(t)
BY DEF IInv, TypeOK

\* A step that moves no block and changes no pool but perhaps the bits.
LEMMA QuietStep ==
    ASSUME IInv, Observe, node' = node, NEW t \in Thread, NEW r \in ThreadRec,
           th' = [th EXCEPT ![t] = r], r.got = th[t].got,
           hint' \in [CPU -> BOOLEAN], stealing' \in [CPU -> BOOLEAN],
           UNCHANGED <<cache, mail, fresh, magic, live>>,
           r.pc # "abort", HandsInv(r), ScanInv(r), AheadInv(t)'
    PROVE  IInv'
<1>1. \E g \in [Block -> Spot] : Located(g)'
  BY QuietLocated, Zenon
<1>2. HandsInv(r)'
  BY DEF HandsInv
<1>3. /\ cache' \in [CPU -> SUBSET Block] /\ mail' \in [CPU -> SUBSET Block]
      /\ fresh' \subseteq Block /\ live' \in [Block -> 0..1]
      /\ magic' \in [Block -> {"MAGIC", "FREED"}]
      /\ \A b \in Block : live'[b] = 1 => magic'[b] = "MAGIC"
  BY DEF IInv, TypeOK
<1> QED
  BY <1>1, <1>2, <1>3, StepInv, Zenon

\* malloc begins.
LEMMA AllocStartInv ==
    ASSUME IInv, Observe, node' = node, NEW t \in Thread, AllocStart(t)
    PROVE  IInv'
<1>1. PICK r : r = [Idle EXCEPT !.pc = "pop"]
  BY Zenon
<1>2. r \in ThreadRec /\ r.got = {} /\ HandsInv(r) /\ ScanInv(r) /\ r.pc = "pop"
  BY <1>1, IdleType, Zenon DEF ThreadRec, PC, HandsInv, ScanInv, Scanning, Idle
<1>3. th[t].got = {}
  BY ThreadFacts DEF AllocStart, At, HandsInv
<1>4. th' = [th EXCEPT ![t] = r] /\ th'[t] = r
  BY <1>1, ThreadFacts DEF AllocStart, Step
<1>5. AheadInv(t)'
  BY <1>2, <1>4, NotScanning DEF Scanning
<1> QED
  BY <1>2, <1>3, <1>4, <1>5, QuietStep, Zenon DEF AllocStart, lists, IInv, TypeOK

\* Blocks leave the RSEQ list, the transfer list or the fresh spans for the
\* empty hands of t.
LEMMA ToHand ==
    ASSUME IInv, NEW t \in Thread, NEW r, th' = [th EXCEPT ![t] = r], th[t].got = {},
           NEW c \in CPU, NEW S, r.got = S, live' = live,
           \/ S \subseteq cache[c] /\ cache' = [cache EXCEPT ![c] = @ \ S] /\ UNCHANGED <<mail, fresh>>
           \/ S \subseteq mail[c] /\ mail' = [mail EXCEPT ![c] = @ \ S] /\ UNCHANGED <<cache, fresh>>
           \/ S \subseteq fresh /\ fresh' = fresh \ S /\ UNCHANGED <<cache, mail>>
    PROVE  \E g \in [Block -> Spot] : Located(g)'
<1> DEFINE q == <<"held", t>>
<1>1. /\ \A u \in Thread : th'[u].got = IF u = t THEN S ELSE th[u].got
      /\ cache \in [CPU -> SUBSET Block] /\ mail \in [CPU -> SUBSET Block]
  BY DEF IInv, TypeOK
<1>2. q \in Spot /\ Content(q)' = Content(q) \cup S
  BY <1>1 DEF Spot, Content
<1>3. CASE S \subseteq cache[c] /\ cache' = [cache EXCEPT ![c] = @ \ S] /\ UNCHANGED <<mail, fresh>>
  <2> DEFINE p == <<"cache", c>>
  <2>1. p \in Spot /\ p # q /\ S \subseteq Content(p) /\ Content(p)' = Content(p) \ S
    BY <1>1, <1>3 DEF Spot, Content
  <2>2. \A s \in Spot \ {p, q} : Content(s)' = Content(s)
    BY <1>1, <1>3 DEF Spot, Content
  <2> QED
    BY <1>2, <2>1, <2>2, MoveLocated
<1>4. CASE S \subseteq mail[c] /\ mail' = [mail EXCEPT ![c] = @ \ S] /\ UNCHANGED <<cache, fresh>>
  <2> DEFINE p == <<"mail", c>>
  <2>1. p \in Spot /\ p # q /\ S \subseteq Content(p) /\ Content(p)' = Content(p) \ S
    BY <1>1, <1>4 DEF Spot, Content
  <2>2. \A s \in Spot \ {p, q} : Content(s)' = Content(s)
    BY <1>1, <1>4 DEF Spot, Content
  <2> QED
    BY <1>2, <2>1, <2>2, MoveLocated
<1>5. CASE S \subseteq fresh /\ fresh' = fresh \ S /\ UNCHANGED <<cache, mail>>
  <2> DEFINE p == <<"fresh", 0>>
  <2>1. p \in Spot /\ p # q /\ S \subseteq Content(p) /\ Content(p)' = Content(p) \ S
    BY <1>1, <1>5 DEF Spot, Content
  <2>2. \A s \in Spot \ {p, q} : Content(s)' = Content(s)
    BY <1>1, <1>5 DEF Spot, Content
  <2> QED
    BY <1>2, <2>1, <2>2, MoveLocated
<1> QED
  BY <1>3, <1>4, <1>5

\* push_tailed of S, which t has in its hands: on the RSEQ or the transfer
\* list of some CPU.
LEMMA FromHand ==
    ASSUME IInv, NEW t \in Thread, NEW r, th' = [th EXCEPT ![t] = r],
           NEW S \in SUBSET th[t].got, r.got = th[t].got \ S, PushTailed(S),
           UNCHANGED <<fresh, live>>
    PROVE  /\ \E g \in [Block -> Spot] : Located(g)'
           /\ cache' \in [CPU -> SUBSET Block] /\ mail' \in [CPU -> SUBSET Block]
           /\ hint' \in [CPU -> BOOLEAN]
<1> DEFINE p == <<"held", t>>
<1>1. /\ \A u \in Thread : th'[u].got = IF u = t THEN th[t].got \ S ELSE th[u].got
      /\ cache \in [CPU -> SUBSET Block] /\ mail \in [CPU -> SUBSET Block]
      /\ hint \in [CPU -> BOOLEAN] /\ th[t] \in ThreadRec /\ S \subseteq Block
  BY Zenon DEF IInv, TypeOK, ThreadRec
<1>2. p \in Spot /\ S \subseteq Content(p) /\ Content(p)' = Content(p) \ S
  BY <1>1 DEF Spot, Content
<1>3. PICK c \in CPU : \/ cache' = [cache EXCEPT ![c] = @ \cup S] /\ UNCHANGED <<mail, hint>>
                       \/ Spill(c, S)
  BY DEF PushTailed
<1>4. CASE cache' = [cache EXCEPT ![c] = @ \cup S] /\ UNCHANGED <<mail, hint>>
  <2> DEFINE q == <<"cache", c>>
  <2>1. q \in Spot /\ p # q /\ Content(q)' = Content(q) \cup S
    BY <1>1, <1>4 DEF Spot, Content
  <2>2. \A s \in Spot \ {p, q} : Content(s)' = Content(s)
    BY <1>1, <1>4 DEF Spot, Content
  <2>3. \E g \in [Block -> Spot] : Located(g)'
    BY <1>2, <2>1, <2>2, MoveLocated, Zenon
  <2> QED
    BY <1>1, <1>4, <2>3
<1>5. CASE Spill(c, S)
  <2> DEFINE q == <<"mail", c>>
  <2>1. q \in Spot /\ p # q /\ Content(q)' = Content(q) \cup S
    BY <1>1, <1>5 DEF Spot, Content, Spill
  <2>2. \A s \in Spot \ {p, q} : Content(s)' = Content(s)
    BY <1>1, <1>5 DEF Spot, Content, Spill
  <2>3. \E g \in [Block -> Spot] : Located(g)'
    BY <1>2, <2>1, <2>2, MoveLocated
  <2> QED
    BY <1>1, <1>5, <2>3 DEF Spill
<1> QED
  BY <1>3, <1>4, <1>5

\* The i-th range of a scan is a pair of CPUs, and the ranges together cover
\* every CPU.
LEMMA RangeFacts ==
    ASSUME node \in Topologies, NEW c \in CPU
    PROVE  /\ Rngs \in Nat \ {0}
           /\ \A i \in Nat : RangeAt(c, i)[1] \in CPU /\ RangeAt(c, i)[2] \in CPU
           /\ \A d \in CPU : \E j \in 0..(Rngs - 1) :
                  d \in RangeAt(c, j)[1]..RangeAt(c, j)[2]
<1>1. /\ node \in Seq(CPU \X CPU)
      /\ \A d \in CPU : \E k \in DOMAIN node : d \in node[k][1]..node[k][2]
  BY ConstAssumption, Zenon
<1>2. DOMAIN node = 1..Len(node) /\ Len(node) \in Nat
  BY <1>1
<1>3. HomeOf(c) \in DOMAIN node
  BY <1>1 DEF HomeOf
<1>4. Rngs = Len(node)
  <2>1. \A n \in Nat : Cardinality(1..n) = IF 1 > n THEN 0 ELSE n - 1 + 1
    BY FS_Interval
  <2>2. \A n \in Nat : Cardinality(1..n) = n
    BY <2>1
  <2> QED
    BY <1>2, <2>2 DEF Rngs
<1>5. Rngs \in Nat \ {0} /\ HomeOf(c) \in 1..Rngs
  BY <1>2, <1>3, <1>4
<1>6. ASSUME NEW i \in Nat PROVE RangeAt(c, i)[1] \in CPU /\ RangeAt(c, i)[2] \in CPU
  <2>1. ((HomeOf(c) - 1 + i) % Rngs) + 1 \in 1..Rngs
    BY <1>5
  <2>2. RangeAt(c, i) \in CPU \X CPU
    BY <1>1, <1>2, <1>4, <2>1 DEF RangeAt
  <2> QED
    BY <2>2
<1>7. ASSUME NEW d \in CPU
      PROVE  \E j \in 0..(Rngs - 1) : d \in RangeAt(c, j)[1]..RangeAt(c, j)[2]
  <2>1. PICK k \in 1..Rngs : d \in node[k][1]..node[k][2]
    BY <1>1, <1>2, <1>4
  <2>2. PICK j \in 0..(Rngs - 1) : ((HomeOf(c) - 1 + j) % Rngs) + 1 = k
    BY <1>5, RoundTrip, Zenon
  <2>3. RangeAt(c, j) = node[k]
    BY <2>2 DEF RangeAt
  <2> QED
    BY <2>1, <2>3
<1> QED
  BY <1>5, <1>6, <1>7

-----------------------------------------------------------------------------
(* The scan: one lemma for each step.                                      *)

\* AheadInv after a step, from what the step's record says.
LEMMA AheadFrom ==
    ASSUME node' = node, NEW t \in Thread, NEW r, th'[t] = r,
           r.pc \in Scanning \ {"own"} => \A c \in stocked'[t] \ {r.cpu} : Ahead(r, c),
           r.pc = "unmark" /\ r.got = {} => Min(r.bits) \notin stocked'[t]
    PROVE  AheadInv(t)'
<1>1. \A c : Ahead(r, c)' <=> Ahead(r, c)
  BY DEF Ahead, RangeAt, Rngs, HomeOf
<1>2. \A c : Ahead(th[t], c)' <=> Ahead(r, c)'
  BY DEF Ahead
<1>3. Victim(t)' = Min(r.bits)
  BY DEF Victim
<1> QED
  BY <1>1, <1>2, <1>3, ZenonT(30) DEF AheadInv, At

\* A scan enters its i-th range: every list it may not miss is in this range
\* or a later one, and this one is begun at its first word.
LEMMA EnterRange ==
    ASSUME IInv, Observe, node' = node, NEW t \in Thread, NEW i \in 0..(Rngs - 1),
           NEW r, r = AtRange(t, i), th' = [th EXCEPT ![t] = r],
           th[t].pc \in Scanning, th[t].got = {},
           \A c \in stocked[t] \ {th[t].cpu} : \E j \in i..(Rngs - 1) :
               c \in RangeAt(th[t].cpu, j)[1]..RangeAt(th[t].cpu, j)[2],
           hint' \in [CPU -> BOOLEAN], UNCHANGED <<cache, mail, stealing, fresh, magic, live>>
    PROVE  IInv'
<1>1. /\ th[t] \in ThreadRec /\ th[t].cpu \in CPU /\ th[t].want > 0 /\ th'[t] = r
      /\ th[t].final => th[t].want = 1
  BY ThreadFacts, Zenon DEF ThreadRec, ScanInv
<1>2. Rngs \in Nat \ {0} /\ i \in Nat
  BY <1>1, RangeFacts DEF IInv
<1>3. PICK a \in CPU : a = RangeAt(th[t].cpu, i)[1]
  BY <1>1, <1>2, RangeFacts DEF IInv
<1>4. PICK w \in Nat : a \in Nat /\ w = a \div WordSize
  BY <1>3, WordOf
<1>5. /\ r = [th[t] EXCEPT !.pc = "word", !.rng = i, !.force = FALSE, !.word = w]
      /\ r \in ThreadRec
  <2>1. r = [th[t] EXCEPT !.pc = "word", !.rng = i, !.force = FALSE, !.word = w]
    BY <1>3, <1>4 DEF AtRange
  <2> QED
    BY <1>1, <1>2, <2>1, ZenonT(30) DEF ThreadRec, PC, Scanning
<1>6. /\ r.pc = "word" /\ r.cpu = th[t].cpu /\ r.want = th[t].want /\ r.final = th[t].final
      /\ r.rng = i /\ r.word = w /\ ~r.force /\ r.got = {}
  BY <1>1, <1>5 DEF ThreadRec
<1>7. HandsInv(r) /\ ScanInv(r)
  BY <1>1, <1>2, <1>6 DEF HandsInv, ScanInv
<1>8. ASSUME NEW c \in stocked'[t] \ {r.cpu} PROVE Ahead(r, c)
  <2>1. c \in stocked[t] \ {th[t].cpu} /\ c \in CPU /\ c \in Nat
    BY <1>6, StockedShrinks DEF IInv, TypeOK, CPU
  <2>2. PICK j \in i..(Rngs - 1) : c \in RangeAt(r.cpu, j)[1]..RangeAt(r.cpu, j)[2]
    BY <1>6, <2>1, Zenon
  <2>3. j \in 0..(Rngs - 1) /\ (j > i \/ j = i)
    BY <1>2
  <2>4. CASE j > i
    BY <1>6, <2>2, <2>3, <2>4, Zenon DEF Ahead
  <2>5. CASE j = i
    <3>1. a <= c
      BY <1>3, <1>4, <1>6, <2>1, <2>2, <2>5
    <3>2. c \div WordSize \in Nat /\ a \div WordSize <= c \div WordSize
      BY <1>3, <2>1, <3>1, WordOf, ZenonT(30)
    <3>3. c \div WordSize > r.word \/ c \div WordSize = r.word
      BY <1>4, <1>6, <3>2
    <3> QED
      BY <1>6, <2>2, <2>3, <2>5, <3>3, Zenon DEF Ahead
  <2> QED
    BY <2>3, <2>4, <2>5, Zenon
<1>9. AheadInv(t)'
  BY <1>1, <1>6, <1>8, AheadFrom, Zenon
<1>10. stealing' \in [CPU -> BOOLEAN]
  BY DEF IInv, TypeOK
<1> QED
  BY <1>1, <1>5, <1>6, <1>7, <1>9, <1>10, QuietStep, ZenonT(30)

\* Found ends a scan or a refill with a batch S, one block if it is the last try.
LEMMA FoundInv ==
    ASSUME IInv, NEW t \in Thread, NEW S \in SUBSET Block, S # {},
           th[t].final => \E b \in Block : S = {b}, NEW r, r = Found(t, S)
    PROVE  /\ r \in ThreadRec /\ r.pc \in {"take", "stamp"} /\ r.got = S
           /\ HandsInv(r) /\ HandsInv(r)' /\ ScanInv(r)
<1>1. /\ r \in ThreadRec /\ r.got = S /\ r.pc = IF th[t].final THEN "stamp" ELSE "take"
  BY IdleType, ZenonT(30) DEF Found, Idle, ThreadRec, PC
<1>2. r.pc = "stamp" => \E b \in Block : S = {b}
  BY <1>1
<1> QED
  BY <1>1, <1>2 DEF HandsInv, ScanInv, Scanning

\* try_pop's own transfer list.
LEMMA TryOwnInv ==
    ASSUME IInv, Observe, node' = node, NEW t \in Thread, TryOwn(t)
    PROVE  IInv'
<1>1. PICK c : c = th[t].cpu
  BY Zenon
<1>2. /\ th[t] \in ThreadRec /\ c \in CPU /\ th[t].pc = "own" /\ th[t].pc \in Scanning
      /\ th[t].want > 0 /\ th[t].want \in Nat /\ (th[t].final => th[t].want = 1)
      /\ th[t].got = {} /\ th \in [Thread -> ThreadRec]
  BY <1>1, ThreadFacts, ConstAssumption DEF TryOwn, At, ThreadRec, Scanning, HandsInv, ScanInv
<1>3. /\ mail \in [CPU -> SUBSET Block] /\ hint \in [CPU -> BOOLEAN] /\ node \in Topologies
  BY Zenon DEF IInv, TypeOK
<1>4. UNCHANGED <<cache, stealing, fresh, magic, live>>
  BY DEF TryOwn
<1>5. ASSUME NEW S \in SUBSET mail[c], mail[c] # {}, PopBatch(c, th[t].want, S), Step(t, Found(t, S))
      PROVE  IInv'
  <2>1. PICK r : r = Found(t, S)
    OBVIOUS
  <2>2. mail[c] \in SUBSET Block /\ S \in SUBSET Block
    BY <1>2, <1>3, Zenon
  <2>3. S # {} /\ (th[t].final => \E b \in Block : S = {b})
    BY <1>2, <1>5, <2>2, PopCount DEF PopBatch
  <2>4. /\ r \in ThreadRec /\ r.pc \in {"take", "stamp"} /\ r.got = S
        /\ HandsInv(r)' /\ ScanInv(r)
    BY <2>1, <2>2, <2>3, FoundInv, Zenon
  <2>5. th' = [th EXCEPT ![t] = r] /\ th'[t] = r
    BY <1>2, <1>5, <2>1 DEF Step
  <2>6. AheadInv(t)'
    BY <2>4, <2>5, NotScanning DEF Scanning
  <2>7. mail' = [mail EXCEPT ![c] = @ \ S] /\ mail' \in [CPU -> SUBSET Block] /\ hint' \in [CPU -> BOOLEAN]
    BY <1>3, <1>5, Zenon DEF PopBatch
  <2>8. \E g \in [Block -> Spot] : Located(g)'
    BY <1>2, <1>4, <2>4, <2>5, <2>7, ToHand, ZenonT(30)
  <2> QED
    BY <1>4, <2>4, <2>5, <2>6, <2>7, <2>8, StepInv, Zenon DEF IInv, TypeOK
<1>6. ASSUME Step(t, AtRange(t, 0)), mail' = mail, hint' \in [CPU -> BOOLEAN] PROVE IInv'
  <2>1. PICK r : r = AtRange(t, 0)
    OBVIOUS
  <2>2. th' = [th EXCEPT ![t] = r]
    BY <1>6, <2>1 DEF Step
  <2>3. \A d \in CPU : \E j \in 0..(Rngs - 1) : d \in RangeAt(c, j)[1]..RangeAt(c, j)[2]
    BY <1>2, <1>3, RangeFacts, Zenon
  <2>5. Rngs \in Nat \ {0}
    BY <1>2, <1>3, RangeFacts, Zenon
  <2>4. stocked[t] \subseteq CPU
    BY DEF IInv, TypeOK
  <2>6. 0 \in 0..(Rngs - 1)
    BY <2>5
  <2>7. \A d \in stocked[t] \ {th[t].cpu} : \E j \in 0..(Rngs - 1) :
            d \in RangeAt(th[t].cpu, j)[1]..RangeAt(th[t].cpu, j)[2]
    BY <1>1, <2>3, <2>4, ZenonT(30)
  <2> QED
    BY <1>1, <1>2, <1>4, <1>6, <2>1, <2>2, <2>6, <2>7, EnterRange, Zenon
<1> QED
  BY <1>1, <1>2, <1>3, <1>5, <1>6, Zenon DEF TryOwn

\* The candidates of a word are CPUs, so the lowest is one of them.
LEMMA VictimFacts ==
    ASSUME IInv, NEW t \in Thread, th[t].pc \in {"victim", "mark", "steal", "unmark"}
    PROVE  Victim(t) \in th[t].bits /\ Victim(t) \in CPU
<1>1. th[t].bits \subseteq CPU /\ th[t].bits # {}
  BY ThreadFacts DEF ScanInv, ThreadRec
<1>2. th[t].bits \subseteq Nat
  BY <1>1, ConstAssumption DEF CPU
<1> QED
  BY <1>1, <1>2, MinOf, ZenonT(30) DEF Victim

\* The candidates of a word, the forced pass included, are all its hinted CPUs.
LEMMA ScanWordInv ==
    ASSUME IInv, Observe, node' = node, NEW t \in Thread, ScanWord(t)
    PROVE  IInv'
<1>1. PICK c, i : c = th[t].cpu /\ i = th[t].rng
  OBVIOUS
<1>2. PICK x, y : x = RangeAt(c, i)[1] /\ y = RangeAt(c, i)[2]
  OBVIOUS
<1>3. PICK b : b = {d \in x..y : d \div WordSize = th[t].word /\ hint[d]}
  BY Zenon
<1>4. /\ th[t] \in ThreadRec /\ c \in CPU /\ i \in Nat /\ th[t].pc = "word" /\ th[t].got = {}
      /\ th \in [Thread -> ThreadRec] /\ ScanInv(th[t]) /\ AheadInv(t)
  BY <1>1, ThreadFacts, Zenon DEF ScanWord, At, ThreadRec, HandsInv
<1>5. x \in CPU /\ y \in CPU
  BY <1>2, <1>4, RangeFacts, ZenonT(30) DEF IInv
<1>6. b \subseteq CPU
  BY <1>3, <1>5, ConstAssumption DEF CPU
<1>7. PICK r : r = [th[t] EXCEPT !.bits = b, !.pc = IF b = {} THEN "advance" ELSE "victim"]
  BY ZenonT(30)
<1>8. r \in ThreadRec
  BY <1>4, <1>6, <1>7, ZenonT(30) DEF ThreadRec, PC, Scanning
<1>9. /\ r.pc = (IF b = {} THEN "advance" ELSE "victim") /\ r.bits = b /\ r.got = {}
      /\ r.cpu = c /\ r.rng = i /\ r.word = th[t].word /\ r.force = th[t].force
      /\ r.want = th[t].want /\ r.final = th[t].final
  BY <1>1, <1>4, <1>7 DEF ThreadRec
<1>10. HandsInv(r) /\ ScanInv(r) /\ r.pc # "abort" /\ r.pc # "unmark"
  BY <1>4, <1>9, <1>1, ZenonT(30) DEF HandsInv, ScanInv, Scanning
<1>11. th' = [th EXCEPT ![t] = r] /\ th'[t] = r /\ UNCHANGED <<lists, magic, live>>
  BY <1>1, <1>2, <1>3, <1>4, <1>7, ZenonT(30) DEF ScanWord, Step
<1>12. ASSUME NEW d \in stocked'[t] \ {r.cpu} PROVE Ahead(r, d)
  <2>1. d \in stocked[t] \ {th[t].cpu} /\ hint[d]
    BY <1>1, <1>4, <1>9, <1>11, StockedShrinks, ZenonT(30) DEF IInv, Scanning, lists
  <2>2. Ahead(th[t], d)
    BY <1>4, <2>1, Zenon DEF AheadInv, Scanning
  <2>3. PICK j \in 0..(Rngs - 1) :
            /\ d \in RangeAt(c, j)[1]..RangeAt(c, j)[2]
            /\ j > i \/ (j = i /\ d \div WordSize > th[t].word) \/ (j = i /\ d \div WordSize = th[t].word)
    BY <1>1, <2>2, Zenon DEF Ahead
  <2>4. j = i /\ d \div WordSize = th[t].word => d \in b
    BY <1>2, <1>3, <2>1, <2>3, Zenon
  <2> QED
    BY <1>9, <2>3, <2>4, Zenon DEF Ahead
<1>13. AheadInv(t)'
  BY <1>10, <1>11, <1>12, AheadFrom, ZenonT(30)
<1>14. hint' \in [CPU -> BOOLEAN] /\ stealing' \in [CPU -> BOOLEAN] /\ UNCHANGED <<cache, mail, fresh>>
  BY <1>11 DEF lists, IInv, TypeOK
<1> QED
  BY <1>4, <1>8, <1>9, <1>10, <1>11, <1>13, <1>14, QuietStep, ZenonT(30)

\* A scan goes on to the next candidate only past a list it need not visit:
\* its own, one that is being stolen from in the plain pass, an empty one.
LEMMA NextVictimInv ==
    ASSUME IInv, Observe, node' = node, NEW t \in Thread,
           th[t].pc \in {"victim", "unmark"}, th[t].got = {},
           Victim(t) \notin stocked[t] \/ Victim(t) = th[t].cpu \/ ~th[t].force,
           Step(t, NextVictim(t)), stealing' \in [CPU -> BOOLEAN],
           UNCHANGED <<cache, mail, hint, fresh, magic, live>>
    PROVE  IInv'
<1>1. PICK v : v = Victim(t)
  OBVIOUS
<1>2. PICK r : r = [th[t] EXCEPT !.bits = @ \ {v},
                                 !.pc = IF th[t].bits = {v} THEN "advance" ELSE "victim"]
  BY Zenon
<1>3. /\ th[t] \in ThreadRec /\ th \in [Thread -> ThreadRec] /\ ScanInv(th[t]) /\ AheadInv(t)
      /\ th[t].pc \in Scanning \ {"own"}
  BY ThreadFacts DEF Scanning
<1>4. v \in th[t].bits
  BY <1>1, VictimFacts
<1>5. r \in ThreadRec
  BY <1>2, <1>3, Zenon DEF ThreadRec, PC, Scanning
<1>6. /\ r.bits = th[t].bits \ {v} /\ r.pc = (IF th[t].bits = {v} THEN "advance" ELSE "victim")
      /\ r.got = {} /\ r.cpu = th[t].cpu /\ r.rng = th[t].rng /\ r.word = th[t].word
      /\ r.force = th[t].force /\ r.want = th[t].want /\ r.final = th[t].final
  BY <1>2, <1>3, ZenonT(30) DEF ThreadRec
<1>7. HandsInv(r) /\ ScanInv(r) /\ r.pc # "abort" /\ r.pc # "unmark"
  BY <1>3, <1>4, <1>6 DEF HandsInv, ScanInv, Scanning
<1>8. th' = [th EXCEPT ![t] = r] /\ th'[t] = r
  BY <1>1, <1>2, <1>3, Zenon DEF Step, NextVictim
<1>9. ASSUME NEW d \in stocked'[t] \ {r.cpu} PROVE Ahead(r, d)
  <2>1. d \in stocked[t] \ {th[t].cpu}
    BY <1>3, <1>6, StockedShrinks DEF IInv
  <2>2. Ahead(th[t], d) /\ (d # v \/ ~th[t].force)
    BY <1>1, <1>3, <2>1, Zenon DEF AheadInv
  <2>3. th[t].pc # "word"
    BY Zenon
  <2> QED
    BY <1>6, <2>2, <2>3 DEF Ahead
<1>10. AheadInv(t)'
  BY <1>7, <1>8, <1>9, AheadFrom, ZenonT(30)
<1>11. hint' \in [CPU -> BOOLEAN]
  BY Zenon DEF IInv, TypeOK
<1> QED
  BY <1>5, <1>6, <1>7, <1>8, <1>10, <1>11, QuietStep, ZenonT(30)

\* r is at the same point of the scan as t.
SameScan(r, t) ==
    /\ r \in ThreadRec /\ r.bits = th[t].bits /\ r.cpu = th[t].cpu /\ r.rng = th[t].rng
    /\ r.word = th[t].word /\ r.force = th[t].force /\ r.want = th[t].want
    /\ r.final = th[t].final

\* From one step on a victim to the next the scan stands still.
LEMMA SameVictim ==
    ASSUME IInv, Observe, node' = node, NEW t \in Thread,
           th[t].pc \in {"victim", "mark", "steal"},
           NEW r, SameScan(r, t), th'[t] = r, r.pc \in {"mark", "steal", "unmark"},
           r.pc # "unmark" => r.got = {},
           th[t].final => r.got = {} \/ \E b \in Block : r.got = {b},
           r.got = {} /\ r.pc = "unmark" => Victim(t) \notin stocked'[t]
    PROVE  HandsInv(r) /\ HandsInv(r)' /\ ScanInv(r) /\ AheadInv(t)'
<1>1. ScanInv(th[t]) /\ AheadInv(t) /\ th[t].pc \in Scanning \ {"own"} /\ th[t].pc # "word"
  BY ThreadFacts, ZenonT(30) DEF Scanning
<1>2. HandsInv(r) /\ HandsInv(r)' /\ ScanInv(r)
  BY <1>1 DEF HandsInv, ScanInv, Scanning, SameScan
<1>3. ASSUME NEW d \in stocked'[t] \ {r.cpu} PROVE Ahead(r, d)
  <2>1. d \in stocked[t] \ {th[t].cpu}
    BY <1>1, StockedShrinks, ZenonT(30) DEF IInv, SameScan
  <2>2. Ahead(th[t], d)
    BY <1>1, <2>1, ZenonT(30) DEF AheadInv
  <2> QED
    BY <1>1, <2>2, ZenonT(30) DEF Ahead, SameScan
<1>4. AheadInv(t)'
  BY <1>3, AheadFrom DEF Victim, SameScan
<1> QED
  BY <1>2, <1>4, Zenon

\* cpu_try_marking: skip the victim, mark it, or in the forced pass take it as it is.
LEMMA ScanVictimInv ==
    ASSUME IInv, Observe, node' = node, NEW t \in Thread, ScanVictim(t)
    PROVE  IInv'
<1>1. /\ th[t].pc = "victim" /\ th[t].got = {} /\ th \in [Thread -> ThreadRec] /\ th[t] \in ThreadRec
      /\ UNCHANGED <<cache, mail, hint, stealing, fresh, magic, live>>
  BY ThreadFacts DEF ScanVictim, At, HandsInv, lists
<1>2. hint' \in [CPU -> BOOLEAN] /\ stealing' \in [CPU -> BOOLEAN]
  BY <1>1, ZenonT(30) DEF IInv, TypeOK
<1>3. CASE Victim(t) = th[t].cpu \/ (stealing[Victim(t)] /\ ~th[t].force)
  <2>1. Step(t, NextVictim(t))
    BY <1>3 DEF ScanVictim
  <2> QED
    BY <1>1, <1>2, <1>3, <2>1, NextVictimInv, Zenon
<1>4. CASE ~(Victim(t) = th[t].cpu \/ (stealing[Victim(t)] /\ ~th[t].force))
  <2>1. PICK p \in {"mark", "steal"} : Step(t, [th[t] EXCEPT !.pc = p])
    BY <1>4 DEF ScanVictim
  <2>2. PICK r : r = [th[t] EXCEPT !.pc = p, !.got = {}]
    OBVIOUS
  <2>3. [th[t] EXCEPT !.pc = p] = r
    BY <1>1, <2>2, Zenon DEF ThreadRec
  <2>4. th' = [th EXCEPT ![t] = r] /\ th'[t] = r
    BY <1>1, <2>1, <2>3, Zenon DEF Step
  <2>5. SameScan(r, t) /\ r \in ThreadRec /\ r.pc = p /\ r.got = {}
    BY <1>1, <2>2, ZenonT(30) DEF PC, Scanning, SameScan, ThreadRec
  <2>6. HandsInv(r) /\ ScanInv(r) /\ AheadInv(t)'
    BY <1>1, <2>4, <2>5, SameVictim, ZenonT(30)
  <2> QED
    BY <1>1, <1>2, <2>4, <2>5, <2>6, QuietStep, Zenon
<1> QED
  BY <1>3, <1>4

\* The being_stolen bit is set.
LEMMA MarkInv ==
    ASSUME IInv, Observe, node' = node, NEW t \in Thread, Mark(t)
    PROVE  IInv'
<1>1. /\ th[t].pc = "mark" /\ th[t].got = {} /\ th \in [Thread -> ThreadRec] /\ th[t] \in ThreadRec
      /\ UNCHANGED <<cache, mail, hint, fresh, magic, live>>
  BY ThreadFacts DEF Mark, At, HandsInv
<1>2. hint' \in [CPU -> BOOLEAN] /\ stealing' \in [CPU -> BOOLEAN]
  BY <1>1, Zenon DEF IInv, TypeOK, Mark
<1>3. PICK r : r = [th[t] EXCEPT !.pc = "steal", !.got = {}]
  OBVIOUS
<1>4. [th[t] EXCEPT !.pc = "steal"] = r
  BY <1>1, <1>3, Zenon DEF ThreadRec
<1>5. th' = [th EXCEPT ![t] = r] /\ th'[t] = r
  BY <1>1, <1>4, Zenon DEF Mark, Step
<1>6. SameScan(r, t) /\ r \in ThreadRec /\ r.pc = "steal" /\ r.got = {}
  BY <1>1, <1>3, ZenonT(30) DEF PC, Scanning, SameScan, ThreadRec
<1>7. HandsInv(r) /\ ScanInv(r) /\ AheadInv(t)'
  BY <1>1, <1>5, <1>6, SameVictim, ZenonT(30)
<1> QED
  BY <1>1, <1>2, <1>5, <1>6, <1>7, QuietStep, ZenonT(30)

\* The victim's list gives up a batch; if it gives none it is empty, so the
\* scan has not missed it.
LEMMA StealInv ==
    ASSUME IInv, Observe, node' = node, NEW t \in Thread, Steal(t)
    PROVE  IInv'
<1>1. PICK v : v = Victim(t)
  OBVIOUS
<1>2. /\ th[t].pc = "steal" /\ th[t].got = {} /\ th \in [Thread -> ThreadRec] /\ th[t] \in ThreadRec
      /\ th[t].want > 0 /\ th[t].want \in Nat /\ (th[t].final => th[t].want = 1)
      /\ UNCHANGED <<cache, stealing, fresh, magic, live>>
  <2>1. /\ th[t].pc = "steal" /\ th \in [Thread -> ThreadRec] /\ th[t] \in ThreadRec
        /\ HandsInv(th[t]) /\ ScanInv(th[t])
    BY ThreadFacts, ZenonT(30) DEF Steal, At
  <2>2. th[t].want \in Nat
    <3>1. th[t].want \in 0..MaxBatch
      BY <2>1, Zenon DEF ThreadRec
    <3> QED
      BY <3>1, ConstAssumption
  <2> QED
    BY <2>1, <2>2 DEF Steal, HandsInv, ScanInv, Scanning
<1>3. /\ mail \in [CPU -> SUBSET Block] /\ hint \in [CPU -> BOOLEAN] /\ v \in CPU
  BY <1>1, <1>2, VictimFacts, Zenon DEF IInv, TypeOK
<1>4. PICK S \in SUBSET mail[v] : /\ PopBatch(v, th[t].want, S)
                                  /\ Step(t, [th[t] EXCEPT !.pc = "unmark", !.got = S])
  BY <1>1, Zenon DEF Steal
<1>5. PICK r : r = [th[t] EXCEPT !.pc = "unmark", !.got = S]
  OBVIOUS
<1>6. th' = [th EXCEPT ![t] = r] /\ th'[t] = r
  BY <1>2, <1>4, <1>5, ZenonT(30) DEF Step
<1>7. mail[v] \in SUBSET Block /\ S \in SUBSET Block
  BY <1>3
<1>8. (S = {} => mail[v] = {}) /\ (th[t].final => S = {} \/ \E b \in Block : S = {b})
  BY <1>2, <1>4, <1>7, PopCount DEF PopBatch
<1>9. /\ mail' = [mail EXCEPT ![v] = @ \ S] /\ mail' \in [CPU -> SUBSET Block]
      /\ hint' \in [CPU -> BOOLEAN]
  BY <1>3, <1>4, Zenon DEF PopBatch
<1>10. S = {} => v \notin stocked'[t]
  BY <1>3, <1>8, <1>9, StockedShrinks, ZenonT(30) DEF IInv
<1>11. SameScan(r, t) /\ r \in ThreadRec /\ r.pc = "unmark" /\ r.got = S
  BY <1>2, <1>5, <1>7, Zenon DEF PC, Scanning, SameScan, ThreadRec
<1>13. HandsInv(r)' /\ ScanInv(r) /\ AheadInv(t)'
  BY <1>1, <1>2, <1>6, <1>8, <1>10, <1>11, SameVictim, Zenon
<1>12. \E g \in [Block -> Spot] : Located(g)'
  BY <1>2, <1>3, <1>6, <1>9, <1>11, ToHand, ZenonT(30)
<1> QED
  BY <1>2, <1>6, <1>9, <1>11, <1>12, <1>13, StepInv, ZenonT(30) DEF IInv, TypeOK

\* The bit is cleared; the scan ends with what was stolen or goes on.
LEMMA UnmarkInv ==
    ASSUME IInv, Observe, node' = node, NEW t \in Thread, Unmark(t)
    PROVE  IInv'
<1>1. /\ th[t].pc = "unmark" /\ th \in [Thread -> ThreadRec] /\ th[t] \in ThreadRec
      /\ HandsInv(th[t]) /\ AheadInv(t) /\ th[t].got \in SUBSET Block
      /\ UNCHANGED <<cache, mail, hint, fresh, magic, live>>
  BY ThreadFacts DEF Unmark, At, ThreadRec
<1>2. hint' \in [CPU -> BOOLEAN] /\ stealing' \in [CPU -> BOOLEAN]
  BY <1>1, ZenonT(30) DEF IInv, TypeOK, Unmark
<1>3. CASE th[t].got = {}
  <2>1. Step(t, NextVictim(t)) /\ Victim(t) \notin stocked[t]
    BY <1>1, <1>3 DEF Unmark, AheadInv, At
  <2> QED
    BY <1>1, <1>2, <1>3, <2>1, NextVictimInv, ZenonT(30)
<1>4. CASE th[t].got # {}
  <2>1. PICK S : S = th[t].got
    OBVIOUS
  <2>2. PICK r : r = Found(t, S)
    BY Zenon
  <2>3. S # {} /\ S \in SUBSET Block /\ (th[t].final => \E b \in Block : S = {b})
    BY <1>1, <1>4, <2>1, ZenonT(30) DEF HandsInv
  <2>4. /\ r \in ThreadRec /\ r.pc \in {"take", "stamp"} /\ r.got = S /\ HandsInv(r) /\ ScanInv(r)
    BY <2>2, <2>3, FoundInv, ZenonT(30)
  <2>5. th' = [th EXCEPT ![t] = r] /\ th'[t] = r
    BY <1>1, <1>4, <2>1, <2>2, ZenonT(30) DEF Unmark, Step
  <2>6. AheadInv(t)'
    BY <2>4, <2>5, NotScanning, ZenonT(30) DEF Scanning
  <2> QED
    BY <1>1, <1>2, <2>1, <2>4, <2>5, <2>6, QuietStep, ZenonT(30)
<1> QED
  BY <1>3, <1>4, ZenonT(30)

\* After the forced pass over the last word of a range, what a scan may not
\* miss is in a later range.
LEMMA RangeDone ==
    ASSUME IInv, NEW t \in Thread, At(t, "advance"), th[t].force,
           ~(th[t].word < LastWord(th[t].cpu, th[t].rng)),
           NEW d \in stocked[t] \ {th[t].cpu}
    PROVE  \E j \in (th[t].rng + 1)..(Rngs - 1) :
               d \in RangeAt(th[t].cpu, j)[1]..RangeAt(th[t].cpu, j)[2]
<1>1. PICK c, i, w : c = th[t].cpu /\ i = th[t].rng /\ w = th[t].word
  BY ZenonT(30)
<1>2. /\ c \in CPU /\ i \in Nat /\ w \in Nat /\ th[t].bits = {} /\ d \in CPU
      /\ Ahead(th[t], d)
  BY <1>1, ThreadFacts, ZenonT(30) DEF At, ThreadRec, ScanInv, AheadInv, Scanning, IInv, TypeOK
<1>3. PICK j \in 0..(Rngs - 1) :
          /\ d \in RangeAt(c, j)[1]..RangeAt(c, j)[2]
          /\ j > i \/ (j = i /\ d \div WordSize > w)
  BY <1>1, <1>2, ZenonT(30) DEF Ahead, At
<1>4. PICK y \in CPU : y = RangeAt(c, i)[2]
  BY <1>2, RangeFacts, Zenon DEF IInv
<1>5. RangeAt(c, i)[1] \in CPU
  BY <1>2, RangeFacts, Zenon DEF IInv
<1>6. y \div WordSize \in Nat /\ y \div WordSize <= w
  <2>1. LastWord(c, i) = y \div WordSize /\ y \div WordSize \in Nat
    BY <1>4, WordOf, Zenon DEF LastWord
  <2>2. ~(w < y \div WordSize)
    BY <1>1, <2>1, Zenon
  <2> QED
    BY <1>2, <2>1, <2>2
<1>7. j # i
  <2>1. SUFFICES ASSUME j = i PROVE FALSE
    BY Zenon
  <2>2. d <= y
    BY <1>2, <1>3, <1>4, <1>5, <2>1 DEF CPU
  <2>3. d \div WordSize <= y \div WordSize /\ d \div WordSize \in Nat
    BY <1>2, <1>4, <2>2, WordOf, Zenon
  <2>4. d \div WordSize > w
    BY <1>3, <2>1
  <2> QED
    BY <1>2, <1>6, <2>3, <2>4
<1>8. Rngs \in Nat
  BY <1>2, RangeFacts, ZenonT(30) DEF IInv
<1>9. j \in (i + 1)..(Rngs - 1)
  BY <1>2, <1>3, <1>7, <1>8
<1> QED
  BY <1>1, <1>3, <1>9, ZenonT(30)

\* The plain pass over a word is followed by the forced one, that by the next
\* word, node, refill attempt or the end of the call.
LEMMA AdvanceInv ==
    ASSUME IInv, Observe, node' = node, NEW t \in Thread, Advance(t)
    PROVE  IInv'
<1>1. /\ th[t] \in ThreadRec /\ th \in [Thread -> ThreadRec] /\ th[t].pc = "advance"
      /\ th[t].got = {} /\ th[t].bits = {} /\ ScanInv(th[t]) /\ AheadInv(t)
      /\ th[t].pc \in Scanning \ {"own"}
  BY ThreadFacts, Zenon DEF Advance, At, HandsInv, ScanInv, Scanning
<1>2. /\ UNCHANGED <<cache, mail, hint, stealing, fresh, magic, live>>
      /\ hint' \in [CPU -> BOOLEAN] /\ stealing' \in [CPU -> BOOLEAN]
  BY ZenonT(30) DEF Advance, lists, IInv, TypeOK
<1>3. th[t].cpu \in CPU /\ th[t].rng \in Nat /\ th[t].word \in Nat /\ Rngs \in Nat
  BY <1>1, RangeFacts DEF ThreadRec, IInv
<1>4. ASSUME NEW r \in ThreadRec, r.pc = "word", r.got = {}, r.cpu = th[t].cpu,
             r.rng = th[t].rng, r.want = th[t].want, r.final = th[t].final, Step(t, r),
             \A d \in stocked[t] \ {th[t].cpu} : Ahead(r, d)
      PROVE  IInv'
  <2>2. th' = [th EXCEPT ![t] = r] /\ th'[t] = r
    BY <1>1, <1>4, Zenon DEF Step
  <2>3. HandsInv(r) /\ ScanInv(r)
    BY <1>1, <1>4 DEF HandsInv, ScanInv, Scanning
  <2>4. \A d \in stocked'[t] \ {r.cpu} : Ahead(r, d)
    BY <1>1, <1>4, StockedShrinks, ZenonT(30) DEF IInv
  <2>5. AheadInv(t)'
    BY <1>4, <2>2, <2>4, AheadFrom, ZenonT(30)
  <2> QED
    BY <1>1, <1>2, <1>4, <2>2, <2>3, <2>5, QuietStep, ZenonT(30)
<1>5. CASE ~th[t].force
  <2>1. PICK r : r = [th[t] EXCEPT !.pc = "word", !.force = TRUE]
    OBVIOUS
  <2>2. /\ r \in ThreadRec /\ r.pc = "word" /\ r.got = {} /\ r.cpu = th[t].cpu
        /\ r.rng = th[t].rng /\ r.word = th[t].word /\ r.want = th[t].want
        /\ r.final = th[t].final
    BY <1>1, <2>1, Zenon DEF ThreadRec, PC, Scanning
  <2>3. \A d \in stocked[t] \ {th[t].cpu} : Ahead(r, d)
    BY <1>1, <2>2 DEF Ahead, AheadInv
  <2>4. Step(t, r)
    BY <1>5, <2>1, ZenonT(30) DEF Advance
  <2> QED
    BY <1>4, <2>2, <2>3, <2>4, ZenonT(30)
<1>6. CASE th[t].force /\ th[t].word < LastWord(th[t].cpu, th[t].rng)
  <2>0. PICK w \in Nat : w = th[t].word + 1
    BY <1>3
  <2>1. PICK r : r = [th[t] EXCEPT !.pc = "word", !.force = FALSE, !.word = w]
    OBVIOUS
  <2>2. /\ r \in ThreadRec /\ r.pc = "word" /\ r.got = {} /\ r.cpu = th[t].cpu
        /\ r.rng = th[t].rng /\ r.word = w /\ ~r.force /\ r.want = th[t].want
        /\ r.final = th[t].final
    BY <1>1, <2>1, ZenonT(30) DEF ThreadRec, PC, Scanning
  <2>3. ASSUME NEW d \in stocked[t] \ {th[t].cpu} PROVE Ahead(r, d)
    <3>1. Ahead(th[t], d) /\ d \div WordSize \in Nat
      BY <1>1, WordOf, Zenon DEF AheadInv, IInv, TypeOK
    <3>2. PICK j \in 0..(Rngs - 1) :
              /\ d \in RangeAt(r.cpu, j)[1]..RangeAt(r.cpu, j)[2]
              /\ j > r.rng \/ (j = r.rng /\ d \div WordSize > th[t].word)
      BY <1>1, <1>6, <2>2, <3>1, ZenonT(30) DEF Ahead
    <3>3. d \div WordSize > th[t].word => d \div WordSize > r.word \/ d \div WordSize = r.word
      BY <1>3, <2>0, <2>2, <3>1
    <3> QED
      BY <2>2, <3>2, <3>3, ZenonT(30) DEF Ahead
  <2>4. Step(t, r)
    BY <1>6, <2>0, <2>1, Zenon DEF Advance
  <2> QED
    BY <1>4, <2>2, <2>3, <2>4, ZenonT(30)
<1>7. CASE /\ th[t].force /\ ~(th[t].word < LastWord(th[t].cpu, th[t].rng))
           /\ th[t].rng + 1 < Rngs
  <2>1. PICK i, r : i = th[t].rng + 1 /\ r = AtRange(t, i)
    OBVIOUS
  <2>2. i \in 0..(Rngs - 1)
    BY <1>3, <1>7, <2>1
  <2>3. \A d \in stocked[t] \ {th[t].cpu} : \E j \in i..(Rngs - 1) :
            d \in RangeAt(th[t].cpu, j)[1]..RangeAt(th[t].cpu, j)[2]
    BY <1>1, <1>7, <2>1, RangeDone, Zenon DEF At
  <2>4. th' = [th EXCEPT ![t] = r]
    BY <1>7, <2>1 DEF Advance, Step
  <2> QED
    BY <1>1, <1>2, <2>1, <2>2, <2>3, <2>4, EnterRange, ZenonT(30)
<1>8. CASE /\ th[t].force /\ ~(th[t].word < LastWord(th[t].cpu, th[t].rng))
           /\ ~(th[t].rng + 1 < Rngs)
  <2>1. PICK r : /\ r = IF th[t].final THEN Idle ELSE [Idle EXCEPT !.pc = "bulk", !.cpu = th[t].cpu]
                 /\ th' = [th EXCEPT ![t] = r]
    BY <1>8, Zenon DEF Advance, Step
  <2>2. r \in ThreadRec /\ r.got = {} /\ r.pc \in {"idle", "bulk"} /\ ~r.final
    BY <1>3, <2>1, IdleType, Zenon DEF Idle, ThreadRec, PC
  <2>3. HandsInv(r) /\ ScanInv(r) /\ r.pc # "abort" /\ r.pc \notin Scanning /\ th'[t] = r
    BY <1>1, <2>1, <2>2, ZenonT(30) DEF HandsInv, ScanInv, Scanning
  <2>4. AheadInv(t)'
    BY <2>3, NotScanning
  <2> QED
    BY <1>1, <1>2, <2>1, <2>2, <2>3, <2>4, QuietStep, Zenon
<1> QED
  BY <1>5, <1>6, <1>7, <1>8, Zenon

-----------------------------------------------------------------------------
(* The other steps of malloc and free.                                     *)

\* pop: a block of the CPU's lists, or fill begins.
LEMMA PopInv ==
    ASSUME IInv, Observe, node' = node, NEW t \in Thread, NEW c \in CPU, Pop(t, c)
    PROVE  IInv'
<1>1. /\ th[t] \in ThreadRec /\ th \in [Thread -> ThreadRec] /\ th[t].pc = "pop"
      /\ th[t].got = {} /\ ~th[t].final
      /\ UNCHANGED <<hint, stealing, fresh, magic, live>>
  BY ThreadFacts, ZenonT(30) DEF Pop, At, HandsInv, ScanInv
<1>2. /\ cache \in [CPU -> SUBSET Block] /\ mail \in [CPU -> SUBSET Block]
      /\ hint' \in [CPU -> BOOLEAN] /\ stealing' \in [CPU -> BOOLEAN]
  BY <1>1, ZenonT(30) DEF IInv, TypeOK
<1>3. ASSUME NEW b, \/ b \in cache[c] /\ cache' = [cache EXCEPT ![c] = @ \ {b}] /\ UNCHANGED mail
                    \/ b \in mail[c] /\ mail' = [mail EXCEPT ![c] = @ \ {b}] /\ UNCHANGED cache,
             Step(t, [th[t] EXCEPT !.pc = "stamp", !.got = {b}])
      PROVE  IInv'
  <2>1. PICK r : r = [th[t] EXCEPT !.pc = "stamp", !.got = {b}]
    OBVIOUS
  <2>2. b \in Block /\ cache' \in [CPU -> SUBSET Block] /\ mail' \in [CPU -> SUBSET Block]
    BY <1>2, <1>3
  <2>3. r \in ThreadRec /\ r.pc = "stamp" /\ r.got = {b}
    BY <1>1, <2>1, <2>2, ZenonT(30) DEF ThreadRec, PC
  <2>4. HandsInv(r)' /\ ScanInv(r) /\ r.pc # "abort" /\ r.pc \notin Scanning
    BY <2>2, <2>3, Zenon DEF HandsInv, ScanInv, Scanning
  <2>5. th' = [th EXCEPT ![t] = r] /\ th'[t] = r
    BY <1>1, <1>3, <2>1, Zenon DEF Step
  <2>6. AheadInv(t)'
    BY <2>4, <2>5, NotScanning, Zenon
  <2>7. \E g \in [Block -> Spot] : Located(g)'
    <3>1. CASE b \in cache[c] /\ cache' = [cache EXCEPT ![c] = @ \ {b}] /\ UNCHANGED mail
      <4>1. PICK S : S = {b}
        BY ZenonT(30)
      <4>2. r.got = S /\ S \subseteq cache[c] /\ cache' = [cache EXCEPT ![c] = @ \ S]
        BY <2>3, <3>1, <4>1, Zenon
      <4> QED
        BY <1>1, <2>5, <3>1, <4>2, ToHand, Zenon
    <3>2. CASE b \in mail[c] /\ mail' = [mail EXCEPT ![c] = @ \ {b}] /\ UNCHANGED cache
      <4>1. PICK S : S = {b}
        BY Zenon
      <4>2. r.got = S /\ S \subseteq mail[c] /\ mail' = [mail EXCEPT ![c] = @ \ S]
        BY <2>3, <3>2, <4>1, Zenon
      <4> QED
        BY <1>1, <2>5, <3>2, <4>2, ToHand, Zenon
    <3> QED
      BY <1>3, <3>1, <3>2
  <2> QED
    BY <1>1, <1>2, <2>2, <2>3, <2>4, <2>5, <2>6, <2>7, StepInv, ZenonT(30) DEF IInv, TypeOK
<1>4. ASSUME NEW n \in 1..MaxBatch, NEW d \in CPU, UNCHANGED <<cache, mail>>,
             Step(t, [th[t] EXCEPT !.pc = "own", !.cpu = d, !.want = n])
      PROVE  IInv'
  <2>1. PICK r : r = [th[t] EXCEPT !.pc = "own", !.cpu = d, !.want = n]
    OBVIOUS
  <2>2. n \in 0..MaxBatch /\ n > 0
    BY <1>4, ConstAssumption
  <2>3. r \in ThreadRec /\ r.pc = "own" /\ r.got = {} /\ r.want = n /\ ~r.final
    BY <1>1, <1>4, <2>1, <2>2, ZenonT(30) DEF ThreadRec, PC, Scanning
  <2>4. HandsInv(r) /\ ScanInv(r)
    BY <2>2, <2>3 DEF HandsInv, ScanInv
  <2>5. th' = [th EXCEPT ![t] = r] /\ th'[t] = r
    BY <1>1, <1>4, <2>1, ZenonT(30) DEF Step
  <2>6. AheadInv(t)'
    BY <2>3, <2>5, AheadFrom
  <2> QED
    BY <1>1, <1>2, <1>4, <2>3, <2>4, <2>5, <2>6, QuietStep, Zenon
<1> QED
  BY <1>3, <1>4, Zenon DEF Pop

\* pop after aborts, on an empty transfer list: only a bit changes.
LEMMA PopAbortedInv ==
    ASSUME IInv, Observe, node' = node, NEW t \in Thread, NEW c \in CPU, PopAborted(t, c)
    PROVE  IInv'
<1>1. /\ th[t] \in ThreadRec /\ th \in [Thread -> ThreadRec] /\ th[t].pc = "pop"
      /\ th[t].got = {} /\ HandsInv(th[t]) /\ ScanInv(th[t])
      /\ UNCHANGED <<cache, mail, stealing, fresh, magic, live, th>>
      /\ hint' \in [CPU -> BOOLEAN] /\ stealing' \in [CPU -> BOOLEAN]
  BY ThreadFacts, Zenon DEF PopAborted, At, HandsInv, IInv, TypeOK
<1>2. PICK r : r = th[t]
  OBVIOUS
<1>3. th' = [th EXCEPT ![t] = r] /\ th'[t] = r /\ r.pc \notin Scanning /\ r.pc # "abort"
  BY <1>1, <1>2, ZenonT(30) DEF Scanning
<1>4. AheadInv(t)'
  BY <1>3, NotScanning
<1> QED
  BY <1>1, <1>2, <1>3, <1>4, QuietStep, Zenon

\* One attempt of bulk_fill.
LEMMA BulkInv ==
    ASSUME IInv, Observe, node' = node, NEW t \in Thread, Bulk(t)
    PROVE  IInv'
<1>1. /\ th[t] \in ThreadRec /\ th \in [Thread -> ThreadRec] /\ th[t].pc = "bulk"
      /\ th[t].got = {} /\ ~th[t].final
      /\ UNCHANGED <<cache, mail, hint, stealing, magic, live>>
  BY ThreadFacts, Zenon DEF Bulk, At, HandsInv, ScanInv
<1>2. /\ cache \in [CPU -> SUBSET Block] /\ mail \in [CPU -> SUBSET Block] /\ fresh \subseteq Block
      /\ hint' \in [CPU -> BOOLEAN] /\ stealing' \in [CPU -> BOOLEAN]
  BY <1>1, ZenonT(30) DEF IInv, TypeOK
<1>3. ASSUME NEW S \in SUBSET fresh, Cardinality(S) \in 1..MaxBatch, fresh' = fresh \ S,
             Step(t, Found(t, S))
      PROVE  IInv'
  <2>1. PICK r : r = Found(t, S)
    OBVIOUS
  <2>2. S # {}
    BY <1>3, FS_EmptySet
  <2>3. /\ r \in ThreadRec /\ r.pc \in {"take", "stamp"} /\ r.got = S
        /\ HandsInv(r)' /\ ScanInv(r)
    BY <1>1, <1>2, <2>1, <2>2, FoundInv
  <2>4. th' = [th EXCEPT ![t] = r] /\ th'[t] = r
    BY <1>1, <1>3, <2>1, Zenon DEF Step
  <2>5. AheadInv(t)'
    BY <2>3, <2>4, NotScanning, Zenon DEF Scanning
  <2>6. \E g \in [Block -> Spot] : Located(g)'
    BY <1>1, <1>3, <2>3, <2>4, IdleType, ToHand, ZenonT(30)
  <2> QED
    BY <1>1, <1>2, <1>3, <2>3, <2>4, <2>5, <2>6, StepInv, ZenonT(30) DEF IInv, TypeOK
<1>4. ASSUME UNCHANGED fresh,
             Step(t, IF th[t].tries + 1 < MaxRetries THEN [th[t] EXCEPT !.tries = @ + 1]
                     ELSE [th[t] EXCEPT !.pc = "own", !.want = 1, !.final = TRUE])
      PROVE  IInv'
  <2>1. PICK r : /\ r = IF th[t].tries + 1 < MaxRetries THEN [th[t] EXCEPT !.tries = @ + 1]
                        ELSE [th[t] EXCEPT !.pc = "own", !.want = 1, !.final = TRUE]
                 /\ th' = [th EXCEPT ![t] = r]
    BY <1>4, Zenon DEF Step
  <2>2. 1 \in 0..MaxBatch /\ (th[t].tries + 1 < MaxRetries => th[t].tries + 1 \in 0..(MaxRetries - 1))
    BY <1>1, ConstAssumption DEF ThreadRec
  <2>3. CASE th[t].tries + 1 < MaxRetries
    <3>1. r = [th[t] EXCEPT !.tries = th[t].tries + 1]
      BY <2>1, <2>3
    <3>2. r \in ThreadRec /\ r.pc = "bulk" /\ r.got = {} /\ ~r.final /\ th'[t] = r
      BY <1>1, <2>1, <2>2, <2>3, <3>1, ZenonT(30) DEF ThreadRec
    <3>3. HandsInv(r) /\ ScanInv(r)
      BY <3>2, Zenon DEF HandsInv, ScanInv, Scanning
    <3>4. AheadInv(t)'
      BY <3>2, NotScanning DEF Scanning
    <3> QED
      BY <1>1, <1>2, <1>4, <2>1, <3>2, <3>3, <3>4, QuietStep, Zenon
  <2>4. CASE ~(th[t].tries + 1 < MaxRetries)
    <3>1. r = [th[t] EXCEPT !.pc = "own", !.want = 1, !.final = TRUE]
      BY <2>1, <2>4
    <3>2. r \in ThreadRec /\ r.pc = "own" /\ r.got = {} /\ r.want = 1 /\ th'[t] = r
      BY <1>1, <2>1, <2>2, <3>1, ZenonT(30) DEF ThreadRec, PC, Scanning
    <3>3. HandsInv(r) /\ ScanInv(r)
      BY <3>2 DEF HandsInv, ScanInv, Scanning
    <3>4. AheadInv(t)'
      BY <3>2, AheadFrom, Zenon
    <3> QED
      BY <1>1, <1>2, <1>4, <2>1, <3>2, <3>3, <3>4, QuietStep, Zenon
  <2> QED
    BY <2>3, <2>4
<1> QED
  BY <1>3, <1>4, Zenon DEF Bulk

\* A block in one thread's hands is neither in another's nor in use.
LEMMA OneHand ==
    ASSUME IInv, NEW t \in Thread, NEW b \in th[t].got
    PROVE  /\ b \in Block /\ live[b] = 0
           /\ \A u \in Thread \ {t} : b \notin th[u].got
<1>1. PICK f \in [Block -> Spot] : Located(f)
  BY DEF IInv
<1>2. \A u \in Thread : th[u].got = {x \in Block : f[x] = <<"held", u>>}
  BY <1>1, Zenon DEF Located, Content, Spot
<1>3. {x \in Block : live[x] = 1} = {x \in Block : f[x] = <<"live", 0>>}
  BY <1>1, Zenon DEF Located, Content, Spot
<1>4. b \in Block /\ f[b] = <<"held", t>>
  BY <1>2
<1>5. live[b] # 1
  BY <1>3, <1>4
<1>6. live[b] \in 0..1
  BY <1>4, ZenonT(30) DEF IInv, TypeOK
<1> QED
  BY <1>2, <1>4, <1>5, <1>6

\* take_one_from_batch keeps one block and pushes the rest.
LEMMA TakeOneInv ==
    ASSUME IInv, Observe, node' = node, NEW t \in Thread, TakeOne(t)
    PROVE  IInv'
<1>1. /\ th[t] \in ThreadRec /\ th \in [Thread -> ThreadRec] /\ th[t].pc = "take"
      /\ th[t].got \subseteq Block /\ UNCHANGED <<stealing, fresh, magic, live>>
  BY ThreadFacts DEF TakeOne, At, ThreadRec
<1>2. PICK b \in th[t].got :
          /\ IF th[t].got = {b} THEN UNCHANGED <<cache, mail, hint>> ELSE PushTailed(th[t].got \ {b})
          /\ Step(t, [Idle EXCEPT !.pc = "stamp", !.got = {b}])
  BY Zenon DEF TakeOne
<1>3. PICK r, S : r = [Idle EXCEPT !.pc = "stamp", !.got = {b}] /\ S = th[t].got \ {b}
  BY Zenon
<1>4. r \in ThreadRec /\ r.pc = "stamp" /\ r.got = {b} /\ b \in Block
  BY <1>1, <1>3, IdleType, ZenonT(30) DEF Idle, ThreadRec, PC
<1>5. HandsInv(r) /\ HandsInv(r)' /\ ScanInv(r) /\ r.pc # "abort" /\ r.pc \notin Scanning
  BY <1>4 DEF HandsInv, ScanInv, Scanning
<1>6. th' = [th EXCEPT ![t] = r] /\ th'[t] = r
  BY <1>1, <1>2, <1>3, ZenonT(30) DEF Step
<1>7. AheadInv(t)'
  BY <1>5, <1>6, NotScanning, ZenonT(30)
<1>8. CASE th[t].got = {b}
  <2>1. UNCHANGED <<cache, mail, hint>> /\ r.got = th[t].got
    BY <1>2, <1>4, <1>8, Zenon
  <2> QED
    BY <1>1, <1>4, <1>5, <1>6, <1>7, <2>1, QuietStep, ZenonT(30) DEF IInv, TypeOK
<1>9. CASE th[t].got # {b}
  <2>1. S \in SUBSET th[t].got /\ r.got = th[t].got \ S /\ PushTailed(S)
    BY <1>2, <1>3, <1>4, <1>9, ZenonT(30)
  <2>2. /\ \E g \in [Block -> Spot] : Located(g)'
        /\ cache' \in [CPU -> SUBSET Block] /\ mail' \in [CPU -> SUBSET Block]
        /\ hint' \in [CPU -> BOOLEAN]
    BY <1>1, <1>6, <2>1, FromHand, ZenonT(30)
  <2> QED
    BY <1>1, <1>4, <1>5, <1>6, <1>7, <2>2, StepInv, ZenonT(30) DEF IInv, TypeOK
<1> QED
  BY <1>8, <1>9, Zenon

\* rs_alloc stamps the block and hands it to the program.
LEMMA StampInv ==
    ASSUME IInv, Observe, node' = node, NEW t \in Thread, Stamp(t)
    PROVE  IInv' /\ \E b \in Block : live[b] = 0 /\ live' = [live EXCEPT ![b] = 1]
<1>1. /\ th[t] \in ThreadRec /\ th \in [Thread -> ThreadRec] /\ th[t].pc = "stamp"
      /\ HandsInv(th[t]) /\ UNCHANGED <<cache, mail, hint, stealing, fresh>>
  BY ThreadFacts, Zenon DEF Stamp, At, lists
<1>2. PICK b \in Block : th[t].got = {b}
  BY <1>1, Zenon DEF HandsInv
<1>3. live[b] = 0 /\ \A u \in Thread \ {t} : b \notin th[u].got
  BY <1>2, OneHand, Zenon
<1>4. /\ magic' = [magic EXCEPT ![b] = "MAGIC"] /\ live' = [live EXCEPT ![b] = 1]
      /\ magic \in [Block -> {"MAGIC", "FREED"}] /\ live \in [Block -> 0..1]
  BY <1>2, <1>3 DEF Stamp, IInv, TypeOK
<1>5. PICK r : r = Idle
  OBVIOUS
<1>6. /\ r \in ThreadRec /\ r.got = {} /\ r.pc # "abort" /\ r.pc \notin Scanning
      /\ HandsInv(r)' /\ ScanInv(r)
  BY <1>5, IdleType, ZenonT(30) DEF Idle, HandsInv, ScanInv, Scanning
<1>7. th' = [th EXCEPT ![t] = r] /\ th'[t] = r
  BY <1>1, <1>5 DEF Stamp, Step
<1>8. AheadInv(t)'
  BY <1>6, <1>7, NotScanning, ZenonT(30)
<1>9. \E g \in [Block -> Spot] : Located(g)'
  <2> DEFINE p == <<"held", t>>
             q == <<"live", 0>>
  <2>1. \A u \in Thread : th'[u].got = IF u = t THEN {} ELSE th[u].got
    BY <1>1, <1>6, <1>7, Zenon
  <2>2. /\ p \in Spot /\ q \in Spot /\ p # q /\ {b} \in SUBSET Content(p)
        /\ Content(p)' = Content(p) \ {b}
    BY <1>2, <2>1 DEF Spot, Content
  <2>3. Content(q)' = Content(q) \cup {b}
    BY <1>3, <1>4 DEF Content
  <2>4. \A s \in Spot \ {p, q} : Content(s)' = Content(s)
    BY <1>1, <2>1 DEF Spot, Content
  <2> QED
    BY <2>2, <2>3, <2>4, MoveLocated, Zenon
<1>10. /\ live' \in [Block -> 0..1] /\ magic' \in [Block -> {"MAGIC", "FREED"}]
       /\ \A x \in Block : live'[x] = 1 => magic'[x] = "MAGIC"
       /\ \A u \in Thread \ {t} : \A x \in th[u].got : magic'[x] = magic[x]
  BY <1>3, <1>4 DEF IInv
<1>11. IInv'
  BY <1>1, <1>6, <1>7, <1>8, <1>9, <1>10, StepInv, ZenonT(30) DEF IInv, TypeOK
<1> QED
  BY <1>3, <1>4, <1>11, Zenon

\* rs_free takes a block the program holds.
LEMMA FreeStartInv ==
    ASSUME IInv, Observe, node' = node, NEW t \in Thread, NEW b \in Block, FreeStart(t, b)
    PROVE  IInv' /\ live[b] = 1 /\ live' = [live EXCEPT ![b] = 0]
<1>1. /\ th[t] \in ThreadRec /\ th \in [Thread -> ThreadRec] /\ th[t].pc = "idle"
      /\ th[t].got = {} /\ UNCHANGED <<cache, mail, hint, stealing, fresh, magic>>
  BY ThreadFacts, ZenonT(30) DEF FreeStart, At, lists, HandsInv
<1>2. live \in [Block -> 0..1] /\ live[b] > 0
  BY DEF FreeStart, IInv, TypeOK
<1>3. live[b] = 1
  BY <1>2
<1>4. live' = [live EXCEPT ![b] = 0]
  BY <1>3 DEF FreeStart
<1>5. PICK r : r = [Idle EXCEPT !.pc = "check", !.got = {b}]
  OBVIOUS
<1>6. magic'[b] = "MAGIC"
  BY <1>1, <1>3 DEF IInv
<1>7. /\ r \in ThreadRec /\ r.got = {b} /\ r.pc = "check"
  BY <1>5, IdleType, ZenonT(30) DEF Idle, ThreadRec, PC
<1>8. HandsInv(r)' /\ ScanInv(r) /\ r.pc \notin Scanning
  BY <1>6, <1>7, Zenon DEF HandsInv, ScanInv, Scanning
<1>9. th' = [th EXCEPT ![t] = r] /\ th'[t] = r
  BY <1>1, <1>5, Zenon DEF FreeStart, Step
<1>10. AheadInv(t)'
  BY <1>8, <1>9, NotScanning, Zenon
<1>11. \E g \in [Block -> Spot] : Located(g)'
  <2> DEFINE p == <<"live", 0>>
             q == <<"held", t>>
  <2>1. \A u \in Thread : th'[u].got = IF u = t THEN {b} ELSE th[u].got
    BY <1>1, <1>7, <1>9
  <2>2. /\ p \in Spot /\ q \in Spot /\ p # q /\ {b} \in SUBSET Content(p)
        /\ Content(q)' = Content(q) \cup {b}
    BY <1>1, <1>3, <2>1 DEF Spot, Content
  <2>3. Content(p)' = Content(p) \ {b}
    BY <1>2, <1>4 DEF Content
  <2>4. \A s \in Spot \ {p, q} : Content(s)' = Content(s)
    BY <1>1, <2>1 DEF Spot, Content
  <2> QED
    BY <2>2, <2>3, <2>4, MoveLocated, Zenon
<1>12. /\ live' \in [Block -> 0..1] /\ magic' \in [Block -> {"MAGIC", "FREED"}]
       /\ \A x \in Block : live'[x] = 1 => magic'[x] = "MAGIC"
  BY <1>1, <1>2, <1>4 DEF IInv, TypeOK
<1>13. IInv'
  BY <1>1, <1>7, <1>8, <1>9, <1>10, <1>11, <1>12, StepInv, Zenon DEF IInv, TypeOK
<1> QED
  BY <1>3, <1>4, <1>13, ZenonT(30)

\* rs_free finds MAGIC, and marks the block freed.
LEMMA CheckInv ==
    ASSUME IInv, Observe, node' = node, NEW t \in Thread, Check(t)
    PROVE  IInv'
<1>1. /\ th[t] \in ThreadRec /\ th \in [Thread -> ThreadRec] /\ th[t].pc = "check"
      /\ HandsInv(th[t]) /\ UNCHANGED <<cache, mail, hint, stealing, fresh, live>>
  BY ThreadFacts DEF Check, At, lists
<1>2. PICK b \in Block : th[t].got = {b} /\ magic[b] = "MAGIC"
  BY <1>1, ZenonT(30) DEF HandsInv
<1>3. live[b] = 0 /\ \A u \in Thread \ {t} : b \notin th[u].got
  BY <1>2, OneHand, Zenon
<1>4. /\ magic' = [magic EXCEPT ![b] = "FREED"] /\ Step(t, [th[t] EXCEPT !.pc = "push"])
      /\ magic \in [Block -> {"MAGIC", "FREED"}]
  BY <1>2 DEF Check, IInv, TypeOK
<1>5. PICK r : r = [th[t] EXCEPT !.pc = "push"]
  BY ZenonT(30)
<1>6. r \in ThreadRec /\ r.got = {b} /\ r.pc = "push"
  BY <1>1, <1>2, <1>5, Zenon DEF ThreadRec, PC
<1>7. HandsInv(r)' /\ ScanInv(r) /\ r.pc \notin Scanning
  BY <1>6 DEF HandsInv, ScanInv, Scanning
<1>8. th' = [th EXCEPT ![t] = r] /\ th'[t] = r
  BY <1>1, <1>4, <1>5, Zenon DEF Step
<1>9. AheadInv(t)'
  BY <1>7, <1>8, NotScanning, Zenon
<1>10. \E g \in [Block -> Spot] : Located(g)'
  BY <1>1, <1>2, <1>6, <1>8, QuietLocated, ZenonT(30)
<1>11. /\ magic' \in [Block -> {"MAGIC", "FREED"}]
       /\ \A x \in Block : live'[x] = 1 => magic'[x] = "MAGIC"
       /\ \A u \in Thread \ {t} : \A x \in th[u].got : magic'[x] = magic[x]
  BY <1>1, <1>3, <1>4 DEF IInv
<1> QED
  BY <1>1, <1>6, <1>7, <1>8, <1>9, <1>10, <1>11, StepInv, ZenonT(30) DEF IInv, TypeOK

\* The freed block goes back to the caches.
LEMMA FreePushInv ==
    ASSUME IInv, Observe, node' = node, NEW t \in Thread, FreePush(t)
    PROVE  IInv'
<1>1. /\ th[t] \in ThreadRec /\ th \in [Thread -> ThreadRec]
      /\ UNCHANGED <<stealing, fresh, magic, live>>
  BY ThreadFacts DEF FreePush
<1>2. PICK r, S : r = Idle /\ S = th[t].got
  OBVIOUS
<1>3. /\ r \in ThreadRec /\ r.got = {} /\ r.pc # "abort" /\ r.pc \notin Scanning
      /\ HandsInv(r)' /\ ScanInv(r)
  BY <1>2, IdleType, ZenonT(30) DEF Idle, HandsInv, ScanInv, Scanning
<1>4. th' = [th EXCEPT ![t] = r] /\ th'[t] = r
  BY <1>1, <1>2 DEF FreePush, Step
<1>5. AheadInv(t)'
  BY <1>3, <1>4, NotScanning, ZenonT(30)
<1>6. S \in SUBSET th[t].got /\ r.got = th[t].got \ S /\ PushTailed(S)
  BY <1>2, <1>3 DEF FreePush
<1>7. /\ \E g \in [Block -> Spot] : Located(g)'
      /\ cache' \in [CPU -> SUBSET Block] /\ mail' \in [CPU -> SUBSET Block]
      /\ hint' \in [CPU -> BOOLEAN]
  BY <1>1, <1>4, <1>6, FromHand, Zenon
<1> QED
  BY <1>1, <1>3, <1>4, <1>5, <1>7, StepInv, Zenon DEF IInv, TypeOK

\* A step that changes nothing.
LEMMA StutterInv ==
    ASSUME IInv, UNCHANGED vars
    PROVE  IInv'
<1>1. /\ node' = node /\ cache' = cache /\ mail' = mail /\ hint' = hint /\ stealing' = stealing
      /\ fresh' = fresh /\ magic' = magic /\ live' = live /\ th' = th /\ stocked' = stocked
  BY Zenon DEF vars
<1>2. TypeOK' /\ node' \in Topologies /\ \A b \in Block : live'[b] = 1 => magic'[b] = "MAGIC"
  BY <1>1, ZenonT(30) DEF IInv, TypeOK
<1>3. PICK f \in [Block -> Spot] : Located(f)
  BY DEF IInv
<1>4. Located(f)'
  BY <1>1, <1>3, ZenonT(30) DEF Located, Content
<1>5. ASSUME NEW t \in Thread
      PROVE  th'[t].pc # "abort" /\ HandsInv(th[t])' /\ ScanInv(th[t])' /\ AheadInv(t)'
  <2>1. th'[t].pc # "abort" /\ HandsInv(th[t])' /\ ScanInv(th[t])'
    BY <1>1, ThreadFacts, Zenon DEF HandsInv, ScanInv, Rngs
  <2>2. \A c : Ahead(th[t], c)' <=> Ahead(th[t], c)
    BY <1>1, ZenonT(30) DEF Ahead, RangeAt, Rngs, HomeOf
  <2>3. AheadInv(t)'
    BY <1>1, <2>2, ThreadFacts, Zenon DEF AheadInv, At, Victim
  <2> QED
    BY <2>1, <2>3
<1> QED
  BY <1>2, <1>4, <1>5, ZenonT(30) DEF IInv

\* Every step of malloc and free keeps the invariant.
LEMMA IInvStep == IInv /\ [Next]_vars => IInv'
<1> SUFFICES ASSUME IInv, [Next]_vars PROVE IInv'
  OBVIOUS
<1>1. CASE UNCHANGED vars
  BY <1>1, StutterInv
<1>2. CASE Next
  <2>1. PICK t \in Thread : Run(t) \/ Call(t)
    BY <1>2 DEF Next
  <2>2. Observe /\ node' = node
    BY <1>2 DEF Next
  <2>3. CASE Run(t)
    BY <2>2, <2>3, PopInv, TryOwnInv, ScanWordInv, ScanVictimInv, MarkInv, StealInv, UnmarkInv,
       AdvanceInv, BulkInv, TakeOneInv, StampInv, CheckInv, FreePushInv, Zenon DEF Run
  <2>4. CASE Call(t)
    BY <2>2, <2>4, AllocStartInv, FreeStartInv, PopAbortedInv, Zenon DEF Call
  <2> QED
    BY <2>1, <2>3, <2>4
<1> QED
  BY <1>1, <1>2

-----------------------------------------------------------------------------
(* The theorems.                                                           *)

\* IInv holds in every reachable state.
THEOREM Invariance == Spec => []IInv
<1>1. Init => IInv
  BY InitIInv
<1>2. IInv /\ [Next]_vars => IInv'
  BY IInvStep
<1> QED
  BY <1>1, <1>2, PTL DEF Spec

\* Where f says a block is, is its only place.
LEMMA PlaceOf ==
    ASSUME TypeOK, NEW f \in [Block -> Spot], Located(f), NEW b \in Block
    PROVE  Places(b) = {f[b]}
<1>1. \A c \in CPU : /\ b \in cache[c] <=> f[b] = <<"cache", c>>
                     /\ b \in mail[c] <=> f[b] = <<"mail", c>>
  <2>1. ASSUME NEW c \in CPU PROVE cache[c] = {x \in Block : f[x] = <<"cache", c>>}
    BY Zenon DEF Located, Content, Spot
  <2>2. ASSUME NEW c \in CPU PROVE mail[c] = {x \in Block : f[x] = <<"mail", c>>}
    BY Zenon DEF Located, Content, Spot
  <2> QED
    BY <2>1, <2>2
<1>2. \A t \in Thread : b \in th[t].got <=> f[b] = <<"held", t>>
  <2>1. ASSUME NEW t \in Thread PROVE th[t].got = {x \in Block : f[x] = <<"held", t>>}
    BY Zenon DEF Located, Content, Spot
  <2> QED
    BY <2>1
<1>3. b \in fresh <=> f[b] = <<"fresh", 0>>
  <2>1. fresh = {x \in Block : f[x] = <<"fresh", 0>>}
    BY Zenon DEF Located, Content, Spot
  <2> QED
    BY <2>1
<1>4. live[b] = 1 <=> f[b] = <<"live", 0>>
  <2>1. {x \in Block : live[x] = 1} = {x \in Block : f[x] = <<"live", 0>>}
    BY ZenonT(30) DEF Located, Content, Spot
  <2> QED
    BY <2>1
<1>5. live[b] > 0 <=> live[b] = 1
  BY DEF TypeOK
<1>6. f[b] \in Spot
  OBVIOUS
<1>7. Places(b) \subseteq {f[b]}
  BY <1>1, <1>2, <1>3, <1>4, <1>5 DEF Places
<1>8. f[b] \in Places(b)
  BY <1>1, <1>2, <1>3, <1>4, <1>5, <1>6 DEF Places, Spot
<1> QED
  BY <1>7, <1>8

\* OnePlace for any machine: whatever threads allocate, steal, refill and
\* free, every block of the class is in exactly one place.
THEOREM OnePlaceAlways == Spec => []OnePlace
<1>1. IInv => OnePlace
  <2> SUFFICES ASSUME IInv PROVE OnePlace
    BY ZenonT(30)
  <2>1. PICK f \in [Block -> Spot] : Located(f)
    BY DEF IInv
  <2>2. TypeOK
    BY DEF IInv
  <2>3. ASSUME NEW b \in Block PROVE Cardinality(Places(b)) = 1
    <3>1. Places(b) = {f[b]}
      BY <2>1, <2>2, PlaceOf
    <3> QED
      BY <3>1, FS_Singleton, ZenonT(30)
  <2> QED
    BY <2>2, <2>3 DEF OnePlace
<1> QED
  BY <1>1, Invariance, PTL

\* NeverAborts for any machine: rs_free finds MAGIC in every block the
\* program may free, so its double-free abort is never taken.
THEOREM NeverAbortsAlways == Spec => []NeverAborts
<1>1. IInv => NeverAborts
  BY DEF IInv, NeverAborts, At
<1> QED
  BY <1>1, Invariance, PTL

\* What one step of t leaves alone: the other threads, and the being_stolen
\* bits unless t is marking or unmarking.
LEMMA StepFrame ==
    ASSUME IInv, NEW t \in Thread, Run(t) \/ Call(t)
    PROVE  /\ \A u \in Thread \ {t} : th'[u] = th[u]
           /\ th[t].pc \notin {"mark", "unmark"} => stealing' = stealing
<1>1. th \in [Thread -> ThreadRec]
  BY DEF IInv, TypeOK
<1>2. ASSUME NEW r, Step(t, r) PROVE \A u \in Thread \ {t} : th'[u] = th[u]
  BY <1>1, <1>2 DEF Step
<1>3. ASSUME NEW c \in CPU, Pop(t, c) PROVE (\E r : Step(t, r)) /\ stealing' = stealing
  BY <1>3, Zenon DEF Pop
<1>4. CASE TryOwn(t) \/ Steal(t) \/ Bulk(t) \/ TakeOne(t)
  <2>1. (\E r : Step(t, r)) /\ stealing' = stealing
    BY <1>4, Zenon DEF TryOwn, Steal, Bulk, TakeOne
  <2> QED
    BY <1>2, <2>1
<1>5. CASE ScanWord(t) \/ ScanVictim(t) \/ Advance(t) \/ Stamp(t) \/ FreePush(t) \/ Check(t)
  <2>1. (\E r : Step(t, r)) /\ stealing' = stealing
    BY <1>5, Zenon DEF ScanWord, ScanVictim, Advance, Stamp, FreePush, Check, lists
  <2> QED
    BY <1>2, <2>1
<1>6. CASE Mark(t) \/ Unmark(t)
  <2>1. (\E r : Step(t, r)) /\ th[t].pc \in {"mark", "unmark"}
    BY <1>6, ZenonT(30) DEF Mark, Unmark, At
  <2> QED
    BY <1>2, <2>1
<1>7. CASE Call(t)
  <2>1. (th' = th \/ \E r : Step(t, r)) /\ stealing' = stealing
    BY <1>7, Zenon DEF Call, AllocStart, FreeStart, PopAborted, lists
  <2> QED
    BY <1>2, <2>1
<1> QED
  BY <1>2, <1>3, <1>4, <1>5, <1>6, <1>7, ZenonT(30) DEF Run

\* StealFlagOwned for any machine: a being_stolen bit is set only while a
\* thief is at that victim, so no victim is skipped for good.
THEOREM StealFlagAlways == Spec => []StealFlagOwned
<1>1. Init => StealFlagOwned
  BY DEF Init, StealFlagOwned
<1>2. ASSUME IInv, StealFlagOwned, [Next]_vars PROVE StealFlagOwned'
  <2> SUFFICES ASSUME NEW c \in CPU, stealing'[c]
               PROVE  \E u \in Thread : th'[u].pc \in {"steal", "unmark"} /\ Victim(u)' = c
    BY DEF StealFlagOwned
  <2>1. \A u \in Thread : th'[u] = th[u] => Victim(u)' = Victim(u)
    BY Zenon DEF Victim
  <2>2. CASE UNCHANGED vars
    BY <1>2, <2>1, <2>2, Zenon DEF vars, StealFlagOwned
  <2>3. CASE Next
    <3>1. PICK t \in Thread : Run(t) \/ Call(t)
      BY <2>3, Zenon DEF Next
    <3>2. /\ \A u \in Thread \ {t} : th'[u] = th[u]
          /\ th[t].pc \notin {"mark", "unmark"} => stealing' = stealing
      BY <1>2, <3>1, StepFrame, Zenon
    <3>3. ASSUME stealing[c] PROVE \E u \in Thread : th[u].pc \in {"steal", "unmark"} /\ Victim(u) = c
      BY <1>2, <3>3, Zenon DEF StealFlagOwned
    <3>4. ASSUME NEW u \in Thread, u # t, th[u].pc \in {"steal", "unmark"}, Victim(u) = c
          PROVE  \E x \in Thread : th'[x].pc \in {"steal", "unmark"} /\ Victim(x)' = c
      BY <2>1, <3>2, <3>4, ZenonT(30)
    <3>5. th \in [Thread -> ThreadRec] /\ th[t] \in ThreadRec /\ stealing \in [CPU -> BOOLEAN]
      BY <1>2, ZenonT(30) DEF IInv, TypeOK
    <3>6. CASE Mark(t)
      <4>1. th'[t] = [th[t] EXCEPT !.pc = "steal"] /\ th[t].pc = "mark"
        BY <3>5, <3>6, Zenon DEF Mark, Step, At
      <4>2. th'[t].pc = "steal" /\ Victim(t)' = Victim(t)
        BY <3>5, <4>1, ZenonT(30) DEF ThreadRec, Victim
      <4>3. CASE c = Victim(t)
        BY <4>2, <4>3
      <4>4. CASE c # Victim(t)
        <5>1. stealing[c]
          BY <3>5, <3>6, <4>4, Zenon DEF Mark
        <5> QED
          BY <3>3, <3>4, <4>1, <5>1, ZenonT(30)
      <4> QED
        BY <4>3, <4>4
    <3>7. CASE Unmark(t)
      <4>1. c # Victim(t) /\ stealing[c]
        BY <3>5, <3>7, Zenon DEF Unmark
      <4> QED
        BY <3>3, <3>4, <4>1, ZenonT(30)
    <3>8. CASE Steal(t)
      <4>1. th[t].pc = "steal" /\ stealing' = stealing
        BY <3>8 DEF Steal, At
      <4>2. PICK S : th'[t] = [th[t] EXCEPT !.pc = "unmark", !.got = S]
        BY <3>5, <3>8, Zenon DEF Steal, Step
      <4>3. th'[t].pc = "unmark" /\ Victim(t)' = Victim(t)
        BY <3>5, <4>2, ZenonT(30) DEF ThreadRec, Victim
      <4> QED
        BY <3>3, <3>4, <4>1, <4>3, ZenonT(30)
    <3>9. CASE ~Mark(t) /\ ~Unmark(t) /\ ~Steal(t)
      <4>1. th[t].pc \notin {"mark", "unmark", "steal"}
        BY <3>1, <3>9, Zenon DEF Run, Call, Pop, TryOwn, ScanWord, ScanVictim, Advance, Bulk, TakeOne,
                          Stamp, Check, FreePush, AllocStart, FreeStart, PopAborted, At
      <4> QED
        BY <3>2, <3>3, <3>4, <4>1, Zenon
    <3> QED
      BY <3>6, <3>7, <3>8, <3>9, Zenon
  <2> QED
    BY <1>2, <2>2, <2>3, ZenonT(30)
<1> QED
  BY <1>1, <1>2, Invariance, PTL DEF Spec

\* SlabAlloc implements Malloc for any machine: rs_alloc hands out only
\* blocks that are not in use, and rs_free takes each back once.
THEOREM Refinement == Spec => MallocSpec
<1>1. Init => M!MallocInit
  BY DEF Init, M!MallocInit
<1>2. IInv /\ [Next]_vars => [M!MallocNext]_live
  <2> SUFFICES ASSUME IInv, Next PROVE M!MallocNext \/ live' = live
    BY DEF vars
  <2>1. PICK t \in Thread : Run(t) \/ Call(t)
    BY DEF Next
  <2>2. Observe /\ node' = node
    BY DEF Next
  <2>3. CASE Stamp(t)
    BY <2>2, <2>3, StampInv, Zenon DEF M!MallocNext, M!Alloc
  <2>4. ASSUME NEW b \in Block, FreeStart(t, b) PROVE M!MallocNext
    BY <2>2, <2>4, FreeStartInv, ZenonT(30) DEF M!MallocNext, M!Free
  <2>5. CASE Run(t) /\ ~Stamp(t)
    BY <2>5, Zenon DEF Run, Pop, TryOwn, ScanWord, ScanVictim, Mark, Steal, Unmark, Advance, Bulk,
                       TakeOne, Check, FreePush
  <2>6. CASE Call(t)
    BY <2>4, <2>6, Zenon DEF Call, AllocStart, PopAborted
  <2> QED
    BY <2>1, <2>3, <2>5, <2>6, ZenonT(30)
<1> QED
  BY <1>1, <1>2, Invariance, PTL DEF Spec, MallocSpec, M!MallocSpec

\* ScanComplete for any machine, any NUMA table and any word size: fill goes
\* to the page backend only if no other CPU's transfer list stayed stocked
\* and hinted during its scan.
THEOREM ScanCompleteAlways == Spec => ScanComplete
<1>1. ASSUME IInv, Next, NEW t \in Thread, At(t, "advance"), th'[t].pc \notin Scanning
      PROVE  stocked[t] \subseteq {th[t].cpu}
  <2>1. PICK u \in Thread : Run(u) \/ Call(u)
    BY <1>1, Zenon DEF Next
  <2>2. u = t
    <3>1. th'[t] # th[t]
      BY <1>1 DEF At, Scanning
    <3> QED
      BY <1>1, <2>1, <3>1, StepFrame, ZenonT(30)
  <2>3. Advance(t)
    BY <1>1, <2>1, <2>2, ZenonT(30)
       DEF Run, Call, Pop, TryOwn, ScanWord, ScanVictim, Mark, Steal, Unmark, Bulk, TakeOne,
           Stamp, Check, FreePush, AllocStart, FreeStart, PopAborted, At
  <2>4. /\ th[t] \in ThreadRec /\ th \in [Thread -> ThreadRec] /\ th[t].rng \in Nat
        /\ th[t].cpu \in CPU
    BY <1>1, ThreadFacts DEF ThreadRec
  <2>5. th[t].force /\ ~(th[t].word < LastWord(th[t].cpu, th[t].rng)) /\ ~(th[t].rng + 1 < Rngs)
    <3>1. ASSUME Step(t, [th[t] EXCEPT !.pc = "word", !.force = TRUE]) PROVE FALSE
      BY <1>1, <2>4, <3>1 DEF Step, ThreadRec, Scanning
    <3>2. ASSUME Step(t, [th[t] EXCEPT !.pc = "word", !.force = FALSE, !.word = @ + 1]) PROVE FALSE
      BY <1>1, <2>4, <3>2 DEF Step, ThreadRec, Scanning
    <3>3. ASSUME Step(t, AtRange(t, th[t].rng + 1)) PROVE FALSE
      BY <1>1, <2>4, <3>3, ZenonT(30) DEF Step, ThreadRec, Scanning, AtRange
    <3> QED
      BY <2>3, <3>1, <3>2, <3>3, Zenon DEF Advance
  <2>6. Rngs \in Nat
    BY <1>1, <2>4, RangeFacts, ZenonT(30) DEF IInv
  <2>7. ASSUME NEW d \in stocked[t] \ {th[t].cpu} PROVE FALSE
    <3>1. PICK j \in (th[t].rng + 1)..(Rngs - 1) : TRUE
      BY <1>1, <2>5, RangeDone, Zenon
    <3> QED
      BY <2>4, <2>5, <2>6, <3>1
  <2> QED
    BY <2>7, Zenon
<1>2. ASSUME UNCHANGED vars, NEW t \in Thread, At(t, "advance"), th'[t].pc \notin Scanning
      PROVE  FALSE
  BY <1>2, ZenonT(30) DEF vars, At, Scanning
<1>3. IInv /\ [Next]_vars =>
          [\A t \in Thread : At(t, "advance") /\ th'[t].pc \notin Scanning =>
               stocked[t] \subseteq {th[t].cpu}]_vars
  BY <1>1, <1>2
<1> QED
  BY <1>3, Invariance, PTL DEF Spec, ScanComplete

-----------------------------------------------------------------------------
(* Every step brings a call nearer to its end.                             *)

\* Two points of the same scan, of which r comes later.
LEMMA LaterInScan ==
    ASSUME IInv, NEW r \in ThreadRec, NEW q \in ThreadRec,
           r.pc \in Scanning \ {"own"}, q.pc \in Scanning \ {"own"},
           r.final = q.final, r.tries = q.tries, r.cpu = q.cpu, Later(r, q)
    PROVE  Below(Distance(r), Distance(q))
<1>1. Distance(r) = ScanDistance(r) /\ Distance(q) = ScanDistance(q)
  BY Heads, Zenon
<1>2. Stage(r) = Stage(q)
  BY Stages, Zenon
<1>3. r.rng \in Nat /\ q.rng \in Nat /\ r.word \in Nat /\ q.word \in Nat /\ r.cpu \in CPU
  BY Zenon DEF ThreadRec
<1>4. Rngs \in Nat /\ LastWord(r.cpu, r.rng) \in Nat
  <2>1. Rngs \in Nat /\ RangeAt(r.cpu, r.rng)[2] \in CPU
    BY <1>3, RangeFacts, ZenonT(30) DEF IInv
  <2> QED
    BY <2>1, WordOf, ZenonT(30) DEF LastWord
<1> QED
  BY <1>1, <1>2, <1>3, <1>4, LaterBelow, ZenonT(30)

\* Fewer candidates than a whole word of CPUs, and one fewer after each.
LEMMA FewerBits ==
    ASSUME NEW S \in SUBSET CPU
    PROVE  /\ Cardinality(S) \in Nat /\ Cardinality(S) < NCPU + 1
           /\ \A v \in S : Cardinality(S \ {v}) < Cardinality(S)
<1>1. IsFiniteSet(CPU) /\ Cardinality(CPU) = NCPU
  BY ConstAssumption, FS_Interval DEF CPU
<1>2. IsFiniteSet(S) /\ Cardinality(S) <= NCPU
  BY <1>1, FS_Subset, Zenon
<1>3. Cardinality(S) \in Nat
  BY <1>2, FS_CardinalityType, Zenon
<1>4. ASSUME NEW v \in S PROVE Cardinality(S \ {v}) < Cardinality(S)
  <2>1. Cardinality(S \ {v}) = Cardinality(S) - 1
    BY <1>2, FS_RemoveElement, Zenon
  <2> QED
    BY <1>3, <2>1
<1> QED
  BY <1>2, <1>3, <1>4, ConstAssumption

\* The steps of a scan and of the attempts of refill.
LEMMA ScanNears ==
    ASSUME IInv, NEW t \in Thread, NEW q, NEW r \in ThreadRec, q = th[t],
           th' = [th EXCEPT ![t] = r], th'[t] = r,
           \/ TryOwn(t) \/ ScanWord(t) \/ ScanVictim(t) \/ Mark(t) \/ Steal(t)
           \/ Unmark(t) \/ Advance(t)
    PROVE  r = Idle \/ Below(Distance(r), Distance(q))
<1>1. q \in ThreadRec /\ ScanInv(q) /\ th \in [Thread -> ThreadRec]
  BY ThreadFacts
<1>2. \A x, y : Step(t, x) /\ Step(t, y) => x = y
  BY <1>1, Zenon DEF Step
<1>3. \A x : Step(t, x) => x = r
  BY <1>1, Zenon DEF Step
<1>4. ASSUME NEW S \in SUBSET Block, r = Found(t, S), q.pc \in Scanning
      PROVE  Below(Distance(r), Distance(q))
  <2>1. r.pc \in {"take", "stamp"}
    BY <1>4, IdleType, Zenon DEF Found, Idle, ThreadRec
  <2>2. Stage(r) < Stage(q)
    BY <1>1, <1>4, <2>1, Stages
  <2> QED
    BY <1>1, <2>2, LowerStage, Zenon
<1>5. ASSUME r = NextVictim(t), q.pc \in {"victim", "unmark"}
      PROVE  Below(Distance(r), Distance(q))
  <2>1. PICK v : v = Victim(t) /\ v \in q.bits
    BY <1>5, VictimFacts, ZenonT(30)
  <2>2. r = [q EXCEPT !.bits = @ \ {v}, !.pc = IF q.bits = {v} THEN "advance" ELSE "victim"]
    BY <1>5, <2>1 DEF NextVictim
  <2>3. /\ r.bits = q.bits \ {v} /\ r.pc \in {"advance", "victim"} /\ r.final = q.final
        /\ r.tries = q.tries /\ r.cpu = q.cpu /\ r.rng = q.rng /\ r.word = q.word
        /\ r.force = q.force
    BY <1>1, <2>2, ZenonT(30) DEF ThreadRec
  <2>4. Cardinality(r.bits) < Cardinality(q.bits)
    BY <1>1, <2>1, <2>3, FewerBits, ZenonT(30) DEF ThreadRec
  <2> QED
    BY <1>1, <1>5, <2>3, <2>4, LaterInScan, ZenonT(30) DEF Scanning, Later
<1>6. ASSUME NEW p \in {"mark", "steal", "unmark"}, NEW S, StepRank[p] < StepRank[q.pc],
             r = [q EXCEPT !.pc = p, !.got = S], q.pc \in {"victim", "mark", "steal"}
      PROVE  Below(Distance(r), Distance(q))
  <2>1. /\ r.bits = q.bits /\ r.pc = p /\ r.final = q.final
        /\ r.tries = q.tries /\ r.cpu = q.cpu /\ r.rng = q.rng /\ r.word = q.word
        /\ r.force = q.force
    BY <1>1, <1>6 DEF ThreadRec
  <2> QED
    <3>1. r.pc \in Scanning \ {"own"} /\ q.pc \in Scanning \ {"own"} /\ r.pc # "word" /\ q.pc # "word"
      BY <1>6, <2>1, Zenon DEF Scanning
    <3>2. StepRank[r.pc] < StepRank[q.pc]
      BY <1>6, <2>1, Zenon
    <3> QED
      BY <1>1, <2>1, <3>1, <3>2, LaterInScan, ZenonT(30) DEF Later
<1>7. CASE TryOwn(t)
  <2>1. q.pc = "own" /\ ((\E S \in SUBSET mail[q.cpu] : r = Found(t, S)) \/ r = AtRange(t, 0))
    BY <1>3, <1>7, Zenon DEF TryOwn, At
  <2>2. mail[q.cpu] \in SUBSET Block
    BY <1>1 DEF IInv, TypeOK, ThreadRec
  <2>3. CASE r = AtRange(t, 0)
    <3>1. r.pc = "word" /\ r.rng = 0 /\ r.tries = q.tries /\ r.final = q.final
      BY <1>1, <2>3 DEF AtRange, ThreadRec
    <3>2. Stage(r) = Stage(q)
      BY <1>1, <2>1, <3>1, Stages, ZenonT(30) DEF Scanning
    <3>3. Distance(r) = ScanDistance(r) /\ Distance(q) = ScanDistance(q)
      BY <1>1, <2>1, <3>1, Heads, ZenonT(30) DEF Scanning
    <3>4. Rngs \in Nat
      BY <1>1, RangeFacts, ZenonT(30) DEF IInv, ThreadRec
    <3> QED
      BY <2>1, <3>1, <3>2, <3>3, <3>4, OwnBelow, Zenon
  <2> QED
    BY <1>4, <2>1, <2>2, <2>3, Zenon DEF Scanning
<1>8. CASE ScanWord(t)
  <2>1. PICK b : r = [q EXCEPT !.bits = b, !.pc = IF b = {} THEN "advance" ELSE "victim"]
    BY <1>3, <1>8, Zenon DEF ScanWord
  <2>2. /\ r.bits = b /\ r.pc \in {"advance", "victim"} /\ r.final = q.final /\ q.pc = "word"
        /\ r.tries = q.tries /\ r.cpu = q.cpu /\ r.rng = q.rng /\ r.word = q.word
        /\ r.force = q.force
    BY <1>1, <1>8, <2>1, ZenonT(30) DEF ThreadRec, ScanWord, At
  <2>3. Cardinality(r.bits) < NCPU + 1
    BY FewerBits DEF ThreadRec
  <2> QED
    BY <1>1, <2>2, <2>3, LaterInScan, ZenonT(30) DEF Scanning, Later
<1>9. CASE ScanVictim(t)
  <2>1. q.pc = "victim" /\ q.got = {}
    BY <1>9, ThreadFacts DEF ScanVictim, At, HandsInv
  <2>2. r = NextVictim(t) \/ \E p \in {"mark", "steal"} : r = [q EXCEPT !.pc = p]
    BY <1>3, <1>9, Zenon DEF ScanVictim
  <2>3. ASSUME NEW p \in {"mark", "steal"}, r = [q EXCEPT !.pc = p]
        PROVE  Below(Distance(r), Distance(q))
    <3>1. r = [q EXCEPT !.pc = p, !.got = {}]
      BY <1>1, <2>1, <2>3, ZenonT(30) DEF ThreadRec
    <3>2. StepRank[p] < StepRank[q.pc]
      BY <2>1, StepRanks, Zenon
    <3> QED
      BY <1>6, <2>1, <3>1, <3>2, ZenonT(30)
  <2> QED
    BY <1>5, <2>1, <2>2, <2>3, ZenonT(30)
<1>10. CASE Mark(t)
  <2>1. q.pc = "mark" /\ q.got = {} /\ r = [q EXCEPT !.pc = "steal"]
    BY <1>3, <1>10, ThreadFacts, ZenonT(30) DEF Mark, At, HandsInv
  <2>2. r = [q EXCEPT !.pc = "steal", !.got = {}]
    BY <1>1, <2>1, ZenonT(30) DEF ThreadRec
  <2>3. StepRank["steal"] < StepRank[q.pc]
    BY <2>1, StepRanks, Zenon
  <2> QED
    BY <1>6, <2>1, <2>2, <2>3, ZenonT(30)
<1>11. CASE Steal(t)
  <2>1. PICK S : r = [q EXCEPT !.pc = "unmark", !.got = S]
    BY <1>3, <1>11, Zenon DEF Steal
  <2>2. q.pc = "steal"
    BY <1>11, ZenonT(30) DEF Steal, At
  <2>3. StepRank["unmark"] < StepRank[q.pc]
    BY <2>2, StepRanks, Zenon
  <2> QED
    BY <1>6, <2>1, <2>2, <2>3, Zenon
<1>12. CASE Unmark(t)
  <2>1. q.pc = "unmark" /\ (r = Found(t, q.got) \/ r = NextVictim(t))
    BY <1>3, <1>12, Zenon DEF Unmark, At
  <2>2. q.got \in SUBSET Block
    BY <1>1 DEF ThreadRec
  <2> QED
    BY <1>4, <1>5, <2>1, <2>2, ZenonT(30) DEF Scanning
<1>13. CASE Advance(t)
  <2>1. /\ q.pc = "advance" /\ q.rng \in Nat /\ q.word \in Nat
    BY <1>1, <1>13 DEF Advance, At, ThreadRec
  <2>2. \/ ~q.force /\ r = [q EXCEPT !.pc = "word", !.force = TRUE]
        \/ r = [q EXCEPT !.pc = "word", !.force = FALSE, !.word = @ + 1]
        \/ r = AtRange(t, q.rng + 1)
        \/ r = Idle
        \/ ~q.final /\ r = [Idle EXCEPT !.pc = "bulk", !.cpu = q.cpu]
    BY <1>3, <1>13, Zenon DEF Advance
  <2>3. CASE ~q.force /\ r = [q EXCEPT !.pc = "word", !.force = TRUE]
    <3>1. /\ r.pc = "word" /\ r.final = q.final /\ r.tries = q.tries /\ r.cpu = q.cpu
          /\ r.rng = q.rng /\ r.word = q.word /\ r.force
      BY <1>1, <2>3 DEF ThreadRec
    <3> QED
      BY <1>1, <2>1, <2>3, <3>1, LaterInScan, ZenonT(30) DEF Scanning, Later
  <2>4. CASE r = [q EXCEPT !.pc = "word", !.force = FALSE, !.word = @ + 1]
    <3>1. /\ r.pc = "word" /\ r.final = q.final /\ r.tries = q.tries /\ r.cpu = q.cpu
          /\ r.rng = q.rng /\ r.word = q.word + 1
      BY <1>1, <2>4, ZenonT(30) DEF ThreadRec
    <3>2. r.word > q.word
      BY <2>1, <3>1
    <3> QED
      BY <1>1, <2>1, <3>1, <3>2, LaterInScan, ZenonT(30) DEF Scanning, Later
  <2>5. CASE r = AtRange(t, q.rng + 1)
    <3>1. /\ r.pc = "word" /\ r.final = q.final /\ r.tries = q.tries /\ r.cpu = q.cpu
          /\ r.rng = q.rng + 1
      BY <1>1, <2>5, ZenonT(30) DEF AtRange, ThreadRec
    <3>2. r.rng > q.rng
      BY <2>1, <3>1
    <3> QED
      BY <1>1, <2>1, <3>1, <3>2, LaterInScan, ZenonT(30) DEF Scanning, Later
  <2>6. CASE ~q.final /\ r = [Idle EXCEPT !.pc = "bulk", !.cpu = q.cpu]
    <3>1. r.pc = "bulk"
      BY <2>6 DEF Idle
    <3>2. Stage(r) = 3 /\ Stage(q) = 4
      BY <1>1, <2>1, <2>6, <3>1, Stages, ZenonT(30) DEF Scanning
    <3> QED
      BY <1>1, <3>2, LowerStage
  <2> QED
    BY <2>2, <2>3, <2>4, <2>5, <2>6, ZenonT(30)
<1> QED
  BY <1>7, <1>8, <1>9, <1>10, <1>11, <1>12, <1>13, ZenonT(30)

\* The other steps of a call.
LEMMA CallNears ==
    ASSUME IInv, NEW t \in Thread, NEW q, NEW r \in ThreadRec, q = th[t],
           th' = [th EXCEPT ![t] = r], th'[t] = r,
           \/ \E c \in CPU : Pop(t, c)
           \/ Bulk(t) \/ TakeOne(t) \/ Stamp(t) \/ Check(t) \/ FreePush(t)
    PROVE  r = Idle \/ Below(Distance(r), Distance(q))
<1>1. q \in ThreadRec /\ ScanInv(q) /\ th \in [Thread -> ThreadRec]
  BY ThreadFacts, Zenon
<1>2. \A x : Step(t, x) => x = r
  BY <1>1, Zenon DEF Step
<1>3. ASSUME NEW c \in CPU, Pop(t, c) PROVE Below(Distance(r), Distance(q))
  <2>1. /\ q.pc = "pop"
        /\ \/ \E b : r = [q EXCEPT !.pc = "stamp", !.got = {b}]
           \/ \E n, d : r = [q EXCEPT !.pc = "own", !.cpu = d, !.want = n]
    BY <1>2, <1>3, Zenon DEF Pop, At
  <2>2. r.pc = "stamp" \/ r.pc = "own"
    BY <1>1, <2>1, ZenonT(30) DEF ThreadRec
  <2>3. Stage(r) \in {0, 2, 4} /\ Stage(q) = 5
    BY <1>1, <2>1, <2>2, Stages, ZenonT(30) DEF Scanning
  <2> QED
    BY <1>1, <2>3, LowerStage
<1>4. CASE Bulk(t)
  <2>1. /\ q.pc = "bulk"
        /\ \/ \E S : r = Found(t, S)
           \/ r = [q EXCEPT !.tries = @ + 1]
           \/ r = [q EXCEPT !.pc = "own", !.want = 1, !.final = TRUE]
    BY <1>2, <1>4, Zenon DEF Bulk, At
  <2>2. Stage(q) = 3
    BY <1>1, <2>1, Stages, ZenonT(30)
  <2>3. ASSUME NEW S, r = Found(t, S) PROVE Stage(r) < 3
    <3>1. r.pc \in {"take", "stamp"}
      BY <2>3, ZenonT(30) DEF Found, Idle
    <3> QED
      BY <3>1, Stages
  <2>4. ASSUME r = [q EXCEPT !.pc = "own", !.want = 1, !.final = TRUE] PROVE Stage(r) < 3
    <3>1. r.pc = "own" /\ r.final
      BY <1>1, <2>4, Zenon DEF ThreadRec
    <3> QED
      BY <3>1, Stages DEF Scanning
  <2>5. ASSUME r = [q EXCEPT !.tries = @ + 1] PROVE Below(Distance(r), Distance(q))
    <3>1. r.pc = "bulk" /\ r.tries = q.tries + 1 /\ q.tries \in Nat
      BY <1>1, <2>1, <2>5, ConstAssumption DEF ThreadRec
    <3>2. /\ DOMAIN Distance(r) = 1..7 /\ Distance(r)[1] = Distance(q)[1]
          /\ Distance(r)[2] = MaxRetries - r.tries /\ Distance(q)[2] = MaxRetries - q.tries
      BY <1>1, <2>2, <3>1, Heads, Stages, ZenonT(30)
    <3>3. Distance(r)[2] < Distance(q)[2]
      BY <3>1, <3>2, ConstAssumption
    <3>4. \A j \in 1..7 : j < 2 => Distance(r)[j] = Distance(q)[j]
      BY <3>2
    <3> QED
      BY <3>2, <3>3, <3>4, Seven, LexBelow, Zenon
  <2> QED
    BY <1>1, <2>1, <2>2, <2>3, <2>4, <2>5, LowerStage, ZenonT(30)
<1>5. CASE TakeOne(t)
  <2>1. q.pc = "take" /\ \E b : r = [Idle EXCEPT !.pc = "stamp", !.got = {b}]
    BY <1>2, <1>5, Zenon DEF TakeOne, At
  <2>2. r.pc = "stamp"
    BY <2>1 DEF Idle
  <2>3. Stage(r) = 0 /\ Stage(q) = 1
    BY <1>1, <2>1, <2>2, Stages, ZenonT(30)
  <2> QED
    BY <1>1, <2>3, LowerStage
<1>6. CASE Check(t)
  <2>1. q.pc = "check" /\ (r = [q EXCEPT !.pc = "push"] \/ r = [q EXCEPT !.pc = "abort"])
    BY <1>2, <1>6, Zenon DEF Check, At
  <2>2. r.pc \in {"push", "abort"}
    BY <1>1, <2>1, ZenonT(30) DEF ThreadRec
  <2>3. Stage(r) < Stage(q)
    BY <1>1, <2>1, <2>2, Stages
  <2> QED
    BY <1>1, <2>3, LowerStage, ZenonT(30)
<1>7. CASE Stamp(t) \/ FreePush(t)
  BY <1>2, <1>7, Zenon DEF Stamp, FreePush
<1> QED
  BY <1>3, <1>4, <1>5, <1>6, <1>7, ZenonT(30)

\* CallNearsEnd for any machine: once pop has left its restartable sequence,
\* every step of malloc and free brings the call nearer to its end.
THEOREM CallNearsEndAlways == Spec => CallNearsEnd
<1>1. ASSUME IInv, Next, IInv', NEW t \in Thread, th[t].pc # "idle", th'[t] # th[t]
      PROVE  th'[t] = Idle \/ Below(Distance(th'[t]), Distance(th[t]))
  <2>1. PICK u \in Thread : Run(u) \/ Call(u)
    BY <1>1, Zenon DEF Next
  <2>2. u = t
    BY <1>1, <2>1, StepFrame, ZenonT(30)
  <2>3. Run(t)
    BY <1>1, <2>1, <2>2, Zenon DEF Call, AllocStart, FreeStart, PopAborted, At
  <2>4. PICK q, r : q = th[t] /\ r = th'[t]
    BY ZenonT(30)
  <2>5. r \in ThreadRec /\ th \in [Thread -> ThreadRec] /\ th' \in [Thread -> ThreadRec]
    BY <1>1, <2>4, ZenonT(30) DEF IInv, TypeOK
  <2>6. th' = [th EXCEPT ![t] = r]
    BY <1>1, <2>1, <2>2, <2>4, <2>5, StepFrame, ZenonT(30)
  <2>7. r = Idle \/ Below(Distance(r), Distance(q))
    BY <1>1, <2>3, <2>4, <2>5, <2>6, ScanNears, CallNears, Zenon DEF Run
  <2> QED
    BY <2>4, <2>7, ZenonT(30)
<1>2. IInv /\ IInv' /\ [Next]_vars =>
          [\A t \in Thread : th[t].pc # "idle" /\ th'[t] # th[t] =>
               th'[t] = Idle \/ Below(Distance(th'[t]), Distance(th[t]))]_vars
  BY <1>1, Zenon
<1> QED
  BY <1>2, Invariance, PTL DEF Spec, CallNearsEnd

=============================================================================
