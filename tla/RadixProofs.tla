----------------------------- MODULE RadixProofs ----------------------------
(***************************************************************************)
(* IInv is an inductive invariant of Radix: for any threads and pages, any *)
(* fan-out, any leaf of whole words and any spans inside the map.          *)
(***************************************************************************)
EXTENDS Radix, Integers, FiniteSetTheorems, TLAPS

-----------------------------------------------------------------------------
(* Quotients and remainders.                                               *)

\* Division with remainder.
LEMMA DivFacts ==
    ASSUME NEW a \in Nat, NEW b \in Nat \ {0}
    PROVE  a \div b \in Nat /\ a % b \in 0..(b - 1) /\ a = b * (a \div b) + (a % b)
OBVIOUS

\* A number is determined up to b by its quotient, so the quotient is unique.
LEMMA DivUnique ==
    ASSUME NEW b \in Nat \ {0}, NEW q \in Nat, NEW r \in 0..(b - 1), NEW a \in Nat, a = b * q + r
    PROVE  a \div b = q /\ a % b = r
<1>1. PICK k \in Nat : k = a \div b
  BY DivFacts
<1>2. PICK s \in 0..(b - 1) : s = a % b
  BY DivFacts
<1>3. b * q + r = b * k + s
  BY <1>1, <1>2, DivFacts
<1>4. ~(q < k)
  <2> SUFFICES ASSUME q + 1 <= k PROVE FALSE
    OBVIOUS
  <2>1. b * (q + 1) <= b * k /\ b * (q + 1) = b * q + b
    OBVIOUS
  <2>2. b * q \in Nat /\ b * k \in Nat
    OBVIOUS
  <2> QED
    BY <1>3, <2>1, <2>2
<1>5. ~(k < q)
  <2> SUFFICES ASSUME k + 1 <= q PROVE FALSE
    OBVIOUS
  <2>1. b * (k + 1) <= b * q /\ b * (k + 1) = b * k + b
    OBVIOUS
  <2>2. b * q \in Nat /\ b * k \in Nat
    OBVIOUS
  <2> QED
    BY <1>3, <2>1, <2>2
<1>6. q = k
  BY <1>4, <1>5
<1> QED
  BY <1>1, <1>2, <1>3, <1>6

\* Dividing by m and then by n is dividing by w.
DivTwice(a, m, n, w) == a \div w = (a \div m) \div n

\* Dividing twice, as the levels of the tree do, is dividing once.
LEMMA DivDiv ==
    ASSUME NEW a \in Nat, NEW m \in Nat \ {0}, NEW n \in Nat \ {0}, NEW w \in Nat, w = n * m
    PROVE  DivTwice(a, m, n, w)
<1>1. PICK q \in Nat : q = a \div m
  BY DivFacts
<1>2. PICK r \in 0..(m - 1) : r = a % m
  BY DivFacts
<1>3. PICK k \in Nat : k = q \div n
  BY DivFacts
<1>4. PICK s \in 0..(n - 1) : s = q % n
  BY DivFacts
<1>5. a = m * q + r /\ q = n * k + s
  BY <1>1, <1>2, <1>3, <1>4, DivFacts, Zenon
<1>6. n * m \in Nat \ {0} /\ m * n \in Nat \ {0}
  OBVIOUS
<1>7. a = (n * m) * k + (m * s + r)
  BY <1>5
<1>8. m * s + r \in 0..(n * m - 1)
  <2>1. m * s \in Nat /\ m * s <= m * (n - 1) /\ m * (n - 1) = n * m - m
    OBVIOUS
  <2> QED
    BY <1>6, <2>1
<1>9. a \div w = k
  BY <1>6, <1>7, <1>8, DivUnique
<1> QED
  BY <1>1, <1>3, <1>9 DEF DivTwice

\* Quotients grow with the dividend.
LEMMA DivMonotone ==
    ASSUME NEW b \in Nat \ {0}, NEW x \in Nat, NEW y \in Nat, x <= y
    PROVE  x \div b <= y \div b
OBVIOUS

\* From one number to the next the quotient changes only at a multiple.
LEMMA DivNext ==
    ASSUME NEW b \in Nat \ {0}, NEW a \in Nat, (a + 1) % b # 0
    PROVE  (a + 1) \div b = a \div b
<1>1. PICK q \in Nat : q = (a + 1) \div b
  BY DivFacts
<1>2. PICK r \in 0..(b - 1) : r = (a + 1) % b
  BY DivFacts
<1>3. a + 1 \in Nat /\ a + 1 = b * q + r /\ b * q \in Nat
  BY <1>1, <1>2, DivFacts
<1>4. r # 0
  BY <1>2
<1>5. a = b * q + (r - 1) /\ r - 1 \in 0..(b - 1)
  BY <1>3, <1>4
<1>6. a \div b = q
  BY <1>5, DivUnique
<1> QED
  BY <1>1, <1>6

-----------------------------------------------------------------------------
(* The geometry of the map: split, and the words of a leaf.                *)

\* The sizes are positive.
LEMMA Sizes ==
    /\ Fan \in Nat \ {0} /\ LeafSize \in Nat \ {0} /\ WordSize \in Nat \ {0} /\ ChunkSize \in Nat \ {0}
    /\ Fan * LeafSize \in Nat \ {0} /\ Fan * Fan * LeafSize \in Nat \ {0}
    /\ Fan * Fan * LeafSize = (Fan * LeafSize) * Fan
BY ConstAssumption

\* split's indices are indices of pages and of a leaf.
LEMMA SplitIndices ==
    ASSUME NEW c \in Chunk
    PROVE  /\ c \in Nat /\ Split(c)[1] \in Index /\ Split(c)[2] \in Index
           /\ Split(c)[3] \in 0..(LeafSize - 1)
<1>1. c \in Nat /\ c < (Fan * LeafSize) * Fan
  BY Sizes DEF Chunk
<1>2. PICK w \in Nat \ {0} : w = Fan * LeafSize
  BY Sizes
<1>3. PICK q \in Nat : q = c \div w
  BY <1>1, DivFacts, Zenon
<1>4. c >= w * q
  <2>1. c = w * q + (c % w) /\ c % w \in 0..(w - 1) /\ w * q \in Nat
    BY <1>1, <1>3, DivFacts
  <2> QED
    BY <2>1
<1>5. q < Fan
  <2> SUFFICES ASSUME Fan <= q PROVE FALSE
    BY Sizes
  <2>1. w * Fan <= w * q /\ w * Fan \in Nat /\ w * q \in Nat
    BY Sizes
  <2> QED
    BY <1>1, <1>2, <1>4, <2>1
<1>6. (c \div LeafSize) % Fan \in Index /\ c % LeafSize \in 0..(LeafSize - 1)
  BY <1>1, Sizes, DivFacts DEF Index
<1> QED
  BY <1>1, <1>2, <1>3, <1>5, <1>6, Sizes DEF Split, Index

\* Chunks of one leaf take the same way, ...
LEMMA SameLeaf ==
    ASSUME NEW c \in Nat, NEW d \in Nat, c \div LeafSize = d \div LeafSize
    PROVE  Split(c)[1] = Split(d)[1] /\ Split(c)[2] = Split(d)[2]
<1>1. PICK w \in Nat : w = Fan * LeafSize
  BY Sizes
<1>2. DivTwice(c, LeafSize, Fan, w) /\ DivTwice(d, LeafSize, Fan, w)
  BY <1>1, Sizes, DivDiv, Zenon
<1> QED
  BY <1>1, <1>2 DEF Split, DivTwice

\* ... and only they do; the bit then tells them apart.
LEMMA SplitApart ==
    ASSUME NEW c \in Nat, NEW d \in Nat, Split(c)[1] = Split(d)[1], Split(c)[2] = Split(d)[2]
    PROVE  /\ c \div LeafSize = d \div LeafSize
           /\ Split(c)[3] = Split(d)[3] => c = d
<1>1. PICK a \in Nat : a = c \div LeafSize
  BY Sizes, DivFacts, Zenon
<1>2. PICK b \in Nat : b = d \div LeafSize
  BY Sizes, DivFacts, Zenon
<1>3. a \div Fan = b \div Fan /\ a % Fan = b % Fan
  <2>1. PICK w \in Nat : w = Fan * LeafSize
    BY Sizes
  <2>2. DivTwice(c, LeafSize, Fan, w) /\ DivTwice(d, LeafSize, Fan, w)
    BY <2>1, Sizes, DivDiv, Zenon
  <2>3. c \div w = d \div w /\ a % Fan = b % Fan
    BY <1>1, <1>2, <2>1 DEF Split
  <2> QED
    BY <1>1, <1>2, <2>2, <2>3, Zenon DEF DivTwice
<1>4. a = b
  <2>1. a = Fan * (a \div Fan) + (a % Fan) /\ b = Fan * (b \div Fan) + (b % Fan)
    BY Sizes, DivFacts, Zenon
  <2> QED
    BY <1>3, <2>1, Zenon
<1>5. c % LeafSize = d % LeafSize => c = d
  <2>1. c = LeafSize * a + (c % LeafSize) /\ d = LeafSize * b + (d % LeafSize)
    BY <1>1, <1>2, Sizes, DivFacts, Zenon
  <2> QED
    BY <1>4, <2>1, Zenon
<1> QED
  BY <1>1, <1>2, <1>4, <1>5 DEF Split

\* The part of a range that one fetch_or or fetch_and covers starts where it
\* should, ends in the range and stays in its leaf.
LEMMA WordInLeaf ==
    ASSUME NEW c \in Chunk, NEW hi \in Chunk, c <= hi
    PROVE  /\ LastOf(c, hi) \in Nat /\ c <= LastOf(c, hi) /\ LastOf(c, hi) <= hi
           /\ \A d \in c..LastOf(c, hi) : d \div LeafSize = c \div LeafSize
<1>1. c \in Nat /\ hi \in Nat
  BY Sizes DEF Chunk
<1>2. PICK q \in Nat : q = c \div WordSize
  BY <1>1, Sizes, DivFacts, Zenon
<1>3. PICK r \in 0..(WordSize - 1) : r = c % WordSize
  BY <1>1, Sizes, DivFacts, Zenon
<1>4. c = WordSize * q + r /\ WordSize * q \in Nat
  BY <1>1, <1>2, <1>3, Sizes, DivFacts
<1>5. PICK end \in Nat : end = c + (WordSize - 1) - r
  BY <1>1, <1>3, Sizes
<1>6. LastOf(c, hi) = IF hi < end THEN hi ELSE end
  BY <1>3, <1>5 DEF LastOf
<1>7. c <= end /\ end = WordSize * q + (WordSize - 1)
  BY <1>3, <1>4, <1>5, Sizes
<1>8. PICK k \in Nat : k = LeafSize \div WordSize
  BY Sizes, DivFacts
<1>9. LeafSize = WordSize * k
  BY <1>8, Sizes, ConstAssumption, DivFacts
<1>10. k # 0 /\ LeafSize = k * WordSize
  BY <1>9, Sizes
<1>11. ASSUME NEW d \in c..end PROVE d \div LeafSize = c \div LeafSize
  <2>1. d \in Nat /\ d = WordSize * q + (d - WordSize * q) /\ d - WordSize * q \in 0..(WordSize - 1)
    BY <1>1, <1>3, <1>4, <1>5, <1>7, Sizes
  <2>2. d \div WordSize = q
    BY <2>1, Sizes, DivUnique
  <2>3. k \in Nat \ {0}
    BY <1>10
  <2>4. DivTwice(d, WordSize, k, LeafSize) /\ DivTwice(c, WordSize, k, LeafSize)
    BY <1>1, <1>10, <2>1, <2>3, Sizes, DivDiv, Zenon
  <2> QED
    BY <1>2, <2>2, <2>4, Zenon DEF DivTwice
<1> QED
  BY <1>1, <1>5, <1>6, <1>7, <1>11

\* Hit names the chunks with a byte of the span, all of them in the map; the
\* last one is found by counting from the first.
LEMMA HitChunks ==
    ASSUME NEW s \in Spans,
           NEW lo, lo = s[1] \div ChunkSize,
           NEW hi, hi = lo + Cardinality(Hit(s[1], s[2])) - 1
    PROVE  /\ lo \in Chunk /\ hi \in Chunk /\ lo <= hi
           /\ Hit(s[1], s[2]) = lo..hi
           /\ \A c \in Chunk : Touched(c, s[1], s[2]) <=> c \in lo..hi
<1>1. PICK a \in Nat : a = s[1]
  BY ConstAssumption
<1>2. PICK z \in Nat \ {0} : z = s[2]
  BY ConstAssumption
<1>3. PICK k \in Nat \ {0} : k = ChunkSize
  BY Sizes
<1>4. PICK w \in Nat \ {0} : w = Fan * Fan * LeafSize
  BY Sizes
<1>5. a + z <= w * k
  <2>1. s[1] + s[2] <= Fan * Fan * LeafSize * ChunkSize
    BY ConstAssumption, Zenon
  <2> QED
    BY <1>1, <1>2, <1>3, <1>4, <2>1, Zenon
<1>6. lo \in Nat /\ lo = a \div k
  BY <1>1, <1>3, DivFacts, Zenon
<1>7. PICK e \in Nat : e = (a + z - 1) \div k
  <2>1. a + z - 1 \in Nat
    OBVIOUS
  <2> QED
    BY <2>1, DivFacts, Zenon
<1>8. lo <= e
  <2>1. a + z - 1 \in Nat /\ a <= a + z - 1
    OBVIOUS
  <2> QED
    BY <1>6, <1>7, <2>1, DivMonotone
<1>9. Hit(s[1], s[2]) = lo..e
  BY <1>1, <1>2, <1>3, <1>6, <1>7 DEF Hit
<1>10. Cardinality(lo..e) = e - lo + 1
  BY <1>6, <1>7, <1>8, FS_Interval
<1>11. hi = e
  BY <1>6, <1>7, <1>9, <1>10
<1>12. a + z - 1 >= k * e /\ k * e \in Nat
  BY <1>7, DivFacts
<1>13. e < w
  <2> SUFFICES ASSUME w <= e PROVE FALSE
    BY <1>4, <1>7
  <2>1. k * w <= k * e /\ k * w = w * k /\ w * k \in Nat
    OBVIOUS
  <2> QED
    BY <1>5, <1>12, <2>1
<1>14. lo \in Chunk /\ e \in Chunk
  BY <1>4, <1>6, <1>7, <1>8, <1>13 DEF Chunk
<1>15. ASSUME NEW c \in Chunk, Touched(c, a, z) PROVE c \in lo..e
  <2>1. PICK b \in a..(a + z - 1) : b \div k = c
    BY <1>3, <1>15, Zenon DEF Touched
  <2>2. b \in Nat /\ a <= b /\ b <= a + z - 1 /\ a + z - 1 \in Nat
    OBVIOUS
  <2>3. a \div k <= b \div k /\ b \div k <= (a + z - 1) \div k
    BY <2>2, DivMonotone
  <2>4. c \in Nat
    BY <2>1, <2>2, DivFacts, Zenon
  <2> QED
    BY <1>6, <1>7, <2>1, <2>3, <2>4
<1>16. ASSUME NEW c \in Chunk, c \in lo..e PROVE Touched(c, a, z)
  <2>1. c \in Nat
    BY Sizes DEF Chunk
  <2>2. CASE c = lo
    <3>1. a \in a..(a + z - 1) /\ a \div k = c
      BY <1>6, <2>2
    <3> QED
      BY <1>3, <3>1, Zenon DEF Touched
  <2>3. CASE c # lo
    <3>1. PICK b \in Nat : b = k * c
      BY <2>1
    <3>2. b <= k * e
      BY <1>7, <1>16, <2>1, <3>1
    <3>3. k * (lo + 1) <= b /\ k * (lo + 1) = k * lo + k /\ k * lo \in Nat
      BY <1>6, <1>16, <2>1, <2>3, <3>1
    <3>4. a = k * lo + (a % k) /\ a % k \in 0..(k - 1)
      BY <1>6, DivFacts, Zenon
    <3>5. a <= b
      BY <3>3, <3>4
    <3>6. b \in a..(a + z - 1)
      BY <1>12, <3>2, <3>5
    <3>7. b = k * c + 0 /\ 0 \in 0..(k - 1)
      BY <3>1, <2>1
    <3>8. b \div k = c
      BY <2>1, <3>7, DivUnique, Zenon
    <3> QED
      BY <1>3, <3>6, <3>8, Zenon DEF Touched
  <2> QED
    BY <2>2, <2>3
<1>17. hi \in Chunk /\ lo <= hi /\ Hit(s[1], s[2]) = lo..hi
  BY <1>8, <1>9, <1>11, <1>14
<1>18. ASSUME NEW c \in Chunk PROVE Touched(c, s[1], s[2]) <=> c \in lo..hi
  BY <1>1, <1>2, <1>11, <1>15, <1>16, Zenon
<1> QED
  BY <1>14, <1>17, <1>18, Zenon
-----------------------------------------------------------------------------
(* What a step of one thread leaves alone.                                 *)

\* The records of call tell the operations apart.
LEMMA Records ==
    ASSUME IInv, NEW t \in Thread
    PROVE  /\ call[t].op \in {"idle", "set", "get", "got"}
           /\ call[t].op = "idle" => call[t] = Idle
           /\ call[t].op = "set" => call[t] \in SetRec
           /\ call[t].op = "get" => call[t] \in GetRec
           /\ call[t].op = "got" => call[t] \in GotRec
<1>1. call[t] \in {Idle} \cup SetRec \cup GetRec \cup GotRec
  BY DEF IInv
<1>2. CASE call[t] = Idle
  BY <1>2 DEF Idle
<1>3. CASE call[t] \in SetRec
  BY <1>3 DEF SetRec
<1>4. CASE call[t] \in GetRec
  BY <1>4 DEF GetRec
<1>5. CASE call[t] \in GotRec
  BY <1>5 DEF GotRec
<1> QED
  BY <1>1, <1>2, <1>3, <1>4, <1>5, Zenon

\* A step that gives t the record r keeps the invariant if it keeps the tree,
\* the pages in hand, the pages on any way and the calls' claims; `want` stays.
LEMMA StepInv ==
    ASSUME IInv, NEW t \in Thread, NEW r \in {Idle} \cup SetRec \cup GetRec \cup GotRec,
           Step(t, r), UNCHANGED want,
           r.op = "set" => call[t].op = "set" /\ r.lo = call[t].lo /\ r.hi = call[t].hi,
           \A c \in Chunk : Middle(c) # Null =>
               Middle(c)' = Middle(c) /\ (Leaf(c) # Null => Leaf(c)' = Leaf(c)),
           mapped' \subseteq Page, entry' \in [Spot -> [Index -> Page \cup {Null}]],
           bits' \in [Page -> SUBSET (0..(LeafSize - 1))],
           Tree', Hands', CallInv(t)',
           \A c \in Chunk : (\A u \in Thread : c \notin Left(u)') => (Lookup(c)' <=> want[c])
    PROVE  IInv'
<1>1. /\ call'[t] = r /\ \A u \in Thread \ {t} : call'[u] = call[u]
      /\ call' \in [Thread -> {Idle} \cup SetRec \cup GetRec \cup GotRec]
  BY DEF Step, IInv
<1>2. ASSUME NEW u \in Thread PROVE Changing(u)' \subseteq Changing(u)
  <2>1. CASE u = t
    BY <1>1, <2>1 DEF Changing
  <2>2. CASE u # t
    BY <1>1, <2>2 DEF Changing
  <2> QED
    BY <2>1, <2>2
<1>3. ASSUME NEW u \in Thread, NEW v \in Thread, u # v
      PROVE  Changing(u)' \cap Changing(v)' = {}
  <2>1. Changing(u) \cap Changing(v) = {}
    BY <1>3 DEF IInv
  <2> QED
    BY <1>2, <2>1
<1>4. TypeOK'
  <2>1. ASSUME NEW u \in Thread, call'[u] # Idle PROVE call'[u].chunk \in Chunk
    BY <1>1, <2>1, Zenon DEF SetRec, GetRec, GotRec
  <2> QED
    BY <2>1, Zenon DEF TypeOK, IInv, Spot
<1>5. ASSUME NEW u \in Thread \ {t} PROVE CallInv(u)'
  <2>1. PICK q : q = call[u]
    OBVIOUS
  <2>2. call'[u] = q /\ CallInv(u)
    BY <1>1, <2>1, Zenon DEF IInv
  <2>3. q.op \in {"set", "get"} => OnPath(q)'
    <3> SUFFICES ASSUME q.op \in {"set", "get"} PROVE OnPath(q)'
      BY Zenon
    <3>1. OnPath(q) /\ q.chunk \in Chunk /\ q.at \in Spot
      BY <2>1, <2>2, Records, Zenon DEF CallInv, SetRec, GetRec
    <3>2. PICK c \in Chunk : c = q.chunk
      BY <3>1, Zenon
    <3>3. Middle(c) # Null => Middle(c)' = Middle(c) /\ (Leaf(c) # Null => Leaf(c)' = Leaf(c))
      OBVIOUS
    <3>4. q.at # Null
      BY <3>1, ConstAssumption, Zenon DEF Spot
    <3>5. CASE q.level = 1
      BY <3>1, <3>5 DEF OnPath
    <3>6. CASE q.level = 2
      BY <3>1, <3>2, <3>3, <3>4, <3>6, Zenon DEF OnPath
    <3>7. CASE q.level = 3
      BY <3>1, <3>2, <3>3, <3>4, <3>7, Zenon DEF OnPath
    <3> QED
      BY <3>1, <3>5, <3>6, <3>7, Zenon DEF OnPath
  <2>4. Left(u)' = Left(u)
    BY <2>1, <2>2, Zenon DEF Left
  <2>5. q.op = "set" =>
           /\ q.lo <= q.chunk /\ q.chunk <= q.hi /\ (q.pc = "cas" <=> q.new # Null)
           /\ \A c \in Left(u)' : want'[c] = q.val
    BY <2>1, <2>2, <2>4, SMTT(30) DEF CallInv
  <2>6. q.op \in {"get", "got"} /\ q.calm =>
           /\ \A v \in Thread : q.chunk \notin Changing(v)'
           /\ q.op = "got" => q.res = want'[q.chunk]
    BY <1>2, <2>1, <2>2, Zenon DEF CallInv
  <2> QED
    BY <2>2, <2>3, <2>5, <2>6, Zenon DEF CallInv
<1>6. \A u \in Thread : CallInv(u)'
  BY <1>5, Zenon
<1> QED
  BY <1>1, <1>3, <1>4, <1>6 DEF IInv

\* A step that only moves t on, within the call it is in or between calls that
\* change nothing.
LEMMA QuietStep ==
    ASSUME IInv, NEW t \in Thread, NEW r \in {Idle} \cup SetRec \cup GetRec \cup GotRec,
           Step(t, r), UNCHANGED <<mapped, entry, bits, want>>,
           r.op = "set" <=> call[t].op = "set",
           r.op = "set" => /\ r.lo = call[t].lo /\ r.hi = call[t].hi
                           /\ r.chunk = call[t].chunk /\ r.new = call[t].new,
           CallInv(t)'
    PROVE  IInv'
<1>1. call'[t] = r /\ \A u \in Thread \ {t} : call'[u] = call[u]
  BY DEF Step, IInv
<1>2. ASSUME NEW u \in Thread PROVE Left(u)' = Left(u) /\ Unpublished(u)' = Unpublished(u)
  <2>1. CASE u = t
    BY <1>1, <2>1 DEF Left, Unpublished
  <2>2. CASE u # t
    BY <1>1, <2>2 DEF Left, Unpublished
  <2> QED
    BY <2>1, <2>2
<1>3. \A c \in Chunk : Middle(c)' = Middle(c) /\ Leaf(c)' = Leaf(c) /\ Lookup(c)' = Lookup(c)
  BY Zenon DEF Middle, Leaf, Lookup
<1>4. Tree'
  BY DEF IInv, Tree
<1>5. Hands'
  <2>1. Hands
    BY DEF IInv
  <2> QED
    BY <1>2, <2>1 DEF Hands
<1>6. \A c \in Chunk : (\A u \in Thread : c \notin Left(u)') => (Lookup(c)' <=> want[c])
  BY <1>2, <1>3 DEF IInv
<1>7. mapped' \subseteq Page /\ entry' \in [Spot -> [Index -> Page \cup {Null}]]
      /\ bits' \in [Page -> SUBSET (0..(LeafSize - 1))]
  BY Zenon DEF IInv, TypeOK, Spot
<1> QED
  BY <1>3, <1>4, <1>5, <1>6, <1>7, StepInv

\* One level down a call is still on its way.
LEMMA Deeper ==
    ASSUME IInv, NEW t \in Thread, call[t].op \in {"set", "get"}, call[t].pc # "word",
           NEW c \in Chunk, c = call[t].chunk, NEW p \in Page, NEW r, r.chunk = c,
           r.at = p, r.level = call[t].level + 1,
           r.pc = IF call[t].level = 2 THEN "word" ELSE "load",
           entry'[call[t].at][Split(c)[call[t].level]] = p,
           call[t].level = 2 => Middle(c)' = call[t].at
    PROVE  OnPath(r)' /\ r.level \in 1..3 /\ r.pc \in {"load", "word"}
<1>1. OnPath(call[t]) /\ call[t].at \in Spot
  BY Records, Zenon DEF IInv, CallInv, SetRec, GetRec
<1>2. call[t].at # Null
  BY <1>1, ConstAssumption, Zenon DEF Spot
<1>3. CASE call[t].level = 1
  <2>1. call[t].at = Root
    BY <1>1, <1>3 DEF OnPath
  <2>2. r.level = 2 /\ r.pc = "load"
    BY <1>3
  <2>3. p = Middle(r.chunk)'
    BY <1>3, <2>1, Zenon DEF Middle
  <2> QED
    BY <2>2, <2>3, SMTT(30) DEF OnPath
<1>4. CASE call[t].level = 2
  <2>1. r.level = 3 /\ r.pc = "word"
    BY <1>4
  <2>2. Middle(r.chunk)' = call[t].at
    BY <1>4, Zenon
  <2>3. p = Leaf(r.chunk)'
    BY <1>4, <2>2, Zenon DEF Leaf, Middle
  <2> QED
    BY <1>2, <2>1, <2>2, <2>3 DEF OnPath
<1> QED
  BY <1>1, <1>3, <1>4, Zenon DEF OnPath
-----------------------------------------------------------------------------
(* The steps that change no page.                                          *)

\* is_owned is called; is_owned returns.
LEMMA GetCallInv ==
    ASSUME IInv, NEW t \in Thread, NEW c \in Chunk, GetCall(t, c)
    PROVE  IInv'
<1>1. PICK b \in BOOLEAN : b = \A u \in Thread : c \notin Changing(u)
  BY Zenon
<1>2. PICK r : r = [op |-> "get", pc |-> "load", at |-> Root, level |-> 1, chunk |-> c, calm |-> b]
  BY Zenon
<1>3. r \in GetRec
  BY <1>2 DEF GetRec, Spot
<1>4. Step(t, r) /\ UNCHANGED <<mapped, entry, bits, want>> /\ call[t].op = "idle"
  BY <1>1, <1>2 DEF GetCall, Idle
<1>5. call'[t] = r /\ r.op = "get" /\ \A u \in Thread \ {t} : call'[u] = call[u]
  BY <1>2, <1>4 DEF Step, IInv
<1>6. ASSUME NEW u \in Thread PROVE Changing(u)' = Changing(u)
  <2>1. CASE u = t
    BY <1>4, <1>5, <2>1 DEF Changing
  <2>2. CASE u # t
    BY <1>5, <2>2 DEF Changing
  <2> QED
    BY <2>1, <2>2
<1>7. OnPath(r)'
  BY <1>2 DEF OnPath
<1>8. r.calm => \A u \in Thread : r.chunk \notin Changing(u)'
  BY <1>1, <1>2, <1>6, Zenon
<1>9. CallInv(t)'
  BY <1>5, <1>7, <1>8, Zenon DEF CallInv
<1> QED
  BY <1>3, <1>4, <1>5, <1>9, QuietStep

\* get hands its answer back: the record of the call is dropped.
LEMMA GetReturnInv ==
    ASSUME IInv, NEW t \in Thread, GetReturn(t)
    PROVE  IInv'
<1>1. PICK r : r = Idle
  OBVIOUS
<1>2. r.op = "idle" /\ r \in {Idle} /\ call'[t] = r /\ Step(t, r) /\ call[t].op = "got"
  BY <1>1 DEF GetReturn, Step, IInv, Idle
<1>3. CallInv(t)'
  BY <1>2, Zenon DEF CallInv
<1> QED
  BY <1>2, <1>3, QuietStep DEF GetReturn

\* What a lookup answers is right if nobody changes its chunk.
LEMMA AnswerInv ==
    ASSUME IInv, NEW t \in Thread, call[t].op = "get", NEW b \in BOOLEAN,
           b = Lookup(call[t].chunk),
           Step(t, Answer(t, b)), UNCHANGED <<mapped, entry, bits, want>>
    PROVE  IInv'
<1>1. PICK r : r = Answer(t, b)
  OBVIOUS
<1>2. call[t] \in GetRec
  BY Records, Zenon
<1>3. r \in GotRec /\ r.op = "got" /\ r.chunk = call[t].chunk /\ r.calm = call[t].calm /\ r.res = b
  BY <1>1, <1>2 DEF Answer, GotRec, GetRec
<1>4. call'[t] = r /\ \A u \in Thread \ {t} : call'[u] = call[u]
  BY <1>1 DEF Step, IInv
<1>5. ASSUME NEW u \in Thread PROVE Changing(u)' = Changing(u)
  <2>1. CASE u = t
    BY <1>3, <1>4, <2>1 DEF Changing
  <2>2. CASE u # t
    BY <1>4, <2>2, ZenonT(30) DEF Changing
  <2> QED
    BY <2>1, <2>2
<1>6. call[t].calm => \A u \in Thread : call[t].chunk \notin Changing(u)
  BY DEF IInv, CallInv
<1>7. call[t].calm => b = want[call[t].chunk]
  <2> SUFFICES ASSUME call[t].calm PROVE b = want[call[t].chunk]
    OBVIOUS
  <2>1. PICK c \in Chunk : c = call[t].chunk
    BY <1>2 DEF GetRec
  <2>2. ASSUME NEW u \in Thread PROVE c \notin Left(u)
    <3>1. CASE call[u].op = "set"
      <4>1. call[u].lo \in Nat /\ call[u].chunk \in Nat /\ call[u].hi \in Nat /\ call[u].lo <= call[u].chunk
        BY <3>1, Records, Sizes, SMTT(30) DEF IInv, CallInv, SetRec, Chunk
      <4>2. c \notin call[u].lo..call[u].hi
        BY <1>6, <2>1, <3>1, ZenonT(30) DEF Changing
      <4> QED
        BY <3>1, <4>1, <4>2, SMTT(30) DEF Left
    <3>2. CASE call[u].op # "set"
      BY <3>2, Zenon DEF Left
    <3> QED
      BY <3>1, <3>2, Zenon
  <2>3. Lookup(c) <=> want[c]
    BY <2>2 DEF IInv
  <2>4. want[c] \in BOOLEAN
    BY Zenon DEF IInv, TypeOK
  <2> QED
    BY <2>1, <2>3, <2>4
<1>8. CallInv(t)'
  BY <1>3, <1>4, <1>5, <1>6, <1>7, Zenon DEF CallInv
<1> QED
  BY <1>1, <1>3, <1>8, QuietStep, Zenon

\* get_or_alloc and is_owned load the entry of the next level.
LEMMA LoadInv ==
    ASSUME IInv, NEW t \in Thread, Load(t)
    PROVE  IInv'
<1>1. /\ call[t].op \in {"set", "get"} /\ call[t].pc = "load"
      /\ OnPath(call[t]) /\ call[t].at \in Spot /\ call[t].at # Null /\ call[t].level \in 1..2
      /\ UNCHANGED <<mapped, entry, bits, want>>
  BY Records, ConstAssumption DEF Load, IInv, CallInv, OnPath, SetRec, GetRec, Spot
<1>2. PICK c \in Chunk : c = call[t].chunk
  BY <1>1, Records, Zenon DEF SetRec, GetRec
<1>3. PICK p \in Page \cup {Null} : p = Here(t)
  <2>1. Split(c)[1] \in Index /\ Split(c)[2] \in Index
    BY SplitIndices, Zenon
  <2> QED
    BY <1>1, <1>2, <2>1 DEF Here, IInv, TypeOK, Spot
<1>4. ASSUME p # Null PROVE IInv'
  <2>1. PICK r : r = Descend(t, p)
    OBVIOUS
  <2>2. Step(t, r)
    BY <1>3, <1>4, <2>1 DEF Load
  <2>3. /\ r.chunk = c /\ r.at = p /\ r.level = call[t].level + 1
        /\ r.pc = IF call[t].level = 2 THEN "word" ELSE "load"
    BY <1>1, <1>2, <2>1, Records, Zenon DEF Descend, SetRec, GetRec
  <2>4. call[t].level = 2 => Middle(c)' = call[t].at
    BY <1>1, <1>2, SMTT(30) DEF OnPath, Middle
  <2>5. entry'[call[t].at][Split(c)[call[t].level]] = p
    BY <1>1, <1>2, <1>3, SMTT(30) DEF Here
  <2>6. OnPath(r)' /\ r.level \in 1..3 /\ r.pc \in {"load", "word"}
    BY <1>1, <1>2, <1>3, <1>4, <2>3, <2>4, <2>5, Deeper, ZenonT(30)
  <2>7. call'[t] = r /\ \A u \in Thread \ {t} : call'[u] = call[u]
    BY <2>2, Zenon DEF Step, IInv
  <2>8. CASE call[t].op = "set"
    <3>1. call[t] \in SetRec /\ call[t].new = Null
      BY <1>1, <2>8, Records, Zenon DEF IInv, CallInv
    <3>2. /\ r \in SetRec /\ r.op = "set" /\ r.new = Null
          /\ r.lo = call[t].lo /\ r.hi = call[t].hi /\ r.val = call[t].val
      BY <1>3, <1>4, <2>1, <2>6, <3>1, ZenonT(30) DEF Descend, SetRec, Spot
    <3>3. Left(t)' = Left(t)
      BY <1>2, <2>3, <2>7, <2>8, <3>2, Zenon DEF Left
    <3>4. /\ call[t].lo <= c /\ c <= call[t].hi /\ \A d \in Left(t) : want[d] = call[t].val
      BY <1>2, <2>8, Zenon DEF IInv, CallInv
    <3>5. CallInv(t)'
      BY <1>1, <2>3, <2>6, <2>7, <3>2, <3>3, <3>4, ZenonT(30) DEF CallInv
    <3> QED
      BY <1>1, <1>2, <2>2, <2>3, <2>8, <3>1, <3>2, <3>5, QuietStep, ZenonT(30)
  <2>9. CASE call[t].op = "get"
    <3>1. call[t] \in GetRec
      BY <2>9, Records
    <3>2. r \in GetRec /\ r.op = "get" /\ r.calm = call[t].calm
      BY <1>3, <1>4, <2>1, <2>6, <3>1, ZenonT(30) DEF Descend, GetRec, Spot
    <3>3. ASSUME NEW u \in Thread PROVE Changing(u)' = Changing(u)
      <4>1. CASE u = t
        BY <2>7, <2>9, <3>2, <4>1, Zenon DEF Changing
      <4>2. CASE u # t
        BY <2>7, <4>2, Zenon DEF Changing
      <4> QED
        BY <4>1, <4>2
    <3>4. call[t].calm => \A u \in Thread : c \notin Changing(u)
      BY <1>2, <2>9, Zenon DEF IInv, CallInv
    <3>5. CallInv(t)'
      BY <2>3, <2>6, <2>7, <3>2, <3>3, <3>4, Zenon DEF CallInv
    <3> QED
      BY <1>1, <2>2, <2>9, <3>2, <3>5, QuietStep, ZenonT(30)
  <2> QED
    BY <1>1, <2>8, <2>9
<1>5. ASSUME p = Null, call[t].op = "set" PROVE IInv'
  <2>1. PICK r : r = [call[t] EXCEPT !.pc = "map"]
    BY ZenonT(30)
  <2>2. Step(t, r)
    BY <1>3, <1>5, <2>1 DEF Load
  <2>3. call[t] \in SetRec /\ call[t].new = Null
    BY <1>1, <1>5, Records, Zenon DEF IInv, CallInv
  <2>4. /\ r \in SetRec /\ r.op = "set" /\ r.new = Null /\ r.pc = "map" /\ r.level = call[t].level
        /\ r.at = call[t].at /\ r.chunk = c
        /\ r.lo = call[t].lo /\ r.hi = call[t].hi /\ r.val = call[t].val
    BY <1>2, <2>1, <2>3, SMTT(30) DEF SetRec
  <2>5. OnPath(r)'
    BY <1>1, <1>2, <2>4, Zenon DEF OnPath, Middle
  <2>6. call'[t] = r
    BY <2>2, Zenon DEF Step, IInv
  <2>7. Left(t)' = Left(t)
    BY <1>2, <1>5, <2>4, <2>6, Zenon DEF Left
  <2>8. call[t].lo <= c /\ c <= call[t].hi /\ \A d \in Left(t) : want[d] = call[t].val
    BY <1>2, <1>5, ZenonT(30) DEF IInv, CallInv
  <2>9. CallInv(t)'
    BY <1>1, <2>4, <2>5, <2>6, <2>7, <2>8, SMTT(30) DEF CallInv
  <2> QED
    BY <1>1, <1>2, <1>5, <2>2, <2>3, <2>4, <2>9, QuietStep, Zenon
<1>6. ASSUME p = Null, call[t].op = "get" PROVE IInv'
  <2>1. Step(t, Answer(t, FALSE))
    BY <1>3, <1>6, Zenon DEF Load
  <2>2. Middle(c) = Null \/ Leaf(c) = Null
    BY <1>1, <1>2, <1>3, <1>6, ZenonT(30) DEF OnPath, Here, Leaf, Middle
  <2>3. ~Lookup(c)
    BY <2>2, SMTT(30) DEF Lookup, Leaf, Middle
  <2>4. FALSE = Lookup(call[t].chunk)
    BY <1>2, <2>3, ZenonT(30) DEF Lookup
  <2> QED
    BY <1>1, <1>6, <2>1, <2>4, AnswerInv, Zenon
<1> QED
  BY <1>1, <1>3, <1>4, <1>5, <1>6, Zenon

\* is_owned tests the bit.
LEMMA GetWordInv ==
    ASSUME IInv, NEW t \in Thread, GetWord(t)
    PROVE  IInv'
<1>1. call[t].op = "get" /\ call[t].pc = "word" /\ call[t] \in GetRec /\ OnPath(call[t])
  BY Records, Zenon DEF GetWord, IInv, CallInv
<1>2. PICK c \in Chunk : c = call[t].chunk
  BY <1>1, Zenon DEF GetRec
<1>3. /\ call[t].at # Null /\ call[t].at = Leaf(c) /\ Middle(c) # Null
  BY <1>1, <1>2, ConstAssumption, SMTT(30) DEF OnPath, GetRec, Spot
<1>4. (Split(c)[3] \in bits[call[t].at]) = TRUE \/ (Split(c)[3] \in bits[call[t].at]) = FALSE
  OBVIOUS
<1>5. PICK b \in BOOLEAN : b = (Split(c)[3] \in bits[call[t].at])
  BY <1>4, Zenon
<1>6. b = Lookup(call[t].chunk)
  BY <1>2, <1>3, <1>5, Zenon DEF Lookup, Leaf, Middle
<1>7. Step(t, Answer(t, b)) /\ UNCHANGED <<mapped, entry, bits, want>>
  BY <1>2, <1>5, Zenon DEF GetWord
<1> QED
  BY <1>1, <1>6, <1>7, AnswerInv, ZenonT(30)

-----------------------------------------------------------------------------
(* The steps that change pages.                                            *)

\* A set_range that moves on with the chunk it is at keeps its claims.
LEMMA SetGoesOn ==
    ASSUME IInv, NEW t \in Thread, call[t].op = "set", NEW r \in SetRec,
           Step(t, r), UNCHANGED want,
           r.lo = call[t].lo, r.hi = call[t].hi, r.val = call[t].val, r.chunk = call[t].chunk,
           r.pc = "cas" <=> r.new # Null, OnPath(r)'
    PROVE  /\ call'[t] = r /\ \A u \in Thread \ {t} : call'[u] = call[u]
           /\ CallInv(t)' /\ \A u \in Thread : Left(u)' = Left(u)
<1>1. call'[t] = r /\ (\A u \in Thread \ {t} : call'[u] = call[u]) /\ r.op = "set"
  BY Zenon DEF Step, IInv, SetRec
<1>2. ASSUME NEW u \in Thread PROVE Left(u)' = Left(u)
  <2>1. CASE u = t
    BY <1>1, <2>1, Zenon DEF Left
  <2>2. CASE u # t
    BY <1>1, <2>2, SMTT(30) DEF Left
  <2> QED
    BY <2>1, <2>2, Zenon
<1>3. /\ call[t].lo <= call[t].chunk /\ call[t].chunk <= call[t].hi
      /\ \A d \in Left(t) : want[d] = call[t].val
  BY ZenonT(30) DEF IInv, CallInv
<1>4. CallInv(t)'
  BY <1>1, <1>2, <1>3 DEF CallInv
<1> QED
  BY <1>1, <1>2, <1>4, Zenon

\* Pages that no entry of the root points to are empty.
LEMMA EmptyPage ==
    ASSUME IInv, NEW p \in Page, \A j \in Index : entry[Root][j] # p
    PROVE  entry[p] = [i \in Index |-> Null]
<1>1. \A i \in Index : entry[p][i] = Null
  BY DEF IInv, Tree
<1>2. entry[p] \in [Index -> Page \cup {Null}]
  BY Zenon DEF IInv, TypeOK
<1> QED
  BY <1>1, <1>2, ZenonT(30)

\* The pages on a way are mapped.
LEMMA WayMapped ==
    ASSUME IInv, NEW c \in Chunk
    PROVE  /\ Middle(c) \in mapped \cup {Null} /\ mapped \subseteq Page
           /\ Middle(c) # Null => Leaf(c) \in mapped \cup {Null}
<1>1. Split(c)[1] \in Index /\ Split(c)[2] \in Index
  BY SplitIndices, Zenon
<1>2. Middle(c) \in mapped \cup {Null} /\ mapped \subseteq Page
  BY <1>1, SMTT(30) DEF Middle, IInv, Tree, TypeOK, Spot
<1> QED
  BY <1>1, <1>2, Zenon DEF Leaf, IInv, Tree, Spot

\* A page is mapped for the missing one.
LEMMA MapInv ==
    ASSUME IInv, NEW t \in Thread, NEW p \in Page, Map(t, p)
    PROVE  IInv'
<1>1. /\ call[t].op = "set" /\ call[t].pc = "map" /\ call[t] \in SetRec /\ p \notin mapped
      /\ call[t].new = Null /\ OnPath(call[t])
  BY Records DEF Map, IInv, CallInv
<1>2. PICK r : r = [call[t] EXCEPT !.pc = "cas", !.new = p]
  OBVIOUS
<1>3. /\ r \in SetRec /\ r.op = "set" /\ r.pc = "cas" /\ r.new = p /\ r.level = call[t].level
      /\ r.at = call[t].at /\ r.chunk = call[t].chunk
      /\ r.lo = call[t].lo /\ r.hi = call[t].hi /\ r.val = call[t].val
  BY <1>1, <1>2, ZenonT(30) DEF SetRec
<1>4. Step(t, r) /\ UNCHANGED want /\ mapped' = mapped \cup {p} /\ bits' = [bits EXCEPT ![p] = {}]
  BY <1>2, Zenon DEF Map
<1>5. /\ entry \in [Spot -> [Index -> Page \cup {Null}]] /\ mapped \subseteq Page
      /\ bits \in [Page -> SUBSET (0..(LeafSize - 1))]
      /\ Tree /\ Hands /\ p # Null /\ p \in Spot
  BY ConstAssumption, ZenonT(30) DEF IInv, TypeOK, Spot
<1>6. ASSUME NEW x \in Spot, NEW i \in Index PROVE entry[x][i] # p
  BY <1>1, <1>5 DEF Tree
<1>7. entry' = entry
  <2>1. entry[p] = [i \in Index |-> Null]
    BY <1>6, EmptyPage DEF Spot
  <2>2. entry' = [entry EXCEPT ![p] = entry[p]]
    BY <2>1, ZenonT(30) DEF Map
  <2> QED
    BY <1>5, <2>2, Zenon
<1>8. OnPath(r)'
  BY <1>1, <1>3, <1>7, SMTT(30) DEF OnPath, Middle
<1>9. /\ call'[t] = r /\ \A u \in Thread \ {t} : call'[u] = call[u]
      /\ CallInv(t)' /\ \A u \in Thread : Left(u)' = Left(u)
  BY <1>1, <1>3, <1>4, <1>5, <1>8, SetGoesOn, ZenonT(30)
<1>10. Tree'
  BY <1>4, <1>5, <1>7, SMTT(30) DEF Tree
<1>11. Unpublished(t)' = p /\ Unpublished(t) = Null /\ \A u \in Thread \ {t} : Unpublished(u)' = Unpublished(u)
  BY <1>1, <1>3, <1>9, ZenonT(30) DEF Unpublished
<1>12. bits'[p] = {} /\ \A q \in Page \ {p} : bits'[q] = bits[q]
  BY <1>4, <1>5, SMTT(30)
<1>13. Hands'
  <2>1. ASSUME NEW u \in Thread, Unpublished(u)' # Null
        PROVE  /\ Unpublished(u)' \in mapped' /\ bits'[Unpublished(u)'] = {}
               /\ \A x \in Spot, i \in Index : entry'[x][i] # Unpublished(u)'
    <3>1. CASE u = t
      BY <1>4, <1>6, <1>7, <1>11, <1>12, <3>1, Zenon
    <3>2. CASE u # t
      <4>1. PICK q : q = Unpublished(u)
        BY Zenon
      <4>2. q \in mapped /\ bits[q] = {} /\ \A x \in Spot, i \in Index : entry[x][i] # q
        BY <1>5, <1>11, <2>1, <3>2, <4>1 DEF Hands
      <4> QED
        BY <1>1, <1>4, <1>5, <1>7, <1>11, <1>12, <3>2, <4>1, <4>2, SMTT(30)
    <3> QED
      BY <3>1, <3>2, Zenon
  <2>2. ASSUME NEW u \in Thread, NEW v \in Thread, Unpublished(u)' = Unpublished(v)', Unpublished(u)' # Null
        PROVE  u = v
    <3>1. \A w \in Thread : Unpublished(w) # p
      BY <1>1, <1>5 DEF Hands
    <3>2. CASE u # t /\ v # t
      BY <1>5, <1>11, <2>2, <3>2 DEF Hands
    <3>3. CASE u = t \/ v = t
      BY <1>11, <2>2, <3>1, <3>3, Zenon
    <3> QED
      BY <3>2, <3>3, Zenon
  <2>3. ASSUME NEW q \in mapped'
        PROVE  \/ \E x \in Spot, i \in Index : entry'[x][i] = q
               \/ \E u \in Thread : Unpublished(u)' = q
    <3>1. CASE q = p
      BY <1>11, <3>1, Zenon
    <3>2. CASE q # p
      <4>1. q \in mapped /\ q # Null
        BY <1>4, <1>5, <3>2, ConstAssumption, ZenonT(30)
      <4>2. \/ \E x \in Spot, i \in Index : entry[x][i] = q
            \/ \E u \in Thread : Unpublished(u) = q
        BY <1>5, <4>1, SMTT(30) DEF Hands
      <4> QED
        BY <1>7, <1>11, <4>1, <4>2, Zenon
    <3> QED
      BY <3>1, <3>2
  <2> QED
    BY <2>1, <2>2, <2>3, ZenonT(30) DEF Hands
<1>14. ASSUME NEW c \in Chunk
       PROVE  Middle(c)' = Middle(c) /\ Leaf(c)' = Leaf(c) /\ (Lookup(c)' <=> Lookup(c))
  <2>1. Middle(c)' = Middle(c) /\ Leaf(c)' = Leaf(c)
    BY <1>7, Zenon DEF Middle, Leaf
  <2>2. Middle(c) # Null /\ Leaf(c) # Null => Leaf(c) \in Page \ {p}
    BY <1>1, WayMapped, Zenon
  <2> QED
    BY <1>12, <2>1, <2>2, ZenonT(30) DEF Lookup, Middle, Leaf
<1>15. \A c \in Chunk : (\A u \in Thread : c \notin Left(u)') => (Lookup(c)' <=> want[c])
  BY <1>9, <1>14 DEF IInv
<1>16. mapped' \subseteq Page /\ entry' \in [Spot -> [Index -> Page \cup {Null}]]
       /\ bits' \in [Page -> SUBSET (0..(LeafSize - 1))]
  BY <1>4, <1>5, <1>7, SMTT(30)
<1> QED
  BY <1>1, <1>3, <1>4, <1>9, <1>10, <1>13, <1>14, <1>15, <1>16, StepInv, ZenonT(30)

\* What get_or_alloc knows before its compare-exchange.
LEMMA BeforeCas ==
    ASSUME IInv, NEW t \in Thread, call[t].op = "set", call[t].pc = "cas"
    PROVE  /\ call[t] \in SetRec /\ call[t].level \in 1..2 /\ OnPath(call[t])
           /\ call[t].new \in mapped /\ bits[call[t].new] = {}
           /\ \A x \in Spot, i \in Index : entry[x][i] # call[t].new
           /\ \A u \in Thread \ {t} : Unpublished(u) # call[t].new
           /\ Split(call[t].chunk)[call[t].level] \in Index
           /\ call[t].at \in Spot /\ call[t].at # Null /\ call[t].at # call[t].new
<1>1. call[t] \in SetRec /\ call[t].new # Null /\ OnPath(call[t]) /\ call[t].at \in Spot /\ call[t].at # Null
  BY Records, ConstAssumption, ZenonT(30) DEF IInv, CallInv, SetRec, Spot
<1>2. call[t].level \in 1..2
  BY <1>1 DEF OnPath
<1>3. Unpublished(t) = call[t].new
  BY ZenonT(30) DEF Unpublished
<1>4. /\ call[t].new \in mapped /\ bits[call[t].new] = {}
      /\ \A x \in Spot, i \in Index : entry[x][i] # call[t].new
  BY <1>1, <1>3, SMTT(30) DEF IInv, Hands
<1>5. \A u \in Thread \ {t} : Unpublished(u) # call[t].new
  BY <1>1, <1>3, ZenonT(30) DEF IInv, Hands
<1>6. PICK c \in Chunk : c = call[t].chunk
  BY <1>1 DEF SetRec
<1>7. Split(c)[1] \in Index /\ Split(c)[2] \in Index
  BY SplitIndices
<1>8. Split(c)[call[t].level] \in Index
  BY <1>2, <1>7
<1>9. call[t].at # call[t].new
  <2>1. CASE call[t].level = 1
    BY <1>1, <1>4, <2>1, ConstAssumption, SMTT(30) DEF OnPath, IInv, TypeOK
  <2>2. CASE call[t].level = 2
    BY <1>1, <1>4, <1>6, <1>7, <2>2, SMTT(30) DEF OnPath, Middle, Spot
  <2> QED
    BY <1>2, <2>1, <2>2, SMTT(30)
<1> QED
  BY <1>1, <1>2, <1>4, <1>5, <1>6, <1>8, <1>9, ZenonT(30)

\* The record after a compare-exchange that ends at page p.
Moved(t, p) == [Descend(t, p) EXCEPT !.new = Null]

\* After the step, the entry the set call t tried to fill holds page p, on the
\* path of chunk c.
Filled(t, c, p) ==
    /\ entry'[call[t].at][Split(c)[call[t].level]] = p
    /\ call[t].level = 2 => Middle(c)' = call[t].at

\* r is the set call t one level further, still on the path of its chunk.
WentOn(t, r) ==
    /\ r \in SetRec /\ r.op = "set" /\ r.pc # "cas" /\ r.new = Null /\ OnPath(r)'
    /\ r.lo = call[t].lo /\ r.hi = call[t].hi /\ r.val = call[t].val /\ r.chunk = call[t].chunk

\* Whoever wins the compare-exchange, the caller goes on one level deeper on its path.
LEMMA AfterCas ==
    ASSUME IInv, NEW t \in Thread, call[t].op = "set", call[t].pc = "cas",
           NEW p \in Page, NEW r, r = Moved(t, p),
           NEW c, c = call[t].chunk,
           Filled(t, c, p)
    PROVE  WentOn(t, r)
<1>1. call[t] \in SetRec /\ call[t].level \in 1..2
  BY BeforeCas, ZenonT(30)
<1>2. /\ r.op = "set" /\ r.at = p /\ r.level = call[t].level + 1 /\ r.new = Null
      /\ r.pc = IF call[t].level = 2 THEN "word" ELSE "load"
      /\ r.lo = call[t].lo /\ r.hi = call[t].hi /\ r.val = call[t].val /\ r.chunk = call[t].chunk
  BY <1>1, ZenonT(30) DEF Moved, Descend, SetRec
<1>3. c \in Chunk
  BY <1>1, SMTT(30) DEF SetRec
<1>4. OnPath(r)' /\ r.level \in 1..3 /\ r.pc \in {"load", "word"}
  BY <1>2, <1>3, Deeper, ZenonT(30) DEF Filled
<1>5. r \in SetRec
  BY <1>1, <1>2, <1>4, ZenonT(30) DEF Moved, Descend, SetRec, Spot
<1> QED
  BY <1>2, <1>4, <1>5, Zenon DEF WentOn

\* The loser of the race unmaps its page and goes on with the winner's.
LEMMA CasLostInv ==
    ASSUME IInv, NEW t \in Thread, call[t].op = "set", call[t].pc = "cas",
           Here(t) # Null, mapped' = mapped \ {call[t].new},
           Step(t, Moved(t, Here(t))), UNCHANGED <<entry, bits, want>>
    PROVE  IInv'
<1>1. PICK n : n = call[t].new
  BY Zenon
<1>2. /\ call[t] \in SetRec /\ call[t].level \in 1..2 /\ OnPath(call[t])
      /\ n \in mapped
      /\ \A x \in Spot, i \in Index : entry[x][i] # n
      /\ \A u \in Thread \ {t} : Unpublished(u) # n
      /\ Split(call[t].chunk)[call[t].level] \in Index
      /\ call[t].at \in Spot
  BY <1>1, BeforeCas, ZenonT(30)
<1>3. PICK c \in Chunk : c = call[t].chunk
  BY <1>2, Zenon DEF SetRec
<1>4. /\ entry \in [Spot -> [Index -> Page \cup {Null}]] /\ mapped \subseteq Page
      /\ bits \in [Page -> SUBSET (0..(LeafSize - 1))] /\ Tree /\ Hands
  BY SMTT(30) DEF IInv, TypeOK, Spot
<1>5. PICK p \in Page : p = Here(t)
  BY <1>2, <1>4, ZenonT(30) DEF Here
<1>6. PICK r : r = Moved(t, p)
  OBVIOUS
<1>7. entry'[call[t].at][Split(c)[call[t].level]] = p
  BY <1>3, <1>5, ZenonT(30) DEF Here
<1>8. call[t].level = 2 => Middle(c)' = call[t].at
  BY <1>2, <1>3, SMTT(30) DEF OnPath, Middle
<1>9. /\ r \in SetRec /\ r.op = "set" /\ r.pc # "cas" /\ r.new = Null /\ OnPath(r)'
      /\ r.lo = call[t].lo /\ r.hi = call[t].hi /\ r.val = call[t].val /\ r.chunk = call[t].chunk
  <2>1. Filled(t, c, p)
    BY <1>7, <1>8, Zenon DEF Filled
  <2>2. WentOn(t, r)
    BY <1>3, <1>6, <2>1, AfterCas, Zenon
  <2> QED
    BY <2>2, Zenon DEF WentOn
<1>10. Step(t, r)
  BY <1>5, <1>6, Zenon
<1>11. /\ call'[t] = r /\ \A u \in Thread \ {t} : call'[u] = call[u]
       /\ CallInv(t)' /\ \A u \in Thread : Left(u)' = Left(u)
  BY <1>9, <1>10, SetGoesOn, Zenon
<1>12. Unpublished(t)' = Null /\ Unpublished(t) = n /\ \A u \in Thread \ {t} : Unpublished(u)' = Unpublished(u)
  BY <1>1, <1>9, <1>11, Zenon DEF Unpublished
<1>13. Tree'
  BY <1>1, <1>2, <1>4, SMTT(30) DEF Tree
<1>14. Hands'
  <2>1. ASSUME NEW u \in Thread, Unpublished(u)' # Null
        PROVE  /\ Unpublished(u)' \in mapped' /\ bits'[Unpublished(u)'] = {}
               /\ \A x \in Spot, i \in Index : entry'[x][i] # Unpublished(u)'
    <3>1. u # t /\ Unpublished(u)' = Unpublished(u) /\ Unpublished(u) # n
      BY <1>2, <1>12, <2>1, Zenon
    <3>2. PICK q : q = Unpublished(u)
      BY Zenon
    <3>3. q \in mapped /\ bits[q] = {} /\ \A x \in Spot, i \in Index : entry[x][i] # q
      BY <1>4, <2>1, <3>1, <3>2, SMTT(30) DEF Hands
    <3> QED
      BY <1>1, <3>1, <3>2, <3>3, Zenon
  <2>2. ASSUME NEW u \in Thread, NEW v \in Thread, Unpublished(u)' = Unpublished(v)', Unpublished(u)' # Null
        PROVE  u = v
    <3>1. Unpublished(u) = Unpublished(v) /\ Unpublished(u) # Null
      BY <1>12, <2>2, Zenon
    <3> QED
      BY <1>4, <3>1, Zenon DEF Hands
  <2>3. ASSUME NEW q \in mapped'
        PROVE  \/ \E x \in Spot, i \in Index : entry'[x][i] = q
               \/ \E u \in Thread : Unpublished(u)' = q
    <3>1. q \in mapped /\ q # n
      BY <1>1, ZenonT(30)
    <3>2. \/ \E x \in Spot, i \in Index : entry[x][i] = q
          \/ \E u \in Thread : Unpublished(u) = q
      BY <1>4, <3>1, SMTT(30) DEF Hands
    <3> QED
      BY <1>12, <3>1, <3>2, Zenon
  <2> QED
    BY <2>1, <2>2, <2>3, Zenon DEF Hands
<1>15. \A d \in Chunk : Middle(d)' = Middle(d) /\ Leaf(d)' = Leaf(d) /\ Lookup(d)' = Lookup(d)
  BY ZenonT(30) DEF Middle, Leaf, Lookup
<1>16. \A d \in Chunk : (\A u \in Thread : d \notin Left(u)') => (Lookup(d)' <=> want[d])
  BY <1>11, <1>15, ZenonT(30) DEF IInv
<1>17. mapped' \subseteq Page /\ entry' \in [Spot -> [Index -> Page \cup {Null}]]
       /\ bits' \in [Page -> SUBSET (0..(LeafSize - 1))]
  BY <1>4, SMTT(30)
<1> QED
  BY <1>9, <1>10, <1>11, <1>13, <1>14, <1>15, <1>16, <1>17, StepInv, Zenon

\* The winner publishes its page, which is empty: no lookup changes.
LEMMA CasWonInv ==
    ASSUME IInv, NEW t \in Thread, call[t].op = "set", call[t].pc = "cas",
           Here(t) = Null, entry' = Published(t),
           Step(t, Moved(t, call[t].new)), UNCHANGED <<mapped, bits, want>>
    PROVE  IInv'
<1>1. PICK n : n = call[t].new
  BY Zenon
<1>2. PICK a : a = call[t].at
  BY SMTT(30)
<1>3. /\ call[t] \in SetRec /\ call[t].level \in 1..2 /\ OnPath(call[t])
      /\ n \in mapped /\ bits[n] = {}
      /\ \A x \in Spot, i \in Index : entry[x][i] # n
      /\ \A u \in Thread \ {t} : Unpublished(u) # n
      /\ Split(call[t].chunk)[call[t].level] \in Index
      /\ a \in Spot /\ a # Null /\ a # n
  BY <1>1, <1>2, BeforeCas, ZenonT(30)
<1>4. PICK c \in Chunk : c = call[t].chunk
  BY <1>3, ZenonT(30) DEF SetRec
<1>5. PICK k \in Index : k = Split(c)[call[t].level]
  BY <1>3, <1>4, ZenonT(30)
<1>6. /\ entry \in [Spot -> [Index -> Page \cup {Null}]] /\ mapped \subseteq Page
      /\ bits \in [Page -> SUBSET (0..(LeafSize - 1))] /\ Tree /\ Hands
      /\ n \in Page /\ n # Root /\ n # Null /\ Root \in Spot /\ Root # Null /\ n \in Spot
  BY <1>3, ConstAssumption, SMTT(30) DEF IInv, TypeOK, Spot
<1>7. entry[a][k] = Null /\ entry' = [entry EXCEPT ![a][k] = n]
  BY <1>1, <1>2, <1>4, <1>5, ZenonT(30) DEF Here, Published
<1>8. /\ entry' \in [Spot -> [Index -> Page \cup {Null}]] /\ entry'[a][k] = n
      /\ \A x \in Spot, i \in Index : ~(x = a /\ i = k) => entry'[x][i] = entry[x][i]
  BY <1>3, <1>6, <1>7, SMTT(30)
\* Nothing that was published goes away.
<1>9. ASSUME NEW x \in Spot, NEW i \in Index, entry[x][i] # Null
      PROVE  entry'[x][i] = entry[x][i]
  BY <1>7, <1>8, <1>9, Zenon
<1>10. \A i \in Index : entry'[n][i] = Null
  <2>1. entry[n] = [i \in Index |-> Null]
    BY <1>3, <1>6, EmptyPage, ZenonT(30)
  <2>2. \A i \in Index : entry[n][i] = Null
    BY <2>1, Zenon
  <2>3. n \in Spot /\ n # a
    BY <1>3, <1>6, ZenonT(30)
  <2>4. \A i \in Index : entry'[n][i] = entry[n][i]
    BY <1>8, <2>3, ZenonT(30)
  <2> QED
    BY <2>2, <2>4
<1>11. ASSUME NEW d \in Chunk, Middle(d) # Null
       PROVE  Middle(d)' = Middle(d) /\ (Leaf(d) # Null => Leaf(d)' = Leaf(d))
  <2>1. Split(d)[1] \in Index /\ Split(d)[2] \in Index /\ Middle(d) \in Spot
    BY <1>6, <1>11, SplitIndices, WayMapped, ZenonT(30) DEF Spot
  <2>2. Middle(d)' = Middle(d)
    BY <1>6, <1>9, <1>11, <2>1, SMTT(30) DEF Middle
  <2>3. Leaf(d) # Null => entry'[Middle(d)][Split(d)[2]] = Leaf(d)
    BY <1>9, <2>1, ZenonT(30) DEF Leaf
  <2> QED
    BY <2>2, <2>3, Zenon DEF Leaf
<1>12. call[t].level = 2 => Middle(c)' = a /\ Middle(c) = a
  BY <1>2, <1>3, <1>4, <1>11, SMTT(30) DEF OnPath
<1>13. call[t].level = 1 => a = Root
  BY <1>2, <1>3, SMTT(30) DEF OnPath
<1>14. Tree'
  <2>1. ASSUME NEW x \in Spot, NEW i \in Index, entry'[x][i] # Null PROVE entry'[x][i] \in mapped
    <3>1. CASE x = a /\ i = k
      BY <1>3, <1>6, <1>8, <3>1, Zenon
    <3>2. CASE ~(x = a /\ i = k)
      <4>1. entry'[x][i] = entry[x][i]
        BY <1>8, <3>2, ZenonT(30)
      <4> QED
        BY <1>6, <2>1, <4>1, SMTT(30) DEF Tree
    <3> QED
      BY <3>1, <3>2
  <2>2. ASSUME NEW x \in Spot, NEW y \in Spot, NEW i \in Index, NEW j \in Index,
               entry'[x][i] = entry'[y][j], entry'[x][i] # Null
        PROVE  x = y /\ i = j
    <3>1. CASE ~(x = a /\ i = k) /\ ~(y = a /\ j = k)
      <4>1. entry[x][i] = entry[y][j] /\ entry[x][i] # Null
        BY <1>8, <2>2, <3>1, Zenon
      <4> QED
        BY <1>6, <4>1, SMTT(30) DEF Tree
    <3>2. CASE x = a /\ i = k /\ ~(y = a /\ j = k)
      BY <1>3, <1>8, <2>2, <3>2, SMTT(30)
    <3>3. CASE y = a /\ j = k /\ ~(x = a /\ i = k)
      BY <1>3, <1>8, <2>2, <3>3
    <3> QED
      BY <3>1, <3>2, <3>3, Zenon
  <2>3. ASSUME NEW p \in Page, NEW i \in Index, entry'[p][i] # Null
        PROVE  \E j \in Index : entry'[Root][j] = p
    <3>1. p \in Spot /\ p # Root /\ p # Null
      BY ConstAssumption, Zenon DEF Spot
    <3>2. CASE p = a /\ i = k
      <4>1. call[t].level = 2
        BY <1>3, <1>13, <3>1, <3>2, SMTT(30)
      <4>2. entry'[Root][Split(c)[1]] = p
        BY <1>12, <3>2, <4>1, ZenonT(30) DEF Middle
      <4> QED
        BY <4>2, SplitIndices, Zenon
    <3>3. CASE ~(p = a /\ i = k)
      <4>1. entry[p][i] # Null
        BY <1>8, <2>3, <3>1, <3>3, ZenonT(30)
      <4>2. PICK j \in Index : entry[Root][j] = p
        BY <1>6, <4>1, Zenon DEF Tree
      <4> QED
        BY <1>6, <1>9, <3>1, <4>2, ZenonT(30)
    <3> QED
      BY <3>2, <3>3, ZenonT(30)
  <2> QED
    BY <2>1, <2>2, <2>3, SMTT(30) DEF Tree
<1>15. PICK r : r = Moved(t, n)
  BY Zenon
<1>16. /\ r \in SetRec /\ r.op = "set" /\ r.pc # "cas" /\ r.new = Null /\ OnPath(r)'
       /\ r.lo = call[t].lo /\ r.hi = call[t].hi /\ r.val = call[t].val /\ r.chunk = call[t].chunk
  <2>1. entry'[call[t].at][Split(c)[call[t].level]] = n
    BY <1>2, <1>5, <1>8, Zenon
  <2>2. call[t].level = 2 => Middle(c)' = call[t].at
    BY <1>2, <1>12, Zenon
  <2>3. Filled(t, c, n)
    BY <2>1, <2>2, Zenon DEF Filled
  <2>4. WentOn(t, r)
    BY <1>4, <1>6, <1>15, <2>3, AfterCas, Zenon
  <2> QED
    BY <2>4, Zenon DEF WentOn
<1>17. Step(t, r)
  BY <1>1, <1>15
<1>18. /\ call'[t] = r /\ \A u \in Thread \ {t} : call'[u] = call[u]
       /\ CallInv(t)' /\ \A u \in Thread : Left(u)' = Left(u)
  BY <1>16, <1>17, SetGoesOn, ZenonT(30)
<1>19. Unpublished(t)' = Null /\ Unpublished(t) = n /\ \A u \in Thread \ {t} : Unpublished(u)' = Unpublished(u)
  BY <1>1, <1>16, <1>18, ZenonT(30) DEF Unpublished
<1>20. Hands'
  <2>1. ASSUME NEW u \in Thread, Unpublished(u)' # Null
        PROVE  /\ Unpublished(u)' \in mapped' /\ bits'[Unpublished(u)'] = {}
               /\ \A x \in Spot, i \in Index : entry'[x][i] # Unpublished(u)'
    <3>1. u # t /\ Unpublished(u)' = Unpublished(u) /\ Unpublished(u) # n
      BY <1>3, <1>19, <2>1, ZenonT(30)
    <3>2. PICK q : q = Unpublished(u)
      BY ZenonT(30)
    <3>3. q \in mapped /\ bits[q] = {} /\ \A x \in Spot, i \in Index : entry[x][i] # q
      BY <1>6, <2>1, <3>1, <3>2, SMTT(30) DEF Hands
    <3>4. \A x \in Spot, i \in Index : entry'[x][i] # q
      BY <1>8, <3>1, <3>2, <3>3, ZenonT(30)
    <3> QED
      BY <3>1, <3>2, <3>3, <3>4, SMTT(30)
  <2>2. ASSUME NEW u \in Thread, NEW v \in Thread, Unpublished(u)' = Unpublished(v)', Unpublished(u)' # Null
        PROVE  u = v
    <3>1. Unpublished(u) = Unpublished(v) /\ Unpublished(u) # Null
      BY <1>19, <2>2, Zenon
    <3> QED
      BY <1>6, <3>1, SMTT(30) DEF Hands
  <2>3. ASSUME NEW q \in mapped'
        PROVE  \/ \E x \in Spot, i \in Index : entry'[x][i] = q
               \/ \E u \in Thread : Unpublished(u)' = q
    <3>1. CASE q = n
      BY <1>3, <1>8, <3>1, Zenon
    <3>2. CASE q # n
      <4>1. q \in mapped /\ q # Null
        BY <1>6, ConstAssumption, ZenonT(30)
      <4>2. \/ \E x \in Spot, i \in Index : entry[x][i] = q
            \/ \E u \in Thread : Unpublished(u) = q
        BY <1>6, <4>1, SMTT(30) DEF Hands
      <4> QED
        BY <1>9, <1>19, <3>2, <4>1, <4>2, ZenonT(30)
    <3> QED
      BY <3>1, <3>2, Zenon
  <2> QED
    BY <2>1, <2>2, <2>3, ZenonT(30) DEF Hands
<1>21. ASSUME NEW d \in Chunk PROVE Lookup(d)' <=> Lookup(d)
  <2>1. Split(d)[1] \in Index /\ Split(d)[2] \in Index
    BY SplitIndices, SMTT(30)
  <2>2. CASE Middle(d) = Null
    <3>1. Middle(d)' = Null \/ Middle(d)' = n
      BY <1>6, <1>8, <2>1, <2>2, ZenonT(30) DEF Middle
    <3>2. Middle(d)' = n => Leaf(d)' = Null
      BY <1>10, <2>1, ZenonT(30) DEF Leaf
    <3> QED
      BY <2>2, <3>1, <3>2, ZenonT(30) DEF Lookup, Middle, Leaf
  <2>3. CASE Middle(d) # Null
    <3>1. Middle(d)' = Middle(d) /\ (Leaf(d) # Null => Leaf(d)' = Leaf(d))
      BY <1>11, <2>3, ZenonT(30)
    <3>2. Middle(d) \in Spot
      BY <1>6, <2>3, WayMapped, ZenonT(30) DEF Spot
    <3>3. Leaf(d) = Null => Leaf(d)' \in {Null, n}
      BY <1>8, <2>1, <3>1, <3>2, ZenonT(30) DEF Leaf
    <3> QED
      BY <1>3, <2>3, <3>1, <3>3, ZenonT(30) DEF Lookup, Middle, Leaf
  <2> QED
    BY <2>2, <2>3, ZenonT(30)
<1>22. \A d \in Chunk : (\A u \in Thread : d \notin Left(u)') => (Lookup(d)' <=> want[d])
  BY <1>18, <1>21, ZenonT(30) DEF IInv
<1>23. mapped' \subseteq Page /\ bits' \in [Page -> SUBSET (0..(LeafSize - 1))]
  BY <1>6
<1> QED
  BY <1>8, <1>11, <1>14, <1>16, <1>17, <1>18, <1>20, <1>22, <1>23, StepInv, ZenonT(30)

\* get_or_alloc and get_or_alloc_l3: the compare-exchange.
LEMMA CasInv ==
    ASSUME IInv, NEW t \in Thread, Cas(t)
    PROVE  IInv'
<1>1. CASE Here(t) = Null
  <2>1. /\ call[t].op = "set" /\ call[t].pc = "cas" /\ entry' = Published(t)
        /\ Step(t, Moved(t, call[t].new)) /\ UNCHANGED <<mapped, bits, want>>
    BY <1>1, ZenonT(30) DEF Cas, Moved
  <2> QED
    BY <1>1, <2>1, CasWonInv, ZenonT(30)
<1>2. CASE Here(t) # Null
  <2>1. /\ call[t].op = "set" /\ call[t].pc = "cas" /\ mapped' = mapped \ {call[t].new}
        /\ Step(t, Moved(t, Here(t))) /\ UNCHANGED <<entry, bits, want>>
    BY <1>2, Zenon DEF Cas, Moved
  <2> QED
    BY <1>2, <2>1, CasLostInv
<1> QED
  BY <1>1, <1>2, SMTT(30)

\* A fetch_or or fetch_and on the leaf of c changes the lookups of the chunks
\* under its mask and no other.
LEMMA WordLookup ==
    ASSUME IInv, NEW c \in Chunk, NEW last \in Nat, NEW val \in BOOLEAN,
           Middle(c) # Null, NEW leaf \in Page, leaf = Leaf(c), UNCHANGED entry,
           \A d \in c..last : d \div LeafSize = c \div LeafSize,
           bits' = [bits EXCEPT ![leaf] = IF val THEN bits[leaf] \cup BitsOf(c, last)
                                           ELSE bits[leaf] \ BitsOf(c, last)],
           NEW d \in Chunk
    PROVE  Lookup(d)' <=> IF d \in c..last THEN val ELSE Lookup(d)
<1>1. c \in Nat /\ d \in Nat /\ Split(d)[1] \in Index /\ Split(d)[2] \in Index
      /\ Split(c)[1] \in Index /\ Split(c)[2] \in Index
  BY SplitIndices, SMTT(30)
<1>2. Middle(d)' = Middle(d) /\ Leaf(d)' = Leaf(d)
  BY ZenonT(30) DEF Middle, Leaf
<1>3. bits \in [Page -> SUBSET (0..(LeafSize - 1))] /\ Tree /\ Root \in Spot
  BY DEF IInv, TypeOK, Spot
<1>4. /\ bits'[leaf] = IF val THEN bits[leaf] \cup BitsOf(c, last) ELSE bits[leaf] \ BitsOf(c, last)
      /\ \A p \in Page \ {leaf} : bits'[p] = bits[p]
  BY <1>3, Zenon
<1>5. CASE Middle(d) # Null /\ Leaf(d) = leaf
  <2>1. Middle(d) \in Spot /\ Middle(c) \in Spot /\ leaf # Null
    BY <1>5, WayMapped, ConstAssumption, Zenon DEF Spot
  <2>2. Middle(c) = Middle(d) /\ Split(c)[2] = Split(d)[2]
    BY <1>1, <1>3, <1>5, <2>1, SMTT(30) DEF Leaf, Tree
  <2>3. Split(c)[1] = Split(d)[1]
    BY <1>1, <1>3, <2>2, SMTT(30) DEF Middle, Tree
  <2>4. Split(d)[3] \in BitsOf(c, last) <=> d \in c..last
    <3>1. ASSUME NEW e \in c..last, Split(e)[3] = Split(d)[3] PROVE d = e
      <4>1. e \in Nat /\ e \div LeafSize = c \div LeafSize
        BY <1>1
      <4>2. Split(e)[1] = Split(c)[1] /\ Split(e)[2] = Split(c)[2]
        BY <1>1, <4>1, SameLeaf, SMTT(30)
      <4> QED
        BY <1>1, <2>2, <2>3, <3>1, <4>1, <4>2, SplitApart, Zenon
    <3> QED
      BY <3>1, ZenonT(30) DEF BitsOf
  <2>5. Lookup(d)' <=> Split(d)[3] \in bits'[leaf]
    BY <1>2, <1>5, <2>1, ZenonT(30) DEF Lookup, Middle, Leaf
  <2>6. Lookup(d) <=> Split(d)[3] \in bits[leaf]
    BY <1>5, <2>1, ZenonT(30) DEF Lookup, Middle, Leaf
  <2> QED
    BY <1>4, <2>4, <2>5, <2>6, SMTT(30)
<1>6. CASE ~(Middle(d) # Null /\ Leaf(d) = leaf)
  <2>1. d \notin c..last
    <3> SUFFICES ASSUME d \in c..last PROVE FALSE
      OBVIOUS
    <3>1. d \div LeafSize = c \div LeafSize
      BY Zenon
    <3>2. Split(d)[1] = Split(c)[1] /\ Split(d)[2] = Split(c)[2]
      BY <1>1, <3>1, SameLeaf, SMTT(30)
    <3> QED
      BY <1>6, <3>2, ZenonT(30) DEF Middle, Leaf
  <2>2. CASE Middle(d) = Null \/ Leaf(d) = Null
    BY <1>2, <2>1, <2>2, ZenonT(30) DEF Lookup, Middle, Leaf
  <2>3. CASE Middle(d) # Null /\ Leaf(d) # Null
    <3>1. Leaf(d) \in Page \ {leaf}
      BY <1>6, <2>3, WayMapped, SMTT(30)
    <3> QED
      BY <1>2, <1>4, <2>1, <3>1, ZenonT(30) DEF Lookup, Middle, Leaf
  <2> QED
    BY <2>2, <2>3, SMTT(30)
<1> QED
  BY <1>5, <1>6, Zenon

\* One word of a set_range: fetch_or or fetch_and, and on to the next word.
LEMMA SetWordInv ==
    ASSUME IInv, NEW t \in Thread, SetWord(t)
    PROVE  IInv'
<1>1. PICK q : q = call[t]
  BY Zenon
<1>2. /\ q \in SetRec /\ q.op = "set" /\ q.pc = "word" /\ q.new = Null /\ OnPath(q)
      /\ q.lo <= q.chunk /\ q.chunk <= q.hi /\ \A d \in q.chunk..q.hi : want[d] = q.val
  BY <1>1, Records, ZenonT(30) DEF SetWord, IInv, CallInv, Left
<1>3. PICK c \in Chunk : c = q.chunk
  BY <1>2 DEF SetRec
<1>4. PICK hi \in Chunk : hi = q.hi
  BY <1>2 DEF SetRec
<1>5. PICK last : last = LastOf(c, hi)
  BY Zenon
<1>6. /\ last \in Nat /\ c <= last /\ last <= hi
      /\ \A d \in c..last : d \div LeafSize = c \div LeafSize
  BY <1>2, <1>3, <1>4, <1>5, WordInLeaf, Zenon
<1>7. q.at # Null /\ q.at \in Spot /\ Middle(c) # Null /\ q.at = Leaf(c) /\ q.level = 3
  BY <1>2, <1>3, ConstAssumption, Zenon DEF OnPath, SetRec, Spot
<1>8. PICK leaf \in Page : leaf = q.at
  BY <1>7, WayMapped
<1>9. PICK val \in BOOLEAN : val = q.val
  BY <1>2 DEF SetRec
<1>10. /\ UNCHANGED <<mapped, entry, want>>
       /\ bits' = [bits EXCEPT ![leaf] = IF val THEN bits[leaf] \cup BitsOf(c, last)
                                          ELSE bits[leaf] \ BitsOf(c, last)]
  BY <1>1, <1>3, <1>4, <1>5, <1>8, <1>9, Zenon DEF SetWord, Mask
<1>11. ASSUME NEW d \in Chunk PROVE Lookup(d)' <=> IF d \in c..last THEN val ELSE Lookup(d)
  BY <1>6, <1>7, <1>8, <1>10, WordLookup, Zenon
<1>12. PICK r : r = IF last = hi THEN Idle
                    ELSE IF (last + 1) % LeafSize = 0
                    THEN [q EXCEPT !.chunk = last + 1, !.pc = "load", !.at = Root, !.level = 1]
                    ELSE [q EXCEPT !.chunk = last + 1]
  BY ZenonT(30)
<1>13. Step(t, r)
  BY <1>1, <1>3, <1>4, <1>5, <1>12, ZenonT(30) DEF SetWord
<1>14. c \in Nat /\ hi \in Nat
  BY Sizes, SMTT(30) DEF Chunk
<1>15. last # hi => last + 1 \in Chunk /\ last + 1 <= hi
  BY <1>6, <1>14, Sizes DEF Chunk
<1>16. last = hi => r = Idle /\ r.op = "idle"
  BY <1>12, Zenon DEF Idle
<1>17. last # hi => /\ r \in SetRec /\ r.op = "set" /\ r.chunk = last + 1 /\ r.new = Null
                    /\ r.lo = q.lo /\ r.hi = hi /\ r.val = val
  <2> SUFFICES ASSUME last # hi
               PROVE  /\ r \in SetRec /\ r.op = "set" /\ r.chunk = last + 1 /\ r.new = Null
                      /\ r.lo = q.lo /\ r.hi = hi /\ r.val = val
    OBVIOUS
  <2>1. PICK n \in Chunk : n = last + 1
    BY <1>15
  <2>2. CASE (last + 1) % LeafSize = 0
    <3>1. r = [q EXCEPT !.chunk = n, !.pc = "load", !.at = Root, !.level = 1]
      BY <1>12, <2>1, <2>2
    <3>2. 1 \in 1..3 /\ Root \in Spot
      BY DEF Spot
    <3> QED
      BY <1>2, <1>4, <1>9, <2>1, <3>1, <3>2, ZenonT(30) DEF SetRec
  <2>3. CASE (last + 1) % LeafSize # 0
    <3>1. r = [q EXCEPT !.chunk = n]
      BY <1>12, <2>1, <2>3, Zenon
    <3> QED
      BY <1>2, <1>4, <1>9, <2>1, <3>1, ZenonT(30) DEF SetRec
  <2> QED
    BY <2>2, <2>3, Zenon
<1>18. r \in {Idle} \cup SetRec
  BY <1>16, <1>17, Zenon
<1>19. /\ call'[t] = r /\ \A u \in Thread \ {t} : call'[u] = call[u]
       /\ \A u \in Thread : Unpublished(u)' = Unpublished(u)
  <2>1. call'[t] = r /\ \A u \in Thread \ {t} : call'[u] = call[u]
    BY <1>13, Zenon DEF Step, IInv
  <2>2. Unpublished(t)' = Null /\ Unpublished(t) = Null
    BY <1>1, <1>2, <1>16, <1>17, <2>1, ZenonT(30) DEF Unpublished
  <2>3. \A u \in Thread \ {t} : Unpublished(u)' = Unpublished(u)
    BY <2>1, Zenon DEF Unpublished
  <2> QED
    BY <2>1, <2>2, <2>3, Zenon
<1>20. /\ Left(t) = c..hi /\ Left(t)' = IF last = hi THEN {} ELSE (last + 1)..hi
       /\ \A u \in Thread \ {t} : Left(u)' = Left(u)
  BY <1>1, <1>2, <1>3, <1>4, <1>16, <1>17, <1>19, ZenonT(30) DEF Left
<1>21. \A d \in Left(t) : d \in c..last \/ d \in Left(t)'
  BY <1>6, <1>14, <1>20
<1>22. ASSUME NEW d \in Chunk, \A u \in Thread : d \notin Left(u)'
       PROVE  Lookup(d)' <=> want[d]
  <2>1. CASE d \in c..last
    <3>1. d \in q.chunk..q.hi
      BY <1>3, <1>4, <1>6, <1>14, <2>1, SMTT(30)
    <3>2. want[d] = val
      BY <1>2, <1>9, <3>1, Zenon
    <3> QED
      BY <1>11, <2>1, <3>2, Zenon
  <2>2. CASE d \notin c..last
    <3>1. \A u \in Thread : d \notin Left(u)
      BY <1>20, <1>21, <1>22, <2>2, ZenonT(30)
    <3>2. Lookup(d) <=> want[d]
      BY <3>1, Zenon DEF IInv
    <3> QED
      BY <1>11, <2>2, <3>2
  <2> QED
    BY <2>1, <2>2, Zenon
<1>23. ASSUME NEW d \in Chunk PROVE Middle(d)' = Middle(d) /\ Leaf(d)' = Leaf(d)
  BY <1>10, Zenon DEF Middle, Leaf
<1>24. bits \in [Page -> SUBSET (0..(LeafSize - 1))] /\ entry \in [Spot -> [Index -> Page \cup {Null}]]
       /\ mapped \subseteq Page /\ Tree /\ Hands
  BY Zenon DEF IInv, TypeOK, Spot
<1>25. bits' \in [Page -> SUBSET (0..(LeafSize - 1))]
  <2>1. BitsOf(c, last) \subseteq 0..(LeafSize - 1)
    <3>1. \A d \in c..last : Split(d)[3] \in 0..(LeafSize - 1)
      <4>1. ASSUME NEW d \in c..last PROVE Split(d)[3] \in 0..(LeafSize - 1)
        BY <1>6, <1>14, DivFacts, ConstAssumption, SMTT(30) DEF Split
      <4> QED
        BY <4>1, Zenon
    <3> QED
      BY <3>1, Zenon DEF BitsOf
  <2> QED
    BY <1>10, <1>24, <2>1, SMTT(30)
<1>26. Tree'
  BY <1>10, <1>24, SMTT(30) DEF Tree
<1>27. Hands'
  <2>1. \E x \in Spot, i \in Index : entry[x][i] = leaf
    BY <1>7, <1>8, WayMapped, SplitIndices, Zenon DEF Leaf, Spot
  <2>2. ASSUME NEW u \in Thread, Unpublished(u) # Null PROVE bits'[Unpublished(u)] = {}
    <3>1. PICK p : p = Unpublished(u)
      BY Zenon
    <3>2. p \in Page /\ p # leaf /\ bits[p] = {}
      BY <1>24, <2>1, <2>2, <3>1 DEF Hands
    <3> QED
      BY <1>10, <1>24, <3>1, <3>2, Zenon
  <2> QED
    BY <1>10, <1>19, <1>24, <2>2, SMTT(30) DEF Hands
<1>28. last # hi => OnPath(r)'
  <2> SUFFICES ASSUME last # hi PROVE OnPath(r)'
    OBVIOUS
  <2>1. CASE (last + 1) % LeafSize = 0
    BY <1>2, <1>12, <2>1, Zenon DEF OnPath, SetRec
  <2>2. CASE (last + 1) % LeafSize # 0
    <3>1. r.level = 3 /\ r.pc = "word" /\ r.at = q.at /\ r.chunk = last + 1
      BY <1>2, <1>7, <1>12, <2>2, Zenon DEF SetRec
    <3>2. (last + 1) \div LeafSize = last \div LeafSize
      BY <1>6, <2>2, DivNext, ConstAssumption, ZenonT(30)
    <3>3. last \div LeafSize = c \div LeafSize
      BY <1>6, <1>14
    <3>4. Split(last + 1)[1] = Split(c)[1] /\ Split(last + 1)[2] = Split(c)[2]
      BY <1>6, <1>14, <3>2, <3>3, SameLeaf
    <3>5. Middle(last + 1) = Middle(c) /\ Leaf(last + 1) = Leaf(c)
      BY <3>4, Zenon DEF Middle, Leaf
    <3>6. Middle(last + 1)' = Middle(last + 1) /\ Leaf(last + 1)' = Leaf(last + 1)
      BY <1>10 DEF Middle, Leaf
    <3>7. PICK n : n = last + 1
      OBVIOUS
    <3> QED
      BY <1>7, <3>1, <3>5, <3>6, <3>7, ZenonT(30) DEF OnPath
  <2> QED
    BY <2>1, <2>2
<1>29. CallInv(t)'
  <2>1. CASE last = hi
    BY <1>16, <1>19, <2>1, Zenon DEF CallInv
  <2>2. CASE last # hi
    <3>1. r.pc # "cas"
      BY <1>2, <1>12, <2>2, ZenonT(30) DEF SetRec
    <3>2. r.lo <= r.chunk /\ r.chunk <= r.hi
      <4>1. PICK lo \in Chunk : lo = q.lo
        BY <1>2, Zenon DEF SetRec
      <4>2. lo \in Nat /\ lo <= c
        BY <1>2, <1>3, <4>1, SplitIndices, ZenonT(30)
      <4>3. lo <= last + 1 /\ last + 1 <= hi
        BY <1>6, <1>14, <1>15, <2>2, <4>2, SMTT(30)
      <4> QED
        BY <1>17, <2>2, <4>1, <4>3, ZenonT(30)
    <3>3. \A d \in Left(t)' : want'[d] = val
      BY <1>2, <1>3, <1>4, <1>6, <1>9, <1>10, <1>14, <1>20, <2>2, SMTT(30)
    <3> QED
      BY <1>17, <1>19, <1>28, <2>2, <3>1, <3>2, <3>3, ZenonT(30) DEF CallInv, OnPath
  <2> QED
    BY <2>1, <2>2, Zenon
<1> QED
  BY <1>1, <1>2, <1>4, <1>10, <1>13, <1>16, <1>17, <1>18, <1>22, <1>23, <1>24, <1>25, <1>26,
     <1>27, <1>29, StepInv, ZenonT(30)

\* A chunk that a call has still to change is one that it is changing.
LEMMA LeftChanging ==
    ASSUME IInv, NEW u \in Thread
    PROVE  Left(u) \subseteq Changing(u)
<1>1. CASE call[u].op # "set"
  BY <1>1, Zenon DEF Left
<1>2. CASE call[u].op = "set"
  <2>1. call[u] \in SetRec /\ call[u].lo <= call[u].chunk
    BY <1>2, Records, ZenonT(30) DEF IInv, CallInv
  <2>2. PICK l \in Nat, c \in Nat, h \in Nat : l = call[u].lo /\ c = call[u].chunk /\ h = call[u].hi
    BY <2>1, SplitIndices, Zenon DEF SetRec
  <2> QED
    BY <1>2, <2>1, <2>2, SMTT(30) DEF Left, Changing
<1> QED
  BY <1>1, <1>2

\* The chunks between two chunks are chunks.
LEMMA ChunkRange ==
    ASSUME NEW a \in Chunk, NEW b \in Chunk
    PROVE  a..b \subseteq Chunk
<1>1. PICK n : n = Fan * Fan * LeafSize - 1
  OBVIOUS
<1>2. Chunk = 0..n /\ n \in Int
  BY <1>1, ConstAssumption, SMTT(30) DEF Chunk
<1> QED
  BY <1>2

Uncalm(u, S) ==
    IF call[u].op \in {"get", "got"} /\ call[u].chunk \in S
    THEN [call[u] EXCEPT !.calm = FALSE] ELSE call[u]

\* What the other threads keep when a set_range begins: lookups of its chunks
\* are no longer calm.
LEMMA OthersAtSetCall ==
    ASSUME IInv, NEW u \in Thread, NEW S, NEW r, r = Uncalm(u, S)
    PROVE  /\ r \in {Idle} \cup SetRec \cup GetRec \cup GotRec
           /\ r.op = call[u].op
           /\ call[u].op \notin {"get", "got"} => r = call[u]
           /\ call[u].op \in {"get", "got"} =>
                  /\ r.chunk = call[u].chunk
                  /\ r.calm => call[u].calm /\ r = call[u] /\ call[u].chunk \notin S
           /\ call[u].op = "get" => r.at = call[u].at /\ r.level = call[u].level /\ r.pc = call[u].pc
<1>1. CASE call[u].op \in {"get", "got"} /\ call[u].chunk \in S
  <2>1. r = [call[u] EXCEPT !.calm = FALSE]
    BY <1>1 DEF Uncalm
  <2>2. CASE call[u].op = "get"
    <3>1. call[u] \in GetRec
      BY <2>2, Records
    <3>2. r \in GetRec
      BY <2>1, <3>1, Zenon DEF GetRec
    <3> QED
      BY <2>1, <2>2, <3>1, <3>2, Zenon DEF GetRec
  <2>3. CASE call[u].op = "got"
    <3>1. call[u] \in GotRec
      BY <2>3, Records
    <3>2. r \in GotRec
      BY <2>1, <3>1, ZenonT(30) DEF GotRec
    <3> QED
      BY <2>1, <2>3, <3>1, <3>2, ZenonT(30) DEF GotRec
  <2> QED
    BY <1>1, <2>2, <2>3
<1>2. CASE ~(call[u].op \in {"get", "got"} /\ call[u].chunk \in S)
  <2>1. r = call[u]
    BY <1>2 DEF Uncalm
  <2>2. call[u] \in {Idle} \cup SetRec \cup GetRec \cup GotRec
    BY DEF IInv
  <2> QED
    BY <1>2, <2>1, <2>2
<1> QED
  BY <1>1, <1>2, ZenonT(30)

\* A set_range begins.
LEMMA SetCallInv ==
    ASSUME IInv, NEW t \in Thread, NEW s \in Spans, NEW val \in BOOLEAN,
           SetCall(t, s[1], s[2], val)
    PROVE  IInv'
<1>1. PICK lo : lo = s[1] \div ChunkSize
  OBVIOUS
<1>2. PICK hi : hi = lo + Cardinality(Hit(s[1], s[2])) - 1
  BY Zenon
<1>3. /\ lo \in Chunk /\ hi \in Chunk /\ lo <= hi /\ Hit(s[1], s[2]) = lo..hi
      /\ \A c \in Chunk : Touched(c, s[1], s[2]) <=> c \in lo..hi
  BY <1>1, <1>2, HitChunks, SMTT(30)
<1>4. PICK rec : rec = [op |-> "set", pc |-> "load", at |-> Root, level |-> 1, new |-> Null,
                        chunk |-> lo, lo |-> lo, hi |-> hi, val |-> val]
  BY Zenon
<1>5. /\ rec \in SetRec /\ rec.op = "set" /\ rec.pc = "load" /\ rec.at = Root /\ rec.level = 1
      /\ rec.new = Null /\ rec.chunk = lo /\ rec.lo = lo /\ rec.hi = hi /\ rec.val = val
  BY <1>3, <1>4, SMTT(30) DEF SetRec, Spot
<1>6. /\ call[t] = Idle /\ \A u \in Thread : (lo..hi) \cap Changing(u) = {}
      /\ call' = [u \in Thread |->
             IF u = t THEN rec
             ELSE IF call[u].op \in {"get", "got"} /\ call[u].chunk \in lo..hi
             THEN [call[u] EXCEPT !.calm = FALSE] ELSE call[u]]
      /\ UNCHANGED <<mapped, entry, bits>>
  BY <1>1, <1>2, <1>3, <1>4, Zenon DEF SetCall
<1>7. /\ want' \in [Chunk -> BOOLEAN]
      /\ \A c \in Chunk : want'[c] = IF c \in lo..hi THEN val ELSE want[c]
  <2>1. want' = [c \in Chunk |-> IF Touched(c, s[1], s[2]) THEN val ELSE want[c]]
    BY Zenon DEF SetCall
  <2>2. want \in [Chunk -> BOOLEAN]
    BY DEF IInv, TypeOK
  <2> QED
    BY <1>3, <2>1, <2>2
<1>8. call'[t] = rec /\ call[t].op = "idle"
  BY <1>6, SMTT(30) DEF Idle
<1>9. ASSUME NEW u \in Thread \ {t}
      PROVE  /\ call'[u] \in {Idle} \cup SetRec \cup GetRec \cup GotRec
             /\ call'[u].op = call[u].op
             /\ call[u].op \notin {"get", "got"} => call'[u] = call[u]
             /\ call[u].op \in {"get", "got"} =>
                    /\ call'[u].chunk = call[u].chunk
                    /\ call'[u].calm => /\ call[u].calm /\ call'[u] = call[u]
                                        /\ call[u].chunk \notin lo..hi
             /\ call[u].op = "get" => /\ call'[u].at = call[u].at /\ call'[u].level = call[u].level
                                      /\ call'[u].pc = call[u].pc
  <2>1. call'[u] = IF call[u].op \in {"get", "got"} /\ call[u].chunk \in lo..hi
                   THEN [call[u] EXCEPT !.calm = FALSE] ELSE call[u]
    BY <1>6
  <2>2. PICK S : S = lo..hi
    OBVIOUS
  <2>3. PICK r : r = call'[u]
    OBVIOUS
  <2>4. r = Uncalm(u, S)
    BY <2>1, <2>2, <2>3, ZenonT(30) DEF Uncalm
  <2>5. /\ r \in {Idle} \cup SetRec \cup GetRec \cup GotRec
        /\ r.op = call[u].op
        /\ call[u].op \notin {"get", "got"} => r = call[u]
        /\ call[u].op \in {"get", "got"} =>
               /\ r.chunk = call[u].chunk
               /\ r.calm => call[u].calm /\ r = call[u] /\ call[u].chunk \notin S
        /\ call[u].op = "get" => r.at = call[u].at /\ r.level = call[u].level /\ r.pc = call[u].pc
    BY <1>9, <2>4, OthersAtSetCall, SMTT(30)
  <2> QED
    BY <2>2, <2>3, <2>5, Zenon
<1>10. /\ Changing(t)' = lo..hi /\ Left(t)' = lo..hi /\ Unpublished(t)' = Null
       /\ Changing(t) = {} /\ Left(t) = {} /\ Unpublished(t) = Null
  BY <1>5, <1>8, ZenonT(30) DEF Changing, Left, Unpublished
<1>11. ASSUME NEW u \in Thread \ {t}
       PROVE  Changing(u)' = Changing(u) /\ Left(u)' = Left(u) /\ Unpublished(u)' = Unpublished(u)
  BY <1>9, Zenon DEF Changing, Left, Unpublished
<1>12. \A u \in Thread : \A c \in Left(u) : c \notin lo..hi
  BY <1>6, LeftChanging, Zenon
<1>13. TypeOK'
  <2>1. ASSUME NEW u \in Thread, call'[u] # Idle PROVE call'[u].chunk \in Chunk
    <3>1. CASE u = t
      BY <1>3, <1>5, <1>8, <3>1, Zenon
    <3>2. CASE u # t
      BY <1>9, <2>1, <3>2, Zenon DEF SetRec, GetRec, GotRec
    <3> QED
      BY <3>1, <3>2, Zenon
  <2> QED
    BY <1>6, <1>7, <2>1, ZenonT(30) DEF IInv, TypeOK
<1>14. call' \in [Thread -> {Idle} \cup SetRec \cup GetRec \cup GotRec]
  <2>1. \A u \in Thread : call'[u] \in {Idle} \cup SetRec \cup GetRec \cup GotRec
    BY <1>5, <1>8, <1>9
  <2>2. call' = [u \in Thread |-> call'[u]]
    BY <1>6
  <2> QED
    BY <2>1, <2>2, ZenonT(30)
<1>15. Tree'
  BY <1>6 DEF IInv, Tree
<1>16. Hands'
  <2>1. \A u \in Thread : Unpublished(u)' = Unpublished(u)
    BY <1>10, <1>11, Zenon
  <2>2. Hands
    BY DEF IInv
  <2> QED
    BY <1>6, <2>1, <2>2 DEF Hands
<1>17. ASSUME NEW c \in Chunk PROVE Middle(c)' = Middle(c) /\ Leaf(c)' = Leaf(c) /\ (Lookup(c)' <=> Lookup(c))
  BY <1>6, Zenon DEF Middle, Leaf, Lookup
<1>18. ASSUME NEW u \in Thread PROVE CallInv(u)'
  <2>1. CASE u = t
    <3>1. OnPath(rec)'
      BY <1>5, Zenon DEF OnPath
    <3>2. \A c \in Left(t)' : want'[c] = val
      <4>1. lo..hi \subseteq Chunk
        BY <1>3, ChunkRange, Zenon
      <4> QED
        BY <1>7, <1>10, <4>1, Zenon
    <3>3. lo <= lo
      BY <1>3, SplitIndices, SMTT(30)
    <3> QED
      BY <1>3, <1>5, <1>8, <2>1, <3>1, <3>2, <3>3, ZenonT(30) DEF CallInv
  <2>2. CASE u # t /\ call[u].op = "idle"
    BY <1>9, <2>2, ZenonT(30) DEF CallInv
  <2>3. CASE u # t /\ call[u].op = "set"
    <3>1. call'[u] = call[u] /\ Left(u)' = Left(u) /\ call[u] \in SetRec
      BY <1>9, <1>11, <2>3, Records, ZenonT(30)
    <3>2. PICK r : r = call[u]
      BY Zenon
    <3>3. CallInv(u)
      BY SMTT(30) DEF IInv
    <3>4. OnPath(r)' /\ r.lo <= r.chunk /\ r.chunk <= r.hi /\ (r.pc = "cas" <=> r.new # Null)
      <4>1. PICK c \in Chunk : c = r.chunk
        BY <3>1, <3>2, ZenonT(30) DEF SetRec
      <4> QED
        BY <1>17, <2>3, <3>2, <3>3, <4>1, ZenonT(30) DEF CallInv, OnPath
    <3>5. \A c \in Left(u)' : want'[c] = r.val
      <4>1. ASSUME NEW c \in Left(u) PROVE c \in Chunk
        <5>1. PICK a \in Chunk, b \in Chunk : a = call[u].chunk /\ b = call[u].hi
          BY <3>1, Zenon DEF SetRec
        <5>2. c \in a..b
          BY <2>3, <4>1, <5>1, Zenon DEF Left
        <5> QED
          BY <5>1, <5>2, ChunkRange, ZenonT(30)
      <4>2. \A c \in Left(u) : want[c] = r.val
        BY <2>3, <3>2, <3>3, ZenonT(30) DEF CallInv
      <4> QED
        BY <1>7, <1>12, <3>1, <4>1, <4>2, ZenonT(30)
    <3> QED
      BY <2>3, <3>1, <3>2, <3>4, <3>5, ZenonT(30) DEF CallInv
  <2>4. CASE u # t /\ call[u].op \in {"get", "got"}
    <3>1. PICK r : r = call'[u]
      BY Zenon
    <3>2. PICK c \in Chunk : c = call[u].chunk /\ r.chunk = c
      BY <1>9, <2>4, <3>1, Records, ZenonT(30) DEF GetRec, GotRec
    <3>3. CallInv(u)
      BY SMTT(30) DEF IInv
    <3>4. r.op = "get" => OnPath(r)'
      BY <1>9, <1>17, <2>4, <3>1, <3>2, <3>3, ZenonT(30) DEF CallInv, OnPath
    <3>5. ASSUME r.calm
          PROVE  /\ \A v \in Thread : c \notin Changing(v)'
                 /\ r.op = "got" => r.res = want'[c]
      <4>1. call[u].calm /\ r = call[u] /\ c \notin lo..hi
        BY <1>9, <2>4, <3>1, <3>2, <3>5, ZenonT(30)
      <4>2. \A v \in Thread : c \notin Changing(v)
        BY <2>4, <3>2, <3>3, <4>1, ZenonT(30) DEF CallInv
      <4>3. r.op = "got" => r.res = want[c]
        BY <2>4, <3>2, <3>3, <4>1, ZenonT(30) DEF CallInv
      <4>4. want'[c] = want[c]
        BY <1>7, <4>1, ZenonT(30)
      <4> QED
        BY <1>10, <1>11, <4>1, <4>2, <4>3, <4>4, ZenonT(30)
    <3> QED
      BY <1>9, <2>4, <3>1, <3>2, <3>4, <3>5, ZenonT(30) DEF CallInv
  <2> QED
    BY <2>1, <2>2, <2>3, <2>4, Records, Zenon
<1>19. ASSUME NEW u \in Thread, NEW v \in Thread, u # v PROVE Changing(u)' \cap Changing(v)' = {}
  <2>1. Changing(u) \cap Changing(v) = {}
    BY <1>19, Zenon DEF IInv
  <2> QED
    BY <1>6, <1>10, <1>11, <1>19, <2>1, ZenonT(30)
<1>20. ASSUME NEW c \in Chunk, \A u \in Thread : c \notin Left(u)' PROVE Lookup(c)' <=> want'[c]
  <2>1. \A u \in Thread : c \notin Left(u)
    BY <1>10, <1>11, <1>20
  <2>2. c \notin lo..hi
    BY <1>10, <1>20, Zenon
  <2>3. Lookup(c) <=> want[c]
    BY <2>1, Zenon DEF IInv
  <2> QED
    BY <1>7, <1>17, <2>2, <2>3, ZenonT(30)
<1> QED
  BY <1>13, <1>14, <1>15, <1>16, <1>18, <1>19, <1>20, ZenonT(30) DEF IInv

\* An empty tree and no call: the inductive invariant holds at the start.
LEMMA InitIInv ==
    Init => IInv
<1> SUFFICES ASSUME Init PROVE IInv
  OBVIOUS
<1>1. /\ \A t \in Thread : call[t] = Idle /\ call[t].op = "idle"
      /\ call \in [Thread -> {Idle} \cup SetRec \cup GetRec \cup GotRec]
  BY DEF Init, Idle
<1>2. /\ \A x \in Spot, i \in Index : entry[x][i] = Null
      /\ entry \in [Spot -> [Index -> Page \cup {Null}]]
  BY Zenon DEF Init, Spot
<1>3. TypeOK
  BY <1>1, <1>2, Zenon DEF Init, TypeOK, Spot
<1>4. Tree
  BY <1>2, Zenon DEF Tree, Spot
<1>5. Hands
  BY <1>1, Zenon DEF Init, Hands, Unpublished
<1>6. \A t \in Thread : CallInv(t) /\ Changing(t) = {}
  BY <1>1, Zenon DEF CallInv, Changing
<1>7. ASSUME NEW c \in Chunk PROVE ~Lookup(c) /\ ~want[c]
  <2>1. Split(c)[1] \in Index /\ Root \in Spot
    BY SplitIndices, Zenon DEF Spot
  <2> QED
    BY <1>2, <2>1 DEF Lookup, Init
<1> QED
  BY <1>1, <1>3, <1>4, <1>5, <1>6, <1>7, ZenonT(30) DEF IInv

\* No step of set or get breaks the inductive invariant.
LEMMA IInvStep ==
    IInv /\ [Next]_vars => IInv'
<1> SUFFICES ASSUME IInv, [Next]_vars PROVE IInv'
  BY Zenon
<1>1. CASE UNCHANGED vars
  <2>1. UNCHANGED <<mapped, entry, bits, call, want>>
    BY <1>1, Zenon DEF vars
  <2>2. TypeOK' <=> TypeOK
    BY <2>1, Zenon DEF TypeOK
  <2>3. \A t \in Thread : /\ Left(t)' = Left(t) /\ Changing(t)' = Changing(t)
                          /\ Unpublished(t)' = Unpublished(t)
    BY <2>1, Zenon DEF Left, Changing, Unpublished
  <2>4. Tree' <=> Tree
    BY <2>1, SMTT(30) DEF Tree
  <2>5. Hands' <=> Hands
    BY <2>1, <2>3, SMTT(30) DEF Hands
  <2>6. ASSUME NEW t \in Thread PROVE OnPath(call[t])' <=> OnPath(call[t])
    BY <2>1, SMTT(30) DEF OnPath, Middle, Leaf
  <2>7. ASSUME NEW t \in Thread PROVE CallInv(t)' <=> CallInv(t)
    BY <2>1, <2>3, <2>6, ZenonT(30) DEF CallInv
  <2>8. \A c \in Chunk : Lookup(c)' <=> Lookup(c)
    BY <2>1, Zenon DEF Lookup
  <2> QED
    BY <2>1, <2>2, <2>3, <2>4, <2>5, <2>7, <2>8, ZenonT(30) DEF IInv
<1>2. ASSUME NEW t \in Thread, NEW s \in Spans, NEW val \in BOOLEAN, SetCall(t, s[1], s[2], val)
      PROVE  IInv'
  BY <1>2, SetCallInv
<1>3. ASSUME NEW t \in Thread, NEW c \in Chunk, GetCall(t, c) PROVE IInv'
  BY <1>3, GetCallInv
<1>4. ASSUME NEW t \in Thread, Load(t) PROVE IInv'
  BY <1>4, LoadInv
<1>5. ASSUME NEW t \in Thread, Cas(t) PROVE IInv'
  BY <1>5, CasInv
<1>6. ASSUME NEW t \in Thread, SetWord(t) PROVE IInv'
  BY <1>6, SetWordInv
<1>7. ASSUME NEW t \in Thread, GetWord(t) PROVE IInv'
  BY <1>7, GetWordInv
<1>8. ASSUME NEW t \in Thread, GetReturn(t) PROVE IInv'
  BY <1>8, GetReturnInv
<1>9. ASSUME NEW t \in Thread, NEW p \in Page, Map(t, p) PROVE IInv'
  BY <1>9, MapInv
<1> QED
  BY <1>1, <1>2, <1>3, <1>4, <1>5, <1>6, <1>7, <1>8, <1>9, ZenonT(30) DEF Next

\* The tree, the unpublished pages and the calls in flight fit together in every
\* reachable state.
THEOREM Invariance == Spec => []IInv
<1> QED
  BY InitIInv, IInvStep, PTL DEF Spec

\* No update of the ownership map is lost (Settled), whatever the number of
\* threads and pages, the sizes and the ranges that set_range is called for.
THEOREM SettledAlways == Spec => []Settled
<1>1. IInv => Settled
  <2> SUFFICES ASSUME IInv PROVE Settled
    OBVIOUS
  <2>1. ASSUME NEW c \in Chunk, \A t \in Thread : c \notin Changing(t)
        PROVE  Lookup(c) <=> want[c]
    <3>1. \A t \in Thread : c \notin Left(t)
      BY <2>1, LeftChanging
    <3> QED
      BY <3>1 DEF IInv
  <2> QED
    BY <2>1 DEF Settled, IInv
<1> QED
  BY <1>1, Invariance, PTL

\* A lookup that met no change of its chunk is exact (GetExact).
THEOREM GetExactAlways == Spec => []GetExact
<1>1. IInv => GetExact
  BY Zenon DEF IInv, CallInv, GetExact
<1> QED
  BY <1>1, Invariance, PTL

\* A get_or_alloc never stands in a page that is not mapped.
LEMMA StandsMapped ==
    ASSUME IInv, NEW t \in Thread, call[t].op \in {"set", "get"}
    PROVE  call[t].at \in Places
<1>1. PICK r : r = call[t]
  BY Zenon
<1>2. OnPath(r) /\ r.at \in Spot /\ r.chunk \in Chunk
  BY <1>1, Records, ZenonT(30) DEF IInv, CallInv, SetRec, GetRec
<1>3. PICK c \in Chunk : c = r.chunk
  BY <1>2, ZenonT(30)
<1>4. r.at # Null
  BY <1>2, ConstAssumption, Zenon DEF Spot
<1> QED
  BY <1>1, <1>2, <1>3, <1>4, WayMapped, Zenon DEF OnPath, Places

\* Every mapped page is reached from one entry or held by one thread that has
\* still to publish it, and no thread stands in an unmapped page (PagesOwned):
\* the losers of get_or_alloc's compare-exchange leak nothing, whatever the
\* number of threads that race for a page.
LEMMA ImpliesPagesOwned ==
    ASSUME IInv
    PROVE  PagesOwned
<1>1. ASSUME NEW p \in Page
      PROVE  Cardinality({s \in Places \X Index : entry[s[1]][s[2]] = p})
             + Cardinality({t \in Thread : call[t].op = "set" /\ call[t].new = p})
                 = IF p \in mapped THEN 1 ELSE 0
  <2>1. PICK E : E = {s \in Places \X Index : entry[s[1]][s[2]] = p}
    BY Zenon
  <2>2. PICK T : T = {t \in Thread : call[t].op = "set" /\ call[t].new = p}
    BY ZenonT(30)
  <2>3. Tree /\ Hands /\ p # Null /\ Places \subseteq Spot /\ Root \in Places
    BY ConstAssumption, Zenon DEF IInv, TypeOK, Places, Spot
  <2>4. ASSUME NEW t \in Thread PROVE t \in T <=> Unpublished(t) = p
    BY <2>2, <2>3, Zenon DEF Unpublished
  <2>5. ASSUME NEW x \in Places, NEW i \in Index PROVE <<x, i>> \in E <=> entry[x][i] = p
    BY <2>1
  <2>6. ASSUME NEW e \in E
        PROVE  \E x \in Places, i \in Index : e = <<x, i>> /\ entry[x][i] = p
    BY <2>1
  <2>7. T \subseteq Thread
    BY <2>2
  <2>8. ASSUME NEW x \in Spot, NEW i \in Index, entry[x][i] = p PROVE x \in Places
    <3>1. CASE x = Root
      BY <2>3, <3>1, Zenon
    <3>2. CASE x \in Page
      <4>1. PICK j \in Index : entry[Root][j] = x
        BY <2>3, <2>8, <3>2, Zenon DEF Tree
      <4>2. x # Null /\ Root \in Spot
        BY <3>2, ConstAssumption DEF Spot
      <4> QED
        BY <2>3, <4>1, <4>2, Zenon DEF Tree, Places
    <3> QED
      BY <3>1, <3>2 DEF Spot
  <2>9. Cardinality({}) = 0
    BY FS_EmptySet
  <2>10. ASSUME p \notin mapped PROVE Cardinality(E) = 0 /\ Cardinality(T) = 0
    <3>1. E = {}
      BY <2>3, <2>6, <2>10 DEF Tree
    <3>2. T = {}
      BY <2>3, <2>4, <2>7, <2>10 DEF Hands
    <3> QED
      BY <2>9, <3>1, <3>2, Zenon
  <2>11. ASSUME p \in mapped, \E x \in Spot, i \in Index : entry[x][i] = p
         PROVE  Cardinality(E) = 1 /\ Cardinality(T) = 0
    <3>1. PICK x \in Spot, i \in Index : entry[x][i] = p
      BY <2>11
    <3>2. PICK e : e = <<x, i>>
      BY ZenonT(30)
    <3>3. E = {e}
      <4>1. e \in E
        BY <2>5, <2>8, <3>1, <3>2, Zenon
      <4>2. ASSUME NEW f \in E PROVE f = e
        <5>1. PICK y \in Places, j \in Index : f = <<y, j>> /\ entry[y][j] = p
          BY <2>6, Zenon
        <5>2. x = y /\ i = j
          BY <2>3, <3>1, <5>1 DEF Tree
        <5> QED
          BY <3>2, <5>1, <5>2, Zenon
      <4> QED
        BY <4>1, <4>2, Zenon
    <3>4. T = {}
      BY <2>3, <2>4, <2>7, <3>1 DEF Hands
    <3>5. Cardinality({e}) = 1
      BY FS_Singleton
    <3> QED
      BY <2>9, <3>3, <3>4, <3>5, Zenon
  <2>12. ASSUME p \in mapped, ~\E x \in Spot, i \in Index : entry[x][i] = p
         PROVE  Cardinality(E) = 0 /\ Cardinality(T) = 1
    <3>1. PICK t \in Thread : Unpublished(t) = p
      BY <2>3, <2>12, ZenonT(30) DEF Hands
    <3>2. T = {t}
      BY <2>3, <2>4, <2>7, <3>1 DEF Hands
    <3>3. E = {}
      BY <2>3, <2>6, <2>12
    <3>4. Cardinality({t}) = 1
      BY FS_Singleton
    <3> QED
      BY <2>9, <3>2, <3>3, <3>4, Zenon
  <2>13. Cardinality(E) + Cardinality(T) = IF p \in mapped THEN 1 ELSE 0
    BY <2>10, <2>11, <2>12
  <2> QED
    BY <2>1, <2>2, <2>13
<1> QED
  BY <1>1, StandsMapped, ZenonT(30) DEF PagesOwned

\* ... and so in every reachable state.
THEOREM PagesOwnedAlways == Spec => []PagesOwned
<1> QED
  BY Invariance, ImpliesPagesOwned, PTL

==============================================================================
