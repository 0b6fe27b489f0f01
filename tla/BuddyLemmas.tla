---------------------------- MODULE BuddyLemmas ----------------------------
(***************************************************************************)
(* What the theorems about Buddy rest on: powers of two and siblings, the  *)
(* free lists, the exchange of blocks that one step makes, and that the    *)
(* actions which move a block (take, split, hand out, free, merge, grow)   *)
(* preserve the inductive invariant IInv.                                  *)
(***************************************************************************)
EXTENDS Buddy, WellFoundedInduction, TLAPS

------------------------------------------------------------------------------
(* Powers of two *)

\* A nonempty set of naturals has a least element.
LEMMA LeastOf ==
    ASSUME NEW S \in SUBSET Nat, S # {}
    PROVE  \E m \in S : \A n \in S : m <= n
<1>1. IsWellFoundedOn(OpToRel(<, Nat), Nat)
  BY NatLessThanWellFounded, Zenon
<1>2. PICK m \in S : \A n \in S : <<n, m>> \notin OpToRel(<, Nat)
  BY <1>1, WFMin, Zenon
<1>3. \A n \in S : ~(n < m)
  BY <1>2, Zenon DEF OpToRel
<1> QED
  BY <1>3

\* g doubles from 1 up to n.
Doubles(g, n) ==
    g \in [0..n -> Nat \ {0}] /\ g[0] = 1 /\ \A i \in 0..(n - 1) : g[i + 1] = 2 * g[i]

\* Such a table exists for every n.
LEMMA DoublesExist ==
    ASSUME NEW n \in Nat
    PROVE  \E g : Doubles(g, n)
<1>1. PICK S : S = {k \in Nat : ~\E g : Doubles(g, k)}
  BY Zenon
<1>2. S = {}
  <2> SUFFICES ASSUME S # {} PROVE FALSE
    OBVIOUS
  <2>1. PICK m \in S : \A k \in S : m <= k
    BY <1>1, LeastOf
  <2>2. m \in Nat
    BY <1>1
  <2>3. CASE m = 0
    <3>1. PICK g : g = [i \in 0..0 |-> 1]
      BY Zenon
    <3>2. Doubles(g, 0)
      BY <3>1 DEF Doubles
    <3> QED
      BY <1>1, <2>3, <3>2
  <2>4. CASE m # 0
    <3>1. PICK k \in Nat : m = k + 1
      BY <2>2, <2>4
    <3>2. k \notin S
      BY <2>1, <3>1
    <3>3. PICK g : Doubles(g, k)
      BY <1>1, <3>2
    <3>4. PICK h : h = [i \in 0..m |-> IF i = m THEN 2 * g[k] ELSE g[i]]
      BY Zenon
    <3>5. g[k] \in Nat \ {0} /\ \A i \in 0..k : g[i] \in Nat \ {0}
      BY <3>3 DEF Doubles
    <3>6. h \in [0..m -> Nat \ {0}]
      BY <3>1, <3>4, <3>5
    <3>7. h[0] = 1
      BY <3>1, <3>3, <3>4 DEF Doubles
    <3>8. ASSUME NEW i \in 0..(m - 1) PROVE h[i + 1] = 2 * h[i]
      <4>1. i \in 0..k /\ h[i] = g[i]
        BY <3>1, <3>4
      <4>2. CASE i = k
        BY <3>1, <3>4, <4>1, <4>2
      <4>3. CASE i # k
        <5>1. i \in 0..(k - 1) /\ i + 1 \in 0..m /\ i + 1 # m
          BY <3>1, <4>1, <4>3
        <5>2. h[i + 1] = g[i + 1] /\ g[i + 1] = 2 * g[i]
          BY <3>3, <3>4, <5>1 DEF Doubles
        <5> QED
          BY <4>1, <5>2
      <4> QED
        BY <4>2, <4>3
    <3>9. Doubles(h, m)
      BY <3>6, <3>7, <3>8 DEF Doubles
    <3> QED
      BY <1>1, <3>9
  <2> QED
    BY <2>3, <2>4
<1> QED
  BY <1>1, <1>2

\* Tables of different lengths agree where both are defined.
LEMMA DoublesAgree ==
    ASSUME NEW n \in Nat, NEW g, NEW h, Doubles(g, n), Doubles(h, n + 1)
    PROVE  g[n] = h[n]
<1>1. PICK S : S = {k \in 0..n : g[k] # h[k]}
  BY Zenon
<1>2. S = {}
  <2> SUFFICES ASSUME S # {} PROVE FALSE
    OBVIOUS
  <2>1. PICK m \in S : \A k \in S : m <= k
    BY <1>1, LeastOf
  <2>2. m \in 0..n /\ g[m] # h[m]
    BY <1>1
  <2>3. CASE m = 0
    BY <2>2, <2>3 DEF Doubles
  <2>4. CASE m # 0
    <3>1. PICK k \in 0..(n - 1) : m = k + 1
      BY <2>2, <2>4
    <3>2. k \in 0..n /\ k \notin S
      BY <2>1, <3>1
    <3>3. g[k] = h[k]
      BY <1>1, <3>2
    <3>4. k \in 0..((n + 1) - 1)
      BY <3>1
    <3>5. g[k + 1] = 2 * g[k] /\ h[k + 1] = 2 * h[k]
      BY <3>1, <3>4, Zenon DEF Doubles
    <3> QED
      BY <2>2, <3>1, <3>3, <3>5
  <2> QED
    BY <2>3, <2>4
<1> QED
  BY <1>1, <1>2

\* The recursion that defines Pow2 has a solution, so Pow2 is one.
LEMMA Pow2Unfolds ==
    Pow2 = [n \in Nat |-> IF n = 0 THEN 1 ELSE 2 * Pow2[n - 1]]
<1>1. PICK G : G = [n \in Nat |-> CHOOSE g : Doubles(g, n)]
  BY Zenon
<1>2. ASSUME NEW n \in Nat PROVE Doubles(G[n], n)
  BY <1>1, DoublesExist
<1>3. PICK f : f = [n \in Nat |-> G[n][n]]
  BY Zenon
<1>4. ASSUME NEW n \in Nat PROVE f[n] = IF n = 0 THEN 1 ELSE 2 * f[n - 1]
  <2>1. CASE n = 0
    BY <1>2, <1>3, <2>1 DEF Doubles
  <2>2. CASE n # 0
    <3>1. PICK k \in Nat : n = k + 1
      BY <2>2
    <3>2. G[k][k] = G[n][k]
      BY <1>2, <3>1, DoublesAgree
    <3>3. k \in 0..(n - 1)
      BY <3>1
    <3>4. G[n][k + 1] = 2 * G[n][k]
      BY <1>2, <3>3 DEF Doubles
    <3>5. f[n] = G[n][n] /\ f[k] = G[k][k] /\ n - 1 = k
      BY <1>3, <3>1
    <3> QED
      BY <2>2, <3>1, <3>2, <3>4, <3>5
  <2> QED
    BY <2>1, <2>2
<1>5. f = [n \in Nat |-> IF n = 0 THEN 1 ELSE 2 * f[n - 1]]
  BY <1>3, <1>4
<1>6. \E e : e = [n \in Nat |-> IF n = 0 THEN 1 ELSE 2 * e[n - 1]]
  BY <1>5
<1> QED
  BY <1>6, Zenon DEF Pow2

\* Pow2 is the table: it doubles from 1, and 1 << n is never 0.
LEMMA Pow2Facts ==
    ASSUME NEW n \in Nat
    PROVE  Pow2[0] = 1 /\ Pow2[n] \in Nat \ {0} /\ Pow2[n + 1] = 2 * Pow2[n]
<1>1. ASSUME NEW k \in Nat PROVE Pow2[k] = IF k = 0 THEN 1 ELSE 2 * Pow2[k - 1]
  BY Pow2Unfolds
<1>2. Pow2[0] = 1
  BY <1>1
<1>3. ASSUME NEW k \in Nat PROVE Pow2[k + 1] = 2 * Pow2[k]
  <2>1. k + 1 \in Nat /\ k + 1 # 0 /\ (k + 1) - 1 = k
    OBVIOUS
  <2> QED
    BY <1>1, <2>1
<1>4. PICK S : S = {k \in Nat : Pow2[k] \notin Nat \ {0}}
  BY Zenon
<1>5. S = {}
  <2> SUFFICES ASSUME S # {} PROVE FALSE
    OBVIOUS
  <2>1. PICK m \in S : \A k \in S : m <= k
    BY <1>4, LeastOf
  <2>2. m \in Nat /\ Pow2[m] \notin Nat \ {0}
    BY <1>4
  <2>3. m # 0
    BY <1>2, <2>2
  <2>4. PICK k \in Nat : m = k + 1
    BY <2>2, <2>3
  <2>5. k \notin S
    BY <2>1, <2>4
  <2>6. Pow2[k] \in Nat \ {0}
    BY <1>4, <2>5
  <2>7. Pow2[m] = 2 * Pow2[k]
    BY <1>3, <2>4
  <2> QED
    BY <2>2, <2>6, <2>7
<1> QED
  BY <1>2, <1>3, <1>4, <1>5

------------------------------------------------------------------------------
(* Blocks and their units *)

\* Division with remainder, and its uniqueness.
LEMMA DivFacts ==
    ASSUME NEW a \in Nat, NEW w \in Nat \ {0}
    PROVE  a \div w \in Nat /\ a % w \in 0..(w - 1) /\ a = w * (a \div w) + (a % w)
OBVIOUS

\* A multiple leaves no remainder.
LEMMA Multiple ==
    ASSUME NEW w \in Nat \ {0}, NEW q \in Nat, NEW a \in Nat, a = w * q
    PROVE  a % w = 0
<1>1. PICK k \in Nat, s \in 0..(w - 1) : k = a \div w /\ s = a % w /\ a = w * k + s
  BY DivFacts, ZenonT(30)
<1>2. ~(q < k)
  <2> SUFFICES ASSUME q + 1 <= k PROVE FALSE
    OBVIOUS
  <2>1. w * (q + 1) <= w * k /\ w * (q + 1) = w * q + w
    OBVIOUS
  <2>2. w * q \in Nat /\ w * k \in Nat
    OBVIOUS
  <2> QED
    BY <1>1, <2>1, <2>2
<1>3. ~(k < q)
  <2> SUFFICES ASSUME k + 1 <= q PROVE FALSE
    OBVIOUS
  <2>1. w * (k + 1) <= w * q /\ w * (k + 1) = w * k + w
    OBVIOUS
  <2>2. w * q \in Nat /\ w * k \in Nat
    OBVIOUS
  <2> QED
    BY <1>1, <2>1, <2>2
<1>4. q = k
  BY <1>2, <1>3
<1> QED
  BY <1>1, <1>4

\* Both halves of a block at a multiple of 2w start at a multiple of w.
LEMMA HalvesAligned ==
    ASSUME NEW w \in Nat \ {0}, NEW v, v = 2 * w, NEW a \in Nat, a % v = 0
    PROVE  a % w = 0 /\ (a + w) % w = 0
<1>1. PICK q \in Nat : a = v * q
  BY DivFacts
<1>2. a = w * (2 * q) /\ a + w = w * (2 * q + 1) /\ 2 * q \in Nat /\ 2 * q + 1 \in Nat /\ a + w \in Nat
  BY <1>1
<1> QED
  BY <1>2, Multiple

\* Block number k of width w is at a: the lower of it and its sibling is at a multiple of v.
LowerIs(a, w, v, k) ==
    /\ k % 2 = 0 => a % v = 0
    /\ k % 2 # 0 => a >= w /\ (a - w) % v = 0

\* The lower of two siblings of size w starts at a multiple of 2w.
LEMMA LowerAligned ==
    ASSUME NEW w \in Nat \ {0}, NEW v \in Nat, v = 2 * w, NEW a \in Nat, a % w = 0,
           NEW k \in Nat, k = a \div w
    PROVE  LowerIs(a, w, v, k)
<1>1. k \in Nat /\ a = w * k
  BY DivFacts
<1>2. CASE k % 2 = 0
  <2>1. PICK j \in Nat : k = 2 * j
    BY <1>2
  <2>2. a = v * j /\ v \in Nat \ {0}
    BY <1>1, <2>1
  <2>3. a % v = 0
    BY <2>2, Multiple
  <2> QED
    BY <1>1, <1>2, <2>3 DEF LowerIs
<1>3. CASE k % 2 # 0
  <2>1. PICK j \in Nat : k = 2 * j + 1
    BY <1>3
  <2>2. a = v * j + w /\ v * j \in Nat
    BY <1>1, <2>1
  <2>3. a >= w /\ a - w = v * j /\ a - w \in Nat /\ v \in Nat \ {0}
    BY <2>2
  <2>4. (a - w) % v = 0
    BY <2>3, Multiple
  <2> QED
    BY <1>1, <1>3, <2>3, <2>4 DEF LowerIs
<1> QED
  BY <1>2, <1>3

\* A block of order o may be at a.
Fit(a, o) == a \in Addr /\ o \in Order /\ a % Pow2[o] = 0 /\ a + Pow2[o] <= Size

\* The numbers a region is made of.
LEMMA Widths ==
    /\ MaxOrder \in Nat /\ Tops \in Nat \ {0} /\ Size \in Nat \ {0} /\ Addr \subseteq Nat
    /\ Order \subseteq Nat
    /\ \A a \in Nat : a \in Addr <=> a < Size
    /\ \A o \in Order : Pow2[o] \in Nat \ {0}
    /\ \A o \in Order : o < MaxOrder => o + 1 \in Order /\ Pow2[o + 1] = 2 * Pow2[o]
    /\ \A o \in Order : o > 0 => o - 1 \in Order /\ Pow2[o] = 2 * Pow2[o - 1]
<1>1. MaxOrder \in Nat /\ Tops \in Nat \ {0}
  BY ConstAssumption
<1>2. Order \subseteq Nat
  BY <1>1 DEF Order
<1>3. \A o \in Order : Pow2[o] \in Nat \ {0}
  BY <1>2, Pow2Facts
<1>4. PICK w \in Nat \ {0} : w = Pow2[MaxOrder]
  BY <1>1, Pow2Facts
<1>5. Size \in Nat \ {0}
  BY <1>1, <1>4 DEF Size
<1>6. Addr \subseteq Nat /\ \A a \in Nat : a \in Addr <=> a < Size
  BY <1>5 DEF Addr
<1>7. ASSUME NEW o \in Order, o < MaxOrder PROVE o + 1 \in Order /\ Pow2[o + 1] = 2 * Pow2[o]
  BY <1>1, <1>2, <1>7, Pow2Facts DEF Order
<1>8. ASSUME NEW o \in Order, o > 0 PROVE o - 1 \in Order /\ Pow2[o] = 2 * Pow2[o - 1]
  <2>1. PICK k \in Nat : o = k + 1
    BY <1>2, <1>8
  <2>2. k \in Order /\ o - 1 = k
    BY <1>1, <2>1 DEF Order
  <2> QED
    BY <2>1, <2>2, Pow2Facts
<1> QED
  BY <1>1, <1>2, <1>3, <1>5, <1>6, <1>7, <1>8, Zenon

\* The units of a block in its region.
LEMMA UnitsIn ==
    ASSUME NEW a, NEW o, Fit(a, o)
    PROVE  /\ a \in Nat /\ UnitsOf(a, o) \subseteq Addr /\ a \in UnitsOf(a, o)
           /\ \A u \in Addr : u \in UnitsOf(a, o) <=> a <= u /\ u < a + Pow2[o]
<1>1. PICK w \in Nat \ {0} : w = Pow2[o]
  BY Widths DEF Fit
<1>2. a \in Nat /\ a + w <= Size /\ Size \in Nat
  BY <1>1, Widths DEF Fit
<1>3. UnitsOf(a, o) = a..(a + w - 1)
  BY <1>1 DEF UnitsOf
<1> QED
  BY <1>1, <1>2, <1>3, Widths

\* A block is the sum of its halves.
LEMMA Halves ==
    ASSUME NEW a, NEW o, Fit(a, o), o > 0, NEW h, h = a + Pow2[o - 1]
    PROVE  /\ Fit(a, o - 1) /\ Fit(h, o - 1) /\ h # a /\ h \in UnitsOf(a, o)
           /\ \A u \in Addr : u \in UnitsOf(a, o) <=> u \in UnitsOf(a, o - 1) \/ u \in UnitsOf(h, o - 1)
           /\ \A u \in Addr : ~(u \in UnitsOf(a, o - 1) /\ u \in UnitsOf(h, o - 1))
<1>1. PICK k \in Order : k = o - 1 /\ Pow2[o] = 2 * Pow2[k]
  BY Widths DEF Fit
<1>2. PICK w \in Nat \ {0} : w = Pow2[k]
  BY Widths
<1>3. PICK v : v = 2 * w
  BY Zenon
<1>4. a \in Nat /\ a % v = 0 /\ a + v <= Size /\ h = a + w /\ Size \in Nat /\ v \in Nat
  BY <1>1, <1>2, <1>3, Widths DEF Fit
<1>5. a % w = 0 /\ h % w = 0
  BY <1>3, <1>4, HalvesAligned, ZenonT(30)
<1>6. h \in Nat /\ h < Size /\ h # a /\ h + w <= Size /\ a + w <= Size
  BY <1>2, <1>3, <1>4
<1>7. Fit(a, k) /\ Fit(h, k)
  BY <1>2, <1>4, <1>5, <1>6, Widths DEF Fit
<1>8. /\ \A u \in Addr : u \in UnitsOf(a, o) <=> a <= u /\ u < a + v
      /\ \A u \in Addr : u \in UnitsOf(a, k) <=> a <= u /\ u < a + w
      /\ \A u \in Addr : u \in UnitsOf(h, k) <=> h <= u /\ u < h + w
      /\ h \in Addr
  BY <1>1, <1>2, <1>3, <1>7, UnitsIn DEF Fit
<1>9. ASSUME NEW u \in Addr
      PROVE  /\ u \in UnitsOf(a, o) <=> u \in UnitsOf(a, k) \/ u \in UnitsOf(h, k)
             /\ ~(u \in UnitsOf(a, k) /\ u \in UnitsOf(h, k))
  <2>1. u \in Nat
    BY Widths
  <2> QED
    BY <1>2, <1>3, <1>4, <1>8, <2>1
<1>10. h \in UnitsOf(a, o)
  BY <1>2, <1>3, <1>4, <1>8
<1> QED
  BY <1>1, <1>6, <1>7, <1>9, <1>10

\* A block and its sibling make up the block above them.
LEMMA Siblings ==
    ASSUME NEW a, NEW o, Fit(a, o), o < MaxOrder, NEW b, b = Sibling(a, o), Fit(b, o),
           NEW m, m = IF b < a THEN b ELSE a
    PROVE  /\ a # b /\ Fit(m, o + 1)
           /\ \A u \in Addr : u \in UnitsOf(m, o + 1) <=> u \in UnitsOf(a, o) \/ u \in UnitsOf(b, o)
<1>1. PICK w \in Nat \ {0} : w = Pow2[o]
  BY Widths DEF Fit
<1>2. PICK v : v = 2 * w
  BY Zenon
<1>3. o + 1 \in Order /\ Pow2[o + 1] = v /\ v \in Nat \ {0}
  BY <1>1, <1>2, Widths DEF Fit
<1>4. /\ a \in Nat /\ b \in Nat /\ a % w = 0 /\ a + w <= Size /\ b + w <= Size /\ Size \in Nat
      /\ b = IF (a \div w) % 2 = 0 THEN a + w ELSE a - w
  BY <1>1, Widths DEF Fit, Sibling
<1>5. m \in Nat /\ m % v = 0 /\ m + v <= Size /\ a # b /\ ((m = a /\ b = a + w) \/ (m = b /\ a = b + w))
  <2>0. PICK k \in Nat : k = a \div w
    BY <1>4, DivFacts, Zenon
  <2>1. LowerIs(a, w, v, k)
    BY <1>2, <1>3, <1>4, <2>0, LowerAligned
  <2>2. (b = a + w /\ a % v = 0) \/ (b = a - w /\ a >= w /\ b % v = 0)
    BY <1>4, <2>0, <2>1, Zenon DEF LowerIs
  <2>3. CASE b = a + w /\ a % v = 0
    <3>1. ~(b < a) /\ a + v = b + w /\ a # b
      BY <1>1, <1>2, <1>4, <2>3
    <3> QED
      BY <1>4, <2>3, <3>1
  <2>4. CASE b = a - w /\ a >= w /\ b % v = 0
    <3>1. b < a /\ b + v = a + w /\ a # b /\ a = b + w
      BY <1>1, <1>2, <1>4, <2>4
    <3> QED
      BY <1>4, <2>4, <3>1
  <2> QED
    BY <2>2, <2>3, <2>4
<1>6. Fit(m, o + 1)
  BY <1>3, <1>5, Widths DEF Fit
<1>7. /\ \A u \in Addr : u \in UnitsOf(a, o) <=> a <= u /\ u < a + w
      /\ \A u \in Addr : u \in UnitsOf(b, o) <=> b <= u /\ u < b + w
      /\ \A u \in Addr : u \in UnitsOf(m, o + 1) <=> m <= u /\ u < m + v
  BY <1>1, <1>3, <1>6, UnitsIn
<1>8. ASSUME NEW u \in Addr
      PROVE  u \in UnitsOf(m, o + 1) <=> u \in UnitsOf(a, o) \/ u \in UnitsOf(b, o)
  <2>1. u \in Nat
    BY Widths
  <2>2. /\ u \in UnitsOf(a, o) <=> a <= u /\ u < a + w
        /\ u \in UnitsOf(b, o) <=> b <= u /\ u < b + w
        /\ u \in UnitsOf(m, o + 1) <=> m <= u /\ u < m + v
    BY <1>7
  <2>3. (m <= u /\ u < m + v) <=> ((a <= u /\ u < a + w) \/ (b <= u /\ u < b + w))
    BY <1>2, <1>4, <1>5, <2>1
  <2> QED
    BY <2>2, <2>3, Zenon
<1> QED
  BY <1>5, <1>6, <1>8

------------------------------------------------------------------------------
(* The free lists *)

\* push_free_block puts a block at the head.
LEMMA Linked ==
    ASSUME NEW l \in Seq(Addr), IsInjective(l), NEW a \in Addr, a \notin Range(l)
    PROVE  /\ <<a>> \o l \in Seq(Addr) /\ IsInjective(<<a>> \o l) /\ <<a>> \o l # <<>>
           /\ Range(<<a>> \o l) = Range(l) \cup {a}
<1>1. PICK m : m = <<a>> \o l
  BY Zenon
<1>2. m \in Seq(Addr) /\ Len(m) = Len(l) + 1 /\ m[1] = a /\ \A i \in 1..Len(l) : m[i + 1] = l[i]
  BY <1>1
<1>3. DOMAIN m = 1..(Len(l) + 1) /\ DOMAIN l = 1..Len(l) /\ Len(l) \in Nat
  BY <1>2
<1>4. \A i \in DOMAIN m : i = 1 \/ (i - 1 \in DOMAIN l /\ m[i] = l[i - 1])
  BY <1>2, <1>3
<1>5. Range(m) = Range(l) \cup {a}
  <2>1. ASSUME NEW x \in Range(m) PROVE x \in Range(l) \cup {a}
    BY <1>2, <1>4, <2>1 DEF Range
  <2>2. a \in Range(m)
    BY <1>2, <1>3 DEF Range
  <2>3. ASSUME NEW x \in Range(l) PROVE x \in Range(m)
    <3>1. PICK i \in DOMAIN l : x = l[i]
      BY <2>3 DEF Range
    <3>2. i + 1 \in DOMAIN m /\ m[i + 1] = x
      BY <1>2, <1>3, <3>1
    <3> QED
      BY <3>2 DEF Range
  <2> QED
    BY <2>1, <2>2, <2>3
<1>6. IsInjective(m)
  <2> SUFFICES ASSUME NEW i \in DOMAIN m, NEW j \in DOMAIN m, m[i] = m[j] PROVE i = j
    BY DEF IsInjective
  <2>1. \A k \in DOMAIN l : l[k] # a
    BY DEF Range
  <2>2. CASE i = 1 \/ j = 1
    BY <1>2, <1>4, <2>1, <2>2
  <2>3. CASE i # 1 /\ j # 1
    <3>1. i - 1 \in DOMAIN l /\ j - 1 \in DOMAIN l /\ l[i - 1] = l[j - 1]
      BY <1>4, <2>3
    <3>2. i - 1 = j - 1
      BY <3>1 DEF IsInjective
    <3> QED
      BY <1>3, <3>2
  <2> QED
    BY <2>2, <2>3
<1>7. m # <<>>
  BY <1>2, <1>3
<1> QED
  BY <1>1, <1>2, <1>5, <1>6, <1>7

\* remove_free_block unlinks a block, wherever it is.
LEMMA Unlinks ==
    ASSUME NEW l \in Seq(Addr), IsInjective(l), NEW a \in Range(l)
    PROVE  /\ Unlinked(l, a) \in Seq(Addr) /\ IsInjective(Unlinked(l, a))
           /\ Range(Unlinked(l, a)) = Range(l) \ {a}
<1>1. PICK i : i = CHOOSE j \in DOMAIN l : l[j] = a
  BY Zenon
<1>2. i \in DOMAIN l /\ l[i] = a
  <2>1. \E j \in DOMAIN l : l[j] = a
    BY DEF Range
  <2> QED
    BY <1>1, <2>1, Zenon
<1>3. PICK m : m = SubSeq(l, 1, i - 1) \o SubSeq(l, i + 1, Len(l))
  BY Zenon
<1>4. Unlinked(l, a) = m
  BY <1>1, <1>3, Zenon DEF Unlinked
<1>5. PICK n \in Nat : n = Len(l) /\ DOMAIN l = 1..n
  OBVIOUS
<1>6. /\ m \in Seq(Addr) /\ DOMAIN m = 1..(n - 1)
      /\ \A j \in 1..(n - 1) : m[j] = IF j < i THEN l[j] ELSE l[j + 1]
  <2>1. PICK p : p = SubSeq(l, 1, i - 1)
    BY Zenon
  <2>2. PICK q : q = SubSeq(l, i + 1, n)
    BY Zenon
  <2>3. p \in Seq(Addr) /\ Len(p) = i - 1 /\ \A j \in 1..(i - 1) : p[j] = l[j]
    BY <1>2, <1>5, <2>1
  <2>4. q \in Seq(Addr) /\ Len(q) = n - i /\ \A j \in 1..(n - i) : q[j] = l[i + j]
    BY <1>2, <1>5, <2>2
  <2>5. m = p \o q
    BY <1>3, <1>5, <2>1, <2>2
  <2>6. m \in Seq(Addr) /\ Len(m) = n - 1
    BY <1>2, <1>5, <2>3, <2>4, <2>5
  <2>7. ASSUME NEW j \in 1..(n - 1) PROVE m[j] = IF j < i THEN l[j] ELSE l[j + 1]
    <3>1. CASE j < i
      BY <1>2, <1>5, <2>3, <2>4, <2>5, <3>1
    <3>2. CASE ~(j < i)
      <4>1. m[j] = q[j - Len(p)]
        <5>1. j \in 1..(Len(p) + Len(q)) /\ ~(j <= Len(p))
          BY <1>2, <1>5, <2>3, <2>4, <3>2
        <5> QED
          BY <2>3, <2>4, <2>5, <5>1
      <4>2. PICK k \in 1..(n - i) : k = j - (i - 1)
        BY <1>2, <1>5, <3>2
      <4>3. q[k] = l[i + k] /\ i + k = j + 1
        BY <1>2, <1>5, <2>4, <4>2
      <4> QED
        BY <2>3, <3>2, <4>1, <4>2, <4>3, Zenon
    <3> QED
      BY <3>1, <3>2
  <2> QED
    BY <2>6, <2>7
<1>7. Range(m) = Range(l) \ {a}
  <2>1. ASSUME NEW x \in Range(m) PROVE x \in Range(l) /\ x # a
    <3>1. PICK j \in 1..(n - 1) : x = m[j]
      BY <1>6, <2>1 DEF Range
    <3>2. PICK k \in DOMAIN l : k # i /\ x = l[k]
      <4>1. PICK k : k = IF j < i THEN j ELSE j + 1
        BY Zenon
      <4>2. k \in DOMAIN l /\ k # i
        BY <1>2, <1>5, <3>1, <4>1
      <4>3. x = l[k]
        BY <1>6, <3>1, <4>1
      <4> QED
        BY <4>2, <4>3
    <3> QED
      BY <1>2, <3>2 DEF Range, IsInjective
  <2>2. ASSUME NEW x \in Range(l), x # a PROVE x \in Range(m)
    <3>1. PICK k \in DOMAIN l : x = l[k]
      BY <2>2 DEF Range
    <3>2. k # i
      BY <1>2, <2>2, <3>1
    <3>3. PICK j \in 1..(n - 1) : m[j] = x
      <4>1. CASE k < i
        BY <1>2, <1>5, <1>6, <3>1, <4>1
      <4>2. CASE k > i
        <5>1. k - 1 \in 1..(n - 1) /\ ~(k - 1 < i) /\ (k - 1) + 1 = k
          BY <1>2, <1>5, <3>1, <4>2
        <5> QED
          BY <1>6, <3>1, <5>1
      <4> QED
        BY <1>2, <1>5, <3>1, <3>2, <4>1, <4>2
    <3> QED
      BY <1>6, <3>3 DEF Range
  <2> QED
    BY <2>1, <2>2
<1>8. IsInjective(m)
  <2> SUFFICES ASSUME NEW j \in 1..(n - 1), NEW k \in 1..(n - 1), m[j] = m[k] PROVE j = k
    BY <1>6 DEF IsInjective
  <2>1. PICK x \in DOMAIN l : x = IF j < i THEN j ELSE j + 1
    BY <1>2, <1>5
  <2>2. PICK y \in DOMAIN l : y = IF k < i THEN k ELSE k + 1
    BY <1>2, <1>5
  <2>3. l[x] = l[y]
    BY <1>6, <2>1, <2>2
  <2>4. x = y
    BY <2>3 DEF IsInjective
  <2> QED
    BY <1>2, <1>5, <2>1, <2>2, <2>4
<1> QED
  BY <1>4, <1>6, <1>7, <1>8

------------------------------------------------------------------------------
(* One region's lists *)

\* A region's lists, bitmaps and mask agree.
RegOK(R) ==
    /\ R \in RegionRec
    /\ \A o \in Order : /\ IsInjective(R.free[o]) /\ R.bitmap[o] = Range(R.free[o])
                        /\ o \in R.mask <=> R.free[o] # <<>>

FreeOf(r, R) == UNION {{[r |-> r, a |-> a, o |-> o] : a \in Range(R.free[o])} : o \in Order}

\* The blocks of a region's lists.
LEMMA FreeOfIs ==
    ASSUME NEW r, NEW R, NEW b
    PROVE  b \in FreeOf(r, R) <=> \E o \in Order : \E a \in Range(R.free[o]) : b = [r |-> r, a |-> a, o |-> o]
BY DEF FreeOf

\* A block is in the list of its order.
LEMMA FreeOfHas ==
    ASSUME NEW r, NEW R, NEW a, NEW o \in Order
    PROVE  [r |-> r, a |-> a, o |-> o] \in FreeOf(r, R) <=> a \in Range(R.free[o])
<1>1. ASSUME NEW e \in Order, NEW d, [r |-> r, a |-> a, o |-> o] = [r |-> r, a |-> d, o |-> e]
      PROVE  e = o /\ d = a
  BY <1>1
<1> QED
  BY <1>1, FreeOfIs

\* What push_free_block does to a region.
LEMMA PushRec ==
    ASSUME NEW R, RegOK(R), NEW o \in Order, NEW a \in Addr, NEW s \in TrimState,
           a \notin Range(R.free[o]), NEW r, NEW Q, Q = PushFree(R, o, a, s)
    PROVE  /\ RegOK(Q) /\ Q.state = [R.state EXCEPT ![a] = s]
           /\ FreeOf(r, Q) = FreeOf(r, R) \cup {[r |-> r, a |-> a, o |-> o]}
<1>1. PICK l : l = <<a>> \o R.free[o]
  BY Zenon
<1>2. R.free \in [Order -> Seq(Addr)] /\ R.bitmap \in [Order -> SUBSET Addr] /\ R.mask \subseteq Order
      /\ R.state \in [Addr -> TrimState]
  BY DEF RegOK, RegionRec
<1>3. l \in Seq(Addr) /\ IsInjective(l) /\ l # <<>> /\ Range(l) = Range(R.free[o]) \cup {a}
  BY <1>1, <1>2, Linked DEF RegOK
<1>4. Q = [free |-> [R.free EXCEPT ![o] = l], bitmap |-> [R.bitmap EXCEPT ![o] = R.bitmap[o] \cup {a}],
           mask |-> R.mask \cup {o}, state |-> [R.state EXCEPT ![a] = s]]
  BY <1>1, <1>2, ZenonT(30) DEF PushFree, RegOK, RegionRec
<1>5. /\ Q.free = [R.free EXCEPT ![o] = l] /\ Q.bitmap = [R.bitmap EXCEPT ![o] = R.bitmap[o] \cup {a}]
      /\ Q.mask = R.mask \cup {o} /\ Q.state = [R.state EXCEPT ![a] = s]
  BY <1>4
<1>6. Q \in RegionRec
  <2>1. /\ [R.free EXCEPT ![o] = l] \in [Order -> Seq(Addr)]
        /\ [R.bitmap EXCEPT ![o] = R.bitmap[o] \cup {a}] \in [Order -> SUBSET Addr]
        /\ R.mask \cup {o} \in SUBSET Order /\ [R.state EXCEPT ![a] = s] \in [Addr -> TrimState]
    BY <1>2, <1>3
  <2> QED
    BY <1>4, <2>1 DEF RegionRec
<1>7. /\ Q.free[o] = l /\ Q.bitmap[o] = R.bitmap[o] \cup {a}
      /\ \A e \in Order \ {o} : /\ Q.free[e] = R.free[e] /\ Q.bitmap[e] = R.bitmap[e]
                                /\ e \in Q.mask <=> e \in R.mask
      /\ o \in Q.mask
  BY <1>2, <1>5, Zenon
<1>8. RegOK(Q)
  <2> SUFFICES ASSUME NEW e \in Order
               PROVE  /\ IsInjective(Q.free[e]) /\ Q.bitmap[e] = Range(Q.free[e])
                      /\ e \in Q.mask <=> Q.free[e] # <<>>
    BY <1>6, Zenon DEF RegOK
  <2>1. CASE e = o
    BY <1>3, <1>7, <2>1, Zenon DEF RegOK
  <2>2. CASE e # o
    BY <1>7, <2>2, Zenon DEF RegOK
  <2> QED
    BY <2>1, <2>2
<1>9. FreeOf(r, Q) = FreeOf(r, R) \cup {[r |-> r, a |-> a, o |-> o]}
  <2>1. \A e \in Order : Range(Q.free[e]) = IF e = o THEN Range(R.free[e]) \cup {a} ELSE Range(R.free[e])
    BY <1>3, <1>7, Zenon
  <2>2. ASSUME NEW b \in FreeOf(r, Q) PROVE b \in FreeOf(r, R) \cup {[r |-> r, a |-> a, o |-> o]}
    <3>1. PICK e \in Order : \E d \in Range(Q.free[e]) : b = [r |-> r, a |-> d, o |-> e]
      BY <2>2, FreeOfIs
    <3>2. PICK d \in Range(Q.free[e]) : b = [r |-> r, a |-> d, o |-> e]
      BY <3>1
    <3>3. d \in Range(R.free[e]) \/ (e = o /\ d = a)
      BY <2>1, Zenon
    <3>4. CASE d \in Range(R.free[e])
      BY <3>2, <3>4, FreeOfHas
    <3>5. CASE e = o /\ d = a
      BY <3>2, <3>5
    <3> QED
      BY <3>3, <3>4, <3>5
  <2>3. ASSUME NEW b \in FreeOf(r, R) PROVE b \in FreeOf(r, Q)
    <3>1. PICK e \in Order : \E d \in Range(R.free[e]) : b = [r |-> r, a |-> d, o |-> e]
      BY <2>3, FreeOfIs
    <3>2. PICK d \in Range(R.free[e]) : b = [r |-> r, a |-> d, o |-> e]
      BY <3>1
    <3> QED
      BY <2>1, <3>2, FreeOfHas, Zenon
  <2>4. [r |-> r, a |-> a, o |-> o] \in FreeOf(r, Q)
    BY <2>1, FreeOfHas, Zenon
  <2> QED
    BY <2>2, <2>3, <2>4
<1> QED
  BY <1>5, <1>8, <1>9

\* Q is region R, numbered r, without the free block of order o at a.
Removal(r, R, o, a, Q) ==
    /\ RegOK(Q) /\ Q.state = [R.state EXCEPT ![a] = "NotAllocated"] /\ a \in Addr
    /\ FreeOf(r, Q) = FreeOf(r, R) \ {[r |-> r, a |-> a, o |-> o]}

\* What remove_free_block does to a region.
LEMMA RemoveRec ==
    ASSUME NEW R, RegOK(R), NEW o \in Order, NEW a \in Range(R.free[o]), NEW r,
           NEW Q, Q = RemoveFree(R, o, a)
    PROVE  Removal(r, R, o, a, Q)
<1>1. PICK l : l = Unlinked(R.free[o], a)
  BY Zenon
<1>2. R.free \in [Order -> Seq(Addr)] /\ R.bitmap \in [Order -> SUBSET Addr] /\ R.mask \subseteq Order
      /\ R.state \in [Addr -> TrimState]
  BY DEF RegOK, RegionRec
<1>3. l \in Seq(Addr) /\ IsInjective(l) /\ Range(l) = Range(R.free[o]) \ {a}
  BY <1>1, <1>2, Unlinks DEF RegOK
<1>a. a \in Addr
  <2>1. R.free[o] \in Seq(Addr)
    BY <1>2
  <2> QED
    BY <2>1 DEF Range
<1>b. R.free[o] # <<>>
  <2>1. PICK i \in DOMAIN R.free[o] : TRUE
    BY DEF Range
  <2>2. DOMAIN <<>> = {}
    OBVIOUS
  <2> QED
    BY <2>1, <2>2
<1>4. PICK k : k = IF l = <<>> THEN R.mask \ {o} ELSE R.mask
  BY Zenon
<1>5. Q = [free |-> [R.free EXCEPT ![o] = l], bitmap |-> [R.bitmap EXCEPT ![o] = R.bitmap[o] \ {a}],
           mask |-> k, state |-> [R.state EXCEPT ![a] = "NotAllocated"]]
  BY <1>1, <1>2, <1>4, Zenon DEF RemoveFree, RegOK, RegionRec
<1>6. /\ Q.free = [R.free EXCEPT ![o] = l] /\ Q.bitmap = [R.bitmap EXCEPT ![o] = R.bitmap[o] \ {a}]
      /\ Q.mask = k /\ Q.state = [R.state EXCEPT ![a] = "NotAllocated"]
  BY <1>5
<1>7. Q \in RegionRec
  <2>1. /\ [R.free EXCEPT ![o] = l] \in [Order -> Seq(Addr)]
        /\ [R.bitmap EXCEPT ![o] = R.bitmap[o] \ {a}] \in [Order -> SUBSET Addr]
        /\ k \in SUBSET Order /\ [R.state EXCEPT ![a] = "NotAllocated"] \in [Addr -> TrimState]
    BY <1>2, <1>3, <1>4, Zenon DEF TrimState
  <2> QED
    BY <1>5, <2>1 DEF RegionRec
<1>8. /\ Q.free[o] = l /\ Q.bitmap[o] = R.bitmap[o] \ {a}
      /\ \A e \in Order \ {o} : /\ Q.free[e] = R.free[e] /\ Q.bitmap[e] = R.bitmap[e]
                                /\ e \in Q.mask <=> e \in R.mask
      /\ o \in Q.mask <=> l # <<>> /\ o \in R.mask
  BY <1>2, <1>4, <1>6
<1>9. RegOK(Q)
  <2> SUFFICES ASSUME NEW e \in Order
               PROVE  /\ IsInjective(Q.free[e]) /\ Q.bitmap[e] = Range(Q.free[e])
                      /\ e \in Q.mask <=> Q.free[e] # <<>>
    BY <1>7, Zenon DEF RegOK
  <2>1. CASE e = o
    BY <1>3, <1>8, <1>b, <2>1, Zenon DEF RegOK
  <2>2. CASE e # o
    BY <1>8, <2>2, Zenon DEF RegOK
  <2> QED
    BY <2>1, <2>2
<1>10. FreeOf(r, Q) = FreeOf(r, R) \ {[r |-> r, a |-> a, o |-> o]}
  <2>1. \A e \in Order : Range(Q.free[e]) = IF e = o THEN Range(R.free[e]) \ {a} ELSE Range(R.free[e])
    BY <1>3, <1>8, Zenon
  <2>2. ASSUME NEW b \in FreeOf(r, Q) PROVE b \in FreeOf(r, R) \ {[r |-> r, a |-> a, o |-> o]}
    <3>1. PICK e \in Order : \E d \in Range(Q.free[e]) : b = [r |-> r, a |-> d, o |-> e]
      BY <2>2, FreeOfIs
    <3>2. PICK d \in Range(Q.free[e]) : b = [r |-> r, a |-> d, o |-> e]
      BY <3>1
    <3>3. d \in Range(R.free[e]) /\ (e # o \/ d # a)
      BY <2>1, Zenon
    <3>4. b # [r |-> r, a |-> a, o |-> o]
      BY <3>2, <3>3
    <3> QED
      BY <3>2, <3>3, <3>4, FreeOfHas
  <2>3. ASSUME NEW b \in FreeOf(r, R), b # [r |-> r, a |-> a, o |-> o] PROVE b \in FreeOf(r, Q)
    <3>1. PICK e \in Order : \E d \in Range(R.free[e]) : b = [r |-> r, a |-> d, o |-> e]
      BY <2>3, FreeOfIs
    <3>2. PICK d \in Range(R.free[e]) : b = [r |-> r, a |-> d, o |-> e]
      BY <3>1, Zenon
    <3>3. d \in Range(Q.free[e])
      BY <2>1, <2>3, <3>2, Zenon
    <3> QED
      BY <3>2, <3>3, FreeOfHas
  <2> QED
    BY <2>2, <2>3, Zenon
<1> QED
  BY <1>6, <1>9, <1>10, <1>a, Zenon DEF Removal

------------------------------------------------------------------------------
(* What a step does to the blocks of a region *)

\* Exchanges in which nothing goes or nothing comes.
LEMMA Unions ==
    ASSUME NEW S, NEW T
    PROVE  (S \ {}) \cup {} = S /\ (S \ {}) \cup T = S \cup T /\ (S \ T) \cup {} = S \ T
BY Zenon

LiveIn(r) == {b \in live : b.r = r}

\* Blocks of a region that are live, free or in hand, with their places.
Trade(t, L, F, H) == ({<<"live">>} \X L) \cup ({<<"free">>} \X F) \cup ({<<"hand", t>>} \X H)

Within(S, u) == \E b \in S : u \in UnitsOf(b.a, b.o)

AtLive(b) == <<<<"live">>, b>>
AtFree(b) == <<<<"free">>, b>>
AtHand(t, b) == <<<<"hand", t>>, b>>

\* The places are told apart.
LEMMA Tags ==
    ASSUME NEW t, NEW u, NEW b, NEW c
    PROVE  /\ AtLive(b)[2] = b /\ AtFree(b)[2] = b /\ AtHand(t, b)[2] = b
           /\ AtLive(b) # AtFree(c) /\ AtLive(b) # AtHand(t, c) /\ AtFree(b) # AtHand(t, c)
           /\ AtLive(b) = AtLive(c) => b = c
           /\ AtFree(b) = AtFree(c) => b = c
           /\ AtHand(t, b) = AtHand(u, c) => t = u /\ b = c
<1>1. AtLive(b)[2] = b /\ AtFree(b)[2] = b /\ AtHand(t, b)[2] = b /\ AtHand(u, c)[2] = c
  BY DEF AtLive, AtFree, AtHand
<1>2. AtLive(b)[2] = b /\ AtLive(c)[2] = c /\ AtFree(c)[2] = c
  BY DEF AtLive, AtFree
<1>3. AtLive(b)[1][1] = "live" /\ AtFree(c)[1][1] = "free" /\ AtHand(t, c)[1][1] = "hand"
      /\ AtFree(b)[1][1] = "free" /\ AtHand(t, b)[1][2] = t /\ AtHand(u, c)[1][2] = u
  BY DEF AtLive, AtFree, AtHand
<1>4. "live" # "free" /\ "hand" # "live" /\ "hand" # "free"
  OBVIOUS
<1> QED
  BY <1>1, <1>2, <1>3, <1>4, Zenon

\* What is in a trade.
LEMMA TradeIs ==
    ASSUME NEW t, NEW L, NEW F, NEW H, NEW p
    PROVE  p \in Trade(t, L, F, H) <=> \/ \E b \in L : p = AtLive(b)
                                       \/ \E b \in F : p = AtFree(b)
                                       \/ \E b \in H : p = AtHand(t, b)
BY DEF Trade, AtLive, AtFree, AtHand

\* Each place, compared with the others.
LEMMA LiveTag ==
    ASSUME NEW b
    PROVE  /\ \A c : AtLive(b) = AtLive(c) => b = c
           /\ \A c : AtLive(b) # AtFree(c)
           /\ \A u, c : AtLive(b) # AtHand(u, c)
BY Tags

\* A block on a free list is at no other place.
LEMMA FreeTag ==
    ASSUME NEW b
    PROVE  /\ \A c : AtFree(b) = AtFree(c) => b = c
           /\ \A c : AtFree(b) # AtLive(c)
           /\ \A u, c : AtFree(b) # AtHand(u, c)
BY Tags

\* A block in the hands of a call is at no other place.
LEMMA HandTag ==
    ASSUME NEW t, NEW b
    PROVE  /\ \A u, c : AtHand(t, b) = AtHand(u, c) => t = u /\ b = c
           /\ \A c : AtHand(t, b) # AtLive(c)
           /\ \A c : AtHand(t, b) # AtFree(c)
BY Tags

\* A block is in a trade at one place exactly when it is among the blocks of that place.
LEMMA InTrade ==
    ASSUME NEW t, NEW L, NEW F, NEW H, NEW b, NEW u
    PROVE  /\ AtLive(b) \in Trade(t, L, F, H) <=> b \in L
           /\ AtFree(b) \in Trade(t, L, F, H) <=> b \in F
           /\ AtHand(u, b) \in Trade(t, L, F, H) <=> u = t /\ b \in H
<1>1. AtLive(b) \in Trade(t, L, F, H) <=> b \in L
  <2>1. AtLive(b) \in Trade(t, L, F, H) <=>
            (\E c \in L : AtLive(b) = AtLive(c)) \/ (\E c \in F : AtLive(b) = AtFree(c))
            \/ (\E c \in H : AtLive(b) = AtHand(t, c))
    BY TradeIs
  <2>2. (\A c : AtLive(b) = AtLive(c) => b = c) /\ (\A c : AtLive(b) # AtFree(c)) /\ (\A c : AtLive(b) # AtHand(t, c))
    BY LiveTag
  <2> QED
    BY <2>1, <2>2, Zenon
<1>2. AtFree(b) \in Trade(t, L, F, H) <=> b \in F
  <2>1. AtFree(b) \in Trade(t, L, F, H) <=>
            (\E c \in L : AtFree(b) = AtLive(c)) \/ (\E c \in F : AtFree(b) = AtFree(c))
            \/ (\E c \in H : AtFree(b) = AtHand(t, c))
    BY TradeIs
  <2>2. (\A c : AtFree(b) = AtFree(c) => b = c) /\ (\A c : AtFree(b) # AtLive(c)) /\ (\A c : AtFree(b) # AtHand(t, c))
    BY FreeTag
  <2> QED
    BY <2>1, <2>2, Zenon
<1>3. AtHand(u, b) \in Trade(t, L, F, H) <=> u = t /\ b \in H
  <2>1. AtHand(u, b) \in Trade(t, L, F, H) <=>
            (\E c \in L : AtHand(u, b) = AtLive(c)) \/ (\E c \in F : AtHand(u, b) = AtFree(c))
            \/ (\E c \in H : AtHand(u, b) = AtHand(t, c))
    BY TradeIs
  <2>2. (\A c : AtHand(u, b) = AtHand(t, c) => u = t /\ b = c) /\ (\A c : AtHand(u, b) # AtLive(c)) /\ (\A c : AtHand(u, b) # AtFree(c))
    BY HandTag
  <2> QED
    BY <2>1, <2>2, Zenon
<1> QED
  BY <1>1, <1>2, <1>3, Zenon

\* What is placed in a region.
LEMMA PlacedIs ==
    ASSUME NEW r, NEW p
    PROVE  p \in Placed(r) <=> \/ \E b \in LiveIn(r) : p = AtLive(b)
                               \/ \E b \in Free(r) : p = AtFree(b)
                               \/ \E t \in Thread : \E b \in InHand(r, t) : p = AtHand(t, b)
BY DEF Placed, LiveIn, AtLive, AtFree, AtHand

\* A block is placed exactly when it is live, free or in hand.
LEMMA InPlaced ==
    ASSUME NEW r, NEW b, NEW t
    PROVE  /\ AtLive(b) \in Placed(r) <=> b \in LiveIn(r)
           /\ AtFree(b) \in Placed(r) <=> b \in Free(r)
           /\ AtHand(t, b) \in Placed(r) <=> t \in Thread /\ b \in InHand(r, t)
<1>1. AtLive(b) \in Placed(r) <=> b \in LiveIn(r)
  <2>1. AtLive(b) \in Placed(r) <=>
            (\E c \in LiveIn(r) : AtLive(b) = AtLive(c)) \/ (\E c \in Free(r) : AtLive(b) = AtFree(c))
            \/ (\E u \in Thread : \E c \in InHand(r, u) : AtLive(b) = AtHand(u, c))
    BY PlacedIs
  <2>2. (\A c : AtLive(b) = AtLive(c) => b = c) /\ (\A c : AtLive(b) # AtFree(c)) /\ (\A u, c : AtLive(b) # AtHand(u, c))
    BY LiveTag
  <2> QED
    BY <2>1, <2>2, Zenon
<1>2. AtFree(b) \in Placed(r) <=> b \in Free(r)
  <2>1. AtFree(b) \in Placed(r) <=>
            (\E c \in LiveIn(r) : AtFree(b) = AtLive(c)) \/ (\E c \in Free(r) : AtFree(b) = AtFree(c))
            \/ (\E u \in Thread : \E c \in InHand(r, u) : AtFree(b) = AtHand(u, c))
    BY PlacedIs
  <2>2. (\A c : AtFree(b) = AtFree(c) => b = c) /\ (\A c : AtFree(b) # AtLive(c)) /\ (\A u, c : AtFree(b) # AtHand(u, c))
    BY FreeTag
  <2> QED
    BY <2>1, <2>2, Zenon
<1>3. AtHand(t, b) \in Placed(r) <=> t \in Thread /\ b \in InHand(r, t)
  <2>1. AtHand(t, b) \in Placed(r) <=>
            (\E c \in LiveIn(r) : AtHand(t, b) = AtLive(c)) \/ (\E c \in Free(r) : AtHand(t, b) = AtFree(c))
            \/ (\E u \in Thread : \E c \in InHand(r, u) : AtHand(t, b) = AtHand(u, c))
    BY PlacedIs
  <2>2. (\A u, c : AtHand(t, b) = AtHand(u, c) => t = u /\ b = c) /\ (\A c : AtHand(t, b) # AtLive(c)) /\ (\A c : AtHand(t, b) # AtFree(c))
    BY HandTag
  <2> QED
    BY <2>1, <2>2, Zenon
<1> QED
  BY <1>1, <1>2, <1>3

\* The same after a step.
LEMMA PlacedNext ==
    ASSUME NEW r, NEW p
    PROVE  p \in Placed(r)' <=> \/ \E b \in LiveIn(r)' : p = AtLive(b)
                                \/ \E b \in Free(r)' : p = AtFree(b)
                                \/ \E t \in Thread : \E b \in InHand(r, t)' : p = AtHand(t, b)
BY DEF Placed, LiveIn, AtLive, AtFree, AtHand

\* The units of blocks that are exchanged.
LEMMA TradeUnits ==
    ASSUME NEW t, NEW L, NEW F, NEW H, NEW u
    PROVE  (\E p \in Trade(t, L, F, H) : u \in Cells(p)) <=> Within(L \cup F \cup H, u)
<1>1. \A b : AtLive(b)[2] = b /\ AtFree(b)[2] = b /\ AtHand(t, b)[2] = b
  BY Tags
<1>2. ASSUME NEW p \in Trade(t, L, F, H), u \in Cells(p) PROVE Within(L \cup F \cup H, u)
  <2>0. \/ \E b \in L : p = AtLive(b)
        \/ \E b \in F : p = AtFree(b)
        \/ \E b \in H : p = AtHand(t, b)
    BY <1>2, TradeIs
  <2>1. PICK b \in L \cup F \cup H : p[2] = b
    BY <1>1, <2>0, Zenon
  <2> QED
    BY <1>2, <2>1 DEF Cells, Within
<1>3. ASSUME Within(L \cup F \cup H, u) PROVE \E p \in Trade(t, L, F, H) : u \in Cells(p)
  <2>1. PICK b \in L \cup F \cup H : u \in UnitsOf(b.a, b.o)
    BY <1>3 DEF Within
  <2>2. PICK p \in Trade(t, L, F, H) : p[2] = b
    <3>1. CASE b \in L
      BY <1>1, <3>1, InTrade, Zenon
    <3>2. CASE b \in F
      BY <1>1, <3>2, InTrade, Zenon
    <3>3. CASE b \in H
      BY <1>1, <3>3, InTrade
    <3> QED
      BY <2>1, <3>1, <3>2, <3>3
  <2> QED
    BY <2>1, <2>2 DEF Cells
<1> QED
  BY <1>2, <1>3

\* Blocks replaced by others with the same units keep the rest apart and covered.
LEMMA Repartition ==
    ASSUME NEW P, NEW A, NEW B, A \subseteq P, Apart(P), Apart(B),
           \A u \in Addr : (\E p \in A : u \in Cells(p)) <=> (\E p \in B : u \in Cells(p)),
           NEW Q, Q = (P \ A) \cup B
    PROVE  Apart(Q) /\ (Covers(P) => Covers(Q))
<1>1. ASSUME NEW p \in Q, NEW q \in Q, NEW u \in Addr, u \in Cells(p), u \in Cells(q) PROVE p = q
  <2>1. CASE p \in B /\ q \in B
    BY <1>1, <2>1, Zenon DEF Apart
  <2>2. CASE p \in P \ A /\ q \in P \ A
    BY <1>1, <2>2, Zenon DEF Apart
  <2>3. CASE p \in P \ A /\ q \in B
    <3>1. PICK s \in A : u \in Cells(s)
      BY <1>1, <2>3
    <3> QED
      BY <1>1, <2>3, <3>1, Zenon DEF Apart
  <2>4. CASE p \in B /\ q \in P \ A
    <3>1. PICK s \in A : u \in Cells(s)
      BY <1>1, <2>4
    <3> QED
      BY <1>1, <2>4, <3>1, Zenon DEF Apart
  <2> QED
    BY <2>1, <2>2, <2>3, <2>4
<1>2. ASSUME Covers(P), NEW u \in Addr PROVE \E p \in Q : u \in Cells(p)
  <2>1. PICK p \in P : u \in Cells(p)
    BY <1>2 DEF Covers
  <2>2. CASE p \in A
    BY <2>1, <2>2
  <2>3. CASE p \notin A
    BY <2>1, <2>3
  <2> QED
    BY <2>2, <2>3
<1> QED
  BY <1>1, <1>2, Zenon DEF Apart, Covers

\* A step of thread t in region x exchanges the blocks LA, FA and HA for LB, FB
\* and HB with the same units, and writes nothing else.
Exchange(x, t, LA, FA, HA, LB, FB, HB) ==
    /\ LA \subseteq LiveIn(x) /\ FA \subseteq Free(x) /\ HA \subseteq InHand(x, t)
    /\ LA \cup FA \cup HA # {}
    /\ LiveIn(x)' = (LiveIn(x) \ LA) \cup LB
    /\ Free(x)' = (Free(x) \ FA) \cup FB
    /\ InHand(x, t)' = (InHand(x, t) \ HA) \cup HB
    /\ \A b \in LB \cup FB \cup HB : Fits(b)
    /\ Apart(Trade(t, LB, FB, HB))
    /\ \A u \in Addr : Within(LA \cup FA \cup HA, u) <=> Within(LB \cup FB \cup HB, u)
    /\ \A u \in Addr : ~Within(LA \cup FA \cup HA, u) =>
           dirt'[x][u] = dirt[x][u] /\ reg'[x].state[u] = reg[x].state[u]
    /\ \A b \in FB : Honest(dirt'[x], reg'[x].state[b.a], b.a, b.o)

\* It touches no other region and no other call.
Elsewhere(x, t) ==
    /\ regions' = regions
    /\ \A r \in Region \ {x} : /\ reg'[r] = reg[r] /\ dirt'[r] = dirt[r]
                               /\ LiveIn(r)' = LiveIn(r) /\ InHand(r, t)' = InHand(r, t)
    /\ \A u \in Thread \ {t} : call'[u] = call[u]

HonestHand(t) == call[t].op = "split" => Honest(dirt[call[t].r], call[t].s, call[t].a, call[t].o)

\* A call that does not move keeps its block.
LEMMA InHandKept ==
    ASSUME NEW u, NEW r, call'[u] = call[u]
    PROVE  InHand(r, u)' = InHand(r, u)
BY Zenon DEF InHand

\* A region that is not written keeps its free blocks.
LEMMA FreeKept ==
    ASSUME NEW r, reg'[r] = reg[r]
    PROVE  Free(r)' = Free(r)
BY Zenon DEF Free

\* The blocks of the region after an exchange.
LEMMA Exchanged ==
    ASSUME NEW x \in Region, NEW t \in Thread, NEW LA, NEW FA, NEW HA, NEW LB, NEW FB, NEW HB,
           Exchange(x, t, LA, FA, HA, LB, FB, HB), Elsewhere(x, t)
    PROVE  /\ Placed(x)' = (Placed(x) \ Trade(t, LA, FA, HA)) \cup Trade(t, LB, FB, HB)
           /\ Trade(t, LA, FA, HA) \subseteq Placed(x)
<1>1. \A u \in Thread \ {t} : InHand(x, u)' = InHand(x, u)
  BY InHandKept, Zenon DEF Elsewhere
<1>3. /\ LiveIn(x)' = (LiveIn(x) \ LA) \cup LB /\ Free(x)' = (Free(x) \ FA) \cup FB
      /\ InHand(x, t)' = (InHand(x, t) \ HA) \cup HB
      /\ LA \subseteq LiveIn(x) /\ FA \subseteq Free(x) /\ HA \subseteq InHand(x, t)
  BY DEF Exchange
<1>4. PICK A : A = Trade(t, LA, FA, HA)
  BY Zenon
<1>5. PICK B : B = Trade(t, LB, FB, HB)
  OBVIOUS
<1>9. ASSUME NEW p \in Placed(x)' PROVE p \in (Placed(x) \ A) \cup B
  <2>0. \/ \E b \in LiveIn(x)' : p = AtLive(b)
        \/ \E b \in Free(x)' : p = AtFree(b)
        \/ \E u \in Thread : \E b \in InHand(x, u)' : p = AtHand(u, b)
    BY <1>9, PlacedNext
  <2>1. ASSUME NEW b \in LiveIn(x)', p = AtLive(b) PROVE p \in (Placed(x) \ A) \cup B
    <3>1. (p \in Placed(x) <=> b \in LiveIn(x)) /\ (p \in A <=> b \in LA) /\ (p \in B <=> b \in LB)
      BY <1>4, <1>5, <2>1, InTrade, InPlaced, ZenonT(30)
    <3> QED
      BY <1>3, <2>1, <3>1, Zenon
  <2>2. ASSUME NEW b \in Free(x)', p = AtFree(b) PROVE p \in (Placed(x) \ A) \cup B
    <3>1. (p \in Placed(x) <=> b \in Free(x)) /\ (p \in A <=> b \in FA) /\ (p \in B <=> b \in FB)
      BY <1>4, <1>5, <2>2, InTrade, InPlaced, ZenonT(30)
    <3> QED
      BY <1>3, <2>2, <3>1, Zenon
  <2>3. ASSUME NEW u \in Thread, NEW b \in InHand(x, u)', p = AtHand(u, b)
        PROVE  p \in (Placed(x) \ A) \cup B
    <3>1. (p \in Placed(x) <=> b \in InHand(x, u)) /\ (p \in A <=> u = t /\ b \in HA)
          /\ (p \in B <=> u = t /\ b \in HB)
      BY <1>4, <1>5, <2>3, InTrade, InPlaced, ZenonT(30)
    <3>2. CASE u = t
      BY <1>3, <2>3, <3>1, <3>2, ZenonT(30)
    <3>3. CASE u # t
      BY <1>1, <2>3, <3>1, <3>3, ZenonT(30)
    <3> QED
      BY <3>2, <3>3, Zenon
  <2> QED
    BY <2>0, <2>1, <2>2, <2>3, Zenon
<1>10. ASSUME NEW p \in B PROVE p \in Placed(x)'
  <2>1. \/ \E b \in LB : p = AtLive(b)
        \/ \E b \in FB : p = AtFree(b)
        \/ \E b \in HB : p = AtHand(t, b)
    BY <1>5, <1>10, TradeIs
  <2> QED
    BY <1>3, <2>1, PlacedNext, Zenon
<1>11. ASSUME NEW p \in Placed(x), p \notin A PROVE p \in Placed(x)'
  <2>0. \/ \E b \in LiveIn(x) : p = AtLive(b)
        \/ \E b \in Free(x) : p = AtFree(b)
        \/ \E u \in Thread : \E b \in InHand(x, u) : p = AtHand(u, b)
    BY <1>11, PlacedIs
  <2>1. ASSUME NEW b \in LiveIn(x), p = AtLive(b) PROVE p \in Placed(x)'
    <3>1. b \notin LA
      BY <1>4, <1>11, <2>1, InTrade, ZenonT(30)
    <3> QED
      BY <1>3, <2>1, <3>1, PlacedNext, Zenon
  <2>2. ASSUME NEW b \in Free(x), p = AtFree(b) PROVE p \in Placed(x)'
    <3>1. b \notin FA
      BY <1>4, <1>11, <2>2, InTrade, ZenonT(30)
    <3> QED
      BY <1>3, <2>2, <3>1, PlacedNext, Zenon
  <2>3. ASSUME NEW u \in Thread, NEW b \in InHand(x, u), p = AtHand(u, b)
        PROVE  p \in Placed(x)'
    <3>1. u # t \/ b \notin HA
      BY <1>4, <1>11, <2>3, InTrade, ZenonT(30)
    <3>2. b \in InHand(x, u)'
      BY <1>1, <1>3, <2>3, <3>1, ZenonT(30)
    <3> QED
      BY <2>3, <3>2, PlacedNext, Zenon
  <2> QED
    BY <2>0, <2>1, <2>2, <2>3, Zenon
<1>12. ASSUME NEW p \in A PROVE p \in Placed(x)
  <2>1. \/ \E b \in LA : p = AtLive(b)
        \/ \E b \in FA : p = AtFree(b)
        \/ \E b \in HA : p = AtHand(t, b)
    BY <1>4, <1>12, TradeIs
  <2> QED
    BY <1>3, <2>1, PlacedIs, Zenon
<1>13. Placed(x)' = (Placed(x) \ A) \cup B
  BY <1>9, <1>10, <1>11, Zenon
<1> QED
  BY <1>4, <1>5, <1>12, <1>13

\* A trim state stays true while nobody writes the block.
LEMMA HonestSame ==
    ASSUME NEW d, NEW e, NEW s, NEW a, NEW o, Honest(d, s, a, o), a \in UnitsOf(a, o),
           \A u \in UnitsOf(a, o) : e[u] = d[u]
    PROVE  Honest(e, s, a, o)
BY DEF Honest

\* The blocks that are not exchanged share no unit with those that are.
LEMMA Untouched ==
    ASSUME NEW x, Tiled(x), NEW t, NEW L, NEW F, NEW H, Trade(t, L, F, H) \subseteq Placed(x),
           NEW p \in Placed(x), NEW b, b = p[2], p \notin Trade(t, L, F, H)
    PROVE  /\ b.a \in UnitsOf(b.a, b.o) /\ UnitsOf(b.a, b.o) \subseteq Addr
           /\ \A u \in UnitsOf(b.a, b.o) : ~Within(L \cup F \cup H, u)
<1>2. Fits(b)
  BY Zenon DEF Tiled
<1>3. Fit(b.a, b.o)
  BY <1>2 DEF Fits, Fit, Block
<1>4. b.a \in UnitsOf(b.a, b.o) /\ UnitsOf(b.a, b.o) \subseteq Addr
  BY <1>3, UnitsIn
<1>5. ASSUME NEW u \in UnitsOf(b.a, b.o), Within(L \cup F \cup H, u) PROVE FALSE
  <2>1. PICK q \in Trade(t, L, F, H) : u \in Cells(q)
    BY <1>5, TradeUnits, ZenonT(30)
  <2>2. u \in Cells(p) /\ u \in Addr
    BY <1>4 DEF Cells
  <2>3. p = q
    BY <2>1, <2>2, Zenon DEF Tiled, Apart
  <2> QED
    BY <2>1, <2>3
<1> QED
  BY <1>4, <1>5, Zenon

\* An exchange keeps every region tiled.
LEMMA ExchangeTiled ==
    ASSUME NEW x \in Region, NEW t \in Thread, NEW LA, NEW FA, NEW HA, NEW LB, NEW FB, NEW HB,
           Exchange(x, t, LA, FA, HA, LB, FB, HB), Elsewhere(x, t), \A r \in Region : Tiled(r)
    PROVE  \A r \in Region : Tiled(r)'
<1>1. PICK A : A = Trade(t, LA, FA, HA)
  BY Zenon
<1>2. PICK B : B = Trade(t, LB, FB, HB)
  OBVIOUS
<1>3. PICK P : P = Placed(x)
  BY Zenon
<1>4. PICK Q : Q = Placed(x)'
  OBVIOUS
<1>5. Q = (P \ A) \cup B /\ A \subseteq P
  <2>1. /\ Placed(x)' = (Placed(x) \ Trade(t, LA, FA, HA)) \cup Trade(t, LB, FB, HB)
        /\ Trade(t, LA, FA, HA) \subseteq Placed(x)
    BY Exchanged
  <2> QED
    BY <1>1, <1>2, <1>3, <1>4, <2>1, ZenonT(30)
<1>6. Apart(P) /\ (\A p \in P : Fits(p[2])) /\ (IF x \in Range(regions) THEN Covers(P) ELSE P = {})
  BY <1>3, Zenon DEF Tiled
<1>7. Apart(B) /\ regions' = regions
  BY <1>2, Zenon DEF Exchange, Elsewhere
<1>8. \A u \in Addr : (\E p \in A : u \in Cells(p)) <=> (\E p \in B : u \in Cells(p))
  <2> SUFFICES ASSUME NEW u \in Addr
               PROVE  (\E p \in A : u \in Cells(p)) <=> (\E p \in B : u \in Cells(p))
    OBVIOUS
  <2>1. Within(LA \cup FA \cup HA, u) <=> Within(LB \cup FB \cup HB, u)
    BY Zenon DEF Exchange
  <2>2. (\E p \in A : u \in Cells(p)) <=> Within(LA \cup FA \cup HA, u)
    BY <1>1, TradeUnits, Zenon
  <2>3. (\E p \in B : u \in Cells(p)) <=> Within(LB \cup FB \cup HB, u)
    BY <1>2, TradeUnits, Zenon
  <2> QED
    BY <2>1, <2>2, <2>3, ZenonT(30)
<1>9. Apart(Q) /\ (Covers(P) => Covers(Q))
  BY <1>5, <1>6, <1>7, <1>8, Repartition, ZenonT(30)
<1>10. x \in Range(regions)
  <2>1. PICK b \in LA \cup FA \cup HA : TRUE
    BY DEF Exchange
  <2>2. A # {}
    <3>1. CASE b \in LA
      BY <1>1, <3>1, InTrade, Zenon
    <3>2. CASE b \in FA
      BY <1>1, <3>2, InTrade, Zenon
    <3>3. CASE b \in HA
      <4>1. AtHand(t, b) \in Trade(t, LA, FA, HA)
        BY <3>3, InTrade
      <4> QED
        BY <1>1, <4>1, ZenonT(30)
    <3> QED
      BY <2>1, <3>1, <3>2, <3>3, ZenonT(30)
  <2> QED
    BY <1>5, <1>6, <2>2
<1>11. \A p \in Q : Fits(p[2])
  <2>2. ASSUME NEW p \in B PROVE Fits(p[2])
    <3>0. \/ \E b \in LB : p = AtLive(b)
          \/ \E b \in FB : p = AtFree(b)
          \/ \E b \in HB : p = AtHand(t, b)
      BY <1>2, <2>2, TradeIs
    <3>1. PICK b \in LB \cup FB \cup HB : p[2] = b
      <4>1. \A b : AtLive(b)[2] = b /\ AtFree(b)[2] = b /\ AtHand(t, b)[2] = b
        BY Tags
      <4> QED
        BY <3>0, <4>1, Zenon
    <3> QED
      BY <3>1 DEF Exchange
  <2> QED
    BY <1>5, <1>6, <2>2, Zenon
<1>12. Tiled(x)'
  BY <1>4, <1>6, <1>7, <1>9, <1>10, <1>11, Zenon DEF Tiled
<1>13. ASSUME NEW r \in Region, r # x PROVE Tiled(r)'
  <2>1. LiveIn(r)' = LiveIn(r) /\ Free(r)' = Free(r) /\ \A u \in Thread : InHand(r, u)' = InHand(r, u)
    BY <1>13, FreeKept, InHandKept, Zenon DEF Elsewhere
  <2>2. Placed(r)' = Placed(r)
    BY <2>1, Zenon DEF Placed, LiveIn
  <2>3. Tiled(r)
    OBVIOUS
  <2> QED
    BY <1>7, <2>2, <2>3, Zenon DEF Tiled
<1> QED
  BY <1>12, <1>13, Zenon

\* What a call is is known by its op.
LEMMA Kinds ==
    ASSUME NEW c \in CallRec
    PROVE  /\ Idle \in CallRec /\ Idle.op = "idle"
           /\ c.op = "head" => c \in HeadRec
           /\ c.op = "walk" => c \in WalkRec
           /\ c.op = "orders" => c \in OrdersRec
           /\ c.op = "split" => c \in SplitRec
           /\ c.op \in {"free", "push"} => c \in BackRec
           /\ c.op = "trim" => c \in TrimRec
<1>1. Idle \in CallRec /\ Idle.op = "idle"
  BY DEF CallRec, Idle
<1>2. c = Idle \/ c \in HeadRec \/ c \in WalkRec \/ c \in OrdersRec \/ c \in SplitRec \/ c \in BackRec
      \/ c \in TrimRec
  BY Zenon DEF CallRec
<1>3. /\ c \in HeadRec => c.op = "head"
      /\ c \in WalkRec => c.op = "walk"
      /\ c \in OrdersRec => c.op = "orders"
      /\ c \in SplitRec => c.op = "split"
      /\ c \in BackRec => c.op \in {"free", "push"}
      /\ c \in TrimRec => c.op = "trim"
  BY DEF HeadRec, WalkRec, OrdersRec, SplitRec, BackRec, TrimRec
<1> QED
  BY <1>1, <1>2, <1>3, ZenonT(30)

\* An exchange keeps every trim state true.
LEMMA ExchangeHonest ==
    ASSUME NEW x \in Region, NEW t \in Thread, NEW LA, NEW FA, NEW HA, NEW LB, NEW FB, NEW HB,
           Exchange(x, t, LA, FA, HA, LB, FB, HB), Elsewhere(x, t), \A r \in Region : Tiled(r),
           Truthful, HonestHand(t)', call \in [Thread -> CallRec]
    PROVE  Truthful'
<1>1. PICK A : A = Trade(t, LA, FA, HA)
  BY Zenon
<1>2. A \subseteq Placed(x) /\ Tiled(x)
  BY <1>1, Exchanged
<1>4. ASSUME NEW p \in Placed(x), p \notin A, NEW b, b = p[2], NEW s, Honest(dirt[x], s, b.a, b.o)
      PROVE  Honest(dirt'[x], s, b.a, b.o) /\ reg'[x].state[b.a] = reg[x].state[b.a]
  <2>1. /\ b.a \in UnitsOf(b.a, b.o) /\ UnitsOf(b.a, b.o) \subseteq Addr
        /\ \A u \in UnitsOf(b.a, b.o) : ~Within(LA \cup FA \cup HA, u)
    BY <1>1, <1>2, <1>4, Untouched, Zenon
  <2>2. \A u \in UnitsOf(b.a, b.o) : dirt'[x][u] = dirt[x][u] /\ reg'[x].state[u] = reg[x].state[u]
    BY <2>1, Zenon DEF Exchange
  <2> QED
    BY <1>4, <2>1, <2>2, HonestSame, Zenon
<1>5. ASSUME NEW r \in Region, NEW b \in Free(r)'
      PROVE  Honest(dirt'[r], reg'[r].state[b.a], b.a, b.o)
  <2>1. CASE r # x
    <3>1. Free(r)' = Free(r) /\ dirt'[r] = dirt[r] /\ reg'[r] = reg[r]
      BY <2>1, FreeKept, Zenon DEF Elsewhere
    <3> QED
      BY <1>5, <3>1, Zenon DEF Truthful, StateHonest
  <2>2. CASE r = x /\ b \in FB
    BY <2>2, Zenon DEF Exchange
  <2>3. CASE r = x /\ b \notin FB
    <3>1. b \in Free(x) /\ b \notin FA
      BY <1>5, <2>3, Zenon DEF Exchange
    <3>2. AtFree(b) \in Placed(x) /\ AtFree(b) \notin A /\ AtFree(b)[2] = b
      BY <1>1, <3>1, InPlaced, InTrade, Tags, Zenon
    <3>3. Honest(dirt[x], reg[x].state[b.a], b.a, b.o)
      BY <3>1, Zenon DEF Truthful, StateHonest
    <3> QED
      BY <1>4, <2>3, <3>2, <3>3, Zenon
  <2> QED
    BY <2>1, <2>2, <2>3, ZenonT(30)
<1>6. ASSUME NEW u \in Thread, u # t PROVE HonestHand(u)'
  <2>1. PICK c \in CallRec : c = call[u] /\ c = call'[u]
    BY <1>6 DEF Elsewhere
  <2> SUFFICES ASSUME c.op = "split" PROVE Honest(dirt'[c.r], c.s, c.a, c.o)
    BY <2>1, Zenon DEF HonestHand
  <2>2. c.r \in Region
    <3>1. c \in SplitRec
      BY Kinds, Zenon
    <3> QED
      BY <3>1, Zenon DEF SplitRec
  <2>3. Honest(dirt[c.r], c.s, c.a, c.o)
    BY <2>1, Zenon DEF Truthful
  <2>4. CASE c.r # x
    BY <2>2, <2>3, <2>4, Zenon DEF Elsewhere
  <2>5. CASE c.r = x
    <3>0. PICK b : b = [r |-> x, a |-> c.a, o |-> c.o]
      BY Zenon
    <3>1. b.a = c.a /\ b.o = c.o
      BY <3>0
    <3>2. b \in InHand(x, u)
      BY <2>1, <2>5, <3>0 DEF InHand
    <3>3. AtHand(u, b) \in Placed(x) /\ AtHand(u, b) \notin A /\ AtHand(u, b)[2] = b
      <4>1. AtHand(u, b) \in Placed(x) /\ AtHand(u, b)[2] = b
        BY <3>2, InPlaced, Tags, ZenonT(30)
      <4>2. AtHand(u, b) \notin A
        BY <1>1, <1>6, InTrade, ZenonT(30)
      <4> QED
        BY <4>1, <4>2, Zenon
    <3>4. Honest(dirt'[x], c.s, b.a, b.o)
      BY <1>4, <2>3, <2>5, <3>1, <3>3, Zenon
    <3> QED
      BY <2>5, <3>1, <3>4, Zenon
  <2> QED
    BY <2>4, <2>5
<1>7. \A u \in Thread : HonestHand(u)'
  BY <1>6
<1> QED
  BY <1>5, <1>7, Zenon DEF Truthful, StateHonest, HonestHand

------------------------------------------------------------------------------
(* Steps that move blocks *)

\* The block that a call c has in hand.
Hand(r, c) == IF c.op \in {"split", "free", "push"} /\ c.r = r
              THEN {[r |-> r, a |-> c.a, o |-> c.o]} ELSE {}

\* Free and in-hand blocks, as operators of the region and of the call.
LEMMA PartsAre ==
    ASSUME NEW r
    PROVE  /\ Free(r) = FreeOf(r, reg[r]) /\ Free(r)' = FreeOf(r, reg'[r])
           /\ \A t : InHand(r, t) = Hand(r, call[t]) /\ InHand(r, t)' = Hand(r, call'[t])
BY Zenon DEF Free, FreeOf, InHand, Hand

\* The machine is fixed, and with it the types that depend on its nodes.
LEMMA SameTypes ==
    ASSUME machine' = machine
    PROVE  Node' = Node /\ CallRec' = CallRec
<1>1. Node' = Node
  BY DEF Node
<1>2. HeadRec' = HeadRec /\ WalkRec' = WalkRec /\ OrdersRec' = OrdersRec
  BY <1>1, Zenon DEF HeadRec, WalkRec, OrdersRec
<1> QED
  BY <1>1, <1>2, Zenon DEF CallRec

\* What a step of thread t in region x assigns.
Sets(t, n, x, Q, d) ==
    /\ UNCHANGED <<machine, regions, home>>
    /\ call' = [call EXCEPT ![t] = n]
    /\ reg' = [reg EXCEPT ![x] = Q]
    /\ dirt' = [dirt EXCEPT ![x] = d]

\* The exchange that it makes.
Deal(t, n, x, Q, d, LA, FA, HA, LB, FB, HB) ==
    /\ live' = (live \ LA) \cup LB /\ LA \subseteq LiveIn(x)
    /\ FA \subseteq FreeOf(x, reg[x]) /\ HA \subseteq Hand(x, call[t]) /\ LA \cup FA \cup HA # {}
    /\ FreeOf(x, Q) = (FreeOf(x, reg[x]) \ FA) \cup FB
    /\ Hand(x, n) = (Hand(x, call[t]) \ HA) \cup HB
    /\ \A r \in Region \ {x} : Hand(r, n) = Hand(r, call[t])
    /\ \A b \in LB \cup FB \cup HB : Fits(b) /\ b.r = x
    /\ Apart(Trade(t, LB, FB, HB))
    /\ \A u \in Addr : Within(LA \cup FA \cup HA, u) <=> Within(LB \cup FB \cup HB, u)
    /\ \A u \in Addr : ~Within(LA \cup FA \cup HA, u) =>
           d[u] = dirt[x][u] /\ Q.state[u] = reg[x].state[u]
    /\ \A b \in FB : Honest(d, Q.state[b.a], b.a, b.o)
    /\ n.op = "split" => n.r = x /\ Honest(d, n.s, n.a, n.o)

\* Lists, bitmaps and masks agree in every region.
LEMMA RegsOK ==
    ASSUME Typed, InSync
    PROVE  \A r \in Region : RegOK(reg[r])
BY DEF Typed, InSync, RegOK

\* Regions in order after a step have lists, bitmaps and masks in agreement.
LEMMA RegsOKNext ==
    ASSUME NEW R, R = reg', R \in [Region -> RegionRec], \A r \in Region : RegOK(R[r])
    PROVE  InSync' /\ \A r \in Region : \A o \in Order : IsInjective(reg'[r].free[o])
BY Zenon DEF InSync, RegOK

\* What is typed stays so.
LEMMA TypedStep ==
    ASSUME Typed, InSync, NEW x \in Region, NEW t \in Thread, NEW n \in CallRec, NEW Q, RegOK(Q),
           NEW d \in [Addr -> Dirt], Sets(t, n, x, Q, d), live' \subseteq Block
    PROVE  Typed' /\ InSync' /\ reg'[x] = Q /\ dirt'[x] = d /\ call'[t] = n
           /\ (\A r \in Region \ {x} : reg'[r] = reg[r] /\ dirt'[r] = dirt[r])
           /\ (\A u \in Thread \ {t} : call'[u] = call[u])
<1>1. Q \in RegionRec /\ reg \in [Region -> RegionRec] /\ dirt \in [Region -> [Addr -> Dirt]]
      /\ call \in [Thread -> CallRec] /\ reg' = [reg EXCEPT ![x] = Q] /\ dirt' = [dirt EXCEPT ![x] = d]
      /\ call' = [call EXCEPT ![t] = n]
  BY DEF RegOK, Typed, Sets
<1>2. reg' \in [Region -> RegionRec] /\ dirt' \in [Region -> [Addr -> Dirt]] /\ call' \in [Thread -> CallRec]
  BY <1>1, Zenon
<1>3. /\ reg'[x] = Q /\ dirt'[x] = d /\ call'[t] = n
      /\ \A r \in Region \ {x} : reg'[r] = reg[r] /\ dirt'[r] = dirt[r]
      /\ \A u \in Thread \ {t} : call'[u] = call[u]
  BY <1>1, Zenon
<1>4. \A r \in Region : RegOK(reg'[r])
  BY <1>3, RegsOK, ZenonT(30)
<1>5. InSync' /\ \A r \in Region : \A o \in Order : IsInjective(reg'[r].free[o])
  BY <1>2, <1>4, RegsOKNext, ZenonT(30)
<1>6. machine' = machine /\ regions' = regions /\ home' = home
  BY DEF Sets
<1>7. Node' = Node /\ CallRec' = CallRec
  BY <1>6, SameTypes
<1>8. Typed'
  BY <1>2, <1>5, <1>6, <1>7, Zenon DEF Typed
<1> QED
  BY <1>3, <1>5, <1>8, ZenonT(30)

\* A step that exchanges blocks keeps the invariant.
LEMMA StepInv ==
    ASSUME IInv, NEW x \in Region, NEW t \in Thread, NEW n \in CallRec, NEW Q, RegOK(Q),
           NEW d \in [Addr -> Dirt], NEW LA, NEW FA, NEW HA, NEW LB, NEW FB, NEW HB,
           Sets(t, n, x, Q, d), Deal(t, n, x, Q, d, LA, FA, HA, LB, FB, HB)
    PROVE  IInv'
<1>1. Typed /\ InSync /\ Truthful /\ (\A r \in Region : Tiled(r)) /\ call \in [Thread -> CallRec]
  BY Zenon DEF IInv, Typed
<1>2. \A b \in LA \cup LB : b.r = x
  BY Zenon DEF Deal, LiveIn
<1>3. live' = (live \ LA) \cup LB /\ live' \subseteq Block
  BY <1>1, Zenon DEF Deal, Typed, Fits
<1>4. Typed' /\ InSync' /\ reg'[x] = Q /\ dirt'[x] = d /\ call'[t] = n
      /\ (\A r \in Region \ {x} : reg'[r] = reg[r] /\ dirt'[r] = dirt[r])
      /\ (\A u \in Thread \ {t} : call'[u] = call[u])
  BY <1>1, <1>3, TypedStep, ZenonT(30)
<1>5. LiveIn(x)' = (LiveIn(x) \ LA) \cup LB /\ \A r \in Region \ {x} : LiveIn(r)' = LiveIn(r)
  BY <1>2, <1>3, Zenon DEF LiveIn
<1>6. Free(x) = FreeOf(x, reg[x]) /\ Free(x)' = FreeOf(x, Q) /\ InHand(x, t) = Hand(x, call[t])
      /\ InHand(x, t)' = Hand(x, n)
  BY <1>4, PartsAre, Zenon
<1>7. Exchange(x, t, LA, FA, HA, LB, FB, HB)
  <2>1. /\ LA \subseteq LiveIn(x) /\ FA \subseteq Free(x) /\ HA \subseteq InHand(x, t)
        /\ LA \cup FA \cup HA # {}
    BY <1>6, Zenon DEF Deal
  <2>2. /\ Free(x)' = (Free(x) \ FA) \cup FB
        /\ InHand(x, t)' = (InHand(x, t) \ HA) \cup HB
    BY <1>6, Zenon DEF Deal
  <2>3. /\ \A b \in LB \cup FB \cup HB : Fits(b)
        /\ Apart(Trade(t, LB, FB, HB))
        /\ \A u \in Addr : Within(LA \cup FA \cup HA, u) <=> Within(LB \cup FB \cup HB, u)
    BY Zenon DEF Deal
  <2>4. /\ \A u \in Addr : ~Within(LA \cup FA \cup HA, u) =>
               dirt'[x][u] = dirt[x][u] /\ reg'[x].state[u] = reg[x].state[u]
        /\ \A b \in FB : Honest(dirt'[x], reg'[x].state[b.a], b.a, b.o)
    BY <1>4, Zenon DEF Deal
  <2> QED
    BY <1>5, <2>1, <2>2, <2>3, <2>4, Zenon DEF Exchange
<1>8. Elsewhere(x, t)
  <2>1. ASSUME NEW r \in Region \ {x} PROVE InHand(r, t)' = InHand(r, t)
    <3>1. InHand(r, t) = Hand(r, call[t]) /\ InHand(r, t)' = Hand(r, call'[t])
      BY PartsAre, Zenon
    <3>2. Hand(r, n) = Hand(r, call[t])
      BY Zenon DEF Deal
    <3> QED
      BY <1>4, <3>1, <3>2, Zenon
  <2> QED
    BY <1>4, <1>5, <2>1, Zenon DEF Elsewhere, Sets
<1>9. HonestHand(t)'
  BY <1>4, Zenon DEF HonestHand, Deal
<1>10. \A r \in Region : Tiled(r)'
  BY <1>1, <1>7, <1>8, ExchangeTiled, Zenon
<1>11. Truthful'
  BY <1>1, <1>7, <1>8, <1>9, ExchangeHonest, Zenon
<1> QED
  BY <1>4, <1>10, <1>11, Zenon DEF IInv

\* A step that moves no block keeps the invariant.
LEMMA QuietInv ==
    ASSUME IInv, NEW t \in Thread, NEW n \in CallRec, UNCHANGED <<machine, regions, home, reg, dirt, live>>,
           call' = [call EXCEPT ![t] = n], n.op # "split", \A r \in Region : Hand(r, n) = Hand(r, call[t])
    PROVE  IInv'
<1>1. Typed /\ InSync /\ Truthful /\ (\A r \in Region : Tiled(r)) /\ call \in [Thread -> CallRec]
  BY Zenon DEF IInv, Typed
<1>2. Node' = Node /\ CallRec' = CallRec
  BY SameTypes, ZenonT(30)
<1>3. call' \in [Thread -> CallRec] /\ call'[t] = n /\ \A u \in Thread \ {t} : call'[u] = call[u]
  BY <1>1
<1>4. Typed' /\ InSync'
  BY <1>1, <1>2, <1>3, Zenon DEF Typed, InSync
<1>5. ASSUME NEW r \in Region PROVE Tiled(r)'
  <2>1. ASSUME NEW u \in Thread PROVE InHand(r, u)' = InHand(r, u)
    <3>1. InHand(r, u) = Hand(r, call[u]) /\ InHand(r, u)' = Hand(r, call'[u])
      BY PartsAre, Zenon
    <3>2. Hand(r, call'[u]) = Hand(r, call[u])
      BY <1>3, Zenon
    <3> QED
      BY <3>1, <3>2, Zenon
  <2>2. Free(r)' = Free(r) /\ live' = live
    BY FreeKept
  <2>3. Placed(r)' = Placed(r)
    BY <2>1, <2>2, Zenon DEF Placed
  <2> QED
    BY <1>1, <2>3, Zenon DEF Tiled
<1>6. \A r \in Region : Free(r)' = Free(r)
  BY FreeKept
<1>7. StateHonest'
  BY <1>1, <1>6, Zenon DEF Truthful, StateHonest
<1>8. ASSUME NEW u \in Thread, call'[u].op = "split"
      PROVE  Honest(dirt'[call'[u].r], call'[u].s, call'[u].a, call'[u].o)
  <2>1. u # t
    BY <1>3, <1>8, Zenon
  <2>2. call'[u] = call[u]
    BY <1>3, <2>1, ZenonT(30)
  <2> QED
    BY <1>1, <1>8, <2>2, Zenon DEF Truthful
<1>9. Truthful'
  BY <1>7, <1>8, Zenon DEF Truthful
<1> QED
  BY <1>4, <1>5, <1>9, Zenon DEF IInv

\* Units of one block and of two.
LEMMA WithinFew ==
    ASSUME NEW b, NEW c, NEW u
    PROVE  /\ Within({b}, u) <=> u \in UnitsOf(b.a, b.o)
           /\ Within({b, c}, u) <=> u \in UnitsOf(b.a, b.o) \/ u \in UnitsOf(c.a, c.o)
BY Zenon DEF Within

\* Blocks in different places that share no unit are apart.
LEMMA TradeApart ==
    ASSUME NEW t, NEW L, NEW F, NEW H, NEW S, S = L \cup F \cup H,
           \A b, c \in S : \A u \in Addr : u \in UnitsOf(b.a, b.o) /\ u \in UnitsOf(c.a, c.o) => b = c,
           L \cap F = {}, L \cap H = {}, F \cap H = {}
    PROVE  Apart(Trade(t, L, F, H))
<1> SUFFICES ASSUME NEW p \in Trade(t, L, F, H), NEW q \in Trade(t, L, F, H), NEW u \in Addr,
                    u \in Cells(p), u \in Cells(q)
             PROVE  p = q
  BY Zenon DEF Apart
<1>1. \A b : AtLive(b)[2] = b /\ AtFree(b)[2] = b /\ AtHand(t, b)[2] = b
  BY Tags, Zenon
<1>2. (\E b \in L : p = AtLive(b)) \/ (\E b \in F : p = AtFree(b)) \/ (\E b \in H : p = AtHand(t, b))
  BY TradeIs
<1>3. (\E b \in L : q = AtLive(b)) \/ (\E b \in F : q = AtFree(b)) \/ (\E b \in H : q = AtHand(t, b))
  BY TradeIs
<1>4. p[2] \in S
  BY <1>1, <1>2, ZenonT(30)
<1>a. q[2] \in S
  BY <1>1, <1>3
<1>5. p[2] = q[2]
  BY <1>4, <1>a, Zenon DEF Cells
<1>6. PICK b : b = p[2] /\ b = q[2]
  BY <1>5
<1>7. (b \in L /\ p = AtLive(b)) \/ (b \in F /\ p = AtFree(b)) \/ (b \in H /\ p = AtHand(t, b))
  BY <1>1, <1>2, <1>6, Zenon
<1>8. (b \in L /\ q = AtLive(b)) \/ (b \in F /\ q = AtFree(b)) \/ (b \in H /\ q = AtHand(t, b))
  BY <1>1, <1>3, <1>6, Zenon
<1> QED
  BY <1>7, <1>8

\* A block that moves whole from one place to another.
LEMMA OneApart ==
    ASSUME NEW t, NEW b
    PROVE  /\ Apart(Trade(t, {b}, {}, {})) /\ Apart(Trade(t, {}, {b}, {})) /\ Apart(Trade(t, {}, {}, {b}))
           /\ {b} \cup {} \cup {} = {b} /\ {} \cup {b} \cup {} = {b} /\ {} \cup {} \cup {b} = {b}
<1>1. {b} \cup {} \cup {} = {b} /\ {} \cup {b} \cup {} = {b} /\ {} \cup {} \cup {b} = {b}
  OBVIOUS
<1>2. \A c, e \in {b} : \A u \in Addr : u \in UnitsOf(c.a, c.o) /\ u \in UnitsOf(e.a, e.o) => c = e
  OBVIOUS
<1>3. {b} \cap {} = {} /\ {} \cap {b} = {} /\ {} \cap {} = {}
  BY Zenon
<1>4. Apart(Trade(t, {b}, {}, {}))
  <2>1. {b} = {b} \cup {} \cup {}
    BY <1>1, Zenon
  <2> QED
    BY <1>2, <1>3, <2>1, TradeApart, Zenon
<1>5. Apart(Trade(t, {}, {b}, {}))
  <2>1. {b} = {} \cup {b} \cup {}
    BY <1>1, Zenon
  <2> QED
    BY <1>2, <1>3, <2>1, TradeApart, Zenon
<1>6. Apart(Trade(t, {}, {}, {b}))
  <2>1. {b} = {} \cup {} \cup {b}
    BY <1>1, Zenon
  <2> QED
    BY <1>2, <1>3, <2>1, TradeApart, Zenon
<1> QED
  BY <1>1, <1>4, <1>5, <1>6, ZenonT(30)

\* A block is its record.
LEMMA BlockIs ==
    ASSUME NEW r, NEW a, NEW o, NEW b, b = [r |-> r, a |-> a, o |-> o]
    PROVE  /\ b.r = r /\ b.a = a /\ b.o = o
           /\ r \in Region => (Fits(b) <=> Fit(a, o))
<1>1. b.r = r /\ b.a = a /\ b.o = o
  OBVIOUS
<1>2. ASSUME r \in Region PROVE b \in Block <=> a \in Addr /\ o \in Order
  BY <1>2 DEF Block
<1> QED
  BY <1>1, <1>2, ZenonT(30) DEF Fits, Fit

\* Placed blocks fit their region.
LEMMA PlacedFit ==
    ASSUME NEW x \in Region, Tiled(x)
    PROVE  /\ \A b \in LiveIn(x) : Fits(b) /\ Fit(b.a, b.o) /\ b.r = x
           /\ \A b \in FreeOf(x, reg[x]) : Fits(b) /\ Fit(b.a, b.o) /\ b.r = x
           /\ \A t \in Thread : \A b \in Hand(x, call[t]) : Fits(b) /\ Fit(b.a, b.o) /\ b.r = x
<1>1. ASSUME NEW b, Fits(b) PROVE Fit(b.a, b.o)
  BY <1>1 DEF Fits, Fit, Block
<1>2. \A b \in LiveIn(x) : Fits(b) /\ b.r = x
  <2>1. ASSUME NEW b \in LiveIn(x) PROVE Fits(b)
    <3>1. AtLive(b) \in Placed(x) /\ AtLive(b)[2] = b
      BY <2>1, InPlaced, Tags, ZenonT(30)
    <3> QED
      BY <3>1, Zenon DEF Tiled
  <2> QED
    BY <2>1 DEF LiveIn
<1>3. \A b \in FreeOf(x, reg[x]) : Fits(b) /\ b.r = x
  <2>1. ASSUME NEW b \in FreeOf(x, reg[x]) PROVE Fits(b)
    <3>1. AtFree(b) \in Placed(x) /\ AtFree(b)[2] = b
      <4>1. b \in Free(x)
        BY PartsAre, Zenon
      <4>2. AtFree(b) \in Placed(x)
        BY <4>1, InPlaced, Zenon
      <4> QED
        BY <4>2, Tags, Zenon
    <3> QED
      BY <3>1, Zenon DEF Tiled
  <2> QED
    BY <2>1, FreeOfIs
<1>4. \A t \in Thread : \A b \in Hand(x, call[t]) : Fits(b) /\ b.r = x
  <2>1. ASSUME NEW t \in Thread, NEW b \in Hand(x, call[t]) PROVE Fits(b)
    <3>1. AtHand(t, b) \in Placed(x) /\ AtHand(t, b)[2] = b
      BY <2>1, InPlaced, PartsAre, Tags
    <3> QED
      BY <3>1, Zenon DEF Tiled
  <2> QED
    BY <2>1 DEF Hand
<1> QED
  BY <1>1, <1>2, <1>3, <1>4, Zenon

\* Placed blocks that share a unit are one block in one place.
LEMMA Distinct ==
    ASSUME NEW x \in Region, Tiled(x), NEW u \in Addr
    PROVE  /\ \A b, c \in LiveIn(x) : u \in UnitsOf(b.a, b.o) /\ u \in UnitsOf(c.a, c.o) => b = c
           /\ \A b, c \in FreeOf(x, reg[x]) : u \in UnitsOf(b.a, b.o) /\ u \in UnitsOf(c.a, c.o) => b = c
           /\ \A b \in LiveIn(x), c \in FreeOf(x, reg[x]) : ~(u \in UnitsOf(b.a, b.o) /\ u \in UnitsOf(c.a, c.o))
           /\ \A t \in Thread : \A b \in Hand(x, call[t]), c \in FreeOf(x, reg[x]) :
                  ~(u \in UnitsOf(b.a, b.o) /\ u \in UnitsOf(c.a, c.o))
           /\ \A t \in Thread : \A b \in Hand(x, call[t]), c \in LiveIn(x) :
                  ~(u \in UnitsOf(b.a, b.o) /\ u \in UnitsOf(c.a, c.o))
<1>1. ASSUME NEW p \in Placed(x), NEW q \in Placed(x), NEW b, NEW c, b = p[2], c = q[2],
             u \in UnitsOf(b.a, b.o), u \in UnitsOf(c.a, c.o)
      PROVE  p = q
  BY <1>1, Zenon DEF Tiled, Apart, Cells
<1>2. \A b \in LiveIn(x) : AtLive(b) \in Placed(x) /\ AtLive(b)[2] = b
  BY InPlaced, Tags, ZenonT(30)
<1>3. ASSUME NEW b \in FreeOf(x, reg[x]) PROVE AtFree(b) \in Placed(x) /\ AtFree(b)[2] = b
  <2>1. b \in Free(x)
    BY PartsAre, Zenon
  <2>2. AtFree(b) \in Placed(x)
    BY <2>1, InPlaced, Zenon
  <2> QED
    BY <2>2, Tags, Zenon
<1>4. ASSUME NEW t \in Thread, NEW b \in Hand(x, call[t]) PROVE AtHand(t, b) \in Placed(x) /\ AtHand(t, b)[2] = b
  <2>1. b \in InHand(x, t)
    BY PartsAre, Zenon
  <2>2. AtHand(t, b) \in Placed(x)
    BY <2>1, InPlaced, Zenon
  <2> QED
    BY <2>2, Tags, Zenon
<1>5. \A b, c : /\ AtLive(b) = AtLive(c) => b = c
                /\ AtFree(b) = AtFree(c) => b = c
                /\ AtLive(b) # AtFree(c)
                /\ \A t : AtHand(t, b) # AtFree(c) /\ AtHand(t, b) # AtLive(c)
  BY Tags
<1>6. \A b, c \in LiveIn(x) : u \in UnitsOf(b.a, b.o) /\ u \in UnitsOf(c.a, c.o) => b = c
  BY <1>1, <1>2, <1>5, Zenon
<1>7. \A b, c \in FreeOf(x, reg[x]) : u \in UnitsOf(b.a, b.o) /\ u \in UnitsOf(c.a, c.o) => b = c
  BY <1>1, <1>3, <1>5, Zenon
<1>8. \A b \in LiveIn(x), c \in FreeOf(x, reg[x]) : ~(u \in UnitsOf(b.a, b.o) /\ u \in UnitsOf(c.a, c.o))
  BY <1>1, <1>2, <1>3, <1>5, Zenon
<1>9. \A t \in Thread : \A b \in Hand(x, call[t]), c \in FreeOf(x, reg[x]) :
          ~(u \in UnitsOf(b.a, b.o) /\ u \in UnitsOf(c.a, c.o))
  <2> SUFFICES ASSUME NEW t \in Thread, NEW b \in Hand(x, call[t]), NEW c \in FreeOf(x, reg[x]),
                      u \in UnitsOf(b.a, b.o), u \in UnitsOf(c.a, c.o)
               PROVE  FALSE
    OBVIOUS
  <2>1. AtHand(t, b) \in Placed(x) /\ AtHand(t, b)[2] = b /\ AtFree(c) \in Placed(x) /\ AtFree(c)[2] = c
    BY <1>3, <1>4, ZenonT(30)
  <2>2. AtHand(t, b) = AtFree(c)
    BY <1>1, <2>1, ZenonT(30)
  <2> QED
    BY <1>5, <2>2, ZenonT(30)
<1>10. \A t \in Thread : \A b \in Hand(x, call[t]), c \in LiveIn(x) :
          ~(u \in UnitsOf(b.a, b.o) /\ u \in UnitsOf(c.a, c.o))
  <2> SUFFICES ASSUME NEW t \in Thread, NEW b \in Hand(x, call[t]), NEW c \in LiveIn(x),
                      u \in UnitsOf(b.a, b.o), u \in UnitsOf(c.a, c.o)
               PROVE  FALSE
    BY Zenon
  <2>1. AtHand(t, b) \in Placed(x) /\ AtHand(t, b)[2] = b /\ AtLive(c) \in Placed(x) /\ AtLive(c)[2] = c
    BY <1>2, <1>4, ZenonT(30)
  <2>2. AtHand(t, b) = AtLive(c)
    BY <1>1, <2>1, ZenonT(30)
  <2> QED
    BY <1>5, <2>2, ZenonT(30)
<1> QED
  BY <1>6, <1>7, <1>8, <1>9, <1>10, Zenon

\* The block in the hands of a call.
LEMMA HandIs ==
    ASSUME NEW c
    PROVE  /\ c.op \in {"split", "free", "push"} =>
                  /\ Hand(c.r, c) = {[r |-> c.r, a |-> c.a, o |-> c.o]}
                  /\ \A r : r # c.r => Hand(r, c) = {}
           /\ c.op \notin {"split", "free", "push"} => \A r : Hand(r, c) = {}
BY Zenon DEF Hand

\* What the invariant says of a region and a call.
LEMMA Having ==
    ASSUME IInv, NEW x \in Region, NEW t \in Thread
    PROVE  /\ RegOK(reg[x]) /\ Tiled(x) /\ reg[x] \in RegionRec /\ dirt[x] \in [Addr -> Dirt]
           /\ reg[x].state \in [Addr -> TrimState] /\ call[t] \in CallRec
           /\ reg = [reg EXCEPT ![x] = reg[x]] /\ dirt = [dirt EXCEPT ![x] = dirt[x]]
<1>1. /\ reg \in [Region -> RegionRec] /\ dirt \in [Region -> [Addr -> Dirt]]
      /\ call \in [Thread -> CallRec] /\ Typed /\ InSync /\ Tiled(x)
  BY Zenon DEF IInv, Typed
<1>2. RegOK(reg[x])
  BY <1>1, RegsOK
<1>3. reg[x] \in RegionRec /\ dirt[x] \in [Addr -> Dirt] /\ call[t] \in CallRec
  BY <1>1
<1>4. reg[x].state \in [Addr -> TrimState]
  BY <1>3 DEF RegionRec
<1>5. reg = [reg EXCEPT ![x] = reg[x]] /\ dirt = [dirt EXCEPT ![x] = dirt[x]]
  BY <1>1
<1> QED
  BY <1>1, <1>2, <1>3, <1>4, <1>5, ZenonT(30)

\* alloc takes the head of a list: a free block is in hand.
LEMMA TakeHeadInv ==
    ASSUME IInv, UNCHANGED machine, NEW t \in Thread, TakeHead(t)
    PROVE  IInv'
<1>1. PICK c \in CallRec : c = call[t]
  BY Zenon DEF IInv, Typed
<1>2. c \in OrdersRec /\ c.op = "orders"
  BY <1>1, Kinds, ZenonT(30) DEF TakeHead
<1>3. /\ c.left \in Seq(Region) /\ c.left # <<>> /\ c.seen \subseteq Order /\ c.seen # {}
      /\ c.k \in Order /\ c.node \in Node /\ c.try \in Nat
  BY <1>2, ZenonT(30) DEF OrdersRec
<1>4. PICK x \in Region : x = Head(c.left)
  BY <1>3
<1>5. PICK o \in c.seen : o = Lowest(c.seen)
  <2>1. \E m \in c.seen : \A p \in c.seen : m <= p
    BY <1>3, Widths, LeastOf, ZenonT(30)
  <2> QED
    BY <2>1, Zenon DEF Lowest
<1>6. o \in Order /\ RegOK(reg[x]) /\ Tiled(x) /\ dirt[x] \in [Addr -> Dirt] /\ reg[x] \in RegionRec
      /\ reg[x].state \in [Addr -> TrimState] /\ dirt = [dirt EXCEPT ![x] = dirt[x]]
      /\ reg = [reg EXCEPT ![x] = reg[x]]
  BY <1>3, Having
<1>7. PICK l \in Seq(Addr) : l = reg[x].free[o]
  BY <1>6 DEF RegionRec
<1>8. UNCHANGED <<machine, regions, home, dirt, live>>
  BY Zenon DEF TakeHead
<1>9. CASE l = <<>>
  <2>1. PICK n : n = IF c.seen = {o}
                     THEN [op |-> "walk", k |-> c.k, node |-> c.node, try |-> c.try, left |-> Tail(c.left)]
                     ELSE [c EXCEPT !.seen = @ \ {o}]
    BY ZenonT(30)
  <2>2. reg' = [reg EXCEPT ![x].mask = @ \ {o}] /\ call' = [call EXCEPT ![t] = n]
    BY <1>1, <1>4, <1>5, <1>7, <1>9, <2>1 DEF TakeHead
  <2>3. n \in CallRec /\ n.op \in {"walk", "orders"}
    <3>1. CASE c.seen = {o}
      BY <1>3, <2>1, <3>1 DEF CallRec, WalkRec
    <3>2. CASE c.seen # {o}
      BY <1>2, <1>3, <2>1, <3>2, Zenon DEF CallRec, OrdersRec
    <3> QED
      BY <3>1, <3>2, ZenonT(30)
  <2>4. o \notin reg[x].mask
    BY <1>6, <1>7, <1>9, Zenon DEF RegOK
  <2>5. reg' = reg
    <3>1. reg \in [Region -> RegionRec]
      BY Zenon DEF IInv, Typed
    <3>2. [reg[x] EXCEPT !.mask = @ \ {o}] = reg[x]
      BY <1>6, <2>4, ZenonT(30) DEF RegionRec
    <3> QED
      BY <2>2, <3>1, <3>2
  <2>6. \A r \in Region : Hand(r, n) = Hand(r, call[t])
    BY <1>1, <1>2, <2>3, HandIs, ZenonT(30)
  <2> QED
    BY <1>8, <2>2, <2>3, <2>5, <2>6, QuietInv, ZenonT(30)
<1>10. CASE l # <<>>
  <2>1. PICK a : a = l[1]
    BY Zenon
  <2>2. a \in Range(l) /\ a \in Addr
    BY <1>7, <1>10, <2>1 DEF Range
  <2>3. PICK n : n = [op |-> "split", k |-> c.k, r |-> x, a |-> a, o |-> o, s |-> reg[x].state[a]]
    BY ZenonT(30)
  <2>4. PICK Q : Q = RemoveFree(reg[x], o, a)
    BY Zenon
  <2>5. reg' = [reg EXCEPT ![x] = Q] /\ call' = [call EXCEPT ![t] = n]
    <3>1. reg' = [reg EXCEPT ![x] = RemoveFree(@, o, l[1])]
      BY <1>1, <1>4, <1>5, <1>7, <1>10, Zenon DEF TakeHead
    <3>2. call' = [call EXCEPT ![t] = [op |-> "split", k |-> c.k, r |-> x, a |-> l[1], o |-> o,
                                       s |-> reg[x].state[l[1]]]]
      BY <1>1, <1>4, <1>5, <1>7, <1>10, ZenonT(30) DEF TakeHead
    <3>3. reg' = [reg EXCEPT ![x] = RemoveFree(reg[x], o, l[1])]
      BY <3>1, Zenon
    <3> QED
      BY <2>1, <2>3, <2>4, <3>2, <3>3, ZenonT(30)
  <2>6. n \in CallRec /\ n.op = "split" /\ n.r = x /\ n.a = a /\ n.o = o /\ n.s = reg[x].state[a]
    BY <1>3, <1>6, <2>2, <2>3, ZenonT(30) DEF CallRec, SplitRec
  <2>7. PICK b : b = [r |-> x, a |-> a, o |-> o]
    BY Zenon
  <2>8. b.r = x /\ b.a = a /\ b.o = o
    BY <2>7, Zenon
  <2>9. /\ RegOK(Q) /\ Q.state = [reg[x].state EXCEPT ![a] = "NotAllocated"]
        /\ FreeOf(x, Q) = FreeOf(x, reg[x]) \ {b} /\ b \in FreeOf(x, reg[x])
    <3>1. a \in Range(reg[x].free[o])
      BY <1>7, <2>2, Zenon
    <3>2. Removal(x, reg[x], o, a, Q)
      BY <1>6, <2>4, <3>1, RemoveRec, Zenon
    <3>3. b \in FreeOf(x, reg[x])
      BY <1>6, <2>7, <3>1, FreeOfHas, Zenon
    <3> QED
      BY <2>7, <3>2, <3>3, Zenon DEF Removal
  <2>10. Fits(b) /\ Fit(a, o)
    BY <1>6, <2>8, <2>9, PlacedFit, Zenon
  <2>11. Hand(x, call[t]) = {} /\ Hand(x, n) = {b} /\ \A r \in Region \ {x} : Hand(r, n) = Hand(r, call[t])
    <3>1. \A r : Hand(r, call[t]) = {}
      BY <1>1, <1>2, HandIs
    <3>2. Hand(x, n) = {b} /\ \A r : r # x => Hand(r, n) = {}
      BY <2>6, <2>7, HandIs, ZenonT(30)
    <3> QED
      BY <3>1, <3>2, ZenonT(30)
  <2>12. Honest(dirt[x], reg[x].state[a], a, o)
    BY <2>8, <2>9, PartsAre, ZenonT(30) DEF IInv, Truthful, StateHonest
  <2>13. Sets(t, n, x, Q, dirt[x])
    BY <1>6, <1>8, <2>5, Zenon DEF Sets
  <2>14. Deal(t, n, x, Q, dirt[x], {}, {b}, {}, {}, {}, {b})
    <3>1. {} \cup {b} \cup {} = {b} /\ {} \cup {} \cup {b} = {b} /\ Apart(Trade(t, {}, {}, {b}))
      BY OneApart, ZenonT(30)
    <3>2. live' = (live \ {}) \cup {} /\ FreeOf(x, Q) = (FreeOf(x, reg[x]) \ {b}) \cup {}
          /\ Hand(x, n) = (Hand(x, call[t]) \ {}) \cup {b}
      BY <1>8, <2>9, <2>11
    <3>3. ASSUME NEW u \in Addr, ~Within({b}, u) PROVE Q.state[u] = reg[x].state[u]
      BY <1>6, <2>8, <2>9, <2>10, <3>3, WithinFew, UnitsIn
    <3> QED
      BY <2>6, <2>8, <2>9, <2>10, <2>11, <2>12, <3>1, <3>2, <3>3, ZenonT(30) DEF Deal
  <2> QED
    BY <1>6, <2>6, <2>9, <2>13, <2>14, StepInv, ZenonT(30)
<1> QED
  BY <1>9, <1>10, ZenonT(30)

\* No free block starts inside a block in hand.
LEMMA NotFree ==
    ASSUME NEW x \in Region, Tiled(x), NEW t \in Thread, NEW b \in Hand(x, call[t]),
           NEW a \in UnitsOf(b.a, b.o), a \in Addr, NEW o \in Order
    PROVE  a \notin Range(reg[x].free[o])
<1> SUFFICES ASSUME a \in Range(reg[x].free[o]) PROVE FALSE
  BY Zenon
<1>1. PICK c : c = [r |-> x, a |-> a, o |-> o]
  BY ZenonT(30)
<1>2. c.a = a /\ c.o = o /\ c \in FreeOf(x, reg[x])
  BY <1>1, FreeOfHas
<1>3. Fit(c.a, c.o)
  BY <1>2, PlacedFit, ZenonT(30)
<1>4. a \in UnitsOf(c.a, c.o)
  BY <1>2, <1>3, UnitsIn, ZenonT(30)
<1> QED
  BY <1>2, <1>4, Distinct, Zenon

\* alloc gives the block in hand out.
LEMMA AllocReturnInv ==
    ASSUME IInv, UNCHANGED machine, NEW t \in Thread, AllocReturn(t)
    PROVE  IInv'
<1>1. PICK c \in CallRec : c = call[t]
  BY Zenon DEF IInv, Typed
<1>2. c \in SplitRec /\ c.op = "split"
  BY <1>1, Kinds, Zenon DEF AllocReturn
<1>3. PICK x \in Region, a \in Addr, o \in Order : x = c.r /\ a = c.a /\ o = c.o
  BY <1>2 DEF SplitRec
<1>4. PICK b : b = [r |-> x, a |-> a, o |-> o]
  BY Zenon
<1>5. b.r = x /\ b.a = a /\ b.o = o
  BY <1>4
<1>6. /\ RegOK(reg[x]) /\ Tiled(x) /\ dirt[x] \in [Addr -> Dirt]
      /\ reg = [reg EXCEPT ![x] = reg[x]]
  BY Having
<1>7. PICK d : d = Tainted(dirt[x], a, o)
  BY Zenon
<1>8. /\ live' = live \cup {b} /\ dirt' = [dirt EXCEPT ![x] = d] /\ call' = [call EXCEPT ![t] = Idle]
      /\ UNCHANGED <<machine, regions, home, reg>>
  BY <1>1, <1>3, <1>4, <1>7 DEF AllocReturn
<1>9. d \in [Addr -> Dirt] /\ \A u \in Addr : u \notin UnitsOf(a, o) => d[u] = dirt[x][u]
  BY <1>6, <1>7 DEF Tainted, Dirt
<1>10. Hand(x, call[t]) = {b} /\ \A r : r # x => Hand(r, call[t]) = {}
  BY <1>1, <1>2, <1>3, <1>4, HandIs, ZenonT(30)
<1>11. Idle \in CallRec /\ Idle.op = "idle" /\ \A r : Hand(r, Idle) = {}
  BY Kinds, HandIs, Zenon
<1>12. Fits(b)
  BY <1>6, <1>10, PlacedFit, ZenonT(30)
<1>13. Sets(t, Idle, x, reg[x], d)
  BY <1>6, <1>8, Zenon DEF Sets
<1>14. Deal(t, Idle, x, reg[x], d, {}, {}, {b}, {b}, {}, {})
  <2>1. {b} \cup {} \cup {} = {b} /\ {} \cup {} \cup {b} = {b} /\ Apart(Trade(t, {b}, {}, {}))
    BY OneApart, Zenon
  <2>2. /\ live' = (live \ {}) \cup {b} /\ FreeOf(x, reg[x]) = (FreeOf(x, reg[x]) \ {}) \cup {}
        /\ Hand(x, Idle) = (Hand(x, call[t]) \ {b}) \cup {}
    BY <1>8, <1>10, <1>11, Unions, Zenon
  <2>3. ASSUME NEW u \in Addr, ~Within({b}, u) PROVE d[u] = dirt[x][u]
    BY <1>5, <1>9, <2>3, WithinFew
  <2> QED
    BY <1>5, <1>10, <1>11, <1>12, <2>1, <2>2, <2>3, ZenonT(30) DEF Deal
<1> QED
  BY <1>6, <1>9, <1>11, <1>13, <1>14, StepInv, ZenonT(30)

\* free has the caller's block in hand.
LEMMA FreeCallInv ==
    ASSUME IInv, UNCHANGED machine, NEW t \in Thread, NEW b \in live, FreeCall(t, b)
    PROVE  IInv'
<1>1. b \in Block
  BY Zenon DEF IInv, Typed
<1>2. PICK x \in Region, a \in Addr, o \in Order : x = b.r /\ a = b.a /\ o = b.o /\ b = [r |-> x, a |-> a, o |-> o]
  BY <1>1 DEF Block
<1>3. /\ RegOK(reg[x]) /\ Tiled(x) /\ dirt[x] \in [Addr -> Dirt]
      /\ reg = [reg EXCEPT ![x] = reg[x]] /\ dirt = [dirt EXCEPT ![x] = dirt[x]]
  BY Having
<1>4. PICK n : n = [op |-> "free", r |-> x, a |-> a, o |-> o]
  BY Zenon
<1>5. n \in CallRec /\ n.op = "free" /\ n.r = x /\ n.a = a /\ n.o = o
  BY <1>4 DEF CallRec, BackRec
<1>6. /\ live' = live \ {b} /\ call' = [call EXCEPT ![t] = n] /\ call[t] = Idle
      /\ UNCHANGED <<machine, regions, home, reg, dirt>>
  BY <1>2, <1>4 DEF FreeCall
<1>7. \A r : Hand(r, call[t]) = {}
  BY <1>6, HandIs DEF Idle
<1>8. Hand(x, n) = {b} /\ \A r : r # x => Hand(r, n) = {}
  BY <1>2, <1>5, HandIs, ZenonT(30)
<1>9. b \in LiveIn(x)
  BY <1>2 DEF LiveIn
<1>10. Fits(b)
  BY <1>3, <1>9, PlacedFit, ZenonT(30)
<1>11. Sets(t, n, x, reg[x], dirt[x])
  BY <1>3, <1>6, Zenon DEF Sets
<1>12. Deal(t, n, x, reg[x], dirt[x], {b}, {}, {}, {}, {}, {b})
  <2>1. {b} \cup {} \cup {} = {b} /\ {} \cup {} \cup {b} = {b} /\ Apart(Trade(t, {}, {}, {b}))
    BY OneApart, ZenonT(30)
  <2>2. /\ live' = (live \ {b}) \cup {} /\ FreeOf(x, reg[x]) = (FreeOf(x, reg[x]) \ {}) \cup {}
        /\ Hand(x, n) = (Hand(x, call[t]) \ {}) \cup {b}
    BY <1>6, <1>7, <1>8
  <2> QED
    BY <1>2, <1>5, <1>7, <1>8, <1>9, <1>10, <2>1, <2>2, ZenonT(30) DEF Deal
<1>13. RegOK(reg[x]) /\ dirt[x] \in [Addr -> Dirt] /\ n \in CallRec
  BY <1>3, <1>5, Zenon
<1> QED
  BY <1>11, <1>12, <1>13, StepInv, Zenon

\* free puts the block in hand on its list.
LEMMA FreePushInv ==
    ASSUME IInv, UNCHANGED machine, NEW t \in Thread, FreePush(t)
    PROVE  IInv'
<1>1. PICK c \in CallRec : c = call[t]
  BY Zenon DEF IInv, Typed
<1>2. c \in BackRec /\ c.op = "push"
  BY <1>1, Kinds DEF FreePush
<1>3. PICK x \in Region, a \in Addr, o \in Order : x = c.r /\ a = c.a /\ o = c.o
  BY <1>2 DEF BackRec
<1>4. PICK b : b = [r |-> x, a |-> a, o |-> o]
  BY Zenon
<1>5. b.r = x /\ b.a = a /\ b.o = o
  BY <1>4
<1>6. /\ RegOK(reg[x]) /\ Tiled(x) /\ dirt[x] \in [Addr -> Dirt] /\ reg[x].state \in [Addr -> TrimState]
  BY Having
<1>7. PICK d : d = Headed(dirt[x], a)
  BY Zenon
<1>8. PICK Q : Q = PushFree(reg[x], o, a, "Allocated")
  OBVIOUS
<1>9. /\ reg' = [reg EXCEPT ![x] = Q] /\ dirt' = [dirt EXCEPT ![x] = d] /\ call' = [call EXCEPT ![t] = Idle]
      /\ UNCHANGED <<machine, regions, home, live>>
  BY <1>1, <1>3, <1>7, <1>8 DEF FreePush
<1>10. d \in [Addr -> Dirt] /\ \A u \in Addr : u # a => d[u] = dirt[x][u]
  BY <1>6, <1>7, ZenonT(30) DEF Headed, Dirt
<1>11. Hand(x, call[t]) = {b} /\ \A r : r # x => Hand(r, call[t]) = {}
  BY <1>1, <1>2, <1>3, <1>4, HandIs, ZenonT(30)
<1>12. Idle \in CallRec /\ Idle.op = "idle" /\ \A r : Hand(r, Idle) = {}
  BY Kinds, HandIs
<1>13. Fits(b) /\ Fit(a, o)
  BY <1>5, <1>6, <1>11, PlacedFit, ZenonT(30)
<1>14. a \in UnitsOf(a, o)
  BY <1>13, UnitsIn, ZenonT(30)
<1>15. a \notin Range(reg[x].free[o])
  BY <1>5, <1>6, <1>11, <1>14, NotFree, ZenonT(30)
<1>16. /\ RegOK(Q) /\ Q.state = [reg[x].state EXCEPT ![a] = "Allocated"]
       /\ FreeOf(x, Q) = FreeOf(x, reg[x]) \cup {b}
  <2>1. "Allocated" \in TrimState
    BY DEF TrimState
  <2> QED
    BY <1>4, <1>6, <1>8, <1>15, <2>1, PushRec
<1>17. Sets(t, Idle, x, Q, d)
  BY <1>9, Zenon DEF Sets
<1>18. Honest(d, Q.state[a], a, o)
  BY <1>6, <1>16, Zenon DEF Honest
<1>19. Deal(t, Idle, x, Q, d, {}, {}, {b}, {}, {b}, {})
  <2>1. {} \cup {b} \cup {} = {b} /\ {} \cup {} \cup {b} = {b} /\ Apart(Trade(t, {}, {b}, {}))
    BY OneApart, ZenonT(30)
  <2>2. /\ live' = (live \ {}) \cup {} /\ FreeOf(x, Q) = (FreeOf(x, reg[x]) \ {}) \cup {b}
        /\ Hand(x, Idle) = (Hand(x, call[t]) \ {b}) \cup {}
    <3>1. live' = (live \ {}) \cup {}
      BY <1>9, Unions, Zenon
    <3>2. FreeOf(x, Q) = (FreeOf(x, reg[x]) \ {}) \cup {b}
      BY <1>16, Unions, Zenon
    <3>3. Hand(x, Idle) = (Hand(x, call[t]) \ {b}) \cup {}
      BY <1>11, <1>12, Zenon
    <3> QED
      BY <3>1, <3>2, <3>3, Zenon
  <2>3. ASSUME NEW u \in Addr, ~Within({b}, u) PROVE d[u] = dirt[x][u] /\ Q.state[u] = reg[x].state[u]
    <3>1. u # a
      BY <1>5, <1>14, <2>3, WithinFew, ZenonT(30)
    <3> QED
      BY <1>6, <1>10, <1>16, <3>1, Zenon
  <2> QED
    BY <1>5, <1>11, <1>12, <1>13, <1>18, <2>1, <2>2, <2>3, ZenonT(30) DEF Deal
<1> QED
  BY <1>10, <1>12, <1>16, <1>17, <1>19, StepInv, ZenonT(30)

\* h is the upper half, of order k, of the block of order o at a.
HalfOf(h, k, a, o) == k \in Order /\ k = o - 1 /\ h = a + Pow2[k]

\* A block consists of its two halves.
LEMMA Halved ==
    ASSUME NEW a \in Addr, NEW o \in Order, Fit(a, o), NEW k, NEW h, HalfOf(h, k, a, o)
    PROVE  /\ Fit(a, k) /\ Fit(h, k) /\ h # a /\ h \in UnitsOf(a, o) /\ h \in Addr
           /\ \A u \in Addr : u \in UnitsOf(a, o) <=> u \in UnitsOf(a, k) \/ u \in UnitsOf(h, k)
           /\ \A u \in Addr : ~(u \in UnitsOf(a, k) /\ u \in UnitsOf(h, k))
<1>1. k = o - 1 /\ h = a + Pow2[o - 1] /\ o > 0
  BY Widths DEF HalfOf, Order
<1>2. /\ Fit(a, o - 1) /\ Fit(h, o - 1) /\ h # a /\ h \in UnitsOf(a, o)
      /\ \A u \in Addr : u \in UnitsOf(a, o) <=> u \in UnitsOf(a, o - 1) \/ u \in UnitsOf(h, o - 1)
      /\ \A u \in Addr : ~(u \in UnitsOf(a, o - 1) /\ u \in UnitsOf(h, o - 1))
  BY <1>1, Halves
<1>3. Fit(a, k) /\ Fit(h, k) /\ h \in Addr
  BY <1>1, <1>2, Zenon DEF Fit
<1> QED
  BY <1>1, <1>2, <1>3, ZenonT(30)

\* The state of a block is true of its halves, once the upper one has a header.
LEMMA HonestHalves ==
    ASSUME NEW f \in [Addr -> Dirt], NEW s \in TrimState, NEW a, NEW o, Fit(a, o), o > 0,
           Honest(f, s, a, o), NEW h, h = a + Pow2[o - 1], NEW d, d = Headed(f, h)
    PROVE  Honest(d, s, a, o - 1) /\ Honest(d, s, h, o - 1)
<1>1. /\ Fit(a, o - 1) /\ Fit(h, o - 1) /\ h # a /\ h \in UnitsOf(a, o)
      /\ \A u \in Addr : u \in UnitsOf(a, o) <=> u \in UnitsOf(a, o - 1) \/ u \in UnitsOf(h, o - 1)
      /\ \A u \in Addr : ~(u \in UnitsOf(a, o - 1) /\ u \in UnitsOf(h, o - 1))
  BY Halves
<1>2. /\ UnitsOf(a, o - 1) \subseteq Addr /\ UnitsOf(h, o - 1) \subseteq Addr
      /\ a \in UnitsOf(a, o - 1) /\ h \in UnitsOf(h, o - 1) /\ a \in Addr /\ h \in Addr
  BY <1>1, UnitsIn, Zenon
<1>3. /\ d[h] = IF f[h] = "clean" THEN "header" ELSE f[h]
      /\ \A u \in Addr : u # h => d[u] = f[u]
  BY <1>2, Zenon DEF Headed
<1>4. ASSUME s # "Allocated"
      PROVE  \A u \in UnitsOf(a, o - 1) \cup UnitsOf(h, o - 1) : u # a => f[u] = "clean"
  BY <1>1, <1>2, <1>4, ZenonT(30) DEF Honest
<1>5. Honest(d, s, a, o - 1)
  <2>1. s # "Allocated" => \A u \in UnitsOf(a, o - 1) \ {a} : d[u] = "clean"
    BY <1>1, <1>2, <1>3, <1>4, ZenonT(30)
  <2>2. d[a] = f[a]
    BY <1>1, <1>2, <1>3, ZenonT(30)
  <2> QED
    BY <2>1, <2>2, Zenon DEF Honest
<1>6. Honest(d, s, h, o - 1)
  <2>1. s # "Allocated" => \A u \in UnitsOf(h, o - 1) \ {h} : d[u] = "clean"
    BY <1>1, <1>2, <1>3, <1>4, ZenonT(30)
  <2>2. s # "Allocated" => d[h] = "header"
    BY <1>1, <1>2, <1>3, <1>4, ZenonT(30)
  <2> QED
    BY <2>1, <2>2, Zenon DEF Honest
<1> QED
  BY <1>5, <1>6, ZenonT(30)

\* alloc splits the block in hand and frees the upper half.
LEMMA SplitInv ==
    ASSUME IInv, UNCHANGED machine, NEW t \in Thread, Split(t)
    PROVE  IInv'
<1>1. PICK c \in CallRec : c = call[t]
  BY Zenon DEF IInv, Typed
<1>2. c \in SplitRec /\ c.op = "split" /\ c.o > c.k
  BY <1>1, Kinds, ZenonT(30) DEF Split
<1>3. PICK x \in Region, a \in Addr, o \in Order, s \in TrimState : x = c.r /\ a = c.a /\ o = c.o /\ s = c.s
  BY <1>2 DEF SplitRec
<1>4. PICK b : b = [r |-> x, a |-> a, o |-> o]
  BY Zenon
<1>5. b.r = x /\ b.a = a /\ b.o = o
  BY <1>4
<1>6. RegOK(reg[x]) /\ Tiled(x) /\ dirt[x] \in [Addr -> Dirt] /\ reg[x].state \in [Addr -> TrimState]
  BY Having
<1>7. o > 0 /\ o \in Nat /\ c.k \in Order
  BY <1>2, <1>3, Widths DEF SplitRec
<1>8. PICK k \in Order : k = o - 1
  BY <1>7, Widths
<1>9. PICK h : h = a + Pow2[k]
  BY Zenon
<1>10. PICK d : d = Headed(dirt[x], h)
  OBVIOUS
<1>11. PICK Q : Q = PushFree(reg[x], k, h, s)
  BY Zenon
<1>12. PICK n : n = [c EXCEPT !.o = k]
  BY ZenonT(30)
<1>13. /\ reg' = [reg EXCEPT ![x] = Q] /\ dirt' = [dirt EXCEPT ![x] = d] /\ call' = [call EXCEPT ![t] = n]
       /\ UNCHANGED <<machine, regions, home, live>>
  BY <1>1, <1>3, <1>8, <1>9, <1>10, <1>11, <1>12 DEF Split
<1>14. n \in CallRec /\ n.op = "split" /\ n.r = x /\ n.a = a /\ n.o = k /\ n.s = s
  BY <1>2, <1>3, <1>12, ZenonT(30) DEF CallRec, SplitRec
<1>15. Hand(x, call[t]) = {b} /\ \A r : r # x => Hand(r, call[t]) = {}
  BY <1>1, <1>2, <1>3, <1>4, HandIs, ZenonT(30)
<1>16. PICK e : e = [r |-> x, a |-> a, o |-> k]
  BY Zenon
<1>17. PICK g : g = [r |-> x, a |-> h, o |-> k]
  BY Zenon
<1>18. e.r = x /\ e.a = a /\ e.o = k /\ g.r = x /\ g.a = h /\ g.o = k
  BY <1>16, <1>17
<1>19. Hand(x, n) = {e} /\ \A r : r # x => Hand(r, n) = {}
  BY <1>14, <1>16, HandIs, ZenonT(30)
<1>20. Fits(b) /\ Fit(a, o)
  BY <1>5, <1>6, <1>15, PlacedFit, ZenonT(30)
<1>21. /\ Fit(a, k) /\ Fit(h, k) /\ h # a /\ h \in UnitsOf(a, o) /\ h \in Addr
       /\ \A u \in Addr : u \in UnitsOf(a, o) <=> u \in UnitsOf(a, k) \/ u \in UnitsOf(h, k)
       /\ \A u \in Addr : ~(u \in UnitsOf(a, k) /\ u \in UnitsOf(h, k))
  <2>1. HalfOf(h, k, a, o)
    BY <1>8, <1>9, ZenonT(30) DEF HalfOf
  <2> QED
    BY <1>20, <2>1, Halved, ZenonT(30)
<1>22. Fits(e) /\ Fits(g)
  BY <1>16, <1>17, <1>21, BlockIs
<1>23. h \notin Range(reg[x].free[k])
  BY <1>5, <1>6, <1>15, <1>21, NotFree, Zenon
<1>24. /\ RegOK(Q) /\ Q.state = [reg[x].state EXCEPT ![h] = s]
       /\ FreeOf(x, Q) = FreeOf(x, reg[x]) \cup {g}
  <2>1. h \in Addr /\ k \in Order /\ s \in TrimState /\ RegOK(reg[x])
    BY <1>6, <1>21, Zenon
  <2> QED
    BY <1>11, <1>17, <1>23, <2>1, PushRec
<1>25. Honest(dirt[x], s, a, o)
  BY <1>1, <1>2, <1>3, Zenon DEF IInv, Truthful
<1>26. Honest(d, s, a, k) /\ Honest(d, s, h, k)
  BY <1>6, <1>7, <1>8, <1>9, <1>10, <1>20, <1>25, HonestHalves, ZenonT(30)
<1>27. d \in [Addr -> Dirt] /\ \A u \in Addr : u # h => d[u] = dirt[x][u]
  BY <1>6, <1>10, <1>21, ZenonT(30) DEF Headed, Dirt
<1>28. Sets(t, n, x, Q, d)
  BY <1>13, Zenon DEF Sets
<1>29. Deal(t, n, x, Q, d, {}, {}, {b}, {}, {g}, {e})
  <2>1. {} \cup {} \cup {b} = {b} /\ {} \cup {g} \cup {e} = {g, e}
    BY Zenon
  <2>2. Apart(Trade(t, {}, {g}, {e}))
    <3>1. e # g
      BY <1>18, <1>21
    <3>2. \A y, z \in {g, e} : \A u \in Addr : u \in UnitsOf(y.a, y.o) /\ u \in UnitsOf(z.a, z.o) => y = z
      BY <1>18, <1>21
    <3>3. {} \cap {g} = {} /\ {} \cap {e} = {} /\ {g} \cap {e} = {}
      BY <3>1, Zenon
    <3> QED
      BY <2>1, <3>2, <3>3, TradeApart, ZenonT(30)
  <2>3. /\ live' = (live \ {}) \cup {} /\ FreeOf(x, Q) = (FreeOf(x, reg[x]) \ {}) \cup {g}
        /\ Hand(x, n) = (Hand(x, call[t]) \ {b}) \cup {e}
    BY <1>13, <1>15, <1>19, <1>24, Zenon
  <2>4. ASSUME NEW u \in Addr
        PROVE  /\ Within({b}, u) <=> Within({g, e}, u)
               /\ ~Within({b}, u) => d[u] = dirt[x][u] /\ Q.state[u] = reg[x].state[u]
    <3>1. Within({b}, u) <=> u \in UnitsOf(a, o)
      BY <1>5, WithinFew, ZenonT(30)
    <3>2. Within({g, e}, u) <=> u \in UnitsOf(h, k) \/ u \in UnitsOf(a, k)
      BY <1>18, WithinFew, ZenonT(30)
    <3>3. ASSUME u # h PROVE d[u] = dirt[x][u] /\ Q.state[u] = reg[x].state[u]
      BY <1>6, <1>24, <1>27, <3>3
    <3> QED
      BY <1>21, <3>1, <3>2, <3>3, ZenonT(30)
  <2>5. Honest(d, Q.state[g.a], g.a, g.o) /\ Honest(d, n.s, n.a, n.o)
    <3>1. Q.state[h] = s
      BY <1>6, <1>21, <1>24, ZenonT(30)
    <3> QED
      BY <1>14, <1>18, <1>26, <3>1, ZenonT(30)
  <2> QED
    <3>1. \A y \in {} \cup {g} \cup {e} : Fits(y) /\ y.r = x
      BY <1>18, <1>22, ZenonT(30)
    <3>2. \A r \in Region \ {x} : Hand(r, n) = Hand(r, call[t])
      BY <1>15, <1>19, ZenonT(30)
    <3>3. /\ {} \subseteq LiveIn(x) /\ {} \subseteq FreeOf(x, reg[x]) /\ {b} \subseteq Hand(x, call[t])
          /\ {} \cup {} \cup {b} # {}
      BY <1>15, ZenonT(30)
    <3>4. \A y \in {g} : Honest(d, Q.state[y.a], y.a, y.o)
      BY <2>5, ZenonT(30)
    <3>5. \A u \in Addr : Within({} \cup {} \cup {b}, u) <=> Within({} \cup {g} \cup {e}, u)
      BY <2>1, <2>4, ZenonT(30)
    <3>6. \A u \in Addr : ~Within({} \cup {} \cup {b}, u) =>
              d[u] = dirt[x][u] /\ Q.state[u] = reg[x].state[u]
      BY <2>1, <2>4
    <3> QED
      BY <1>14, <2>2, <2>3, <2>5, <3>1, <3>2, <3>3, <3>4, <3>5, <3>6, Zenon DEF Deal
<1> QED
  BY <1>14, <1>24, <1>27, <1>28, <1>29, StepInv, ZenonT(30)

\* b is the sibling of the block of order o at a, and m, of order k, is both.
SiblingsAs(b, m, k, a, o) ==
    /\ o < MaxOrder /\ k = o + 1 /\ b = Sibling(a, o)
    /\ m = IF b < a THEN b ELSE a

\* A block and its sibling make one block of the next order.
LEMMA Joined ==
    ASSUME NEW a \in Addr, NEW o \in Order, Fit(a, o), NEW b \in Addr, Fit(b, o), NEW m, NEW k,
           SiblingsAs(b, m, k, a, o)
    PROVE  /\ a # b /\ Fit(m, k) /\ m \in Addr /\ k \in Order
           /\ \A u \in Addr : u \in UnitsOf(m, k) <=> u \in UnitsOf(a, o) \/ u \in UnitsOf(b, o)
<1>1. o < MaxOrder /\ k = o + 1 /\ b = Sibling(a, o) /\ m = IF b < a THEN b ELSE a
  BY DEF SiblingsAs
<1>2. /\ a # b /\ Fit(m, o + 1)
      /\ \A u \in Addr : u \in UnitsOf(m, o + 1) <=> u \in UnitsOf(a, o) \/ u \in UnitsOf(b, o)
  BY <1>1, Siblings, ZenonT(30)
<1>3. Fit(m, k) /\ m \in Addr /\ k \in Order
  BY <1>1, <1>2, ZenonT(30) DEF Fit
<1> QED
  BY <1>1, <1>2, <1>3, ZenonT(30)

\* free absorbs a free sibling, or is done with merging.
LEMMA MergeInv ==
    ASSUME IInv, UNCHANGED machine, NEW t \in Thread, Merge(t)
    PROVE  IInv'
<1>1. PICK c \in CallRec : c = call[t]
  BY Zenon DEF IInv, Typed
<1>2. c \in BackRec /\ c.op = "free"
  BY <1>1, Kinds, ZenonT(30) DEF Merge
<1>3. PICK x \in Region, a \in Addr, o \in Order : x = c.r /\ a = c.a /\ o = c.o
  BY <1>2, ZenonT(30) DEF BackRec
<1>4. PICK b : b = [r |-> x, a |-> a, o |-> o]
  BY Zenon
<1>5. b.r = x /\ b.a = a /\ b.o = o
  BY <1>4
<1>6. Hand(x, call[t]) = {b} /\ \A r : r # x => Hand(r, call[t]) = {}
  BY <1>1, <1>2, <1>3, <1>4, HandIs
<1>7. RegOK(reg[x]) /\ Tiled(x) /\ dirt[x] \in [Addr -> Dirt] /\ dirt = [dirt EXCEPT ![x] = dirt[x]]
      /\ reg[x].state \in [Addr -> TrimState]
  BY Having
<1>8. PICK s : s = Sibling(a, o)
  BY Zenon
<1>9. CASE o < MaxOrder /\ s \in reg[x].bitmap[o]
  <2>1. s \in Range(reg[x].free[o])
    BY <1>7, <1>9, ZenonT(30) DEF RegOK
  <2>2. PICK m : m = IF s < a THEN s ELSE a
    BY Zenon
  <2>3. PICK k : k = o + 1
    OBVIOUS
  <2>4. PICK Q : Q = RemoveFree(reg[x], o, s)
    BY Zenon
  <2>5. PICK n : n = [c EXCEPT !.a = m, !.o = k]
    BY Zenon
  <2>6. /\ reg' = [reg EXCEPT ![x] = Q] /\ call' = [call EXCEPT ![t] = n]
        /\ UNCHANGED <<machine, regions, home, dirt, live>>
    BY <1>1, <1>3, <1>8, <1>9, <2>2, <2>3, <2>4, <2>5, ZenonT(30) DEF Merge
  <2>7. PICK g : g = [r |-> x, a |-> s, o |-> o]
    BY ZenonT(30)
  <2>8. g.r = x /\ g.a = s /\ g.o = o /\ g \in FreeOf(x, reg[x])
    <3>1. g.r = x /\ g.a = s /\ g.o = o
      BY <2>7
    <3>2. g \in FreeOf(x, reg[x])
      BY <2>1, <2>7, FreeOfHas, Zenon
    <3> QED
      BY <3>1, <3>2, Zenon
  <2>9. Fits(b) /\ Fit(a, o) /\ Fit(s, o)
    <3>1. Fit(g.a, g.o)
      BY <1>7, <2>8, PlacedFit, Zenon
    <3>2. Fits(b) /\ Fit(b.a, b.o)
      BY <1>6, <1>7, PlacedFit, Zenon
    <3> QED
      BY <1>5, <2>8, <3>1, <3>2, Zenon
  <2>10. /\ RegOK(Q) /\ Q.state = [reg[x].state EXCEPT ![s] = "NotAllocated"] /\ s \in Addr
         /\ FreeOf(x, Q) = FreeOf(x, reg[x]) \ {g}
    <3>1. /\ RegOK(Q) /\ Q.state = [reg[x].state EXCEPT ![s] = "NotAllocated"] /\ s \in Addr
          /\ FreeOf(x, Q) = FreeOf(x, reg[x]) \ {[r |-> x, a |-> s, o |-> o]}
      <4>1. Removal(x, reg[x], o, s, Q)
        BY <1>7, <2>1, <2>4, RemoveRec, Zenon
      <4> QED
        BY <4>1, Zenon DEF Removal
    <3> QED
      BY <2>7, <3>1, Zenon
  <2>11. /\ a # s /\ Fit(m, k) /\ m \in Addr /\ k \in Order
         /\ \A u \in Addr : u \in UnitsOf(m, k) <=> u \in UnitsOf(a, o) \/ u \in UnitsOf(s, o)
    <3>1. SiblingsAs(s, m, k, a, o)
      BY <1>8, <1>9, <2>2, <2>3, Zenon DEF SiblingsAs
    <3> QED
      BY <2>9, <2>10, <3>1, Joined
  <2>12. n \in CallRec /\ n.op = "free" /\ n.r = x /\ n.a = m /\ n.o = k
    BY <1>2, <1>3, <2>5, <2>11, ZenonT(30) DEF CallRec, BackRec
  <2>13. PICK e : e = [r |-> x, a |-> m, o |-> k]
    BY ZenonT(30)
  <2>14. e.r = x /\ e.a = m /\ e.o = k /\ Fits(e)
    BY <2>11, <2>13, BlockIs
  <2>15. Hand(x, n) = {e} /\ \A r : r # x => Hand(r, n) = {}
    BY <2>12, <2>13, HandIs
  <2>16. Sets(t, n, x, Q, dirt[x])
    BY <1>7, <2>6, Zenon DEF Sets
  <2>17. Deal(t, n, x, Q, dirt[x], {}, {g}, {b}, {}, {}, {e})
    <3>1. {} \cup {g} \cup {b} = {g, b} /\ {} \cup {} \cup {e} = {e} /\ Apart(Trade(t, {}, {}, {e}))
      BY OneApart, ZenonT(30)
    <3>2. /\ live' = (live \ {}) \cup {} /\ FreeOf(x, Q) = (FreeOf(x, reg[x]) \ {g}) \cup {}
          /\ Hand(x, n) = (Hand(x, call[t]) \ {b}) \cup {e}
      BY <1>6, <2>6, <2>10, <2>15, ZenonT(30)
    <3>3. \A y \in {} \cup {} \cup {e} : Fits(y) /\ y.r = x
      BY <2>14, ZenonT(30)
    <3>4. \A r \in Region \ {x} : Hand(r, n) = Hand(r, call[t])
      BY <1>6, <2>15, ZenonT(30)
    <3>5. /\ {} \subseteq LiveIn(x) /\ {g} \subseteq FreeOf(x, reg[x]) /\ {b} \subseteq Hand(x, call[t])
          /\ {} \cup {g} \cup {b} # {}
      BY <1>6, <2>8, ZenonT(30)
    <3>6. ASSUME NEW u \in Addr
          PROVE  /\ Within({} \cup {g} \cup {b}, u) <=> Within({} \cup {} \cup {e}, u)
                 /\ ~Within({} \cup {g} \cup {b}, u) => Q.state[u] = reg[x].state[u]
      <4>1. Within({g, b}, u) <=> u \in UnitsOf(s, o) \/ u \in UnitsOf(a, o)
        BY <1>5, <2>8, WithinFew, ZenonT(30)
      <4>2. Within({e}, u) <=> u \in UnitsOf(m, k)
        BY <2>14, WithinFew
      <4>3. u # s => Q.state[u] = reg[x].state[u]
        BY <1>7, <2>10
      <4>4. s \in UnitsOf(s, o)
        BY <2>9, UnitsIn, ZenonT(30)
      <4> QED
        BY <2>11, <3>1, <4>1, <4>2, <4>3, <4>4, ZenonT(30)
    <3> QED
      BY <2>12, <3>1, <3>2, <3>3, <3>4, <3>5, <3>6, Zenon DEF Deal
  <2> QED
    BY <1>7, <2>10, <2>12, <2>16, <2>17, StepInv, ZenonT(30)
<1>10. CASE ~(o < MaxOrder /\ s \in reg[x].bitmap[o])
  <2>1. PICK n : n = [c EXCEPT !.op = "push"]
    BY ZenonT(30)
  <2>2. call' = [call EXCEPT ![t] = n] /\ UNCHANGED <<machine, regions, home, reg, dirt, live>>
    BY <1>1, <1>3, <1>8, <1>10, <2>1 DEF Merge
  <2>3. n \in CallRec /\ n.op = "push" /\ n.r = x /\ n.a = a /\ n.o = o
    BY <1>2, <1>3, <2>1, ZenonT(30) DEF CallRec, BackRec
  <2>4. Hand(x, n) = {b} /\ \A r : r # x => Hand(r, n) = {}
    BY <1>4, <2>3, HandIs, ZenonT(30)
  <2>5. \A r \in Region : Hand(r, n) = Hand(r, call[t])
    BY <1>6, <2>4, ZenonT(30)
  <2> QED
    BY <2>2, <2>3, <2>5, QuietInv, ZenonT(30)
<1> QED
  BY <1>9, <1>10, ZenonT(30)

\* try_grow_inplace turns a live block and its free sibling into one live block.
LEMMA TryGrowInv ==
    ASSUME IInv, UNCHANGED machine, NEW t \in Thread, NEW b \in live, TryGrow(t, b)
    PROVE  IInv'
<1>1. b \in Block
  BY Zenon DEF IInv, Typed
<1>2. PICK x \in Region, a \in Addr, o \in Order : x = b.r /\ a = b.a /\ o = b.o
  BY <1>1, ZenonT(30) DEF Block
<1>3. b \in LiveIn(x)
  BY <1>2, ZenonT(30) DEF LiveIn
<1>4. RegOK(reg[x]) /\ Tiled(x) /\ dirt[x] \in [Addr -> Dirt] /\ reg[x].state \in [Addr -> TrimState]
  BY Having, Zenon
<1>5. PICK s : s = Sibling(a, o)
  BY Zenon
<1>6. o < MaxOrder /\ s > a /\ s \in reg[x].bitmap[o] /\ call[t] = Idle
  BY <1>2, <1>5, ZenonT(30) DEF TryGrow
<1>7. s \in Range(reg[x].free[o])
  BY <1>4, <1>6, ZenonT(30) DEF RegOK
<1>8. PICK k : k = o + 1
  BY Zenon
<1>9. PICK Q : Q = RemoveFree(reg[x], o, s)
  OBVIOUS
<1>10. PICK d : d = Tainted(dirt[x], a, k)
  BY Zenon
<1>11. PICK e : e = [b EXCEPT !.o = k]
  BY Zenon
<1>12. /\ reg' = [reg EXCEPT ![x] = Q] /\ dirt' = [dirt EXCEPT ![x] = d] /\ live' = (live \ {b}) \cup {e}
       /\ UNCHANGED <<machine, regions, home, call>>
  <2>1. /\ reg' = [reg EXCEPT ![b.r] = RemoveFree(reg[b.r], b.o, Sibling(b.a, b.o))]
        /\ dirt' = [dirt EXCEPT ![b.r] = Tainted(dirt[b.r], b.a, b.o + 1)]
        /\ live' = (live \ {b}) \cup {[b EXCEPT !.o = b.o + 1]}
        /\ UNCHANGED <<machine, regions, home, call>>
    BY Zenon DEF TryGrow
  <2> QED
    BY <1>2, <1>5, <1>8, <1>9, <1>10, <1>11, <2>1, Zenon
<1>13. call' = [call EXCEPT ![t] = Idle]
  BY <1>6, <1>12 DEF IInv, Typed
<1>14. e = [r |-> x, a |-> a, o |-> k]
  BY <1>1, <1>2, <1>11, ZenonT(30) DEF Block
<1>15. PICK g : g = [r |-> x, a |-> s, o |-> o]
  BY ZenonT(30)
<1>16. g.r = x /\ g.a = s /\ g.o = o /\ g \in FreeOf(x, reg[x])
  <2>1. g.r = x /\ g.a = s /\ g.o = o
    BY <1>15
  <2>2. g \in FreeOf(x, reg[x])
    BY <1>7, <1>15, FreeOfHas, Zenon
  <2> QED
    BY <2>1, <2>2, Zenon
<1>17. Fits(b) /\ Fit(a, o) /\ Fit(s, o)
  <2>1. Fit(g.a, g.o)
    BY <1>4, <1>16, PlacedFit, Zenon
  <2>2. Fits(b) /\ Fit(b.a, b.o)
    BY <1>3, <1>4, PlacedFit, Zenon
  <2> QED
    BY <1>2, <1>16, <2>1, <2>2, Zenon
<1>18. /\ RegOK(Q) /\ Q.state = [reg[x].state EXCEPT ![s] = "NotAllocated"] /\ s \in Addr
       /\ FreeOf(x, Q) = FreeOf(x, reg[x]) \ {g}
  <2>1. /\ RegOK(Q) /\ Q.state = [reg[x].state EXCEPT ![s] = "NotAllocated"] /\ s \in Addr
        /\ FreeOf(x, Q) = FreeOf(x, reg[x]) \ {[r |-> x, a |-> s, o |-> o]}
    <3>1. Removal(x, reg[x], o, s, Q)
      BY <1>4, <1>7, <1>9, RemoveRec, Zenon
    <3> QED
      BY <3>1, Zenon DEF Removal
  <2> QED
    BY <1>15, <2>1, Zenon
<1>19. /\ a # s /\ Fit(a, k) /\ k \in Order
       /\ \A u \in Addr : u \in UnitsOf(a, k) <=> u \in UnitsOf(a, o) \/ u \in UnitsOf(s, o)
  <2>1. ~(s < a)
    BY <1>6, <1>18, Widths DEF Addr
  <2>2. SiblingsAs(s, a, k, a, o)
    BY <1>5, <1>6, <1>8, <2>1, Zenon DEF SiblingsAs
  <2> QED
    BY <1>17, <1>18, <2>2, Joined, ZenonT(30)
<1>20. e.r = x /\ e.a = a /\ e.o = k /\ Fits(e)
  BY <1>14, <1>19, BlockIs
<1>21. Idle \in CallRec /\ Idle.op = "idle" /\ \A r : Hand(r, Idle) = {}
  BY <1>6, Having, Kinds, HandIs, Zenon
<1>22. d \in [Addr -> Dirt] /\ \A u \in Addr : u \notin UnitsOf(a, k) => d[u] = dirt[x][u]
  BY <1>4, <1>10, ZenonT(30) DEF Tainted, Dirt
<1>23. Sets(t, Idle, x, Q, d)
  BY <1>12, <1>13, Zenon DEF Sets
<1>24. Deal(t, Idle, x, Q, d, {b}, {g}, {}, {e}, {}, {})
  <2>1. {b} \cup {g} \cup {} = {b, g} /\ {e} \cup {} \cup {} = {e} /\ Apart(Trade(t, {e}, {}, {}))
    BY OneApart, ZenonT(30)
  <2>2. /\ live' = (live \ {b}) \cup {e} /\ FreeOf(x, Q) = (FreeOf(x, reg[x]) \ {g}) \cup {}
        /\ Hand(x, Idle) = (Hand(x, call[t]) \ {}) \cup {}
    BY <1>6, <1>12, <1>18, <1>21, Unions, Zenon
  <2>3. \A y \in {e} \cup {} \cup {} : Fits(y) /\ y.r = x
    BY <1>20, ZenonT(30)
  <2>4. \A r \in Region \ {x} : Hand(r, Idle) = Hand(r, call[t])
    BY <1>6, ZenonT(30)
  <2>5. /\ {b} \subseteq LiveIn(x) /\ {g} \subseteq FreeOf(x, reg[x]) /\ {} \subseteq Hand(x, call[t])
        /\ {b} \cup {g} \cup {} # {}
    BY <1>3, <1>16, ZenonT(30)
  <2>6. ASSUME NEW u \in Addr
        PROVE  /\ Within({b} \cup {g} \cup {}, u) <=> Within({e} \cup {} \cup {}, u)
               /\ ~Within({b} \cup {g} \cup {}, u) => d[u] = dirt[x][u] /\ Q.state[u] = reg[x].state[u]
    <3>1. Within({b, g}, u) <=> u \in UnitsOf(a, o) \/ u \in UnitsOf(s, o)
      BY <1>2, <1>16, WithinFew, ZenonT(30)
    <3>2. Within({e}, u) <=> u \in UnitsOf(a, k)
      BY <1>20, WithinFew
    <3>3. u # s => Q.state[u] = reg[x].state[u]
      BY <1>4, <1>18, ZenonT(30)
    <3>4. s \in UnitsOf(s, o)
      BY <1>17, UnitsIn, ZenonT(30)
    <3> QED
      BY <1>19, <1>22, <2>1, <3>1, <3>2, <3>3, <3>4, ZenonT(30)
  <2> QED
    BY <1>21, <2>1, <2>2, <2>3, <2>4, <2>5, <2>6, Zenon DEF Deal
<1> QED
  BY <1>18, <1>21, <1>22, <1>23, <1>24, StepInv, ZenonT(30)

==============================================================================
