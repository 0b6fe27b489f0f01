----------------------------- MODULE BuddyProofs -----------------------------
(***************************************************************************)
(* IInv is an inductive invariant of Buddy, and with it the blocks of a    *)
(* region tile it, lists, bitmaps and masks agree, trim states tell the    *)
(* truth, an undisturbed alloc fails only when it must, and the backend    *)
(* implements Extents.  For any threads, regions, machines and orders.     *)
(***************************************************************************)
EXTENDS BuddyLemmas

------------------------------------------------------------------------------
(* The walk of alloc, and trimming *)

\* alloc begins.
LEMMA AllocCallInv ==
    ASSUME IInv, UNCHANGED machine, NEW t \in Thread, NEW k \in Order, NEW m \in Node, AllocCall(t, k, m)
    PROVE  IInv'
<1>1. PICK n : n = [op |-> "head", k |-> k, node |-> m, try |-> 0]
  BY Zenon
<1>2. call' = [call EXCEPT ![t] = n] /\ UNCHANGED <<machine, regions, home, reg, dirt, live>> /\ call[t] = Idle
  BY <1>1 DEF AllocCall
<1>3. n \in CallRec /\ n.op = "head"
  BY <1>1 DEF CallRec, HeadRec
<1>4. \A r \in Region : Hand(r, n) = Hand(r, call[t])
  BY <1>2, <1>3, HandIs, Kinds, ZenonT(30)
<1> QED
  BY <1>2, <1>3, <1>4, QuietInv, ZenonT(30)

\* An attempt reads regions_head.
LEMMA WalkInv ==
    ASSUME IInv, UNCHANGED machine, NEW t \in Thread, Walk(t)
    PROVE  IInv'
<1>1. PICK c \in CallRec : c = call[t]
  BY ZenonT(30) DEF IInv, Typed
<1>2. c \in HeadRec /\ c.op = "head"
  BY <1>1, Kinds, ZenonT(30) DEF Walk
<1>3. PICK n : n = [op |-> "walk", k |-> c.k, node |-> c.node, try |-> c.try, left |-> regions]
  BY ZenonT(30)
<1>4. call' = [call EXCEPT ![t] = n] /\ UNCHANGED <<machine, regions, home, reg, dirt, live>>
  BY <1>1, <1>3 DEF Walk
<1>5. n \in CallRec /\ n.op = "walk"
  BY <1>2, <1>3, ZenonT(30) DEF IInv, Typed, CallRec, HeadRec, WalkRec
<1>6. \A r \in Region : Hand(r, n) = Hand(r, call[t])
  BY <1>1, <1>2, <1>5, HandIs, ZenonT(30)
<1> QED
  BY <1>4, <1>5, <1>6, QuietInv, ZenonT(30)

\* A walk goes on to its next region, or to the orders of this one.
LEMMA VisitInv ==
    ASSUME IInv, UNCHANGED machine, NEW t \in Thread, Visit(t)
    PROVE  IInv'
<1>1. PICK c \in CallRec : c = call[t]
  BY Zenon DEF IInv, Typed
<1>2. c \in WalkRec /\ c.op = "walk" /\ c.left # <<>>
  BY <1>1, Kinds, ZenonT(30) DEF Visit
<1>3. c.left \in Seq(Region) /\ Tail(c.left) \in Seq(Region) /\ Head(c.left) \in Region
  BY <1>2 DEF WalkRec
<1>4. PICK r \in Region : r = Head(c.left)
  BY <1>3, ZenonT(30)
<1>5. PICK S : S = {o \in reg[r].mask : o >= c.k}
  BY ZenonT(30)
<1>6. S \subseteq Order
  BY <1>5, Having DEF RegionRec
<1>7. PICK n : n = IF home[r] # TryNode(c) \/ S = {} THEN [c EXCEPT !.left = Tail(@)]
                   ELSE [op |-> "orders", k |-> c.k, node |-> c.node, try |-> c.try, left |-> c.left, seen |-> S]
  BY Zenon
<1>8. call' = [call EXCEPT ![t] = n] /\ UNCHANGED <<machine, regions, home, reg, dirt, live>>
  BY <1>1, <1>4, <1>5, <1>7 DEF Visit
<1>9. n \in CallRec /\ n.op \in {"walk", "orders"}
  <2>1. CASE home[r] # TryNode(c) \/ S = {}
    <3>1. n = [c EXCEPT !.left = Tail(c.left)]
      BY <1>7, <2>1, Zenon
    <3> QED
      BY <1>2, <1>3, <3>1, ZenonT(30) DEF CallRec, WalkRec
  <2>2. CASE ~(home[r] # TryNode(c) \/ S = {})
    <3>1. n = [op |-> "orders", k |-> c.k, node |-> c.node, try |-> c.try, left |-> c.left, seen |-> S]
      BY <1>7, <2>2, ZenonT(30)
    <3>2. S \in (SUBSET Order) \ {{}} /\ c.left \in Seq(Region) \ {<<>>}
      BY <1>2, <1>3, <1>6, <2>2, ZenonT(30)
    <3> QED
      BY <1>2, <3>1, <3>2, Zenon DEF CallRec, WalkRec, OrdersRec
  <2> QED
    BY <2>1, <2>2, ZenonT(30)
<1>10. \A q \in Region : Hand(q, n) = Hand(q, call[t])
  BY <1>1, <1>2, <1>9, HandIs, ZenonT(30)
<1> QED
  BY <1>8, <1>9, <1>10, QuietInv, ZenonT(30)

\* The next attempt of an alloc, if there is one.
LEMMA NextTryIs ==
    ASSUME NEW c \in WalkRec, NEW m \in Nat, NEW n, n = NextTry(c, m)
    PROVE  n \in CallRec /\ n.op \in {"head", "idle"} /\ \A r : Hand(r, n) = {}
<1>1. n = [op |-> "head", k |-> c.k, node |-> c.node, try |-> m] \/ n = Idle
  BY Zenon DEF NextTry
<1>2. n \in CallRec /\ n.op \in {"head", "idle"}
  BY <1>1 DEF CallRec, HeadRec, WalkRec, Idle
<1> QED
  BY <1>2, HandIs

\* A walk that found nothing leads to the next attempt.
LEMMA WalkFailedInv ==
    ASSUME IInv, UNCHANGED machine, NEW t \in Thread, WalkFailed(t)
    PROVE  IInv'
<1>1. PICK c \in CallRec : c = call[t]
  BY Zenon DEF IInv, Typed
<1>2. c \in WalkRec /\ c.op = "walk" /\ c.try + 1 \in Nat
  BY <1>1, Kinds DEF WalkFailed, WalkRec
<1>3. PICK m \in Nat : m = c.try + 1
  BY <1>2
<1>4. PICK n : n = NextTry(c, m)
  BY Zenon
<1>5. call' = [call EXCEPT ![t] = n] /\ UNCHANGED <<machine, regions, home, reg, dirt, live>>
  BY <1>1, <1>3, <1>4, ZenonT(30) DEF WalkFailed
<1>6. n \in CallRec /\ n.op # "split" /\ \A r : Hand(r, n) = {}
  BY <1>2, <1>4, NextTryIs, ZenonT(30)
<1>7. \A r \in Region : Hand(r, n) = Hand(r, call[t])
  BY <1>1, <1>2, <1>6, HandIs, ZenonT(30)
<1> QED
  BY <1>5, <1>6, <1>7, QuietInv, Zenon

\* A trim begins.
LEMMA TrimCallInv ==
    ASSUME IInv, UNCHANGED machine, NEW t \in Thread, NEW force \in BOOLEAN, TrimCall(t, force)
    PROVE  IInv'
<1>1. PICK n : n = [op |-> "trim", force |-> force, left |-> regions, o |-> 0]
  BY Zenon
<1>2. call' = [call EXCEPT ![t] = n] /\ UNCHANGED <<machine, regions, home, reg, dirt, live>> /\ call[t] = Idle
  BY <1>1 DEF TrimCall
<1>3. n \in CallRec /\ n.op = "trim"
  <2>1. 0 \in Order /\ regions \in Seq(Region) \ {<<>>}
    BY ConstAssumption DEF Order, IInv, Typed
  <2> QED
    <3>1. n \in TrimRec /\ n.op = "trim"
      BY <1>1, <2>1, Zenon DEF TrimRec
    <3> QED
      BY <3>1, Zenon DEF CallRec
<1>4. \A r \in Region : Hand(r, n) = Hand(r, call[t])
  BY <1>2, <1>3, HandIs, Having, Kinds, Zenon
<1> QED
  BY <1>2, <1>3, <1>4, QuietInv, ZenonT(30)

\* madvise on the free blocks of order o at G: what it leaves alone, and what
\* it makes true of the blocks.
LEMMA ReleasedIs ==
    ASSUME NEW f \in [Addr -> Dirt], NEW o \in Order, NEW G \in SUBSET Addr,
           \A a \in G : Fit(a, o),
           \A a, b \in G : \A u \in Addr : u \in UnitsOf(a, o) /\ u \in UnitsOf(b, o) => a = b,
           NEW d, d = Released(f, G, o)
    PROVE  /\ d \in [Addr -> Dirt]
           /\ \A u \in Addr : (\A a \in G : u \notin UnitsOf(a, o)) => d[u] = f[u]
           /\ \A a \in G : Honest(d, "Trimmed", a, o)
<1>1. \A a \in G : a \in UnitsOf(a, o) /\ UnitsOf(a, o) \subseteq Addr
  BY UnitsIn, ZenonT(30)
<1>2. ASSUME NEW u \in Addr
      PROVE  d[u] = CASE u \in G -> IF f[u] = "full" THEN "first" ELSE f[u]
                      [] u \notin G /\ (\E a \in G : u \in UnitsOf(a, o)) -> "clean"
                      [] OTHER -> f[u]
  BY <1>2, Zenon DEF Released
<1>3. ASSUME NEW u \in Addr
      PROVE  /\ u \in G => d[u] = IF f[u] = "full" THEN "first" ELSE f[u]
             /\ u \notin G /\ (\E a \in G : u \in UnitsOf(a, o)) => d[u] = "clean"
             /\ u \notin G /\ ~(\E a \in G : u \in UnitsOf(a, o)) => d[u] = f[u]
  BY <1>2, <1>3, ZenonT(30)
<1>4. d = [u \in Addr |-> d[u]]
  BY Zenon DEF Released
<1>5. \A u \in Addr : d[u] \in Dirt
  BY <1>3, ZenonT(30) DEF Dirt
<1>6. d \in [Addr -> Dirt]
  BY <1>4, <1>5, ZenonT(30)
<1>7. ASSUME NEW u \in Addr, \A a \in G : u \notin UnitsOf(a, o) PROVE d[u] = f[u]
  BY <1>1, <1>3, <1>7, ZenonT(30)
<1>8. ASSUME NEW a \in G PROVE Honest(d, "Trimmed", a, o)
  <2>1. \A u \in UnitsOf(a, o) \ {a} : u \in Addr /\ u \notin G
    BY <1>1, Zenon
  <2>2. \A u \in UnitsOf(a, o) \ {a} : d[u] = "clean"
    BY <1>3, <2>1, ZenonT(30)
  <2>3. d[a] # "full"
    BY <1>3, ZenonT(30)
  <2> QED
    BY <2>2, <2>3, ZenonT(30) DEF Honest
<1> QED
  BY <1>6, <1>7, <1>8

\* Regions with the same lists have the same free blocks.
LEMMA SameFree ==
    ASSUME NEW r, NEW Q, NEW R, Q.free = R.free
    PROVE  FreeOf(r, Q) = FreeOf(r, R)
<1>1. PICK f : f = Q.free
  BY Zenon
<1>2. FreeOf(r, Q) = UNION {{[r |-> r, a |-> a, o |-> o] : a \in Range(f[o])} : o \in Order}
  BY <1>1 DEF FreeOf
<1>3. f = R.free
  BY <1>1, Zenon
<1>4. FreeOf(r, R) = UNION {{[r |-> r, a |-> a, o |-> o] : a \in Range(f[o])} : o \in Order}
  BY <1>3 DEF FreeOf
<1> QED
  BY <1>2, <1>4, Zenon

\* A trim releases some reused blocks of one order and says so in their headers.
LEMMA TrimOrderInv ==
    ASSUME IInv, UNCHANGED machine, NEW t \in Thread, TrimOrder(t)
    PROVE  IInv'
<1>1. PICK c \in CallRec : c = call[t]
  BY Zenon DEF IInv, Typed
<1>2. c \in TrimRec /\ c.op = "trim"
  BY <1>1, Kinds, ZenonT(30) DEF TrimOrder
<1>3. c.left \in Seq(Region) /\ c.left # <<>> /\ c.o \in Order
  BY <1>2, ZenonT(30) DEF TrimRec
<1>4. PICK x \in Region, o \in Order : x = Head(c.left) /\ o = c.o
  BY <1>3
<1>5. /\ RegOK(reg[x]) /\ Tiled(x) /\ reg[x] \in RegionRec /\ dirt[x] \in [Addr -> Dirt]
      /\ reg[x].state \in [Addr -> TrimState]
      /\ reg = [reg EXCEPT ![x] = reg[x]] /\ dirt = [dirt EXCEPT ![x] = dirt[x]]
  BY Having, Zenon
<1>6. PICK G \in SUBSET {a \in Range(reg[x].free[o]) : reg[x].state[a] = "Allocated"} :
             /\ reg' = [reg EXCEPT ![x].state = [a \in Addr |-> IF a \in G THEN "Trimmed" ELSE @[a]]]
             /\ dirt' = [dirt EXCEPT ![x] = Released(@, G, o)]
             /\ \/ call' = [call EXCEPT ![t] =
                               IF o < MaxOrder THEN [c EXCEPT !.o = @ + 1]
                               ELSE IF Len(c.left) > 1 THEN [c EXCEPT !.left = Tail(@), !.o = 0]
                               ELSE Idle]
                \/ call' = [call EXCEPT ![t] = Idle]
  <2>1. PICK G \in SUBSET {a \in Range(reg[Head(call[t].left)].free[call[t].o]) :
                               reg[Head(call[t].left)].state[a] = "Allocated"} :
             /\ reg' = [reg EXCEPT ![Head(call[t].left)].state =
                                       [a \in Addr |-> IF a \in G THEN "Trimmed" ELSE @[a]]]
             /\ dirt' = [dirt EXCEPT ![Head(call[t].left)] = Released(@, G, call[t].o)]
             /\ \/ call' = [call EXCEPT ![t] =
                               IF call[t].o < MaxOrder THEN [call[t] EXCEPT !.o = @ + 1]
                               ELSE IF Len(call[t].left) > 1 THEN [call[t] EXCEPT !.left = Tail(@), !.o = 0]
                               ELSE Idle]
                \/ call[t].force /\ G # {} /\ call' = [call EXCEPT ![t] = Idle]
    BY Zenon DEF TrimOrder
  <2>2. Head(call[t].left) = x /\ call[t].o = o /\ call[t] = c
    BY <1>1, <1>4, ZenonT(30)
  <2> QED
    BY <2>1, <2>2, Zenon
<1>7. PICK n \in CallRec : call' = [call EXCEPT ![t] = n] /\ n.op \in {"trim", "idle"}
  <2>1. Idle \in CallRec /\ Idle.op = "idle"
    BY Kinds, Zenon
  <2>2. CASE o < MaxOrder
    <3>1. PICK m : m = [c EXCEPT !.o = o + 1]
      BY ZenonT(30)
    <3>2. o + 1 \in Order
      BY <2>2, Widths, Zenon
    <3>3. m \in TrimRec /\ m.op = "trim"
      BY <1>2, <3>1, <3>2 DEF TrimRec
    <3>4. m \in CallRec
      BY <3>3, ZenonT(30) DEF CallRec
    <3>5. call' = [call EXCEPT ![t] = m] \/ call' = [call EXCEPT ![t] = Idle]
      BY <1>4, <1>6, <2>2, <3>1, ZenonT(30)
    <3> QED
      BY <2>1, <3>3, <3>4, <3>5, ZenonT(30)
  <2>3. CASE ~(o < MaxOrder) /\ Len(c.left) > 1
    <3>1. PICK m : m = [c EXCEPT !.left = Tail(c.left), !.o = 0]
      BY Zenon
    <3>2. 0 \in Order /\ Tail(c.left) \in Seq(Region) \ {<<>>}
      <4>1. PICK l \in Seq(Region) : l = c.left /\ Len(l) > 1
        BY <1>3, <2>3, ZenonT(30)
      <4>2. Tail(l) \in Seq(Region) /\ Len(Tail(l)) > 0
        BY <4>1
      <4>3. Tail(l) # <<>>
        <5>1. PICK z : z = Len(Tail(l)) /\ z # 0
          BY <4>2
        <5>2. Len(<<>>) = 0
          BY Zenon
        <5> QED
          BY <5>1, <5>2, Zenon
      <4>4. 0 \in Order
        BY ConstAssumption DEF Order
      <4> QED
        BY <4>1, <4>2, <4>3, <4>4, ZenonT(30)
    <3>3. m \in TrimRec /\ m.op = "trim"
      BY <1>2, <3>1, <3>2, Zenon DEF TrimRec
    <3>4. m \in CallRec
      BY <3>3 DEF CallRec
    <3>5. call' = [call EXCEPT ![t] = m] \/ call' = [call EXCEPT ![t] = Idle]
      BY <1>4, <1>6, <2>3, <3>1
    <3> QED
      BY <2>1, <3>3, <3>4, <3>5, ZenonT(30)
  <2>4. CASE ~(o < MaxOrder) /\ ~(Len(c.left) > 1)
    BY <1>6, <2>1, <2>4, ZenonT(30)
  <2> QED
    BY <2>2, <2>3, <2>4, ZenonT(30)
<1>8. /\ \A r : Hand(r, n) = {} /\ Hand(r, call[t]) = {}
      /\ n.op # "split" /\ UNCHANGED <<machine, regions, home, live>>
  BY <1>1, <1>2, <1>7, HandIs, ZenonT(30) DEF TrimOrder
<1>9. PICK S : S = [a \in Addr |-> IF a \in G THEN "Trimmed" ELSE reg[x].state[a]]
  BY Zenon
<1>10. PICK Q : Q = [reg[x] EXCEPT !.state = S]
  BY Zenon
<1>11. PICK d : d = Released(dirt[x], G, o)
  BY Zenon
<1>12. reg' = [reg EXCEPT ![x] = Q] /\ dirt' = [dirt EXCEPT ![x] = d]
  BY <1>5, <1>6, <1>9, <1>10, <1>11, ZenonT(30)
<1>13. /\ RegOK(Q) /\ Q.state = S /\ FreeOf(x, Q) = FreeOf(x, reg[x])
  <2>1. S \in [Addr -> TrimState]
    BY <1>5, <1>9, Zenon DEF TrimState
  <2>2. Q \in RegionRec /\ Q.free = reg[x].free /\ Q.bitmap = reg[x].bitmap /\ Q.mask = reg[x].mask /\ Q.state = S
    BY <1>5, <1>10, <2>1, Zenon DEF RegionRec
  <2>3. FreeOf(x, Q) = FreeOf(x, reg[x])
    BY <2>2, SameFree, Zenon
  <2>4. RegOK(reg[x])
    BY <1>5, Zenon
  <2>5. RegOK(Q)
    BY <2>2, <2>4, Zenon DEF RegOK
  <2> QED
    BY <2>2, <2>3, <2>5, Zenon
<1>14. PICK F : F = {[r |-> x, a |-> a, o |-> o] : a \in G}
  BY Zenon
<1>15. /\ \A b \in F : b \in FreeOf(x, reg[x]) /\ b.r = x /\ b.a \in G /\ b.o = o
       /\ \A a \in G : \E b \in F : b.a = a /\ b.o = o
  <2>1. \A a \in G : [r |-> x, a |-> a, o |-> o] \in FreeOf(x, reg[x])
    BY FreeOfHas
  <2>2. ASSUME NEW b \in F PROVE b \in FreeOf(x, reg[x]) /\ b.r = x /\ b.a \in G /\ b.o = o
    <3>1. PICK a \in G : b = [r |-> x, a |-> a, o |-> o]
      BY <1>14, Zenon
    <3> QED
      BY <2>1, <3>1, BlockIs, ZenonT(30)
  <2>3. ASSUME NEW a \in G PROVE \E b \in F : b.a = a /\ b.o = o
    <3>1. PICK b : b = [r |-> x, a |-> a, o |-> o]
      BY Zenon
    <3>2. b \in F
      BY <1>14, <3>1, Zenon
    <3> QED
      BY <3>1, <3>2, BlockIs, ZenonT(30)
  <2> QED
    BY <2>2, <2>3, Zenon
<1>16. \A b \in F : Fits(b) /\ Fit(b.a, b.o)
  BY <1>5, <1>15, PlacedFit
<1>17. \A b, e \in F : \A u \in Addr : u \in UnitsOf(b.a, b.o) /\ u \in UnitsOf(e.a, e.o) => b = e
  BY <1>5, <1>15, Distinct, ZenonT(30)
<1>18. /\ d \in [Addr -> Dirt]
       /\ \A u \in Addr : (\A a \in G : u \notin UnitsOf(a, o)) => d[u] = dirt[x][u]
       /\ \A a \in G : Honest(d, "Trimmed", a, o) /\ a \in Addr /\ a \in UnitsOf(a, o)
  <2>1. \A a \in G : Fit(a, o)
    BY <1>15, <1>16, Zenon
  <2>2. \A a, b \in G : \A u \in Addr : u \in UnitsOf(a, o) /\ u \in UnitsOf(b, o) => a = b
    BY <1>15, <1>17
  <2>3. \A a \in G : a \in Addr /\ a \in UnitsOf(a, o)
    BY <2>1, UnitsIn, Zenon DEF Fit
  <2>4. G \in SUBSET Addr
    BY <2>3, Zenon
  <2> QED
    BY <1>5, <1>11, <2>1, <2>2, <2>3, <2>4, ReleasedIs
<1>19. CASE G = {}
  <2>1. \A u \in Addr : d[u] = dirt[x][u] /\ S[u] = reg[x].state[u]
    BY <1>9, <1>18, <1>19, Zenon
  <2>2. d = dirt[x] /\ S = reg[x].state
    BY <1>5, <1>9, <1>18, <2>1
  <2>3. Q = reg[x]
    BY <1>5, <1>10, <2>2, Zenon DEF RegionRec
  <2>4. UNCHANGED <<machine, regions, home, reg, dirt, live>>
    BY <1>5, <1>8, <1>12, <2>2, <2>3, Zenon
  <2> QED
    BY <1>7, <1>8, <2>4, QuietInv, Zenon
<1>20. CASE G # {}
  <2>1. Sets(t, n, x, Q, d)
    BY <1>7, <1>8, <1>12, Zenon DEF Sets
  <2>2. Deal(t, n, x, Q, d, {}, F, {}, {}, F, {})
    <3>1. F = {} \cup F \cup {} /\ F # {}
      BY <1>15, <1>20, Zenon
    <3>2. Apart(Trade(t, {}, F, {}))
      <4>1. {} \cap F = {} /\ {} \cap {} = {} /\ F \cap {} = {}
        OBVIOUS
      <4> QED
        BY <1>17, <3>1, <4>1, TradeApart, ZenonT(30)
    <3>3. /\ live' = (live \ {}) \cup {} /\ FreeOf(x, Q) = (FreeOf(x, reg[x]) \ F) \cup F
          /\ Hand(x, n) = (Hand(x, call[t]) \ {}) \cup {}
      BY <1>8, <1>13, <1>15, ZenonT(30)
    <3>4. \A y \in {} \cup F \cup {} : Fits(y) /\ y.r = x
      BY <1>15, <1>16, Zenon
    <3>5. /\ {} \subseteq LiveIn(x) /\ F \subseteq FreeOf(x, reg[x]) /\ {} \subseteq Hand(x, call[t])
          /\ {} \cup F \cup {} # {}
      BY <1>15, <3>1, Zenon
    <3>6. ASSUME NEW u \in Addr, ~Within({} \cup F \cup {}, u)
          PROVE  d[u] = dirt[x][u] /\ Q.state[u] = reg[x].state[u]
      <4>1. \A b \in F : u \notin UnitsOf(b.a, b.o)
        BY <3>6, Zenon DEF Within
      <4>2. \A a \in G : u \notin UnitsOf(a, o)
        BY <1>15, <4>1, Zenon
      <4>3. u \notin G
        BY <1>18, <4>2, Zenon
      <4> QED
        BY <1>9, <1>13, <1>18, <4>2, <4>3, ZenonT(30)
    <3>7. \A b \in F : Honest(d, Q.state[b.a], b.a, b.o)
      <4>1. ASSUME NEW b \in F PROVE Q.state[b.a] = "Trimmed" /\ Honest(d, "Trimmed", b.a, b.o)
        <5>1. b.a \in G /\ b.o = o
          BY <1>15, Zenon
        <5> QED
          BY <1>9, <1>13, <1>18, <5>1
      <4> QED
        BY <4>1, Zenon
    <3>8. \A r \in Region \ {x} : Hand(r, n) = Hand(r, call[t])
      BY <1>8
    <3> QED
      BY <1>8, <3>2, <3>3, <3>4, <3>5, <3>6, <3>7, <3>8, Zenon DEF Deal
  <2> QED
    BY <1>13, <1>18, <2>1, <2>2, StepInv, Zenon
<1> QED
  BY <1>19, <1>20, ZenonT(30)

------------------------------------------------------------------------------
(* New regions *)

\* The address of block j of width w.
Times(j, w) == j * w

\* Multiples of w below T * w are w apart and leave no gap.
LEMMA Multiples ==
    ASSUME NEW w \in Nat \ {0}, NEW T \in Nat \ {0}, NEW z \in Nat, z = Times(T, w)
    PROVE  /\ \A j \in 0..(T - 1) : Times(j, w) \in Nat /\ Times(j, w) % w = 0 /\ Times(j, w) + w <= z
           /\ \A j, k \in 0..(T - 1), u \in Nat :
                  Times(j, w) <= u /\ u < Times(j, w) + w /\ Times(k, w) <= u /\ u < Times(k, w) + w => j = k
           /\ \A u \in Nat : u < z => \E j \in 0..(T - 1) : Times(j, w) <= u /\ u < Times(j, w) + w
<1>z. z = T * w
  BY DEF Times
<1>1. ASSUME NEW j \in 0..(T - 1), NEW a \in Nat, a = j * w PROVE a % w = 0 /\ a + w <= z
  <2>1. a = w * j /\ j \in Nat
    BY <1>1
  <2>2. a % w = 0
    BY <2>1, Multiple
  <2>3. (j + 1) * w <= T * w /\ (j + 1) * w = j * w + w
    OBVIOUS
  <2> QED
    BY <1>1, <1>z, <2>2, <2>3, ZenonT(30)
<1>2. ASSUME NEW j \in 0..(T - 1), NEW k \in 0..(T - 1), j < k, NEW a \in Nat, NEW b \in Nat, NEW u \in Nat,
             a = j * w, b = k * w, u < a + w, b <= u
      PROVE  FALSE
  <2>1. (j + 1) * w <= k * w /\ (j + 1) * w = j * w + w
    BY <1>2
  <2> QED
    BY <1>2, <2>1
<1>3. ASSUME NEW u \in Nat, u < z
      PROVE  \E j \in 0..(T - 1) : \E a \in Nat : a = j * w /\ a <= u /\ u < a + w
  <2>1. PICK j \in Nat, s \in 0..(w - 1) : u = w * j + s
    <3>1. u \div w \in Nat /\ u % w \in 0..(w - 1) /\ u = w * (u \div w) + (u % w)
      BY DivFacts, Zenon
    <3> QED
      BY <3>1, Zenon
  <2>2. PICK a \in Nat : a = j * w /\ a <= u /\ u < a + w
    BY <2>1
  <2>3. j < T
    <3> SUFFICES ASSUME T <= j PROVE FALSE
      OBVIOUS
    <3>1. T * w <= j * w
      OBVIOUS
    <3> QED
      BY <1>3, <1>z, <2>2, <3>1
  <2> QED
    BY <2>2, <2>3
<1>4. ASSUME NEW j \in 0..(T - 1), NEW k \in 0..(T - 1), NEW a \in Nat, NEW b \in Nat, NEW u \in Nat,
             a = j * w, b = k * w, a <= u, u < a + w, b <= u, u < b + w
      PROVE  j = k
  <2>1. ~(j < k)
    BY <1>2, <1>4
  <2>2. ~(k < j)
    BY <1>2, <1>4
  <2> QED
    BY <2>1, <2>2
<1>5. \A j \in 0..(T - 1) : j * w \in Nat
  OBVIOUS
<1>6. \A j : Times(j, w) = j * w
  BY DEF Times
<1>7. ASSUME NEW j \in 0..(T - 1)
      PROVE  Times(j, w) \in Nat /\ Times(j, w) % w = 0 /\ Times(j, w) + w <= z
  <2>1. PICK a \in Nat : a = Times(j, w) /\ a = j * w
    BY <1>5, <1>6, ZenonT(30)
  <2> QED
    BY <1>1, <2>1
<1>8. ASSUME NEW j \in 0..(T - 1), NEW k \in 0..(T - 1), NEW u \in Nat, Times(j, w) <= u,
             u < Times(j, w) + w, Times(k, w) <= u, u < Times(k, w) + w
      PROVE  j = k
  <2>1. PICK a \in Nat, b \in Nat : a = Times(j, w) /\ a = j * w /\ b = Times(k, w) /\ b = k * w
    BY <1>5, <1>6, Zenon
  <2> QED
    BY <1>4, <1>8, <2>1
<1>9. ASSUME NEW u \in Nat, u < z PROVE \E j \in 0..(T - 1) : Times(j, w) <= u /\ u < Times(j, w) + w
  BY <1>3, <1>6, <1>9, Zenon
<1> QED
  BY <1>7, <1>8, <1>9

\* add_region cuts a region into blocks of the largest order.
LEMMA TopBlocksTile ==
    /\ TopBlocks \in Seq(Addr) /\ IsInjective(TopBlocks) /\ TopBlocks # <<>> /\ MaxOrder \in Order
    /\ \A a \in Range(TopBlocks) : Fit(a, MaxOrder)
    /\ \A a, b \in Range(TopBlocks) : \A u \in Addr :
           u \in UnitsOf(a, MaxOrder) /\ u \in UnitsOf(b, MaxOrder) => a = b
    /\ \A u \in Addr : \E a \in Range(TopBlocks) : u \in UnitsOf(a, MaxOrder)
<1>1. PICK w \in Nat \ {0}, T \in Nat \ {0}, z \in Nat :
             w = Pow2[MaxOrder] /\ T = Tops /\ z = Size /\ z = Times(T, w)
  BY Widths DEF Size, Order, Times
<1>2. MaxOrder \in Order
  BY Widths DEF Order
<1>3. DOMAIN TopBlocks = 1..T /\ \A i \in 1..T : TopBlocks[i] = Times(T - i, w)
  BY <1>1 DEF TopBlocks, Times
<1>4. \A i \in 1..T : T - i \in 0..(T - 1)
  BY <1>1
<1>5. \A j \in 0..(T - 1) : T - j \in 1..T /\ T - (T - j) = j
  BY <1>1
<1>6. \A a : a \in Range(TopBlocks) <=> \E j \in 0..(T - 1) : a = Times(j, w)
  <2>1. ASSUME NEW i \in 1..T PROVE \E j \in 0..(T - 1) : TopBlocks[i] = Times(j, w)
    BY <1>3, <1>4, Zenon
  <2>2. ASSUME NEW j \in 0..(T - 1) PROVE \E i \in 1..T : TopBlocks[i] = Times(j, w)
    <3>1. PICK i \in 1..T : T - i = j
      BY <1>5
    <3> QED
      BY <1>3, <3>1, Zenon
  <2>3. \A a : a \in Range(TopBlocks) <=> \E i \in 1..T : a = TopBlocks[i]
    BY <1>3 DEF Range
  <2> QED
    BY <2>1, <2>2, <2>3
<1>7. /\ \A j \in 0..(T - 1) : Times(j, w) \in Nat /\ Times(j, w) % w = 0 /\ Times(j, w) + w <= z
      /\ \A j, k \in 0..(T - 1), u \in Nat :
             Times(j, w) <= u /\ u < Times(j, w) + w /\ Times(k, w) <= u /\ u < Times(k, w) + w => j = k
      /\ \A u \in Nat : u < z => \E j \in 0..(T - 1) : Times(j, w) <= u /\ u < Times(j, w) + w
  BY <1>1, Multiples
<1>8. ASSUME NEW a \in Range(TopBlocks) PROVE Fit(a, MaxOrder)
  <2>1. PICK j \in 0..(T - 1) : a = Times(j, w) /\ a \in Nat
    BY <1>6, <1>7
  <2>2. a % w = 0 /\ a + w <= z
    BY <1>7, <2>1, ZenonT(30)
  <2> QED
    BY <1>1, <1>2, <2>1, <2>2, Widths DEF Fit
<1>9. ASSUME NEW a \in Range(TopBlocks) PROVE a \in Nat /\ \A u \in Nat : u \in UnitsOf(a, MaxOrder) <=> a <= u /\ u < a + w
  BY <1>1, <1>8, <1>9, UnitsIn, Widths DEF Fit, UnitsOf
<1>10. ASSUME NEW a \in Range(TopBlocks), NEW b \in Range(TopBlocks), NEW u \in Addr,
              u \in UnitsOf(a, MaxOrder), u \in UnitsOf(b, MaxOrder)
       PROVE  a = b
  <2>1. PICK j \in 0..(T - 1) : a = Times(j, w)
    BY <1>6, Zenon
  <2>2. PICK k \in 0..(T - 1) : b = Times(k, w)
    BY <1>6, Zenon
  <2>3. a \in Nat /\ b \in Nat /\ u \in Nat /\ a <= u /\ u < a + w /\ b <= u /\ u < b + w
    BY <1>9, <1>10, Widths, ZenonT(30)
  <2>4. j = k
    BY <1>7, <2>1, <2>2, <2>3, ZenonT(30)
  <2> QED
    BY <2>1, <2>2, <2>4, Zenon
<1>11. ASSUME NEW u \in Addr PROVE \E a \in Range(TopBlocks) : u \in UnitsOf(a, MaxOrder)
  <2>1. u \in Nat /\ u < z
    BY <1>1, Widths, ZenonT(30)
  <2>2. PICK j \in 0..(T - 1) : Times(j, w) <= u /\ u < Times(j, w) + w
    BY <1>7, <2>1, ZenonT(30)
  <2> QED
    BY <1>6, <1>9, <2>1, <2>2, ZenonT(30)
<1>12. IsInjective(TopBlocks)
  <2>1. ASSUME NEW i \in 1..T, NEW j \in 1..T, TopBlocks[i] = TopBlocks[j] PROVE i = j
    <3>1. PICK a \in Nat : a = Times(T - i, w) /\ a = Times(T - j, w)
      BY <1>3, <1>4, <1>7, <2>1, ZenonT(30)
    <3>2. T - i = T - j
      <4>1. T - i \in 0..(T - 1) /\ T - j \in 0..(T - 1) /\ a <= a /\ a < a + w
        BY <1>4
      <4> QED
        BY <1>7, <3>1, <4>1
    <3> QED
      BY <3>2
  <2> QED
    BY <1>3, <2>1, ZenonT(30) DEF IsInjective
<1>13. TopBlocks \in Seq(Addr) /\ TopBlocks # <<>>
  <2>1. \A i \in 1..T : TopBlocks[i] \in Addr
    BY <1>3, <1>8, Zenon DEF Range, Fit
  <2>2. TopBlocks = [i \in 1..T |-> Times(T - i, w)]
    BY <1>1 DEF TopBlocks, Times
  <2>3. TopBlocks \in [1..T -> Addr]
    BY <1>3, <2>1, <2>2, ZenonT(30)
  <2>4. TopBlocks \in Seq(Addr) /\ Len(TopBlocks) = T
    BY <1>1, <2>3
  <2>5. Len(<<>>) = 0 /\ T # 0
    BY <1>1
  <2> QED
    BY <2>4, <2>5, Zenon
<1> QED
  BY <1>2, <1>8, <1>10, <1>11, <1>12, <1>13

\* The free blocks of a region tile it.
FreshFree(r, F, R, d) ==
    /\ \A b \in F : Fits(b) /\ b.r = r /\ Honest(d, R.state[b.a], b.a, b.o)
    /\ \A b, c \in F : \A u \in Addr : u \in UnitsOf(b.a, b.o) /\ u \in UnitsOf(c.a, c.o) => b = c
    /\ \A u \in Addr : Within(F, u)

\* A region not mapped yet has no blocks.
LEMMA EmptyRegionIs ==
    /\ RegOK(EmptyRegion) /\ \A r : FreeOf(r, EmptyRegion) = {}
<1>1. /\ EmptyRegion.free = [o \in Order |-> <<>>] /\ EmptyRegion.bitmap = [o \in Order |-> {}]
      /\ EmptyRegion.mask = {} /\ EmptyRegion.state = [a \in Addr |-> "NotAllocated"]
  BY DEF EmptyRegion
<1>2. Range(<<>>) = {} /\ IsInjective(<<>>) /\ <<>> \in Seq(Addr)
  BY DEF Range, IsInjective
<1>3. "NotAllocated" \in TrimState
  BY DEF TrimState
<1>4. EmptyRegion \in RegionRec
  BY <1>2, <1>3, ZenonT(30) DEF EmptyRegion, RegionRec
<1>5. \A o \in Order : EmptyRegion.free[o] = <<>> /\ EmptyRegion.bitmap[o] = {} /\ o \notin EmptyRegion.mask
  BY <1>1, ZenonT(30)
<1>6. RegOK(EmptyRegion)
  BY <1>2, <1>4, <1>5, ZenonT(30) DEF RegOK
<1>7. ASSUME NEW r PROVE FreeOf(r, EmptyRegion) = {}
  BY <1>2, <1>5, FreeOfIs
<1> QED
  BY <1>6, <1>7, ZenonT(30)

\* A region that add_region has filled: blocks of the largest order, never given out.
LEMMA NewRegionIs ==
    /\ RegOK(NewRegion) /\ NewDirt \in [Addr -> Dirt]
    /\ \A r \in Region : FreshFree(r, FreeOf(r, NewRegion), NewRegion, NewDirt)
<1>1. /\ EmptyRegion.free = [o \in Order |-> <<>>] /\ EmptyRegion.bitmap = [o \in Order |-> {}]
      /\ EmptyRegion.mask = {} /\ EmptyRegion.state = [a \in Addr |-> "NotAllocated"]
      /\ EmptyRegion = [free |-> EmptyRegion.free, bitmap |-> EmptyRegion.bitmap, mask |-> EmptyRegion.mask,
                        state |-> EmptyRegion.state]
  BY Zenon DEF EmptyRegion
<1>2. PICK T, S, M : T = TopBlocks /\ S = Range(TopBlocks) /\ M = MaxOrder
  OBVIOUS
<1>3. /\ T \in Seq(Addr) /\ IsInjective(T) /\ T # <<>> /\ M \in Order /\ S = Range(T)
      /\ \A a \in S : Fit(a, M)
      /\ \A a, b \in S : \A u \in Addr : u \in UnitsOf(a, M) /\ u \in UnitsOf(b, M) => a = b
      /\ \A u \in Addr : \E a \in S : u \in UnitsOf(a, M)
  BY <1>2, TopBlocksTile, ZenonT(30)
<1>4. S \subseteq Addr
  BY <1>3 DEF Fit
<1>5. PICK N : N = NewRegion
  BY Zenon
<1>6. /\ N.free = [EmptyRegion.free EXCEPT ![M] = T] /\ N.bitmap = [EmptyRegion.bitmap EXCEPT ![M] = S]
      /\ N.mask = {M} /\ N.state = EmptyRegion.state
      /\ N = [free |-> N.free, bitmap |-> N.bitmap, mask |-> N.mask, state |-> N.state]
  BY <1>1, <1>2, <1>5, ZenonT(30) DEF NewRegion
<1>7. Range(<<>>) = {} /\ IsInjective(<<>>) /\ <<>> \in Seq(Addr) /\ "NotAllocated" \in TrimState
  BY DEF Range, IsInjective, TrimState
<1>8. /\ N.free \in [Order -> Seq(Addr)] /\ N.bitmap \in [Order -> SUBSET Addr] /\ N.mask \subseteq Order
      /\ N.state \in [Addr -> TrimState]
  <2>1. N.free \in [Order -> Seq(Addr)]
    <3>1. PICK E : E = EmptyRegion.free
      BY Zenon
    <3>2. E \in [Order -> Seq(Addr)]
      BY <1>1, <1>7, <3>1, ZenonT(30)
    <3>3. N.free = [E EXCEPT ![M] = T]
      BY <1>6, <3>1, ZenonT(30)
    <3> QED
      BY <1>3, <3>2, <3>3, ZenonT(30)
  <2>2. N.bitmap \in [Order -> SUBSET Addr]
    BY <1>1, <1>3, <1>4, <1>6
  <2>3. N.mask \subseteq Order /\ N.state \in [Addr -> TrimState]
    BY <1>1, <1>3, <1>6, <1>7
  <2> QED
    BY <2>1, <2>2, <2>3
<1>9. N \in RegionRec
  BY <1>6, <1>8, ZenonT(30) DEF RegionRec
<1>10. /\ N.free[M] = T /\ N.bitmap[M] = S
       /\ \A o \in Order : o # M => N.free[o] = <<>> /\ N.bitmap[o] = {}
       /\ \A a \in Addr : N.state[a] = "NotAllocated"
  BY <1>1, <1>3, <1>6
<1>11. RegOK(N)
  BY <1>3, <1>6, <1>7, <1>9, <1>10, Zenon DEF RegOK
<1>12. NewDirt \in [Addr -> Dirt] /\ \A u \in Addr : NewDirt[u] = IF u \in S THEN "header" ELSE "clean"
  BY <1>2 DEF NewDirt, Dirt
<1>13. ASSUME NEW r \in Region PROVE FreshFree(r, FreeOf(r, N), N, NewDirt)
  <2>1. \A b : b \in FreeOf(r, N) <=> \E a \in S : b = [r |-> r, a |-> a, o |-> M]
    <3>1. \A o \in Order : Range(N.free[o]) = IF o = M THEN S ELSE {}
      BY <1>3, <1>7, <1>10, Zenon
    <3> QED
      BY <1>3, <3>1, FreeOfIs
  <2>2. ASSUME NEW b \in FreeOf(r, N)
        PROVE  b.a \in S /\ b.o = M /\ b.r = r /\ b = [r |-> r, a |-> b.a, o |-> M]
    BY <2>1
  <2>3. ASSUME NEW b \in FreeOf(r, N) PROVE Fits(b)
    BY <1>3, <2>2, BlockIs
  <2>4. ASSUME NEW b \in FreeOf(r, N) PROVE Honest(NewDirt, N.state[b.a], b.a, b.o)
    <3>1. PICK a \in S : b.a = a /\ b.o = M /\ Fit(a, M)
      BY <1>3, <2>2, ZenonT(30)
    <3>2. N.state[a] = "NotAllocated" /\ NewDirt[a] = "header"
      BY <1>4, <1>10, <1>12, ZenonT(30)
    <3>3. UnitsOf(a, M) \subseteq Addr /\ \A c \in S : c \in UnitsOf(c, M)
      BY <1>3, <3>1, UnitsIn, ZenonT(30)
    <3>4. \A u \in UnitsOf(a, M) \ {a} : u \in Addr /\ u \notin S
      BY <1>3, <3>3, ZenonT(30)
    <3>5. \A u \in UnitsOf(a, M) \ {a} : NewDirt[u] = "clean"
      BY <1>12, <3>4, ZenonT(30)
    <3> QED
      BY <3>1, <3>2, <3>5, ZenonT(30) DEF Honest
  <2>5. ASSUME NEW b \in FreeOf(r, N), NEW c \in FreeOf(r, N), NEW u \in Addr,
               u \in UnitsOf(b.a, b.o), u \in UnitsOf(c.a, c.o)
        PROVE  b = c
    <3>1. b.a \in S /\ c.a \in S /\ b.o = M /\ c.o = M
      BY <2>2, ZenonT(30)
    <3>2. b.a = c.a
      BY <1>3, <2>5, <3>1, ZenonT(30)
    <3> QED
      BY <2>2, <3>2, ZenonT(30)
  <2>6. ASSUME NEW u \in Addr PROVE Within(FreeOf(r, N), u)
    <3>1. PICK a \in S : u \in UnitsOf(a, M)
      BY <1>3, ZenonT(30)
    <3>2. PICK b : b = [r |-> r, a |-> a, o |-> M]
      BY Zenon
    <3>3. b \in FreeOf(r, N) /\ b.a = a /\ b.o = M
      BY <2>1, <3>2, BlockIs
    <3> QED
      BY <3>1, <3>3, ZenonT(30) DEF Within
  <2> QED
    BY <2>2, <2>3, <2>4, <2>5, <2>6, ZenonT(30) DEF FreshFree
<1> QED
  BY <1>5, <1>11, <1>12, <1>13

\* A region that has only such blocks is tiled.
LEMMA OnlyFree ==
    ASSUME NEW r, NEW F, NEW R, NEW d, FreshFree(r, F, R, d), NEW P,
           \A p : p \in P <=> \E b \in F : p = AtFree(b)
    PROVE  (\A p \in P : Fits(p[2])) /\ Apart(P) /\ Covers(P)
<1>1. \A b : AtFree(b)[2] = b
  BY Tags, ZenonT(30)
<1>2. \A p \in P : p[2] \in F /\ p = AtFree(p[2])
  BY <1>1, ZenonT(30)
<1>3. \A b \in F : AtFree(b) \in P
  OBVIOUS
<1>4. \A p \in P : Fits(p[2])
  BY <1>2, ZenonT(30) DEF FreshFree
<1>5. Apart(P)
  <2> SUFFICES ASSUME NEW p \in P, NEW q \in P, NEW u \in Addr, u \in Cells(p), u \in Cells(q)
               PROVE  p = q
    BY Zenon DEF Apart
  <2>1. PICK b \in F, c \in F : b = p[2] /\ c = q[2]
    BY <1>2
  <2>2. u \in UnitsOf(b.a, b.o) /\ u \in UnitsOf(c.a, c.o)
    BY <2>1, ZenonT(30) DEF Cells
  <2>3. b = c
    BY <2>2, ZenonT(30) DEF FreshFree
  <2> QED
    BY <1>2, <2>1, <2>3, ZenonT(30)
<1>6. Covers(P)
  <2>1. ASSUME NEW u \in Addr PROVE \E p \in P : u \in Cells(p)
    <3>1. PICK b \in F : u \in UnitsOf(b.a, b.o)
      BY DEF FreshFree, Within
    <3>2. AtFree(b) \in P /\ AtFree(b)[2] = b
      BY <1>1, <1>3, ZenonT(30)
    <3>3. u \in Cells(AtFree(b))
      BY <3>1, <3>2, ZenonT(30) DEF Cells
    <3> QED
      BY <3>2, <3>3, ZenonT(30)
  <2> QED
    BY <2>1, ZenonT(30) DEF Covers
<1> QED
  BY <1>4, <1>5, <1>6

\* A new block list holds the region that was added.
LEMMA Published ==
    ASSUME NEW l \in Seq(Region), IsInjective(l), NEW x \in Region, x \notin Range(l), NEW m, m = <<x>> \o l
    PROVE  /\ m \in Seq(Region) /\ IsInjective(m) /\ m # <<>> /\ \A r : r \in Range(m) <=> r = x \/ r \in Range(l)
<1>1. m \in Seq(Region) /\ Len(m) = Len(l) + 1 /\ m[1] = x /\ \A i \in 1..Len(l) : m[i + 1] = l[i]
  OBVIOUS
<1>2. DOMAIN m = 1..(Len(l) + 1) /\ DOMAIN l = 1..Len(l) /\ Len(l) \in Nat
  BY <1>1
<1>3. \A i \in DOMAIN m : i = 1 \/ (i - 1 \in DOMAIN l /\ m[i] = l[i - 1])
  BY <1>1, <1>2
<1>4. ASSUME NEW r PROVE r \in Range(m) <=> r = x \/ r \in Range(l)
  <2>1. ASSUME NEW i \in DOMAIN m PROVE m[i] = x \/ m[i] \in Range(l)
    BY <1>1, <1>3 DEF Range
  <2>2. x \in Range(m)
    BY <1>1, <1>2 DEF Range
  <2>3. ASSUME NEW i \in DOMAIN l PROVE l[i] \in Range(m)
    <3>1. i + 1 \in DOMAIN m /\ m[i + 1] = l[i]
      BY <1>1, <1>2
    <3> QED
      BY <3>1, Zenon DEF Range
  <2> QED
    BY <2>1, <2>2, <2>3, Zenon DEF Range
<1>5. IsInjective(m)
  <2>1. ASSUME NEW i \in DOMAIN m, NEW j \in DOMAIN m, m[i] = m[j] PROVE i = j
    <3>1. \A k \in DOMAIN l : l[k] # x
      BY DEF Range
    <3>2. \A k, n \in DOMAIN l : l[k] = l[n] => k = n
      BY DEF IsInjective
    <3>3. i \in Nat /\ j \in Nat
      BY <1>2
    <3> QED
      BY <1>1, <1>3, <2>1, <3>1, <3>2, <3>3
  <2> QED
    BY <2>1, ZenonT(30) DEF IsInjective
<1>6. m # <<>>
  <2>1. Len(<<>>) = 0 /\ Len(m) # 0
    BY <1>1, <1>2
  <2> QED
    BY <2>1, Zenon
<1> QED
  BY <1>1, <1>4, <1>5, <1>6, ZenonT(30)

\* The invariant holds once init has mapped the first region.
LEMMA InitIInv == Init => IInv
<1> SUFFICES ASSUME Init PROVE IInv
  OBVIOUS
<1>0. PICK m \in Machines, x \in Region : \E n \in 0..(m.nodes - 1) :
          /\ machine = m
          /\ regions = <<x>>
          /\ home = [q \in Region |-> IF q = x THEN n ELSE 0]
          /\ reg = [q \in Region |-> IF q = x THEN NewRegion ELSE EmptyRegion]
          /\ dirt = [q \in Region |-> IF q = x THEN NewDirt ELSE [a \in Addr |-> "clean"]]
          /\ live = {}
          /\ call = [t \in Thread |-> Idle]
  BY Zenon DEF Init
<1>1. PICK n \in 0..(m.nodes - 1) :
          /\ machine = m
          /\ regions = <<x>>
          /\ home = [q \in Region |-> IF q = x THEN n ELSE 0]
          /\ reg = [q \in Region |-> IF q = x THEN NewRegion ELSE EmptyRegion]
          /\ dirt = [q \in Region |-> IF q = x THEN NewDirt ELSE [a \in Addr |-> "clean"]]
          /\ live = {}
          /\ call = [t \in Thread |-> Idle]
  BY <1>0, Zenon
<1>2. /\ RegOK(EmptyRegion) /\ RegOK(NewRegion) /\ NewDirt \in [Addr -> Dirt]
      /\ \A r : FreeOf(r, EmptyRegion) = {}
      /\ FreshFree(x, FreeOf(x, NewRegion), NewRegion, NewDirt)
  BY EmptyRegionIs, NewRegionIs, ZenonT(30)
<1>3. /\ reg[x] = NewRegion /\ dirt[x] = NewDirt /\ \A r \in Region \ {x} : reg[r] = EmptyRegion
      /\ \A t \in Thread : call[t] = Idle
  BY <1>1, ZenonT(30)
<1>4. Idle \in CallRec /\ Idle.op = "idle"
  BY DEF CallRec, Idle
<1>5. regions \in Seq(Region) /\ regions # <<>> /\ IsInjective(regions) /\ \A r : r \in Range(regions) <=> r = x
  BY <1>1 DEF IsInjective, Range
<1>6. \A r \in Region : RegOK(reg[r])
  BY <1>2, <1>3, ZenonT(30)
<1>7. reg \in [Region -> RegionRec] /\ InSync /\ \A r \in Region : \A o \in Order : IsInjective(reg[r].free[o])
  <2>1. reg \in [Region -> RegionRec]
    BY <1>1, <1>2, ZenonT(30) DEF RegOK
  <2> QED
    BY <1>6, <2>1, Zenon DEF RegOK, InSync
<1>8. dirt \in [Region -> [Addr -> Dirt]]
  BY <1>1, <1>2, ZenonT(30) DEF Dirt
<1>9. machine \in Machines /\ home \in [Region -> Node]
  <2>1. m.nodes \in Nat \ {0}
    BY ConstAssumption, ZenonT(30)
  <2>2. 0 \in Node /\ n \in Node
    BY <1>1, <2>1 DEF Node
  <2> QED
    BY <1>1, <2>2, ZenonT(30)
<1>10. Typed
  BY <1>1, <1>4, <1>5, <1>7, <1>8, <1>9, ZenonT(30) DEF Typed
<1>11. /\ Free(x) = FreeOf(x, NewRegion) /\ \A r \in Region \ {x} : Free(r) = {}
       /\ \A r : LiveIn(r) = {} /\ \A t \in Thread : InHand(r, t) = {}
  <2>1. \A r : Free(r) = FreeOf(r, reg[r])
    BY PartsAre, ZenonT(30)
  <2>2. \A r : LiveIn(r) = {} /\ \A t \in Thread : InHand(r, t) = {}
    BY <1>1, <1>3, <1>4, ZenonT(30) DEF LiveIn, InHand
  <2> QED
    BY <1>2, <1>3, <2>1, <2>2, ZenonT(30)
<1>12. Truthful
  <2>1. ASSUME NEW r \in Region, NEW b \in Free(r) PROVE Honest(dirt[r], reg[r].state[b.a], b.a, b.o)
    <3>1. r = x
      BY <1>11, ZenonT(30)
    <3> QED
      BY <1>2, <1>3, <1>11, <3>1, ZenonT(30) DEF FreshFree
  <2> QED
    BY <1>3, <1>4, <2>1, ZenonT(30) DEF Truthful, StateHonest
<1>13. ASSUME NEW r \in Region PROVE Tiled(r)
  <2>1. \A p : p \in Placed(r) <=> \E b \in Free(r) : p = AtFree(b)
    <3>1. ASSUME NEW p PROVE p \in Placed(r) <=> \E b \in Free(r) : p = AtFree(b)
      BY <1>11, PlacedIs, ZenonT(30)
    <3> QED
      BY <3>1, ZenonT(30)
  <2>2. CASE r = x
    <3>1. \A p : p \in Placed(x) <=> \E b \in FreeOf(x, NewRegion) : p = AtFree(b)
      BY <1>11, <2>1, <2>2, ZenonT(30)
    <3>2. (\A p \in Placed(x) : Fits(p[2])) /\ Apart(Placed(x)) /\ Covers(Placed(x))
      BY <1>2, <3>1, OnlyFree, ZenonT(30)
    <3> QED
      BY <1>5, <2>2, <3>2, ZenonT(30) DEF Tiled
  <2>3. CASE r # x
    <3>1. Placed(r) = {} /\ r \notin Range(regions)
      BY <1>5, <1>11, <2>1, <2>3, ZenonT(30)
    <3> QED
      BY <3>1, ZenonT(30) DEF Tiled, Apart
  <2> QED
    BY <2>2, <2>3, ZenonT(30)
<1> QED
  BY <1>7, <1>10, <1>12, <1>13, ZenonT(30) DEF IInv

\* What the parts of a region make of its blocks.
LEMMA PlacedSame ==
    ASSUME NEW r, LiveIn(r)' = LiveIn(r), Free(r)' = Free(r), \A t \in Thread : InHand(r, t)' = InHand(r, t)
    PROVE  Placed(r)' = Placed(r)
<1>1. ASSUME NEW p PROVE p \in Placed(r)' <=> p \in Placed(r)
  <2>1. p \in Placed(r)' <=> \/ \E b \in LiveIn(r)' : p = AtLive(b)
                             \/ \E b \in Free(r)' : p = AtFree(b)
                             \/ \E t \in Thread : \E b \in InHand(r, t)' : p = AtHand(t, b)
    BY PlacedNext
  <2>2. p \in Placed(r) <=> \/ \E b \in LiveIn(r) : p = AtLive(b)
                            \/ \E b \in Free(r) : p = AtFree(b)
                            \/ \E t \in Thread : \E b \in InHand(r, t) : p = AtHand(t, b)
    BY PlacedIs
  <2> QED
    BY <2>1, <2>2, Zenon
<1> QED
  BY <1>1, Zenon

\* A region without blocks.
LEMMA NoBlocks ==
    ASSUME NEW r, Placed(r) = {}
    PROVE  LiveIn(r) = {} /\ Free(r) = {} /\ \A t \in Thread : InHand(r, t) = {}
<1>1. ASSUME NEW b PROVE b \notin LiveIn(r) /\ b \notin Free(r) /\ \A t \in Thread : b \notin InHand(r, t)
  BY InPlaced, ZenonT(30)
<1> QED
  BY <1>1, Zenon

\* A new region comes with its blocks and is published; a refused mmap changes
\* nothing but the attempt.
LEMMA AddRegionInv ==
    ASSUME IInv, UNCHANGED machine, NEW t \in Thread, AddRegion(t)
    PROVE  IInv'
<1>1. PICK c \in CallRec : c = call[t]
  BY Zenon DEF IInv, Typed
<1>2. c \in WalkRec /\ c.op = "walk"
  BY <1>1, Kinds DEF AddRegion
<1>3. \A r : Hand(r, call[t]) = {}
  BY <1>1, <1>2, HandIs, ZenonT(30)
<1>4. CASE call' = [call EXCEPT ![t] = NextTry(call[t], 2)] /\ UNCHANGED <<regions, home, reg, dirt>>
  <2>1. PICK n : n = NextTry(c, 2)
    BY Zenon
  <2>2. n \in CallRec /\ n.op # "split" /\ \A r : Hand(r, n) = {}
    BY <1>2, <2>1, NextTryIs
  <2>3. call' = [call EXCEPT ![t] = n] /\ UNCHANGED <<machine, regions, home, reg, dirt, live>>
    BY <1>1, <1>4, <2>1, ZenonT(30) DEF AddRegion
  <2> QED
    BY <1>3, <2>2, <2>3, QuietInv, ZenonT(30)
<1>5. ASSUME NEW x \in Region \ Range(regions), regions' = <<x>> \o regions,
             home' = [home EXCEPT ![x] = call[t].node], reg' = [reg EXCEPT ![x] = NewRegion],
             dirt' = [dirt EXCEPT ![x] = NewDirt], call' = [call EXCEPT ![t] = NextTry(call[t], 1)]
      PROVE  IInv'
  <2>1. PICK n : n = NextTry(c, 1)
    BY Zenon
  <2>2. n \in CallRec /\ n.op \in {"head", "idle"} /\ \A r : Hand(r, n) = {}
    BY <1>2, <2>1, NextTryIs, ZenonT(30)
  <2>3. live' = live /\ machine' = machine
    BY Zenon DEF AddRegion
  <2>4. /\ Typed /\ InSync /\ Truthful /\ (\A r \in Region : Tiled(r)) /\ call \in [Thread -> CallRec]
        /\ reg \in [Region -> RegionRec] /\ dirt \in [Region -> [Addr -> Dirt]] /\ home \in [Region -> Node]
        /\ regions \in Seq(Region) /\ IsInjective(regions) /\ machine \in Machines /\ live \subseteq Block
    BY Zenon DEF IInv, Typed
  <2>5. /\ call' \in [Thread -> CallRec] /\ call'[t] = n /\ \A u \in Thread \ {t} : call'[u] = call[u]
    BY <1>1, <1>5, <2>1, <2>2, <2>4, ZenonT(30)
  <2>6. /\ RegOK(NewRegion) /\ NewDirt \in [Addr -> Dirt]
        /\ FreshFree(x, FreeOf(x, NewRegion), NewRegion, NewDirt)
    BY NewRegionIs, Zenon
  <2>7. /\ reg' \in [Region -> RegionRec] /\ reg'[x] = NewRegion /\ \A r \in Region \ {x} : reg'[r] = reg[r]
    BY <1>5, <2>4, <2>6, ZenonT(30) DEF RegOK
  <2>8. /\ dirt' \in [Region -> [Addr -> Dirt]] /\ dirt'[x] = NewDirt
        /\ \A r \in Region \ {x} : dirt'[r] = dirt[r]
    BY <1>5, <2>4, <2>6, ZenonT(30)
  <2>9. InSync' /\ \A r \in Region : \A o \in Order : IsInjective(reg'[r].free[o])
    <3>1. \A r \in Region : RegOK(reg[r])
      BY <2>4, RegsOK, ZenonT(30)
    <3>2. PICK R : R = reg'
      BY Zenon
    <3>3. R \in [Region -> RegionRec] /\ \A r \in Region : RegOK(R[r])
      BY <2>6, <2>7, <3>1, <3>2, ZenonT(30)
    <3> QED
      BY <3>2, <3>3, RegsOKNext, ZenonT(30)
  <2>10. /\ regions' \in Seq(Region) /\ regions' # <<>> /\ IsInjective(regions')
         /\ \A r : r \in Range(regions') <=> r = x \/ r \in Range(regions)
    <3>1. PICK l : l = regions'
      BY Zenon
    <3>2. /\ l \in Seq(Region) /\ IsInjective(l) /\ l # <<>>
          /\ \A r : r \in Range(l) <=> r = x \/ r \in Range(regions)
      BY <1>5, <2>4, <3>1, Published, ZenonT(30)
    <3> QED
      BY <3>1, <3>2, Zenon
  <2>11. Node' = Node /\ CallRec' = CallRec
    BY <2>3, SameTypes
  <2>12. home' \in [Region -> Node]
    <3>1. c.node \in Node
      BY <1>2, Zenon DEF WalkRec
    <3> QED
      BY <1>1, <1>5, <2>4, <3>1, ZenonT(30)
  <2>13. Typed'
    BY <2>3, <2>4, <2>5, <2>7, <2>8, <2>9, <2>10, <2>11, <2>12, Zenon DEF Typed
  <2>14. Placed(x) = {}
    BY <2>4, Zenon DEF Tiled
  <2>15. LiveIn(x) = {} /\ \A u \in Thread : InHand(x, u) = {} /\ InHand(x, u) = Hand(x, call[u])
    BY <2>14, NoBlocks, PartsAre, ZenonT(30)
  <2>16. \A r : LiveIn(r)' = LiveIn(r)
    BY <2>3, Zenon DEF LiveIn
  <2>17. ASSUME NEW r, NEW u \in Thread PROVE InHand(r, u)' = InHand(r, u)
    <3>1. Hand(r, call'[u]) = Hand(r, call[u])
      BY <1>3, <2>2, <2>5
    <3>2. InHand(r, u) = Hand(r, call[u]) /\ InHand(r, u)' = Hand(r, call'[u])
      BY PartsAre, Zenon
    <3> QED
      BY <3>1, <3>2, Zenon
  <2>18. Free(x)' = FreeOf(x, NewRegion) /\ \A r \in Region \ {x} : Free(r)' = Free(r)
    <3>1. \A r : Free(r) = FreeOf(r, reg[r]) /\ Free(r)' = FreeOf(r, reg'[r])
      BY PartsAre
    <3> QED
      BY <2>7, <3>1
  <2>19. ASSUME NEW r \in Region PROVE Tiled(r)'
    <3>1. CASE r = x
      <4>1. PICK P : P = Placed(x)'
        BY Zenon
      <4>2. \A p : p \in P <=> \E b \in FreeOf(x, NewRegion) : p = AtFree(b)
        <5>1. ASSUME NEW p PROVE p \in P <=> \E b \in FreeOf(x, NewRegion) : p = AtFree(b)
          <6>1. p \in Placed(x)' <=> \/ \E b \in LiveIn(x)' : p = AtLive(b)
                                     \/ \E b \in Free(x)' : p = AtFree(b)
                                     \/ \E u \in Thread : \E b \in InHand(x, u)' : p = AtHand(u, b)
            BY PlacedNext
          <6>2. /\ LiveIn(x)' = {} /\ \A u \in Thread : InHand(x, u)' = {}
                /\ Free(x)' = FreeOf(x, NewRegion)
            BY <2>15, <2>16, <2>17, <2>18, Zenon
          <6> QED
            BY <4>1, <6>1, <6>2, ZenonT(30)
        <5> QED
          BY <5>1, Zenon
      <4>3. (\A p \in P : Fits(p[2])) /\ Apart(P) /\ Covers(P)
        BY <2>6, <4>2, OnlyFree, Zenon
      <4>4. x \in Range(regions')
        BY <2>10
      <4> QED
        BY <3>1, <4>1, <4>3, <4>4, Zenon DEF Tiled
    <3>2. CASE r # x
      <4>1. Placed(r)' = Placed(r)
        BY <2>16, <2>17, <2>18, <3>2, PlacedSame, ZenonT(30)
      <4>2. r \in Range(regions') <=> r \in Range(regions)
        BY <2>10, <3>2, Zenon
      <4>3. Tiled(r)
        BY <2>4, Zenon
      <4> QED
        BY <4>1, <4>2, <4>3, Zenon DEF Tiled
    <3> QED
      BY <3>1, <3>2
  <2>20. Truthful'
    <3>1. ASSUME NEW r \in Region, NEW b \in Free(r)' PROVE Honest(dirt'[r], reg'[r].state[b.a], b.a, b.o)
      <4>1. CASE r = x
        BY <2>6, <2>7, <2>8, <2>18, <3>1, <4>1, ZenonT(30) DEF FreshFree
      <4>2. CASE r # x
        <5>1. b \in Free(r) /\ reg'[r] = reg[r] /\ dirt'[r] = dirt[r]
          BY <2>7, <2>8, <2>18, <3>1, <4>2, ZenonT(30)
        <5>2. Honest(dirt[r], reg[r].state[b.a], b.a, b.o)
          BY <2>4, <5>1, Zenon DEF Truthful, StateHonest
        <5> QED
          BY <5>1, <5>2, Zenon
      <4> QED
        BY <4>1, <4>2, Zenon
    <3>2. ASSUME NEW u \in Thread, call'[u].op = "split"
          PROVE  Honest(dirt'[call'[u].r], call'[u].s, call'[u].a, call'[u].o)
      <4>1. u # t
        BY <2>2, <2>5, <3>2, Zenon
      <4>2. PICK e \in CallRec : e = call[u] /\ e = call'[u]
        BY <2>4, <2>5, <4>1, ZenonT(30)
      <4>3. e \in SplitRec /\ e.op = "split"
        BY <3>2, <4>2, Kinds, ZenonT(30)
      <4>4. e.r \in Region /\ e.r # x
        <5>1. Hand(x, e) = {}
          BY <2>15, <4>2, Zenon
        <5>2. Hand(e.r, e) # {}
          BY <4>3, HandIs, Zenon
        <5> QED
          BY <4>3, <5>1, <5>2, ZenonT(30) DEF SplitRec
      <4>5. dirt'[e.r] = dirt[e.r]
        BY <2>8, <4>4
      <4>6. Honest(dirt[e.r], e.s, e.a, e.o)
        BY <2>4, <4>2, <4>3, Zenon DEF Truthful
      <4> QED
        BY <4>2, <4>5, <4>6, Zenon
    <3> QED
      BY <3>1, <3>2, Zenon DEF Truthful, StateHonest
  <2> QED
    BY <2>9, <2>13, <2>19, <2>20, Zenon DEF IInv
<1> QED
  BY <1>4, <1>5, ZenonT(30) DEF AddRegion

------------------------------------------------------------------------------
(* Invariance *)

\* A step that changes no variable keeps the invariant.
LEMMA StutterInv ==
    ASSUME IInv, UNCHANGED vars
    PROVE  IInv'
<1>1. /\ machine' = machine /\ regions' = regions /\ home' = home /\ reg' = reg /\ dirt' = dirt
      /\ live' = live /\ call' = call
  BY DEF vars
<1>2. Node' = Node /\ CallRec' = CallRec
  BY <1>1, SameTypes, Zenon
<1>3. Typed'
  BY <1>1, <1>2, Zenon DEF IInv, Typed
<1>4. InSync'
  BY <1>1, Zenon DEF IInv, InSync
<1>5. ASSUME NEW r
      PROVE  Free(r)' = Free(r) /\ LiveIn(r)' = LiveIn(r) /\ \A t \in Thread : InHand(r, t)' = InHand(r, t)
  BY <1>1, PartsAre, Zenon DEF LiveIn
<1>6. Truthful'
  BY <1>1, <1>5, Zenon DEF IInv, Truthful, StateHonest
<1>7. ASSUME NEW r \in Region PROVE Tiled(r)'
  <2>1. Placed(r)' = Placed(r)
    BY <1>5, PlacedSame, Zenon
  <2> QED
    BY <1>1, <2>1, Zenon DEF IInv, Tiled
<1> QED
  BY <1>3, <1>4, <1>6, <1>7, ZenonT(30) DEF IInv

\* Every step of alloc, free, try_grow_inplace and trim keeps the invariant.
LEMMA IInvStep == IInv /\ [Next]_vars => IInv'
<1> SUFFICES ASSUME IInv, [Next]_vars PROVE IInv'
  OBVIOUS
<1>1. CASE UNCHANGED vars
  BY <1>1, StutterInv, Zenon
<1>2. CASE Next
  <2>1. UNCHANGED machine
    BY <1>2, Zenon DEF Next
  <2>2. PICK t \in Thread :
             \/ \E k \in machine.least..MaxOrder, n \in Node : AllocCall(t, k, n)
             \/ Walk(t) \/ Visit(t) \/ TakeHead(t) \/ Split(t) \/ AllocReturn(t)
             \/ AddRegion(t) \/ WalkFailed(t)
             \/ \E b \in live : FreeCall(t, b) \/ TryGrow(t, b)
             \/ Merge(t) \/ FreePush(t)
             \/ \E force \in Trims : ~machine.solo /\ TrimCall(t, force)
             \/ TrimOrder(t)
    BY <1>2, Zenon DEF Next
  <2>3. ASSUME NEW k \in machine.least..MaxOrder PROVE k \in Order
    BY ConstAssumption DEF Order, IInv, Typed
  <2>4. CASE \E k \in machine.least..MaxOrder, n \in Node : AllocCall(t, k, n)
    BY <2>1, <2>3, <2>4, AllocCallInv, Zenon
  <2>5. CASE Walk(t)
    BY <2>1, <2>5, WalkInv, Zenon
  <2>6. CASE Visit(t)
    BY <2>1, <2>6, VisitInv, Zenon
  <2>7. CASE TakeHead(t)
    BY <2>1, <2>7, TakeHeadInv, Zenon
  <2>8. CASE Split(t)
    BY <2>1, <2>8, SplitInv, Zenon
  <2>9. CASE AllocReturn(t)
    BY <2>1, <2>9, AllocReturnInv, Zenon
  <2>10. CASE AddRegion(t)
    BY <2>1, <2>10, AddRegionInv, Zenon
  <2>11. CASE WalkFailed(t)
    BY <2>1, <2>11, WalkFailedInv, Zenon
  <2>12. CASE \E b \in live : FreeCall(t, b) \/ TryGrow(t, b)
    BY <2>1, <2>12, FreeCallInv, TryGrowInv, ZenonT(30)
  <2>13. CASE Merge(t)
    BY <2>1, <2>13, MergeInv, Zenon
  <2>14. CASE FreePush(t)
    BY <2>1, <2>14, FreePushInv, Zenon
  <2>15. CASE \E force \in Trims : ~machine.solo /\ TrimCall(t, force)
    <3>1. Trims \subseteq BOOLEAN
      BY ConstAssumption, Zenon
    <3> QED
      BY <2>1, <2>15, <3>1, TrimCallInv, ZenonT(30)
  <2>16. CASE TrimOrder(t)
    BY <2>1, <2>16, TrimOrderInv, Zenon
  <2> QED
    BY <2>2, <2>4, <2>5, <2>6, <2>7, <2>8, <2>9, <2>10, <2>11, <2>12, <2>13, <2>14, <2>15, <2>16, Zenon
<1> QED
  BY <1>1, <1>2, Zenon

\* The blocks of every region tile it, its lists, bitmaps and mask agree, and
\* trim_state is true, whatever calls interleave.
THEOREM Invariance == Spec => []IInv
BY InitIInv, IInvStep, PTL DEF Spec

\* The invariant leaves each unit of a published region exactly one block.
LEMMA IInvPartition == IInv => Partition
<1> SUFFICES ASSUME IInv PROVE Partition
  OBVIOUS
<1>1. Typed /\ \A r \in Region : Tiled(r)
  BY DEF IInv
<1>2. TypeOK
  <2>1. Range(regions) \subseteq Region /\ IsInjective(regions)
    BY <1>1 DEF Typed, Range
  <2>2. machine \in Machines /\ home \in [Region -> Node]
    BY <1>1, Zenon DEF Typed
  <2>3. ASSUME NEW r \in Region
        PROVE  /\ \A o \in Order : IsInjective(reg[r].free[o])
               /\ reg[r].state \in [Addr -> TrimState]
               /\ dirt[r] \in [Addr -> Dirt]
    BY <1>1, Zenon DEF Typed, RegionRec
  <2>4. ASSUME NEW r \in Region, NEW p \in Placed(r) PROVE p[2] \in Block /\ p[2].a % Pow2[p[2].o] = 0
    BY <1>1, Zenon DEF Tiled, Fits
  <2> QED
    BY <2>1, <2>2, <2>3, <2>4, Zenon DEF TypeOK
<1>3. ASSUME NEW r \in Range(regions), NEW u \in Addr
      PROVE  \E p \in Placed(r) : \A q \in Placed(r) : u \in UnitsOf(q[2].a, q[2].o) <=> q = p
  <2>1. r \in Region
    BY <1>1 DEF Typed, Range
  <2>2. Apart(Placed(r)) /\ Covers(Placed(r))
    BY <1>1, <2>1 DEF Tiled
  <2>3. PICK p \in Placed(r) : u \in Cells(p)
    BY <2>2, Zenon DEF Covers
  <2>4. \A q \in Placed(r) : u \in Cells(q) => q = p
    BY <2>2, <2>3, Zenon DEF Apart
  <2> QED
    BY <2>3, <2>4, Zenon DEF Cells
<1> QED
  BY <1>2, <1>3, Zenon DEF Partition

\* Free blocks, live blocks and blocks in hand partition every published region
\* of the buddy backend, for any number of regions, orders and callers.
THEOREM PartitionAlways == Spec => []Partition
BY Invariance, IInvPartition, PTL

\* The list, the bitmap and the mask bit of an order always agree.
THEOREM InSyncAlways == Spec => []InSync
<1>1. IInv => InSync
  BY DEF IInv
<1> QED
  BY <1>1, Invariance, PTL

\* The trim_state in a free block's header is always true of its memory.
THEOREM StateHonestAlways == Spec => []StateHonest
<1>1. IInv => StateHonest
  BY Zenon DEF IInv, Truthful
<1> QED
  BY <1>1, Invariance, PTL

------------------------------------------------------------------------------
(* The refinement of Extents *)

\* Two blocks of different regions, or one wholly below the other.
Disjoint(b, c) == b.r # c.r \/ b.a + Pow2[b.o] <= c.a \/ c.a + Pow2[c.o] <= b.a

\* Blocks that share no unit are one below the other.
LEMMA NoUnitShared ==
    ASSUME NEW b, NEW c, Fit(b.a, b.o), Fit(c.a, c.o),
           \A u \in Addr : ~(u \in UnitsOf(b.a, b.o) /\ u \in UnitsOf(c.a, c.o))
    PROVE  Disjoint(b, c)
<1>1. PICK a \in Addr, e \in Addr, v \in Nat \ {0}, w \in Nat \ {0} :
             a = b.a /\ e = c.a /\ v = Pow2[b.o] /\ w = Pow2[c.o]
  BY Widths, Zenon DEF Fit
<1>2. a \in Nat /\ e \in Nat
  BY Widths
<1>3. (\A u \in Nat : u \in UnitsOf(b.a, b.o) <=> a <= u /\ u < a + v)
      /\ (\A u \in Nat : u \in UnitsOf(c.a, c.o) <=> e <= u /\ u < e + w)
  BY <1>1, <1>2 DEF UnitsOf
<1>4. ~(a <= e /\ e < a + v) /\ ~(e <= a /\ a < e + w)
  BY <1>1, <1>2, <1>3
<1>5. a + v <= e \/ e + w <= a
  BY <1>1, <1>2, <1>4
<1> QED
  BY <1>1, <1>5, Zenon DEF Disjoint

\* Different blocks of a set of placed blocks are disjoint.
LEMMA PairApart ==
    ASSUME NEW P, Apart(P), \A p \in P : Fits(p[2]), NEW b, NEW c, b # c,
           AtLive(b) \in P, AtLive(c) \in P
    PROVE  Disjoint(b, c)
<1>1. AtLive(b)[2] = b /\ AtLive(c)[2] = c /\ AtLive(b) # AtLive(c)
  BY Tags, LiveTag, ZenonT(30)
<1>2. Fits(b) /\ Fits(c)
  BY <1>1
<1>3. Fit(b.a, b.o) /\ Fit(c.a, c.o)
  BY <1>2 DEF Fits, Fit, Block
<1>4. Cells(AtLive(b)) = UnitsOf(b.a, b.o) /\ Cells(AtLive(c)) = UnitsOf(c.a, c.o)
  BY <1>1, Zenon DEF Cells
<1>5. \A u \in Addr : ~(u \in UnitsOf(b.a, b.o) /\ u \in UnitsOf(c.a, c.o))
  BY <1>1, <1>4, Zenon DEF Apart
<1> QED
  BY <1>3, <1>5, NoUnitShared, ZenonT(30)

\* Live blocks are disjoint and fit their region.
LEMMA LiveApart ==
    ASSUME IInv
    PROVE  (\A b \in live : Fits(b)) /\ \A b, c \in live : b # c => Disjoint(b, c)
<1>1. \A b \in live : b.r \in Region /\ b \in LiveIn(b.r)
  BY Zenon DEF IInv, Typed, Block, LiveIn
<1>2. \A b \in live : Fits(b)
  BY <1>1, PlacedFit, ZenonT(30) DEF IInv
<1>3. ASSUME NEW b \in live, NEW c \in live, b # c PROVE Disjoint(b, c)
  <2>1. CASE b.r # c.r
    BY <2>1, Zenon DEF Disjoint
  <2>2. CASE b.r = c.r
    <3>1. PICK x \in Region : b \in LiveIn(x) /\ c \in LiveIn(x)
      BY <1>1, <2>2, ZenonT(30)
    <3>2. PICK P : P = Placed(x)
      BY Zenon
    <3>3. AtLive(b) \in P /\ AtLive(c) \in P
      BY <3>1, <3>2, InPlaced, ZenonT(30)
    <3>4. Apart(P) /\ \A p \in P : Fits(p[2])
      BY <3>2, ZenonT(30) DEF IInv, Tiled
    <3> QED
      BY <1>3, <3>3, <3>4, PairApart, ZenonT(30)
  <2> QED
    BY <2>1, <2>2, ZenonT(30)
<1> QED
  BY <1>2, <1>3, ZenonT(30)

\* The same of the next state.
LEMMA LiveApartNext ==
    ASSUME IInv'
    PROVE  (\A b \in live' : Fits(b)) /\ \A b, c \in live' : b # c => Disjoint(b, c)
<1>1. \A b \in live' : b.r \in Region /\ b \in LiveIn(b.r)'
  BY Zenon DEF IInv, Typed, Block, LiveIn
<1>2. ASSUME NEW x \in Region, NEW b \in LiveIn(x)' PROVE AtLive(b) \in Placed(x)'
  BY PlacedNext, Zenon
<1>3. ASSUME NEW x \in Region PROVE Apart(Placed(x)') /\ \A p \in Placed(x)' : Fits(p[2])
  BY Zenon DEF IInv, Tiled
<1>4. ASSUME NEW b \in live' PROVE Fits(b)
  <2>1. AtLive(b) \in Placed(b.r)' /\ AtLive(b)[2] = b
    BY <1>1, <1>2, Tags, ZenonT(30)
  <2> QED
    BY <1>1, <1>3, <2>1, ZenonT(30)
<1>5. ASSUME NEW b \in live', NEW c \in live', b # c PROVE Disjoint(b, c)
  <2>1. CASE b.r # c.r
    BY <2>1 DEF Disjoint
  <2>2. CASE b.r = c.r
    <3>1. PICK x \in Region : b \in LiveIn(x)' /\ c \in LiveIn(x)'
      BY <1>1, <2>2, ZenonT(30)
    <3>2. PICK P : P = Placed(x)'
      BY Zenon
    <3>3. AtLive(b) \in P /\ AtLive(c) \in P
      BY <1>2, <3>1, <3>2, ZenonT(30)
    <3>4. Apart(P) /\ \A p \in P : Fits(p[2])
      BY <1>3, <3>2, ZenonT(30)
    <3> QED
      BY <1>5, <3>3, <3>4, PairApart, ZenonT(30)
  <2> QED
    BY <2>1, <2>2
<1> QED
  BY <1>4, <1>5, ZenonT(30)

\* Blocks and their extents.
LEMMA ExtentIs ==
    ASSUME NEW b, Fits(b), NEW e, e = AsExtent(b)
    PROVE  /\ e \in Backend!Extent /\ e.r = b.r /\ e.a = b.a /\ e.len = Pow2[b.o]
           /\ e.a \in Nat /\ e.len \in Nat \ {0} /\ b.o \in Order /\ b \in Block
<1>1. PICK a \in Addr, w \in Nat \ {0} : a = b.a /\ w = Pow2[b.o] /\ a + w <= Size /\ b.r \in Region
  BY Widths, Zenon DEF Fits, Block
<1>2. e = [r |-> b.r, a |-> a, len |-> w]
  BY <1>1 DEF AsExtent
<1>3. a \in 0..(Size - 1) /\ w \in 1..Size /\ a \in Nat
  BY <1>1, Widths DEF Addr
<1> QED
  BY <1>1, <1>2, <1>3 DEF Backend!Extent, Fits, Block

\* Disjoint blocks have extents apart, which differ.
LEMMA ExtentsApart ==
    ASSUME NEW b, NEW c, Fits(b), Fits(c), Disjoint(b, c)
    PROVE  Backend!Apart(AsExtent(b), AsExtent(c)) /\ AsExtent(b) # AsExtent(c)
<1>1. PICK e, f : e = AsExtent(b) /\ f = AsExtent(c)
  BY Zenon
<1>2. /\ e.r = b.r /\ e.a = b.a /\ e.len = Pow2[b.o] /\ e.a \in Nat /\ e.len \in Nat \ {0}
      /\ f.r = c.r /\ f.a = c.a /\ f.len = Pow2[c.o] /\ f.a \in Nat /\ f.len \in Nat \ {0}
  BY <1>1, ExtentIs, ZenonT(30)
<1>3. e.r # f.r \/ e.a + e.len <= f.a \/ f.a + f.len <= e.a
  BY <1>2, Zenon DEF Disjoint
<1>4. e # f
  BY <1>2, <1>3
<1> QED
  BY <1>1, <1>3, <1>4, Zenon DEF Backend!Apart

\* alloc gives out an extent.
LEMMA AllocGives ==
    ASSUME IInv, IInv', NEW t \in Thread, AllocReturn(t)
    PROVE  Backend!Next
<1>1. PICK c \in CallRec : c = call[t]
  BY Zenon DEF IInv, Typed
<1>2. c \in SplitRec /\ c.op = "split" /\ c.r \in Region
  BY <1>1, Kinds, Zenon DEF AllocReturn, SplitRec
<1>x. PICK x \in Region : x = c.r
  BY <1>2, Zenon
<1>3. PICK b : b = [r |-> x, a |-> c.a, o |-> c.o]
  BY Zenon
<1>4. live' = live \cup {b} /\ b.r = x
  BY <1>1, <1>3, <1>x DEF AllocReturn
<1>5. b \in Hand(x, call[t])
  BY <1>1, <1>2, <1>3, <1>x, HandIs, ZenonT(30)
<1>6. Fits(b) /\ Fit(b.a, b.o)
  BY <1>5, PlacedFit, ZenonT(30) DEF IInv
<1>7. b \notin live
  <2> SUFFICES ASSUME b \in live PROVE FALSE
    OBVIOUS
  <2>1. b \in LiveIn(x)
    BY <1>4, Zenon DEF LiveIn
  <2>2. b.a \in UnitsOf(b.a, b.o) /\ b.a \in Addr /\ Tiled(x)
    BY <1>6, UnitsIn, Zenon DEF Fit, IInv
  <2> QED
    BY <1>5, <2>1, <2>2, Distinct, ZenonT(30)
<1>8. \A e \in live : Fits(e) /\ Disjoint(b, e)
  BY <1>4, <1>7, LiveApartNext, ZenonT(30)
<1>9. \A e \in live : Backend!Apart(AsExtent(b), AsExtent(e)) /\ AsExtent(b) # AsExtent(e)
  BY <1>6, <1>8, ExtentsApart, ZenonT(30)
<1>10. Given' = Given \cup {AsExtent(b)}
  BY <1>4, Zenon DEF Given
<1>11. /\ AsExtent(b) \notin Given /\ \A f \in Given : Backend!Apart(AsExtent(b), f)
  BY <1>9, Zenon DEF Given
<1>12. AsExtent(b) \in Backend!Extent
  BY <1>6, ExtentIs, Zenon
<1>13. Given' # Given
  BY <1>10, <1>11, Zenon
<1> QED
  BY <1>10, <1>11, <1>12, <1>13, Zenon DEF Backend!Next, Backend!Give

\* free takes one back.
LEMMA FreeTakesBack ==
    ASSUME IInv, NEW t \in Thread, NEW b \in live, FreeCall(t, b)
    PROVE  Backend!Next
<1>1. live' = live \ {b}
  BY DEF FreeCall
<1>2. \A e \in live : Fits(e) /\ (e # b => Disjoint(b, e))
  BY LiveApart, Zenon
<1>3. \A e \in live : e # b => AsExtent(b) # AsExtent(e)
  BY <1>2, ExtentsApart, Zenon
<1>4. AsExtent(b) \in Given
  BY Zenon DEF Given
<1>5. Given' = Given \ {AsExtent(b)}
  <2>1. ASSUME NEW e PROVE e \in Given' <=> e \in Given \ {AsExtent(b)}
    BY <1>1, <1>3, Zenon DEF Given
  <2> QED
    BY <2>1, Zenon
<1>6. Given' # Given
  BY <1>4, <1>5, Zenon
<1> QED
  BY <1>4, <1>5, <1>6, Zenon DEF Backend!Next, Backend!TakeBack

\* try_grow_inplace extends one.
LEMMA GrowExtends ==
    ASSUME IInv, IInv', NEW t \in Thread, NEW b \in live, TryGrow(t, b)
    PROVE  Backend!Next
<1>1. b \in Block /\ Fits(b) /\ Fit(b.a, b.o) /\ b.o < MaxOrder
  BY LiveApart, Zenon DEF TryGrow, Fits, Fit, Block
<1>2. PICK k : k = b.o + 1
  BY Zenon
<1>3. PICK g : g = [b EXCEPT !.o = k]
  BY Zenon
<1>4. g = [r |-> b.r, a |-> b.a, o |-> k] /\ g.r = b.r /\ g.a = b.a /\ g.o = k
  BY <1>1, <1>3 DEF Block
<1>5. live' = (live \ {b}) \cup {g}
  BY <1>2, <1>3 DEF TryGrow
<1>6. g # b /\ Fits(g)
  <2>1. b.o # k
    BY <1>1, <1>2, Widths DEF Fit
  <2> QED
    BY <1>4, <1>5, <2>1, LiveApartNext, ZenonT(30)
<1>7. PICK w \in Nat \ {0}, v \in Nat : w = Pow2[b.o] /\ v = Pow2[k] /\ v = 2 * w
  <2>1. PICK o \in Order : o = b.o /\ o < MaxOrder /\ k = o + 1
    BY <1>1, <1>2, Zenon DEF Fit
  <2>2. Pow2[o] \in Nat \ {0} /\ Pow2[o + 1] = 2 * Pow2[o]
    BY <2>1, Widths, Zenon
  <2>3. PICK w \in Nat \ {0} : w = Pow2[o]
    BY <2>2, Zenon
  <2>4. Pow2[k] = 2 * w /\ 2 * w \in Nat
    BY <2>1, <2>2, <2>3
  <2> QED
    BY <2>1, <2>3, <2>4, Zenon
<1>8. g \notin live
  <2>1. ~Disjoint(b, g)
    <3>1. PICK a \in Nat : a = b.a /\ a = g.a
      BY <1>1, <1>4, Widths, ZenonT(30) DEF Fit
    <3>2. ~(a + w <= a) /\ ~(a + v <= a)
      BY <1>7
    <3> QED
      BY <1>4, <1>7, <3>1, <3>2, ZenonT(30) DEF Disjoint
  <2> QED
    BY <1>6, <2>1, LiveApart, ZenonT(30)
<1>9. \A e \in live \ {b} : Fits(e) /\ Disjoint(g, e) /\ Disjoint(b, e)
  <2>1. \A e \in live \ {b} : Fits(e) /\ Disjoint(b, e)
    BY LiveApart, Zenon
  <2>2. \A e \in live \ {b} : e \in live' /\ g \in live' /\ e # g
    BY <1>5, <1>8, Zenon
  <2> QED
    BY <2>1, <2>2, LiveApartNext, ZenonT(30)
<1>10. PICK e, f : e = AsExtent(b) /\ f = AsExtent(g)
  BY Zenon
<1>11. /\ \A c \in live \ {b} : e # AsExtent(c)
       /\ \A c \in live \ {b} : Backend!Apart(f, AsExtent(c))
  BY <1>1, <1>6, <1>9, <1>10, ExtentsApart, ZenonT(30)
<1>12. /\ e \in Backend!Extent /\ e.r = b.r /\ e.a = b.a /\ e.len = w /\ f.r = b.r /\ f.a = b.a /\ f.len = v
       /\ e.a \in Nat /\ f \in Backend!Extent
  BY <1>1, <1>4, <1>6, <1>7, <1>10, ExtentIs, ZenonT(30)
<1>13. f = [e EXCEPT !.len = v]
  <2>1. e = [r |-> b.r, a |-> b.a, len |-> w]
    BY <1>7, <1>10, ZenonT(30) DEF AsExtent
  <2>2. f = [r |-> b.r, a |-> b.a, len |-> v]
    BY <1>4, <1>7, <1>10, ZenonT(30) DEF AsExtent
  <2> QED
    BY <2>1, <2>2
<1>14. v \in 1..(Size - e.a) /\ v > e.len
  BY <1>7, <1>12, Widths DEF Backend!Extent
<1>15. e \in Given
  BY <1>10, Zenon DEF Given
<1>16. \A c \in Given \ {e} : Backend!Apart(f, c)
  BY <1>10, <1>11, Zenon DEF Given
<1>17. Given' = (Given \ {e}) \cup {f}
  <2>1. ASSUME NEW c PROVE c \in Given' <=> c \in (Given \ {e}) \cup {f}
    BY <1>5, <1>10, <1>11, Zenon DEF Given
  <2> QED
    BY <2>1, ZenonT(30)
<1>18. Given' # Given
  <2>1. e # f
    BY <1>7, <1>12
  <2> QED
    BY <1>15, <1>17, <2>1, ZenonT(30)
<1>19. Backend!Extend(e, v)
  BY <1>13, <1>14, <1>15, <1>16, <1>17, Zenon DEF Backend!Extend
<1> QED
  BY <1>14, <1>15, <1>18, <1>19, Zenon DEF Backend!Next

\* The buddy backend implements Extents for any number of regions, orders and
\* callers: what alloc returns is apart from all that is out, and
\* try_grow_inplace grows into no one else's block.
THEOREM Refinement == Spec => BackendSpec
<1>1. Init => Backend!Init
  BY DEF Init, Backend!Init, Given
<1>2. IInv /\ IInv' /\ [Next]_vars => [Backend!Next]_Given
  <2> SUFFICES ASSUME IInv, IInv', [Next]_vars PROVE Backend!Next \/ Given' = Given
    BY Zenon
  <2>1. CASE live' = live
    BY <2>1, Zenon DEF Given
  <2>2. CASE live' # live
    <3>1. Next
      BY <2>2, Zenon DEF vars
    <3>2. PICK t \in Thread : AllocReturn(t) \/ \E b \in live : FreeCall(t, b) \/ TryGrow(t, b)
      BY <2>2, <3>1, Zenon DEF Next, AllocCall, Walk, Visit, TakeHead, Split, AddRegion, WalkFailed, Merge,
                               FreePush, TrimCall, TrimOrder
    <3> QED
      BY <3>2, AllocGives, FreeTakesBack, GrowExtends, ZenonT(30)
  <2> QED
    BY <2>1, <2>2, Zenon
<1> QED
  BY <1>1, <1>2, Invariance, PTL DEF Spec, BackendSpec, Backend!Spec

------------------------------------------------------------------------------
(* An alloc that gives up has looked everywhere *)

\* TryNode on a machine with m nodes.
Turn(c, m) == IF c.try < 2 THEN c.node ELSE (c.try - 2 + c.node) % m

\* The call c has gone past region r without a block: in an attempt since the
\* second one, or in this one.  H is home.
Passed(c, r, H, m) ==
    \/ \E j \in Nat : 2 <= j /\ j < c.try /\ H[r] = (j - 2 + c.node) % m
    \/ c.op \in {"walk", "orders"} /\ H[r] = Turn(c, m) /\ r \notin Range(c.left)

\* Region r, as G has it, has no block of order k or more.
Dry(G, r, k) == \A o \in G[r].mask : o < k

\* What a call knows of the regions R while no other call runs: those it has
\* passed are dry, and the orders it saw nonempty still are.
Knows(c, H, R, G, m) ==
    /\ c.op \in {"head", "walk", "orders"} => \A r \in Range(R) : Passed(c, r, H, m) => Dry(G, r, c.k)
    /\ c.op = "orders" => c.seen \subseteq G[Head(c.left)].mask

SoloInv == machine.solo => \A t \in Thread : Knows(call[t], home, regions, reg, machine.nodes)

\* At the beginning of the first three attempts nothing is claimed.
LEMMA KnowsNothing ==
    ASSUME NEW c, c.op = "head", c.try \in 0..2, NEW H, NEW R, NEW G, NEW m
    PROVE  Knows(c, H, R, G, m)
<1>1. ASSUME NEW j \in Nat PROVE ~(2 <= j /\ j < c.try)
  OBVIOUS
<1>2. \A r : ~Passed(c, r, H, m)
  BY <1>1, Zenon DEF Passed
<1> QED
  BY <1>2, Zenon DEF Knows

\* Nor of a call that does not search.
LEMMA KnowsOther ==
    ASSUME NEW c, c.op \notin {"head", "walk", "orders"}, NEW H, NEW R, NEW G, NEW m
    PROVE  Knows(c, H, R, G, m)
BY Zenon DEF Knows

\* n is c at the beginning of a walk along R.
Begun(n, c, R) == n.op = "walk" /\ n.k = c.k /\ n.node = c.node /\ n.try = c.try /\ n.left = R

\* Walk.
LEMMA WalkKnows ==
    ASSUME NEW c, c.op = "head", NEW H, NEW R, NEW G, NEW m, Knows(c, H, R, G, m),
           NEW n, Begun(n, c, R)
    PROVE  Knows(n, H, R, G, m)
<1>1. n.op = "walk" /\ n.op # "orders" /\ n.k = c.k /\ n.node = c.node /\ n.try = c.try /\ n.left = R
  BY Zenon DEF Begun
<1>2. ASSUME NEW r \in Range(R), Passed(n, r, H, m) PROVE Dry(G, r, n.k)
  <2>1. \E j \in Nat : 2 <= j /\ j < c.try /\ H[r] = (j - 2 + c.node) % m
    BY <1>1, <1>2, Zenon DEF Passed
  <2>2. Passed(c, r, H, m)
    BY <2>1, Zenon DEF Passed
  <2> QED
    BY <1>1, <2>2, Zenon DEF Knows
<1> QED
  BY <1>1, <1>2, Zenon DEF Knows

\* n is c one region further.
Further(n, c, l) == n.op = "walk" /\ n.k = c.k /\ n.node = c.node /\ n.try = c.try /\ n.left = l

\* Visit passes a region of another node, or one that is dry.
LEMMA PassKnows ==
    ASSUME NEW c, c.op = "walk", c.left \in Seq(Region), c.left # <<>>,
           NEW H, NEW R, NEW G, NEW m, Knows(c, H, R, G, m),
           NEW x, x = Head(c.left), H[x] # Turn(c, m) \/ Dry(G, x, c.k),
           NEW n, NEW l, l = Tail(c.left), Further(n, c, l)
    PROVE  Knows(n, H, R, G, m)
<1>1. n.op = "walk" /\ n.op # "orders" /\ n.k = c.k /\ n.node = c.node /\ n.try = c.try /\ n.left = l
  BY Zenon DEF Further
<1>2. Turn(n, m) = Turn(c, m)
  BY <1>1, Zenon DEF Turn
<1>3. ASSUME NEW r, r \notin Range(l), r # x PROVE r \notin Range(c.left)
  <2>1. ASSUME NEW i \in DOMAIN c.left, c.left[i] = r PROVE FALSE
    <3>1. i # 1
      BY <1>3, <2>1
    <3>2. i - 1 \in DOMAIN l /\ l[i - 1] = c.left[i]
      BY <3>1
    <3> QED
      BY <1>3, <2>1, <3>2, Zenon DEF Range
  <2> QED
    BY <2>1, Zenon DEF Range
<1>4. ASSUME NEW r \in Range(R), Passed(n, r, H, m) PROVE Dry(G, r, n.k)
  <2>1. CASE Passed(c, r, H, m)
    BY <1>1, <2>1, Zenon DEF Knows
  <2>2. CASE ~Passed(c, r, H, m)
    <3>1. ~\E j \in Nat : 2 <= j /\ j < n.try /\ H[r] = (j - 2 + n.node) % m
      BY <1>1, <2>2, Zenon DEF Passed
    <3>2. H[r] = Turn(c, m) /\ r \notin Range(l)
      BY <1>1, <1>2, <1>4, <3>1, Zenon DEF Passed
    <3>3. r = x
      BY <1>3, <2>2, <3>2, Zenon DEF Passed
    <3> QED
      BY <1>1, <3>2, <3>3, Zenon
  <2> QED
    BY <2>1, <2>2, Zenon
<1> QED
  BY <1>1, <1>4, Zenon DEF Knows

\* n is c with the orders S of its region to try.
Tries(n, c, S) ==
    n.op = "orders" /\ n.k = c.k /\ n.node = c.node /\ n.try = c.try /\ n.left = c.left /\ n.seen = S

\* Visit stays at a region where it saw something.
LEMMA StayKnows ==
    ASSUME NEW c, c.op = "walk", NEW H, NEW R, NEW G, NEW m, Knows(c, H, R, G, m),
           NEW S, S \subseteq G[Head(c.left)].mask, NEW n, Tries(n, c, S)
    PROVE  Knows(n, H, R, G, m)
<1>1. n.op = "orders" /\ n.k = c.k /\ n.node = c.node /\ n.try = c.try /\ n.left = c.left /\ n.seen = S
  BY Zenon DEF Tries
<1>2. Turn(n, m) = Turn(c, m)
  BY <1>1, Zenon DEF Turn
<1>3. ASSUME NEW r \in Range(R), Passed(n, r, H, m) PROVE Dry(G, r, n.k)
  <2>1. Passed(c, r, H, m)
    BY <1>1, <1>2, <1>3, Zenon DEF Passed
  <2> QED
    BY <1>1, <2>1, Zenon DEF Knows
<1> QED
  BY <1>1, <1>3, Zenon DEF Knows

\* n is c at the beginning of attempt i.
Again(n, c, i) == n.op = "head" /\ n.k = c.k /\ n.node = c.node /\ n.try = i

\* After a walk of all regions the next attempt also knows of its node.
LEMMA AgainKnows ==
    ASSUME NEW c, c.op = "walk", c.left = <<>>, c.try \in Nat, NEW H, NEW R, NEW G, NEW m,
           Knows(c, H, R, G, m), NEW i, i = c.try + 1, NEW n, Again(n, c, i)
    PROVE  Knows(n, H, R, G, m)
<1>1. n.op = "head" /\ n.op \notin {"walk", "orders"} /\ n.k = c.k /\ n.node = c.node /\ n.try = i
  BY Zenon DEF Again
<1>2. \A r : r \notin Range(c.left)
  <2>1. DOMAIN c.left = {}
    OBVIOUS
  <2> QED
    BY <2>1, Zenon DEF Range
<1>3. ASSUME NEW r \in Range(R), Passed(n, r, H, m) PROVE Dry(G, r, n.k)
  <2>1. PICK j \in Nat : 2 <= j /\ j < i /\ H[r] = (j - 2 + c.node) % m
    BY <1>1, <1>3, Zenon DEF Passed
  <2>2. CASE j < c.try
    <3>1. Passed(c, r, H, m)
      BY <2>1, <2>2, Zenon DEF Passed
    <3> QED
      BY <1>1, <3>1, Zenon DEF Knows
  <2>3. CASE ~(j < c.try)
    <3>1. j = c.try /\ ~(c.try < 2)
      BY <2>1, <2>3
    <3>2. H[r] = Turn(c, m)
      BY <2>1, <3>1, Zenon DEF Turn
    <3>3. Passed(c, r, H, m)
      BY <1>2, <3>2, Zenon DEF Passed
    <3> QED
      BY <1>1, <3>3, Zenon DEF Knows
  <2> QED
    BY <2>2, <2>3, Zenon
<1> QED
  BY <1>1, <1>3, Zenon DEF Knows

\* The attempts 2 to 1 + m go through all of m nodes.
LEMMA AllNodes ==
    ASSUME NEW m \in Nat \ {0}, NEW n \in 0..(m - 1), NEW h \in 0..(m - 1)
    PROVE  \E j \in Nat : 2 <= j /\ j <= m + 1 /\ h = (j - 2 + n) % m
<1>1. h % m = h /\ (h + m) % m = h
  OBVIOUS
<1>2. CASE n <= h
  <2>1. PICK j \in Nat : j = h - n + 2
    BY <1>2
  <2>2. j - 2 + n = h /\ 2 <= j /\ j <= m + 1
    BY <1>2, <2>1
  <2> QED
    BY <1>1, <2>2, Zenon
<1>3. CASE ~(n <= h)
  <2>1. PICK j \in Nat : j = h + m - n + 2
    BY <1>3
  <2>2. j - 2 + n = h + m /\ 2 <= j /\ j <= m + 1
    BY <1>3, <2>1
  <2> QED
    BY <1>1, <2>2, Zenon
<1> QED
  BY <1>2, <1>3, Zenon

\* An alloc at the end of its last walk has passed every region.
LEMMA PassedAll ==
    ASSUME NEW c, c.op = "walk", c.left = <<>>, c.try \in Nat, NEW m \in Nat \ {0}, c.node \in 0..(m - 1),
           NEW H, NEW r, H[r] \in 0..(m - 1), m = 1 \/ c.try >= m + 1
    PROVE  Passed(c, r, H, m)
<1>1. r \notin Range(c.left)
  <2>1. DOMAIN c.left = {}
    OBVIOUS
  <2> QED
    BY <2>1, Zenon DEF Range
<1>2. PICK h \in 0..(m - 1), d \in 0..(m - 1), i \in Nat : h = H[r] /\ d = c.node /\ i = c.try
  BY Zenon
<1>3. CASE m = 1
  <2>1. h = 0 /\ d = 0
    BY <1>3
  <2>2. i < 2 \/ (i - 2 + d) % m = 0
    BY <1>3, <2>1
  <2>3. H[r] = Turn(c, m)
    BY <1>2, <2>1, <2>2, Zenon DEF Turn
  <2> QED
    BY <1>1, <2>3, Zenon DEF Passed
<1>4. CASE m # 1
  <2>1. PICK j \in Nat : 2 <= j /\ j <= m + 1 /\ h = (j - 2 + d) % m
    BY AllNodes, Zenon
  <2>2. i >= m + 1
    BY <1>2, <1>4, Zenon
  <2>3. j < i \/ (j = i /\ ~(i < 2))
    BY <2>1, <2>2
  <2>4. CASE j < i
    BY <1>2, <2>1, <2>4, Zenon DEF Passed
  <2>5. CASE j = i /\ ~(i < 2)
    <3>1. H[r] = Turn(c, m)
      BY <1>2, <2>1, <2>5, Zenon DEF Turn
    <3> QED
      BY <1>1, <3>1, Zenon DEF Passed
  <2> QED
    BY <2>3, <2>4, <2>5, Zenon
<1> QED
  BY <1>3, <1>4, Zenon

\* Thread t, and no other, has gone on to n.
Moves(t, n) == call'[t] = n /\ \A u \in Thread : u # t => call'[u] = call[u]

LEMMA MovesTo ==
    ASSUME IInv, NEW t \in Thread, NEW n, call' = [call EXCEPT ![t] = n]
    PROVE  Moves(t, n)
<1>1. call \in [Thread -> CallRec]
  BY Zenon DEF IInv, Typed
<1> QED
  BY <1>1, Zenon DEF Moves

\* What t knows after a step of its own in which it moves.
Learns(t) == \E n : Moves(t, n) /\ Knows(n, home', regions', reg', machine.nodes)

\* What every thread knows while t goes ahead and the others are idle.
KnowsNow(t) == Knows(call[t], home, regions, reg, machine.nodes)

\* An attempt begins its walk.
LEMMA WalkLearns ==
    ASSUME IInv, NEW t \in Thread, KnowsNow(t), Walk(t)
    PROVE  Learns(t)
<1>1. PICK c : c = call[t]
  BY Zenon
<1>2. PICK n : n = [op |-> "walk", k |-> c.k, node |-> c.node, try |-> c.try, left |-> regions]
  BY Zenon
<1>3. call' = [call EXCEPT ![t] = n] /\ regions' = regions /\ home' = home /\ reg' = reg /\ c.op = "head"
  BY <1>1, <1>2 DEF Walk
<1>4. Begun(n, c, regions)
  BY <1>2, Zenon DEF Begun
<1>5. Knows(n, home, regions, reg, machine.nodes)
  BY <1>1, <1>3, <1>4, WalkKnows, ZenonT(30) DEF KnowsNow
<1> QED
  BY <1>3, <1>5, MovesTo, Zenon DEF Learns

\* A region is passed over, or its mask has orders to try.
LEMMA VisitLearns ==
    ASSUME IInv, NEW t \in Thread, KnowsNow(t), Visit(t)
    PROVE  Learns(t)
<1>1. PICK c \in CallRec : c = call[t]
  BY Zenon DEF IInv, Typed
<1>2. c \in WalkRec /\ c.op = "walk" /\ c.left # <<>>
  BY <1>1, Kinds, ZenonT(30) DEF Visit
<1>3. c.left \in Seq(Region) /\ Head(c.left) \in Region /\ c.k \in Order
  BY <1>2 DEF WalkRec
<1>4. PICK r \in Region : r = Head(c.left)
  BY <1>3, Zenon
<1>5. PICK S : S = {o \in reg[r].mask : o >= c.k}
  BY Zenon
<1>6. PICK l : l = Tail(c.left)
  BY Zenon
<1>7. PICK n : n = IF home[r] # TryNode(c) \/ S = {} THEN [c EXCEPT !.left = l]
                   ELSE [op |-> "orders", k |-> c.k, node |-> c.node, try |-> c.try, left |-> c.left, seen |-> S]
  BY Zenon
<1>8. call' = [call EXCEPT ![t] = n] /\ regions' = regions /\ home' = home /\ reg' = reg
  BY <1>1, <1>4, <1>5, <1>6, <1>7, ZenonT(30) DEF Visit
<1>9. Knows(c, home, regions, reg, machine.nodes)
  BY <1>1, Zenon DEF KnowsNow
<1>10. TryNode(c) = Turn(c, machine.nodes)
  BY Zenon DEF TryNode, Turn
<1>11. CASE home[r] # TryNode(c) \/ S = {}
  <2>1. n = [c EXCEPT !.left = l]
    BY <1>7, <1>11, Zenon
  <2>2. Further(n, c, l)
    BY <1>2, <2>1 DEF Further, WalkRec
  <2>3. S = {} => Dry(reg, r, c.k)
    <3>1. reg[r].mask \subseteq Order
      BY Having, Zenon DEF RegionRec
    <3>2. ASSUME NEW o \in Order, ~(o >= c.k) PROVE o < c.k
      BY <1>3, <3>2, ConstAssumption DEF Order
    <3> QED
      BY <1>5, <3>1, <3>2, Zenon DEF Dry
  <2>4. home[r] # Turn(c, machine.nodes) \/ Dry(reg, r, c.k)
    BY <1>10, <1>11, <2>3, Zenon
  <2>5. Knows(n, home, regions, reg, machine.nodes)
    BY <1>2, <1>3, <1>4, <1>6, <1>9, <2>2, <2>4, PassKnows, ZenonT(30)
  <2> QED
    BY <1>8, <2>5, MovesTo, Zenon DEF Learns
<1>12. CASE ~(home[r] # TryNode(c) \/ S = {})
  <2>1. n = [op |-> "orders", k |-> c.k, node |-> c.node, try |-> c.try, left |-> c.left, seen |-> S]
    BY <1>7, <1>12, Zenon
  <2>2. Tries(n, c, S)
    BY <2>1, Zenon DEF Tries
  <2>3. S \subseteq reg[Head(c.left)].mask
    BY <1>4, <1>5, Zenon
  <2>4. Knows(n, home, regions, reg, machine.nodes)
    BY <1>2, <1>9, <2>2, <2>3, StayKnows, ZenonT(30)
  <2> QED
    BY <1>8, <2>4, MovesTo, Zenon DEF Learns
<1> QED
  BY <1>11, <1>12, Zenon

\* An order seen nonempty still is, so the call has its block.
LEMMA TakeHeadLearns ==
    ASSUME IInv, NEW t \in Thread, KnowsNow(t), TakeHead(t)
    PROVE  Learns(t)
<1>1. PICK c \in CallRec : c = call[t]
  BY Zenon DEF IInv, Typed
<1>2. c \in OrdersRec /\ c.op = "orders"
  BY <1>1, Kinds, ZenonT(30) DEF TakeHead
<1>3. c.left \in Seq(Region) /\ c.left # <<>> /\ c.seen \subseteq Order /\ c.seen # {}
  BY <1>2, ZenonT(30) DEF OrdersRec
<1>4. PICK x \in Region : x = Head(c.left)
  BY <1>3
<1>5. PICK o \in c.seen : o = Lowest(c.seen)
  <2>1. \E m \in c.seen : \A p \in c.seen : m <= p
    BY <1>3, Widths, LeastOf, ZenonT(30)
  <2> QED
    BY <2>1, Zenon DEF Lowest
<1>6. PICK l : l = reg[x].free[o]
  BY Zenon
<1>7. l # <<>>
  <2>1. o \in reg[x].mask
    BY <1>1, <1>2, <1>4, Zenon DEF KnowsNow, Knows
  <2> QED
    BY <1>3, <1>6, <2>1, Zenon DEF IInv, InSync
<1>8. PICK n : n = [op |-> "split", k |-> c.k, r |-> x, a |-> l[1], o |-> o, s |-> reg[x].state[l[1]]]
  BY Zenon
<1>9. call' = [call EXCEPT ![t] = n]
  BY <1>1, <1>4, <1>5, <1>6, <1>7, <1>8, ZenonT(30) DEF TakeHead
<1>10. n.op \notin {"head", "walk", "orders"}
  BY <1>8
<1>11. Knows(n, home', regions', reg', machine.nodes)
  BY <1>10, KnowsOther, Zenon
<1> QED
  BY <1>9, <1>11, MovesTo, Zenon DEF Learns

\* The number of attempts of an alloc.
Attempts == IF machine.nodes > 1 THEN 2 + machine.nodes ELSE 2

\* n is the call c at attempt i, or None when there are no more.
GoesOn(n, c, i) == (Again(n, c, i) /\ i < Attempts) \/ (n = Idle /\ ~(i < Attempts))

LEMMA NextAttempt ==
    ASSUME NEW c, NEW i, NEW n, n = NextTry(c, i)
    PROVE  GoesOn(n, c, i)
<1>1. ASSUME NEW g, g = [op |-> "head", k |-> c.k, node |-> c.node, try |-> i] PROVE Again(g, c, i)
  BY <1>1, Zenon DEF Again
<1>2. PICK g : g = [op |-> "head", k |-> c.k, node |-> c.node, try |-> i]
  BY Zenon
<1>3. n = IF i < Attempts THEN g ELSE Idle
  BY <1>2, Zenon DEF NextTry, Attempts
<1> QED
  BY <1>1, <1>2, <1>3, Zenon DEF GoesOn

\* An idle thread does not search.
LEMMA IdleKnows ==
    ASSUME NEW H, NEW R, NEW G, NEW m
    PROVE  Knows(Idle, H, R, G, m)
<1>1. Idle.op \notin {"head", "walk", "orders"}
  BY DEF Idle
<1> QED
  BY <1>1, KnowsOther, Zenon

\* With or without a new region, the next attempt claims nothing yet.
LEMMA AddRegionLearns ==
    ASSUME IInv, NEW t \in Thread, AddRegion(t)
    PROVE  Learns(t)
<1>1. PICK i \in {1, 2} : call' = [call EXCEPT ![t] = NextTry(call[t], i)]
  BY Zenon DEF AddRegion
<1>2. PICK n : n = NextTry(call[t], i)
  BY Zenon
<1>3. Again(n, call[t], i) \/ n = Idle
  <2>1. GoesOn(n, call[t], i)
    BY <1>2, NextAttempt, Zenon
  <2> QED
    BY <2>1, Zenon DEF GoesOn
<1>4. Knows(n, home', regions', reg', machine.nodes)
  <2>1. CASE Again(n, call[t], i)
    <3>1. n.op = "head" /\ n.try = i
      BY <2>1, Zenon DEF Again
    <3>2. n.try \in 0..2
      BY <3>1
    <3> QED
      BY <3>1, <3>2, KnowsNothing, Zenon
  <2>2. CASE n = Idle
    BY <2>2, IdleKnows, Zenon
  <2> QED
    BY <1>3, <2>1, <2>2, Zenon
<1> QED
  BY <1>1, <1>2, <1>4, MovesTo, Zenon DEF Learns

\* A walk that found nothing adds its node to what is known.
LEMMA WalkFailedLearns ==
    ASSUME IInv, NEW t \in Thread, KnowsNow(t), WalkFailed(t)
    PROVE  Learns(t)
<1>1. PICK c \in CallRec : c = call[t]
  BY Zenon DEF IInv, Typed
<1>2. c \in WalkRec /\ c.op = "walk" /\ c.left = <<>>
  BY <1>1, Kinds, ZenonT(30) DEF WalkFailed
<1>3. c.try \in Nat
  BY <1>2, Zenon DEF WalkRec
<1>4. PICK i : i = c.try + 1
  BY Zenon
<1>5. PICK n : n = NextTry(c, i)
  BY Zenon
<1>6. call' = [call EXCEPT ![t] = n] /\ regions' = regions /\ home' = home /\ reg' = reg
  BY <1>1, <1>4, <1>5, ZenonT(30) DEF WalkFailed
<1>7. Knows(c, home, regions, reg, machine.nodes)
  BY <1>1, Zenon DEF KnowsNow
<1>8. Again(n, c, i) \/ n = Idle
  <2>1. GoesOn(n, c, i)
    BY <1>5, NextAttempt, Zenon
  <2> QED
    BY <2>1, Zenon DEF GoesOn
<1>9. Knows(n, home, regions, reg, machine.nodes)
  BY <1>2, <1>3, <1>4, <1>7, <1>8, AgainKnows, IdleKnows, ZenonT(30)
<1> QED
  BY <1>6, <1>9, MovesTo, Zenon DEF Learns

\* The other calls do not search.
LEMMA OtherLearns ==
    ASSUME IInv, NEW t \in Thread,
           \/ Split(t) \/ AllocReturn(t) \/ Merge(t) \/ FreePush(t) \/ TrimOrder(t)
           \/ \E b \in live : FreeCall(t, b) \/ TryGrow(t, b)
    PROVE  Learns(t)
<1> SUFFICES ASSUME TRUE PROVE \E n : Moves(t, n) /\ n.op \notin {"head", "walk", "orders"}
  BY KnowsOther, Zenon DEF Learns
<1>1. PICK c \in CallRec : c = call[t]
  BY Zenon DEF IInv, Typed
<1>2. Idle.op \notin {"head", "walk", "orders"}
  BY DEF Idle
<1>3. call \in [Thread -> CallRec]
  BY Zenon DEF IInv, Typed
<1>4. CASE Split(t)
  <2>1. c \in SplitRec
    BY <1>1, <1>4, Kinds, ZenonT(30) DEF Split
  <2>2. PICK n : n = [c EXCEPT !.o = @ - 1]
    BY Zenon
  <2>3. call' = [call EXCEPT ![t] = n]
    BY <1>1, <1>4, <2>2 DEF Split
  <2>4. n.op = "split"
    BY <2>1, <2>2 DEF SplitRec
  <2> QED
    BY <2>3, <2>4, MovesTo, Zenon
<1>5. CASE AllocReturn(t)
  BY <1>2, <1>5, MovesTo, Zenon DEF AllocReturn
<1>6. CASE Merge(t)
  <2>1. c \in BackRec
    BY <1>1, <1>6, Kinds, ZenonT(30) DEF Merge
  <2>2. PICK b : b = Sibling(c.a, c.o)
    BY Zenon
  <2>3. PICK n \in {[c EXCEPT !.a = IF b < c.a THEN b ELSE c.a, !.o = c.o + 1], [c EXCEPT !.op = "push"]} :
            call' = [call EXCEPT ![t] = n]
    BY <1>1, <1>3, <1>6, <2>2, Zenon DEF Merge
  <2>4. n.op \in {"free", "push"}
    BY <2>1, <2>3, ZenonT(30) DEF BackRec
  <2> QED
    BY <2>3, <2>4, MovesTo, Zenon
<1>7. CASE FreePush(t)
  BY <1>2, <1>7, MovesTo, Zenon DEF FreePush
<1>8. CASE TrimOrder(t)
  <2>1. c \in TrimRec
    BY <1>1, <1>8, Kinds, ZenonT(30) DEF TrimOrder
  <2>2. PICK n \in {[c EXCEPT !.o = @ + 1], [c EXCEPT !.left = Tail(@), !.o = 0], Idle} :
            call' = [call EXCEPT ![t] = n]
    BY <1>1, <1>8, Zenon DEF TrimOrder
  <2>3. n.op \in {"trim", "idle"}
    <3>1. ASSUME NEW g, g = [c EXCEPT !.o = @ + 1] PROVE g.op = "trim"
      BY <2>1, <3>1, Zenon DEF TrimRec
    <3>2. ASSUME NEW g, g = [c EXCEPT !.left = Tail(@), !.o = 0] PROVE g.op = "trim"
      BY <2>1, <3>2, Zenon DEF TrimRec
    <3>3. Idle.op = "idle"
      BY Zenon DEF Idle
    <3> QED
      BY <2>2, <3>1, <3>2, <3>3, Zenon
  <2> QED
    BY <2>2, <2>3, MovesTo, Zenon
<1>9. CASE \E b \in live : FreeCall(t, b)
  <2>1. PICK b \in live : FreeCall(t, b)
    BY <1>9, Zenon
  <2>2. PICK n : n = [op |-> "free", r |-> b.r, a |-> b.a, o |-> b.o]
    BY Zenon
  <2>3. call' = [call EXCEPT ![t] = n] /\ n.op = "free"
    BY <2>1, <2>2, Zenon DEF FreeCall
  <2> QED
    BY <2>3, MovesTo, Zenon
<1>10. CASE \E b \in live : TryGrow(t, b)
  <2>1. call' = call /\ call[t] = Idle
    BY <1>10, Zenon DEF TryGrow
  <2> QED
    BY <1>2, <2>1, Zenon DEF Moves
<1> QED
  BY <1>4, <1>5, <1>6, <1>7, <1>8, <1>9, <1>10, Zenon

\* alloc begins.
LEMMA AllocCallLearns ==
    ASSUME IInv, NEW t \in Thread, NEW k, NEW d, AllocCall(t, k, d)
    PROVE  Learns(t)
<1>1. PICK n : n = [op |-> "head", k |-> k, node |-> d, try |-> 0]
  BY Zenon
<1>2. call' = [call EXCEPT ![t] = n] /\ n.op = "head" /\ n.try = 0
  BY <1>1, Zenon DEF AllocCall
<1>3. n.try \in 0..2
  BY <1>2
<1> QED
  BY <1>2, <1>3, KnowsNothing, MovesTo, Zenon DEF Learns

\* A call that no other disturbs keeps knowing what it has passed.
LEMMA SoloStep == IInv /\ SoloInv /\ [Next]_vars => SoloInv'
<1> SUFFICES ASSUME IInv, SoloInv, [Next]_vars PROVE SoloInv'
  BY Zenon
<1>1. CASE UNCHANGED vars
  BY <1>1, Zenon DEF SoloInv, vars
<1>2. CASE Next
  <2>1. machine' = machine
    BY <1>2, Zenon DEF Next
  <2>2. CASE ~machine.solo
    BY <2>1, <2>2, Zenon DEF SoloInv
  <2>3. CASE machine.solo
    <3>1. PICK t \in Thread :
             /\ \A u \in Thread : u # t => call[u] = Idle
             /\ \/ \E k \in machine.least..MaxOrder, n \in Node : AllocCall(t, k, n)
                \/ Walk(t) \/ Visit(t) \/ TakeHead(t) \/ Split(t) \/ AllocReturn(t)
                \/ AddRegion(t) \/ WalkFailed(t)
                \/ \E b \in live : FreeCall(t, b) \/ TryGrow(t, b)
                \/ Merge(t) \/ FreePush(t) \/ TrimOrder(t)
      BY <1>2, <2>3, Zenon DEF Next
    <3>2. KnowsNow(t)
      BY <2>3, Zenon DEF SoloInv, KnowsNow
    <3>3. Learns(t)
      BY <3>1, <3>2, AllocCallLearns, WalkLearns, VisitLearns, TakeHeadLearns, AddRegionLearns,
         WalkFailedLearns, OtherLearns, ZenonT(30)
    <3>4. PICK n : Moves(t, n) /\ Knows(n, home', regions', reg', machine.nodes)
      BY <3>3, Zenon DEF Learns
    <3>5. ASSUME NEW u \in Thread PROVE Knows(call'[u], home', regions', reg', machine.nodes)
      <4>1. call'[u] = n \/ call'[u] = Idle
        BY <3>1, <3>4, Zenon DEF Moves
      <4> QED
        BY <3>4, <4>1, IdleKnows, Zenon
    <3> QED
      BY <2>1, <3>5, Zenon DEF SoloInv
  <2> QED
    BY <2>2, <2>3, Zenon
<1> QED
  BY <1>1, <1>2, Zenon

\* alloc gives up after its last walk only.
LEMMA GivesUp ==
    ASSUME IInv, NEW t \in Thread, NEW c, c = call[t], c.op = "walk", call'[t] = Idle,
           Walk(t) \/ Visit(t) \/ AddRegion(t) \/ WalkFailed(t)
    PROVE  c.left = <<>> /\ (machine.nodes = 1 \/ c.try >= machine.nodes + 1)
<1>1. c \in WalkRec /\ machine.nodes \in Nat \ {0}
  <2>1. c \in CallRec /\ machine \in Machines
    BY Zenon DEF IInv, Typed
  <2> QED
    BY <2>1, Kinds, ConstAssumption, ZenonT(30)
<1>2. PICK i \in Nat, m \in Nat \ {0} : i = c.try /\ m = machine.nodes
  BY <1>1, Zenon DEF WalkRec
<1>3. Idle.op = "idle" /\ call \in [Thread -> CallRec]
  BY Zenon DEF Idle, IInv, Typed
<1>4. ASSUME NEW j, NextTry(c, j) = Idle PROVE ~(j < IF m > 1 THEN 2 + m ELSE 2)
  <2>1. ~Again(Idle, c, j)
    <3>1. PICK g : g = Idle
      BY Zenon
    <3>2. g.op # "head"
      BY <1>3, <3>1, Zenon
    <3> QED
      BY <3>1, <3>2, Zenon DEF Again
  <2>2. PICK g : g = NextTry(c, j) /\ g = Idle
    BY <1>4, Zenon
  <2>3. ~(j < Attempts)
    <3>1. GoesOn(g, c, j)
      BY <2>2, NextAttempt, Zenon
    <3> QED
      BY <2>1, <2>2, <3>1, Zenon DEF GoesOn
  <2> QED
    BY <1>2, <2>3, Zenon DEF Attempts
<1>5. ~Walk(t)
  BY DEF Walk
<1>6. ~Visit(t)
  <2> SUFFICES ASSUME Visit(t) PROVE FALSE
    BY Zenon
  <2>1. PICK g, h : /\ g = [c EXCEPT !.left = Tail(@)]
                    /\ h = [op |-> "orders", k |-> c.k, node |-> c.node, try |-> c.try, left |-> c.left,
                            seen |-> {o \in reg[Head(c.left)].mask : o >= c.k}]
    BY Zenon
  <2>2. PICK n \in {g, h} : call' = [call EXCEPT ![t] = n]
    BY <2>1, Zenon DEF Visit
  <2>3. g.op = "walk" /\ h.op = "orders"
    BY <1>1, <2>1, Zenon DEF WalkRec
  <2> QED
    BY <1>3, <2>2, <2>3, MovesTo, Zenon DEF Moves
<1>7. CASE AddRegion(t)
  <2>1. PICK j \in {1, 2} : call' = [call EXCEPT ![t] = NextTry(c, j)]
    BY <1>7, Zenon DEF AddRegion
  <2>2. NextTry(c, j) = Idle
    BY <2>1, MovesTo, Zenon DEF Moves
  <2>3. ~(j < IF m > 1 THEN 2 + m ELSE 2)
    BY <1>4, <2>2, Zenon
  <2>4. m = 1
    BY <2>3
  <2> QED
    BY <1>2, <1>7, <2>4, Zenon DEF AddRegion
<1>8. CASE WalkFailed(t)
  <2>1. PICK j \in Nat : j = i + 1
    OBVIOUS
  <2>2. call' = [call EXCEPT ![t] = NextTry(c, j)]
    BY <1>2, <1>8, <2>1, Zenon DEF WalkFailed
  <2>3. NextTry(c, j) = Idle
    BY <2>2, MovesTo, Zenon DEF Moves
  <2>4. ~(j < IF m > 1 THEN 2 + m ELSE 2)
    BY <1>4, <2>3, Zenon
  <2>5. m = 1 \/ i >= m + 1
    BY <2>1, <2>4
  <2> QED
    BY <1>2, <1>8, <2>5, Zenon DEF WalkFailed
<1> QED
  BY <1>5, <1>6, <1>7, <1>8, Zenon

\* A dry region has no free block that is large enough.
LEMMA DryHasNone ==
    ASSUME IInv, NEW r \in Region, NEW k, Dry(reg, r, k), NEW b \in Free(r)
    PROVE  b.o < k
<1>1. PICK o \in Order : \E a \in Range(reg[r].free[o]) : b = [r |-> r, a |-> a, o |-> o]
  BY Zenon DEF Free
<1>2. reg[r].free[o] # <<>>
  <2>1. ASSUME reg[r].free[o] = <<>> PROVE FALSE
    <3>1. PICK l : l = reg[r].free[o] /\ l = <<>> /\ Range(l) # {}
      BY <1>1, <2>1, Zenon
    <3>2. DOMAIN l = {}
      BY <3>1
    <3> QED
      BY <3>1, <3>2, Zenon DEF Range
  <2> QED
    BY <2>1, Zenon
<1>3. o \in reg[r].mask
  BY <1>2, Zenon DEF IInv, InSync
<1>4. b.o = o
  <2>1. ASSUME NEW g, NEW a, g = [r |-> r, a |-> a, o |-> o] PROVE g.o = o
    BY <2>1, Zenon
  <2> QED
    BY <1>1, <2>1, Zenon
<1> QED
  BY <1>3, <1>4, Zenon DEF Dry

\* Undisturbed by other calls, alloc returns None only when no region of any
\* node has a free block large enough, for any number of nodes, regions and
\* orders: its last attempts leave no node out, and a region that it passed
\* stays without one.
THEOREM NoneMeansNoneAlways == Spec => NoneMeansNone
<1>1. Init => SoloInv
  <2>1. Init => \A t \in Thread : call[t] = Idle
    BY Zenon DEF Init
  <2> QED
    BY <2>1, IdleKnows, Zenon DEF SoloInv
<1>2. IInv /\ SoloInv /\ [Next]_vars =>
        [machine.solo => \A t \in Thread :
           call[t].op = "walk" /\ call'[t] = Idle =>
               \A r \in Region : \A b \in Free(r) : b.o < call[t].k]_vars
  <2> SUFFICES ASSUME IInv, SoloInv, Next, machine.solo, NEW t \in Thread, call[t].op = "walk", call'[t] = Idle,
                      NEW r \in Region, NEW b \in Free(r)
               PROVE  b.o < call[t].k
    BY Zenon
  <2>1. PICK c : c = call[t]
    BY Zenon
  <2>2. Walk(t) \/ Visit(t) \/ AddRegion(t) \/ WalkFailed(t)
    <3>1. call[t] # Idle
      BY Kinds, Zenon DEF IInv, Typed
    <3> QED
      BY <3>1, Zenon DEF Next, AllocCall, TakeHead, Split, AllocReturn, FreeCall, TryGrow, Merge, FreePush,
                         TrimCall, TrimOrder
  <2>3. c.left = <<>> /\ (machine.nodes = 1 \/ c.try >= machine.nodes + 1)
    BY <2>1, <2>2, GivesUp, Zenon
  <2>4. c \in WalkRec /\ machine.nodes \in Nat \ {0} /\ home[r] \in 0..(machine.nodes - 1)
    <3>1. c \in CallRec /\ machine \in Machines /\ home \in [Region -> Node]
      BY <2>1, Zenon DEF IInv, Typed
    <3> QED
      BY <2>1, <3>1, Kinds, ConstAssumption, ZenonT(30) DEF Node
  <2>5. c.try \in Nat /\ c.node \in 0..(machine.nodes - 1)
    BY <2>4, Zenon DEF WalkRec, Node
  <2>6. Passed(c, r, home, machine.nodes)
    BY <2>1, <2>3, <2>4, <2>5, PassedAll, ZenonT(30)
  <2>7. r \in Range(regions)
    <3>1. Free(r) # {}
      BY Zenon
    <3>2. Placed(r) # {}
      BY <3>1, NoBlocks, Zenon
    <3> QED
      BY <3>2, Zenon DEF IInv, Tiled
  <2>8. Dry(reg, r, c.k)
    BY <2>1, <2>6, <2>7, Zenon DEF SoloInv, Knows
  <2> QED
    BY <2>1, <2>8, DryHasNone, Zenon
<1> QED
  BY <1>1, <1>2, SoloStep, Invariance, PTL DEF Spec, NoneMeansNone

==============================================================================
