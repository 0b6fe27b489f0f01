--------------------------- MODULE BulkFillProofs ---------------------------
(***************************************************************************)
(* IInv is an inductive invariant of BulkFill: for any threads, spans and  *)
(* nodes, any span and batch size, with and without NUMA.                  *)
(***************************************************************************)
EXTENDS BulkFill, FiniteSetTheorems, TLAPS

-----------------------------------------------------------------------------
(* The helpers.                                                            *)

\* The smaller of two numbers, as init_blocks takes it.
LEMMA MinPair ==
    ASSUME NEW a \in Nat, NEW b \in Nat
    PROVE  Min({a, b}) = IF a <= b THEN a ELSE b
<1>1. \E x \in {a, b} : \A y \in {a, b} : x <= y
  OBVIOUS
<1>2. Min({a, b}) \in {a, b} /\ \A y \in {a, b} : Min({a, b}) <= y
  BY <1>1, Zenon DEF Min
<1> QED
  BY <1>2

\* Slots are nodes.
LEMMA SlotNode == \A n \in Node : Slot(n) \in Node
BY ConstAssumption DEF Slot, Node

\* init_blocks stays inside the span and touches no other one; blocks are left
\* just if the batch was smaller than what remained.
LEMMA Carved ==
    ASSUME TypeOK, NEW s \in Span, NEW m \in 1..MaxBatch, InitBlocks(s, m)
    PROVE  /\ next' \in [Span -> 0..Cap]
           /\ \A x \in Span \ {s} : next'[x] = next[x]
           /\ remaining_blocks(s) > m => remaining_blocks(s)' > 0
<1>1. m \in Nat /\ Cap \in Nat /\ next[s] \in 0..Cap /\ next \in [Span -> 0..Cap]
  BY ConstAssumption DEF TypeOK
<1>2. remaining_blocks(s) \in Nat /\ remaining_blocks(s) = Cap - next[s]
  BY <1>1 DEF remaining_blocks
<1>3. PICK k : k = Min({remaining_blocks(s), m})
  OBVIOUS
<1>4. k = IF remaining_blocks(s) <= m THEN remaining_blocks(s) ELSE m
  BY <1>1, <1>2, <1>3, MinPair, Zenon
<1>5. next' = [next EXCEPT ![s] = next[s] + k]
  BY <1>3 DEF InitBlocks
<1>6. next[s] + k \in 0..Cap /\ (remaining_blocks(s) > m => Cap - (next[s] + k) > 0)
  BY <1>1, <1>2, <1>4
<1>7. next'[s] = next[s] + k
  BY <1>1, <1>5
<1> QED
  BY <1>1, <1>5, <1>6, <1>7 DEF remaining_blocks

\* Registration of the destructor keeps the types of the thread-local state.
LEMMA TouchType ==
    ASSUME TypeOK, NEW t \in Thread, TouchTls(t)
    PROVE  tls' \in [Thread -> [init : BOOLEAN, hook : BOOLEAN]]
<1>1. CASE tls[t].init
  BY <1>1 DEF TouchTls, TypeOK
<1>2. CASE ~tls[t].init
  <2>1. PICK ok \in BOOLEAN : tls' = [tls EXCEPT ![t] = [init |-> ok, hook |-> tls[t].hook \/ ok]]
    BY <1>2 DEF TouchTls
  <2>2. tls[t].hook \/ ok \in BOOLEAN
    OBVIOUS
  <2> QED
    BY <2>1, <2>2 DEF TypeOK
<1> QED
  BY <1>1, <1>2
-----------------------------------------------------------------------------
(* Fills.                                                                  *)

\* bulk_fill once it has a span s that waits nowhere else: it carves a batch
\* and the thread keeps what is left.
LEMMA FillStep ==
    ASSUME IInv, NEW t \in Thread, NEW s \in Span, NEW m \in 1..MaxBatch,
           InitBlocks(s, m), Stash(t, s, m),
           s \in mapped', mapped \subseteq mapped', mapped' \subseteq Span,
           home' \in [Span -> Node], \A x \in mapped : home'[x] = home[x],
           queue' \in [Node -> Seq(Span)], QueueApart(queue'),
           \A n \in Node : \A i \in DOMAIN queue'[n] :
               /\ \E j \in DOMAIN queue[n] : queue'[n][i] = queue[n][j]
               /\ queue'[n][i] # s,
           \A u \in Thread \ {t} : free[u] # s,
           UNCHANGED <<ready, status>>,
           miss' \in [Thread -> Node \cup {None}],
           tls' \in [Thread -> [init : BOOLEAN, hook : BOOLEAN]]
    PROVE  IInv'
<1>1. TypeOK /\ Apart /\ None \notin Span
  BY ConstAssumption DEF IInv
<1>2. /\ next' \in [Span -> 0..Cap]
      /\ \A x \in Span \ {s} : next'[x] = next[x]
      /\ remaining_blocks(s) > m => remaining_blocks(s)' > 0
  BY <1>1, Carved, Zenon
<1>3. /\ free'[t] = IF remaining_blocks(s) > m THEN s ELSE None
      /\ \A u \in Thread \ {t} : free'[u] = free[u]
      /\ free' \in [Thread -> Span \cup {None}]
  BY <1>1 DEF Stash, TypeOK
<1>4. TypeOK'
  BY <1>1, <1>2, <1>3 DEF TypeOK
<1>5. Apart'
  <2>1. ASSUME NEW u \in Thread, NEW v \in Thread, free'[u] = free'[v], free'[u] # None
        PROVE  u = v
    <3>1. CASE u # t /\ v # t
      <4>1. free[u] = free[v] /\ free[u] # None
        BY <1>3, <2>1, <3>1
      <4> QED
        BY <1>1, <4>1 DEF Apart, HeldApart
    <3>2. CASE u = t /\ v # t
      BY <1>3, <2>1, <3>2
    <3>3. CASE u # t /\ v = t
      BY <1>3, <2>1, <3>3
    <3> QED
      BY <3>1, <3>2, <3>3
  <2>2. ASSUME NEW u \in Thread, NEW n \in Node, NEW i \in DOMAIN queue'[n]
        PROVE  queue'[n][i] # free'[u]
    <3>1. PICK j \in DOMAIN queue[n] : queue'[n][i] = queue[n][j]
      OBVIOUS
    <3>2. queue[n][j] \in Span
      BY <1>1 DEF TypeOK
    <3>3. CASE u = t
      BY <1>1, <1>3, <3>1, <3>2, <3>3
    <3>4. CASE u # t
      <4>1. queue[n][j] # free[u]
        BY <1>1, Zenon DEF Apart, HeldOrQueued
      <4> QED
        BY <1>3, <3>1, <3>4, <4>1
    <3> QED
      BY <3>3, <3>4
  <2> QED
    BY <2>1, <2>2 DEF Apart, HeldApart, HeldOrQueued
<1>6. ASSUME NEW x \in Span \ {s}, Pending(x) PROVE Pending(x)'
  BY <1>2, <1>6 DEF Pending, remaining_blocks
<1>7. ASSUME NEW u \in Thread, free'[u] # None PROVE Pending(free[u])'
  <2>1. CASE u = t
    BY <1>2, <1>3, <1>7, <2>1 DEF Pending
  <2>2. CASE u # t
    <3>1. free[u] # None /\ free[u] \in Span \ {s} /\ Pending(free[u])
      BY <1>1, <1>3, <1>7, <2>2 DEF IInv, TypeOK
    <3> QED
      BY <1>3, <1>6, <2>2, <3>1 DEF Pending, remaining_blocks
  <2> QED
    BY <2>1, <2>2
<1>8. ASSUME NEW n \in Node, NEW i \in DOMAIN queue'[n]
      PROVE  Pending(queue[n][i])' /\ (IsNuma => home'[queue'[n][i]] = n)
  <2>1. PICK j \in DOMAIN queue[n] : queue'[n][i] = queue[n][j]
    OBVIOUS
  <2>2. PICK x : x = queue[n][j]
    OBVIOUS
  <2>3. x \in Span \ {s} /\ Pending(x) /\ (IsNuma => home[x] = n)
    BY <1>1, <2>1, <2>2 DEF IInv, TypeOK
  <2>4. Pending(x)' /\ home'[x] = home[x]
    BY <1>6, <2>3 DEF Pending
  <2> QED
    BY <2>1, <2>2, <2>3, <2>4 DEF Pending, remaining_blocks
<1> QED
  BY <1>4, <1>5, <1>7, <1>8 DEF IInv

\* bulk_fill from the thread's own span.
LEMMA FillOwnInv ==
    ASSUME IInv, NEW t \in Thread, NEW m \in 1..MaxBatch, FillOwn(t, m)
    PROVE  IInv'
<1>1. TypeOK /\ Apart
  BY DEF IInv
<1>2. PICK s : s = free[t]
  OBVIOUS
<1>3. /\ s \in Span /\ s \in mapped
      /\ InitBlocks(s, m) /\ Stash(t, s, m)
      /\ UNCHANGED <<ready, queue, status, miss, mapped, home>>
  BY <1>1, <1>2 DEF FillOwn, IInv, TypeOK, Pending
<1>4. \A u \in Thread \ {t} : free[u] # s
  BY <1>1, <1>2 DEF FillOwn, Apart, HeldApart
<1>5. \A n \in Node : \A i \in DOMAIN queue[n] : queue[n][i] # s
  BY <1>1, <1>2, Zenon DEF Apart, HeldOrQueued
<1>6. /\ QueueApart(queue') /\ queue' \in [Node -> Seq(Span)] /\ mapped' \subseteq Span
      /\ home' \in [Span -> Node] /\ miss' \in [Thread -> Node \cup {None}]
  BY <1>1, <1>3 DEF Apart, TypeOK
<1>7. tls' \in [Thread -> [init : BOOLEAN, hook : BOOLEAN]]
  BY <1>1, TouchType DEF FillOwn
<1> QED
  BY <1>3, <1>4, <1>5, <1>6, <1>7, FillStep

\* Popping a queue leaves the other spans where they were, once each.
LEMMA Popped ==
    ASSUME IInv, NEW t \in Thread, NEW n \in Node, PopQueue(t, n)
    PROVE  /\ Head(queue[Slot(n)]) \in Span
           /\ queue' \in [Node -> Seq(Span)] /\ QueueApart(queue')
           /\ \A k \in Node : \A i \in DOMAIN queue'[k] :
                 /\ \E j \in DOMAIN queue[k] : queue'[k][i] = queue[k][j]
                 /\ queue'[k][i] # Head(queue[Slot(n)])
           /\ Head(queue[Slot(n)]) \in mapped
           /\ \A u \in Thread : free[u] # Head(queue[Slot(n)])
<1>1. TypeOK /\ Apart /\ Slot(n) \in Node
  BY SlotNode DEF IInv
<1>2. PICK c : c = Slot(n)
  OBVIOUS
<1>3. PICK q : q = queue[c]
  OBVIOUS
<1>4. c \in Node /\ q \in Seq(Span) /\ q # <<>> /\ queue' = [queue EXCEPT ![c] = Tail(q)]
  BY <1>1, <1>2, <1>3 DEF PopQueue, TypeOK
<1>5. /\ Head(q) = q[1] /\ q[1] \in Span /\ 1 \in DOMAIN q
      /\ Tail(q) \in Seq(Span)
      /\ \A i \in DOMAIN Tail(q) : i \in Nat /\ i > 0 /\ i + 1 \in DOMAIN q /\ Tail(q)[i] = q[i + 1]
  BY <1>4
<1>6. queue' \in [Node -> Seq(Span)]
  BY <1>1, <1>4, <1>5 DEF TypeOK
<1>7. queue'[c] = Tail(q) /\ \A k \in Node \ {c} : queue'[k] = queue[k]
  BY <1>1, <1>4 DEF TypeOK
\* Where the span at a place came from.
<1> DEFINE Old(k, i) == IF k = c THEN i + 1 ELSE i
<1>8. ASSUME NEW k \in Node, NEW i \in DOMAIN queue'[k]
      PROVE  /\ i \in Nat /\ Old(k, i) \in DOMAIN queue[k] /\ queue'[k][i] = queue[k][Old(k, i)]
             /\ k = c => Old(k, i) # 1
  <2>1. CASE k = c
    <3>1. i \in DOMAIN Tail(q) /\ queue'[k] = Tail(q) /\ queue[k] = q
      BY <1>3, <1>7, <2>1
    <3>2. i \in Nat /\ i > 0 /\ i + 1 \in DOMAIN q /\ Tail(q)[i] = q[i + 1]
      BY <1>5, <3>1
    <3> QED
      BY <2>1, <3>1, <3>2
  <2>2. CASE k # c
    <3>1. queue'[k] = queue[k] /\ queue[k] \in Seq(Span)
      BY <1>1, <1>7, <2>2 DEF TypeOK
    <3> QED
      BY <2>2, <3>1
  <2> QED
    BY <2>1, <2>2
<1>9. QueueApart(queue')
  <2> SUFFICES ASSUME NEW k \in Node, NEW l \in Node,
                      NEW i \in DOMAIN queue'[k], NEW j \in DOMAIN queue'[l],
                      queue'[k][i] = queue'[l][j]
               PROVE  k = l /\ i = j
    BY DEF QueueApart
  <2>1. Old(k, i) \in DOMAIN queue[k] /\ Old(l, j) \in DOMAIN queue[l]
        /\ queue[k][Old(k, i)] = queue[l][Old(l, j)] /\ i \in Nat /\ j \in Nat
    BY <1>8
  <2>2. PICK a : a = Old(k, i)
    OBVIOUS
  <2>3. PICK b : b = Old(l, j)
    OBVIOUS
  <2>4. a \in DOMAIN queue[k] /\ b \in DOMAIN queue[l] /\ queue[k][a] = queue[l][b]
    BY <2>1, <2>2, <2>3
  <2>5. k = l /\ a = b
    BY <1>1, <2>4 DEF Apart, QueueApart
  <2> QED
    BY <2>1, <2>2, <2>3, <2>5
<1>10. ASSUME NEW k \in Node, NEW i \in DOMAIN queue'[k]
       PROVE  /\ \E j \in DOMAIN queue[k] : queue'[k][i] = queue[k][j]
              /\ queue'[k][i] # Head(q)
  <2>1. Old(k, i) \in DOMAIN queue[k] /\ queue'[k][i] = queue[k][Old(k, i)]
        /\ (k = c => Old(k, i) # 1)
    BY <1>8
  <2>2. queue[k][Old(k, i)] = queue[c][1] => k = c /\ Old(k, i) = 1
    <3>1. PICK a : a = Old(k, i)
      OBVIOUS
    <3>2. a \in DOMAIN queue[k] /\ c \in Node /\ 1 \in DOMAIN queue[c]
      BY <1>3, <1>4, <1>5, <2>1, <3>1
    <3>3. queue[k][a] = queue[c][1] => k = c /\ a = 1
      BY <1>1, <3>2 DEF Apart, QueueApart
    <3> QED
      BY <3>1, <3>3
  <2>3. queue'[k][i] # Head(q)
    BY <1>3, <1>5, <2>1, <2>2
  <2> QED
    BY <2>1, <2>3, Zenon
<1>11. q[1] \in mapped /\ \A u \in Thread : free[u] # q[1]
  BY <1>1, <1>3, <1>4, <1>5 DEF IInv, Apart, HeldOrQueued, Pending
<1> QED
  BY <1>2, <1>3, <1>5, <1>6, <1>9, <1>10, <1>11

\* bulk_fill from a span that another thread left behind.
LEMMA FillQueuedInv ==
    ASSUME IInv, NEW t \in Thread, NEW n \in Node, NEW m \in 1..MaxBatch, FillQueued(t, n, m)
    PROVE  IInv'
<1>1. TypeOK /\ PopQueue(t, n)
  BY DEF IInv, FillQueued
<1>2. PICK s : s = Head(queue[Slot(n)])
  OBVIOUS
<1>3. /\ s \in Span /\ s \in mapped /\ \A u \in Thread : free[u] # s
      /\ queue' \in [Node -> Seq(Span)] /\ QueueApart(queue')
      /\ \A k \in Node : \A i \in DOMAIN queue'[k] :
            (\E j \in DOMAIN queue[k] : queue'[k][i] = queue[k][j]) /\ queue'[k][i] # s
  BY <1>1, <1>2, Popped
<1>4. InitBlocks(s, m) /\ Stash(t, s, m) /\ UNCHANGED <<ready, status, miss, mapped, home>>
  BY <1>2 DEF FillQueued
<1>5. mapped' \subseteq Span /\ home' \in [Span -> Node] /\ miss' \in [Thread -> Node \cup {None}]
  BY <1>1, <1>4 DEF TypeOK
<1>6. tls' \in [Thread -> [init : BOOLEAN, hook : BOOLEAN]]
  BY <1>1, TouchType DEF FillQueued
<1> QED
  BY <1>3, <1>4, <1>5, <1>6, FillStep

\* bulk_fill from a new span of the page backend.
LEMMA FillMappedInv ==
    ASSUME IInv, NEW t \in Thread, NEW m \in 1..MaxBatch, FillMapped(t, m)
    PROVE  IInv'
<1>1. TypeOK /\ Apart /\ None \notin Span
  BY ConstAssumption DEF IInv
<1>2. PICK s \in Span \ mapped :
          /\ mapped' = mapped \cup {s} /\ home' = [home EXCEPT ![s] = miss[t]]
          /\ InitBlocks(s, m) /\ Stash(t, s, m)
  BY DEF FillMapped
<1>3. UNCHANGED <<ready, queue, tls, status>> /\ miss[t] \in Node /\ miss' = [miss EXCEPT ![t] = None]
  BY <1>1 DEF FillMapped, TypeOK
<1>4. /\ mapped \subseteq mapped' /\ s \in mapped'
      /\ mapped' \subseteq Span /\ home' \in [Span -> Node] /\ \A x \in mapped : home'[x] = home[x]
      /\ miss' \in [Thread -> Node \cup {None}]
      /\ queue' \in [Node -> Seq(Span)]
      /\ tls' \in [Thread -> [init : BOOLEAN, hook : BOOLEAN]]
  BY <1>1, <1>2, <1>3 DEF TypeOK
<1>5. \A u \in Thread : free[u] # s
  BY <1>1, <1>2 DEF IInv, Pending
<1>6. \A n \in Node : \A i \in DOMAIN queue'[n] :
          (\E j \in DOMAIN queue[n] : queue'[n][i] = queue[n][j]) /\ queue'[n][i] # s
  BY <1>2, <1>3 DEF IInv, Pending
<1>7. QueueApart(queue')
  BY <1>1, <1>3 DEF Apart
<1> QED
  BY <1>2, <1>3, <1>4, <1>5, <1>6, <1>7, FillStep

-----------------------------------------------------------------------------
(* Steps that carve nothing.                                               *)

\* A miss, a failed fill and the end of a thread leave the spans alone.
LEMMA IdleStep ==
    ASSUME IInv, UNCHANGED <<ready, queue, free, mapped, home, next>>,
           status' \in [Thread -> {"run", "drained", "dead"}],
           miss' \in [Thread -> Node \cup {None}],
           tls' \in [Thread -> [init : BOOLEAN, hook : BOOLEAN]]
    PROVE  IInv'
<1>1. TypeOK'
  BY DEF IInv, TypeOK
<1>2. Apart'
  <2>1. HeldApart'
    BY DEF IInv, Apart, HeldApart
  <2>2. QueueApart(queue')
    BY DEF IInv, Apart
  <2>3. HeldOrQueued'
    BY DEF IInv, Apart, HeldOrQueued
  <2> QED
    BY <2>1, <2>2, <2>3 DEF Apart
<1>3. \A t \in Thread : free'[t] # None => Pending(free[t])'
  BY DEF IInv, Pending, remaining_blocks
<1>4. \A n \in Node : \A i \in DOMAIN queue'[n] :
         Pending(queue[n][i])' /\ (IsNuma => home'[queue'[n][i]] = n)
  BY DEF IInv, Pending, remaining_blocks
<1> QED
  BY <1>1, <1>2, <1>3, <1>4 DEF IInv

\* ThreadQueue::insert of a span s that no other thread holds.
LEMMA Inserted ==
    ASSUME IInv, NEW s \in Span, NEW n \in Node, Insert(s, n),
           \A k \in Node : \A i \in DOMAIN queue[k] : queue[k][i] # s
    PROVE  /\ queue' \in [Node -> Seq(Span)] /\ QueueApart(queue')
           /\ \A k \in Node : \A i \in DOMAIN queue'[k] :
                 \/ \E j \in DOMAIN queue[k] : queue'[k][i] = queue[k][j]
                 \/ queue'[k][i] = s /\ k = Slot(home[s])
<1>1. TypeOK /\ Apart
  BY DEF IInv
<1>2. CASE ~ready
  <2>1. queue' = queue
    BY <1>2 DEF Insert
  <2> QED
    BY <1>1, <2>1 DEF Apart, TypeOK
<1>3. CASE ready
  <2>1. PICK c : c = Slot(home[s])
    OBVIOUS
  <2>2. PICK q : q = queue[c]
    OBVIOUS
  <2>3. c \in Node /\ q \in Seq(Span) /\ queue' = [queue EXCEPT ![c] = <<s>> \o q]
    BY <1>1, <1>3, <2>1, <2>2, SlotNode DEF Insert, TypeOK
  <2>4. /\ <<s>> \o q \in Seq(Span)
        /\ \A i \in DOMAIN (<<s>> \o q) :
              /\ i \in Nat
              /\ i = 1 => (<<s>> \o q)[i] = s
              /\ i # 1 => i - 1 \in DOMAIN q /\ (<<s>> \o q)[i] = q[i - 1]
    BY <2>3
  <2>5. queue' \in [Node -> Seq(Span)]
    BY <1>1, <2>3, <2>4 DEF TypeOK
  <2>6. queue'[c] = <<s>> \o q /\ \A k \in Node \ {c} : queue'[k] = queue[k]
    BY <1>1, <2>3 DEF TypeOK
  <2> DEFINE Old(k, i) == IF k = c THEN i - 1 ELSE i
  <2>7. ASSUME NEW k \in Node, NEW i \in DOMAIN queue'[k]
        PROVE  /\ i \in Nat
               /\ k = c /\ i = 1 => queue'[k][i] = s
               /\ ~(k = c /\ i = 1) =>
                     Old(k, i) \in DOMAIN queue[k] /\ queue'[k][i] = queue[k][Old(k, i)]
    <3>1. CASE k = c
      <4>1. i \in DOMAIN (<<s>> \o q) /\ queue'[k] = <<s>> \o q /\ queue[k] = q
        BY <2>2, <2>6, <3>1
      <4>2. /\ i \in Nat
            /\ i = 1 => (<<s>> \o q)[i] = s
            /\ i # 1 => i - 1 \in DOMAIN q /\ (<<s>> \o q)[i] = q[i - 1]
        BY <2>4, <4>1
      <4> QED
        BY <3>1, <4>1, <4>2
    <3>2. CASE k # c
      <4>1. queue'[k] = queue[k] /\ queue[k] \in Seq(Span)
        BY <1>1, <2>6, <3>2 DEF TypeOK
      <4> QED
        BY <3>2, <4>1
    <3> QED
      BY <3>1, <3>2
  <2>8. QueueApart(queue')
    <3> SUFFICES ASSUME NEW k \in Node, NEW l \in Node,
                        NEW i \in DOMAIN queue'[k], NEW j \in DOMAIN queue'[l],
                        queue'[k][i] = queue'[l][j]
                 PROVE  k = l /\ i = j
      BY DEF QueueApart
    <3>1. PICK a : a = Old(k, i)
      OBVIOUS
    <3>2. PICK b : b = Old(l, j)
      OBVIOUS
    <3>3. /\ i \in Nat /\ j \in Nat
          /\ k = c /\ i = 1 => queue'[k][i] = s
          /\ ~(k = c /\ i = 1) => a \in DOMAIN queue[k] /\ queue'[k][i] = queue[k][a]
          /\ l = c /\ j = 1 => queue'[l][j] = s
          /\ ~(l = c /\ j = 1) => b \in DOMAIN queue[l] /\ queue'[l][j] = queue[l][b]
      BY <2>7, <3>1, <3>2
    <3>4. CASE (k = c /\ i = 1) \/ (l = c /\ j = 1)
      BY <3>3, <3>4
    <3>5. CASE ~(k = c /\ i = 1) /\ ~(l = c /\ j = 1)
      <4>1. k = l /\ a = b
        BY <1>1, <3>3, <3>5 DEF Apart, QueueApart
      <4> QED
        BY <3>1, <3>2, <3>3, <4>1
    <3> QED
      BY <3>4, <3>5
  <2>9. ASSUME NEW k \in Node, NEW i \in DOMAIN queue'[k]
        PROVE  \/ \E j \in DOMAIN queue[k] : queue'[k][i] = queue[k][j]
               \/ queue'[k][i] = s /\ k = c
    BY <2>7
  <2> QED
    BY <2>1, <2>5, <2>8, <2>9
<1> QED
  BY <1>2, <1>3

\* cleanup_thread_bulk.
LEMMA DrainInv ==
    ASSUME IInv, NEW t \in Thread, NEW n \in Node, Drain(t, n)
    PROVE  IInv'
<1>1. TypeOK /\ Apart /\ None \notin Span
  BY ConstAssumption DEF IInv
<1>2. /\ UNCHANGED <<ready, tls, miss, mapped, home, next>>
      /\ status' \in [Thread -> {"run", "drained", "dead"}]
      /\ free' \in [Thread -> Span \cup {None}]
      /\ free'[t] = None /\ \A u \in Thread \ {t} : free'[u] = free[u]
  BY <1>1 DEF Drain, TypeOK
<1>3. /\ queue' \in [Node -> Seq(Span)] /\ QueueApart(queue')
      /\ \A k \in Node : \A i \in DOMAIN queue'[k] :
            \/ \E j \in DOMAIN queue[k] : queue'[k][i] = queue[k][j]
            \/ free[t] # None /\ queue'[k][i] = free[t] /\ k = Slot(home[free[t]])
  <2>1. CASE free[t] = None
    <3>1. queue' = queue
      BY <2>1 DEF Drain
    <3> QED
      BY <1>1, <3>1 DEF Apart, TypeOK
  <2>2. CASE free[t] # None
    <3>1. Insert(free[t], n) /\ free[t] \in Span
      BY <1>1, <2>2 DEF Drain, TypeOK
    <3>2. \A k \in Node : \A i \in DOMAIN queue[k] : queue[k][i] # free[t]
      BY <1>1, Zenon DEF Apart, HeldOrQueued
    <3> QED
      BY <2>2, <3>1, <3>2, Inserted
  <2> QED
    BY <2>1, <2>2
<1>4. TypeOK'
  BY <1>1, <1>2, <1>3 DEF TypeOK
<1>5. HeldApart'
  BY <1>1, <1>2 DEF Apart, HeldApart
<1>6. ASSUME NEW k \in Node, NEW i \in DOMAIN queue'[k]
      PROVE  /\ \A u \in Thread : queue'[k][i] # free'[u]
             /\ Pending(queue'[k][i]) /\ (IsNuma => home[queue'[k][i]] = k)
  <2>1. PICK x : x = queue'[k][i]
    OBVIOUS
  <2>2. x \in Span
    BY <1>3, <2>1
  <2>3. CASE \E j \in DOMAIN queue[k] : x = queue[k][j]
    <3>1. PICK j \in DOMAIN queue[k] : x = queue[k][j]
      BY <2>3
    <3>2. Pending(x) /\ (IsNuma => home[x] = k)
      BY <3>1 DEF IInv
    <3>3. \A u \in Thread : x # free[u]
      BY <1>1, <3>1 DEF Apart, HeldOrQueued
    <3> QED
      BY <1>1, <1>2, <2>1, <2>2, <3>2, <3>3
  <2>4. CASE free[t] # None /\ x = free[t] /\ k = Slot(home[x])
    <3>1. Pending(x)
      BY <2>4 DEF IInv
    <3>2. \A u \in Thread \ {t} : x # free[u]
      BY <1>1, <2>4 DEF Apart, HeldApart
    <3> QED
      BY <1>1, <1>2, <2>1, <2>2, <2>4, <3>1, <3>2 DEF Slot
  <2> QED
    BY <1>3, <2>1, <2>3, <2>4
<1>7. HeldOrQueued'
  BY <1>6 DEF HeldOrQueued
<1>8. ASSUME NEW u \in Thread, free'[u] # None PROVE Pending(free'[u])
  BY <1>2, <1>8 DEF IInv
<1>9. \A x : Pending(x) => (x \in mapped' /\ Cap - next'[x] > 0)
  BY <1>2 DEF Pending, remaining_blocks
<1> QED
  BY <1>2, <1>3, <1>4, <1>5, <1>6, <1>7, <1>8, <1>9 DEF IInv, Apart, Pending, remaining_blocks

-----------------------------------------------------------------------------
(* The theorems.                                                           *)

\* At start-up nothing is mapped and nothing waits.
LEMMA InitIInv == Init => IInv
<1> SUFFICES ASSUME Init PROVE IInv
  OBVIOUS
<1>1. 0 \in Node /\ 0 \in 0..Cap
  BY ConstAssumption DEF Node
<1>2. TypeOK
  BY <1>1 DEF Init, TypeOK
<1>3. \A n \in Node : DOMAIN queue[n] = {}
  BY DEF Init
<1>4. \A t \in Thread : free[t] = None
  BY DEF Init
<1> QED
  BY <1>2, <1>3, <1>4 DEF IInv, Apart, HeldApart, QueueApart, HeldOrQueued

\* Fills, misses, drains and deaths keep the invariant.
LEMMA IInvStep == IInv /\ [Next]_vars => IInv'
<1> SUFFICES ASSUME IInv, [Next]_vars PROVE IInv'
  OBVIOUS
<1>1. TypeOK
  BY DEF IInv
<1>2. CASE UNCHANGED vars
  BY <1>1, <1>2, IdleStep DEF vars, TypeOK
<1>3. ASSUME NEW t \in Thread, NEW m \in 1..MaxBatch, FillOwn(t, m) PROVE IInv'
  BY <1>3, FillOwnInv
<1>4. ASSUME NEW t \in Thread, NEW m \in 1..MaxBatch, FillMapped(t, m) PROVE IInv'
  BY <1>4, FillMappedInv
<1>5. ASSUME NEW t \in Thread, NEW m \in 1..MaxBatch, NEW n \in Node, FillQueued(t, n, m) PROVE IInv'
  BY <1>5, FillQueuedInv
<1>6. ASSUME NEW t \in Thread, NEW n \in Node, FillMiss(t, n) PROVE IInv'
  <2>1. UNCHANGED <<ready, queue, free, status, mapped, home, next>> /\ miss' = [miss EXCEPT ![t] = n]
    BY <1>6 DEF FillMiss
  <2>2. tls' \in [Thread -> [init : BOOLEAN, hook : BOOLEAN]]
    BY <1>1, <1>6, TouchType DEF FillMiss
  <2>3. miss' \in [Thread -> Node \cup {None}] /\ status' \in [Thread -> {"run", "drained", "dead"}]
    BY <1>1, <2>1 DEF TypeOK
  <2> QED
    BY <2>1, <2>2, <2>3, IdleStep
<1>7. ASSUME NEW t \in Thread, NEW n \in Node, Drain(t, n) PROVE IInv'
  BY <1>7, DrainInv
<1>8. ASSUME NEW t \in Thread, FillFails(t) PROVE IInv'
  <2>1. UNCHANGED <<ready, queue, free, mapped, home, next>>
    BY <1>8 DEF FillFails
  <2>2. /\ miss' \in [Thread -> Node \cup {None}] /\ status' \in [Thread -> {"run", "drained", "dead"}]
        /\ tls' \in [Thread -> [init : BOOLEAN, hook : BOOLEAN]]
    BY <1>1, <1>8 DEF FillFails, TypeOK
  <2> QED
    BY <2>1, <2>2, IdleStep
<1>9. ASSUME NEW t \in Thread, Die(t) PROVE IInv'
  <2>1. UNCHANGED <<ready, queue, free, mapped, home, next>>
    BY <1>9 DEF Die
  <2>2. /\ miss' \in [Thread -> Node \cup {None}] /\ status' \in [Thread -> {"run", "drained", "dead"}]
        /\ tls' \in [Thread -> [init : BOOLEAN, hook : BOOLEAN]]
    BY <1>1, <1>9 DEF Die, TypeOK
  <2> QED
    BY <2>1, <2>2, IdleStep
<1> QED
  BY <1>2, <1>3, <1>4, <1>5, <1>6, <1>7, <1>8, <1>9 DEF Next

\* IInv holds in every reachable state.
THEOREM Invariance == Spec => []IInv
<1> QED
  BY InitIInv, IInvStep, PTL DEF Spec

\* A set without two different members has at most one.
LEMMA AtMostOne ==
    ASSUME NEW S, \A x, y \in S : x = y
    PROVE  S = {} \/ Cardinality(S) = 1
<1>1. CASE S # {}
  <2>1. PICK x : x \in S
    BY <1>1
  <2>2. S = {x}
    BY <2>1
  <2> QED
    BY <2>2, FS_Singleton
<1> QED
  BY <1>1

\* One place for each span, on the right node.
LEMMA ImpliesSpanOnce == IInv => SpanOnce
<1> SUFFICES ASSUME IInv PROVE SpanOnce
  OBVIOUS
<1>1. TypeOK /\ HeldApart /\ QueueApart(queue) /\ HeldOrQueued /\ None \notin Span
  BY ConstAssumption DEF IInv, Apart
<1>2. ASSUME NEW s \in Span
      PROVE  Cardinality({t \in Thread : free[t] = s})
             + Cardinality({p \in Node \X (1..Cardinality(Span)) :
                   p[2] \in DOMAIN queue[p[1]] /\ queue[p[1]][p[2]] = s}) <= 1
  <2>1. PICK H : H = {t \in Thread : free[t] = s}
    OBVIOUS
  <2>2. PICK Q : Q = {p \in Node \X (1..Cardinality(Span)) :
                         p[2] \in DOMAIN queue[p[1]] /\ queue[p[1]][p[2]] = s}
    OBVIOUS
  <2>3. H = {} \/ Cardinality(H) = 1
    <3>1. \A t, u \in H : t = u
      BY <1>1, <2>1 DEF HeldApart
    <3> QED
      BY <3>1, AtMostOne
  <2>4. Q = {} \/ Cardinality(Q) = 1
    <3>1. ASSUME NEW p \in Q, NEW r \in Q PROVE p = r
      <4>1. ASSUME NEW x \in Q
            PROVE  \E n \in Node, i \in 1..Cardinality(Span) :
                      x = <<n, i>> /\ i \in DOMAIN queue[n] /\ queue[n][i] = s
        BY <2>2
      <4>2. PICK n \in Node, i \in 1..Cardinality(Span) :
                p = <<n, i>> /\ i \in DOMAIN queue[n] /\ queue[n][i] = s
        BY <4>1
      <4>3. PICK k \in Node, j \in 1..Cardinality(Span) :
                r = <<k, j>> /\ j \in DOMAIN queue[k] /\ queue[k][j] = s
        BY <4>1
      <4>4. n = k /\ i = j
        BY <1>1, <4>2, <4>3 DEF QueueApart
      <4> QED
        BY <4>2, <4>3, <4>4
    <3> QED
      BY <3>1, AtMostOne
  <2>5. H = {} \/ Q = {}
    <3> SUFFICES ASSUME NEW t \in H, NEW p \in Q PROVE FALSE
      OBVIOUS
    <3>1. t \in Thread /\ free[t] = s
      BY <2>1
    <3>2. p[1] \in Node /\ p[2] \in DOMAIN queue[p[1]] /\ queue[p[1]][p[2]] = s
      BY <2>2
    <3> QED
      BY <1>1, <3>1, <3>2, Zenon DEF HeldOrQueued
  <2>6. Cardinality({}) = 0
    BY FS_EmptySet
  <2>7. Cardinality(H) + Cardinality(Q) <= 1
    BY <2>3, <2>4, <2>5, <2>6
  <2> QED
    BY <2>1, <2>2, <2>7
<1> QED
  BY <1>2 DEF SpanOnce, IInv

\* Two threads never carve the same span, and a queue holds only spans whose
\* memory is on its node: bulk_fill and cleanup_thread_bulk, for any number of
\* threads that fill, exit and run late destructors.
THEOREM SpanOnceAlways == Spec => []SpanOnce
<1> QED
  BY Invariance, ImpliesSpanOnce, PTL

\* A span that bulk_fill finds waiting has blocks left, and init_blocks never
\* carves past the end of one.
THEOREM PendingAlways == Spec => []PendingHasBlocks
<1>1. IInv => PendingHasBlocks
  BY DEF IInv, PendingHasBlocks, Pending
<1> QED
  BY <1>1, Invariance, PTL

=============================================================================
