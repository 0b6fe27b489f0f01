------------------------- MODULE PageAllocatorProofs -------------------------
(***************************************************************************)
(* The spans of the page backend never overlap, for any number of nodes,   *)
(* arenas and spans and any sizes.  The argument does not depend on the    *)
(* order in which arenas are searched: every span lies below its arena's   *)
(* cursor, and new pages are taken from the cursor on.                     *)
(*                                                                         *)
(* The second part shows that the arena lists keep their shape: a walk     *)
(* meets exactly the usable arenas of its node.                            *)
(***************************************************************************)
EXTENDS PageAllocator, FiniteSetTheorems, WellFoundedInduction, TLAPS

\* No arena, no span.
LEMMA InitIInv == Init => IInv
BY ConstAssumption DEF Init, IInv, TypeOK, SpansCarved, Unmapped, SpansDisjoint, Ref, Node, Links

\* remove_arena keeps the types of the links.
LEMMA UnlinkType ==
    ASSUME NEW n \in Node, NEW a \in Arena,
           NEW L \in Links
    PROVE  Unlink(n, a, L) \in Links
<1>1. L.prev[a] \in Ref /\ L.next[a] \in Ref
  BY DEF Links
<1>2. /\ [L.head EXCEPT ![n] = L.next[a]] \in [Node -> Ref]
      /\ [L.cur EXCEPT ![n] = L.next[a]] \in [Node -> Ref]
      /\ L.prev[a] # None => [L.next EXCEPT ![L.prev[a]] = L.next[a]] \in [Arena -> Ref]
      /\ L.next[a] # None => [L.prev EXCEPT ![L.next[a]] = L.prev[a]] \in [Arena -> Ref]
  BY <1>1 DEF Ref, Links
<1> QED
  BY <1>2 DEF Unlink, Links

\* Every node number is mapped to a node that exists.
LEMMA NodeOfType == \A id \in Nat : NodeOf(id) \in Node
BY ConstAssumption DEF NodeOf, Node

\* Taking pages keeps the types of the links, whether or not the arena is given up.
LEMMA AdvanceType ==
    ASSUME NEW n \in Node, NEW a \in Arena, NEW end, NEW pages,
           NEW L \in Links,
           Advance(n, a, end, pages, L)
    PROVE  list' \in Links
BY UnlinkType DEF Advance

\* A new span at the cursor of its arena, and the cursor moved behind it.
LEMMA Carve ==
    ASSUME IInv, NEW a \in Arena, NEW k \in Nat \ {0}, NEW id \in Nat,
           mapped \subseteq mapped', a \in mapped', mapped' \subseteq Arena,
           home' \in [Arena -> Node], size' \in [Arena -> Nat],
           \A b \in Arena : b # a => size'[b] = size[b],
           used[a] + k <= size'[a],
           used' = [used EXCEPT ![a] = used[a] + k],
           spans' = spans \cup {[arena |-> a, off |-> used[a], len |-> k, node |-> id]},
           list' \in Links
    PROVE  IInv'
<1> DEFINE new == [arena |-> a, off |-> used[a], len |-> k, node |-> id]
<1>1. /\ used \in [Arena -> Nat] /\ spans \subseteq Span
      /\ \A b \in Arena : used[b] <= size[b]
  BY DEF IInv, TypeOK
<1>2. new \in Span
  BY <1>1 DEF Span
<1>3. /\ used' \in [Arena -> Nat] /\ used'[a] = used[a] + k
      /\ \A b \in Arena : b # a => used'[b] = used[b]
  BY <1>1
<1>4. TypeOK'
  BY <1>1, <1>2, <1>3 DEF TypeOK
<1>5. ASSUME NEW s \in spans
      PROVE  /\ s.arena \in mapped /\ s.arena \in Arena /\ s.off \in Nat /\ s.len \in Nat
             /\ s.off + s.len <= used[s.arena]
  BY <1>1 DEF IInv, TypeOK, SpansCarved, Span
<1>6. SpansCarved'
  <2>1. ASSUME NEW s \in spans PROVE s.arena \in mapped' /\ s.off + s.len <= used'[s.arena]
    BY <1>1, <1>3, <1>5
  <2>2. new.arena \in mapped' /\ new.off + new.len <= used'[new.arena]
    BY <1>3
  <2> QED
    BY <2>1, <2>2 DEF SpansCarved
<1>7. SpansDisjoint'
  <2>1. ASSUME NEW s \in spans, s.arena = a PROVE s.off + s.len <= new.off
    BY <1>5, <2>1
  <2> QED
    BY <2>1 DEF SpansDisjoint, IInv
<1>8. Unmapped'
  BY <1>1, <1>3 DEF Unmapped, IInv, TypeOK
<1> QED
  BY <1>4, <1>6, <1>7, <1>8 DEF IInv

\* Pages from a listed arena: it has room, so it is mapped.
LEMMA AllocListedInv ==
    ASSUME IInv, NEW id \in Nat, NEW k \in Nat \ {0}, AllocListed(id, k)
    PROVE  IInv'
<1>1. PICK a \in Arena :
         /\ Fits(a, k)
         /\ spans' = spans \cup {[arena |-> a, off |-> used[a], len |-> k, node |-> id]}
         /\ Advance(NodeOf(id), a, used[a] + k, size[a], list)
         /\ UNCHANGED <<mapped, home, size>>
  BY DEF AllocListed
<1>2. a \in mapped
  BY <1>1 DEF IInv, TypeOK, Unmapped, Fits
<1>3. /\ list' \in Links
      /\ used' = [used EXCEPT ![a] = used[a] + k]
  BY <1>1, AdvanceType, NodeOfType, Zenon DEF IInv, TypeOK, Advance
<1>4. used[a] + k <= size'[a]
  BY <1>1 DEF Fits
<1>5. /\ mapped \subseteq mapped' /\ a \in mapped' /\ mapped' \subseteq Arena
      /\ home' \in [Arena -> Node] /\ size' \in [Arena -> Nat]
      /\ \A b \in Arena : b # a => size'[b] = size[b]
  BY <1>1, <1>2 DEF IInv, TypeOK
<1> QED
  BY <1>1, <1>3, <1>4, <1>5, Carve, Zenon

\* A new arena's cursor is at its start and its size holds the request.
LEMMA AllocNewInv ==
    ASSUME IInv, NEW id \in Nat, NEW k \in Nat \ {0}, AllocNew(id, k)
    PROVE  IInv'
<1> DEFINE n == NodeOf(id)
           h == list.head[n]
<1>1. PICK a \in Arena \ mapped :
         /\ mapped' = mapped \cup {a}
         /\ home' = [home EXCEPT ![a] = n]
         /\ size' = [size EXCEPT ![a] = ArenaSize(k)]
         /\ spans' = spans \cup {[arena |-> a, off |-> 0, len |-> k, node |-> id]}
         /\ Advance(n, a, k, ArenaSize(k),
                [head |-> [list.head EXCEPT ![n] = a],
                 cur  |-> [list.cur EXCEPT ![n] = a],
                 next |-> [list.next EXCEPT ![a] = h],
                 prev |-> IF h = None THEN list.prev ELSE [list.prev EXCEPT ![h] = a]])
  BY Zenon DEF AllocNew
<1>2. n \in Node /\ used[a] = 0 /\ ArenaSize(k) \in Nat /\ k <= ArenaSize(k)
  BY NodeOfType, ConstAssumption DEF IInv, Unmapped, ArenaSize
<1>3. list' \in Links
  <2>1. h \in Ref
    BY <1>2 DEF IInv, TypeOK, Links
  <2>2. [head |-> [list.head EXCEPT ![n] = a],
         cur  |-> [list.cur EXCEPT ![n] = a],
         next |-> [list.next EXCEPT ![a] = h],
         prev |-> IF h = None THEN list.prev ELSE [list.prev EXCEPT ![h] = a]]
        \in Links
    BY <1>2, <2>1 DEF IInv, TypeOK, Ref, Links
  <2> QED
    BY <1>1, <1>2, <2>2, AdvanceType
<1>4. used' = [used EXCEPT ![a] = used[a] + k]
  <2>1. used' = [used EXCEPT ![a] = k]
    BY <1>1, Zenon DEF Advance
  <2> QED
    BY <1>2, <2>1
<1>5. /\ home' \in [Arena -> Node] /\ size' \in [Arena -> Nat]
      /\ size'[a] = ArenaSize(k) /\ \A b \in Arena : b # a => size'[b] = size[b]
  BY <1>1, <1>2 DEF IInv, TypeOK
<1>6. mapped \subseteq mapped' /\ a \in mapped' /\ mapped' \subseteq Arena
  BY <1>1 DEF IInv, TypeOK
<1>7. /\ spans' = spans \cup {[arena |-> a, off |-> used[a], len |-> k, node |-> id]}
      /\ used[a] + k <= size'[a]
  BY <1>1, <1>2, <1>5
<1> QED
  BY <1>3, <1>4, <1>5, <1>6, <1>7, Carve, Zenon

\* Only the last span below the cursor grows.
LEMMA TryGrowInv ==
    ASSUME IInv, NEW s \in spans, NEW k \in Nat, TryGrow(s, k)
    PROVE  IInv'
<1> DEFINE a == s.arena
           new == [s EXCEPT !.len = k]
<1>1. /\ s \in Span /\ a \in Arena /\ used \in [Arena -> Nat] /\ a \in mapped
      /\ spans \subseteq Span
  BY DEF IInv, TypeOK, SpansCarved, Span
<1>2. /\ k > s.len /\ s.off + s.len = used[a] /\ s.off + k <= size[a]
      /\ spans' = (spans \ {s}) \cup {new}
      /\ Advance(NodeOf(s.node), a, s.off + k, size[a], list)
      /\ UNCHANGED <<mapped, home, size>>
  BY DEF TryGrow
<1>3. /\ new \in Span /\ new.arena = a /\ new.off = s.off /\ new.len = k
      /\ s.off \in Nat /\ s.len \in Nat /\ s.node \in Nat
  BY <1>1, <1>2 DEF Span
<1>4. /\ used' = [used EXCEPT ![a] = s.off + k]
      /\ list' \in Links
  BY <1>1, <1>2, <1>3, AdvanceType, NodeOfType, Zenon DEF Advance, IInv, TypeOK
<1>5. /\ used' \in [Arena -> Nat] /\ used'[a] = s.off + k
      /\ \A b \in Arena : b # a => used'[b] = used[b]
  BY <1>1, <1>3, <1>4
<1>6. TypeOK'
  <2>1. \A b \in Arena : used'[b] <= size'[b]
    BY <1>2, <1>5 DEF IInv, TypeOK
  <2> QED
    BY <1>1, <1>2, <1>3, <1>4, <1>5, <2>1 DEF IInv, TypeOK
<1>7. ASSUME NEW r \in spans
      PROVE  /\ r.arena \in mapped /\ r.arena \in Arena /\ r.off \in Nat /\ r.len \in Nat
             /\ r.off + r.len <= used[r.arena] /\ r.len # 0
  BY <1>1 DEF IInv, TypeOK, SpansCarved, Span
<1>8. SpansCarved'
  <2>1. ASSUME NEW r \in spans PROVE r.arena \in mapped' /\ r.off + r.len <= used'[r.arena]
    BY <1>2, <1>3, <1>5, <1>7
  <2>2. new.arena \in mapped' /\ new.off + new.len <= used'[new.arena]
    BY <1>1, <1>2, <1>3, <1>5
  <2> HIDE DEF new
  <2> QED
    BY <1>2, <2>1, <2>2 DEF SpansCarved
<1>9. SpansDisjoint'
  <2>1. ASSUME NEW r \in spans, r # s, r.arena = a PROVE r.off + r.len <= s.off
    BY <1>2, <1>3, <1>7, <2>1 DEF IInv, SpansDisjoint
  <2>2. ASSUME NEW r \in spans', NEW q \in spans', r # q, r.arena = q.arena
        PROVE  r.off + r.len <= q.off \/ q.off + q.len <= r.off
    <3> HIDE DEF new
    <3>1. CASE r = new
      BY <1>2, <1>3, <2>1, <2>2, <3>1
    <3>2. CASE q = new
      BY <1>2, <1>3, <2>1, <2>2, <3>2
    <3>3. CASE r # new /\ q # new
      BY <1>2, <2>2, <3>3 DEF IInv, SpansDisjoint
    <3> QED
      BY <3>1, <3>2, <3>3
  <2> QED
    BY <2>2 DEF SpansDisjoint
<1>10. Unmapped'
  BY <1>1, <1>2, <1>5 DEF IInv, Unmapped
<1> QED
  BY <1>6, <1>8, <1>9, <1>10 DEF IInv

\* However pages are carved and grown, the invariant of the page backend holds:
\* every span is below the cursor of its arena and disjoint from the others.
THEOREM Inductive == Spec => []IInv
<1>1. IInv /\ [Next]_vars => IInv'
  <2> SUFFICES ASSUME IInv, [Next]_vars PROVE IInv'
    OBVIOUS
  <2>1. CASE Next
    <3>1. PICK k \in 1..MaxPages :
             \/ \E id \in 0..Nodes : AllocListed(id, k) \/ AllocNew(id, k)
             \/ \E s \in spans : TryGrow(s, k)
      BY <2>1 DEF Next
    <3>2. k \in Nat \ {0} /\ 0..Nodes \subseteq Nat
      BY ConstAssumption
    <3> QED
      BY <3>1, <3>2, AllocListedInv, AllocNewInv, TryGrowInv
  <2>2. CASE UNCHANGED vars
    BY <2>2 DEF vars, IInv, TypeOK, SpansCarved, Unmapped, SpansDisjoint
  <2> QED
    BY <2>1, <2>2
<1> QED
  BY InitIInv, <1>1, PTL DEF Spec

\* No page of the backend is ever in two spans, for any nodes and sizes:
\* what alloc and try_grow_inplace hand out under the node's lock is disjoint.
THEOREM Disjoint == Spec => []SpansDisjoint
BY Inductive, PTL DEF IInv

-----------------------------------------------------------------------------
(* The lists of arenas.  The walk along the next links is not unfolded: a  *)
(* sequence that the links spell is carried along, and it is the only one. *)

\* A nonempty set of naturals has a least element.
LEMMA LeastOf ==
    ASSUME NEW S \in SUBSET Nat, S # {}
    PROVE  \E m \in S : \A n \in S : m <= n
<1>1. IsWellFoundedOn(OpToRel(<, Nat), Nat)
  BY NatLessThanWellFounded, Zenon
<1>2. PICK m \in S : \A n \in S : <<n, m>> \notin OpToRel(<, Nat)
  BY <1>1, WFMin, Zenon
<1>3. \A n \in S : ~(n < m)
  BY <1>2, Zenon DEF OpToRel
<1> QED
  BY <1>3

\* v and w are alike at position i.
Alike(v, w, i) == (i <= Len(v) <=> i <= Len(w)) /\ (i <= Len(v) => v[i] = w[i])

\* The next links of a node spell one sequence only: the walk of
\* allocate_search is determined by head and links.
LEMMA OneWalk ==
    ASSUME NEW L, NEW n, NEW v \in Seq(Arena), NEW w \in Seq(Arena),
           Chained(L, n, v), Chained(L, n, w)
    PROVE  v = w
<1>1. /\ Len(v) \in Nat /\ DOMAIN v = 1..Len(v) /\ \A i \in 1..Len(v) : v[i] \in Arena /\ v[i] # None
      /\ Len(w) \in Nat /\ DOMAIN w = 1..Len(w) /\ \A i \in 1..Len(w) : w[i] \in Arena /\ w[i] # None
  BY ConstAssumption
<1>a. Len(v) \in Nat /\ Len(w) \in Nat
  BY <1>1, Zenon
<1>2. PICK S : S = {i \in Nat : i # 0 /\ ~Alike(v, w, i)}
  BY Zenon
<1>3. S = {}
  <2> SUFFICES ASSUME S # {} PROVE FALSE
    BY Zenon
  <2>1. PICK m \in S : \A i \in S : m <= i
    BY <1>2, LeastOf, Zenon
  <2>2. m \in Nat /\ m # 0 /\ ~Alike(v, w, m)
    BY <1>2, Zenon
  <2>3. CASE m = 1
    <3>1. (v = <<>> <=> Len(v) = 0) /\ (w = <<>> <=> Len(w) = 0)
      OBVIOUS
    <3>2. L.head[n] = (IF Len(v) = 0 THEN None ELSE v[1]) /\ L.head[n] = (IF Len(w) = 0 THEN None ELSE w[1])
      BY <3>1 DEF Chained
    <3> QED
      BY <1>1, <2>2, <2>3, <3>2 DEF Alike
  <2>4. CASE m # 1
    <3>1. PICK k \in Nat : m = k + 1 /\ k # 0
      BY <2>2, <2>4
    <3>2. Alike(v, w, k)
      BY <1>2, <2>1, <3>1
    <3>3. CASE k > Len(v)
      BY <1>a, <2>2, <3>1, <3>2, <3>3 DEF Alike
    <3>4. CASE k <= Len(v)
      <4>1. k \in 1..Len(v) /\ k \in 1..Len(w) /\ v[k] = w[k]
        BY <1>a, <3>1, <3>2, <3>4 DEF Alike
      <4>2. L.next[v[k]] = (IF k = Len(v) THEN None ELSE v[k + 1]) /\ L.next[w[k]] = (IF k = Len(w) THEN None ELSE w[k + 1])
        BY <1>1, <4>1, Zenon DEF Chained
      <4>3. (k # Len(v) => v[k + 1] # None) /\ (k # Len(w) => w[k + 1] # None)
        <5>1. (k # Len(v) => k + 1 \in 1..Len(v)) /\ (k # Len(w) => k + 1 \in 1..Len(w))
          BY <1>a, <4>1
        <5> QED
          BY <1>1, <5>1, Zenon
      <4>4. (k = Len(v) <=> k = Len(w)) /\ (k # Len(v) => v[k + 1] = w[k + 1])
        BY <4>1, <4>2, <4>3, Zenon
      <4>5. (m <= Len(v) <=> k # Len(v)) /\ (m <= Len(w) <=> k # Len(w))
        BY <1>a, <3>1, <4>1
      <4> QED
        BY <2>2, <3>1, <4>4, <4>5, Zenon DEF Alike
    <3> QED
      BY <1>a, <3>1, <3>3, <3>4
  <2> QED
    BY <2>3, <2>4
<1>4. ASSUME NEW i \in Nat, i # 0 PROVE Alike(v, w, i)
  BY <1>2, <1>3, <1>4, Zenon
<1>5. Len(v) = Len(w)
  <2>1. ~(Len(v) < Len(w))
    BY <1>a, <1>4 DEF Alike
  <2>2. ~(Len(w) < Len(v))
    BY <1>a, <1>4 DEF Alike
  <2> QED
    BY <1>a, <2>1, <2>2
<1>6. \A i \in 1..Len(v) : v[i] = w[i]
  BY <1>1, <1>4 DEF Alike
<1> QED
  BY <1>1, <1>5, <1>6

\* A sequence that the links spell and that visits no arena twice is the walk:
\* it is no longer than there are arenas.
LEMMA WalkIs ==
    ASSUME IsFiniteSet(mapped), mapped \subseteq Arena, NEW n, NEW w \in Seq(Arena),
           NEW U \in SUBSET mapped, Lists(list, n, w, U)
    PROVE  Walk(n) = w
<1>1. PICK k \in Nat : k = Len(w) /\ w \in [1..k -> mapped]
  <2>1. \A i \in DOMAIN w : w[i] \in mapped
    BY Zenon DEF Lists
  <2> QED
    BY <2>1
<1>2. k <= Cardinality(mapped)
  <2>1. w \in Injection(1..k, mapped)
    <3>1. \A i, j \in 1..k : i # j => w[i] # w[j]
      BY <1>1 DEF Lists
    <3> QED
      BY <1>1, <3>1 DEF Injection, IsInjective
  <2>2. Cardinality(1..k) <= Cardinality(mapped)
    BY <2>1, FS_Injection, Zenon
  <2>3. Cardinality(1..k) = k
    BY FS_Interval
  <2> QED
    BY <2>2, <2>3
<1>3. Cardinality(mapped) \in Nat
  BY FS_CardinalityType
<1>4. k \in 0..Cardinality(mapped)
  BY <1>2, <1>3
<1>5. w \in UNION {[1..i -> mapped] : i \in 0..Cardinality(mapped)} /\ Chained(list, n, w)
  BY <1>1, <1>4, Zenon DEF Lists
<1>6. /\ Walk(n) \in UNION {[1..i -> mapped] : i \in 0..Cardinality(mapped)}
      /\ Chained(list, n, Walk(n))
  BY <1>5, Zenon DEF Walk
<1>7. PICK i \in 0..Cardinality(mapped) : Walk(n) \in [1..i -> mapped]
  BY <1>6, Zenon
<1>8. Walk(n) \in Seq(Arena) /\ w \in Seq(Arena)
  BY <1>3, <1>7
<1> QED
  BY <1>5, <1>6, <1>8, OneWalk, Zenon

\* w without its i-th arena.
Without(w, i) == [j \in 1..(Len(w) - 1) |-> IF j < i THEN w[j] ELSE w[j + 1]]

\* q has the arenas of w but the i-th, each once.
Shortened(A, w, i, q) ==
    /\ q \in Seq(A) /\ Len(q) = Len(w) - 1 /\ DOMAIN q = 1..(Len(w) - 1)
    /\ \A j, k \in DOMAIN q : j # k => q[j] # q[k]
    /\ {q[j] : j \in DOMAIN q} = {w[j] : j \in DOMAIN w} \ {w[i]}

\* What is left of a sequence of distinct arenas.
LEMMA WithoutIs ==
    ASSUME NEW A, NEW w \in Seq(A), NEW i \in 1..Len(w), NEW q, q = Without(w, i),
           \A j, k \in DOMAIN w : j # k => w[j] # w[k]
    PROVE  Shortened(A, w, i, q)
<1>1. PICK m \in Nat : m = Len(w) /\ DOMAIN w = 1..m /\ \A j \in 1..m : w[j] \in A
  OBVIOUS
<1>2. /\ m >= 1 /\ m - 1 \in Nat /\ i \in 1..m
      /\ \A j \in 1..(m - 1) : j \in 1..m /\ j + 1 \in 1..m
  BY <1>1
<1>3. q = [j \in 1..(m - 1) |-> IF j < i THEN w[j] ELSE w[j + 1]]
  BY <1>1, Zenon DEF Without
<1>4. q \in [1..(m - 1) -> A]
  BY <1>1, <1>2, <1>3
<1>5. q \in Seq(A) /\ Len(q) = m - 1 /\ DOMAIN q = 1..(m - 1)
  BY <1>2, <1>4
<1>6. ASSUME NEW j \in 1..(m - 1), NEW k \in 1..(m - 1), j # k PROVE q[j] # q[k]
  <2>1. PICK a \in 1..m : a = IF j < i THEN j ELSE j + 1
    BY <1>2
  <2>2. PICK b \in 1..m : b = IF k < i THEN k ELSE k + 1
    BY <1>2
  <2>3. a # b
    BY <1>2, <1>6, <2>1, <2>2
  <2>4. q[j] = w[a] /\ q[k] = w[b]
    BY <1>3, <2>1, <2>2, Zenon
  <2> QED
    BY <1>1, <2>3, <2>4, Zenon
<1>7. ASSUME NEW j \in 1..(m - 1) PROVE q[j] \in {w[k] : k \in 1..m} \ {w[i]}
  <2>1. PICK a \in 1..m : a = IF j < i THEN j ELSE j + 1
    BY <1>2
  <2>2. a # i
    BY <1>2, <2>1
  <2>3. q[j] = w[a]
    BY <1>3, <2>1, Zenon
  <2> QED
    BY <1>1, <1>2, <2>2, <2>3, Zenon
<1>8. ASSUME NEW k \in 1..m, w[k] # w[i] PROVE \E j \in 1..(m - 1) : q[j] = w[k]
  <2>1. k # i
    BY <1>8
  <2>2. CASE k < i
    <3>1. k \in 1..(m - 1)
      BY <1>2, <2>2
    <3> QED
      BY <1>3, <2>2, <3>1
  <2>3. CASE ~(k < i)
    <3>1. k - 1 \in 1..(m - 1) /\ ~(k - 1 < i) /\ (k - 1) + 1 = k
      BY <1>2, <2>1, <2>3
    <3>2. q[k - 1] = w[(k - 1) + 1]
      BY <1>3, <3>1, Zenon
    <3> QED
      BY <3>1, <3>2
  <2> QED
    BY <2>2, <2>3, Zenon
<1>9. {q[j] : j \in 1..(m - 1)} = {w[j] : j \in 1..m} \ {w[i]}
  <2>1. ASSUME NEW z \in {q[j] : j \in 1..(m - 1)} PROVE z \in {w[j] : j \in 1..m} \ {w[i]}
    BY <1>7, Zenon
  <2>2. ASSUME NEW z \in {w[j] : j \in 1..m} \ {w[i]} PROVE z \in {q[j] : j \in 1..(m - 1)}
    <3>1. PICK k \in 1..m : z = w[k] /\ w[k] # w[i]
      BY <2>2, Zenon
    <3>2. PICK j \in 1..(m - 1) : q[j] = w[k]
      BY <1>8, <3>1, Zenon
    <3> QED
      BY <3>1, <3>2, Zenon
  <2> QED
    BY <2>1, <2>2, Zenon
<1> QED
  BY <1>1, <1>5, <1>6, <1>9, Zenon DEF Shortened

\* K is L with the arenas p and x, around a, linked to each other.
Bridged(K, L, n, a, p, x) ==
    /\ K.head[n] = IF p = None THEN x ELSE L.head[n]
    /\ K.cur[n] = IF L.cur[n] = a THEN x ELSE L.cur[n]
    /\ \A m \in Node \ {n} : K.head[m] = L.head[m] /\ K.cur[m] = L.cur[m]
    /\ \A b \in Arena : K.next[b] = IF b = p THEN x ELSE L.next[b]
    /\ \A b \in Arena : K.prev[b] = IF b = x THEN p ELSE L.prev[b]

\* What remove_arena writes.
LEMMA UnlinkIs ==
    ASSUME NEW n \in Node, NEW a \in Arena, NEW L \in Links, NEW K, K = Unlink(n, a, L),
           NEW p, p = L.prev[a], NEW x, x = L.next[a]
    PROVE  Bridged(K, L, n, a, p, x)
<1>1. K = [head |-> IF p = None THEN [L.head EXCEPT ![n] = x] ELSE L.head,
           cur  |-> IF L.cur[n] = a THEN [L.cur EXCEPT ![n] = x] ELSE L.cur,
           next |-> IF p = None THEN L.next ELSE [L.next EXCEPT ![p] = x],
           prev |-> IF x = None THEN L.prev ELSE [L.prev EXCEPT ![x] = p]]
  BY Zenon DEF Unlink
<1>2. /\ K.head = IF p = None THEN [L.head EXCEPT ![n] = x] ELSE L.head
      /\ K.cur = IF L.cur[n] = a THEN [L.cur EXCEPT ![n] = x] ELSE L.cur
      /\ K.next = IF p = None THEN L.next ELSE [L.next EXCEPT ![p] = x]
      /\ K.prev = IF x = None THEN L.prev ELSE [L.prev EXCEPT ![x] = p]
  BY <1>1
<1>3. /\ L.head \in [Node -> Ref] /\ L.cur \in [Node -> Ref] /\ L.next \in [Arena -> Ref]
      /\ L.prev \in [Arena -> Ref] /\ p \in Arena \cup {None} /\ x \in Arena \cup {None}
  BY DEF Links, Ref
<1>4. None \notin Arena
  BY ConstAssumption
<1>5. K.head[n] = (IF p = None THEN x ELSE L.head[n]) /\ \A m \in Node \ {n} : K.head[m] = L.head[m]
  BY <1>2, <1>3
<1>6. K.cur[n] = (IF L.cur[n] = a THEN x ELSE L.cur[n]) /\ \A m \in Node \ {n} : K.cur[m] = L.cur[m]
  BY <1>2, <1>3
<1>7. \A b \in Arena : K.next[b] = IF b = p THEN x ELSE L.next[b]
  BY <1>2, <1>3, <1>4
<1>8. \A b \in Arena : K.prev[b] = IF b = x THEN p ELSE L.prev[b]
  BY <1>2, <1>3, <1>4
<1> QED
  BY <1>5, <1>6, <1>7, <1>8, Zenon DEF Bridged

\* remove_arena takes an arena out of its list, wherever it stands in it.
LEMMA UnlinkLists ==
    ASSUME NEW n \in Node, NEW L \in Links, NEW w \in Seq(Arena), NEW U, Lists(L, n, w, U),
           NEW i \in 1..Len(w), NEW a, a = w[i], NEW K, K = Unlink(n, a, L),
           NEW q, q = Without(w, i)
    PROVE  q \in Seq(Arena) /\ Lists(K, n, q, U \ {a})
<1>1. PICK m \in Nat : m = Len(w) /\ DOMAIN w = 1..m /\ \A j \in 1..m : w[j] \in Arena /\ w[j] # None
  BY ConstAssumption
<1>2. /\ \A j, k \in 1..m : j # k => w[j] # w[k]
      /\ {w[j] : j \in 1..m} = U /\ L.cur[n] \in U \cup {None}
      /\ i \in 1..m /\ a \in Arena
  BY <1>1, Zenon DEF Lists
<1>3. /\ \A j \in 1..m : L.next[w[j]] = IF j = m THEN None ELSE w[j + 1]
      /\ \A j \in 1..m : L.prev[w[j]] = IF j = 1 THEN None ELSE w[j - 1]
      /\ L.head[n] = w[1]
  <2>1. w # <<>>
    BY <1>1, <1>2
  <2> QED
    BY <1>1, <2>1, Zenon DEF Lists, Chained
<1>4. PICK p : p = L.prev[a]
  BY Zenon
<1>5. PICK x : x = L.next[a]
  BY Zenon
<1>6. p = (IF i = 1 THEN None ELSE w[i - 1]) /\ x = (IF i = m THEN None ELSE w[i + 1])
  BY <1>2, <1>3, <1>4, <1>5, Zenon
<1>7. /\ K.head[n] = (IF p = None THEN x ELSE L.head[n])
      /\ K.cur[n] = (IF L.cur[n] = a THEN x ELSE L.cur[n])
      /\ \A b \in Arena : K.next[b] = IF b = p THEN x ELSE L.next[b]
      /\ \A b \in Arena : K.prev[b] = IF b = x THEN p ELSE L.prev[b]
  <2>1. Bridged(K, L, n, a, p, x)
    BY <1>2, <1>4, <1>5, UnlinkIs, Zenon
  <2> QED
    BY <2>1, Zenon DEF Bridged
<1>8. /\ q \in Seq(Arena) /\ Len(q) = m - 1 /\ DOMAIN q = 1..(m - 1)
      /\ \A j, k \in DOMAIN q : j # k => q[j] # q[k]
      /\ {q[j] : j \in DOMAIN q} = U \ {a}
  <2>1. \A j, k \in DOMAIN w : j # k => w[j] # w[k]
    BY Zenon DEF Lists
  <2>2. Shortened(Arena, w, i, q)
    BY <2>1, WithoutIs, Zenon
  <2> QED
    BY <1>1, <1>2, <2>2, Zenon DEF Shortened
<1>9. \A j \in 1..(m - 1) : q[j] = IF j < i THEN w[j] ELSE w[j + 1]
  BY <1>1, Zenon DEF Without
<1>10. /\ i > 1 => i - 1 \in 1..m
       /\ i < m => i + 1 \in 1..m
       /\ \A j \in 1..(m - 1) : j \in 1..m /\ j + 1 \in 1..m
  BY <1>2
<1>11. K.head[n] = IF q = <<>> THEN None ELSE q[1]
  <2>1. q = <<>> <=> m = 1
    BY <1>2, <1>8
  <2>2. CASE i = 1
    <3>1. K.head[n] = x /\ x = IF m = 1 THEN None ELSE w[2]
      BY <1>6, <1>7, <2>2
    <3>2. m # 1 => q[1] = w[2]
      BY <1>2, <1>9, <2>2
    <3> QED
      BY <2>1, <3>1, <3>2, Zenon
  <2>3. CASE i # 1
    <3>1. i > 1 /\ m # 1 /\ 1 \in 1..(m - 1) /\ 1 < i
      BY <1>2, <2>3
    <3>2. p # None
      BY <1>1, <1>6, <1>10, <2>3, <3>1, Zenon
    <3>3. K.head[n] = w[1] /\ q[1] = w[1]
      BY <1>3, <1>7, <1>9, <3>1, <3>2, Zenon
    <3> QED
      BY <2>1, <3>1, <3>3, Zenon
  <2> QED
    BY <2>2, <2>3, Zenon
<1>12. ASSUME NEW j \in 1..(m - 1) PROVE K.next[q[j]] = IF j = m - 1 THEN None ELSE q[j + 1]
  <2>1. j \in 1..m /\ j + 1 \in 1..m /\ (j # m - 1 => j + 1 \in 1..(m - 1))
    BY <1>10
  <2>2. CASE j < i /\ j # i - 1
    <3>1. j # m /\ j # m - 1 /\ j + 1 < i /\ i > 1
      BY <1>2, <2>2
    <3>2. q[j] = w[j] /\ q[j + 1] = w[j + 1]
      BY <1>9, <2>1, <2>2, <3>1, Zenon
    <3>3. w[j] # p
      BY <1>1, <1>2, <1>6, <1>10, <2>1, <2>2, <3>1, Zenon
    <3>4. K.next[w[j]] = L.next[w[j]] /\ L.next[w[j]] = w[j + 1]
      BY <1>1, <1>3, <1>7, <2>1, <3>1, <3>3
    <3> QED
      BY <3>1, <3>2, <3>4, Zenon
  <2>3. CASE j = i - 1
    <3>1. i > 1 /\ i # 1 /\ j < i /\ (j = m - 1 <=> i = m) /\ (i # m => i + 1 \in 1..m /\ ~(j + 1 < i) /\ (j + 1) + 1 = i + 1)
      BY <1>2, <2>3
    <3>2. q[j] = p /\ q[j] \in Arena
      BY <1>1, <1>6, <1>9, <2>1, <2>3, <3>1, Zenon
    <3>3. K.next[q[j]] = x
      BY <1>7, <3>2, Zenon
    <3>4. j # m - 1 => q[j + 1] = w[i + 1]
      BY <1>9, <2>1, <3>1, Zenon
    <3> QED
      BY <1>6, <3>1, <3>3, <3>4, Zenon
  <2>4. CASE ~(j < i)
    <3>1. /\ j + 1 # i - 1 /\ (j + 1 = m <=> j = m - 1) /\ ~(j + 1 < i)
      BY <1>2, <2>4
    <3>2. q[j] = w[j + 1] /\ (j # m - 1 => q[j + 1] = w[(j + 1) + 1])
      BY <1>9, <2>1, <2>4, <3>1, Zenon
    <3>3. w[j + 1] # p
      <4>1. CASE i = 1
        BY <1>1, <1>6, <2>1, <4>1, Zenon
      <4>2. CASE i # 1
        <5>1. i - 1 \in 1..m
          BY <1>2, <4>2
        <5> QED
          BY <1>2, <1>6, <2>1, <3>1, <4>2, <5>1, Zenon
      <4> QED
        BY <4>1, <4>2, Zenon
    <3>4. K.next[w[j + 1]] = L.next[w[j + 1]]
      BY <1>1, <1>7, <2>1, <3>3, Zenon
    <3>5. L.next[w[j + 1]] = IF j + 1 = m THEN None ELSE w[(j + 1) + 1]
      BY <1>3, <2>1, Zenon
    <3> QED
      BY <3>1, <3>2, <3>4, <3>5, Zenon
  <2> QED
    BY <2>2, <2>3, <2>4, Zenon
<1>13. ASSUME NEW j \in 1..(m - 1) PROVE K.prev[q[j]] = IF j = 1 THEN None ELSE q[j - 1]
  <2>1. j \in 1..m /\ j + 1 \in 1..m /\ (j # 1 => j - 1 \in 1..(m - 1)) /\ j + 1 # 1 /\ (j + 1) - 1 = j
    BY <1>10
  <2>2. CASE j < i
    <3>1. (j # 1 => j - 1 < i) /\ j # i + 1 /\ (i # m => i + 1 \in 1..m)
      BY <1>2, <2>2
    <3>2. q[j] = w[j] /\ (j # 1 => q[j - 1] = w[j - 1])
      BY <1>9, <2>1, <2>2, <3>1, Zenon
    <3>3. w[j] # x
      BY <1>1, <1>2, <1>6, <2>1, <3>1, Zenon
    <3>4. K.prev[w[j]] = L.prev[w[j]]
      BY <1>1, <1>7, <2>1, <3>3, Zenon
    <3>5. L.prev[w[j]] = IF j = 1 THEN None ELSE w[j - 1]
      BY <1>3, <2>1, Zenon
    <3> QED
      BY <3>2, <3>4, <3>5, Zenon
  <2>3. CASE j = i
    <3>1. i # m /\ ~(j < i) /\ (j # 1 => j - 1 < i)
      BY <1>2, <2>3
    <3>2. q[j] = x /\ q[j] \in Arena
      BY <1>1, <1>6, <1>9, <2>1, <2>3, <3>1, Zenon
    <3>3. K.prev[q[j]] = p
      BY <1>7, <3>2, Zenon
    <3>4. j # 1 => q[j - 1] = w[i - 1]
      BY <1>9, <2>1, <2>3, <3>1, Zenon
    <3> QED
      BY <1>6, <2>3, <3>3, <3>4, Zenon
  <2>4. CASE ~(j < i) /\ j # i
    <3>1. j # 1 /\ ~(j - 1 < i) /\ (j - 1) + 1 = j /\ j + 1 # i + 1 /\ i # m /\ i + 1 \in 1..m
      BY <1>2, <2>4
    <3>2. q[j] = w[j + 1] /\ q[j - 1] = w[j]
      BY <1>9, <2>1, <2>4, <3>1, Zenon
    <3>3. w[j + 1] # x
      BY <1>2, <1>6, <2>1, <3>1, Zenon
    <3>4. L.prev[w[j + 1]] = w[j]
      BY <1>3, <2>1, Zenon
    <3> QED
      BY <1>1, <1>7, <2>1, <3>1, <3>2, <3>3, <3>4, Zenon
  <2> QED
    BY <2>2, <2>3, <2>4, Zenon
<1>14. K.cur[n] \in (U \ {a}) \cup {None}
  <2>1. x \in (U \ {a}) \cup {None}
    <3>1. CASE i = m
      BY <1>6, <3>1, Zenon
    <3>2. CASE i # m
      <4>1. i + 1 \in 1..m /\ i + 1 # i
        BY <1>2, <3>2
      <4> QED
        BY <1>2, <1>6, <3>2, <4>1, Zenon
    <3> QED
      BY <3>1, <3>2, Zenon
  <2> QED
    BY <1>2, <1>7, <2>1, Zenon
<1>15. Chained(K, n, q)
  BY <1>8, <1>11, <1>12, Zenon DEF Chained
<1> QED
  BY <1>8, <1>13, <1>14, <1>15, Zenon DEF Lists

\* What new_arena_locked writes when it puts an arena in front.
Fronted(L, n, a) ==
    [head |-> [L.head EXCEPT ![n] = a],
     cur  |-> [L.cur EXCEPT ![n] = a],
     next |-> [L.next EXCEPT ![a] = L.head[n]],
     prev |-> IF L.head[n] = None THEN L.prev ELSE [L.prev EXCEPT ![L.head[n]] = a]]

\* K is L with a in front of h, the former head.
PutInFront(K, L, n, a, h) ==
    /\ K \in Links /\ K.head[n] = a /\ K.cur[n] = a /\ K.next[a] = h
    /\ \A m \in Node \ {n} : K.head[m] = L.head[m] /\ K.cur[m] = L.cur[m]
    /\ \A b \in Arena \ {a} : K.next[b] = L.next[b]
    /\ \A b \in Arena : K.prev[b] = IF b = h THEN a ELSE L.prev[b]

\* The links of an arena put in front, and what it leaves alone.
LEMMA FrontedIs ==
    ASSUME NEW n \in Node, NEW a \in Arena, NEW L \in Links, NEW K, K = Fronted(L, n, a),
           NEW h, h = L.head[n]
    PROVE  PutInFront(K, L, n, a, h)
<1>1. /\ K.head = [L.head EXCEPT ![n] = a] /\ K.cur = [L.cur EXCEPT ![n] = a]
      /\ K.next = [L.next EXCEPT ![a] = h]
      /\ K.prev = IF h = None THEN L.prev ELSE [L.prev EXCEPT ![h] = a]
      /\ K = [head |-> K.head, cur |-> K.cur, next |-> K.next, prev |-> K.prev]
  BY DEF Fronted
<1>2. /\ L.head \in [Node -> Ref] /\ L.cur \in [Node -> Ref] /\ L.next \in [Arena -> Ref]
      /\ L.prev \in [Arena -> Ref] /\ h \in Arena \cup {None} /\ a \in Ref /\ h \in Ref
  BY DEF Links, Ref
<1>3. None \notin Arena
  BY ConstAssumption
<1>4. /\ K.head \in [Node -> Ref] /\ K.cur \in [Node -> Ref] /\ K.next \in [Arena -> Ref]
      /\ K.prev \in [Arena -> Ref]
  BY <1>1, <1>2
<1>5. K \in Links
  BY <1>1, <1>4, Zenon DEF Links
<1>6. \A b \in Arena : K.prev[b] = IF b = h THEN a ELSE L.prev[b]
  BY <1>1, <1>2, <1>3
<1>7. /\ K.head[n] = a /\ K.cur[n] = a /\ K.next[a] = h
      /\ \A m \in Node \ {n} : K.head[m] = L.head[m] /\ K.cur[m] = L.cur[m]
      /\ \A b \in Arena \ {a} : K.next[b] = L.next[b]
  BY <1>1, <1>2
<1> QED
  BY <1>5, <1>6, <1>7, Zenon DEF PutInFront

\* a before w.
Prepended(w, a) == [j \in 1..(Len(w) + 1) |-> IF j = 1 THEN a ELSE w[j - 1]]

\* An arena put in front heads the list, and the rest follows it.
LEMMA FrontLists ==
    ASSUME NEW n \in Node, NEW L \in Links, NEW w \in Seq(Arena), NEW U, Lists(L, n, w, U),
           NEW a \in Arena, a \notin U, L.prev[a] = None, NEW K, K = Fronted(L, n, a),
           NEW q, q = Prepended(w, a)
    PROVE  q \in Seq(Arena) /\ Lists(K, n, q, U \cup {a})
<1>1. PICK m \in Nat : m = Len(w) /\ DOMAIN w = 1..m /\ \A j \in 1..m : w[j] \in Arena /\ w[j] # None
  BY ConstAssumption
<1>2. PICK h : h = L.head[n]
  BY Zenon
<1>3. /\ K \in Links /\ K.head[n] = a /\ K.cur[n] = a /\ K.next[a] = h
      /\ \A b \in Arena \ {a} : K.next[b] = L.next[b]
      /\ \A b \in Arena : K.prev[b] = IF b = h THEN a ELSE L.prev[b]
  <2>1. PutInFront(K, L, n, a, h)
    BY <1>2, FrontedIs, Zenon
  <2> QED
    BY <2>1, Zenon DEF PutInFront
<1>4. /\ \A j, k \in 1..m : j # k => w[j] # w[k]
      /\ {w[j] : j \in 1..m} = U
      /\ \A j \in 1..m : w[j] \in U /\ w[j] # a
  BY <1>1, Zenon DEF Lists
<1>5. /\ \A j \in 1..m : L.next[w[j]] = IF j = m THEN None ELSE w[j + 1]
      /\ \A j \in 1..m : L.prev[w[j]] = IF j = 1 THEN None ELSE w[j - 1]
  BY <1>1, Zenon DEF Lists, Chained
<1>6. h = IF m = 0 THEN None ELSE w[1]
  <2>1. w = <<>> <=> m = 0
    BY <1>1
  <2> QED
    BY <1>2, <2>1, Zenon DEF Lists, Chained
<1>7. q = [j \in 1..(m + 1) |-> IF j = 1 THEN a ELSE w[j - 1]]
  BY <1>1, Zenon DEF Prepended
<1>8. \A j \in 1..(m + 1) : j # 1 => j - 1 \in 1..m
  OBVIOUS
<1>9. q \in [1..(m + 1) -> Arena]
  BY <1>1, <1>7, <1>8
<1>10. q \in Seq(Arena) /\ Len(q) = m + 1 /\ DOMAIN q = 1..(m + 1) /\ q # <<>>
  BY <1>9
<1>11. q[1] = a /\ 1 \in 1..(m + 1) /\ \A j \in 1..(m + 1) : j # 1 => q[j] = w[j - 1]
  BY <1>7
<1>12. ASSUME NEW j \in 1..(m + 1), NEW k \in 1..(m + 1), j # k PROVE q[j] # q[k]
  <2>1. CASE j = 1
    <3>1. q[k] = w[k - 1] /\ k - 1 \in 1..m
      BY <1>8, <1>11, <1>12, <2>1, Zenon
    <3> QED
      BY <1>4, <1>11, <2>1, <3>1, Zenon
  <2>2. CASE k = 1
    <3>1. q[j] = w[j - 1] /\ j - 1 \in 1..m
      BY <1>8, <1>11, <1>12, <2>2, Zenon
    <3> QED
      BY <1>4, <1>11, <2>2, <3>1, Zenon
  <2>3. CASE j # 1 /\ k # 1
    <3>1. j - 1 # k - 1
      BY <1>12
    <3>2. j - 1 \in 1..m /\ k - 1 \in 1..m /\ q[j] = w[j - 1] /\ q[k] = w[k - 1]
      BY <1>8, <1>11, <2>3, Zenon
    <3> QED
      BY <1>4, <3>1, <3>2, Zenon
  <2> QED
    BY <2>1, <2>2, <2>3, Zenon
<1>13. {q[j] : j \in 1..(m + 1)} = U \cup {a}
  <2>1. ASSUME NEW z \in {q[j] : j \in 1..(m + 1)} PROVE z \in U \cup {a}
    <3>1. PICK j \in 1..(m + 1) : z = q[j]
      BY Zenon
    <3>2. j # 1 => w[j - 1] \in U
      BY <1>4, <1>8, Zenon
    <3>3. j # 1 => q[j] = w[j - 1]
      BY <1>11, Zenon
    <3>4. j = 1 => q[j] = a
      BY <1>11, Zenon
    <3> QED
      BY <3>1, <3>2, <3>3, <3>4, Zenon
  <2>2. ASSUME NEW z \in U PROVE z \in {q[j] : j \in 1..(m + 1)}
    <3>1. PICK k \in 1..m : z = w[k]
      BY <1>4, Zenon
    <3>2. k + 1 \in 1..(m + 1) /\ k + 1 # 1 /\ (k + 1) - 1 = k
      OBVIOUS
    <3>3. q[k + 1] = w[k]
      BY <1>11, <3>2
    <3> QED
      BY <3>1, <3>2, <3>3, Zenon
  <2>3. a \in {q[j] : j \in 1..(m + 1)}
    BY <1>11, Zenon
  <2>4. PICK Q : Q = {q[j] : j \in 1..(m + 1)}
    BY Zenon
  <2> QED
    BY <2>1, <2>2, <2>3, <2>4, Zenon
<1>14. ASSUME NEW j \in 1..(m + 1) PROVE K.next[q[j]] = IF j = m + 1 THEN None ELSE q[j + 1]
  <2>1. CASE j = 1
    <3>1. (j = m + 1 <=> m = 0) /\ (m # 0 => 2 \in 1..(m + 1) /\ 2 - 1 = 1 /\ 2 # 1)
      BY <2>1
    <3>2. m # 0 => q[2] = w[1]
      BY <1>11, <3>1
    <3>3. K.next[q[j]] = h /\ j + 1 = 2
      BY <1>3, <1>11, <2>1
    <3> QED
      BY <1>6, <3>1, <3>2, <3>3, Zenon
  <2>2. CASE j # 1
    <3>1. PICK k \in 1..m : k = j - 1
      BY <1>8, <2>2, Zenon
    <3>2. (k = m <=> j = m + 1) /\ (k # m => j + 1 \in 1..(m + 1) /\ j + 1 # 1 /\ (j + 1) - 1 = k + 1)
      BY <3>1
    <3>3. q[j] = w[k] /\ (k # m => q[j + 1] = w[k + 1])
      BY <1>11, <2>2, <3>1, <3>2
    <3>4. K.next[w[k]] = L.next[w[k]]
      BY <1>1, <1>3, <1>4, Zenon
    <3>5. L.next[w[k]] = IF k = m THEN None ELSE w[k + 1]
      BY <1>5, Zenon
    <3> QED
      BY <3>2, <3>3, <3>4, <3>5, Zenon
  <2> QED
    BY <2>1, <2>2, Zenon
<1>15. ASSUME NEW j \in 1..(m + 1) PROVE K.prev[q[j]] = IF j = 1 THEN None ELSE q[j - 1]
  <2>1. CASE j = 1
    <3>1. 1 \in 1..m \/ m = 0
      OBVIOUS
    <3>2. a # h
      BY <1>4, <1>6, <3>1, ConstAssumption, Zenon
    <3> QED
      BY <1>3, <1>11, <2>1, <3>2, Zenon
  <2>2. CASE j # 1
    <3>1. PICK k \in 1..m : k = j - 1
      BY <1>8, <2>2, Zenon
    <3>2. q[j] = w[k]
      BY <1>11, <2>2, <3>1, Zenon
    <3>3. m # 0 /\ 1 \in 1..m /\ (k = 1 => j - 1 = 1) /\ (k # 1 => k - 1 \in 1..m /\ k \in 1..(m + 1))
      BY <3>1
    <3>4. CASE k = 1
      <4>1. w[k] = h /\ w[k] \in Arena
        BY <1>1, <1>6, <3>3, <3>4, Zenon
      <4>2. K.prev[w[k]] = a
        BY <1>3, <4>1, Zenon
      <4>3. q[j - 1] = a
        BY <1>11, <3>3, <3>4, Zenon
      <4> QED
        BY <2>2, <3>2, <4>2, <4>3, Zenon
    <3>5. CASE k # 1
      <4>1. w[k] # h
        BY <1>4, <1>6, <3>3, <3>5, Zenon
      <4>2. K.prev[w[k]] = L.prev[w[k]] /\ L.prev[w[k]] = w[k - 1]
        BY <1>1, <1>3, <1>5, <3>5, <4>1
      <4>3. q[k] = w[k - 1]
        BY <1>11, <3>3, <3>5, Zenon
      <4> QED
        BY <2>2, <3>1, <3>2, <4>2, <4>3, Zenon
    <3> QED
      BY <3>4, <3>5, Zenon
  <2> QED
    BY <2>1, <2>2, Zenon
<1>16. Chained(K, n, q)
  <2>1. K.head[n] = IF q = <<>> THEN None ELSE q[1]
    BY <1>3, <1>10, <1>11, Zenon
  <2>2. \A j \in DOMAIN q : K.next[q[j]] = IF j = Len(q) THEN None ELSE q[j + 1]
    BY <1>10, <1>14, Zenon
  <2> QED
    BY <2>1, <2>2, Zenon DEF Chained
<1> QED
  BY <1>3, <1>10, <1>12, <1>13, <1>15, <1>16, ZenonT(30) DEF Lists


\* Every node's list runs through its arenas U.
Listed(L, U) == \A m \in Node : \E w \in Seq(Arena) : Lists(L, m, w, U[m])

\* The arenas of two nodes are different.
Apart(U, n) ==
    /\ \A m \in Node : m # n => U[m] \cap U[n] = {}
    /\ \A m \in Node : U[m] \subseteq Arena

\* V is U once arena a of node n is carved up to end.
Carved(U, V, n, a, end, pages) ==
    /\ pages - end < MinPages => V[n] = U[n] \ {a}
    /\ ~(pages - end < MinPages) => V[n] = U[n]
    /\ \A m \in Node : m # n => V[m] = U[m]

\* K differs from L only in the fields of node n and the links of the arenas A.
SameOutside(K, L, n, A) ==
    /\ \A m \in Node \ {n} : K.head[m] = L.head[m] /\ K.cur[m] = L.cur[m]
    /\ \A b \in Arena : b \notin A => K.next[b] = L.next[b] /\ K.prev[b] = L.prev[b]

\* The nodes but n keep their arenas, which are not in A.
Others(U, V, n, A) == \A m \in Node : m # n => V[m] = U[m] /\ U[m] \cap A = {}

\* remove_arena leaves the other nodes' fields and the arenas outside the list alone.
LEMMA UnlinkFrame ==
    ASSUME NEW n \in Node, NEW L \in Links, NEW w \in Seq(Arena), NEW U, Lists(L, n, w, U),
           NEW i \in 1..Len(w), NEW a, a = w[i], NEW K, K = Unlink(n, a, L)
    PROVE  SameOutside(K, L, n, U)
<1>1. PICK m \in Nat : m = Len(w) /\ DOMAIN w = 1..m /\ i \in 1..m /\ a \in Arena
  OBVIOUS
<1>2. PICK p : p = L.prev[a]
  BY Zenon
<1>3. PICK x : x = L.next[a]
  BY Zenon
<1>4. \A j \in 1..m : w[j] \in U
  BY <1>1, Zenon DEF Lists
<1>5. p \in U \cup {None}
  <2>1. p = IF i = 1 THEN None ELSE w[i - 1]
    BY <1>1, <1>2, Zenon DEF Lists
  <2>2. i # 1 => i - 1 \in 1..m
    BY <1>1
  <2> QED
    BY <1>4, <2>1, <2>2, Zenon
<1>6. x \in U \cup {None}
  <2>1. x = IF i = m THEN None ELSE w[i + 1]
    BY <1>1, <1>3, Zenon DEF Lists, Chained
  <2>2. i # m => i + 1 \in 1..m
    BY <1>1
  <2> QED
    BY <1>4, <2>1, <2>2, Zenon
<1>7. Bridged(K, L, n, a, p, x)
  BY <1>1, <1>2, <1>3, UnlinkIs, Zenon
<1>8. ASSUME NEW b \in Arena, b \notin U PROVE b # p /\ b # x
  BY <1>5, <1>6, <1>8, ConstAssumption, Zenon
<1> QED
  BY <1>7, <1>8, Zenon DEF Bridged, SameOutside

\* A list none of whose arenas or fields may change stays as it is.
LEMMA Outside ==
    ASSUME NEW L, NEW K, NEW n \in Node, NEW A, SameOutside(K, L, n, A),
           NEW m \in Node, m # n, NEW w, NEW U \in SUBSET Arena, U \cap A = {}, Lists(L, m, w, U)
    PROVE  Lists(K, m, w, U)
<1>1. K.head[m] = L.head[m] /\ K.cur[m] = L.cur[m]
  BY Zenon DEF SameOutside
<1>2. \A b \in U : K.next[b] = L.next[b] /\ K.prev[b] = L.prev[b]
  <2>1. \A b \in U : b \in Arena /\ b \notin A
    BY Zenon
  <2> QED
    BY <2>1, Zenon DEF SameOutside
<1>3. \A i \in DOMAIN w : w[i] \in U
  BY Zenon DEF Lists
<1>4. \A i \in DOMAIN w : K.next[w[i]] = L.next[w[i]] /\ K.prev[w[i]] = L.prev[w[i]]
  BY <1>2, <1>3, Zenon
<1>5. Chained(K, m, w)
  BY <1>1, <1>4, Zenon DEF Lists, Chained
<1> QED
  BY <1>1, <1>4, <1>5, Zenon DEF Lists

\* One list is rewritten, the others stay.
LEMMA OneList ==
    ASSUME NEW n \in Node, NEW L, NEW K, NEW U, NEW V, Listed(L, U), Apart(U, n),
           NEW A, Others(U, V, n, A), SameOutside(K, L, n, A),
           NEW q \in Seq(Arena), Lists(K, n, q, V[n])
    PROVE  Listed(K, V)
<1>1. ASSUME NEW m \in Node, m # n PROVE \E v \in Seq(Arena) : Lists(K, m, v, V[m])
  <2>1. PICK v \in Seq(Arena) : Lists(L, m, v, U[m])
    BY Zenon DEF Listed
  <2>2. U[m] \in SUBSET Arena /\ U[m] \cap A = {} /\ V[m] = U[m]
    BY <1>1, Zenon DEF Apart, Others
  <2>3. Lists(K, m, v, U[m])
    BY <1>1, <2>1, <2>2, Outside, Zenon
  <2> QED
    BY <2>2, <2>3, Zenon
<1> QED
  BY <1>1, Zenon DEF Listed

\* Taking pages from arena a of node n: the list loses it exactly when it is
\* given up, the lists of the other nodes stay, and so do the links of the
\* arenas outside n's list.
LEMMA AdvanceLists ==
    ASSUME NEW n \in Node, NEW L \in Links, NEW U, NEW V, Listed(L, U), Apart(U, n),
           NEW a \in U[n], NEW end, NEW pages, Advance(n, a, end, pages, L),
           Carved(U, V, n, a, end, pages)
    PROVE  Listed(list', V) /\ SameOutside(list', L, n, U[n])
<1>1. CASE ~(pages - end < MinPages)
  <2>1. list' = L
    BY <1>1, Zenon DEF Advance
  <2>2. \A m \in Node : V[m] = U[m]
    BY <1>1, Zenon DEF Carved
  <2> QED
    BY <2>1, <2>2, Zenon DEF Listed, SameOutside
<1>2. CASE pages - end < MinPages
  <2>1. PICK K : K = list' /\ K = Unlink(n, a, L)
    BY <1>2, Zenon DEF Advance
  <2>2. PICK w \in Seq(Arena) : Lists(L, n, w, U[n])
    BY Zenon DEF Listed
  <2>3. PICK i \in 1..Len(w) : w[i] = a
    <3>1. DOMAIN w = 1..Len(w)
      OBVIOUS
    <3> QED
      BY <2>2, <3>1, Zenon DEF Lists
  <2>4. PICK q : q = Without(w, i)
    BY Zenon
  <2>5. q \in Seq(Arena) /\ Lists(K, n, q, V[n])
    <3>1. q \in Seq(Arena) /\ Lists(K, n, q, U[n] \ {a})
      BY <2>1, <2>2, <2>3, <2>4, UnlinkLists, Zenon
    <3> QED
      BY <1>2, <3>1, Zenon DEF Carved
  <2>6. SameOutside(K, L, n, U[n])
    BY <2>1, <2>2, <2>3, UnlinkFrame, Zenon
  <2>7. Others(U, V, n, U[n])
    BY Zenon DEF Carved, Apart, Others
  <2>8. Listed(K, V)
    BY <2>5, <2>6, <2>7, OneList, Zenon
  <2> QED
    BY <2>1, <2>6, <2>8, Zenon
<1> QED
  BY <1>1, <1>2, Zenon

\* An arena that no list has is put in front of node n's list; the other
\* lists stay.
LEMMA FrontListed ==
    ASSUME NEW n \in Node, NEW L \in Links, NEW U, NEW V, Listed(L, U), Apart(U, n),
           NEW a \in Arena, \A m \in Node : a \notin U[m], L.prev[a] = None,
           V[n] = U[n] \cup {a}, \A m \in Node : m # n => V[m] = U[m],
           NEW K, K = Fronted(L, n, a)
    PROVE  K \in Links /\ Listed(K, V) /\ SameOutside(K, L, n, V[n])
<1>1. PICK w \in Seq(Arena) : Lists(L, n, w, U[n])
  BY Zenon DEF Listed
<1>2. PICK q : q = Prepended(w, a)
  BY Zenon
<1>3. q \in Seq(Arena) /\ Lists(K, n, q, V[n])
  <2>1. q \in Seq(Arena) /\ Lists(K, n, q, U[n] \cup {a})
    BY <1>1, <1>2, FrontLists, Zenon
  <2> QED
    BY <2>1, Zenon
<1>4. PICK h : h = L.head[n]
  BY Zenon
<1>5. h \in U[n] \cup {None}
  <2>1. w # <<>> => 1 \in DOMAIN w
    OBVIOUS
  <2>2. h = IF w = <<>> THEN None ELSE w[1]
    BY <1>1, <1>4, Zenon DEF Lists, Chained
  <2>3. \A i \in DOMAIN w : w[i] \in U[n]
    BY <1>1, Zenon DEF Lists
  <2> QED
    BY <2>1, <2>2, <2>3, Zenon
<1>6. PutInFront(K, L, n, a, h)
  BY <1>4, FrontedIs, Zenon
<1>7. SameOutside(K, L, n, V[n])
  <2>1. ASSUME NEW b \in Arena, b \notin V[n] PROVE b # a /\ b # h
    BY <1>5, <2>1, ConstAssumption, Zenon
  <2> QED
    BY <1>6, <2>1, Zenon DEF PutInFront, SameOutside
<1>8. Others(U, V, n, V[n])
  BY Zenon DEF Apart, Others
<1>9. Listed(K, V)
  BY <1>3, <1>7, <1>8, OneList, Zenon
<1>10. K \in Links
  BY <1>6, Zenon DEF PutInFront
<1> QED
  BY <1>7, <1>9, <1>10, Zenon


\* What keeps the lists in shape: the arenas of a list are mapped, finitely
\* many, and an arena not yet mapped has no prev link, for new_arena_locked
\* does not write the one of the arena it puts in front.
ListInv ==
    /\ IsFiniteSet(mapped)
    /\ \A a \in Arena \ mapped : list.prev[a] = None
    /\ \A n \in Node : \E w \in Seq(Arena) : Lists(list, n, w, Usable(n))

\* Then the walk of a list meets exactly the usable arenas of its node.
LEMMA ShapeFromInv ==
    ASSUME IInv, ListInv, NEW n \in Node
    PROVE  Lists(list, n, Walk(n), Usable(n))
<1>1. PICK w \in Seq(Arena) : Lists(list, n, w, Usable(n))
  BY Zenon DEF ListInv
<1>2. PICK U : U = Usable(n)
  BY Zenon
<1>3. U \in SUBSET mapped /\ mapped \subseteq Arena /\ IsFiniteSet(mapped)
  BY <1>2 DEF Usable, IInv, TypeOK, ListInv
<1>4. Walk(n) = w
  BY <1>1, <1>2, <1>3, WalkIs, Zenon
<1> QED
  BY <1>1, <1>4, Zenon

\* The arenas of two nodes are different.
LEMMA UsableApart ==
    ASSUME IInv, NEW n \in Node
    PROVE  /\ Usable(n) \subseteq mapped /\ Usable(n) \subseteq Arena
           /\ \A m \in Node : m # n => Usable(m) \cap Usable(n) = {}
<1>1. mapped \subseteq Arena
  BY Zenon DEF IInv, TypeOK
<1> QED
  BY <1>1, Zenon DEF Usable

\* Without arenas every list is empty.
LEMMA InitListInv == Init => ListInv
<1> SUFFICES ASSUME Init PROVE ListInv
  OBVIOUS
<1>1. IsFiniteSet(mapped)
  BY FS_EmptySet, Zenon DEF Init
<1>2. \A a \in Arena \ mapped : list.prev[a] = None
  BY DEF Init
<1>3. ASSUME NEW n \in Node PROVE Lists(list, n, <<>>, Usable(n))
  <2>1. list.head[n] = None /\ list.cur[n] = None
    BY DEF Init
  <2>2. Usable(n) = {}
    BY DEF Init, Usable
  <2>3. DOMAIN <<>> = {}
    OBVIOUS
  <2> QED
    BY <2>1, <2>2, <2>3, Zenon DEF Lists, Chained
<1>4. <<>> \in Seq(Arena)
  OBVIOUS
<1> QED
  BY <1>1, <1>2, <1>3, <1>4, Zenon DEF ListInv

\* Pages taken from an arena of the list.
LEMMA CarveLists ==
    ASSUME IInv, ListInv, NEW n \in Node, NEW a \in Usable(n), NEW end \in Nat,
           Advance(n, a, end, size[a], list), UNCHANGED <<mapped, home, size>>
    PROVE  ListInv'
<1>1. PICK U : U = [m \in Node |-> Usable(m)]
  BY Zenon
<1>2. PICK V : V = [m \in Node |-> Usable(m)']
  BY Zenon
<1>3. /\ used' = [used EXCEPT ![a] = end] /\ used \in [Arena -> Nat] /\ size \in [Arena -> Nat]
      /\ mapped \subseteq Arena /\ list \in Links /\ a \in mapped /\ home[a] = n /\ a \in Arena
      /\ size[a] - used[a] >= MinPages /\ MinPages \in Nat
  BY ConstAssumption DEF IInv, TypeOK, Advance, Usable
<1>4. used'[a] = end /\ \A b \in Arena : b # a => used'[b] = used[b]
  BY <1>3
<1>5. /\ U[n] = Usable(n) /\ a \in U[n] /\ V[n] = Usable(n)'
      /\ \A m \in Node : U[m] = Usable(m) /\ V[m] = Usable(m)'
  BY <1>1, <1>2
<1>6. size[a] - end < MinPages => V[n] = U[n] \ {a}
  <2>1. size[a] - end < MinPages => Usable(n)' = Usable(n) \ {a}
    BY <1>3, <1>4 DEF Usable
  <2> QED
    BY <1>5, <2>1, Zenon
<1>7. ~(size[a] - end < MinPages) => V[n] = U[n]
  <2>1. ~(size[a] - end < MinPages) => Usable(n)' = Usable(n)
    BY <1>3, <1>4 DEF Usable
  <2> QED
    BY <1>5, <2>1, Zenon
<1>8. ASSUME NEW m \in Node, m # n PROVE V[m] = U[m]
  <2>1. Usable(m)' = Usable(m)
    BY <1>3, <1>4, <1>8 DEF Usable
  <2> QED
    BY <1>5, <2>1, Zenon
<1>9. Listed(list, U) /\ Carved(U, V, n, a, end, size[a])
  BY <1>5, <1>6, <1>7, <1>8, Zenon DEF Listed, ListInv, Carved
<1>10. Apart(U, n)
  BY <1>5, UsableApart, Zenon DEF Apart
<1>11. PICK s : s = size[a]
  BY Zenon
<1>12. Advance(n, a, end, s, list) /\ Carved(U, V, n, a, end, s)
  BY <1>9, <1>11, Zenon
<1>13. Listed(list', V) /\ SameOutside(list', list, n, U[n])
  BY <1>3, <1>5, <1>9, <1>10, <1>12, AdvanceLists, Zenon
<1>14. \A b \in Arena \ mapped' : list'.prev[b] = None
  <2>1. ASSUME NEW b \in Arena \ mapped PROVE b \notin U[n]
    BY <1>5, UsableApart, Zenon
  <2> QED
    BY <1>13, <2>1, Zenon DEF ListInv, SameOutside
<1>15. \A m \in Node : \E w \in Seq(Arena) : Lists(list', m, w, Usable(m)')
  BY <1>5, <1>13, Zenon DEF Listed
<1> QED
  BY <1>14, <1>15 DEF ListInv

\* allocate_current and allocate_search take an arena of the list.
LEMMA AllocListedLists ==
    ASSUME IInv, ListInv, NEW id \in Nat, NEW k \in Nat \ {0}, AllocListed(id, k)
    PROVE  ListInv'
<1>1. PICK n \in Node : n = NodeOf(id)
  BY NodeOfType, Zenon
<1>2. PICK w : w = Walk(n) /\ Lists(list, n, w, Usable(n))
  BY ShapeFromInv, Zenon
<1>3. PICK a \in Arena :
         /\ a = list.cur[n] \/ \E i \in DOMAIN w : w[i] = a
         /\ Advance(n, a, used[a] + k, size[a], list)
         /\ UNCHANGED <<mapped, home, size>>
  BY <1>1, <1>2, Zenon DEF AllocListed
<1>4. a \in Usable(n)
  <2>1. list.cur[n] \in Usable(n) \cup {None} /\ \A i \in DOMAIN w : w[i] \in Usable(n)
    BY <1>2, Zenon DEF Lists
  <2>2. a # None
    BY ConstAssumption, Zenon
  <2> QED
    BY <1>3, <2>1, <2>2, Zenon
<1>5. PICK end \in Nat : end = used[a] + k
  BY DEF IInv, TypeOK
<1>6. Advance(n, a, end, size[a], list)
  BY <1>3, <1>5, Zenon
<1> QED
  BY <1>3, <1>4, <1>6, CarveLists

\* try_grow_inplace takes pages of an arena it found in the list.
LEMMA TryGrowLists ==
    ASSUME IInv, ListInv, NEW s \in spans, NEW k \in Nat, TryGrow(s, k)
    PROVE  ListInv'
<1>1. s.node \in Nat /\ s.off \in Nat
  BY DEF IInv, TypeOK, Span
<1>2. PICK n \in Node : n = NodeOf(s.node)
  BY <1>1, NodeOfType, Zenon
<1>3. PICK w : w = Walk(n) /\ Lists(list, n, w, Usable(n))
  BY ShapeFromInv, Zenon
<1>4. PICK a : a = s.arena
  BY Zenon
<1>5. PICK end \in Nat : end = s.off + k
  BY <1>1
<1>6. /\ \E i \in DOMAIN w : w[i] = a
      /\ Advance(n, a, end, size[a], list) /\ UNCHANGED <<mapped, home, size>>
  BY <1>2, <1>3, <1>4, <1>5, Zenon DEF TryGrow
<1>7. a \in Usable(n)
  <2>1. \A i \in DOMAIN w : w[i] \in Usable(n)
    BY <1>3, Zenon DEF Lists
  <2> QED
    BY <1>6, <2>1, Zenon
<1> QED
  BY <1>6, <1>7, CarveLists

\* new_arena_locked puts the new arena in front; the request may already use
\* it up, and then remove_arena takes it out again.
LEMMA AllocNewLists ==
    ASSUME IInv, ListInv, NEW id \in Nat, NEW k \in Nat \ {0}, AllocNew(id, k)
    PROVE  ListInv'
<1>1. PICK n \in Node : n = NodeOf(id)
  BY NodeOfType, Zenon
<1>2. PICK s \in Nat : s = ArenaSize(k)
  BY ConstAssumption DEF ArenaSize
<1>3. PICK a \in Arena \ mapped :
         /\ mapped' = mapped \cup {a} /\ home' = [home EXCEPT ![a] = n]
         /\ size' = [size EXCEPT ![a] = s]
         /\ Advance(n, a, k, s, Fronted(list, n, a))
  BY <1>1, <1>2, Zenon DEF AllocNew, Fronted
<1>4. PICK L : L = Fronted(list, n, a)
  BY Zenon
<1>5. PICK U : U = [m \in Node |-> Usable(m)]
  BY Zenon
<1>6. PICK W : W = [m \in Node |-> IF m = n THEN Usable(m) \cup {a} ELSE Usable(m)]
  BY Zenon
<1>7. PICK V : V = [m \in Node |-> Usable(m)']
  BY Zenon
<1>8. /\ \A m \in Node : U[m] = Usable(m) /\ V[m] = Usable(m)'
      /\ W[n] = U[n] \cup {a} /\ \A m \in Node : m # n => W[m] = U[m]
  BY <1>5, <1>6, <1>7
<1>9. /\ used \in [Arena -> Nat] /\ size \in [Arena -> Nat] /\ home \in [Arena -> Node]
      /\ mapped \subseteq Arena /\ list \in Links /\ MinPages \in Nat
  BY ConstAssumption DEF IInv, TypeOK
<1>10. used' = [used EXCEPT ![a] = k]
  BY <1>3, Zenon DEF Advance
<1>11. /\ home'[a] = n /\ size'[a] = s /\ used'[a] = k
       /\ \A b \in Arena : b # a => home'[b] = home[b] /\ size'[b] = size[b] /\ used'[b] = used[b]
  BY <1>3, <1>9, <1>10
<1>12. Carved(W, V, n, a, k, s)
  <2>1. s - k < MinPages => Usable(n)' = Usable(n)
    BY <1>3, <1>9, <1>11 DEF Usable
  <2>2. ~(s - k < MinPages) => Usable(n)' = Usable(n) \cup {a}
    BY <1>3, <1>9, <1>11 DEF Usable
  <2>3. ASSUME NEW m \in Node, m # n PROVE Usable(m)' = Usable(m)
    BY <1>3, <1>9, <1>11, <2>3 DEF Usable
  <2>4. a \notin Usable(n)
    BY <1>3, UsableApart, Zenon
  <2> QED
    BY <1>8, <2>1, <2>2, <2>3, <2>4, Zenon DEF Carved
<1>13. Listed(list, U) /\ list.prev[a] = None
  BY <1>8, Zenon DEF Listed, ListInv
<1>14. Apart(U, n) /\ \A m \in Node : a \notin U[m]
  BY <1>3, <1>8, UsableApart, Zenon DEF Apart
<1>15. L \in Links /\ Listed(L, W) /\ SameOutside(L, list, n, W[n])
  BY <1>4, <1>8, <1>9, <1>13, <1>14, FrontListed, Zenon
<1>16. Apart(W, n) /\ a \in W[n]
  <2>1. ASSUME NEW m \in Node, m # n PROVE W[m] \cap W[n] = {} /\ W[m] \subseteq Arena
    <3>1. W[m] = U[m] /\ U[m] \cap U[n] = {} /\ U[m] \subseteq Arena /\ a \notin U[m]
      BY <1>8, <1>14, <2>1, Zenon DEF Apart
    <3> QED
      BY <1>8, <3>1, Zenon
  <2>2. W[n] \subseteq Arena /\ a \in W[n]
    BY <1>3, <1>8, <1>14, Zenon DEF Apart
  <2> QED
    BY <2>1, <2>2, Zenon DEF Apart
<1>17. Advance(n, a, k, s, L)
  BY <1>3, <1>4, Zenon
<1>18. Listed(list', V) /\ SameOutside(list', L, n, W[n])
  BY <1>12, <1>15, <1>16, <1>17, AdvanceLists, Zenon
<1>19. \A b \in Arena \ mapped' : list'.prev[b] = None
  <2>1. ASSUME NEW b \in Arena \ mapped' PROVE b \notin mapped /\ b \notin W[n]
    BY <1>3, <1>8, UsableApart, Zenon
  <2> QED
    BY <1>15, <1>18, <2>1, Zenon DEF ListInv, SameOutside
<1>20. IsFiniteSet(mapped')
  BY <1>3, FS_AddElement, Zenon DEF ListInv
<1>21. \A m \in Node : \E w \in Seq(Arena) : Lists(list', m, w, Usable(m)')
  BY <1>8, <1>18, Zenon DEF Listed
<1> QED
  BY <1>19, <1>20, <1>21 DEF ListInv

\* The lists of the page backend stay in shape, for any number of nodes and
\* arenas: after any sequence of alloc and try_grow_inplace, a walk of a
\* node's list meets each of its arenas with room exactly once, and no other.
THEOREM ListShapeAlways == Spec => []ListShape
<1>1. IInv /\ ListInv /\ [Next]_vars => ListInv'
  <2> SUFFICES ASSUME IInv, ListInv, [Next]_vars PROVE ListInv'
    OBVIOUS
  <2>1. CASE Next
    <3>1. PICK k \in 1..MaxPages :
             \/ \E id \in 0..Nodes : AllocListed(id, k) \/ AllocNew(id, k)
             \/ \E s \in spans : TryGrow(s, k)
      BY <2>1, Zenon DEF Next
    <3>2. k \in Nat \ {0} /\ k \in Nat /\ 0..Nodes \subseteq Nat
      BY ConstAssumption
    <3> QED
      BY <3>1, <3>2, AllocListedLists, AllocNewLists, TryGrowLists, Zenon
  <2>2. CASE UNCHANGED vars
    BY <2>2, Zenon DEF vars, ListInv, Usable
  <2> QED
    BY <2>1, <2>2, Zenon
<1>2. IInv /\ ListInv => ListShape
  BY ShapeFromInv, Zenon DEF ListShape
<1> QED
  BY InitListInv, Inductive, <1>1, <1>2, PTL DEF Spec
===============================================================================
