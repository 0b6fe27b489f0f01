------------------------------- MODULE RBTree --------------------------------
(***************************************************************************)
(* BIG_MAP, the red-black tree of src/internals/rbtree.rs.  insert, remove *)
(* and get hold the tree's spin lock, so each is one step.  A node is      *)
(* named by the key it holds (a deletion relinks nodes, it never moves     *)
(* keys), so alloc_node and free_node are implicit, and the metadata,      *)
(* which stays with its node, is left out.  The code is twice as long as   *)
(* this module for it spells out both sides; here a side is a parameter.   *)
(* A null pointer is outside the domain of the links: following one is an  *)
(* error of evaluation.                                                    *)
(***************************************************************************)
EXTENDS Naturals, FiniteSets

CONSTANT N    \* number of keys

Key == 1..N
Null == 0
Side == {"left", "right"}

ASSUME NAssumption == N \in Nat \ {0}

VARIABLES
    T,     \* root, links and colours
    keys   \* what the map should hold

vars == <<T, keys>>

Other(s) == IF s = "left" THEN "right" ELSE "left"

\* color_of: null is black.
Red(t, n) == n \in t.red

Kid(t, n, s) == t.kid[n][s]

SideOf(t, n) == IF n = Kid(t, t.up[n], "left") THEN "left" ELSE "right"

\* transplant: v takes u's place under u's parent.
Replace(t, u, v) ==
    LET p == t.up[u]
    IN  [t EXCEPT !.root = IF p = Null THEN v ELSE @,
                  !.kid = IF p = Null THEN @ ELSE [@ EXCEPT ![p][SideOf(t, u)] = v],
                  !.up = IF v = Null THEN @ ELSE [@ EXCEPT ![v] = p]]

\* Hangs c below n on side s, both ways.
Hang(t, n, s, c) ==
    [t EXCEPT !.kid[n][s] = c, !.up = IF c = Null THEN @ ELSE [@ EXCEPT ![c] = n]]

\* Mutant: the subtree between the two is dropped.
RotateDrops(t, x, s) ==
    LET y == Kid(t, x, Other(s))
    IN  Hang(Hang(Replace(t, x, y), x, Other(s), Null), y, s, x)

\* rotate_left and rotate_right: x goes down on side s, its other child up.
Rotate(t, x, s) ==
    LET y == Kid(t, x, Other(s))
    IN  Hang(Hang(Replace(t, x, y), x, Other(s), Kid(t, y, s)), y, s, x)

Paint(t, black, red) == [t EXCEPT !.red = (@ \ black) \cup red]

\* insert_fixup.
RECURSIVE InsertFixup(_, _)
InsertFixup(t, z) ==
    LET p == t.up[z]
    IN  IF p = Null \/ ~Red(t, p) THEN Paint(t, {t.root}, {})
        ELSE LET g == t.up[p]
                 s == SideOf(t, p)
                 y == Kid(t, g, Other(s))
             IN  IF Red(t, y)
                 THEN InsertFixup(Paint(t, {p, y}, {g}), g)
                 ELSE LET inner == z = Kid(t, p, Other(s))
                          a == IF inner THEN Rotate(t, p, s) ELSE t
                          low == IF inner THEN p ELSE z
                          mid == a.up[low]
                      IN  InsertFixup(Rotate(Paint(a, {mid}, {a.up[mid]}), a.up[mid], Other(s)), low)

\* find_node, and the node under which a missing key belongs.
RECURSIVE Seek(_, _, _, _)
Seek(t, k, x, y) ==
    IF x = Null \/ x = k THEN [at |-> x, under |-> y]
    ELSE Seek(t, k, Kid(t, x, IF k < x THEN "left" ELSE "right"), x)

\* tree_insert.
TreeInsert(t, k) ==
    LET place == Seek(t, k, t.root, Null)
        y == place.under
        z == [t EXCEPT !.kid[k] = [s \in Side |-> Null], !.up[k] = Null, !.red = @ \cup {k}]
    IN  IF place.at # Null THEN t
        ELSE InsertFixup(IF y = Null THEN [z EXCEPT !.root = k]
                         ELSE Hang(z, y, IF k < y THEN "left" ELSE "right", k), k)

\* Mutant: the sibling's far child keeps its colour.
DeleteLastFarRed(t, p, w, s) ==
    Rotate(Paint(t, {p}, IF Red(t, p) THEN {w} ELSE {}), p, s)

\* The last case of delete_fixup: w takes p's colour and place.
DeleteLast(t, p, w, s) ==
    LET far == Kid(t, w, Other(s))
        a == Paint(t, {w}, IF Red(t, p) THEN {w} ELSE {})
    IN  Rotate(Paint(a, {p, far}, {}), p, s)

\* delete_fixup.
RECURSIVE DeleteFixup(_, _, _)
DeleteFixup(t, x, p) ==
    IF x = t.root \/ Red(t, x) \/ p = Null THEN Paint(t, {x}, {})
    ELSE LET s == IF x = Kid(t, p, "left") THEN "left" ELSE "right"
             w0 == Kid(t, p, Other(s))
             a == IF Red(t, w0) THEN Rotate(Paint(t, {w0}, {p}), p, s) ELSE t
             w == Kid(a, p, Other(s))
             near == Kid(a, w, s)
             far == Kid(a, w, Other(s))
         IN  IF ~Red(a, near) /\ ~Red(a, far)
             THEN DeleteFixup(Paint(a, {}, {w}), p, a.up[p])
             ELSE LET b == IF Red(a, far) THEN a
                           ELSE Rotate(Paint(a, {near}, {w}), w, Other(s))
                      c == DeleteLast(b, p, Kid(b, p, Other(s)), s)
                  IN  Paint(c, {c.root}, {})

RECURSIVE Minimum(_, _)
Minimum(t, x) == IF Kid(t, x, "left") = Null THEN x ELSE Minimum(t, Kid(t, x, "left"))

\* The parent of the place that loses a node: y's, or y itself when it was
\* z's child.
HoleParent(t, z, y) == IF t.up[y] = z THEN y ELSE t.up[y]

\* delete_node.
DeleteNode(t, z) ==
    LET l == Kid(t, z, "left")
        r == Kid(t, z, "right")
    IN  IF l = Null \/ r = Null
        THEN LET x == IF l = Null THEN r ELSE l
                 a == Replace(t, z, x)
             IN  IF Red(t, z) THEN a ELSE DeleteFixup(a, x, t.up[z])
        ELSE LET y == Minimum(t, r)
                 x == Kid(t, y, "right")
                 a == IF t.up[y] = z THEN t ELSE Hang(Replace(t, y, x), y, "right", r)
                 b == Hang(Replace(a, z, y), y, "left", l)
                 c == Paint(b, {y}, IF Red(t, z) THEN {y} ELSE {})
             IN  IF Red(t, y) THEN c ELSE DeleteFixup(c, x, HoleParent(t, z, y))

\* The node goes back to the free list; its links are dead.
Forget(t, z) == [t EXCEPT !.kid[z] = [s \in Side |-> Null], !.up[z] = Null, !.red = @ \ {z}]

Init ==
    /\ T = [root |-> Null, kid |-> [k \in Key |-> [s \in Side |-> Null]],
            up |-> [k \in Key |-> Null], red |-> {}]
    /\ keys = {}

Insert(k) ==
    /\ T' = TreeInsert(T, k)
    /\ keys' = keys \cup {k}

Remove(k) ==
    LET at == Seek(T, k, T.root, Null).at
    IN  /\ T' = IF at = Null THEN T ELSE Forget(DeleteNode(T, at), at)
        /\ keys' = keys \ {k}

Next == \E k \in Key : Insert(k) \/ Remove(k)

Spec == Init /\ [][Next]_vars

------------------------------------------------------------------------------
(* Properties *)

RECURSIVE Below(_, _)
Below(t, n) ==
    IF n = Null THEN {} ELSE {n} \cup Below(t, Kid(t, n, "left")) \cup Below(t, Kid(t, n, "right"))

RECURSIVE Blacks(_, _)
Blacks(t, n) ==
    IF n = Null THEN 0 ELSE Blacks(t, Kid(t, n, "left")) + (IF Red(t, n) THEN 0 ELSE 1)

\* The links form one tree of the map's keys, parents match children, and the
\* left subtree of a node is below it, the right one above.
SearchTree ==
    /\ Below(T, T.root) = keys
    /\ T.root # Null => T.up[T.root] = Null
    /\ \A n \in keys : \A s \in Side :
           /\ Kid(T, n, s) # Null => T.up[Kid(T, n, s)] = n
           /\ \A m \in Below(T, Kid(T, n, s)) : IF s = "left" THEN m < n ELSE m > n

\* get finds a key exactly when it was inserted and not removed since, also
\* through nodes that rotations and transplants have relinked, and the links
\* still form a search tree both ways.
FindsAll ==
    /\ SearchTree
    /\ \A k \in Key : Seek(T, k, T.root, Null).at = (IF k \in keys THEN k ELSE Null)

\* Red-black balance after every fixup: the root is black, no red node has a
\* red child, and every path holds the same number of black nodes.
Balanced ==
    /\ ~Red(T, T.root)
    /\ \A n \in keys :
           /\ Red(T, n) => \A s \in Side : ~Red(T, Kid(T, n, s))
           /\ Blacks(T, Kid(T, n, "left")) = Blacks(T, Kid(T, n, "right"))

==============================================================================
