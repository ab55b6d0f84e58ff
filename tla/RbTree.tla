------------------------------- MODULE RbTree -------------------------------
(***************************************************************************)
(* The red-black tree of src/src/rbtree.c and src/include/rbtree.h, with   *)
(* the leftmost-cached root.  rb_add, rb_erase and rb_replace_node start   *)
(* an operation; each iteration of the rebalancing loops of __rb_insert    *)
(* and ____rb_erase_color is one step, so that the loop invariants the     *)
(* code's comments claim can be checked between iterations.                *)
(*                                                                         *)
(* The code writes every case twice, for a left and for a right child;     *)
(* here a case takes the side d, and e is the other one.  The words        *)
(* __rb_parent_color are split into parent and color.  The fields of a     *)
(* node that is not in the tree are the caller's; they are never read, and *)
(* the model clears them.                                                  *)
(*                                                                         *)
(* The tree is augmented the way RB_DECLARE_CALLBACKS_MAX does it: every   *)
(* node caches the largest weight of its subtree.  rb_add and rb_erase run *)
(* the same code with callbacks that do nothing.                           *)
(***************************************************************************)
EXTENDS Integers, Sequences, FiniteSets

CONSTANTS Nodes, NULL,
          Key,     \* Nodes -> Int, what the caller's cmp compares
          Weight   \* Nodes -> Nat, the caller's RBCOMPUTE of a node

ASSUME RbTreeAssumption ==
    /\ NULL \notin Nodes /\ IsFiniteSet(Nodes)
    /\ Key \in [Nodes -> Int] /\ Weight \in [Nodes -> Nat]

RED   == "red"
BLACK == "black"
Sides == {"left", "right"}
Other(d) == IF d = "left" THEN "right" ELSE "left"

VARIABLES t,         \* the tree: [root, parent, color, left, right, max]
          leftmost,  \* rb_root_cached.rb_leftmost
          op         \* the operation in progress: [kind, node, parent]

vars == <<t, leftmost, op>>

Idle == [kind |-> "idle", node |-> NULL, parent |-> NULL]
Ptr  == Nodes \cup {NULL}

Init ==
    /\ t = [root |-> NULL, parent |-> [n \in Nodes |-> NULL], color |-> [n \in Nodes |-> RED],
            left |-> [n \in Nodes |-> NULL], right |-> [n \in Nodes |-> NULL], max |-> [n \in Nodes |-> 0]]
    /\ leftmost = NULL /\ op = Idle

InTree(n) == n = t.root \/ t.parent[n] # NULL

-----------------------------------------------------------------------------
(***************************************************************************)
(* Helpers of rbtree.h and rbtree.c, on a tree x                           *)
(***************************************************************************)
IsRed(x, n)   == n # NULL /\ x.color[n] = RED
IsBlack(x, n) == ~IsRed(x, n)   \* "!n || rb_is_black(n)"

rb_set_parent_color(x, n, p, c) == [x EXCEPT !.parent[n] = p, !.color[n] = c]
rb_set_parent(x, n, p) == [x EXCEPT !.parent[n] = p]
rb_set_child(x, n, d, c) == [x EXCEPT ![d][n] = c]

\* if (n) rb_set_parent_color(n, p, RB_BLACK)
BlackenUnder(x, n, p) == IF n = NULL THEN x ELSE rb_set_parent_color(x, n, p, BLACK)

rb_change_child(x, old, new, p) ==
    IF p = NULL THEN [x EXCEPT !.root = new]
    ELSE rb_set_child(x, p, IF x.left[p] = old THEN "left" ELSE "right", new)

rb_rotate_set_parents(x, old, new, c) ==
    LET p == x.parent[old]
        y == rb_set_parent_color(x, new, p, x.color[old])
    IN  rb_change_child(rb_set_parent_color(y, old, new, c), old, new, p)

Larger(a, b) == IF a > b THEN a ELSE b

\* compute_max: the largest of the node's weight and its children's max
ComputeMax(x, n) ==
    LET Of(c) == IF c = NULL THEN 0 ELSE x.max[c]
    IN  Larger(Weight[n], Larger(Of(x.left[n]), Of(x.right[n])))

copy(x, old, new) == [x EXCEPT !.max[new] = x.max[old]]

\* faulty variant: the lower node of a rotation keeps what it had
RotateOnlyCopies(x, old, new) == copy(x, old, new)

rotate(x, old, new) == LET y == copy(x, old, new) IN [y EXCEPT !.max[old] = ComputeMax(y, old)]

\* up from n until stop, or until a node's max does not change
propagate(x, n, stop) ==
    LET g[k \in 0 .. Cardinality(Nodes)] ==
          IF k = 0 THEN [tree |-> x, rb |-> n]
          ELSE LET h == g[k - 1]   y == h.tree   m == h.rb
               IN  IF m = stop \/ y.max[m] = ComputeMax(y, m) THEN [tree |-> y, rb |-> stop]
                   ELSE [tree |-> [y EXCEPT !.max[m] = ComputeMax(y, m)], rb |-> y.parent[m]]
    IN  g[Cardinality(Nodes)].tree

\* the side of parent on which node hangs; node may be NULL
SideOf(x, node, parent) == IF node # x.right[parent] THEN "left" ELSE "right"

Down(x, n, d) == LET f[m \in Nodes] == IF x[d][m] = NULL THEN m ELSE f[x[d][m]] IN f[n]

rb_first(x) == IF x.root = NULL THEN NULL ELSE Down(x, x.root, "left")
rb_last(x)  == IF x.root = NULL THEN NULL ELSE Down(x, x.root, "right")

\* rb_next for d = "right", rb_prev for d = "left": down the other way from
\* the child, or up to the first ancestor reached from its other side
rb_step(x, n, d) ==
    LET up[m \in Nodes] == IF x.parent[m] # NULL /\ m = x[d][x.parent[m]] THEN up[x.parent[m]]
                           ELSE x.parent[m]
    IN  IF x[d][n] # NULL THEN Down(x, x[d][n], Other(d)) ELSE up[n]

rb_left_deepest_node(x, n) ==
    LET f[m \in Nodes] == IF x.left[m] # NULL THEN f[x.left[m]]
                          ELSE IF x.right[m] # NULL THEN f[x.right[m]] ELSE m
    IN  f[n]

rb_next_postorder(x, n) ==
    LET p == x.parent[n]
    IN  IF p # NULL /\ n = x.left[p] /\ x.right[p] # NULL
        THEN rb_left_deepest_node(x, x.right[p]) ELSE p

rb_find_first(x, k) ==
    LET f[m \in Ptr] == IF m = NULL THEN NULL
                        ELSE IF k > Key[m] THEN f[x.right[m]]
                        ELSE LET r == f[x.left[m]] IN IF r = NULL /\ k = Key[m] THEN m ELSE r
    IN  f[x.root]

-----------------------------------------------------------------------------
(***************************************************************************)
(* rb_add: descend, rb_link_node, then the loop of __rb_insert             *)
(***************************************************************************)
\* faulty variant: an equal key goes to the left
GoLeftOnEqual(n, m) == Key[n] <= Key[m]

GoLeft(n, m) == Key[n] < Key[m]

\* where the descent for n ends: [parent, d, leftmost], and the nodes it passes
Descent(n) ==
    LET f[m \in Nodes] ==
          LET d == IF GoLeft(n, m) THEN "left" ELSE "right"
          IN  IF t[d][m] = NULL THEN [parent |-> m, d |-> d, leftmost |-> d = "left", path |-> {m}]
              ELSE [f[t[d][m]] EXCEPT !.leftmost = @ /\ d = "left", !.path = @ \cup {m}]
    IN  f[t.root]

rb_link_node(n, p, d) ==
    LET y == [t EXCEPT !.parent[n] = p, !.color[n] = RED, !.left[n] = NULL, !.right[n] = NULL]
    IN  IF p = NULL THEN [y EXCEPT !.root = n] ELSE rb_set_child(y, p, d, n)

\* the caller of rb_insert_augmented updates the path to the new node first
PathUpdated(x, path, n) ==
    [x EXCEPT !.max = [m \in Nodes |-> IF m = n THEN Weight[n]
                                       ELSE IF m \in path THEN Larger(@[m], Weight[n]) ELSE @[m]]]

\* rb_add on a cached root; rb_insert_color_cached gets "leftmost" from a
\* descent that never went right
rb_add(n) ==
    /\ op.kind = "idle" /\ ~InTree(n)
    /\ IF t.root = NULL
       THEN /\ t' = PathUpdated(rb_link_node(n, NULL, "left"), {}, n)
            /\ leftmost' = n /\ op' = [kind |-> "insert", node |-> n, parent |-> NULL]
       ELSE LET w == Descent(n)
            IN  /\ t' = PathUpdated(rb_link_node(n, w.parent, w.d), w.path, n)
                /\ leftmost' = IF w.leftmost THEN n ELSE leftmost
                /\ op' = [kind |-> "insert", node |-> n, parent |-> w.parent]

\* the inserted node is the root, or its parent is black
InsertEnds ==
    /\ op.kind = "insert" /\ IsBlack(t, op.parent)
    /\ t' = IF op.parent = NULL THEN rb_set_parent_color(t, op.node, NULL, BLACK) ELSE t
    /\ op' = Idle /\ UNCHANGED leftmost

RedParent == op.kind = "insert" /\ IsRed(t, op.parent)

\* faulty variant: the loop flips the colors but stays where it is
FlippedStays(g) == op

\* the loop goes on with a red grandparent
FlippedUp(g) == [op EXCEPT !.node = g, !.parent = t.parent[g]]

\* Case 1: the uncle is red; flip colors and go on at the grandparent
InsertFlip ==
    LET p == op.parent
        g == t.parent[p]
        u == t[Other(SideOf(t, p, g))][g]
        y == rb_set_parent_color(rb_set_parent_color(t, u, g, BLACK), p, g, BLACK)
    IN  /\ RedParent /\ IsRed(t, u)
        /\ t' = [y EXCEPT !.color[g] = RED]
        /\ op' = FlippedUp(g)
        /\ UNCHANGED leftmost

\* Cases 2 and 3: rotate an inner child outwards, then rotate at the
\* grandparent
InsertRotate ==
    LET n == op.node   p == op.parent
        g == t.parent[p]
        d == SideOf(t, p, g)   e == Other(d)
        inner == n = t[e][p]
        c == t[d][n]
        x2 == rb_set_child(rb_set_child(t, p, e, c), n, d, p)
        x  == IF inner THEN rotate(rb_set_parent_color(BlackenUnder(x2, c, p), p, n, RED), p, n) ELSE t
        q  == IF inner THEN n ELSE p
        tmp == x[e][q]
        y  == rb_set_child(rb_set_child(x, g, d, tmp), q, e, g)
    IN  /\ RedParent /\ ~IsRed(t, t[e][g])
        /\ t' = rotate(rb_rotate_set_parents(BlackenUnder(y, tmp, g), g, q, RED), g, q)
        /\ op' = Idle /\ UNCHANGED leftmost

-----------------------------------------------------------------------------
(***************************************************************************)
(* rb_erase: __rb_erase_augmented, then the loop of ____rb_erase_color     *)
(***************************************************************************)
Cleared(x, n) == [x EXCEPT !.parent[n] = NULL, !.color[n] = RED, !.left[n] = NULL, !.right[n] = NULL,
                           !.max[n] = 0]

\* the tree without n and the node at which to rebalance, or NULL
Unlink(n) ==
    LET l == t.left[n]   r == t.right[n]   p == t.parent[n]
        one == IF l = NULL THEN r ELSE l
    IN  IF l = NULL \/ r = NULL
        THEN \* at most one child: it takes n's place, parent and color
             LET y == rb_change_child(t, n, one, p)
             IN  IF one # NULL
                 THEN [tree |-> propagate(rb_set_parent_color(y, one, p, t.color[n]), p, NULL), fix |-> NULL]
                 ELSE [tree |-> propagate(y, p, NULL), fix |-> IF t.color[n] = BLACK THEN p ELSE NULL]
        ELSE \* the successor s takes n's place
             LET s   == Down(t, r, "left")
                 sp  == IF s = r THEN s ELSE t.parent[s]
                 c2  == t.right[s]
                 y0  == rb_set_parent(rb_set_child(rb_set_child(t, sp, "left", c2), s, "right", r), r, s)
                 y1  == IF s = r THEN copy(t, n, s) ELSE propagate(copy(y0, n, s), sp, s)
                 y2  == rb_set_parent(rb_set_child(y1, s, "left", l), l, s)
                 y3  == rb_set_parent_color(rb_change_child(y2, n, s, p), s, p, t.color[n])
             IN  IF c2 # NULL
                 THEN [tree |-> propagate(rb_set_parent_color(y3, c2, sp, BLACK), s, NULL), fix |-> NULL]
                 ELSE [tree |-> propagate(y3, s, NULL), fix |-> IF t.color[s] = BLACK THEN sp ELSE NULL]

\* faulty variant: the cached leftmost node is not moved on
LeftmostStale(n) == leftmost

\* rb_erase_cached moves on with rb_next before it erases
LeftmostAfter(n) == IF leftmost = n THEN rb_step(t, n, "right") ELSE leftmost

rb_erase(n) ==
    LET u == Unlink(n)
    IN  /\ op.kind = "idle" /\ InTree(n)
        /\ t' = Cleared(u.tree, n)
        /\ leftmost' = LeftmostAfter(n)
        /\ op' = IF u.fix = NULL THEN Idle ELSE [kind |-> "erase", node |-> NULL, parent |-> u.fix]

\* Case 1: a red sibling is rotated above the parent; afterwards it is black
BlackSibling(p, d) ==
    LET e == Other(d)
        s == t[e][p]
        c == t[d][s]
        y == rb_set_child(rb_set_child(t, p, e, c), s, d, p)
    IN  IF IsRed(t, s)
        THEN rotate(rb_rotate_set_parents(rb_set_parent_color(y, c, p, BLACK), p, s, RED), p, s) ELSE t

\* faulty variant: the loop goes up with parent but not with node
EraseUpKeepsNode(x, p) ==
    IF IsRed(x, p) \/ x.parent[p] = NULL THEN Idle ELSE [op EXCEPT !.parent = x.parent[p]]

\* after the flip: a red parent turns black and makes up for the loss, the
\* root has no siblings to keep up with, else the loop goes on at the parent
EraseUp(x, p) ==
    IF IsRed(x, p) \/ x.parent[p] = NULL THEN Idle ELSE [op EXCEPT !.node = p, !.parent = x.parent[p]]

\* Case 2: both nephews are black; flip the sibling and go on at the parent
EraseFlip ==
    LET p == op.parent   d == SideOf(t, op.node, p)
        x == BlackSibling(p, d)
        s == x[Other(d)][p]
        y == rb_set_parent_color(x, s, p, RED)
    IN  /\ op.kind = "erase" /\ IsBlack(x, x.left[s]) /\ IsBlack(x, x.right[s])
        /\ t' = [y EXCEPT !.color[p] = BLACK]
        /\ op' = EraseUp(x, p)
        /\ UNCHANGED leftmost

\* Cases 3 and 4: a red inner nephew is rotated outwards first
EraseRotate ==
    LET p == op.parent   d == SideOf(t, op.node, p)   e == Other(d)
        x == BlackSibling(p, d)
        s == x[e][p]
        in == x[d][s]
        inner == IsBlack(x, x[e][s])
        c  == x[e][in]
        y3 == BlackenUnder(rb_set_child(rb_set_child(rb_set_child(x, s, d, c), in, e, s), p, e, in), c, s)
        y  == IF inner THEN rotate(y3, s, in) ELSE x
        q  == IF inner THEN in ELSE s           \* the sibling of Case 4
        far == IF inner THEN s ELSE x[e][s]
        near == y[d][q]
        z  == rb_set_parent_color(rb_set_child(rb_set_child(y, p, e, near), q, d, p), far, q, BLACK)
        z4 == IF near = NULL THEN z ELSE rb_set_parent(z, near, p)
    IN  /\ op.kind = "erase" /\ ~(IsBlack(x, x.left[s]) /\ IsBlack(x, x.right[s]))
        /\ t' = rotate(rb_rotate_set_parents(z4, p, q, BLACK), p, q)
        /\ op' = Idle /\ UNCHANGED leftmost

-----------------------------------------------------------------------------
\* faulty variant: the right child keeps pointing to the victim
AdoptLeftOnly(x, l, r, new) == IF l = NULL THEN x ELSE rb_set_parent(x, l, new)

\* the children get their new parent
Adopt(x, l, r, new) ==
    LET y == IF l = NULL THEN x ELSE rb_set_parent(x, l, new)
    IN  IF r = NULL THEN y ELSE rb_set_parent(y, r, new)

\* rb_replace_node_cached: new takes over the victim's place, and what the
\* caller's struct holds
rb_replace_node(victim, new) ==
    LET p == t.parent[victim]   l == t.left[victim]   r == t.right[victim]
        y == [t EXCEPT !.parent[new] = p, !.color[new] = t.color[victim], !.left[new] = l, !.right[new] = r,
                      !.max[new] = t.max[victim]]
        w == Adopt(y, l, r, new)
    IN  /\ op.kind = "idle" /\ InTree(victim) /\ ~InTree(new)
        /\ Key[victim] = Key[new] /\ Weight[victim] = Weight[new]
        /\ t' = Cleared(rb_change_child(w, victim, new, p), victim)
        /\ leftmost' = IF leftmost = victim THEN new ELSE leftmost
        /\ UNCHANGED op

InsertStep == InsertEnds \/ InsertFlip \/ InsertRotate
EraseStep  == EraseFlip \/ EraseRotate

Next == \/ \E n \in Nodes : rb_add(n) \/ rb_erase(n)
        \/ \E v, n \in Nodes : rb_replace_node(v, n)
        \/ InsertStep \/ EraseStep

Spec == Init /\ [][Next]_vars

-----------------------------------------------------------------------------
(***************************************************************************)
(* Properties                                                              *)
(***************************************************************************)
\* the nodes in order
InOrder == LET f[n \in Ptr] == IF n = NULL THEN <<>> ELSE f[t.left[n]] \o <<n>> \o f[t.right[n]]
           IN  f[t.root]

\* The numbers of black nodes on the paths from the root to the leaves; a
\* path through side d of node p (if any) counts one more.
BlackCounts(p, d) ==
    LET b[n \in Ptr] ==
          IF n = NULL THEN {0}
          ELSE LET k == IF t.color[n] = BLACK THEN 1 ELSE 0
                   S(side) == {m + k + (IF n = p /\ side = d THEN 1 ELSE 0) : m \in b[t[side][n]]}
               IN  S("left") \cup S("right")
    IN  b[t.root]

\* how many nodes are above n and n itself
Depth(x, n) == LET f[m \in Ptr] == IF m = NULL THEN 0 ELSE 1 + f[x.parent[m]] IN f[n]

RedPairs == {n \in Nodes : IsRed(t, n) /\ t.parent[n] # NULL /\ IsRed(t, t.parent[n])}

\* Parent and child pointers agree, between any two iterations: every child
\* pointer has its way back and every node but the root hangs somewhere.
LinksAgree ==
    /\ t.root # NULL => t.parent[t.root] = NULL
    /\ \A n \in Nodes, d \in Sides : t[d][n] # NULL => t.parent[t[d][n]] = n
    /\ \A n \in Nodes : t.parent[n] # NULL => \E d \in Sides : t[d][t.parent[n]] = n

\* Between operations the tree is a red-black tree: black root, no red node
\* under a red one, equally many black nodes on all paths.
RedBlack ==
    op.kind = "idle" => /\ IsBlack(t, t.root) /\ RedPairs = {}
                        /\ Cardinality(BlackCounts(NULL, "left")) = 1

\* "Loop invariant: node is red."  Moreover the only red pair is node and
\* its parent, and no path has lost or won a black node.
InsertLoop ==
    op.kind = "insert" => /\ t.color[op.node] = RED /\ t.parent[op.node] = op.parent
                          /\ RedPairs \subseteq {op.node}
                          /\ Cardinality(BlackCounts(NULL, "left")) = 1

\* The loop invariants of ____rb_erase_color: node is black or NULL, it is
\* not the root, and all paths through it have one black node too few.
EraseLoop ==
    op.kind = "erase" => /\ IsBlack(t, op.node) /\ op.parent # NULL
                         /\ \E d \in Sides : /\ t[d][op.parent] = op.node
                                             /\ Cardinality(BlackCounts(op.parent, d)) = 1
                         /\ RedPairs = {}

\* rb_first, rb_last, rb_next and rb_prev enumerate the nodes in order, both
\* ways and through both ends.
Iterates ==
    LET s == InOrder
        At(i) == IF i \in DOMAIN s THEN s[i] ELSE NULL
    IN  op.kind = "idle" =>
          /\ rb_first(t) = At(1) /\ rb_last(t) = At(Len(s))
          /\ \A i \in DOMAIN s : rb_step(t, s[i], "right") = At(i + 1) /\ rb_step(t, s[i], "left") = At(i - 1)

\* rb_find_first returns the first of the nodes with the key, NULL if there
\* is none, so that rb_next_match reaches all of them.
FindsFirst ==
    LET s == InOrder
    IN  op.kind = "idle" => \A n \in Nodes :
          LET m == rb_find_first(t, Key[n])
              hits == {i \in DOMAIN s : Key[s[i]] = Key[n]}
          IN  IF hits = {} THEN m = NULL
              ELSE \E i \in hits : m = s[i] /\ \A j \in hits : i <= j

\* "always visit the parent after its children": the postorder walk of the
\* safe iteration macro goes through every node once, children first.
PostorderVisits ==
    LET s == InOrder
        start == IF t.root = NULL THEN <<>> ELSE <<rb_left_deepest_node(t, t.root)>>
        w[k \in 0 .. Len(s)] ==
          IF k <= 1 THEN start
          ELSE LET v == w[k - 1]
                   e == rb_next_postorder(t, v[Len(v)])
               IN  IF e = NULL THEN v ELSE Append(v, e)
        walk == w[Len(s)]
    IN  op.kind = "idle" =>
          /\ Len(walk) = Len(s) /\ {walk[i] : i \in DOMAIN walk} = {s[i] : i \in DOMAIN s}
          /\ \A i, j \in DOMAIN walk : t.parent[walk[i]] = walk[j] => i < j

\* Between operations the tree is red-black, and in every iteration the loops
\* of both rebalancing functions keep the invariants their comments state.
LoopInvariants == RedBlack /\ InsertLoop /\ EraseLoop

\* Whatever the history of the tree, its readers see all nodes in order:
\* iteration, the search for a key and the postorder walk; and the cached
\* leftmost node is the first one, also while the tree is being rebalanced.
Traversals == Iterates /\ FindsFirst /\ PostorderVisits /\ leftmost = rb_first(t)

\* the nodes of the subtree at n
Subtree(n) == LET f[m \in Ptr] == IF m = NULL THEN {} ELSE {m} \cup f[t.left[m]] \cup f[t.right[m]] IN f[n]

\* Every node's cached value is the largest weight of its subtree, through
\* all rotations and although propagate stops at the first value that does
\* not change.
AugmentedMax ==
    \A n \in Subtree(t.root) : LET S == Subtree(n)
                               IN  /\ \E m \in S : t.max[n] = Weight[m]
                                   /\ \A m \in S : t.max[n] >= Weight[m]

List == INSTANCE SortedList WITH list <- InOrder

\* The tree implements a sorted list: insertions and erasures take effect at
\* their first step and no rotation or color flip reorders or drops a node.
ImplementsSortedList == List!Spec

\* Both loops come to an end: an iteration that is not the last one goes on
\* nearer to the root.
LoopsClimb ==
    [][op.kind # "idle" /\ op'.kind # "idle" => Depth(t', op'.parent) < Depth(t, op.parent)]_vars
=============================================================================
