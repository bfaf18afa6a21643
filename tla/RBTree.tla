------------------------------- MODULE RBTree -------------------------------
(***************************************************************************)
(* The red-black tree of common/red_black_tree.c, which holds the topics   *)
(* of a producer or a consumer.  A node is named after the object it       *)
(* stores.  A call runs down the tree and links or unlinks a node in one   *)
(* step; the two fix-up loops then take a step for every iteration.        *)
(*                                                                         *)
(* The source writes every case of the fix-ups twice, for left and for     *)
(* right; here the side is a parameter.  Following a null pointer is an    *)
(* application outside a function's domain, which TLC reports.             *)
(***************************************************************************)
EXTENDS Integers, FiniteSets, Sequences

CONSTANTS
    Objects,    \* objects that may be stored
    KeyOf,      \* KeyOf[o]: the key keycmp compares
    NIL         \* the null pointer

ASSUME RBTreeAssumption ==
    /\ IsFiniteSet(Objects)
    /\ NIL \notin Objects
    /\ KeyOf \in [Objects -> Int]

VARIABLES
    pc,         \* "idle", or the fix-up loop that is running
    nodes,      \* allocated nodes
    size,       \* tree->size
    tree,       \* root, and parent, color and children of every node
    curr,       \* curr_node of the running fix-up
    victim,     \* node that rbtree_remove_at() frees after the fix-up
    removed     \* history: has a node been removed since the tree was empty?

vars == <<pc, nodes, size, tree, curr, victim, removed>>

Sides == {"left", "right"}
Other(s) == IF s = "left" THEN "right" ELSE "left"
Pointers == Objects \cup {NIL}

Blank == [root   |-> NIL,
          parent |-> [n \in Objects |-> NIL],
          color  |-> [n \in Objects |-> "black"],
          kid    |-> [s \in Sides |-> [n \in Objects |-> NIL]]]

(* Definitions named X_Y are X with the plausible mistake Y; they show     *)
(* that the properties below notice it, and no specification uses them.    *)

Toward_Reversed(o, n) == IF KeyOf[o] < KeyOf[n] THEN "left" ELSE "right"

(* keycmp(object, node->object) > 0 leads to the left. *)
Toward(o, n) == IF KeyOf[o] > KeyOf[n] THEN "left" ELSE "right"

IsRed(h, n) == n # NIL /\ h.color[n] = "red"

Paint(h, n, c) == [h EXCEPT !.color[n] = c]

(* Which child of its parent n is. *)
Side(h, n) == IF n = h.kid["left"][h.parent[n]] THEN "left" ELSE "right"

Rotate_NoBacklink(h, s, x) ==
    LET y  == h.kid[Other(s)][x]
        t2 == h.kid[s][y]
        p  == h.parent[x]
    IN  [h EXCEPT
            !.root = IF p = NIL THEN y ELSE @,
            !.parent = [n \in Objects |-> IF n = x THEN y ELSE IF n = y THEN p ELSE h.parent[n]],
            !.kid = [d \in Sides |-> [n \in Objects |->
                        IF n = x /\ d = Other(s) THEN t2
                        ELSE IF n = y /\ d = s THEN x
                        ELSE IF n = p /\ d = Side(h, x) THEN y
                        ELSE h.kid[d][n]]]]

(* rbtree_rotate_left() and rbtree_rotate_right(): y, the child of x on    *)
(* the other side, takes the place of x, and x that of y's child t2.       *)
Rotate(h, s, x) ==
    LET y  == h.kid[Other(s)][x]
        t2 == h.kid[s][y]
        p  == h.parent[x]
    IN  [h EXCEPT
            !.root = IF p = NIL THEN y ELSE @,
            !.parent = [n \in Objects |-> IF n = x THEN y
                                         ELSE IF n = y THEN p
                                         ELSE IF n = t2 THEN x
                                         ELSE h.parent[n]],
            !.kid = [d \in Sides |-> [n \in Objects |->
                        IF n = x /\ d = Other(s) THEN t2
                        ELSE IF n = y /\ d = s THEN x
                        ELSE IF n = p /\ d = Side(h, x) THEN y
                        ELSE h.kid[d][n]]]]

(* rbnode_minimum() for "left", rbnode_maximum() for "right". *)
Outermost(h, s, n) ==
    LET down[m \in Objects] == IF h.kid[s][m] = NIL THEN m ELSE down[h.kid[s][m]]
    IN  down[n]

FindNode_WrongTurn(h, o) ==
    LET down[m \in Pointers] ==
            IF m = NIL \/ KeyOf[o] = KeyOf[m] THEN m
            ELSE down[h.kid[Other(Toward(o, m))][m]]
    IN  down[h.root]

(* rbtree_find() *)
FindNode(h, o) ==
    LET down[m \in Pointers] ==
            IF m = NIL \/ KeyOf[o] = KeyOf[m] THEN m
            ELSE down[h.kid[Toward(o, m)][m]]
    IN  down[h.root]

(* Where the loop of rbtree_insert() ends: the parent of the new leaf. *)
LeafParent(h, o) ==
    LET down[m \in Objects] ==
            LET next == h.kid[Toward(o, m)][m] IN IF next = NIL THEN m ELSE down[next]
    IN  down[h.root]

(* The order in which rbtree_traverse() (s = "left") and                   *)
(* rbtree_traverse_right() visit the objects.                              *)
Traverse(h, s) ==
    LET visit[n \in Pointers] ==
            IF n = NIL THEN << >>
            ELSE visit[h.kid[s][n]] \o <<n>> \o visit[h.kid[Other(s)][n]]
    IN  visit[h.root]

Init ==
    /\ pc = "idle"
    /\ nodes = {}
    /\ size = 0
    /\ tree = Blank
    /\ curr = NIL
    /\ victim = NIL
    /\ removed = FALSE

-----------------------------------------------------------------------------
(* Insertion. *)

(* The first node becomes a black root. *)
InsertRoot(o) ==
    /\ tree' = [tree EXCEPT !.root = o]
    /\ size' = 1
    /\ nodes' = nodes \cup {o}
    /\ UNCHANGED <<pc, curr, victim, removed>>

(* A red leaf for o below p, and on to rbtree_insert_fixup(). *)
InsertLeaf(o, p, s) ==
    /\ tree' = [tree EXCEPT !.kid[s][p] = o, !.parent[o] = p, !.color[o] = "red"]
    /\ size' = size + 1
    /\ nodes' = nodes \cup {o}
    /\ pc' = "insert_fixup"
    /\ curr' = o
    /\ UNCHANGED <<victim, removed>>

(* rbtree_insert(): equal keys are kept. *)
Insert(o) ==
    /\ pc = "idle" /\ o \notin nodes
    /\ IF tree.root = NIL THEN InsertRoot(o)
       ELSE LET p == LeafParent(tree, o) IN InsertLeaf(o, p, Toward(o, p))

(* rbtree_insert_unique(): the loop stops at a node with an equal key. *)
InsertUnique(o) ==
    /\ pc = "idle" /\ o \notin nodes
    /\ IF FindNode(tree, o) # NIL THEN UNCHANGED vars
       ELSE IF tree.root = NIL THEN InsertRoot(o)
       ELSE LET p == LeafParent(tree, o) IN InsertLeaf(o, p, Toward(o, p))

(* rbtree_insert_succ() for s = "right", rbtree_insert_pred() for "left":  *)
(* o goes next to node a; without a, to the far end of the tree.           *)
InsertNextTo(s, a, o) ==
    /\ pc = "idle" /\ o \notin nodes
    /\ IF tree.root = NIL THEN InsertRoot(o)
       ELSE IF a = NIL THEN InsertLeaf(o, Outermost(tree, Other(s), tree.root), Other(s))
       ELSE IF tree.kid[s][a] = NIL THEN InsertLeaf(o, a, s)
       ELSE InsertLeaf(o, Outermost(tree, Other(s), tree.kid[s][a]), Other(s))

(* The caller's part: "make sure the insertion does not violate the tree   *)
(* order".  Greater keys are on the left.                                  *)
Fits(s, a, o) ==
    LET q  == Traverse(tree, Other(s))
        at == IF a = NIL THEN 0 ELSE CHOOSE j \in 1 .. Len(q) : q[j] = a
    IN  \A j \in 1 .. Len(q) :
            IF (j <= at) = (s = "right") THEN KeyOf[q[j]] >= KeyOf[o] ELSE KeyOf[q[j]] <= KeyOf[o]

(* An iteration of rbtree_insert_fixup() below a red parent p: the uncle u *)
(* is red too, and the loop moves on to the grandparent...                 *)
InsertRecolor ==
    LET p == tree.parent[curr]
        g == tree.parent[p]
        u == tree.kid[Other(Side(tree, p))][g]
    IN
    /\ pc = "insert_fixup"
    /\ curr # tree.root /\ IsRed(tree, p) /\ IsRed(tree, u)
    /\ tree' = Paint(Paint(Paint(tree, p, "black"), u, "black"), g, "red")
    /\ curr' = g
    /\ UNCHANGED <<pc, nodes, size, victim, removed>>

(* ... or it is black or missing, and one or two rotations end the loop. *)
InsertRotate ==
    LET p == tree.parent[curr]
        g == tree.parent[p]
        s == Side(tree, p)
        inner == curr = tree.kid[Other(s)][p]
        h1 == IF inner THEN Rotate(tree, s, p) ELSE tree
        c1 == IF inner THEN p ELSE curr
        h2 == Paint(Paint(h1, h1.parent[c1], "black"), g, "red")
    IN
    /\ pc = "insert_fixup"
    /\ curr # tree.root /\ IsRed(tree, p) /\ ~IsRed(tree, tree.kid[Other(s)][g])
    /\ tree' = Rotate(h2, Other(s), g)
    /\ curr' = c1
    /\ UNCHANGED <<pc, nodes, size, victim, removed>>

InsertFixupEnd_RootStaysRed ==
    /\ pc = "insert_fixup"
    /\ curr = tree.root \/ ~IsRed(tree, tree.parent[curr])
    /\ pc' = "idle"
    /\ curr' = NIL
    /\ UNCHANGED <<nodes, size, tree, victim, removed>>

(* The loop is over; the root is painted black. *)
InsertFixupEnd ==
    /\ pc = "insert_fixup"
    /\ curr = tree.root \/ ~IsRed(tree, tree.parent[curr])
    /\ tree' = Paint(tree, tree.root, "black")
    /\ pc' = "idle"
    /\ curr' = NIL
    /\ UNCHANGED <<nodes, size, victim, removed>>

-----------------------------------------------------------------------------
(* Removal. *)

(* Swap n, which has two children, with its successor m; now says that m   *)
(* is the right child of n.                                                *)
SwapWithSuccessor(h, n) ==
    LET r   == h.kid["right"][n]
        m   == Outermost(h, "left", r)
        now == r = m
    IN  [h EXCEPT
            !.root = IF h.parent[n] = NIL THEN m ELSE @,
            !.color = [h.color EXCEPT ![m] = h.color[n], ![n] = h.color[m]],
            !.parent = [a \in Objects |->
                IF a = m THEN h.parent[n]
                ELSE IF a = n THEN (IF now THEN m ELSE h.parent[m])
                ELSE IF a \in {h.kid["left"][m], h.kid["right"][m]} THEN n
                ELSE IF a \in {h.kid["left"][n], r} THEN m
                ELSE h.parent[a]],
            !.kid = [d \in Sides |-> [a \in Objects |->
                IF a = m THEN (IF d = "right" /\ now THEN n ELSE h.kid[d][n])
                ELSE IF a = n THEN h.kid[d][m]
                ELSE IF a = h.parent[n] /\ d = Side(h, n) THEN m
                ELSE IF ~now /\ a = h.parent[m] /\ d = Side(h, m) THEN n
                ELSE h.kid[d][a]]]]

OnlyChild(h, n) ==
    IF h.kid["left"][n] # NIL THEN h.kid["left"][n] ELSE h.kid["right"][n]

(* Link the parent of n straight to its only child c. *)
SpliceOut(h, n, c) ==
    [h EXCEPT !.root = IF h.parent[n] = NIL THEN c ELSE @,
              !.parent = [a \in Objects |-> IF a = c THEN h.parent[n] ELSE h.parent[a]],
              !.kid = [d \in Sides |-> [a \in Objects |->
                  IF a = h.parent[n] /\ d = Side(h, n) THEN c ELSE h.kid[d][a]]]]

(* A freed node has no contents. *)
Free(h, n) ==
    [h EXCEPT !.parent[n] = NIL, !.color[n] = "black",
              !.kid["left"][n] = NIL, !.kid["right"][n] = NIL]

(* rbtree_remove_at(): the fix-up runs only if a black node with a child   *)
(* was spliced out.                                                        *)
RemoveAt(n) ==
    LET two   == tree.kid["left"][n] # NIL /\ tree.kid["right"][n] # NIL
        h1    == IF two THEN SwapWithSuccessor(tree, n) ELSE tree
        child == OnlyChild(h1, n)
        h2    == SpliceOut(h1, n, child)
    IN
    /\ pc = "idle" /\ n \in nodes
    /\ IF size = 1
       THEN /\ tree' = Blank /\ size' = 0 /\ nodes' = {} /\ removed' = FALSE
            /\ UNCHANGED <<pc, curr, victim>>
       ELSE /\ removed' = TRUE
            /\ IF h1.color[n] = "black" /\ child # NIL
               THEN /\ tree' = h2 /\ pc' = "remove_fixup" /\ curr' = child /\ victim' = n
                    /\ UNCHANGED <<nodes, size>>
               ELSE /\ tree' = Free(h2, n) /\ nodes' = nodes \ {n} /\ size' = size - 1
                    /\ UNCHANGED <<pc, curr, victim>>

(* rbtree_remove(): a key that is not there removes nothing. *)
Remove(o) ==
    LET n == FindNode(tree, o) IN
    /\ pc = "idle"
    /\ IF n = NIL THEN UNCHANGED vars ELSE RemoveAt(n)

(* rbtree_clean() *)
Clean ==
    /\ pc = "idle"
    /\ tree' = Blank /\ size' = 0 /\ nodes' = {} /\ removed' = FALSE
    /\ UNCHANGED <<pc, curr, victim>>

(* The iteration of rbtree_remove_fixup() once a red sibling, if there was *)
(* one, has been rotated away: w is the sibling of curr, which is on side  *)
(* s below p.  The result is the tree and the next curr_node.              *)
Rebalance(h, s, p, w) ==
    LET o     == Other(s)
        far   == h.kid[o][w]
        up(g) == IF h.color[p] = "red" THEN <<Paint(g, p, "black"), g.root>> ELSE <<g, p>>
    IN
    IF w = NIL THEN up(h)
    ELSE IF ~IsRed(h, h.kid[s][w]) /\ ~IsRed(h, far) THEN up(Paint(h, w, "red"))
    ELSE
    LET h1 == IF IsRed(h, far) THEN Rotate(Paint(h, far, "black"), s, p)
              ELSE LET g == Rotate(h, o, w) IN Rotate(g, s, g.kid[o][p])
        pp == h1.parent[p]
        h2 == IF pp # NIL THEN Paint(h1, pp, h1.color[p]) ELSE h1
        h3 == Paint(h2, p, "black")
    IN  <<h3, h3.root>>

RemoveFixup_StaysPut ==
    LET p  == tree.parent[curr]
        s  == Side(tree, curr)
        w  == tree.kid[Other(s)][p]
        h1 == IF IsRed(tree, w) THEN Rotate(Paint(Paint(tree, w, "black"), p, "red"), s, p)
              ELSE tree
    IN
    /\ pc = "remove_fixup"
    /\ curr # tree.root /\ ~IsRed(tree, curr)
    /\ tree' = Rebalance(h1, s, p, h1.kid[Other(s)][p])[1]
    /\ UNCHANGED <<pc, nodes, size, curr, victim, removed>>

(* One iteration of rbtree_remove_fixup(). *)
RemoveFixup ==
    LET p  == tree.parent[curr]
        s  == Side(tree, curr)
        w  == tree.kid[Other(s)][p]
        h1 == IF IsRed(tree, w) THEN Rotate(Paint(Paint(tree, w, "black"), p, "red"), s, p)
              ELSE tree
        r  == Rebalance(h1, s, p, h1.kid[Other(s)][p])
    IN
    /\ pc = "remove_fixup"
    /\ curr # tree.root /\ ~IsRed(tree, curr)
    /\ tree' = r[1]
    /\ curr' = r[2]
    /\ UNCHANGED <<pc, nodes, size, victim, removed>>

(* The loop is over: curr_node is painted black and the node is freed. *)
RemoveFixupEnd ==
    /\ pc = "remove_fixup"
    /\ curr = tree.root \/ IsRed(tree, curr)
    /\ tree' = Free(Paint(tree, curr, "black"), victim)
    /\ nodes' = nodes \ {victim}
    /\ size' = size - 1
    /\ pc' = "idle"
    /\ curr' = NIL
    /\ victim' = NIL
    /\ UNCHANGED removed

Step == InsertRecolor \/ InsertRotate \/ InsertFixupEnd \/ RemoveFixup \/ RemoveFixupEnd

Next ==
    \/ \E o \in Objects : Insert(o) \/ InsertUnique(o) \/ Remove(o)
    \/ \E o \in Objects, a \in nodes \cup {NIL}, s \in Sides :
           pc = "idle" /\ Fits(s, a, o) /\ InsertNextTo(s, a, o)
    \/ \E n \in Objects : RemoveAt(n)
    \/ Clean
    \/ Step

Spec == Init /\ [][Next]_vars

(* The thread in the call runs on. *)
FairSpec == Spec /\ WF_vars(Step)

-----------------------------------------------------------------------------
(* Properties. *)

(* Every node but the one being freed hangs in the tree once, between a    *)
(* parent and children that point back at it, and size counts the nodes:   *)
(* rotations, the swap in rbtree_remove_at() (red_black_tree.c:931-983)    *)
(* and the splice lose no node and leave no pointer to a freed one.  A     *)
(* fix-up loop is always at such a node and never climbs past the root     *)
(* (red_black_tree.c:357, "the root is always black, so the red parent     *)
(* must have a parent").                                                   *)
Linked ==
    LET linked == nodes \ {victim} IN
    /\ curr \in IF pc = "idle" THEN {NIL} ELSE linked
    /\ size = Cardinality(nodes)
    /\ tree.root = NIL <=> linked = {}
    /\ tree.root # NIL => tree.root \in linked /\ tree.parent[tree.root] = NIL
    /\ \A n \in linked : n # tree.root =>
           /\ tree.parent[n] \in linked
           /\ Cardinality({s \in Sides : tree.kid[s][tree.parent[n]] = n}) = 1
    /\ \A n \in linked, s \in Sides : tree.kid[s][n] # NIL =>
           tree.kid[s][n] \in linked /\ tree.parent[tree.kid[s][n]] = n

(* rbtree_traverse() visits every stored object exactly once, greatest key *)
(* first, also between the iterations of a fix-up: destroy() relies on it  *)
(* to release every topic (kafkatools_producer.c:528).                     *)
TraverseSorted ==
    LET q == Traverse(tree, "left") IN
    /\ Len(q) = Cardinality(nodes \ {victim})
    /\ {q[j] : j \in 1 .. Len(q)} = nodes \ {victim}
    /\ \A j \in 1 .. Len(q) - 1 : KeyOf[q[j]] >= KeyOf[q[j + 1]]

(* rbtree_find() finds a node with the key if there is one, and only then, *)
(* whatever was inserted and removed before: equal keys may have been      *)
(* rotated to either side of each other.                                   *)
FindsStored ==
    pc = "idle" => \A o \in Objects :
        LET n == FindNode(tree, o) IN
        IF \E m \in nodes : KeyOf[m] = KeyOf[o]
        THEN n \in nodes /\ KeyOf[n] = KeyOf[o]
        ELSE n = NIL

(* Numbers of black nodes on the ways from n down to a null pointer. *)
BlackDepths(h) ==
    LET below[n \in Pointers] ==
            IF n = NIL THEN {0}
            ELSE {d + (IF h.color[n] = "black" THEN 1 ELSE 0) :
                      d \in below[h.kid["left"][n]] \cup below[h.kid["right"][n]]}
    IN  below[h.root]

(* As long as nothing is removed the tree is red-black: all ways down have *)
(* the same number of black nodes, in every iteration of                   *)
(* rbtree_insert_fixup(), and the only red node with a red parent, or red  *)
(* root, is the node the loop is at (red_black_tree.c:343-438).  So        *)
(* rbtree_find() takes a logarithmic number of steps.                      *)
RedBlack ==
    ~removed =>
        /\ Cardinality(BlackDepths(tree)) = 1
        /\ \A n \in nodes : IsRed(tree, n) /\ (n = tree.root \/ IsRed(tree, tree.parent[n]))
                            => pc = "insert_fixup" /\ n = curr

(* Every call returns: both fix-up loops end, also in a tree that removals *)
(* have left without equal black depths.                                   *)
Returns == pc # "idle" ~> pc = "idle"

=============================================================================
