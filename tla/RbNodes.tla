------------------------------ MODULE RbNodes ------------------------------
(***************************************************************************)
(* The routines of glox/intrusive_rb_tree.hpp on linked nodes, as operators*)
(* from one memory to the next: m[n] holds the pointers and the colour of  *)
(* node n.  A tree is named by its sentinel, whose parent is the root and  *)
(* whose left and right are the first and the last node (or itself).       *)
(***************************************************************************)
EXTENDS Integers, Sequences, FiniteSets

CONSTANTS
    Nodes,   \* the objects that carry an rb_tree_node
    Trees,   \* the trees of the program, as their sentinels
    Tmp,     \* the sentinel of swap's local tree
    Null,    \* the null pointer
    KeyOf    \* the key of each object

Sentinels == Trees \cup {Tmp}
Ptr  == Nodes \cup Sentinels \cup {Null}
Node == [parent : Ptr, left : Ptr, right : Ptr, color : {"red", "black"}]

ASSUME NodesAssumption ==
    /\ IsFiniteSet(Nodes)
    /\ Null \notin Nodes \cup Sentinels
    /\ Nodes \cap Sentinels = {}
    /\ Tmp \notin Trees
    /\ KeyOf \in [Nodes -> Int]

Opposite(side) == IF side = "left" THEN "right" ELSE "left"

IsRed(m, n) == n # Null /\ m[n].color = "red"
IsBlack(m, n) == ~IsRed(m, n)

IsSentinel(m, n) ==
    /\ m[n].color = "red"
    /\ m[n].parent # Null
    /\ m[m[n].parent].parent = n

\* The last node on the way down from n by the given side.
Furthest(m, n, side) ==
    LET down[k \in Nodes] == IF m[k][side] = Null THEN k ELSE down[m[k][side]]
    IN  down[n]
Minimum(m, n) == Furthest(m, n, "left")
Maximum(m, n) == Furthest(m, n, "right")

\* Where climbing stops: the first <<x, y>>, y the parent of x, with x not y's child on side.
Climb(m, n, side) ==
    LET up[x \in Nodes \cup Sentinels] ==
            LET y == m[x].parent
            IN  IF y # Null /\ x = m[y][side] THEN up[y] ELSE <<x, y>>
    IN  up[n]

\* Bug: takes the right child itself, without going to its first node.
MutSuccessor(m, x) ==
    IF m[x].right # Null THEN m[x].right
    ELSE LET top == Climb(m, x, "right")
         IN  IF m[top[1]].right # top[2] THEN top[2] ELSE top[1]

Successor(m, x) ==
    IF m[x].right # Null THEN Minimum(m, m[x].right)
    ELSE LET top == Climb(m, x, "right")
         IN  IF m[top[1]].right # top[2] THEN top[2] ELSE top[1]

\* Bug: does not ask whether x is end().
MutPredecessor(m, x) ==
    IF m[x].left # Null THEN Maximum(m, m[x].left) ELSE Climb(m, x, "left")[2]

Predecessor(m, x) ==
    IF IsSentinel(m, x) THEN m[x].right
    ELSE IF m[x].left # Null THEN Maximum(m, m[x].left)
    ELSE Climb(m, x, "left")[2]

-----------------------------------------------------------------------------
(* Changing the structure.                                                 *)

ResetSentinel(m, t) ==
    [m EXCEPT ![t] = [parent |-> Null, left |-> t, right |-> t, color |-> "red"]]

\* What a node that leaves a tree is set to.
ResetNode(m, n) ==
    [m EXCEPT ![n] = [parent |-> Null, left |-> Null, right |-> Null, color |-> "red"]]

SetParent(m, n, p) == IF n = Null THEN m ELSE [m EXCEPT ![n].parent = p]
Paint(m, n, c) == [m EXCEPT ![n].color = c]

\* Bug: x loses the subtree between it and y.
MutRotate(m, t, x, dir) ==
    LET opp == Opposite(dir)
        y == m[x][opp]
        p == m[x].parent
        a == IF x = m[t].parent THEN [m EXCEPT ![t].parent = y]
             ELSE [m EXCEPT ![p][IF x = m[p][dir] THEN dir ELSE opp] = y]
    IN  [a EXCEPT ![x][opp] = Null, ![x].parent = y, ![y].parent = p, ![y][dir] = x]

\* Turn x down toward dir; its child on the other side takes its place.
Rotate(m, t, x, dir) ==
    LET opp == Opposite(dir)
        y == m[x][opp]
        p == m[x].parent
        a == SetParent(m, m[y][dir], x)
        b == IF x = m[t].parent THEN [a EXCEPT ![t].parent = y]
             ELSE [a EXCEPT ![p][IF x = m[p][dir] THEN dir ELSE opp] = y]
    IN  [b EXCEPT ![x][opp] = m[y][dir], ![x].parent = y, ![y].parent = p, ![y][dir] = x]

\* v, which may be null, takes the place of u under u's parent.
Transplant(m, t, u, v) ==
    LET p == m[u].parent
        side == IF u = m[p].left THEN "left" ELSE "right"
    IN  SetParent(IF u = m[t].parent THEN [m EXCEPT ![t].parent = v]
                                     ELSE [m EXCEPT ![p][side] = v], v, p)

\* Hang n, a red leaf, at pos; the first and the last node of the tree follow.
LinkAt(m, t, n, pos) ==
    LET p == pos.parent
        a == [m EXCEPT ![n] = [parent |-> p, left |-> Null, right |-> Null, color |-> "red"],
                       ![p][pos.link] = n]
    IN  IF p = t THEN [a EXCEPT ![t].left = n, ![t].right = n]
        ELSE IF p = m[t][pos.link] THEN [a EXCEPT ![t][pos.link] = n]
        ELSE a

\* Bug: takes every node for an outer one.
MutInner(m, z, p, opp) == FALSE

Inner(m, z, p, opp) == z = m[p][opp]

\* insert_fixup for the red node z under a red parent: the new memory and the node to
\* go on with.  Turning an inner z outwards, from which the code falls through to
\* the last case, is a round of its own.
InsertRound(m, t, z) ==
    LET p == m[z].parent
        g == m[p].parent
        dir == IF p = m[g].left THEN "left" ELSE "right"
        opp == Opposite(dir)
        uncle == m[g][opp]
    IN  CASE IsRed(m, uncle) ->
               [mem |-> Paint(Paint(Paint(m, p, "black"), uncle, "black"), g, "red"), z |-> g]
          [] IsBlack(m, uncle) /\ Inner(m, z, p, opp) -> [mem |-> Rotate(m, t, p, dir), z |-> p]
          [] OTHER -> [mem |-> Rotate(Paint(Paint(m, p, "black"), g, "red"), t, g, opp), z |-> z]

\* The node that leaves its place when z goes: z, or its successor, which takes z's.
Leaving(m, z) ==
    IF m[z].left = Null \/ m[z].right = Null THEN z ELSE Minimum(m, m[z].right)

\* Take z out: the new memory, the node x (or null) that may lack a black, its
\* parent, and the colour of the node that left its place.
Unlink(m, t, z) ==
    LET l == m[z].left
        r == m[z].right
        y == Leaving(m, z)
        near == m[y].parent = z
        a == IF near THEN m
             ELSE [Transplant(m, t, y, m[y].right) EXCEPT ![y].right = r, ![r].parent = y]
        Lone(c) == [mem |-> Transplant(m, t, z, c), x |-> c, parent |-> m[z].parent,
                    color |-> m[y].color]
    IN  CASE l = Null -> Lone(r)
          [] l # Null /\ r = Null -> Lone(l)
          [] OTHER -> [mem |-> [Transplant(a, t, z, y) EXCEPT ![y].left = l, ![l].parent = y,
                                                              ![y].color = m[z].color],
                       x |-> m[y].right,
                       parent |-> IF near THEN y ELSE m[y].parent,
                       color |-> m[y].color]

\* erase_fixup for x, black and not the root, under parent.  The two rotations from
\* which the code falls through are rounds of their own: w is read again after each.
EraseRound(m, t, x, parent) ==
    LET dir == IF x = m[parent].left THEN "left" ELSE "right"
        opp == Opposite(dir)
        w == m[parent][opp]
        Turned(a, n, d) == [mem |-> Rotate(a, t, n, d), x |-> x, parent |-> parent]
        last == Rotate(Paint(Paint(Paint(m, w, m[parent].color), parent, "black"),
                             m[w][opp], "black"), t, parent, dir)
    IN  CASE IsRed(m, w) ->
               Turned(Paint(Paint(m, w, "black"), parent, "red"), parent, dir)
          [] IsBlack(m, w) /\ IsBlack(m, m[w].left) /\ IsBlack(m, m[w].right) ->
               [mem |-> Paint(m, w, "red"), x |-> parent, parent |-> m[parent].parent]
          [] IsBlack(m, w) /\ IsRed(m, m[w][dir]) /\ IsBlack(m, m[w][opp]) ->
               Turned(Paint(Paint(m, m[w][dir], "black"), w, "red"), w, opp)
          [] OTHER -> [mem |-> last, x |-> last[t].parent, parent |-> parent]

-----------------------------------------------------------------------------
(* Looking up by key.                                                      *)

\* Where a key belongs: the link to hang it from, or the node that has it.
FindInsertPos(m, t, key) ==
    LET side(n) == IF key < KeyOf[n] THEN "left" ELSE "right"
        seek[n \in Nodes] ==
            IF KeyOf[n] = key THEN [parent |-> n, link |-> side(n), existing |-> n]
            ELSE IF m[n][side(n)] = Null
                 THEN [parent |-> n, link |-> side(n), existing |-> Null]
                 ELSE seek[m[n][side(n)]]
    IN  IF m[t].parent = Null THEN [parent |-> t, link |-> "parent", existing |-> Null]
        ELSE seek[m[t].parent]

\* The last node at which the way down turns left, leaving the nodes in below behind.
Bound(m, t, below) ==
    LET seek[n \in Nodes \cup {Null}] ==
            IF n = Null THEN t
            ELSE IF n \in below THEN seek[m[n].right]
            ELSE LET left == seek[m[n].left] IN IF left = t THEN n ELSE left
    IN  seek[m[t].parent]
LowerBound(m, t, key) == Bound(m, t, {n \in Nodes : KeyOf[n] < key})

\* Bug: stops at the key itself.
MutUpperBound(m, t, key) == Bound(m, t, {n \in Nodes : KeyOf[n] < key})

UpperBound(m, t, key) == Bound(m, t, {n \in Nodes : KeyOf[n] <= key})

Find(m, t, key) ==
    LET n == LowerBound(m, t, key) IN IF n # t /\ KeyOf[n] = key THEN n ELSE t

-----------------------------------------------------------------------------
(* The tree's own check.                                                   *)

\* The black height of the subtree at root (-1 when it is not a red-black tree)
\* and how many nodes it has.
VerifySubtree(m, root, above) ==
    LET walk[n \in Nodes \cup {Null}, p \in Nodes \cup Sentinels] ==
            LET l == walk[m[n].left, n]
                r == walk[m[n].right, n]
                ok == /\ m[n].parent = p
                      /\ ~(IsRed(m, n) /\ (IsRed(m, m[n].left) \/ IsRed(m, m[n].right)))
                      /\ l[1] >= 0 /\ l[1] = r[1]
            IN  IF n = Null THEN <<1, 0>>
                ELSE <<IF ok THEN l[1] + (IF m[n].color = "black" THEN 1 ELSE 0) ELSE -1,
                       l[2] + r[2] + 1>>
    IN  walk[root, above]

\* The nodes an iterator meets from n up to end().
WalkFrom(m, t, n) ==
    LET at[i \in 1..Cardinality(Nodes) + 1] ==
            IF i = 1 THEN n
            ELSE IF at[i - 1] = t THEN t ELSE Successor(m, at[i - 1])
    IN  SelectSeq(at, LAMBDA x : x # t)

VerifyCount(m, t, size) == VerifySubtree(m, m[t].parent, t)[2] = size

Verify(m, t, size) ==
    LET root == m[t].parent IN
    IF size = 0 THEN root = Null /\ m[t].left = t /\ m[t].right = t
    ELSE /\ root # Null
         /\ m[root].color = "black"
         /\ VerifySubtree(m, root, t)[1] >= 0
         /\ VerifyCount(m, t, size)
         /\ m[t].left = Minimum(m, root)
         /\ m[t].right = Maximum(m, root)
         /\ IsSentinel(m, t)
         /\ LET s == WalkFrom(m, t, m[t].left)
            IN  \A i \in 1..Len(s) - 1 : KeyOf[s[i]] < KeyOf[s[i + 1]]
=============================================================================
