------------------------------ MODULE RbTree -------------------------------
(***************************************************************************)
(* rb_tree_map of glox/intrusive_rb_tree.hpp, over its ordered and its     *)
(* plain intrusive tree.  A call is a first step that does all it does     *)
(* before its loop, one step per round of the loop, and a last step.       *)
(*                                                                         *)
(* A node is a map_entry with its key; which one the allocator returns is  *)
(* the choice of the node.  Mapped values are left out.                    *)
(***************************************************************************)
EXTENDS RbNodes, Functions

CONSTANT MaxShared    \* bound: how many entries there are when more than one tree has some

VARIABLES
    mem,    \* the nodes and the sentinels
    size,   \* tree_size of each tree
    live,   \* the entries constructed and not yet destroyed
    op      \* the call that runs, with its locals

vars == <<mem, size, live, op>>

Idle == [kind |-> "idle"]

OpType ==
    {Idle}
    \cup [kind : {"insert"}, tree : Trees, z : Nodes]
    \cup [kind : {"erase"}, tree : Trees, node : Nodes, black : BOOLEAN, x : Nodes \cup {Null},
          parent : Ptr, newLeft : Ptr, newRight : Ptr, following : Ptr]
    \cup [kind : {"clear"}, tree : Trees, at : Nodes \cup {Null}, from : Trees \cup {Null}]
    \cup [kind : {"steal"}, tree : Trees, from : Trees]

\* A reference definition: the nodes below a link, from left to right.
InOrder(m, root) ==
    LET walk[n \in Nodes \cup {Null}] ==
            IF n = Null THEN <<>> ELSE walk[m[n].left] \o <<n>> \o walk[m[n].right]
    IN  walk[root]

\* The entries of a tree, in order; an entry that is destroyed is none.
Contents(t) == SelectSeq(InOrder(mem, mem[t].parent), LAMBDA n : n \in live)

-----------------------------------------------------------------------------
Init ==
    /\ mem = [n \in Nodes \cup Sentinels |->
                 IF n \in Nodes
                 THEN [parent |-> Null, left |-> Null, right |-> Null, color |-> "red"]
                 ELSE [parent |-> Null, left |-> n, right |-> n, color |-> "red"]]
    /\ size = [t \in Sentinels |-> 0]
    /\ live = {}
    /\ op = Idle

\* try_emplace: nothing changes when the key exists or the allocation fails.
\* Otherwise a new entry is linked in.
TryEmplace(t, n) ==
    LET pos == FindInsertPos(mem, t, KeyOf[n]) IN
    /\ op = Idle
    /\ n \notin live
    /\ pos.existing = Null
    /\ size[t] = Cardinality(live) \/ Cardinality(live) < MaxShared
    /\ mem' = LinkAt(mem, t, n, pos)
    /\ live' = live \cup {n}
    /\ op' = [kind |-> "insert", tree |-> t, z |-> n]
    /\ UNCHANGED size

\* Bug: stops below the root.
MutRedAbove(t, z) ==
    /\ z # mem[t].parent
    /\ mem[mem[z].parent].color = "red"
    /\ mem[mem[z].parent].parent # mem[t].parent

RedAbove(t, z) == z # mem[t].parent /\ mem[mem[z].parent].color = "red"

InsertFixup ==
    /\ op.kind = "insert"
    /\ RedAbove(op.tree, op.z)
    /\ \E round \in {InsertRound(mem, op.tree, op.z)} :
          mem' = round.mem /\ op' = [op EXCEPT !.z = round.z]
    /\ UNCHANGED <<size, live>>

InsertEnd ==
    /\ op.kind = "insert"
    /\ ~RedAbove(op.tree, op.z)
    /\ mem' = Paint(mem, mem[op.tree].parent, "black")
    /\ size' = [size EXCEPT ![op.tree] = @ + 1]
    /\ op' = Idle
    /\ UNCHANGED live

\* erase by iterator, and by key through find: the caller's next iterator and
\* the new ends are computed before the structure changes.
Erase(t, n) ==
    LET cut == Unlink(mem, t, n)
        last == size[t] = 1
    IN
    /\ op = Idle
    /\ Find(mem, t, KeyOf[n]) = n
    /\ mem' = cut.mem
    /\ op' = [kind |-> "erase", tree |-> t, node |-> n, black |-> cut.color = "black",
              x |-> cut.x, parent |-> cut.parent,
              newLeft  |-> IF mem[t].left = n /\ ~last THEN Successor(mem, n) ELSE Null,
              newRight |-> IF mem[t].right = n /\ ~last THEN Predecessor(mem, n) ELSE Null,
              following |-> Successor(mem, n)]
    /\ UNCHANGED <<size, live>>

ExtraBlack == op.black /\ op.x # mem[op.tree].parent /\ IsBlack(mem, op.x)

EraseFixup ==
    /\ op.kind = "erase"
    /\ ExtraBlack
    /\ \E round \in {EraseRound(mem, op.tree, op.x, op.parent)} :
          mem' = round.mem /\ op' = [op EXCEPT !.x = round.x, !.parent = round.parent]
    /\ UNCHANGED <<size, live>>

\* The end of the fixup, the new ends of the tree, and the entry destroyed.
EraseEnd ==
    LET t == op.tree
        a == IF op.black /\ op.x # Null THEN Paint(mem, op.x, "black") ELSE mem
        b == ResetNode(a, op.node)
        ends == [b EXCEPT ![t].left = IF op.newLeft = Null THEN @ ELSE op.newLeft,
                          ![t].right = IF op.newRight = Null THEN @ ELSE op.newRight]
    IN
    /\ op.kind = "erase"
    /\ ~ExtraBlack
    /\ mem' = IF size[t] = 1 THEN ResetSentinel(b, t) ELSE ends
    /\ size' = [size EXCEPT ![t] = @ - 1]
    /\ live' = live \ {op.node}
    /\ op' = Idle

\* Bug: move assignment forgets the entries the tree had.
MutClear(t, from) ==
    /\ op = Idle
    /\ t # from
    /\ op' = IF from = Null
             THEN [kind |-> "clear", tree |-> t, at |-> mem[t].parent, from |-> from]
             ELSE [kind |-> "steal", tree |-> t, from |-> from]
    /\ UNCHANGED <<mem, size, live>>

\* clear and the destructor (from is Null); move assignment clears first.
Clear(t, from) ==
    /\ op = Idle
    /\ t # from
    /\ op' = [kind |-> "clear", tree |-> t, at |-> mem[t].parent, from |-> from]
    /\ UNCHANGED <<mem, size, live>>

\* Bug: climbs from the root to the sentinel.
MutAbove(t, n) == mem[n].parent

\* Where clear goes on after n: the root is the last.
Above(t, n) == IF mem[n].parent = t THEN Null ELSE mem[n].parent

Unhook(m, up, n) ==
    IF up = Null THEN m
    ELSE [m EXCEPT ![up][IF m[up].left = n THEN "left" ELSE "right"] = Null]

\* One round: down to a child, or a leaf unhooked and disposed of, and up.
ClearRound ==
    LET n == op.at
        up == Above(op.tree, n)
    IN
    /\ op.kind = "clear"
    /\ n # Null
    /\ \/ /\ mem[n].left # Null
          /\ op' = [op EXCEPT !.at = mem[n].left]
          /\ UNCHANGED <<mem, live>>
       \/ /\ mem[n].left = Null
          /\ mem[n].right # Null
          /\ op' = [op EXCEPT !.at = mem[n].right]
          /\ UNCHANGED <<mem, live>>
       \/ /\ mem[n].left = Null
          /\ mem[n].right = Null
          /\ mem' = ResetNode(Unhook(mem, up, n), n)
          /\ live' = live \ {n}
          /\ op' = [op EXCEPT !.at = up]
    /\ UNCHANGED size

ClearEnd ==
    /\ op.kind = "clear"
    /\ op.at = Null
    /\ mem' = ResetSentinel(mem, op.tree)
    /\ size' = [size EXCEPT ![op.tree] = 0]
    /\ op' = IF op.from = Null THEN Idle
             ELSE [kind |-> "steal", tree |-> op.tree, from |-> op.from]
    /\ UNCHANGED live

\* Tree t takes over the elements of u; s is the memory with the sizes.
Steal(s, t, u) ==
    LET root == s.mem[u].parent
        taken == IF s.size[u] = 0 THEN ResetSentinel(s.mem, t)
                 ELSE [s.mem EXCEPT ![t] = s.mem[u], ![root].parent = t]
    IN  [mem |-> ResetSentinel(taken, u),
         size |-> [s.size EXCEPT ![t] = s.size[u], ![u] = 0]]

MoveAssign(s, t, u) == IF t = u THEN s ELSE Steal(s, t, u)

StealAfterClear ==
    /\ op.kind = "steal"
    /\ LET s == MoveAssign([mem |-> mem, size |-> size], op.tree, op.from)
       IN  mem' = s.mem /\ size' = s.size
    /\ op' = Idle
    /\ UNCHANGED live

\* swap: other moves to a temporary, this tree to other, the temporary here.
Swap(t, u) ==
    /\ op = Idle
    /\ LET a == Steal([mem |-> mem, size |-> size], Tmp, u)
           b == MoveAssign(a, u, t)
           c == MoveAssign(b, t, Tmp)
       IN  mem' = c.mem /\ size' = c.size
    /\ UNCHANGED <<live, op>>

Step == InsertFixup \/ InsertEnd \/ EraseFixup \/ EraseEnd \/ ClearRound \/ ClearEnd
           \/ StealAfterClear

Next ==
    \/ Step
    \/ \E t \in Trees, n \in Nodes : TryEmplace(t, n) \/ Erase(t, n)
    \/ \E t \in Trees, from \in Trees \cup {Null} : Clear(t, from)
    \/ \E t, u \in Trees : Swap(t, u)

\* A call that has started runs on: nothing in it waits.
Spec == Init /\ [][Next]_vars /\ WF_vars(Step)

-----------------------------------------------------------------------------
TypeOK ==
    /\ mem \in [Nodes \cup Sentinels -> Node]
    /\ size \in [Sentinels -> 0..Cardinality(Nodes)]
    /\ live \subseteq Nodes
    /\ op \in OpType

\* A reference definition of the structure, from paths and the order of the nodes.
Paths(t) ==
    LET blacks[n \in Nodes \cup {Null}] ==
            IF n = Null THEN {0}
            ELSE {h + (IF mem[n].color = "black" THEN 1 ELSE 0) :
                     h \in blacks[mem[n].left] \cup blacks[mem[n].right]}
    IN  blacks[mem[t].parent]

WellFormed(t) ==
    LET root == mem[t].parent
        list == InOrder(mem, root)
        inside == Range(list)
        Child(a, b) == b \in {mem[a].left, mem[a].right}
    IN
    /\ mem[t].color = "red"
    /\ size[t] = Len(list)
    /\ mem[t].left = IF list = <<>> THEN t ELSE list[1]
    /\ mem[t].right = IF list = <<>> THEN t ELSE list[Len(list)]
    /\ root # Null => mem[root].color = "black" /\ mem[root].parent = t
    /\ \A a, b \in inside : Child(a, b) =>
          /\ mem[b].parent = a
          /\ "black" \in {mem[a].color, mem[b].color}
    /\ \A i, j \in 1..Len(list) : i < j => KeyOf[list[i]] < KeyOf[list[j]]
    /\ Cardinality(Paths(t)) = 1

\* Between calls every tree is a red-black tree: every path has as many black
\* nodes, no red node has a red child, the sentinel knows the ends and tree_size is
\* the number of elements (what insert_fixup, erase_fixup and steal have to restore).  In
\* every state, in the middle of a fixup too, verify answers true exactly when this is so.
RedBlack ==
    /\ op = Idle => \A t \in Sentinels : WellFormed(t)
    /\ \A t \in Trees : Verify(mem, t, size[t]) <=> WellFormed(t)

\* Between calls ++ from begin() and -- from end() meet all elements, in
\* order and in reverse: the sentinel ends the climb on both sides.
IteratorsWalkInOrder ==
    op = Idle => \A t \in Trees :
        LET list == Contents(t) IN
        /\ WalkFrom(mem, t, mem[t].left) = list
        /\ \A i \in 1..Len(list) :
              list[i] = Predecessor(mem, IF i = Len(list) THEN t ELSE list[i + 1])

\* The iterator erase returns, computed before the rotations, is the first
\* element after the erased one when they are done.
FollowingIsNext ==
    op.kind = "erase" =>
        LET list == SelectSeq(Contents(op.tree), LAMBDA n : KeyOf[n] > KeyOf[op.node])
        IN  op.following = IF list = <<>> THEN op.tree ELSE list[1]

\* Between calls, lower_bound, upper_bound and find agree with a scan of the elements.
LookupsAgreeWithScan ==
    op = Idle => \A t \in Trees, key \in Range(KeyOf) :
        LET list == Contents(t)
            First(S) == IF S = {} THEN t
                        ELSE list[CHOOSE i \in S : \A j \in S : i <= j]
        IN  /\ LowerBound(mem, t, key) = First({i \in DOMAIN list : KeyOf[list[i]] >= key})
            /\ UpperBound(mem, t, key) = First({i \in DOMAIN list : KeyOf[list[i]] > key})
            /\ Find(mem, t, key) = First({i \in DOMAIN list : KeyOf[list[i]] = key})

\* Iterators and lookups see the elements in their order: ++ and -- over the whole tree, the
\* iterator that erase returns, and the bounds.
ReadersSeeTheOrder == IteratorsWalkInOrder /\ FollowingIsNext /\ LookupsAgreeWithScan

\* No entry is leaked or destroyed while a tree still has it: between calls each
\* one that lives is in exactly one tree, and every element lives.
EntriesAreOwned ==
    op = Idle =>
        /\ live = UNION {Range(InOrder(mem, mem[t].parent)) : t \in Trees}
        /\ \A t, u \in Trees : t # u => Range(Contents(t)) \cap Range(Contents(u)) = {}

\* Every call is one change of an abstract list of entries sorted by key: linking and
\* unlinking change it, rotations and recolouring never do.
Abstract == INSTANCE SortedLists WITH
    order <- [t \in Trees |->
                 IF op.kind = "erase" /\ op.tree = t
                 THEN SelectSeq(Contents(t), LAMBDA n : n # op.node) ELSE Contents(t)]
KeepsSortedLists == Abstract!Spec

\* Every call returns: the rounds of a fixup climb, and clear's descent ends.
EveryCallReturns == op # Idle ~> op = Idle
=============================================================================
