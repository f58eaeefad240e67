------------------------------- MODULE Lists -------------------------------
(***************************************************************************)
(* glox::intrusive_list, a ring through a sentinel, and its one user in    *)
(* the kernel: the regions of vmap_iomem (memory/virtmem.cpp).             *)
(*                                                                         *)
(* A list stands for its sentinel in next and prev.  A node is put in a    *)
(* list only when it is in none; what is taken out keeps its pointers.  An *)
(* operation that does not do what it should is noted in listLog, and ends *)
(* the history.                                                            *)
(***************************************************************************)
EXTENDS Integers, Sequences, SequencesExt, FiniteSets, FiniteSetsExt

CONSTANTS
    Rings,       \* the intrusive_lists
    VmapList,    \* that of virtmem.cpp
    Links,       \* nodes
    MaxCount     \* bound: what list_size may count to

ASSUME ListsAssumption ==
    /\ VmapList \in Rings /\ MaxCount \in Nat
    /\ Links \cap Rings = {} /\ IsFiniteSet(Links \cup Rings)

VARIABLES
    listChecks,    \* whether assertions are compiled in
    next, prev,    \* list_node of every node, and sentinel of every list
    listSize,      \* list_size
    ring,          \* history: the sequence every list stands for
    listLog        \* history: <<operation, what went wrong>>

listsVars == <<listChecks, next, prev, listSize, ring, listLog>>

Members(seqs) == UNION {ToSet(seqs[l]) : l \in DOMAIN seqs}

\* A node that is in no list: its pointers are not read before they are written, so one of
\* them stands for all.
Loose == LET out == Links \ Members(ring) IN IF out = {} THEN {} ELSE {CHOOSE x \in out : TRUE}

\* The nodes met on the way from l back to l.
Path(to, l) ==
    LET at[i \in 0..Cardinality(DOMAIN to)] == IF i = 0 THEN l ELSE to[at[i - 1]]
        back == {i \in 1..Cardinality(DOMAIN to) : at[i] = l}
    IN  IF back = {} THEN <<l>> ELSE [i \in 1..Min(back) - 1 |-> at[i]]

-----------------------------------------------------------------------------
(* intrusive_list.                                                         *)

\* Bug: the node before is read after it was overwritten.
MutInserted(n, p, at, x) ==
    [next |-> [n EXCEPT ![x] = at, ![p[at]] = x], prev |-> [p EXCEPT ![at] = x, ![x] = x]]

\* list_node::insert: x before at.
Inserted(n, p, at, x) ==
    [next |-> [n EXCEPT ![x] = at, ![p[at]] = x], prev |-> [p EXCEPT ![x] = p[at], ![at] = x]]

\* list_node::remove.
Removed(n, p, x) == [next |-> [n EXCEPT ![p[x]] = n[x]], prev |-> [p EXCEPT ![n[x]] = p[x]]]

\* The only thing that is said of a history that ended.
Stops(op, what) ==
    /\ listLog' = {<<op, what>>}
    /\ next' = [x \in DOMAIN next |-> x] /\ prev' = [x \in DOMAIN prev |-> x]
    /\ listSize' = [l \in Rings |-> 0] /\ ring' = [l \in Rings |-> <<>>]
    /\ UNCHANGED listChecks

\* impl_insert: x before at, which is the ith node of l or its sentinel.
ImplInsert(l, i, x) ==
    LET at == IF i > Len(ring[l]) THEN l ELSE ring[l][i]
        new == Inserted(next, prev, at, x)
    IN  /\ listSize[l] < MaxCount
        /\ next' = new.next /\ prev' = new.prev
        /\ listSize' = [listSize EXCEPT ![l] = @ + 1]
        /\ ring' = [ring EXCEPT ![l] = InsertAt(@, i, x)]
        /\ UNCHANGED <<listChecks, listLog>>

PushLast(l, x) == ImplInsert(l, Len(ring[l]) + 1, x)

\* Before sentinel.next.
PushFirst(l, x) == ImplInsert(l, 1, x)

InsertLink(l, i, x) == i <= Len(ring[l]) + 1 /\ ImplInsert(l, i, x)

\* list_size stays what it was.
EraseLink(l, i) ==
    LET new == Removed(next, prev, ring[l][i])
    IN  /\ i <= Len(ring[l])
        /\ next' = new.next /\ prev' = new.prev
        /\ ring' = [ring EXCEPT ![l] = RemoveAt(@, i)]
        /\ UNCHANGED <<listChecks, listSize, listLog>>

\* Each node is removed, the last one first.
ClearRing(l) ==
    LET n == Len(ring[l])
        left[k \in 0..n] ==
            IF k = 0 THEN [next |-> next, prev |-> prev]
            ELSE Removed(left[k - 1].next, left[k - 1].prev, ring[l][n + 1 - k])
    IN  /\ next' = [left[n].next EXCEPT ![l] = l] /\ prev' = [left[n].prev EXCEPT ![l] = l]
        /\ listSize' = [listSize EXCEPT ![l] = 0]
        /\ ring' = [ring EXCEPT ![l] = <<>>]
        /\ UNCHANGED <<listChecks, listLog>>

\* Copies the sentinel of m: its first and last node still point to m.
MoveRing(l, m, assigns) ==
    LET moved == [next EXCEPT ![l] = next[m], ![m] = l]
    IN  /\ l # m
        /\ assigns \/ (ring[l] = <<>> /\ listSize[l] = 0)
        /\ Stops("move", IF assigns /\ listChecks /\ listSize[m] = 0 THEN "panic"
                         ELSE IF Path(moved, l) = ring[m] THEN "right"
                         ELSE IF Path(moved, l) = Append(ring[m], m) THEN "old sentinel"
                         ELSE "garbage")

-----------------------------------------------------------------------------
(* The vmap regions.  virt_base is the same number in all of them.         *)

\* A region goes before the first whose end leaves room before the next one: that can only be
\* the last, whose next one is the sentinel, read as a region of which nothing is known (room).
\* The caller is given nullptr.
VmapIomem(x, room, ok) ==
    /\ ok
    /\ ImplInsert(VmapList, Len(ring[VmapList]) + IF room /\ ring[VmapList] # <<>> THEN 0 ELSE 1, x)

\* Of the number in virt_base: the first region.  Any other address is in none.
VunmapIomem == EraseLink(VmapList, 1)

ListsInit ==
    /\ listChecks \in BOOLEAN
    /\ next = [x \in Links \cup Rings |-> x] /\ prev = next
    /\ listSize = [l \in Rings |-> 0] /\ ring = [l \in Rings |-> <<>>]
    /\ listLog = {}

ListsNext ==
    /\ listLog = {}
    /\ \/ \E l \in Rings \ {VmapList}, x \in Loose :
             PushLast(l, x) \/ PushFirst(l, x) \/ \E i \in 1..MaxCount : InsertLink(l, i, x)
       \/ \E l \in Rings \ {VmapList} :
             \/ ClearRing(l)
             \/ \E i \in 1..MaxCount : EraseLink(l, i)
             \/ \E m \in Rings \ {VmapList}, assigns \in BOOLEAN : MoveRing(l, m, assigns)
       \/ \E x \in Loose, room \in BOOLEAN, ok \in BOOLEAN : VmapIomem(x, room, ok)
       \/ VunmapIomem

ListsSpec == ListsInit /\ [][ListsNext]_listsVars

-----------------------------------------------------------------------------
(* Properties.                                                             *)

ListsTypeOK ==
    /\ next \in [Links \cup Rings -> Links \cup Rings]
    /\ prev \in [Links \cup Rings -> Links \cup Rings]
    /\ listSize \in [Rings -> 0..MaxCount]

\* Every list runs through its nodes, in order one way and in reverse the other, and list_size
\* never counts too few; until a list is moved, which ends at the sentinel it was moved from,
\* or the assertion of the move assignment stops the program.
ListsAreLinked ==
    /\ listLog \subseteq {<<"move", "old sentinel">>, <<"move", "panic">>}
    /\ \A l \in Rings : /\ Path(next, l) = ring[l]
                        /\ Path(prev, l) = Reverse(ring[l])
                        /\ listSize[l] >= Len(ring[l])
=============================================================================
