---------------------------- MODULE SortedLists ----------------------------
(***************************************************************************)
(* What the ordered trees of libglox promise: each is a list of objects in *)
(* strictly ascending order of their keys, and an object is in at most one.*)
(* RbTree is checked against it.                                           *)
(***************************************************************************)
EXTENDS Integers, Sequences, Functions

CONSTANTS Nodes, Trees, KeyOf

VARIABLE order      \* the list of each tree

Items(t) == Range(order[t])
Part(t, Test(_)) == SelectSeq(order[t], Test)

\* An object that is nowhere joins a list that does not have its key.
Put(t, n) ==
    /\ \A u \in Trees : n \notin Items(u)
    /\ \A k \in Items(t) : KeyOf[k] # KeyOf[n]
    /\ order' = [order EXCEPT ![t] = Part(t, LAMBDA k : KeyOf[k] < KeyOf[n]) \o <<n>>
                                   \o Part(t, LAMBDA k : KeyOf[k] > KeyOf[n])]

Drop(t, n) ==
    /\ n \in Items(t)
    /\ order' = [order EXCEPT ![t] = Part(t, LAMBDA k : k # n)]

\* An empty list takes over another one.
Take(t, u) ==
    /\ t # u
    /\ order[t] = <<>>
    /\ order' = [order EXCEPT ![t] = order[u], ![u] = <<>>]

Swap(t, u) == order' = [order EXCEPT ![t] = order[u], ![u] = order[t]]

Init == order = [t \in Trees |-> <<>>]

Next ==
    \/ \E t \in Trees, n \in Nodes : Put(t, n) \/ Drop(t, n)
    \/ \E t, u \in Trees : Take(t, u) \/ Swap(t, u)

Spec == Init /\ [][Next]_order
=============================================================================
