----------------------------- MODULE BlockPool -----------------------------
(***************************************************************************)
(* What every allocator of this code base promises its callers: a block    *)
(* that is in a caller's hands is handed to nobody else until it is given  *)
(* back.  heap_allocator (HeapAlloc) is checked against it.                *)
(***************************************************************************)
EXTENDS Integers

CONSTANT Block

VARIABLE out    \* how many callers have each block

Init == out = [x \in Block |-> 0]

Hand(x) ==
    /\ out[x] = 0
    /\ out' = [out EXCEPT ![x] = 1]

Return(x) ==
    /\ out[x] = 1
    /\ out' = [out EXCEPT ![x] = 0]

\* grow() on an allocation the page allocator moves: one call gives back the
\* old address and hands out the new one.
Move(x, y) ==
    /\ out[x] = 1
    /\ out[y] = 0
    /\ out' = [out EXCEPT ![x] = 0, ![y] = 1]

Next == \E x \in Block : Hand(x) \/ Return(x) \/ \E y \in Block : Move(x, y)

Spec == Init /\ [][Next]_out
=============================================================================
