------------------------------ MODULE PageSet ------------------------------
(***************************************************************************)
(* What the physical memory manager promises: a set of free pages, from    *)
(* which an allocation takes a run of consecutive pages and to which a     *)
(* deallocation, or the boot code, adds one.  Pmm is checked against it;   *)
(* the modules of what allocates pages build on it.                        *)
(***************************************************************************)
EXTENDS Integers

CONSTANT NumPages

VARIABLE free

Run(p, n) == p..(p + n - 1)
Runs == {p..q : p, q \in 1..NumPages} \ {{}}

\* Where an allocation of n pages from the set s lies: at the end of the lowest
\* stretch of at least n free pages.  Empty when there is none.
FirstFit(s, n) ==
    LET fits == {p \in s : Run(p, n) \subseteq s}
    IN  {p \in fits : p + n \notin s /\ \A q \in fits : q < p => q..p \subseteq s}

Add  == free \subseteq free' /\ free' \ free \in Runs
Take == \E p \in free, n \in 1..NumPages : p \in FirstFit(free, n) /\ free' = free \ Run(p, n)

Init == free = {}
Next == Add \/ Take
Spec == Init /\ [][Next]_free
=============================================================================
