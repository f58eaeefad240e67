------------------------------- MODULE Alloc -------------------------------
(***************************************************************************)
(* Arrays of T in blocks of the kernel heap: glox::default_allocator and   *)
(* the helpers of glox/alloc.hpp, over glox::custom of                     *)
(* kernel/memory/alloc.cpp.                                                *)
(*                                                                         *)
(* The operators take and return a record s with the fields mem, the cells *)
(* of every block (none: the block is free), elem, what kind of type T is, *)
(* and event, what went wrong so far.  A cell is Raw while no object was   *)
(* constructed in it.  What memalloc answers, should it be called, is the   *)
(* parameter b: a free block, or null.                                     *)
(***************************************************************************)
EXTENDS Integers, Sequences, SequencesExt, FiniteSets

CONSTANTS
    Blocks,     \* what memalloc can hand out
    NoBlock,    \* the null pointer
    ObjSize,    \* sizeof(T)
    Raw         \* the content of a cell without an object

ASSUME AllocAssumption == NoBlock \notin Blocks /\ ObjSize \in Nat \ {0}

\* Trivially copyable types, and types that are not.
Elem == {"trivial", "class"}

Flag(s, cond, what) == IF cond THEN [s EXCEPT !.event = @ \cup {what}] ELSE s

RawCells(n) == [i \in 1..n |-> Raw]
IsFree(s, b) == s.mem[b] = <<>>
Cells(s, p) == IF p = NoBlock THEN <<>> ELSE s.mem[p]
First(cells, n) == [i \in 1..n |-> cells[i]]

\* An alloc_handle with the state after the call.
Handle(s, ptr, count) == [s |-> s, ptr |-> ptr, count |-> count]

-----------------------------------------------------------------------------
(* glox::custom.                                                           *)

\* memalloc(0) is null; the count is the one asked for even then.
AllocUninitialized(s, n, b) ==
    IF n = 0 \/ b = NoBlock THEN Handle(s, NoBlock, n)
    ELSE Handle([s EXCEPT !.mem[b] = RawCells(n)], b, n)

\* memdealloc frees nothing when the size is 0.
Dealloc(s, p, count) ==
    IF p = NoBlock \/ count = 0 THEN s
    ELSE [s EXCEPT !.mem[p] = <<>>]

\* The cells memcpy leaves whole in the new block, of that many copied bytes.
WholeObjects(bytes) == bytes \div ObjSize

CustomGrow(s, p, old, new, b) ==
    LET h == AllocUninitialized(s, new, b)
        copied == [h.s EXCEPT !.mem[h.ptr] =
                      [i \in 1..new |-> IF i <= old THEN Cells(s, p)[i] ELSE Raw]]
    IN  IF h.ptr = NoBlock THEN Handle(s, NoBlock, 0)
        ELSE Handle(Dealloc(copied, p, old), h.ptr, new)

\* Copies new bytes, not new objects.
CustomShrink(s, p, old, new, b) ==
    LET h == AllocUninitialized(s, new, b)
        whole == WholeObjects(new)
        copied == [h.s EXCEPT !.mem[h.ptr] =
                      [i \in 1..new |-> IF i <= whole THEN Cells(s, p)[i] ELSE Raw]]
    IN  IF h.ptr = NoBlock THEN Handle(s, NoBlock, 0)
        ELSE Handle(Dealloc(Flag(copied, whole < new, "cut"), p, old), h.ptr, new)

\* Those of default_allocator assert the order of the sizes, as glox::custom does again.
Grow(s, p, old, new, b) ==
    IF old > new THEN Handle(Flag(s, TRUE, "panic"), NoBlock, 0) ELSE CustomGrow(s, p, old, new, b)

Shrink(s, p, old, new, b) ==
    IF old < new THEN Handle(Flag(s, TRUE, "panic"), NoBlock, 0) ELSE CustomShrink(s, p, old, new, b)

-----------------------------------------------------------------------------
(* Objects.                                                                *)

\* Placement new of x over the cell i of p.
Construct(s, p, i, x) ==
    IF i > Len(Cells(s, p)) THEN Flag(s, TRUE, IF p = NoBlock THEN "null" ELSE "outside")
    ELSE LET over == s.elem = "class" /\ s.mem[p][i] # Raw
         IN  [Flag(s, over, "overwritten") EXCEPT !.mem[p][i] = x]

ConstructAll(s, p, xs) ==
    IF xs = <<>> THEN s
    ELSE IF Len(xs) > Len(Cells(s, p))
         THEN Flag(s, TRUE, IF p = NoBlock THEN "null" ELSE "outside")
         ELSE LET over == s.elem = "class" /\ \E i \in DOMAIN xs : s.mem[p][i] # Raw
              IN  [Flag(s, over, "overwritten") EXCEPT !.mem[p] =
                      [i \in DOMAIN @ |-> IF i <= Len(xs) THEN xs[i] ELSE @[i]]]

\* The destructors of the cells first to last.
Destroy(s, p, first, last) ==
    IF first > last THEN s
    ELSE IF last > Len(Cells(s, p)) THEN Flag(s, TRUE, "outside")
    ELSE LET raw == s.elem = "class" /\ \E i \in first..last : s.mem[p][i] = Raw
         IN  [Flag(s, raw, "raw") EXCEPT !.mem[p] =
                 [i \in DOMAIN @ |-> IF i \in first..last THEN Raw ELSE @[i]]]

\* Moves the first n objects of p into the new block q, destroys `constructed` of p, and
\* gives p back.
Transfer(s, p, old, q, n, constructed) ==
    LET source == Cells(s, p)
        moved == IF n > Len(source) THEN Flag(s, TRUE, "outside")
                 ELSE ConstructAll(Flag(s, \E i \in 1..n : source[i] = Raw, "raw"),
                                   q, First(source, n))
        counted == Flag(moved, constructed > old, "panic")
    IN  Dealloc(Destroy(counted, p, 1, constructed), p, old)

GrowAlloc(s, p, old, new, constructed, b) ==
    IF s.elem = "trivial" THEN Grow(s, p, old, new, b)
    ELSE LET h == AllocUninitialized(s, new, b)
         IN  Handle(Transfer(h.s, p, old, h.ptr, constructed, constructed), h.ptr, new)

ShrinkAlloc(s, p, old, new, constructed, b) ==
    IF s.elem = "trivial" THEN Shrink(s, p, old, new, b)
    ELSE LET h == AllocUninitialized(s, new, b)
         IN  Handle(Transfer(h.s, p, old, h.ptr, new, constructed), h.ptr, new)
=============================================================================
