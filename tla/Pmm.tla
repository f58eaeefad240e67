-------------------------------- MODULE Pmm --------------------------------
(***************************************************************************)
(* The physical memory manager: kernel/memory/pmm.cpp over the free-list   *)
(* routines of kernel/memory/llallocator.cppm.  Free memory is a doubly    *)
(* linked list of chunks sorted by address; the header of a chunk is       *)
(* stored in the chunk itself, so a pointer kept too long reads whatever   *)
(* the page's next owner left there.                                       *)
(*                                                                         *)
(* Addresses are page numbers and sizes page counts.  The list, its two    *)
(* ends and the memory they live in are one record, so that each routine   *)
(* of the code is an operator from one list to the next.                   *)
(***************************************************************************)
EXTENDS Integers, Sequences, FiniteSets, Functions

CONSTANTS
    NumPages,    \* physical pages are 1..NumPages
    Regions,     \* the usable entries of the boot memory map: <<base, length>>, ascending
    MaxCount,    \* the largest pageCount callers ask for
    Null,        \* the null pointer
    Unknown      \* the contents of memory the manager does not own, or never wrote

Page == 1..NumPages
Ptr  == Page \cup {Null, Unknown}
Node == [size : 0..NumPages, next : Ptr, prev : Ptr]

ASSUME PmmAssumption ==
    /\ NumPages \in Nat \ {0}
    /\ MaxCount \in Nat \ {0}
    /\ Regions \in Seq(Page \X Page)
    /\ \A i \in DOMAIN Regions : Regions[i][1] + Regions[i][2] - 1 <= NumPages
    /\ \A i, j \in DOMAIN Regions :
          i < j => Regions[i][1] + Regions[i][2] <= Regions[j][1]
    /\ Null \notin Page /\ Null # Unknown /\ Unknown \notin Page \cup Node

VARIABLES
    pmm,        \* pmmCtx and the headers in memory; fault: what used a bad pointer
    booted,     \* how many regions initialize_pmm has added
    held,       \* the runs <<page, count>> callers have and not given back
    freedBelow  \* whether a run below the first chunk was ever given back (history)

vars == <<pmm, booted, held, freedBelow>>

Run(p, n) == p..(p + n - 1)

-----------------------------------------------------------------------------
(* The list.  l.mem[p] is the header stored in page p.                     *)

IsHeader(l, p) == p \in Page /\ l.mem[p] # Unknown
Fault(l) == [l EXCEPT !.fault = "list"]

\* The pointers a traversal from front reads, one after the other; it stays at the
\* first one that is not a chunk's.
Follow(l) == [p \in Ptr |-> IF IsHeader(l, p) THEN l.mem[p].next ELSE p]
Visits(l) == LET nth[k \in Page] == IF k = 1 THEN l.front ELSE Follow(l)[nth[k - 1]] IN nth

\* The chunks it visits, in order.
Chain(l) == Restrict(Visits(l), {k \in Page : IsHeader(l, Visits(l)[k])})

\* A store through pointer p; p null, wild or not a header is a fault.
Store(l, p, field, value) ==
    IF IsHeader(l, p) THEN [l EXCEPT !.mem[p][field] = value] ELSE Fault(l)

-----------------------------------------------------------------------------
(* llallocator.cppm                                                        *)

AppendChunk(l, c, n) ==
    IF ~IsHeader(l, l.back) THEN Fault(l)
    ELSE IF l.back + l.mem[l.back].size = c
    THEN [l EXCEPT !.mem[l.back].size = @ + n]
    ELSE [l EXCEPT !.mem[l.back].next = c, !.mem[c].prev = l.back, !.back = c]

\* Merging with the front leaves chunk->prev unwritten and back where it was;
\* not merging leaves the old front's prev null.
PrependChunk(l, c, n) ==
    IF ~IsHeader(l, l.front) THEN Fault(l)
    ELSE IF c + n = l.front
    THEN [l EXCEPT !.mem[c].size = l.mem[l.front].size + n,
                   !.mem[c].next = l.mem[l.front].next,
                   !.front = c]
    ELSE [l EXCEPT !.mem[c].next = l.front, !.mem[c].prev = Null, !.front = c]

\* node::insert(left, right) skips a null neighbour.
InsertBetween(l, c, left, right) ==
    LET l1 == IF left = Null THEN l ELSE Store(l, left, "next", c)
        l2 == IF right = Null THEN l1 ELSE Store(l1, right, "prev", c)
    IN  [l2 EXCEPT !.mem[c].next = right, !.mem[c].prev = left]

\* The node insert_chunk's loop stops at: the first one that ends at c or lies
\* above it.  (Its branch for a chunk below the front is never taken from
\* pmm_add_chunk, which prepends those.)
MutStops(l, p, c) == p >= c
Stops(l, p, c) == p >= c \/ p + l.mem[p].size = c

\* The pages of the swallowed chunk.
MutSwallowed(l, next) == 0
Swallowed(l, next) == l.mem[next].size

\* c is adjacent to the end of p: grow p, then swallow the next chunk if the gap
\* is gone, taking next->next->prev as it comes.
MergeLeft(l, p, c, n) ==
    LET grown == [l EXCEPT !.mem[p].size = @ + n]
        next == l.mem[p].next
    IN  IF next = Null \/ p + grown.mem[p].size # next THEN grown
        ELSE IF ~IsHeader(l, next) THEN Fault(grown)
        ELSE LET far == l.mem[next].next IN
             Store([Store(grown, far, "prev", p) EXCEPT !.mem[p].size = @ + Swallowed(l, next)],
                   p, "next", far)

\* c ends where p starts: c takes p's place.
MergeRight(l, p, c, n) ==
    LET old == l.mem[p]
        l1 == [l EXCEPT !.mem[c] = [size |-> n + old.size, next |-> old.next, prev |-> old.prev]]
        l2 == Store(l1, old.next, "prev", c)
    IN  Store(l2, old.prev, "next", c)

InsertChunk(l, c, n) ==
    LET chain == Chain(l)
        stops == {k \in DOMAIN chain : Stops(l, chain[k], c)}
    IN  IF stops = {} THEN Fault(l)
        ELSE LET p == chain[CHOOSE k \in stops : \A j \in stops : k <= j] IN
             IF p < c THEN MergeLeft(l, p, c, n)
             ELSE IF c + n = p THEN MergeRight(l, p, c, n)
             ELSE InsertBetween(l, c, l.mem[p].prev, p)

-----------------------------------------------------------------------------
(* pmm.cpp                                                                 *)

\* pmm_add_chunk writes chunk->next and chunk->size, and prev only where needed.
AddChunk(l, c, n) ==
    LET fresh == [l EXCEPT !.mem[c] = [size |-> n, next |-> Null, prev |-> Unknown]]
    IN  IF l.front = Null
        THEN [fresh EXCEPT !.front = c, !.back = c, !.mem[c].prev = Null]
        ELSE IF l.back < c THEN AppendChunk(fresh, c, n)
        ELSE IF l.front > c THEN PrependChunk(fresh, c, n)
        ELSE InsertChunk(fresh, c, n)

\* Unlink a chunk taken whole.  A prev that was never written is any value: null
\* if the page happened to hold zeroes there, a wild pointer otherwise.
MutUnlinkBack(l, p) == l.back
UnlinkBack(l, p) == IF l.mem[p].next = Null THEN l.mem[p].prev ELSE l.back

Unlink(l, p) ==
    LET prev == l.mem[p].prev
        next == l.mem[p].next
        l1(left) == IF left = Null THEN [l EXCEPT !.front = next]
                    ELSE Store(l, left, "next", next)
        l2(left) == IF next = Null THEN [l1(left) EXCEPT !.back = UnlinkBack(l, p)]
                    ELSE Store(l1(left), next, "prev", left)
    IN  {l2(left) : left \in IF prev = Unknown THEN {Null, Unknown} ELSE {prev}}

\* First fit, from the end of the chunk: {<<list, page>>}, empty when out of memory.
MutFits(l, p, n) == l.mem[p].size > n
MutFitsAny(l, p, n) == TRUE
Fits(l, p, n) == l.mem[p].size >= n

AllocFromChunk(l, n) ==
    LET chain == Chain(l)
        fit == {k \in DOMAIN chain : Fits(l, chain[k], n)}
    IN  IF fit = {} THEN {}
        ELSE LET p == chain[CHOOSE k \in fit : \A j \in fit : k <= j]
                 left == l.mem[p].size - n
                 rest == [l EXCEPT !.mem[p].size = left]
             IN  {<<m, p + left>> : m \in IF left = 0 THEN Unlink(rest, p) ELSE {rest}}

\* The run belongs to its caller now: what its pages hold is no longer known.
Given(l, p, n) == [l EXCEPT !.mem = [q \in Page |-> IF q \in Run(p, n) THEN Unknown ELSE @[q]]]

-----------------------------------------------------------------------------
Init ==
    /\ pmm = [mem |-> [p \in Page |-> Unknown], front |-> Null, back |-> Null, fault |-> "none"]
    /\ booted = 0
    /\ held = {}
    /\ freedBelow = FALSE

\* initialize_pmm adds the usable regions in the order of the memory map.
Boot ==
    /\ booted < Len(Regions)
    /\ LET r == Regions[booted + 1] IN pmm' = AddChunk(pmm, r[1], r[2])
    /\ booted' = booted + 1
    /\ UNCHANGED <<held, freedBelow>>

Running == booted = Len(Regions) /\ pmm.fault = "none"

\* page_alloc; out of memory it returns null and changes nothing.
PageAlloc(n) ==
    /\ Running
    /\ \E r \in AllocFromChunk(pmm, n) :
          /\ pmm' = Given(r[1], r[2], n)
          /\ held' = held \cup {<<r[2], n>>}
    /\ UNCHANGED <<booted, freedBelow>>

\* page_alloc_z hands whatever page_alloc returned, null included, to memset
\* (what it does when there is memory is PageAlloc).
PageAllocZ(n) ==
    /\ Running
    /\ AllocFromChunk(pmm, n) = {}
    /\ pmm' = [pmm EXCEPT !.fault = "memset"]
    /\ UNCHANGED <<booted, held, freedBelow>>

PageDealloc(p, n) ==
    /\ Running
    /\ <<p, n>> \in held
    /\ pmm' = AddChunk(pmm, p, n)
    /\ held' = held \ {<<p, n>>}
    /\ freedBelow' = (freedBelow \/ (pmm.front # Null /\ p < pmm.front))
    /\ UNCHANGED booted

Next ==
    \/ Boot
    \/ \E n \in 1..MaxCount : PageAlloc(n) \/ PageAllocZ(n)
    \/ \E r \in held : PageDealloc(r[1], r[2])

Spec == Init /\ [][Next]_vars

-----------------------------------------------------------------------------
(* Properties                                                              *)

TypeOK ==
    /\ pmm \in [mem : [Page -> Node \cup {Unknown}], front : Ptr, back : Ptr, fault : {"none", "list", "memset"}]
    /\ booted \in 0..Len(Regions)
    /\ held \subseteq Page \X (1..MaxCount)
    /\ freedBelow \in BOOLEAN

\* The kernel has not used a bad pointer, and nothing below the first chunk was
\* given back: from there on the list is not to be trusted (see the README).
Sound == pmm.fault = "none" /\ ~freedBelow

ChunkPages(l, p) == Run(p, l.mem[p].size)
FreePages(l) == UNION {ChunkPages(l, p) : p \in Range(Chain(l))}
HeldPages == UNION {Run(r[1], r[2]) : r \in held}
AddedPages == UNION {Run(Regions[i][1], Regions[i][2]) : i \in 1..booted}

\* The list is sorted, doubly linked, ends at back, and no two chunks touch: every
\* deallocation merged with both neighbours.
ListWellFormed ==
    Sound => LET chain == Chain(pmm) IN
        /\ chain = <<>> => pmm.front = Null /\ pmm.back = Null
        /\ chain # <<>> => /\ pmm.mem[chain[1]].prev = Null
                           /\ pmm.back = chain[Len(chain)]
                           /\ pmm.mem[pmm.back].next = Null
        /\ \A k \in 1..(Len(chain) - 1) :
              /\ chain[k] + pmm.mem[chain[k]].size < chain[k + 1]
              /\ pmm.mem[chain[k + 1]].prev = chain[k]

\* No page is lost and none is handed out twice: what boot added is what is free
\* plus what callers hold, and the runs held do not overlap.
PagesConserved ==
    Sound => /\ FreePages(pmm) \cap HeldPages = {}
             /\ FreePages(pmm) \cup HeldPages = AddedPages
             /\ \A r, s \in held : r # s => Run(r[1], r[2]) \cap Run(s[1], s[2]) = {}

Free == FreePages(pmm)
Abstract == INSTANCE PageSet WITH free <- Free

\* page_alloc(n) returns null only if no n consecutive pages are free (pmm.cppm:32,
\* "nullptr on out of memory"), and otherwise the end of the lowest stretch that
\* has them: no allocation fails because two free neighbours were left unmerged.
NullOnlyWhenFull ==
    Sound /\ booted = Len(Regions) => \A n \in 1..MaxCount :
        {r[2] : r \in AllocFromChunk(pmm, n)} = Abstract!FirstFit(Free, n)

\* Every call takes or gives exactly one run of pages.
TakesOrGivesRuns == [][~Sound' \/ Abstract!Next]_Free

\* Giving pages back restores the chunk they came from (pmm.cpp:88,
\* "KTEST_EXPECT(pmmCtx.front->size == startSize)") and uses no bad pointer.
NoListFault == pmm.fault # "list"
=============================================================================
