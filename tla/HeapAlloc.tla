----------------------------- MODULE HeapAlloc -----------------------------
(***************************************************************************)
(* heap_allocator of libraries/libglox/include/glox/heap_alloc.hpp: a      *)
(* thread-caching allocator of small blocks.  Every thread keeps, per size *)
(* class (bucket), a free list only it touches and the list of pages it    *)
(* carved; a block freed by another thread is pushed, lock-free, on the    *)
(* cross_thread_free stack of its page's header and stolen back by the     *)
(* owner when its own free list runs dry (collect_and_sweep).              *)
(*                                                                         *)
(* A block is <<page, slot>>; slot 0 is the payload of a large allocation. *)
(* Intrusive lists are sequences, head first.  The arithmetic of sizes and *)
(* alignments is in HeapSizes.                                             *)
(***************************************************************************)
EXTENDS Integers, Sequences, SequencesExt, FiniteSets

CONSTANTS
    Threads,      \* the values thread_id() returns
    NumBuckets,   \* the size classes, smallest first
    Pages,        \* the page-aligned regions palloc can hand out
    Capacity,     \* blocks carved from one page
    None          \* the null pointer

Bucket == 1..NumBuckets
Slot   == 1..Capacity
Block  == Pages \X Slot
Large  == Pages \X {0}
Handle    == Block \cup Large

ASSUME SizesAssumption ==
    /\ NumBuckets \in Nat \ {0}
    /\ Capacity \in Nat \ {0}
    /\ IsFiniteSet(Pages)
ASSUME NoneAssumption == None \notin Handle /\ None \notin Threads

VARIABLES
    live,      \* pages palloc has handed out and not got back
    header,    \* the page_header at the start of each page
    cross,     \* header.cross_thread_free
    local,     \* thread_cache.local_free
    pages,     \* thread_cache.pages
    held,      \* how many callers hold each block (history of the callers)
    op,        \* where each thread is inside alloc, grow or dealloc
    released   \* pages collect_and_sweep gave back to palloc (history)

vars == <<live, header, cross, local, pages, held, op, released>>

-----------------------------------------------------------------------------
\* "idle"; "sweep": in collect_and_sweep at the at-th page of bucket; "drop": in
\* grow, the copy made, about to dealloc the old block; "push": in dealloc's CAS
\* loop.  blk is the block grow moves or dealloc pushes, seen the oldHead.
Idle == [pc |-> "idle", bucket |-> 1, at |-> 1, blk |-> None, seen |-> None]
Sweeping(b, old) == [Idle EXCEPT !.pc = "sweep", !.bucket = b, !.blk = old]
Dropping(old)    == [Idle EXCEPT !.pc = "drop", !.blk = old]
Pushing(x, head) == [Idle EXCEPT !.pc = "push", !.blk = x, !.seen = head]

Top(s) == IF s = <<>> THEN None ELSE s[1]

\* The nodes reached from node y by following next within list s.
From(s, y) == IF \E i \in DOMAIN s : s[i] = y
              THEN SubSeq(s, CHOOSE i \in DOMAIN s : s[i] = y, Len(s))
              ELSE <<>>

SmallHeader(t, b) == [large |-> FALSE, owner |-> t, bucket |-> b, used |-> 1]
LargeHeader(t)    == [large |-> TRUE, owner |-> t, bucket |-> 1, used |-> 0]

Init ==
    /\ live = {}
    /\ header = [f \in Pages |-> [LargeHeader(None) EXCEPT !.large = FALSE]]
    /\ cross = [f \in Pages |-> <<>>]
    /\ local = [t \in Threads |-> [b \in Bucket |-> <<>>]]
    /\ pages = [t \in Threads |-> [b \in Bucket |-> <<>>]]
    /\ held = [x \in Handle |-> 0]
    /\ op = [t \in Threads |-> Idle]
    /\ released = {}

-----------------------------------------------------------------------------
(* alloc                                                                   *)

\* The caller gets x; a grow goes on to dealloc the block it replaces.
Deliver(t, x, old) ==
    /\ held' = [held EXCEPT ![x] = @ + 1]
    /\ op' = [op EXCEPT ![t] = IF old = None THEN Idle ELSE Dropping(old)]

\* Unlink the head of the local free list and count it as used.
MutUsedAfterPop(f) == header[f].used
UsedAfterPop(f) == header[f].used + 1

PopLocal(t, b, old) ==
    LET x == local[t][b][1] IN
    /\ local[t][b] # <<>>
    /\ local' = [local EXCEPT ![t][b] = Tail(@)]
    /\ header' = [header EXCEPT ![x[1]].used = UsedAfterPop(x[1])]
    /\ Deliver(t, x, old)
    /\ UNCHANGED <<live, cross, pages, released>>

AllocFast(t, b) ==
    /\ op[t].pc = "idle"
    /\ PopLocal(t, b, None)

AllocSlow(t, b) ==
    /\ op[t].pc = "idle"
    /\ local[t][b] = <<>>
    /\ op' = [op EXCEPT ![t] = Sweeping(b, None)]
    /\ UNCHANGED <<live, header, cross, local, pages, held, released>>

\* collect_and_sweep's freedCount: the length of the stolen list.
MutFreedCount(f) == IF cross[f] = <<>> THEN 0 ELSE 1
FreedCount(f) == Len(cross[f])

\* One iteration of collect_and_sweep: steal the page's cross-thread list; a
\* page left without used blocks goes back to palloc unless it is the head.
SweepPage(t) ==
    LET b == op[t].bucket
        i == op[t].at
        f == pages[t][b][i]
        left == header[f].used - FreedCount(f)
    IN
    /\ op[t].pc = "sweep"
    /\ i \in DOMAIN pages[t][b]
    /\ local' = [local EXCEPT ![t][b] = cross[f] \o @]
    /\ cross' = [cross EXCEPT ![f] = <<>>]
    /\ header' = [header EXCEPT ![f].used = left]
    /\ IF left = 0 /\ i # 1
       THEN /\ pages' = [pages EXCEPT ![t][b] = RemoveAt(@, i)]
            /\ live' = live \ {f}
            /\ released' = released \cup {f}
            /\ UNCHANGED op
       ELSE /\ op' = [op EXCEPT ![t].at = i + 1]
            /\ UNCHANGED <<pages, live, released>>
    /\ UNCHANGED held

SweptAll(t) ==
    /\ op[t].pc = "sweep"
    /\ op[t].at \notin DOMAIN pages[t][op[t].bucket]

SlowPop(t) ==
    /\ SweptAll(t)
    /\ PopLocal(t, op[t].bucket, op[t].blk)

\* The free list carve leaves: every block of the page after the first.
MutCarvedFirst(f) == [i \in 1..Capacity |-> <<f, i>>]
MutCarvedBeyond(f) == [i \in 1..Capacity |-> <<f, i + 1>>]
Carved(f) == [i \in 1..(Capacity - 1) |-> <<f, i + 1>>]

\* Nothing was stolen: carve a new page, keep its first block, list the rest.
SlowCarve(t, f) ==
    LET b == op[t].bucket IN
    /\ SweptAll(t)
    /\ local[t][b] = <<>>
    /\ f \notin live
    /\ live' = live \cup {f}
    /\ header' = [header EXCEPT ![f] = SmallHeader(t, b)]
    /\ cross' = [cross EXCEPT ![f] = <<>>]
    /\ pages' = [pages EXCEPT ![t][b] = <<f>> \o @]
    /\ local' = [local EXCEPT ![t][b] = Carved(f)]
    /\ Deliver(t, <<f, 1>>, op[t].blk)
    /\ UNCHANGED released

\* palloc.alloc failed: alloc returns null, and grow leaves the old block alone.
SlowFail(t) ==
    /\ SweptAll(t)
    /\ local[t][op[t].bucket] = <<>>
    /\ held' = IF op[t].blk = None THEN held ELSE [held EXCEPT ![op[t].blk] = @ + 1]
    /\ op' = [op EXCEPT ![t] = Idle]
    /\ UNCHANGED <<live, header, cross, local, pages, released>>

\* Large Allocation Path.
TakeLarge(t, f, old) ==
    /\ f \notin live
    /\ live' = live \cup {f}
    /\ header' = [header EXCEPT ![f] = LargeHeader(t)]
    /\ cross' = [cross EXCEPT ![f] = <<>>]
    /\ UNCHANGED <<local, pages, released>>

AllocLarge(t, f) ==
    /\ op[t].pc = "idle"
    /\ TakeLarge(t, f, None)
    /\ Deliver(t, <<f, 0>>, None)

-----------------------------------------------------------------------------
(* dealloc                                                                 *)

\* The owner's push does used_count--, a cross-thread free leaves it to the sweep.
MutUsedAfterOwnFree(f) == header[f].used
UsedAfterOwnFree(f) == header[f].used - 1

\* The body of dealloc(x) once t is in it: a large allocation goes back to
\* palloc, a block of one's own page on the local list, and for any other
\* block the CAS loop starts with a load of the page's cross_thread_free.
Dealloc(t, x) ==
    LET f == x[1]
        h == header[f]
    IN
    \/ /\ h.large
       /\ live' = live \ {f}
       /\ op' = [op EXCEPT ![t] = Idle]
       /\ UNCHANGED <<header, cross, local>>
    \/ /\ ~h.large
       /\ h.owner = t
       /\ local' = [local EXCEPT ![t][h.bucket] = <<x>> \o @]
       /\ header' = [header EXCEPT ![f].used = UsedAfterOwnFree(f)]
       /\ op' = [op EXCEPT ![t] = Idle]
       /\ UNCHANGED <<live, cross>>
    \/ /\ ~h.large
       /\ h.owner # t
       /\ op' = [op EXCEPT ![t] = Pushing(x, Top(cross[f]))]
       /\ UNCHANGED <<live, header, cross, local>>

\* Any thread may free a block that is in a caller's hands.
Free(t, x) ==
    /\ op[t].pc = "idle"
    /\ held[x] > 0
    /\ held' = [held EXCEPT ![x] = @ - 1]
    /\ Dealloc(t, x)
    /\ UNCHANGED <<pages, released>>

\* grow() has copied the old block's contents and deallocates it.
DropOld(t) ==
    /\ op[t].pc = "drop"
    /\ Dealloc(t, op[t].blk)
    /\ UNCHANGED <<pages, held, released>>

MutHeadUnchanged(t) == TRUE
HeadUnchanged(t) == Top(cross[op[t].blk[1]]) = op[t].seen

\* compare_exchange_weak: the push happens only if the head is still the one
\* node->next was set to ...
PushOk(t) ==
    LET x == op[t].blk IN
    /\ op[t].pc = "push"
    /\ HeadUnchanged(t)
    /\ cross' = [cross EXCEPT ![x[1]] = <<x>> \o From(@, op[t].seen)]
    /\ op' = [op EXCEPT ![t] = Idle]
    /\ UNCHANGED <<live, header, local, pages, held, released>>

\* ... and otherwise oldHead is reloaded.  (A spurious failure of the weak form
\* reloads the same head: a stuttering step.)
PushRetry(t) ==
    LET head == Top(cross[op[t].blk[1]]) IN
    /\ op[t].pc = "push"
    /\ head # op[t].seen
    /\ op' = [op EXCEPT ![t].seen = head]
    /\ UNCHANGED <<live, header, cross, local, pages, held, released>>

-----------------------------------------------------------------------------
(* grow and shrink                                                         *)

\* A small block outgrows its bucket: alloc in a larger one (b), copy, dealloc.
GrowFast(t, x, b) ==
    /\ op[t].pc = "idle"
    /\ held[x] > 0 /\ ~header[x[1]].large /\ b > header[x[1]].bucket
    /\ local[t][b] # <<>>
    /\ LET y == local[t][b][1] IN
       /\ local' = [local EXCEPT ![t][b] = Tail(@)]
       /\ header' = [header EXCEPT ![y[1]].used = UsedAfterPop(y[1])]
       /\ held' = [held EXCEPT ![x] = @ - 1, ![y] = @ + 1]
    /\ op' = [op EXCEPT ![t] = Dropping(x)]
    /\ UNCHANGED <<live, cross, pages, released>>

GrowSlow(t, x, b) ==
    /\ op[t].pc = "idle"
    /\ held[x] > 0 /\ ~header[x[1]].large /\ b > header[x[1]].bucket
    /\ local[t][b] = <<>>
    /\ held' = [held EXCEPT ![x] = @ - 1]
    /\ op' = [op EXCEPT ![t] = Sweeping(b, x)]
    /\ UNCHANGED <<live, header, cross, local, pages, released>>

\* A small block outgrows the largest bucket.
GrowToLarge(t, x, f) ==
    /\ op[t].pc = "idle"
    /\ held[x] > 0 /\ ~header[x[1]].large
    /\ TakeLarge(t, f, x)
    /\ held' = [held EXCEPT ![x] = @ - 1, ![<<f, 0>>] = @ + 1]
    /\ op' = [op EXCEPT ![t] = Dropping(x)]

\* palloc.grow or palloc.shrink moves a large allocation, header and all; if it
\* cannot, grow allocates anew, copies and deallocates, with the caller's id.
MoveLarge(t, f, g) ==
    /\ op[t].pc = "idle"
    /\ held[<<f, 0>>] > 0 /\ header[f].large
    /\ g \notin live
    /\ live' = (live \ {f}) \cup {g}
    /\ \E o \in {header[f].owner, t} : header' = [header EXCEPT ![g] = LargeHeader(o)]
    /\ cross' = [cross EXCEPT ![g] = <<>>]
    /\ held' = [held EXCEPT ![<<f, 0>>] = @ - 1, ![<<g, 0>>] = @ + 1]
    /\ UNCHANGED <<local, pages, op, released>>

-----------------------------------------------------------------------------
Next ==
    \E t \in Threads :
        \/ \E b \in Bucket : AllocFast(t, b) \/ AllocSlow(t, b)
        \/ SweepPage(t) \/ SlowPop(t) \/ SlowFail(t)
        \/ \E f \in Pages : SlowCarve(t, f) \/ AllocLarge(t, f)
        \/ \E x \in Handle : Free(t, x)
        \/ DropOld(t) \/ PushOk(t) \/ PushRetry(t)
        \/ \E x \in Handle, b \in Bucket : GrowFast(t, x, b) \/ GrowSlow(t, x, b)
        \/ \E x \in Handle, f \in Pages : GrowToLarge(t, x, f)
        \/ \E f, g \in Pages : MoveLarge(t, f, g)

Spec == Init /\ [][Next]_vars
-----------------------------------------------------------------------------
(* Properties                                                              *)

HeaderType == [large : BOOLEAN, owner : Threads \cup {None}, bucket : Bucket, used : Int]
OpType == [pc : {"idle", "sweep", "drop", "push"}, bucket : Bucket, at : Nat \ {0},
           blk : Handle \cup {None}, seen : Handle \cup {None}]

\* Every pointer in a header, a thread cache or a running operation points at a
\* page or into one, also after a page was released; grow and dealloc have a block.
TypeOK ==
    /\ live \subseteq Pages
    /\ header \in [Pages -> HeaderType]
    /\ cross \in [Pages -> Seq(Handle)]
    /\ local \in [Threads -> [Bucket -> Seq(Handle)]]
    /\ pages \in [Threads -> [Bucket -> Seq(Pages)]]
    /\ held \in [Handle -> Nat]
    /\ op \in [Threads -> OpType]
    /\ \A t \in Threads : op[t].pc \in {"drop", "push"} => op[t].blk # None
    /\ released \subseteq Pages

\* No page was given back by a sweep.  The first one that is leaves all its blocks
\* on the owner's free list (NoDoubleHandout below), and nothing holds after it.
Intact == released = {}

SmallPages == {f \in live : ~header[f].large}
Slots(f) == {f} \X Slot

\* Where a block can be: with a caller, inside grow or dealloc, on the cross-thread
\* stack of its page, on a thread's free list.
Held(x)    == held[x] > 0
Moving(x)  == \E t \in Threads : op[t].blk = x
Stacked(x) == x \in ToSet(cross[x[1]])
Cached(x)  == \E t \in Threads, b \in Bucket : x \in ToSet(local[t][b])

Somewhere ==
    \A f \in SmallPages : \A x \in Slots(f) : Held(x) \/ Moving(x) \/ Stacked(x) \/ Cached(x)

NowhereElse ==
    \A x \in Handle :
        /\ Held(x) => ~Moving(x) /\ ~Stacked(x) /\ ~Cached(x)
        /\ Moving(x) => ~Stacked(x) /\ ~Cached(x)
        /\ Stacked(x) => ~Cached(x)

Once ==
    /\ \A x \in Handle : held[x] <= 1
    /\ \A t, u \in Threads : op[t].blk = op[u].blk => t = u \/ op[t].blk = None
    /\ \A f \in Pages : IsInjective(cross[f])
    /\ \A t \in Threads, b \in Bucket : IsInjective(local[t][b])
    /\ \A t, u \in Threads, b, c \in Bucket :
          ToSet(local[t][b]) \cap ToSet(local[u][c]) # {} => t = u /\ b = c

\* Until a page is released, every block of every carved page is in exactly one
\* place, once: no interleaving of cross-thread frees, retries of the CAS loop and
\* sweeps loses a block, lists it twice or hands it to two callers.
BlockInOnePlace == Intact => Somewhere /\ NowhereElse /\ Once

\* Until a page is released, used_count, which only the owner writes, is the
\* number of blocks that are not on the owner's free list, the cross-thread frees
\* the owner has not seen yet included.
UsedIsExact ==
    Intact => \A f \in SmallPages :
        LET h == header[f] IN h.used = Cardinality(Slots(f) \ ToSet(local[h.owner][h.bucket]))

\* A page collect_and_sweep gives back has no block with a caller, in the middle
\* of a dealloc or on its cross-thread stack.
ReleasedIsUnused ==
    [][\A f \in released' \ released : Intact =>
         \A x \in Slots(f) : ~Held(x)' /\ ~Moving(x)' /\ ~Stacked(x)']_vars

\* How often each block is with a caller, or with a grow that still copies from it.
Out == [x \in Handle |->
           held[x] + Cardinality({t \in Threads : op[t].blk = x /\ op[t].pc # "push"})]
Pool == INSTANCE BlockPool WITH Block <- Handle, out <- Out

\* Until a page is released, every step hands out only a block nobody holds and
\* takes back only one that is held: heap_allocator is a BlockPool.
PoolUntilRelease == [][released' # {} \/ Pool!Next]_Out

\* No block is in two callers' hands (heap_alloc.cpp:138 of the tests: "Verify
\* all returned pointers are unique").
NoDoubleHandout == \A x \in Handle : held[x] <= 1
=============================================================================
