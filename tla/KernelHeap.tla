----------------------------- MODULE KernelHeap -----------------------------
(***************************************************************************)
(* The kernel's heap, kernel/memory/alloc.cpp: per size class (bucket) a   *)
(* list of Metadata pages, each with ChunkPtr entries {bytesUsed, list};   *)
(* a chunk is a page cut in blocks that are linked through themselves.     *)
(* Every call runs under scoped_lock<IrqLock>, as one step.                *)
(*                                                                         *)
(* Memory is an array of words; an address is the index of a word, 0 is    *)
(* null, and page p is words p*PageWords onward.  Links, byte counts and   *)
(* metadata live in that array next to the callers' data, so that a write  *)
(* past the end of a page, or a read of a page not initialised, does here  *)
(* what it does in the kernel.  Sizes are in words.                        *)
(***************************************************************************)
EXTENDS Integers, Sequences, FiniteSets, FiniteSetsExt

CONSTANTS
    NumPages,    \* physical pages are 1..NumPages
    PageWords,   \* pmmChunkSize
    Buckets,     \* tinyBuckets: the block size of each bucket
    LowPages,    \* pages below 4 GiB: what glox::align keeps of an address
    MaxRun       \* the largest run of pages a big allocation takes

ASSUME KernelHeapAssumption ==
    /\ NumPages \in Nat \ {0} /\ LowPages \in Nat \ {0} /\ MaxRun \in Nat
    /\ PageWords \in Nat /\ PageWords >= 4
    /\ Buckets \in Seq(1..PageWords)
    /\ \A b \in DOMAIN Buckets : PageWords % Buckets[b] = 0

Page   == 1..NumPages
Base(p) == p * PageWords
PageOf(a) == a \div PageWords
Word   == Base(1)..(Base(NumPages + 1) - 1)
Bucket == DOMAIN Buckets
Null == 0
Data == -1     \* what a caller writes into its blocks

VARIABLES
    heap,      \* mem, the array of words; list, globalHeap.buckets[b].list; free,
               \* the pages the PMM has; fault, whether a wild pointer was followed
    held,      \* the blocks <<address, bucket>> callers have
    big,       \* the runs <<page, count>> big_alloc gave out
    lastNull,  \* the bucket whose last memalloc returned null, 0 if it did not
    gaveBack,  \* whether any page went back to the PMM (history)
    cut,       \* whether init_chunk overwrote the link of a free block (history)
    lost       \* blocks memdealloc found no chunk for (history)

vars == <<heap, held, big, lastNull, gaveBack, cut, lost>>

Pmm == INSTANCE PageSet WITH free <- heap.free
Run(p, n) == Pmm!Run(p, n)
Block(x, b) == x..(x + Buckets[b] - 1)

-----------------------------------------------------------------------------
\* glox::align(a, pmmChunkSize) computes in uint32_t.
Align(a) == Base(PageOf(a) % LowPages)

\* The words of a ChunkPtr and of a Metadata page, whose chunkHeaders have places <<1, k>>.
BytesUsed(c) == c
List(c)      == c + 1
ChunkCount   == (PageWords - 2) \div 2
ChunkHeaders(m) == [e \in {1} \X (1..ChunkCount) |-> m + 2 * e[2]]

PageStart == {Base(p) : p \in Page}
Wild(h) == [h EXCEPT !.fault = TRUE]

\* The n addresses met by following links from first: null after null or a bad pointer.
Followed(mem, valid, first, n) ==
    LET nth[k \in 1..n] ==
            IF k = 1 THEN first
            ELSE LET x == nth[k - 1] IN IF x \in valid THEN mem[x] ELSE Null
    IN  nth

\* The Metadata pages of bucket b, in list order ...
MetadataList(h, b) == Followed(h.mem, PageStart, h.list[b], NumPages)

\* ... the last of them ...
LastMetadata(h, b) ==
    LET ms == MetadataList(h, b)
    IN  ms[CHOOSE i \in Page : ms[i] \in PageStart /\ (i = NumPages \/ ms[i + 1] \notin PageStart)]

\* ... and their chunks: at <<i, k>>, the k-th of the i-th page.
Chunks(h, b) ==
    LET ms == MetadataList(h, b)
    IN  [e \in {i \in Page : ms[i] \in PageStart} \X (1..ChunkCount) |-> ms[e[1]] + 2 * e[2]]

\* The one of these places both traversals come to first.
FirstOf(places) ==
    CHOOSE e \in places : \A f \in places : e[1] < f[1] \/ (e[1] = f[1] /\ e[2] <= f[2])

\* page_alloc(n) as its callers see it: the pages leave the PMM.
Without(h, p, n) == [h EXCEPT !.free = @ \ Run(p, n)]

-----------------------------------------------------------------------------
(* alloc                                                                   *)

\* The loop of init_chunk stores one link too many: the null that ends the list
\* goes to the first word after the page.
MutPastEnd(p, size) == Base(p + 1) + size
PastEnd(p, size) == Base(p + 1)

\* init_chunk: thread a fresh page into a list of blocks.
InitChunk(h, c, size, p) ==
    LET fresh(a) == IF a = BytesUsed(c) THEN 0
                    ELSE IF a = List(c) THEN Base(p)
                    ELSE IF a = PastEnd(p, size) THEN Null
                    ELSE IF PageOf(a) = p /\ a % size = 0 THEN a + size
                    ELSE h.mem[a]
    IN  [Without(h, p, 1) EXCEPT !.mem = [a \in Word |-> fresh(a)]]

\* Pop the chunk's list.
MutBytesAfterPop(h, c, size) == h.mem[BytesUsed(c)]
BytesAfterPop(h, c, size) == h.mem[BytesUsed(c)] + size

Pop(h, c, size) ==
    LET x == h.mem[List(c)] IN
    IF x \notin Word THEN [heap |-> Wild(h), ptr |-> Null, done |-> TRUE]
    ELSE [heap |-> [h EXCEPT !.mem[List(c)] = h.mem[x], !.mem[BytesUsed(c)] = BytesAfterPop(h, c, size)],
          ptr |-> x, done |-> TRUE]

MutIsFull(h, c) == h.mem[BytesUsed(c)] > PageWords
IsFull(h, c) == h.mem[BytesUsed(c)] = PageWords

\* alloc_from_chunk: the first chunk that is unused or not full; done is FALSE
\* when there is none.
AllocFromChunk(h, chunks, size) ==
    LET fit == {e \in DOMAIN chunks : h.mem[List(chunks[e])] = Null \/ ~IsFull(h, chunks[e])}
        c == chunks[FirstOf(fit)]
        pages == Pmm!FirstFit(h.free, 1)
    IN  IF fit = {} THEN [heap |-> h, ptr |-> Null, done |-> FALSE]
        ELSE IF h.mem[List(c)] # Null THEN Pop(h, c, size)
        ELSE IF pages = {} THEN [heap |-> h, ptr |-> Null, done |-> TRUE]
        ELSE Pop(InitChunk(h, c, size, CHOOSE p \in pages : TRUE), c, size)

\* Metadata page p follows m.
MutLinked(h, m, p) == Without(h, p, 1)
Linked(h, m, p) == [Without(h, p, 1) EXCEPT !.mem[m] = Base(p)]

\* alloc_mem for a size of bucket b.  When every chunk is full it links a new
\* Metadata page (not initialised: page_alloc does not zero), but then looks once
\* more at the old one and returns null.
AllocMem(h, b) ==
    LET fails(g) == [heap |-> g, ptr |-> Null, done |-> TRUE]
        pages == Pmm!FirstFit(h.free, 1)
        p == CHOOSE q \in pages : TRUE
        first == IF h.list[b] # Null THEN h ELSE [Without(h, p, 1) EXCEPT !.list[b] = Base(p)]
        r == AllocFromChunk(first, Chunks(first, b), Buckets[b])
        m == LastMetadata(first, b)
    IN  IF h.list[b] = Null /\ pages = {} THEN fails(h)
        ELSE IF r.done THEN r
        ELSE IF h.mem[m] # Null THEN fails(Wild(h))
        ELSE IF pages = {} THEN fails(h)
        ELSE AllocFromChunk(Linked(h, m, p), ChunkHeaders(m), Buckets[b])

\* The blocks chunk c still has: as many nodes of its list as bytesUsed leaves room
\* for.  What follows them is not a block.
Available(h, c, size) == Followed(h.mem, Word, h.mem[List(c)], (PageWords - h.mem[BytesUsed(c)]) \div size)

\* The blocks of bucket b that are on lists, with their chunks and positions.
Listed(h, b) ==
    LET cs == Chunks(h, b)
        av == [e \in DOMAIN cs |-> Available(h, cs[e], Buckets[b])]
        at(e) == {[block |-> <<av[e][k], b>>, chunk |-> e, pos |-> k] : k \in DOMAIN av[e]}
    IN  {l \in UNION {at(e) : e \in DOMAIN cs} : l.block[1] # Null}
AllListed(h) == UNION {Listed(h, b) : b \in Bucket}

\* A caller gets a block and fills it.
Filled(h, words) == [h EXCEPT !.mem = [a \in Word |-> IF a \in words THEN Data ELSE @[a]]]

MemAlloc(b) ==
    /\ ~heap.fault
    /\ LET r == AllocMem(heap, b) IN
       /\ \/ /\ r.ptr = Null
             /\ heap' = r.heap
             /\ lastNull' = b
             /\ UNCHANGED held
          \/ /\ r.ptr # Null
             /\ heap' = Filled(r.heap, Block(r.ptr, b))
             /\ held' = held \cup {<<r.ptr, b>>}
             /\ lastNull' = 0
       /\ cut' = (cut \/ \E l \in AllListed(heap) :
                            l.block[1] \in Word /\ r.heap.mem[l.block[1]] # heap.mem[l.block[1]])
    /\ UNCHANGED <<big, gaveBack, lost>>

\* big_alloc, and every other caller of page_alloc in the kernel.
BigAlloc(n) ==
    /\ ~heap.fault
    /\ \E p \in Pmm!FirstFit(heap.free, n) :
          /\ heap' = Filled(Without(heap, p, n), Base(p)..(Base(p + n) - 1))
          /\ big' = big \cup {<<p, n>>}
    /\ lastNull' = 0
    /\ UNCHANGED <<held, gaveBack, cut, lost>>

-----------------------------------------------------------------------------
(* dealloc                                                                 *)

\* free_mem looks for the chunk whose list points into the same page as x.  A full
\* chunk's list points past its page.
Owners(h, chunks, x) == {e \in DOMAIN chunks : Align(h.mem[List(chunks[e])]) = Align(x)}

\* What a freed block links to: the head of the list it is pushed on.
MutNextOfFreed(h, c, x) == h.mem[x]
NextOfFreed(h, c, x) == h.mem[List(c)]

\* free_chunk: when nothing of the chunk is used any more the page goes back to
\* the PMM, unless its address is cut to null (page_dealloc(nullptr) does nothing),
\* but the chunk keeps its list.  (A count below zero is 2^64 - n in the code: neither
\* 0 nor full, and a later pop adds to it.)
FreeChunk(h, c, x, size) ==
    LET used == h.mem[BytesUsed(c)] - size IN
    IF used = 0
    THEN [h EXCEPT !.mem[BytesUsed(c)] = 0, !.free = @ \cup ({PageOf(Align(h.mem[List(c)]))} \ {0})]
    ELSE [h EXCEPT !.mem[BytesUsed(c)] = used, !.mem[x] = NextOfFreed(h, c, x), !.mem[List(c)] = x]

MemDealloc(x, b) ==
    /\ ~heap.fault
    /\ <<x, b>> \in held
    /\ held' = held \ {<<x, b>>}
    /\ LET chunks == Chunks(heap, b)
           owners == Owners(heap, chunks, x)
           c == chunks[FirstOf(owners)]
       IN  IF owners = {}
           THEN /\ lost' = lost \cup {<<x, b>>}
                /\ UNCHANGED <<heap, gaveBack>>
           ELSE /\ heap' = FreeChunk(heap, c, x, Buckets[b])
                /\ gaveBack' = (gaveBack \/ heap'.mem[BytesUsed(c)] = 0)
                /\ UNCHANGED lost
    /\ lastNull' = 0
    /\ UNCHANGED <<big, cut>>

BigDealloc(p, n) ==
    /\ ~heap.fault
    /\ <<p, n>> \in big
    /\ big' = big \ {<<p, n>>}
    /\ heap' = [heap EXCEPT !.free = @ \cup Run(p, n)]
    /\ gaveBack' = TRUE
    /\ lastNull' = 0
    /\ UNCHANGED <<held, cut, lost>>

-----------------------------------------------------------------------------
Init ==
    /\ heap = [mem |-> [a \in Word |-> 0], list |-> [b \in Bucket |-> Null], free |-> Page,
               fault |-> FALSE]
    /\ held = {}
    /\ big = {}
    /\ lastNull = 0
    /\ gaveBack = FALSE
    /\ cut = FALSE
    /\ lost = {}

Next ==
    \/ \E b \in Bucket : MemAlloc(b)
    \/ \E n \in 1..MaxRun : BigAlloc(n)
    \/ \E x \in held : MemDealloc(x[1], x[2])
    \/ \E r \in big : BigDealloc(r[1], r[2])

Spec == Init /\ [][Next]_vars

-----------------------------------------------------------------------------
(* Properties                                                              *)

\* Also: no chunk counts more bytes than its page has.
TypeOK ==
    /\ heap \in [mem : [Word -> Int], list : [Bucket -> {Null} \cup Word], free : SUBSET Page,
                 fault : BOOLEAN]
    /\ held \subseteq Word \X Bucket
    /\ big \subseteq Page \X (1..MaxRun)
    /\ lastNull \in Bucket \cup {0}
    /\ lost \subseteq Word \X Bucket
    /\ ~gaveBack => \A b \in Bucket : LET chunks == Chunks(heap, b) IN
                       \A e \in DOMAIN chunks : heap.mem[BytesUsed(chunks[e])] <= PageWords

\* The blocks callers have and the blocks on free lists are pairwise disjoint, and no
\* list holds a block twice, although a full chunk's list points into the next page,
\* free_mem may credit a block to that page's neighbour, and addresses lose their
\* high half.
BlocksApart ==
    ~gaveBack => LET listed == AllListed(heap) IN
        /\ \A r, s \in held : r # s => Block(r[1], r[2]) \cap Block(s[1], s[2]) = {}
        /\ \A l \in listed : LET x == l.block[1]
                               b == l.block[2] IN
              /\ x \in Word /\ x % Buckets[b] = 0 /\ PageOf(x) \notin heap.free
              /\ \A r \in held : Block(x, b) \cap Block(r[1], r[2]) = {}
              /\ \A n \in listed : l # n => Block(x, b) \cap Block(n.block[1], n.block[2]) = {}

\* The heap follows no pointer that a caller, or nobody, wrote.
NoWildPointer == ~gaveBack => ~heap.fault

\* bytesUsed of a bucket's chunks adds up to what callers have, plus the blocks whose
\* dealloc failed, however the frees were credited among the chunks.
UsedAdds ==
    ~gaveBack /\ ~cut => \A b \in Bucket : LET chunks == Chunks(heap, b) IN
        FoldSet(LAMBDA e, n : n + heap.mem[BytesUsed(chunks[e])], 0, DOMAIN chunks)
          = Buckets[b] * Cardinality({r \in held \cup lost : r[2] = b})

\* When memalloc has returned null with pages left, calling it again gets a block:
\* the null only meant that a Metadata page was added.
NullIsNotFinal ==
    ~gaveBack /\ lastNull # 0 => heap.free = {} \/ AllocMem(heap, lastNull).ptr # Null

\* No call changes a word of a block a caller keeps, but for the first word of the
\* page above one that was just taken (PastEnd).
OnlyPastEndIsDamaged ==
    [][~gaveBack' => \A r \in held \cap held' : \A a \in Block(r[1], r[2]) :
          heap'.mem[a] # heap.mem[a] =>
              a % PageWords = 0 /\ PageOf(a) - 1 \in heap.free \ heap'.free]_vars

\* Alloc takes its blocks from the bucket's own pages (alloc.cpp:19, "pops address from
\* bucket with free slot"): no caller has a block of a page the PMM may hand out.
OnOwnPages == \A r \in held : PageOf(r[1]) \notin heap.free
=============================================================================
