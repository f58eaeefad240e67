----------------------------- MODULE HeapSizes ------------------------------
(***************************************************************************)
(* The arithmetic of heap_allocator (glox/heap_alloc.hpp), which HeapAlloc *)
(* leaves out: sizes, alignments and addresses of one allocation, from     *)
(* alloc over grow and shrink to dealloc.  Numbers are of type size_t.     *)
(* palloc gives regions that start at a multiple of PageSize, or nothing.  *)
(* And the size classes of the kernel heap (kernel/memory/alloc.cpp).      *)
(***************************************************************************)
EXTENDS Integers, Sequences, FiniteSets, FiniteSetsExt

CONSTANTS
    Word,           \* 2^64 in the code
    PageSize,       \* 65536, a power of two
    MaxSmallSize,   \* 2048, a power of two: MAX_SMALL_ALIGNMENT, too
    Granularity,    \* 8, a power of two: alignof(page_header), too
    HeaderSize,     \* sizeof(page_header), 56
    NoRegion        \* the null handle

\* std::has_single_bit: the odd divisor of a power of two is 1.
HasSingleBit(x) == x > 0 /\ \A d \in 2..x : x % d = 0 => d % 2 = 0

ASSUME HeapSizesAssumption ==
    /\ {Word, PageSize, MaxSmallSize, Granularity} \subseteq Nat \ {0}
    /\ PageSize < Word /\ Word % PageSize = 0
    /\ HasSingleBit(PageSize) /\ HasSingleBit(MaxSmallSize) /\ HasSingleBit(Granularity)
    /\ Granularity <= MaxSmallSize
    /\ HeaderSize \in Nat /\ HeaderSize + 2 * MaxSmallSize <= PageSize /\ 2 * HeaderSize <= PageSize
    /\ NoRegion \notin [base : Nat, bytes : Nat, large : BOOLEAN, blockSize : Nat, ptr : Nat]

VARIABLES
    got,       \* the allocation: its region, the header at its start, the payload; or NoRegion
    wanted,    \* the size and the alignment that were asked for last
    sizeLog    \* history: what went wrong in the last operation

heapSizesVars == <<got, wanted, sizeLog>>

NothingWanted == [n |-> 0, alignment |-> Granularity]

Larger(x, y) == IF x > y THEN x ELSE y

AlignUp(value, alignment) == LET sum == (value + alignment - 1) % Word IN sum - (sum % alignment)

\* Bug: a size that fills its bucket goes to the next one.
MutBucketIndex(size) == size \div Granularity

BucketIndex(size) == IF size = 0 THEN 0 ELSE (size - 1) \div Granularity

BlockSize(bucket) == (bucket + 1) * Granularity

\* get_page_header, as an address.
PageHeader(ptr) == ptr - (ptr % PageSize)

-----------------------------------------------------------------------------
(* alloc.                                                                  *)

\* What palloc answers to a request of this many bytes: the start of a region.
Regions(bytes) == {base \in 1..Word - 1 : base % PageSize = 0 /\ base + bytes <= Word}

Region(base, bytes, large, block, ptr) ==
    [base |-> base, bytes |-> bytes, large |-> large, blockSize |-> block, ptr |-> ptr]

LargeOffset(alignment) == AlignUp(HeaderSize, Larger(alignment, Granularity))

ServedLarge(n, alignment) ==
    LET offset == LargeOffset(alignment)
        pageReq == AlignUp((n + offset) % Word, PageSize)
    IN  {Region(base, pageReq, TRUE, pageReq, base + offset) : base \in Regions(pageReq)}

\* The blocks carved from a page: the first one, and those that fit after it.
BlockOffsets(block) ==
    LET start == AlignUp(HeaderSize, MaxSmallSize)
    IN  {start} \cup {start + k * block : k \in 1..((PageSize - start) \div block) - 1}

ServedSmall(bucket) ==
    LET block == BlockSize(bucket)
    IN  {Region(base, PageSize, FALSE, block, base + offset) :
            base \in Regions(PageSize), offset \in BlockOffsets(block)}

\* The allocations that alloc can make.
Served(n, asked) ==
    LET alignment == Larger(asked, Granularity)
        alignedN == AlignUp(AlignUp(n, alignment), Granularity)
    IN  IF ~HasSingleBit(asked) \/ asked > PageSize THEN {}
        ELSE IF alignedN > MaxSmallSize \/ alignment > MaxSmallSize THEN ServedLarge(n, alignment)
        ELSE ServedSmall(BucketIndex(alignedN))

\* usable_size: the capacity that is reported, too.
UsableSize(r) == IF r.large THEN (r.blockSize - (r.ptr - r.base)) % Word ELSE r.blockSize

-----------------------------------------------------------------------------
(* What is wrong with an allocation of n bytes.                            *)

Wrong(r, n, alignment) ==
    (IF PageHeader(r.ptr) # r.base THEN {"header"} ELSE {})
    \cup (IF r.ptr % alignment # 0 THEN {"alignment"} ELSE {})
    \cup (IF n > UsableSize(r) THEN {"size"} ELSE {})
    \cup (IF r.ptr < r.base + HeaderSize \/ r.ptr + UsableSize(r) > r.base + r.bytes
          THEN {"outside"} ELSE {})

\* Of an allocation that something is wrong with, nothing more is said.
Gives(r, n, alignment, also) ==
    LET wrong == also \cup IF r = NoRegion THEN {} ELSE Wrong(r, n, alignment)
    IN  /\ sizeLog' = wrong
        /\ got' = IF wrong = {} THEN r ELSE NoRegion
        /\ wanted' = IF r = NoRegion THEN NothingWanted ELSE [n |-> n, alignment |-> alignment]

AllocBytes(n, alignment) ==
    /\ got = NoRegion
    /\ \E r \in Served(n, alignment) \cup {NoRegion} : Gives(r, n, alignment, {})

DeallocBytes == Gives(NoRegion, 0, Granularity, {})

\* The region of a large allocation for n bytes, wherever palloc puts it.
Resized(n) ==
    LET offset == got.ptr - got.base
        pageReq == AlignUp((n + offset) % Word, PageSize)
    IN  {Region(base, pageReq, TRUE, pageReq, base + offset) : base \in Regions(pageReq)}

\* In place, by palloc, or by a new allocation into which all of the old one is copied.
GrowBytes(n) ==
    IF n = 0 THEN DeallocBytes
    ELSE IF n <= UsableSize(got) THEN Gives(got, n, wanted.alignment, {})
    ELSE \/ got.large /\ \E r \in Resized(n) : Gives(r, n, wanted.alignment, {})
         \/ \E r \in Served(n, wanted.alignment) :
               Gives(r, n, wanted.alignment,
                     IF UsableSize(r) < UsableSize(got) THEN {"copied outside"} ELSE {})
         \/ UNCHANGED heapSizesVars

\* Only whole pages of a large allocation are given back.
ShrinkBytes(n) ==
    IF n = 0 THEN DeallocBytes
    ELSE \/ /\ got.large
            /\ \E r \in Resized(n) : r.blockSize < got.blockSize /\ Gives(r, n, wanted.alignment, {})
         \/ Gives(got, n, wanted.alignment, {})

-----------------------------------------------------------------------------
(* The size classes of the kernel heap.                                    *)

TinyBuckets == <<16, 32, 64, 128, 256, 512, 1024, 2048>>

\* The number of bits without the leading zeros of x - 1.
AlignUpPow2(x) == IF x = 1 THEN 1 ELSE Min({k \in 0..30 : 2^k > x - 1})

\* Counts from 0.
Size2Bucket(size) == IF size <= TinyBuckets[1] THEN 0 ELSE AlignUpPow2(size) - 4

-----------------------------------------------------------------------------

HeapSizesInit ==
    /\ got = NoRegion
    /\ wanted = NothingWanted
    /\ sizeLog = {}

HeapSizesNext ==
    /\ sizeLog = {}
    /\ \/ \E n \in 0..Word - 1, alignment \in 0..PageSize + 1 : AllocBytes(n, alignment)
       \/ /\ got # NoRegion
          /\ \/ DeallocBytes
             \/ \E n \in 0..Word - 1 : GrowBytes(n)
             \/ \E n \in 0..wanted.n : ShrinkBytes(n)

HeapSizesSpec == HeapSizesInit /\ [][HeapSizesNext]_heapSizesVars

-----------------------------------------------------------------------------
(* Properties.                                                             *)

HeapSizesTypeOK ==
    /\ wanted \in [n : 0..Word - 1, alignment : 0..PageSize]
    /\ sizeLog \subseteq {"header", "alignment", "size", "outside", "copied outside"}

BucketsFit ==
    \A size \in 1..TinyBuckets[Len(TinyBuckets)] :
        Size2Bucket(size) + 1 = Min({b \in DOMAIN TinyBuckets : TinyBuckets[b] >= size})

\* Whatever is asked, the payload is inside its region and clear of the header, has the
\* alignment and at least the size that was asked for, dealloc finds the header from it, and
\* grow copies no more than fits.  Where this is not so the alignment is the page size, which
\* puts the payload a page past its header; or the size is 0, whose bucket has no alignment; or
\* it is so near the top of the address space that the sums wrap around.  The bucket of the
\* kernel heap is the smallest that fits, for every size it has buckets for.
SizesAreServed ==
    /\ sizeLog # {} => \/ wanted.alignment = PageSize /\ "header" \in sizeLog
                       \/ wanted.n = 0 /\ sizeLog = {"alignment"}
                       \/ wanted.n > Word - 2 * PageSize
    /\ BucketsFit
=============================================================================
