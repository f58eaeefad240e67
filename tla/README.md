# Gloxor in TLA+

A verification project for the Gloxor kernel: TLA+ modules translated from its
source, TLC configurations that check them on small instances, and proofs TLAPS
checks.  Paths below are relative to `src/`.

## The system

Gloxor is a small x86-64 kernel written with C++ modules (`kernel/`) over a library
of containers, allocators and formatting that also builds for user programs
(`libraries/libglox`).  It boots through Limine, sets up one CPU and its drivers, and halts,
serving interrupts.  The kernel's tests are inside its sources (`#ifdef TEST`), the library's
in `libraries/libglox/test`.

### Inventory

**heap_allocator** (`libraries/libglox/include/glox/heap_alloc.hpp`).
State: per thread and size class a `local_free` list and the `pages` carved for
it; in each page a header with owner, bucket, `used_count` and the lock-free
`cross_thread_free` stack.  Operations: `alloc`, `dealloc`, `grow`, `shrink`,
`collect_and_sweep`.  It sits on a page allocator (`palloc`).  Hard: frees by a
thread that is not the owner, in a compare-and-swap loop, against the owner's
steal; a page that is given back while other threads may still know its blocks.
Correct when a block is in exactly one place, `used_count` tells the truth, and
a page given back is not in use.

**Physical memory manager** (`kernel/memory/pmm.cpp`, `llallocator.cppm`).
State: `pmmCtx`, a doubly linked list of chunks, each header stored in the chunk
it describes.  Operations: `pmm_add_chunk` (boot and dealloc), `page_alloc`,
`page_alloc_z`, `page_dealloc`.  Called by the kernel heap, paging and drivers.
Hard: pages come back in any order and must merge with both neighbours; a chunk
taken whole may be first, last, both or neither.  Correct when the list is
sorted and fully merged, and free pages plus pages handed out are what boot
added.

**Kernel heap** (`kernel/memory/alloc.cpp`).
State: per size class a list of Metadata pages with `{bytesUsed, list}` chunks,
in pages of the PMM.  Operations: `memalloc`, `memdealloc`, `grow`, `shrink`,
`alloc_zeroed`; requests above the largest bucket go to the PMM
(`big_alloc`).  Every call holds `scoped_lock<IrqLock>`.  Hard: a chunk is
recognised by where its list happens to point, the arithmetic is 32 bits wide, a
page returns to the PMM while its chunk lives on.  Correct when no block is
shared, none of a page the PMM owns is handed out, and counts add up.

**Paging and address spaces** (`kernel/arch/x86/src/paging.cpp`, `kernel/memory/virtmem.cpp`,
`kernel/main.cpp`).  State: four levels of page tables.  Operations: `map`, `map_huge_page`,
`translate`; `unmap` is a stub.  Called by the boot code, for usable memory, the frame buffer and
the kernel image, and by drivers.  Hard: tables allocated on the way down are not zeroed; huge and
small entries in one table; caching modes or'ed into an entry raw; memory that runs out half way
down.  Correct when the tables are a tree, `translate` returns what was mapped last, and each
mapping has the rights it asked for.

**Terminal and logging** (`kernel/system/terminal.cpp`, `logging.cpp`).  State:
the cursor, the frame buffer, the buffer numbers are formatted in.  Operations:
`write_char`, `exec_newline`, `write_str`, `clear_screen`.  Called by every part
of the kernel, and by the keyboard interrupt.  Hard: an interrupt that writes in the
middle of a write; lines that fill the row exactly.  Correct when every pixel
written is in the frame buffer, and the screen shows the end of what was printed.

**Interrupts, keyboard, interrupt lock** (`kernel/drivers/ps2keyboard.cpp`, the
PIC driver, `gloxor/mutex.cpp`).  State: IF, the PIC masks.  Hard: what an interrupt
sees of the code it interrupts; which interrupts are open in which boot phase;
locks that nest.  Correct when a lock gives interrupts back as it found them, and
a key is served in the end.

**Red-black tree** (`libraries/libglox/include/glox/intrusive_rb_tree.hpp`).
State: links and colours in the elements, a sentinel and a size per tree, entries
the map owns.  Operations: insertion, erasure, lookups, iteration, clear, move, swap, `verify`.
Sequential.  Hard: rebalancing near the sentinel, which is neither null nor a
node; the ends of the tree and the next iterator, computed before the rotations;
ownership through a clear that unhooks leaves one by one.  Correct when each
tree is a red-black tree and the sorted list its operations say.

**Containers** (`libraries/libglox/include/glox`: vector, string, hash map, intrusive lists).
State: nodes and storage.  Sequential.  Hard: growth and moves of objects with destructors,
capacities kept in a bit field, rehashing intrusive chains, arguments that live in the container
they are inserted in, allocation that fails in the middle.  Correct when a container is the
dictionary or sequence its operations say, and loses no storage.  The kernel's own use of the
list is `vmap_iomem` (`kernel/memory/virtmem.cpp`), whose regions it keeps.

**Value types** (option, result, variant, box).  State: a tag and a union.  Hard: construction and
destruction by hand in every assignment, from the object itself or from the other alternative.
Correct when the tag always names the member that is alive.

**Formatting and the buffered log** (`glox/format.hpp`, `kernel/system/logging.cppm`).  State: a
position and a buffer of 512 characters.  Operations: `print`, `println`, `flush`.  Hard: the
non maskable interrupt logs through the same buffer, and no lock keeps it out.  Correct when
nothing is written past the buffer, and messages come out whole.

**Boot protocol, CPU initialisation, ACPI, font**: straight-line translation of tables and data;
see "Not modelled".

### How they interact

    boot protocol --memory map--> PMM <--pages-- kernel heap, paging, drivers
    boot protocol --memory map, frame buffer, image--> init_addr_space --map--> paging
    terminal <--writes-- everyone, keyboard IRQ; BufferStream <--writes-- CPU init, NMI
    heap_allocator --palloc--> page allocator (external)
    containers --allocator template parameter--> kernel heap or heap_allocator

Calls are synchronous; there is one CPU and no scheduler in the kernel, so there
concurrency is interrupts against the code they interrupt.  `heap_allocator` is
the one component written for threads.

## The modules

| module | what it models | built on |
|---|---|---|
| `BlockPool` | what an allocator promises: a block in a caller's hands is handed to nobody else | |
| `HeapAlloc` | heap_allocator, with every thread's place inside `alloc`, `grow`, `dealloc` | refines `BlockPool` |
| `HeapAllocProofs` | proof of the types of `HeapAlloc`, its inductive invariant, the safety properties and the refinement of `BlockPool`; that sizes are served | `HeapAlloc`, `HeapSizes` |
| `PageSet` | what the PMM promises: runs of pages taken from and added to a set | |
| `Pmm` | the PMM's linked list | refines `PageSet` |
| `PmmProofs` | proof of its types, its inductive invariant and the refinement of `PageSet` | `Pmm` |
| `KernelHeap` | memalloc and memdealloc on words of memory | takes its pages through `PageSet` |
| `KernelHeapProofs` | proof of its types and, until a page goes back, that blocks stay apart, no wild pointer is followed, a null is not final and `init_chunk` damages one word only | `KernelHeap` |
| `Terminal` | the kernel printing, `IrqLock`, boot opening interrupts, the keyboard handler | |
| `TerminalProofs` | proof that locks give interrupts back as they were, that the kernel alone draws inside the frame buffer and shows what it printed, of the port, and of the types | `Terminal` |
| `Paging` | page tables: `map`, `map_huge_page`, `translate`, the `VSpace` calls | |
| `Boot` | `limine_main`, `init_addr_space`, then calls of drivers | `Paging` |
| `PagingProofs` | proofs that the tables are a tree and mappings hold, for any calls and for those of the boot | `Boot` |
| `SortedLists` | what the ordered trees promise: lists sorted by key | |
| `RbNodes` | the functions of `intrusive_rb_tree.hpp` on links and colours: rotate, fixups, unlink, next, prev, bounds, verify | |
| `RbTree` | the calls of `rb_tree_map`, round by round | `RbNodes`, refines `SortedLists` |
| `Alloc` | `default_allocator` and the copying helpers of `alloc.hpp`, on cells with and without an object | |
| `Vector` | `glox::vector` | `Alloc` |
| `VectorProofs` | proof that vectors hold their contents in buffers of their own, and strings their text | `Vector`, `Strings` |
| `Strings` | `glox::string`, with the bit field of its capacity | |
| `Values` | option, result, variant, box: the tag against the member that is alive | |
| `HashMap` | `glox::hash_map` and its iterator | |
| `Lists` | `intrusive_list`, `vmap_iomem` and `vunmap_iomem` | |
| `FwdLists` | `intrusive_fwd_list` | |
| `HeapSizes` | sizes, alignments and addresses of one allocation; `size2bucket` of the kernel heap | |
| `LogStream` | `format_to`, `print`, `println`, `BufferStream`, the handler of the NMI | |
| `MCHeapAlloc`, `MCPmm`, `MCKernelHeap`, `MCTerminal`, `MCBoot`, `MCRbTree`, `MCContainers` | instances for TLC; `MCContainers` is the sum of the nine modules above | |
| `ContainersProofs` | proof that tags tell the truth, lists are linked, maps are dictionaries, and the stream of the log is whole | `MCContainers` |

### HeapAlloc

`local`, `pages`, `header` and `cross` are the fields of the same or a similar
name.  `op[t]` is where thread t is: idle, in `collect_and_sweep` at a page of
the list, between the copy and the `dealloc` of a `grow`, or in the CAS loop with
the head it saw.  A step is what a thread does between two touches of memory
another thread writes; the only such memory is `cross_thread_free` and palloc.
So the exchange that steals a page's stack is one step with the bookkeeping of
that page, and the CAS loop is a load (`Dealloc`), a successful swap (`PushOk`)
or a failed one (`PushRetry`).  The CAS compares the head only, never the rest of the
stack: `PushOk` links the block to what hangs off the head it saw, and the
checks show that this is enough (no ABA here, as a head that was seen and is head
again has the same stack below it or belongs to the push itself).

`held` counts the callers that hold a block; `released` remembers the pages a
sweep gave back.  `collect_and_sweep` gives a page back after it put the page's
blocks on the local list, so from then on blocks of a foreign page are handed
out.  `HeapAllocUnique` shows where that leads; everything else is stated
for behaviours up to and including that first release ("Intact").  The code writes used_count
without synchronisation, but only on the owner's thread, and the model keeps
that.  Sizes and alignment (`size2bucket`, `align_up`, the header that is found
by masking) are in `HeapSizes`: here a block is `<<page, slot>>`.

### Pmm

`pmm.mem[p]` is the header in page p, `Unknown` when no header was written there
or the page was given to a caller.  Each list routine is an operator from list
to list; a store through a pointer that is null or unknown sets `fault`.  The
traversal visits the chunks in list order; `AllocFromChunk` is the first fit.
The contents of `prev` that `prepend_chunk` never writes are `Unknown`, and when
they are used the model takes both outcomes.

Two defects keep the list from being right forever: a store through the null
`next` of the last chunk (`PmmFault`), and the back pointers of `prepend_chunk`.
`Sound` says that neither has happened: no fault, and no run given back below the
first chunk.  The properties of `PmmPass` hold there.

### KernelHeap

The bugs of this component live in bytes: a link written one word past a page, a
list pointer that is masked to its page.  So memory is an array of words and
the metadata, links and callers' data share it.  `Align` keeps only the low half of
an address as `glox::align` does (`LowPages` pages stand for 4 GiB).  A whole
call is one step because `scoped_lock<IrqLock>` keeps interrupts off.  Callers
fill their blocks with `Data`, which is neither a page nor null, so that
following something a caller wrote shows as `fault`.  Pages of the PMM are given
first fit (`Pmm!FirstFit`, which `PmmPass` shows the PMM to do).  `Available` is what is on a chunk's
list as `bytesUsed` counts it, `Listed` the free blocks of a bucket; `BlocksApart` compares those of
all buckets with each other and with what callers have.  `page_dealloc(nullptr)` does nothing, which matters
when `Align` cuts the address of a page to null.

Memory starts as one run of zeros.  `page_alloc` clears nothing and the heap reads a fresh Metadata page as
it finds it, so it depends on that; the header the PMM keeps in the last page of the run holds
null links and, when the page is taken, a size of 0.

`gaveBack` says that a page went back to the PMM.  From then on a chunk may hand
out blocks of a page it does not own (`KernelHeapRelease`); the properties of
`KernelHeapPass` are about behaviours before.

### Terminal

Two actors: the kernel, whose steps are the loads and stores of the cursor in
source order, and the keyboard interrupt, which comes between any two of them while
`cpu.if` is set and runs to its end (an interrupt gate).  `kernel.pc` names the place:
`next` and `up` are the head of `parse_char`, `copy` and `clear` are `exec_newline`,
which returns to `kernel.then`, `draw`, `right`, `newline` the branches of its
switch, `wrap`, `down`, `left` its end, `lock` and `port` are `print_e9`, and
`unlock` is the end of `memdealloc`'s lock.  `kernel.x` and `kernel.y` are what the
code read of the cursor and uses later.  The handler does the same work in one
step with `ParseChar`, made of the same pieces.

Positions count character cells, since every address in the code is a multiple of the
font's size; `spare` says whether the height leaves a rest, which makes
`IsLast` and `Full` differ.  The row is unsigned (`Wrap`).  `fault` is an address
outside the frame buffer, or a loop that runs past its end; nothing happens after it.
`outStream`'s buffer is shared with the handler: a number is formatted into it
and read again character by character.  `cpu.saved` is the stack of the `irqCtx` of the
locks held.  `told` is what the kernel has printed, cut into lines by a
reference definition, and `quiet` says that no key was served yet.

### RbTree

`mem` holds links and colours of the nodes and of the sentinels; a tree's sentinel
has the root as its parent and the ends as its children.  `RbNodes` has the code's
free functions as operators from memory to memory.  A call is a first step
(`TryEmplace`, `Erase`, `Clear`), a step per round of its loop (`InsertFixup`, `EraseFixup`,
`ClearRound`) and a last one; the rounds are separate so that `verify` can be compared with
the definition in trees that are broken on purpose, that a rotation can be shown to change no
list, and that the loops can be shown to end.  `erase` keeps the successor and the new ends in
`op`, as the code does, from before the structure changes.  Move assignment clears
(`Clear` with `from`), then steals; `Swap` is three moves through a temporary tree.
A node is an entry of the map with its key; the allocator's choice is the choice of
the node, and two nodes have the same key, so that a second entry for a key is tried.

### Paging and Boot

`vm.mem` gives every page that can be a table its entries; an entry has the bits the code sets
and the frame it points to.  `Descend` is one level of the walk that `map` makes:
`alloc_page_if_needed` with the assertion around it, then the table the entry points to, *whatever
that is*: `vm.stop` says that a null or a page that was never a table was followed, and nothing
happens after it.  A page from `page_alloc` keeps what it held (`Leftovers`).  `VmemMask` ors the
number of the cache mode into the entry as the code does, where it lands on the bits *present* and
*writable*.  `Grants` is the walk of the processor, which takes the rights all levels grant.
`meant` is history: the frame and rights of the last map call of every page.

`Boot` calls `Paging` in the order of `init_addr_space`, one call a step.  `map_region` is a
loop over a list of regions in `work`; `IdentityRegions` has the entries of the memory map that
`identity_map` maps, with the rights of their types.  `VSpace::map_huge` calls `map`, not
`map_huge_page`, and the model does, too.  The tests of `limine_main` for requests without an
answer, and what goes on when one has none, are in `LimineMain`.

### The containers

`MCContainers` is a sum: in a behaviour one part runs, and the others stay in a first state, so
that the states of the parts add up and do not multiply.  They share nothing in the code.

Each module keeps, next to the state of the code, what its objects are meant to be (`vecMeant`,
`strMeant`, `dict`, `ring`, `chain`, `meant`): what a reader expects of the operation by its name.
An operation that does anything a program must not do (reads storage without an object, follows
null, frees with the wrong size, destroys what was destroyed) is noted by operation and event, and
the history ends there.  The property names the notes that can occur (`Known`, `KnownFault`,
`KnownChainFault`, the set in `TagTellsTruth`), so that it states both that nothing else goes wrong
and that, while nothing has, the objects are what they are meant to be.  Whether memory is found is
a choice at every allocation; whether assertions are compiled in is one at the start.

`Alloc` distinguishes a cell from the object in it: `Raw` is the content of a cell no object was
constructed in.  `Vector` has the iterators as positions, and `pushOwn` is `push_back` of an
element of the same vector.  `Strings` has the text and the whole storage, in the object or in a
block, and the capacity as the 7 bits that are kept of it, divided by `CAP_FACTOR`.  `Values`
models each function down to which member of the union it constructs, assigns, destroys and reads;
`asked` is the last question with its answer and the right one.  In `HashMap` a bucket is the
sequence of its nodes, and `walk` an iterator, which may erase as it goes and is dropped when
its map changes otherwise.  `Lists` and `FwdLists` have pointers; a node that is taken out
keeps its own.  `VmapIomem` puts its region where the code's search ends, which is before the last one or
after it, as all others have the same address; the caller is given null.

### HeapSizes

One allocation of heap_allocator, with numbers modulo `Word`: `alloc` chooses by size and alignment
the small or the large path and the block, `got` has the region, with the header at its start, and the
payload, from which `PageHeader` masks the header as `dealloc` does; `grow` and `shrink` follow.  Every size is asked for, with every alignment up to one past the page
size, powers of two or not.

### LogStream

`line` is the place of the kernel in `print`: the characters that are left, and the load, the two
stores (the compiler may store the index before the character), the test, and the copy of `flush`.
The NMI comes between any two and runs to its end.  `owed` are the characters of the messages that
did not come out yet; once an interrupt came, characters are not told apart any more, and what is
left to say is that none is written outside the buffer.  That this holds without a lock is not
obvious: the index is tested and loaded in two steps.  It holds because what the handler writes ends
in a newline, which leaves the index at 0; without the newline it is violated.  Integers are
`Bits` wide, so that the lowest negative number and its negation are formatted, too.

## The runs

| run | instance | shows |
|---|---|---|
| `HeapAllocPass` | 3 threads, 2 buckets, 2 pages of 2 blocks | `BlockInOnePlace`, `UsedIsExact`, `ReleasedIsUnused`, `PoolUntilRelease` |
| `HeapAllocUnique` | 2 threads, 1 bucket, 2 pages | violation of `NoDoubleHandout` |
| `PmmPass` | 9 pages in 3 regions, two of which touch, runs of up to 3 | `ListWellFormed`, `PagesConserved`, `NullOnlyWhenFull`, `TakesOrGivesRuns` |
| `PmmFault` | 4 pages, 1 region | violation of `NoListFault` |
| `KernelHeapPass` | 6 pages of 6 words, buckets of 2 and 3 words, 4 pages below "4 GiB" | `BlocksApart`, `NoWildPointer`, `UsedAdds`, `NullIsNotFinal`, `OnlyPastEndIsDamaged` |
| `KernelHeapRelease` | 4 pages, all low | violation of `OnOwnPages` |
| `TerminalPass` | 2 rows of 3 columns, with and without a rest, 4 texts of 5, 1 key | `DrawsInsideAlone`, `ShowsTail`, `PortWhole`, `InterruptsAsBefore`, `KeysAreServed` |
| `TerminalDraw` | the same | violation of `DrawsInside` |
| `RbTreePass` | 2 trees, 8 keys, 9 nodes | `RedBlack`, `ReadersSeeTheOrder`, `EntriesAreOwned`, `KeepsSortedLists`, `EveryCallReturns` |
| `BootPass` | tables of 4 entries, 11 pages of memory, 4 memory maps, 2 frame buffers, requests without answer, old entries in 5 pages, 2 calls of drivers | `TablesFormTree`, `LastMapWins`, `BuiltAsAsked` |
| `BootRegions` | the same, without old entries | violation of `RegionsAreMapped` |
| `ContainersPass` | 2 objects of each container, up to 3 elements or 4 characters, 3 blocks or nodes; sizes in 64 addresses; a log buffer of 3 characters | `VectorsHoldTheirContents`, `TagTellsTruth`, `MapIsDictionary`, `StringsHoldTheirText`, `AllListsAreLinked`, `SizesAreServed`, `LogIsWhole` |

Each passing run also checks a type invariant (`TypeOK`, `PagingTypeOK`, `ContainersTypeOK`).

What the properties of the last three say:

* `TablesFormTree`: no table is used at two levels or reached through two entries, and none is a page
  that `page_alloc` can still give.  `LastMapWins`: a page that was mapped is translated to what
  its last mapping said, whatever was mapped, huge or with unmappable cache modes, before and since.
* `BuiltAsAsked`: after the boot the kernel image is mapped page by page, and everything mapped has
  the rights asked for.  The flags of the first page below a table go to the table's own
  entry, so this depends on the order in which regions are mapped.
* `RegionsAreMapped`: every page of a region is mapped.  It is not: `map_region` advances by 2 MiB for a call
  that maps 4 KiB.
* The properties of the containers: each object is what its operations mean it to be, no storage is lost
  or shared, and what goes wrong is what the module lists, no more.  `AllListsAreLinked` is
  `ListsAreLinked` and `ChainsAreLinked`.
* `SizesAreServed`: the payload is inside its region, clear of the header, aligned, large enough, and
  `dealloc` finds the header from it, with the three exceptions named below.
* `LogIsWhole`: see LogStream above.

**Why the bounds are enough.**  HeapAlloc: three threads are an owner and two
others that race each other and the owner on one stack; two blocks per page give
a stack on which one push meets another; two pages make a sweep with a page
that is not the head (the only kind given back); two buckets make a grow that
crosses.  Pmm: three free stretches are needed for a merge on both sides
with a chunk before and one after; nine pages give stretches that
fit a request exactly, by one page more and not at all.  KernelHeap: a page of six words is the
smallest with two chunks to a Metadata page and a full chunk next to another;
six pages reach the second Metadata page, and a page whose address
aligns to null (page 4 of `LowPages` 4).  `MaxLost` and `MaxBig` bound how many
lost blocks and big runs there are at a time.
Terminal: four texts (`MaxTexts`) fill both rows, scroll twice and go on after a full
line, with and without a newline after it; one key (`MaxKeys`) can come at every
step, which is all the faults need.  RbTree: eight keys are the smallest number
with which an insertion recolours, climbs and then rotates, and an erasure reaches all
four cases of its fixup; `MaxShared` lets one tree have all nodes, or both trees
three entries together, enough for a move between trees that both have some.
Boot: with tables of four entries a 2 MiB page is four pages, so that a region of eleven has two of
them and a rest; 11 pages of memory are more than the tables take, 5 are fewer; of the
drivers' pages one shares its last table with the frame buffer, one with the kernel image,
and one is the first of a huge page.  Containers: two objects make copies, moves and
assignments to itself; a first capacity of 2 and three elements reach a growth and a growth that
fails; three keys whose hashes are themselves or all the same below 4 make a chain of
three, and a rehash that parts or keeps one; capacities of 2 and 4 with a limit
of 6 reach the inline string, the block, and the capacity cut off.  The smallest number of
objects a fault in these needs is two, of nodes three.  HeapSizes: pages of 16 with payloads up to 4 and a
header of 3 have the proportions of 65536, 2048 and 56, except that more of a page is
header; four pages and every size reach the wraparound.  LogStream: three
characters are fewer than most messages, so that the buffer fills in the middle of each.

**Fairness and liveness.**  `HeapAlloc`, `Pmm`, `KernelHeap`, `Boot` and the containers
state no liveness: a call there is one step or ends with its caller, and the CAS loop is lock-free, not
wait-free: one thread may retry for ever while others succeed, so
"a dealloc ends" would need fairness the code does not give.  `RbTree` has
`WF_vars(Step)`: a call that has started runs on, because nothing in it waits; new
calls are never forced.  With it `EveryCallReturns` says that the rounds of a loop make
progress.  `Terminal` has `WF_vars(Step)`, the processor goes on with the code it is in,
and `SF_vars(Serve)`: a pending, unmasked interrupt is taken as soon as IF is set, so one
that could be taken again and again is taken.  Weak fairness would not do, as each lock
disables it again.  Keys are never forced to come, nor is the kernel to print or to boot.
The kernel ends in `hlt`, so `TerminalPass` does not check for deadlock.

## What disagrees with the code's own words

Each is a run that must find a violation; the quoted lines are in `PROJECT.json`.

* `HeapAllocUnique`: after a sweep gives a page back, its blocks are still on
  `local_free`, and a block reaches two callers (heap_alloc.hpp:130-139).
* `PmmFault`: giving back two pages in the order the unit test does writes
  through the null `next` of the last chunk (llallocator.cppm:123).
* `KernelHeapRelease`: free everything, then allocate: the block lies in a page
  the PMM owns (alloc.cpp:319).
* `BootRegions`: all but the first page of every 2 MiB of a large region stays unmapped
  (virtmem.cpp:102).
* `TerminalDraw`: a key between the test for the last row and the drawing moves the
  cursor, and the kernel draws below the frame buffer (terminal.cpp:97).

Other things the code does that a reader should know of are part of the properties of passing
runs, which name them:

* *vector* (`vector.hpp`): copy assignment and `reserve` of class types move every cell, also those
  without an object; growth of class types writes to whatever `memalloc` gave, null too;
  a moved-onto vector gives its buffer to the other with capacity 0, which leaks it; `shrink` copies
  a count of objects as bytes (`alloc.cpp:160`); `push_back` of an own element reads it
  after it was freed.
* *string* (`string.hpp`): the capacity is kept in 7 bits, and a longer one is cut off; copies
  share the block of a big string; with `CAP_FACTOR` 2 the destructor frees half the block.
* *hash_map* (`hash_map.hpp`): with assertions, a rehash stops the program if a bucket is
  empty; null from `memalloc` is written to.
* *lists*: `list_size` is counted up and never down; a moved `intrusive_list` ends at the sentinel it was
  moved from; `insert_after` of `intrusive_fwd_list` loses the next node.
* *result* and *variant*: `transform_err` of a value makes the new value from the result instead of
  its payload; `==` of `result<T&, E>` reads an error that is not there; `emplace` from the variant's own
  alternative reads it after it was destroyed.
* *heap_allocator sizes*: alignment equal to the page size puts the payload one page after the header, where
  `dealloc` looks for another; size 0 gets a block without the alignment; sizes at the
  top of the address space wrap around.
* *vmap*: `vmap_iomem` returns null and all its regions have the same address.

## What is proved

TLAPS proves, of `heap_allocator` for every set of threads, number of buckets, finite
set of pages and page capacity (`SizesAssumption`, `NoneAssumption` are all that is
assumed); of the physical memory manager for every number of pages, memory map and set of
requests (`PmmAssumption`: regions are inside the memory, and a header is told from null and from the
unknown); of the terminal for every screen, every set of texts and any number of
keys (`TerminalAssumption`: the screen has a row and two columns, there is a text, and none is
empty); of
the page tables for every size of a table, every memory and whatever old pages hold
(`PagingAssumption`); of the boot for every memory map, frame buffer and kernel image
(`BootAssumption`: addresses are numbers, usable memory is memory, the frame buffer is in the
higher half, as the code asserts); of option, result, variant and box for every set of objects and payloads
and every function applied to them (`ValuesAssumption`: the payloads that stand for moved and for
no object are not among the data); of vector for every set of vectors, blocks and elements, trivial or of a class
(`AllocAssumption`, `VectorAssumption`: null is no block, an object takes a byte or more, raw memory is not an element,
and the first capacity is at least 2); of the kernel heap for every number and size of pages, every list of size
classes that divide a page, wherever the addresses lose their high half (`KernelHeapAssumption`: a page has room for a
Metadata page with one chunk); of strings for every set of letters and texts of every length
(`StringsAssumption`: the first block is longer than what fits in the object, its capacity is
even, so that both values of `CAP_FACTOR` keep it, and fits the bit field); of the lists for every
finite set of nodes, which are no lists; of hash maps for every set of keys and values and all hash
functions; of the sizes of `heap_allocator` for every word and all page sizes, size classes and granularities
that are powers of two, as the code's masks need them (`HeapSizesAssumption`: a header takes half a page at most
and leaves room for two blocks of the largest class; it is 56 bytes of 65536); of the stream of the
log for every length of its buffer and all templates and arguments (`LogStreamAssumption`: the letter that stands for
text is none of the characters `format_to` looks for, and what follows a bare `%` is text, so that it is not taken for an option):

| theorem | module | states |
|---|---|---|
| `TypeCorrect` | `HeapAllocProofs` | `Spec => []TypeOK` |
| `Invariance` | `HeapAllocProofs` | `Spec => []IInv` |
| `BlocksInOnePlace` | `HeapAllocProofs` | `Spec => []BlockInOnePlace` |
| `UsedCountExact` | `HeapAllocProofs` | `Spec => []UsedIsExact` |
| `FirstReleaseUnused` | `HeapAllocProofs` | `Spec => ReleasedIsUnused` |
| `ImplementsPool` | `HeapAllocProofs` | `Spec => PoolUntilRelease` |
| `TypeCorrect` | `PmmProofs` | `Spec => []TypeOK` |
| `ListCorrect` | `PmmProofs` | `Spec => []ListWellFormed` |
| `Conservation` | `PmmProofs` | `Spec => []PagesConserved` |
| `FirstFitCorrect` | `PmmProofs` | `Spec => []NullOnlyWhenFull` |
| `Refinement` | `PmmProofs` | `Spec => TakesOrGivesRuns` |
| `LocksRestore` | `TerminalProofs` | `Spec => []InterruptsAsBefore` |
| `AloneItDrawsInside` | `TerminalProofs` | `Spec => []DrawsInsideAlone` |
| `PortIsNotMixed` | `TerminalProofs` | `Spec => []PortWhole` |
| `ScreenShowsTheLog` | `TerminalProofs` | `Spec => []ShowsTail` |
| `TypeCorrect` | `TerminalProofs` | `Spec => []TypeOK` |
| `TagsTellTruth` | `ContainersProofs` | `ValuesSpec => []TagTellsTruth` |
| `ValuesAreTyped` | `ContainersProofs` | `ValuesSpec => []ValuesTypeOK` |
| `ContentsHeld` | `VectorProofs` | `VectorSpec => []VectorsHoldTheirContents` |
| `VectorsAreTyped` | `VectorProofs` | `VectorSpec => []VectorTypeOK` |
| `StringsSay` | `VectorProofs` | `StringsSpec => [](StringsHoldTheirText /\ StringsTypeOK)` |
| `RingsLinked` | `ContainersProofs` | `ListsSpec => [](ListsAreLinked /\ ListsTypeOK)` |
| `ChainsLinked` | `ContainersProofs` | `FwdListsSpec => [](ChainsAreLinked /\ FwdListsTypeOK)` |
| `AllLinked` | `ContainersProofs` | `Spec => []AllListsAreLinked` |
| `MapsAreDictionaries` | `ContainersProofs` | `HashMapSpec => [](MapIsDictionary /\ HashMapTypeOK)` |
| `BufferHolds` | `ContainersProofs` | `LogSpec => [](~spilled /\ LogTypeOK)` |
| `StreamIsWhole` | `ContainersProofs` | `LogSpec => []LogIsWhole`, assuming `FormatsAsMeant` |
| `SizesServed` | `HeapAllocProofs` | `HeapSizesSpec => [](SizesAreServed /\ HeapSizesTypeOK)` |
| `TablesAreTyped` | `PagingProofs` | `PagingSpec => []PagingTypeOK` |
| `TreeOfTables` | `PagingProofs` | `PagingSpec => []TablesFormTree` |
| `LastMapIsTranslated` | `PagingProofs` | `PagingSpec => []LastMapWins` |
| `BootBuildsTree` | `PagingProofs` | `Spec => []TablesFormTree` |
| `BootMappingsHold` | `PagingProofs` | `Spec => []LastMapWins` |
| `HeapStaysSound` | `KernelHeapProofs` | `Spec => []Inv` |
| `TypeCorrect` | `KernelHeapProofs` | `Spec => []TypeOK` |
| `NoWildPointerFollowed` | `KernelHeapProofs` | `Spec => []NoWildPointer` |
| `BlocksStayApart` | `KernelHeapProofs` | `Spec => []BlocksApart` |
| `OwnPagesUntilRelease` | `KernelHeapProofs` | `Spec => [](~gaveBack => OnOwnPages)` |
| `NullIsRetried` | `KernelHeapProofs` | `Spec => []NullIsNotFinal` |
| `DamageIsPastEnd` | `KernelHeapProofs` | `Spec => OnlyPastEndIsDamaged` |

*Lists.*  `HeapAllocProofs` starts with what the operations on the
intrusive lists do to the set of their nodes and to their being free of
repetitions: push, pop, splice, unlink, carve.  `FromLemma` is the one the CAS loop
needs: what hangs off the head that was seen, when it still is the head, is the whole stack.

*The invariant.*  `BlockInOnePlace` is not inductive: a sweep moves a
stack to its owner's list, and nothing in it says that the stack holds blocks of
that page, or that the list is the one `used_count` is measured against.  `IInv` adds
`Home`: free lists hold blocks of their thread's and bucket's pages, a stack
holds blocks of its page, `pages` lists the carved pages of a thread, callers
hold blocks of carved pages and payloads of large ones, running operations
work on blocks of carved pages.  With it each action moves blocks between places
(`PopPlaces`, `PushPlaces`, `LocalLemma`, `OpPlaces`, `DeliverPlaces`...) and there is one lemma
per action.  `UsedIsExact` counts sets: popping adds one element, pushing removes
one, a sweep removes as many as the stack has, which is its length because it repeats nothing.
`IInv` demands nothing once a page is released: there the code breaks its invariant.

*Refinement.*  `OutLemma`: in a state where every block is in one place, the number of
times a block is out is 0 or 1.  Every action is then a `Hand`, a `Return`, a
`Move`, or leaves `Out` alone.

*The free list.*  The types need a fact about every header, the stale ones in pages that were handed out
included: nothing is ever stored in one but a page, null or a count.  For the rest the proof describes a list by the set of its
chunks instead of its links: `Listing(l, C)` says that the chunks `C` are runs of pages that neither
overlap nor touch, each header has the size of its chunk, `next` and `prev` are
the chunks after and before it by address, and the ends are where the list says.  `ChainWalks`: following the links of such a list visits `C`,
in order, and nothing else.  `Resizing`, `Appending`, `Between`, `Removing` and `Replacing` say which listing is left when a chunk gets
longer or shorter at an end, is put behind the last one or between two, is taken out, or makes way for
another; every routine of `pmm.cpp` is one of these, or two.  Two chunks that do not touch have a page between
them that is not free, so a run of free pages lies inside one chunk (`RunInChunk`); therefore the
traversal that finds no chunk of the length has looked at every run, and null means that there is none.
`ListInv` is the inductive invariant.  It demands nothing of the list once `Sound` fails: when a run below the first
chunk was given back, which `prepend_chunk` links wrongly, or a bad pointer was used.  The
traversals are recursive functions; what is needed of them is shown for a least counterexample
(`WellFoundedInduction`), not by induction.

*Locks.*  `InterruptsAsBefore` speaks of the places between statements only.  `LocksInv`
says for every place how many locks are held and what they have saved: none or
`memdealloc`'s while characters are drawn, `print_e9`'s on top of that while the port is
written, and the outermost has saved whether interrupts were started.
`LockLemma` and `UnlockLemma` are about the stack, `PlainStep` about all steps that
leave the processor alone.

*Drawing and the port.*  `DrawsInsideAlone` holds because the scroll comes at the head of `parse_char`,
before the character that needs it: between characters the cursor may be one row past the screen, but
never when something is drawn.  The invariant (`AloneInv`) bounds row and column at every place of the
kernel while no interrupt was served, the values it loaded earlier included.  `PortInv`
says that at the port everything sent so far is the beginning of the text and of the length of its position;
a number is in the shared buffer as it was formatted until an interrupt formats another.

*What the screen shows.*  `ShowsTail` speaks of the places between characters; inside `parse_char` the
screen is ahead of the lines told, or behind.  `ShowsInv` says for every place which rows have
which lines: unmoved until the scroll or the character is drawn, one row up after `copy_overlapped`, and from
the test for the end of a row on what will have been told.  Lines are counted from the last, up, so that a
line forgotten at the top (`CutLemma`) moves none; `TellNewline` and `TellChar` say what one character
does to them, and `CopyRows`, `ClearRows`, `DrawRows`, `NewlineRows` and `CharRows` what the pieces of
`parse_char` do to the rows.  The types (`TypesInv`) hold with interrupts too, so they need that a handler
keeps them, which writes a whole text by a recursive function: no position of it is the first at which the
types fail.

*Tagged unions.*  Tag, live member and payload cannot be bounded one by one: each operation is right only
because the other two were.  While nothing went wrong an object *is* the image (`Shape`) of what it
stands for, a tag and a payload of its type (`Meanings`).  The steps on the storage
become equations: `Puts(u, w, v, ...)`, that `w` is `u` with object `v` as given and no event
more, composed along the body of every member function.  Where the code breaks (`Exempt`)
the operation leaves an event, and nothing is claimed after it but types.

*Vectors.*  `VectorsHoldTheirContents` says which elements a vector shows, but not that the cells behind them
are raw in a buffer of a class, without which the next `emplace_back` would write over an object, nor that a cell within its
size is not, without which a destructor would run on nothing.  `Inv` adds it (`Full`), and that every vector carries
what its history means in a buffer no other vector has, of which all blocks that are not somebody's are free (`Holds`).
It speaks of the state between operations: inside one, `grow_alloc` has freed the old buffer before the vector
points at the new one.  One lemma for each function of the allocator says what it
makes of the memory: `Allocated`, `Freed`, `Placed`, `Ended`, `Transferred`, `Grown`, `Shrunk`.  An operation then has one of
a few ends.  In the good one (`Leaves`, `Settled`) only `v` and blocks that were its own or nobody's changed, and `v`
carries its new meaning.  In the others the operation reports an event, and the proof shows that it is one `Known` lists for it:
no memory for a class, where objects are moved to address 0 and the buffer the vector still points at
is freed (`Gone`); an assignment which forgets the buffer it replaces; a shrink that cuts bytes off.  That
no other event is possible in any state is most of the work, for nearly every `Flag` of `Alloc` has to be shown to be down.
After an event the model starts from empty vectors, so the invariant holds again.

*Page tables.*  `TablesFormTree` speaks of tables that can be reached, and an entry that is overwritten
may cut some off which still point to others; it is not inductive.  `PagingInv` gives every
page a level, 4 for the root, 0 for what is no table, so that entries lead one level down, no two
entries of tables lead to the same table, and pages that can be given out have level 0 and lead nowhere:
without this last part, a page that becomes a table would bring links of its own.  It is what the
old contents of pages must not violate: the entries they hold are followed, but lead outside
the tables (`Leftover`).  `MapsHold` says that the walk of a page with a meaning ends at its entry on
level 1.  `NewTable` and `WriteLemma` are the two changes to the tables;
everything else is `Descend` three times (twice for a huge page), and `WalksMeet`: a walk that parts
from another at some level never meets it again, because of the one way to each table.
The boot is a sequence of calls with arguments from the memory map; its proof adds that these are
pages and that the tables are clear until the memory manager has pages.

*The kernel's heap.*  `BlocksApart` speaks of lists only as far as they can be followed, and says nothing of what a
word of memory is for; no step can be judged from it.  `Inv` says that until a page goes back the memory
has a layout (`Sound`): every page is free, a Metadata page or a chunk of one bucket, or somebody else's;
the Metadata pages of a bucket link downwards; each chunk has `left` blocks to give, in an order that
its list follows, and `bytesUsed` is the rest of the page.  Three facts make it inductive.  Free pages lie below all
others, because the first fit of a single run gives from its top, and nobody has written to them: so what
`init_chunk` writes past its page never falls into a free page, and a fresh Metadata page has only
unused chunks, which is why a null is not final.  That null may fall on a free block's link, which ends the list there:
the `low` last blocks of that chunk are lost, and when the others are used the list is null and the
chunk is initialised again with a fresh page.  And a block that is freed may be pushed on another chunk of
its bucket, `free_mem` comparing halves of addresses; so a chunk's blocks are of any page of the bucket.
A full chunk's list, which points past its page, is nothing the layout describes.
`AddMetadata`, `InitFresh`, `PopBlock`, `FillBlock`, `PushBlock` and `TakeOther` say which layout is left by
each change of the memory, one per piece of the code; the actions are made of them.  That the traversals meet the
layout's pages and blocks (`FollowList`) is shown for a least counterexample.  `Spares` is the part about damage:
a piece of `memalloc` writes to Metadata pages, pages that were free, or the word past the end.
After `gaveBack` the heap hands out pages it does not own, and only the types are claimed.

*Strings.*  The property compares the text and the capacity; the invariant (`StringsInv`) adds that the text fits its storage,
and that a string which is not big has the object's own (`StrOK`).  The bit field is
the difficulty: a capacity is a multiple of `CAP_FACTOR` until it is cut (`StoredCap`), and from then on
growth makes a block shorter than the text.  `Ending` is what every operation comes to: the string says its
new text and nothing was noted, or what was noted is in `KnownFault` with the cut that explains it.  An append is
one `push_back` after another, so its proof looks for the first that fails.

*Lists.*  The property follows pointers with a recursive function.  The invariant says it of places instead:
`Follows(next, prev, l, q)`: the node after place i of the sequence q is at place i + 1, and the one before it at i - 1, where
place 0 and the place after the last are the sentinel of l; and no node is in two sequences, or twice in one (`Apart`).
`insert` and `remove` change four pointers; that these are the pointers of no other list is what `Apart`
gives.  That the path equals the sequence is shown for the first place where they part.  `Leads` is the
same for forward lists, which end in null.

*Hash maps.*  `Table(h, b, c, N)`: bucket i has exactly the nodes of N whose hash is i modulo c, each once.
Push, unlink and a rehash, which takes the nodes one by one to the front of their new buckets (`Rehashed`),
preserve it; with one node for each key of the dictionary (`MapHolds`) `find` returns what the dictionary has.  The iterator
(`On`) is at a node, and what it still owes are the keys behind it in its bucket and all buckets after; an erasure
at the iterator computes the next node first, and `Walks` shows the debt is what it was without the erased one.

*Sizes.*  Everything is a sum of multiples of powers of two modulo a power of two or a word.  `HasSingleBit` is
the code's test, and `align_up` and the mask are divisions; the lemmas say which multiples they are, and that a
power of two divides every larger one, which is shown for the least of the powers of two without it.  `Good` says of a
region what `Wrong` looks for; `SizesInv` that an allocation which was noted is one of the three exceptions.

*The stream of the log.*  `BufferInv` is about single accesses: the index in memory is at most the length of the
buffer, and less than it wherever the kernel has passed the test and will load it; an index that was loaded is less
than the length.  It holds although the handler comes between test and load, because the handler ends at
index 0 (`NmiKeepsBuffer`).  `WholeInv` counts what the messages owe: until an interrupt comes, the characters
in the buffer below the index, then those left in the text, are what did not come out yet, and a cell that is being written
counts from the moment both stores are done.  What `format_to` makes of a template is a recursion over it; that
it is the message (`FormatsAsMeant`) is the theorem's hypothesis.  `ContainersPass` checks it for its templates, as a part of
`LogIsWhole`; `BufferHolds` does not need it.

*The composition.*  `PartsBehave`: in a behaviour of `MCContainers` every part behaves as it does alone, so each
theorem about a part holds there.

Only model-checked: `RbTree`; `UsedAdds` of the kernel heap, a sum written with a fold; `BuiltAsAsked` of the boot, which depends on the
addresses of an instance; and `ContainersTypeOK`, the types of the parts in their composition, which
are proved of each part.  Out of the prover's reach are liveness and `ENABLED` (`KeysAreServed`,
`EveryCallReturns`) and what a recursive definition computes for every input: `RbTree` follows its
links with some (`Chain`, `InOrder`), and `LogStream` formats with one.  A fact about each of a function's values can be had for a least
counterexample, as for `Pmm`, `KernelHeap`, `Terminal` and the containers.

## Not modelled

* CPU initialisation but for the handler of the NMI, ACPI, the font, protocol headers: data, or
  tables filled once in a straight line with bit patterns the hardware defines.
* The stateless helpers (`math.hpp`, `algorithm.hpp`, metaprogramming, tuple): where a modelled part
  calls one, what it does is part of the caller.
* Terminal: colours, the pixels within a character, and the timer interrupt, which only counts.
* Paging: loading CR3 and flushing the TLB, which nothing calls yet.
* Red-black tree: mapped values, and copying a map, which is a loop of insertions.
* Kernel heap: `alloc_zeroed` and `grow_zeroed`, which are `memalloc` and a `memset`.
* Value types: `<=>`, and members that do not compile when they are used.
* `page_dealloc` and `page_alloc` take no lock; nothing that runs in an interrupt
  of this commit allocates, so no model interleaves them.

## Plan

Done: `HeapAlloc`, `Pmm`, `KernelHeap`, `Terminal`, `RbTree`, `Paging`, `Boot`, the containers, the
value types, `HeapSizes` and `LogStream`, with the theorems above.  Left, in order of importance:

1. That `RbTree` keeps its trees: rotations keep parents and children mutual (`RbNodes`), then order, colours and
   the refinement of `SortedLists`.
2. `UsedAdds`: that the sum of `bytesUsed` is what callers have.
