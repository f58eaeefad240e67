-------------------------------- MODULE Boot --------------------------------
(***************************************************************************)
(* How the kernel builds its address space: limine_main of                 *)
(* kernel/arch/x86/bootproto/limine/limine.cpp takes what the boot loader  *)
(* answered, then init_addr_space of kernel/main.cpp maps usable memory,   *)
(* the frame buffer and the kernel image through Paging, one call of       *)
(* VSpace a step; afterwards drivers may map pages of their own.           *)
(*                                                                         *)
(* Addresses are page numbers: 0x1000 is 1 and 0x200'000 is Fan.           *)
(***************************************************************************)
EXTENDS Paging, Sequences

CONSTANTS
    PhysBase,      \* physicalMemBase
    KernelBase,    \* kernelFileBegin
    KernelPages,   \* the size of the kernel image
    MemoryMaps,    \* the memory maps a boot loader may report, sequences of MapEntry
    FrameBuffers,  \* the frame buffers it may report, <<begin, end>> as virtual addresses
    KernelPlaces,  \* where it may have put the kernel image
    NoAnswer,      \* a request the boot loader left unanswered
    DriverPages,   \* virtual pages drivers map, and
    DriverFrames,  \* physical pages they map them to
    MaxCalls       \* bound on the calls of drivers

\* convert_mem_types: the types of limine.h to those of BootInfo.
ConvertMemTypes ==
    [usable |-> "usable", reserved |-> "reserved", acpi_nvs |-> "acpiNvs",
     acpi_reclaimable |-> "acpiReclaim", bad_memory |-> "badMem",
     bootloader_reclaimable |-> "reclaimable", framebuffer |-> "framebuffer",
     executable_and_modules |-> "kernel", reserved_mapped |-> "reserved"]

MapEntry == [base : Frames, length : Nat, type : DOMAIN ConvertMemTypes]
Pages(e) == e.base .. (e.base + e.length - 1)

ASSUME BootAssumption ==
    /\ PhysBase \in Nat /\ KernelBase \in Nat /\ KernelPages \in Nat /\ MaxCalls \in Nat
    /\ KernelPlaces \subseteq Nat /\ FrameBuffers \subseteq Nat \X Nat
    /\ \A fb \in FrameBuffers : fb[1] >= PhysBase
    /\ \A m \in MemoryMaps : m \in Seq(MapEntry)
    /\ \A m \in MemoryMaps : \A i \in DOMAIN m :
          m[i].type = "usable" => Pages(m[i]) \subseteq Pool
    /\ NoAnswer \notin MemoryMaps /\ NoAnswer \notin FrameBuffers /\ NoAnswer \notin KernelPlaces
    /\ DriverPages \subseteq Nat /\ DriverFrames \subseteq Frames

VARIABLES
    phase,    \* how far the boot is
    answers,  \* what the boot loader answered to the requests
    work,     \* the regions map_region has still to map; the first is under way
    image,    \* pages of the kernel image mapped so far
    calls     \* calls of drivers so far

bootVars == <<phase, answers, work, image, calls>>
vars == <<pagingVars, bootVars>>

\* PageTable::index at the four levels.
PageAt(n) == <<n % Fan, (n \div Fan) % Fan, (n \div (Fan * Fan)) % Fan,
               (n \div (Fan * Fan * Fan)) % Fan>>

Region(from, to, start, privileges, caching) ==
    [from |-> from, to |-> to, start |-> start, privileges |-> privileges, caching |-> caching]

-----------------------------------------------------------------------------
(* limine.cpp                                                              *)

MutUsable(m) == UNION {Pages(m[i]) : i \in DOMAIN m}
Usable(m) == UNION {Pages(m[i]) : i \in {j \in DOMAIN m : m[j].type = "usable"}}

MutIdentityRights(type) == IF type = "reclaimable" THEN "readOnly" ELSE "all"
IdentityRights(type) == "all"

\* An entry of the memory map as identity_map of main.cpp takes it: without pages when it
\* is not of a type that is mapped.
IdentityRegion(e) ==
    LET from == e.base + PhysBase
        isMapped == ConvertMemTypes[e.type] \in {"usable", "reclaimable"}
    IN  Region(from, IF isMapped THEN from + e.length ELSE from, e.base,
               IdentityRights(ConvertMemTypes[e.type]), "writeThrough")

IdentityRegions ==
    LET m == IF answers.memmap = NoAnswer THEN <<>> ELSE answers.memmap
    IN  [i \in DOMAIN m |-> IdentityRegion(m[i])]

\* initialize_pmm, then setup_kernelmemmap, which takes a page for the copy of the map
\* and does not ask whether it got one.
LimineMain ==
    /\ phase = "limine" /\ vm.stop = "no"
    /\ IF answers.memmap = NoAnswer THEN vm' = vm
       ELSE LET frames == Usable(answers.memmap)
            IN  IF frames = {} THEN vm' = [vm EXCEPT !.stop = IF answers.memmap = <<>> THEN "no" ELSE "null"]
                ELSE vm' = [vm EXCEPT !.free = frames \ {CHOOSE f \in frames : TRUE}]
    /\ phase' = "identity"
    /\ work' = IdentityRegions
    /\ UNCHANGED <<meant, answers, image, calls>>

-----------------------------------------------------------------------------
(* main.cpp                                                                *)

\* One turn of the loop of map_region.
MapRegion ==
    /\ work # <<>> /\ vm.stop = "no"
    /\ LET r == Head(work)
           large == r.to - r.from > Fan /\ r.from % Fan = 0
           size == IF large THEN Fan ELSE 1
       IN  IF r.from < r.to
           THEN /\ IF large
                   THEN VSpaceMapHuge(PageAt(r.from), r.start, r.privileges, r.caching)
                   ELSE VSpaceMap(PageAt(r.from), r.start, r.privileges, r.caching)
                /\ work' = <<[r EXCEPT !.from = @ + size, !.start = @ + size]>> \o Tail(work)
           ELSE work' = Tail(work) /\ UNCHANGED pagingVars
    /\ UNCHANGED <<phase, answers, image, calls>>

FrameBufferRegion(fb) ==
    Region(fb[1], fb[2], fb[1] - PhysBase, "readWrite", "writeCombine")

\* The frame buffer, whose address get_real_data_addr asserts to be a higher half one:
\* without a frame buffer it is null.
MapFrameBuffer ==
    /\ phase = "identity" /\ work = <<>> /\ vm.stop = "no"
    /\ IF answers.fb = NoAnswer
       THEN vm' = [vm EXCEPT !.stop = "panic"] /\ UNCHANGED <<phase, work>>
       ELSE /\ phase' = "kernel"
            /\ work' = <<FrameBufferRegion(answers.fb)>>
            /\ UNCHANGED vm
    /\ UNCHANGED <<meant, answers, image, calls>>

KernelPhys == IF answers.kernel = NoAnswer THEN 0 ELSE answers.kernel

\* One turn of the loop of map_kernel.
MapKernel ==
    /\ phase = "kernel" /\ work = <<>> /\ vm.stop = "no"
    /\ IF image < KernelPages
       THEN /\ VSpaceMap(PageAt(KernelBase + image), KernelPhys + image, "all", "writeThrough")
            /\ image' = image + 1
            /\ UNCHANGED phase
       ELSE phase' = "up" /\ UNCHANGED <<pagingVars, image>>
    /\ UNCHANGED <<answers, work, calls>>

\* What a driver may ask of the address space later on.
DriverCall ==
    /\ phase = "up" /\ calls < MaxCalls /\ vm.stop = "no"
    /\ \E n \in DriverPages :
          \/ Unmap(PageAt(n))
          \/ \E to \in DriverFrames, p \in Privileges, c \in Caching :
                \/ VSpaceMap(PageAt(n), to, p, c)
                \/ MapHugePage(PageAt(n), to, p, c)
    /\ calls' = calls + 1
    /\ UNCHANGED <<phase, answers, work, image>>

Init ==
    /\ PagingInit
    /\ phase = "limine" /\ work = <<>> /\ image = 0 /\ calls = 0
    /\ answers \in [memmap : MemoryMaps \cup {NoAnswer}, fb : FrameBuffers \cup {NoAnswer},
                    kernel : KernelPlaces \cup {NoAnswer}]

Next == LimineMain \/ MapRegion \/ MapFrameBuffer \/ MapKernel \/ DriverCall

Spec == Init /\ [][Next]_vars

-----------------------------------------------------------------------------
(* Properties.                                                             *)

\* When init_addr_space is through the kernel image is mapped page by page to where the
\* boot loader put it, and every page that was mapped has the rights its mapping asked
\* for.  map gives the flags of a page to the tables above it as well, and the processor
\* grants what all levels grant: it takes the order of init_addr_space for the tables of
\* the frame buffer, which are not executable, to be above nothing else.
ImageIsMapped ==
    \A i \in 0..(KernelPages - 1) :
        LET v == PageAt(KernelBase + i)
        IN  v \in DOMAIN meant /\ Translate(vm, v) = KernelPhys + i
RightsAsAsked ==
    \A v \in DOMAIN meant :
        Grants(vm, v) = [writable |-> meant[v].writable, noexec |-> meant[v].noexec]
BuiltAsAsked == phase = "up" /\ calls = 0 => ImageIsMapped /\ RightsAsAsked

\* Every page of a region that map_region was called for is mapped to the physical page
\* as far into the region: what its map and map_huge calls are for.
RegionsAreMapped ==
    phase = "up" /\ calls = 0 =>
        LET regions == {IdentityRegions[i] : i \in DOMAIN IdentityRegions}
                           \cup {FrameBufferRegion(answers.fb)}
        IN  \A r \in regions : \A n \in 0..(r.to - r.from - 1) :
                Translate(vm, PageAt(r.from + n)) = r.start + n
=============================================================================
