------------------------------- MODULE Paging -------------------------------
(***************************************************************************)
(* The page tables of the kernel's address space: map, map_huge_page and   *)
(* translate of kernel/arch/x86/src/paging.cpp, the entries of             *)
(* arch/x86/interface/asm/paging.cppm and the VSpace calls of              *)
(* kernel/memory/virtmem.cpp.                                              *)
(*                                                                         *)
(* A virtual page is the tuple of its four table indices, a physical page  *)
(* its number; a table has Fan entries (512 in the code).  Tables come     *)
(* from page_alloc, which gives any free page and does not clear it: what  *)
(* an old page holds may look like present entries.                        *)
(***************************************************************************)
EXTENDS Integers, FiniteSets

CONSTANTS
    Fan,        \* entries of a table
    Frames,     \* physical pages
    Pool,       \* those the physical memory manager has
    Root,       \* the level 4 table, which is part of the kernel image
    NoFrame,    \* where an entry that was never written points
    Wild,       \* where an entry found in an old page points
    Leftovers   \* the sets of <<frame, index>> where old pages may hold such an entry

Index == 0..(Fan - 1)
Level == 1..4
Vpage == [Level -> Index]
Table == Pool \cup {Root}

\* Clears the bit of the address below the 2 MiB, and no other: to & ~0x100000.
HugeBase(p) == IF (p \div (Fan \div 2)) % 2 = 1 THEN p - Fan \div 2 ELSE p

ASSUME PagingAssumption ==
    /\ Fan \in Nat \ {0, 1}
    /\ Pool \subseteq Frames /\ Frames \subseteq Nat
    /\ \A p \in Frames : HugeBase(p) \in Frames
    /\ Root \notin Frames /\ NoFrame \notin Frames /\ Wild \notin Frames
    /\ Root # NoFrame /\ Root # Wild /\ Wild # NoFrame
    /\ Leftovers \subseteq SUBSET (Pool \X Index)

VARIABLES
    vm,      \* the tables, the pages page_alloc can still give, and what stopped the kernel
    meant    \* virtual pages to the physical page and rights of their last map call (history)

pagingVars == <<vm, meant>>

Privileges == {"readOnly", "readWrite", "execOnly", "all"}
Caching == {"writeBack", "writeThrough", "cacheDisable", "writeCombine"}

Flags == [present : BOOLEAN, writable : BOOLEAN, noexec : BOOLEAN]
Entry == [present : BOOLEAN, writable : BOOLEAN, noexec : BOOLEAN,
          huge : BOOLEAN, frame : Frames \cup {NoFrame, Wild}]

\* vmem_mask: the number of the cache mode is or'ed into the entry as it is, so that its
\* bits land on present (1) and writable (2).
VmemMask(privileges, caching) ==
    [present  |-> caching \in {"writeThrough", "writeCombine"},
     writable |-> privileges \in {"readWrite", "all"} \/ caching \in {"cacheDisable", "writeCombine"},
     noexec   |-> privileges \in {"readOnly", "readWrite"}]

MaskEntry(frame, mask, huge) ==
    [present |-> mask.present, writable |-> mask.writable, noexec |-> mask.noexec,
     huge |-> huge, frame |-> frame]

NoMask == [present |-> FALSE, writable |-> FALSE, noexec |-> FALSE]
Cleared == MaskEntry(NoFrame, NoMask, FALSE)
Leftover == MaskEntry(Wild, [NoMask EXCEPT !.present = TRUE], FALSE)

-----------------------------------------------------------------------------
(* One level.  s is a value of vm.                                         *)

EntryOf(s, t, v, l) == s.mem[t][v[l]]

MutNeedsPage(e) == TRUE
NeedsPage(e) == ~e.present

MutTaken(free, f) == free
Taken(free, f) == free \ {f}

\* alloc_page_if_needed for the entry of v in t, and the assertion around its call.
AllocPageIfNeeded(s, t, v, l, mask) ==
    IF s.stop # "no" \/ ~NeedsPage(EntryOf(s, t, v, l)) THEN s
    ELSE IF s.free = {} THEN [s EXCEPT !.stop = "panic"]
    ELSE LET f == CHOOSE f \in s.free : TRUE
         IN  [s EXCEPT !.mem[t][v[l]] = MaskEntry(f, mask, FALSE), !.free = Taken(@, f)]

\* Follows the entry: what it points to is used as a table, whatever it is.
IsTable(e) == e.frame \in Pool /\ ~e.huge
Stray(s, t, v, l) ==
    IF s.stop = "no" /\ ~IsTable(EntryOf(s, t, v, l)) THEN [s EXCEPT !.stop = "stray"] ELSE s

\* The table below t on the way to v, allocated if need be: <<vm, table>>.
Descend(s, t, v, l, mask) ==
    LET fit == AllocPageIfNeeded(s, t, v, l, mask)
        out == Stray(fit, t, v, l)
    IN  <<out, IF out.stop = "no" THEN EntryOf(fit, t, v, l).frame ELSE t>>

Write(s, t, v, l, e) == IF s.stop = "no" THEN [s EXCEPT !.mem[t][v[l]] = e] ELSE s

-----------------------------------------------------------------------------
(* arch::vmem.                                                             *)

MapPage(s, v, to, mask) ==
    LET d3 == Descend(s, Root, v, 4, mask)
        d2 == Descend(d3[1], d3[2], v, 3, mask)
        d1 == Descend(d2[1], d2[2], v, 2, mask)
    IN  Write(d1[1], d1[2], v, 1, MaskEntry(to, mask, FALSE))

MapHuge(s, v, to, mask) ==
    LET d3 == Descend(s, Root, v, 4, mask)
        d2 == Descend(d3[1], d3[2], v, 3, mask)
    IN  Write(d2[1], d2[2], v, 2, MaskEntry(HugeBase(to), mask, TRUE))

\* translate_single_entry, level by level: the entry at which the walk of v ends.
LastEntry(s, v) ==
    LET e4 == EntryOf(s, Root, v, 4)
        e3 == EntryOf(s, e4.frame, v, 3)
        e2 == EntryOf(s, e3.frame, v, 2)
        goesOn(e) == e.present /\ IsTable(e)
    IN  IF ~goesOn(e4) THEN e4
        ELSE IF ~goesOn(e3) THEN e3
        ELSE IF ~goesOn(e2) THEN e2
        ELSE EntryOf(s, e2.frame, v, 1)

Translate(s, v) ==
    LET e == LastEntry(s, v) IN IF e.present THEN e.frame ELSE NoFrame

\* The rights the processor grants to a page mapped at level 1: every entry on the way
\* must allow it.
Grants(s, v) ==
    LET e4 == EntryOf(s, Root, v, 4)
        e3 == EntryOf(s, e4.frame, v, 3)
        e2 == EntryOf(s, e3.frame, v, 2)
        path == {e4, e3, e2, EntryOf(s, e2.frame, v, 1)}
    IN  [writable |-> \A e \in path : e.writable, noexec |-> \E e \in path : e.noexec]

-----------------------------------------------------------------------------
(* VSpace.  Both map calls go to arch::vmem::map.                          *)

SameHuge(v, w) == \A l \in 2..4 : v[l] = w[l]

VSpaceMap(v, to, privileges, caching) ==
    LET mask == VmemMask(privileges, caching)
        asked == [frame |-> to, writable |-> mask.writable, noexec |-> mask.noexec]
    IN  /\ vm.stop = "no"
        /\ vm' = MapPage(vm, v, to, mask)
        /\ meant' = IF mask.present
                    THEN [w \in DOMAIN meant \cup {v} |-> IF w = v THEN asked ELSE meant[w]]
                    ELSE [w \in DOMAIN meant \ {v} |-> meant[w]]

VSpaceMapHuge(v, to, privileges, caching) == VSpaceMap(v, to, privileges, caching)

\* arch::vmem::map_huge_page itself: the 4 KiB pages mapped in the 2 MiB are gone.
MapHugePage(v, to, privileges, caching) ==
    /\ vm.stop = "no"
    /\ vm' = MapHuge(vm, v, to, VmemMask(privileges, caching))
    /\ meant' = [w \in {x \in DOMAIN meant : ~SameHuge(v, x)} |-> meant[w]]

\* unmap is a stub that reports failure.
Unmap(v) == vm.stop = "no" /\ UNCHANGED pagingVars

PagingInit ==
    /\ \E old \in Leftovers :
          vm = [mem  |-> [t \in Table |-> [i \in Index |->
                             IF <<t, i>> \in old THEN Leftover ELSE Cleared]],
                free |-> {},
                stop |-> "no"]
    /\ meant = [v \in {} |-> NoFrame]

\* What the memory manager gets to hand out.
Supply(frames) ==
    /\ vm.stop = "no" /\ vm.free = {} /\ \A i \in Index : vm.mem[Root][i] = Cleared
    /\ vm' = [vm EXCEPT !.free = frames]
    /\ UNCHANGED meant

PagingNext ==
    \/ \E frames \in SUBSET Pool : Supply(frames)
    \/ \E v \in Vpage :
          \/ Unmap(v)
          \/ \E to \in Frames, p \in Privileges, c \in Caching :
                \/ VSpaceMap(v, to, p, c)
                \/ VSpaceMapHuge(v, to, p, c)
                \/ MapHugePage(v, to, p, c)

PagingSpec == PagingInit /\ [][PagingNext]_pagingVars

-----------------------------------------------------------------------------
(* Properties.                                                             *)

PagingTypeOK ==
    /\ vm.mem \in [Table -> [Index -> Entry]]
    /\ vm.free \subseteq Pool
    /\ vm.stop \in {"no", "panic", "stray", "null"}
    /\ DOMAIN meant \subseteq Vpage
    /\ \A v \in DOMAIN meant :
          meant[v] \in [frame : Frames, writable : BOOLEAN, noexec : BOOLEAN]

\* The entries of t that lead to a table, and the tables a level below those of ts.
Links(t) == {i \in Index : IsTable(vm.mem[t][i])}
Below(ts) == UNION {{vm.mem[t][i].frame : i \in Links(t)} : t \in ts}

Level3 == Below({Root})
Level2 == Below(Level3)
Level1 == Below(Level2)

\* No table is used at two levels, none is a page page_alloc can still give, and each is
\* reached through one entry only: a table that was shared, or taken for a free page,
\* would make a mapping of one address change another's.
TablesFormTree ==
    /\ Level3 \cap Level2 = {} /\ Level3 \cap Level1 = {} /\ Level2 \cap Level1 = {}
    /\ (Level3 \cup Level2 \cup Level1) \cap vm.free = {}
    /\ \A t, u \in {Root} \cup Level3 \cup Level2 : \A i \in Links(t), j \in Links(u) :
          vm.mem[t][i].frame = vm.mem[u][j].frame => t = u /\ i = j

\* A page that map gave a present entry is translated to what the last such call said,
\* whatever was mapped, huge or unmappable, before and since.
LastMapWins ==
    vm.stop = "no" => \A v \in DOMAIN meant : Translate(vm, v) = meant[v].frame
=============================================================================
