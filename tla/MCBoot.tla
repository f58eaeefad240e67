------------------------------- MODULE MCBoot -------------------------------
(* Small instances of Boot for TLC: tables of four entries, the physical   *)
(* map in the third entry of the root and the kernel image in the last.    *)
EXTENDS Boot, TLC

E(base, length, type) == [base |-> base, length |-> length, type |-> type]

\* 2 MiB pages, single pages, what is left over of the boot loader, and holes.
LargeMap == <<E(0, 11, "usable"), E(12, 1, "bootloader_reclaimable"), E(13, 1, "reserved"),
              E(14, 2, "framebuffer"), E(16, 2, "executable_and_modules")>>
\* Single pages only, in two regions that touch.
SmallMap == <<E(0, 4, "usable"), E(4, 4, "usable"), E(8, 1, "acpi_reclaimable")>>
\* Too little memory for the tables.
PoorMap == <<E(1, 5, "usable")>>

Maps == {LargeMap, SmallMap, PoorMap, <<E(3, 2, "bad_memory")>>}
Phys == 0..47
Ram == 0..10
Buffers == {<<142, 144>>, <<170, 171>>}
Places == {16}
Old == {{}} \cup {{<<f, i>>} : f \in {1, 2, 3, 5, 8}, i \in {0, 2, 3}}
NoOld == {{}}
AtPages == {141, 192, 194}
AtFrames == {5, 17}
=============================================================================
