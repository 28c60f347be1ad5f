-------------------------------- MODULE MCPmm -------------------------------
(* Boot environments for TLC: pages of 4 bytes, a one-byte bitmap.         *)
EXTENDS Pmm

Entry(base, length, type) == [base |-> base, length |-> length, type |-> type]

Image(map, phys, virt, text, end, bitmap) ==
  [memmap_response |-> TRUE, kaddr_response |-> TRUE, memmap |-> map,
   physical_base |-> phys, virtual_base |-> virt, text_start |-> text,
   bss_end |-> end, memory_bitmap |-> bitmap]

(* Usable low memory, the kernel in page 2, RAM in pages 3 to 6 whose      *)
(* borders are not page borders; an entry listed twice.                    *)
Unaligned ==
  Image(<<Entry(0, 7, "USABLE"), Entry(7, 1, "RESERVED"),
          Entry(8, 4, "EXECUTABLE_AND_MODULES"), Entry(12, 8, "USABLE"),
          Entry(16, 4, "USABLE"),
          Entry(21, 7, "BOOTLOADER_RECLAIMABLE"), Entry(28, 2, "USABLE")>>,
        8, 40, 41, 44, 42)

(* More RAM than the bitmap covers; page 0 and 1 usable; the image starts  *)
(* a page before its text, in RAM's middle.                                *)
Large ==
  Image(<<Entry(0, 12, "USABLE"), Entry(12, 8, "EXECUTABLE_AND_MODULES"),
          Entry(20, 20, "USABLE")>>,
        12, 40, 44, 48, 46)

(* The kernel is loaded above the bitmap's reach. *)
HighKernel ==
  Image(<<Entry(3, 17, "USABLE"), Entry(32, 8, "EXECUTABLE_AND_MODULES")>>,
        32, 40, 41, 47, 45)

(* No RAM to hand out. *)
NoRam == Image(<<Entry(8, 8, "EXECUTABLE_AND_MODULES")>>, 8, 40, 40, 48, 41)

NoMap == [Large EXCEPT !.memmap_response = FALSE]
NoAddress == [Large EXCEPT !.kaddr_response = FALSE]

MCBoots == {Unaligned, Large, HighKernel, NoRam, NoMap, NoAddress}
=============================================================================
