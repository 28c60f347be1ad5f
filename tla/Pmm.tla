-------------------------------- MODULE Pmm ---------------------------------
(***************************************************************************)
(* The physical memory manager, sys/arch/x86_64/page.c.                    *)
(*                                                                         *)
(* The manager's globals are the record pmm.  The bitmap is the set of     *)
(* page indices whose bit is 1 ("used"); a bit that is 0 is a page that    *)
(* allocate_page may hand out.  The operators on the record are pure, so   *)
(* that other modules can thread allocations through an operation.         *)
(*                                                                         *)
(* boot is what the bootloader told the kernel; owned and dirty are the    *)
(* clients' side: the pages they hold, and the pages whose bytes they have *)
(* written.  result is what the last call returned.                        *)
(***************************************************************************)
EXTENDS Integers, Sequences, FiniteSets

CONSTANTS PAGE_SIZE,        \* bytes of a page
          PMM_BITMAP_SIZE,  \* bytes of memory_bitmap
          LOW_LIMIT,        \* 0x100000: memory below it is never handed out
          Boots             \* the boot environments considered

VARIABLES boot, phase, pmm, owned, dirty, result

vars == <<boot, phase, pmm, owned, dirty, result>>

NULL == 0
NoResult == -1

-----------------------------------------------------------------------------
(* The boot environment: Limine's responses and the linker's symbols.      *)

MemTypes == {"USABLE", "BOOTLOADER_RECLAIMABLE", "EXECUTABLE_AND_MODULES",
             "RESERVED"}

BootType ==
  [memmap_response : BOOLEAN, kaddr_response : BOOLEAN,
   memmap : Seq([base : Nat, length : Nat, type : MemTypes]),
   physical_base : Nat, virtual_base : Nat,
   text_start : Nat, bss_end : Nat, memory_bitmap : Nat]

Top(e) == e.base + e.length

Allocatable(e) == e.type \in {"USABLE", "BOOTLOADER_RECLAIMABLE"}

(* The physical bytes of the loaded kernel image, memory_bitmap included. *)
InImage(b, x) == /\ b.physical_base <= x
                 /\ x < b.physical_base + (b.bss_end - b.virtual_base)

(* What the Limine protocol guarantees of the map it passes: an entry that *)
(* the kernel may allocate from shares no byte with the kernel image.      *)
LimineContract(b) ==
  \A i \in DOMAIN b.memmap : Allocatable(b.memmap[i]) =>
    \A x \in b.memmap[i].base .. (Top(b.memmap[i]) - 1) : ~InImage(b, x)

(* The linker script: the image starts at virtual_base, memory_bitmap is   *)
(* in .bss.                                                                *)
LinkerContract(b) == /\ b.virtual_base <= b.text_start
                     /\ b.text_start <= b.memory_bitmap
                     /\ b.memory_bitmap + PMM_BITMAP_SIZE <= b.bss_end

ASSUME SizesAssumption ==
  /\ PAGE_SIZE \in Nat \ {0} /\ PMM_BITMAP_SIZE \in Nat \ {0}
  /\ LOW_LIMIT \in Nat /\ LOW_LIMIT >= PAGE_SIZE

ASSUME BootsAssumption ==
  /\ Boots \subseteq BootType
  /\ \A b \in Boots : LimineContract(b) /\ LinkerContract(b)

-----------------------------------------------------------------------------
(* Page arithmetic.                                                        *)

MaxPages == PMM_BITMAP_SIZE * 8

PageOf(addr) == addr \div PAGE_SIZE

AddrOf(i) == i * PAGE_SIZE

ALIGN_UP(x) == ((x + PAGE_SIZE - 1) \div PAGE_SIZE) * PAGE_SIZE

(* The pages first, ..., last - 1: the range of pmm_init's loops. *)
PageRange(first, last) == first .. (last - 1)

PmmType == [bitmap : SUBSET (0 .. MaxPages - 1), highest_page : Nat,
            used_pages : Int, free_pages : Int, total_ram_pages : Nat]

Managed(s) == 0 .. s.highest_page

(* The pages whose bit is 0. *)
Clear(s) == Managed(s) \ s.bitmap

-----------------------------------------------------------------------------
(* pmm_init                                                                *)

(* One past the highest byte of the map, as a page index, capped so that   *)
(* every index has a bit.                                                  *)
HighestPage(b) ==
  LET tops == {0} \cup {Top(b.memmap[i]) : i \in DOMAIN b.memmap}
      highest_addr == CHOOSE t \in tops : \A u \in tops : u <= t
  IN  IF PageOf(highest_addr) >= MaxPages THEN MaxPages - 1
                                          ELSE PageOf(highest_addr)

(* Mutant: base rounded down. *)
EntryPagesMutant(e) == PageRange(PageOf(e.base), PageOf(Top(e)))

(* The whole pages of an entry: base rounded up, top rounded down. *)
EntryPages(e) == PageRange(PageOf(ALIGN_UP(e.base)), PageOf(Top(e)))

RamPages(b, hp) ==
  {p \in 0 .. hp : \E i \in DOMAIN b.memmap :
                      Allocatable(b.memmap[i]) /\ p \in EntryPages(b.memmap[i])}

(* Mutant: free_pages-- without looking at the bit. *)
ReserveMutant(s, R) ==
  LET mine == R \cap Managed(s)
  IN  [s EXCEPT !.bitmap = @ \cup mine,
                !.free_pages = @ - Cardinality(mine)]

(* One of the three reservation loops: set the bits of the pages R that    *)
(* are managed, and take the ones that were clear off free_pages.          *)
Reserve(s, R) ==
  LET mine == R \cap Managed(s)
  IN  [s EXCEPT !.bitmap = @ \cup mine,
                !.free_pages = @ - Cardinality(mine \ s.bitmap)]

(* The kernel: as many bytes as there are from _text_start to _bss_end,    *)
(* counted from physical_base.                                             *)
KernelPages(b) ==
  LET k_phys_end == b.physical_base + ALIGN_UP(b.bss_end - b.text_start)
  IN  PageRange(PageOf(b.physical_base), PageOf(k_phys_end))

BitmapPages(b) ==
  LET start == b.memory_bitmap - b.virtual_base + b.physical_base
  IN  PageRange(PageOf(start),
                PageOf(start + PMM_BITMAP_SIZE + PAGE_SIZE - 1))

(* Mutant: page 0 is not reserved. *)
LowPagesMutant == PageRange(1, PageOf(LOW_LIMIT))

LowPages == PageRange(0, PageOf(LOW_LIMIT))

(* After the map has been walked: every bit set but those of RAM. *)
WalkMap(b) ==
  LET hp  == HighestPage(b)
      ram == RamPages(b, hp)
  IN  [bitmap |-> (0 .. MaxPages - 1) \ ram, highest_page |-> hp,
       used_pages |-> 0, free_pages |-> Cardinality(ram),
       total_ram_pages |-> Cardinality(ram)]

InitialPmm(b) ==
  LET s == Reserve(Reserve(Reserve(WalkMap(b), KernelPages(b)),
                           BitmapPages(b)), LowPages)
  IN  [s EXCEPT !.used_pages = s.total_ram_pages - s.free_pages]

Boot == /\ phase = "boot" /\ boot.memmap_response /\ boot.kaddr_response
        /\ phase' = "ready"
        /\ pmm' = InitialPmm(boot)
        /\ result' = NoResult
        /\ UNCHANGED <<boot, owned, dirty>>

BootPanic == /\ phase = "boot"
             /\ ~(boot.memmap_response /\ boot.kaddr_response)
             /\ phase' = "panic"
             /\ UNCHANGED <<boot, pmm, owned, dirty, result>>

-----------------------------------------------------------------------------
(* allocate_page                                                           *)

(* The loop stops at the first index whose bit is clear. *)
FirstClear(s, i) == i \in Clear(s) /\ \A j \in 0 .. (i - 1) : j \in s.bitmap

TakePage(s, i) == [s EXCEPT !.bitmap = @ \cup {i}, !.used_pages = @ + 1,
                            !.free_pages = @ - 1]

(* Mutant: the page is not zeroed. *)
ZeroMutant(d, i) == d

(* memset (vaddr, 0, PAGE_SIZE) *)
Zero(d, i) == d \ {i}

AllocatePage == /\ phase = "ready"
                /\ \E i \in Managed(pmm) :
                     /\ FirstClear(pmm, i)
                     /\ pmm' = TakePage(pmm, i)
                     /\ owned' = owned \cup {i}
                     /\ dirty' = Zero(dirty, i)
                     /\ result' = AddrOf(i)
                /\ UNCHANGED <<boot, phase>>

OutOfMemory == /\ phase = "ready"
               /\ Clear(pmm) = {}
               /\ result' = NULL
               /\ UNCHANGED <<boot, phase, pmm, owned, dirty>>

-----------------------------------------------------------------------------
(* free_page                                                               *)

(* Mutant: no alignment check. *)
FreeRejectedMutant(s, addr) == \/ addr = NULL
                               \/ PageOf(addr) > s.highest_page
                               \/ PageOf(addr) \notin s.bitmap

(* The calls free_page turns away with a warning. *)
FreeRejected(s, addr) == \/ addr = NULL
                         \/ addr % PAGE_SIZE # 0
                         \/ PageOf(addr) > s.highest_page
                         \/ PageOf(addr) \notin s.bitmap

GivePage(s, i) == [s EXCEPT !.bitmap = @ \ {i}, !.used_pages = @ - 1,
                            !.free_pages = @ + 1]

FreePage(addr) == /\ phase = "ready"
                  /\ ~FreeRejected(pmm, addr)
                  /\ pmm' = GivePage(pmm, PageOf(addr))
                  /\ owned' = owned \ {PageOf(addr)}
                  /\ result' = NoResult
                  /\ UNCHANGED <<boot, phase, dirty>>

FreeReject(addr) == /\ phase = "ready"
                    /\ FreeRejected(pmm, addr)
                    /\ result' = NoResult
                    /\ UNCHANGED <<boot, phase, pmm, owned, dirty>>

is_page_free(s, paddr) == /\ PageOf(paddr) <= s.highest_page
                          /\ PageOf(paddr) \notin s.bitmap

get_total_memory(s) == s.total_ram_pages * PAGE_SIZE
get_used_memory(s) == s.used_pages * PAGE_SIZE
get_free_memory(s) == s.free_pages * PAGE_SIZE

-----------------------------------------------------------------------------
(* The environment.                                                        *)

(* Any byte address, those beyond the managed range included. *)
Addresses == 0 .. AddrOf(MaxPages + 1)

(* "Free a previously allocated page" (page.h): a client frees a page that *)
(* it holds, or passes any other address by mistake, a double free         *)
(* included.  The one mistake left out, because free_page cannot tell it   *)
(* from a correct call, is the exact address of a page withheld at boot.   *)
MayFree(addr) ==
  \A i \in Managed(pmm) \cap pmm.bitmap :
    addr = AddrOf(i) /\ addr # NULL => i \in owned

(* A client writes to a page it holds. *)
WritePage(i) == /\ phase = "ready"
                /\ i \in owned
                /\ dirty' = dirty \cup {i}
                /\ result' = NoResult
                /\ UNCHANGED <<boot, phase, pmm, owned>>

(* panic: infinite_loop. *)
Halted == phase = "panic" /\ UNCHANGED vars

Init == /\ boot \in Boots
        /\ phase = "boot"
        /\ pmm = [bitmap |-> {}, highest_page |-> 0, used_pages |-> 0,
                  free_pages |-> 0, total_ram_pages |-> 0]
        /\ owned = {}
        /\ dirty = 0 .. MaxPages - 1
        /\ result = NoResult

Next == \/ Boot \/ BootPanic \/ Halted
        \/ AllocatePage \/ OutOfMemory
        \/ \E addr \in Addresses :
             MayFree(addr) /\ (FreePage(addr) \/ FreeReject(addr))
        \/ \E i \in owned : WritePage(i)

Spec == Init /\ [][Next]_vars

-----------------------------------------------------------------------------
(* Properties.                                                             *)

(* The globals of page.c keep their ranges; highest_page, which bounds     *)
(* every loop over the bitmap, has a bit of its own even when the memory   *)
(* map ends beyond the bitmap.                                             *)
TypeOK == /\ boot \in Boots
          /\ phase \in {"boot", "ready", "panic"}
          /\ pmm \in PmmType
          /\ pmm.highest_page < MaxPages
          /\ owned \subseteq 0 .. MaxPages - 1
          /\ dirty \subseteq 0 .. MaxPages - 1
          /\ result \in {NoResult} \cup Nat

(* The pages that the reservation loops of pmm_init withhold. *)
Withheld(b) == KernelPages(b) \cup BitmapPages(b) \cup LowPages

(* Exactly the RAM pages that nobody holds and boot did not withhold read  *)
(* as free: no page is lost by a free, an allocation or a rejected call,   *)
(* and none is in the pool twice or while a client holds it.               *)
FreeExact ==
  phase = "ready" =>
    /\ owned \subseteq RamPages(boot, pmm.highest_page) \ Withheld(boot)
    /\ \A p \in 0 .. MaxPages - 1 :
         is_page_free(pmm, AddrOf(p)) <=>
           /\ p \in RamPages(boot, pmm.highest_page)
           /\ p \notin Withheld(boot)
           /\ p \notin owned

(* The counters agree with the bitmap: get_free_memory is the memory the   *)
(* clear bits stand for, get_used_memory what clients hold plus the RAM    *)
(* withheld at boot, and the two add up to get_total_memory.               *)
CountsExact ==
  phase = "ready" =>
    /\ get_free_memory(pmm) = PAGE_SIZE * Cardinality(Clear(pmm))
    /\ get_used_memory(pmm) =
         PAGE_SIZE * (Cardinality(owned) +
            Cardinality(RamPages(boot, pmm.highest_page) \cap Withheld(boot)))
    /\ get_used_memory(pmm) + get_free_memory(pmm) = get_total_memory(pmm)

(* A page a client holds is RAM to its last byte: every byte is inside an  *)
(* allocatable entry of the map, above 1 MiB, and outside the kernel image *)
(* and the bitmap itself, whatever the map's alignment.                    *)
OwnedSafe ==
  \A p \in owned : \A x \in AddrOf(p) .. (AddrOf(p + 1) - 1) :
    /\ x >= (LOW_LIMIT \div PAGE_SIZE) * PAGE_SIZE
    /\ ~InImage(boot, x)
    /\ \E i \in DOMAIN boot.memmap :
         /\ Allocatable(boot.memmap[i])
         /\ boot.memmap[i].base <= x /\ x < Top(boot.memmap[i])

(* allocate_page returns NULL only when nothing is free, and otherwise a   *)
(* page nobody held, with none of its previous owner's bytes in it.        *)
AllocStep ==
  /\ result' = NULL => Clear(pmm) = {} /\ owned' = owned
  /\ result' \notin {NULL, NoResult} =>
       /\ PageOf(result') \notin owned \cup dirty'
       /\ owned' = owned \cup {PageOf(result')}

AllocFresh == [][AllocStep]_vars

(* The manager is a page pool. *)
Pool == INSTANCE PagePool WITH
          Pages <- 0 .. MaxPages - 1, AddrOf <- AddrOf, NULL <- NULL,
          NoResult <- NoResult, free <- IF phase = "ready" THEN Clear(pmm)
                                                          ELSE {},
          held <- owned, result <- result

(* Every behaviour of page.c is one of the abstract pool. *)
ImplementsPool == Pool!PoolSpec
=============================================================================
