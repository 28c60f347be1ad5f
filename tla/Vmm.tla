-------------------------------- MODULE Vmm ---------------------------------
(***************************************************************************)
(* The virtual memory manager: four-level page tables in physical pages,   *)
(* sys/arch/x86_64/vmm/vmm_map.c, and the cloning of whole pagemaps,       *)
(* vmm_clone.c, on top of allocate_page and free_page.                     *)
(*                                                                         *)
(* mem[p] is page p read as a table; an entry is None or a page with its   *)
(* flags (PTE_PRESENT goes without saying).  filled is the set of pages    *)
(* that hold their client's bytes.  A virtual page is the path of its four *)
(* table indices, a pagemap the page of its pagemap_t (0 for the kernel's, *)
(* which is static) with the page of its pml4.  What vmm_init maps, the    *)
(* image and the direct map of physical memory, are second names of pages  *)
(* that are in use or free otherwise.  Which virtual and physical pages    *)
(* the loops of vmm_init come to is data: BootMaps lists them.             *)
(*                                                                         *)
(* The code reaches a table through the direct map of the pagemap that is  *)
(* active.  Here it reaches mem[p] whatever cr3 is, which is what happens  *)
(* as long as the kernel's pagemap is active; a clone's direct map is a    *)
(* copy and leads to copies.  Only vmm_init calls vmm_switch_to.           *)
(***************************************************************************)
EXTENDS Integers, FiniteSets, SequencesExt

CONSTANTS Pages,        \* physical pages
          Image,        \* those of them the allocator never hands out
          Indices,      \* the table indices in use
          VPages,       \* the virtual pages clients use
          BootMaps,     \* the mappings vmm_init makes, in order
          FlagSets,     \* the flags clients map with
          HIGHER_HALF,  \* VMM_HIGHER_HALF, in units of 2^39 bytes
          MaxClones,    \* bound: clones that exist at a time
          MaxHeld,      \* bound: pages a client allocates ahead
          MaxCalls      \* bound: calls after vmm_init

Flags == {"WRITABLE", "USER", "NX"}

(* The direct map begins in the upper half of the 64-bit addresses. *)
ASSUME VmmAssumption ==
  /\ Pages \subseteq Nat \ {0}
  /\ Image \subseteq Pages
  /\ Indices \subseteq 0 .. 511
  /\ VPages \subseteq [1 .. 4 -> Indices]
  /\ BootMaps \in Seq([virt : VPages, page : Pages,
                       kind : {"text", "rodata", "data", "direct", "low"}])
  /\ HIGHER_HALF \in Nat /\ HIGHER_HALF >= 2^24
  /\ MaxClones \in Nat /\ MaxHeld \in Nat /\ MaxCalls \in Nat
  /\ FlagSets \subseteq SUBSET Flags

VARIABLES phase,    \* "boot", "init", "run" or "panic"
          booted,   \* how many of BootMaps are made
          mem, free, filled,
          maps,     \* the pagemaps that exist
          cr3,      \* the pml4 the CPU translates with
          held,     \* pages a client has and has not mapped
          view,     \* what each pagemap was asked to map, by pml4
          direct,   \* the places that vmm_init mapped and nobody since
          lost,     \* pages of pagemap_t's whose clone was freed
          failed,   \* whether vmm_map_page ever failed
          clone,    \* the clone that is being made or was just made
          calls     \* how many calls there have been

vars == <<phase, booted, mem, free, filled, maps, cr3, held, view, direct, lost, failed,
          clone, calls>>

None == [page |-> 0, flags |-> {}]
NoClone == [state |-> "none", src |-> 0, child |-> [map |-> 0, top |-> 0]]

Call == /\ phase = "run" /\ clone.state # "making"
        /\ calls < MaxCalls /\ calls' = calls + 1

-----------------------------------------------------------------------------
(* Walking the tables                                                      *)

EmptyTable == [i \in Indices |-> None]

(* Mutant: only the lower half of the table is looked at. *)
vmm_is_table_emptyMutant(t) == \A i \in Indices : i < 256 => t[i] = None

vmm_is_table_empty(t) == t = EmptyTable

(* The page that entry i of table p points to, 0 if the entry is missing. *)
Down(m, p, i) == IF p = 0 THEN 0 ELSE m[p][i].page

(* The page at the end of a path of indices, 0 if an entry is missing on   *)
(* the way.                                                                *)
Descend(m, top, q) ==
  LET pdpt == Down(m, top, q[1])
      pd == Down(m, pdpt, q[2])
      pt == Down(m, pd, q[3])
  IN  CASE Len(q) = 0 -> top
        [] Len(q) = 1 -> pdpt
        [] Len(q) = 2 -> pd
        [] Len(q) = 3 -> pt
        [] Len(q) = 4 -> Down(m, pt, q[4])

EntryAt(m, top, path) ==
  LET table == Descend(m, top, Front(path))
  IN  IF table = 0 THEN None ELSE m[table][Last(path)]

(* 0 stands for the -1 of a page that is not mapped. *)
vmm_virt_to_phys(m, top, v) == EntryAt(m, top, v).page

-----------------------------------------------------------------------------
(* vmm_map_page                                                            *)

(* The work of a call: memory and free pages, and the table it is at (0    *)
(* after a failed allocation).                                             *)
NextFree(f) == CHOOSE p \in f : \A q \in f : p <= q

(* vmm_get_next_level with allocate = true. *)
vmm_get_next_level(w, i, alloc_flags) ==
  IF w.at = 0 THEN w
  ELSE IF w.mem[w.at][i] # None THEN [w EXCEPT !.at = w.mem[w.at][i].page]
  ELSE IF w.free = {} THEN [w EXCEPT !.at = 0]
  ELSE LET p == NextFree(w.free)
       IN  [mem |-> [w.mem EXCEPT ![p] = EmptyTable,
                                  ![w.at][i] = [page |-> p, flags |-> alloc_flags]],
            free |-> w.free \ {p}, at |-> p]

AllocFlags(flags) == {"WRITABLE"} \cup (flags \cap {"USER"})

(* The tables of v's path, made where they are missing, and the entry. *)
MapPage(m, f, top, v, phys, flags) ==
  LET Level(a, n) == vmm_get_next_level(a, v[n], AllocFlags(flags))
      w == Level(Level(Level([mem |-> m, free |-> f, at |-> top], 1), 2), 3)
  IN  IF w.at = 0 THEN w
      ELSE [w EXCEPT !.mem[w.at][v[4]] = [page |-> phys, flags |-> flags]]

(* The page a client gets back when its mapping is gone. *)
ClientPage(top, v) ==
  IF view[top][v] = None \/ <<top, v>> \in direct THEN {} ELSE {view[top][v].page}

vmm_map_page(pm, v, phys, flags) ==
  /\ Call
  /\ phys \in held
  /\ LET w == MapPage(mem, free, pm.top, v, phys, flags)
     IN  /\ mem' = w.mem /\ free' = w.free
         /\ IF w.at = 0
            THEN failed' = TRUE /\ UNCHANGED <<view, held, direct>>
            ELSE /\ view' = [view EXCEPT ![pm.top][v] = [page |-> phys, flags |-> flags]]
                 /\ held' = (held \ {phys}) \cup ClientPage(pm.top, v)
                 /\ direct' = direct \ {<<pm.top, v>>}
                 /\ UNCHANGED failed
  /\ clone' = NoClone
  /\ UNCHANGED <<phase, booted, filled, maps, cr3, lost>>

-----------------------------------------------------------------------------
(* vmm_unmap_page                                                          *)

(* Mutants: the freed table stays linked one level up; only the last       *)
(* level is pruned; the address of an entry is cleared and not its flags.  *)
ClearEntryMutant(a, table, i, n) ==
  LET m == [a.mem EXCEPT ![table][i] = None]
  IN  [a EXCEPT !.mem = m, !.done = TRUE,
                !.free = IF vmm_is_table_empty(m[table]) THEN a.free \cup {table} ELSE @]

ClearEntryMutant2(a, table, i, n) ==
  LET m == [a.mem EXCEPT ![table][i] = None]
  IN  [a EXCEPT !.mem = m, !.done = n = 3 \/ ~vmm_is_table_empty(m[table]),
                !.free = IF n = 4 THEN @ ELSE @ \cup {a.mem[table][i].page}]

ClearEntryMutant3(a, table, i, n) ==
  [a EXCEPT !.mem[table][i].page = 0, !.done = TRUE]

(* The entry is cleared, and the table it pointed to freed; the cascade    *)
(* ends with a table that is not empty, or at the pml4, which stays.       *)
ClearEntry(a, table, i, n) ==
  LET m == [a.mem EXCEPT ![table][i] = None]
  IN  [a EXCEPT !.mem = m, !.done = n = 1 \/ ~vmm_is_table_empty(m[table]),
                !.free = IF n = 4 THEN @ ELSE @ \cup {a.mem[table][i].page}]

(* One level of the cascade: the entry of path v at level n. *)
Clear(a, v, n) ==
  IF a.done THEN a ELSE ClearEntry(a, Descend(a.mem, a.top, SubSeq(v, 1, n - 1)), v[n], n)

Prune(m, f, top, v) ==
  LET a == [mem |-> m, free |-> f, top |-> top, done |-> FALSE]
  IN  Clear(Clear(Clear(Clear(a, v, 4), v, 3), v, 2), v, 1)

vmm_unmap_page(pm, v, aligned) ==
  /\ Call
  /\ \/ /\ ~aligned \/ EntryAt(mem, pm.top, v) = None
        /\ UNCHANGED <<mem, free, held, view, direct>>
     \/ /\ aligned /\ EntryAt(mem, pm.top, v) # None
        /\ LET w == Prune(mem, free, pm.top, v)
           IN  mem' = w.mem /\ free' = w.free
        /\ view' = [view EXCEPT ![pm.top][v] = None]
        /\ held' = held \cup ClientPage(pm.top, v)
        /\ direct' = direct \ {<<pm.top, v>>}
  /\ clone' = NoClone
  /\ UNCHANGED <<phase, booted, filled, maps, cr3, lost, failed>>

-----------------------------------------------------------------------------
(* vmm_free_pagemap_clone                                                  *)

(* The region the entry covers starts at pml4_i << 39. *)
InHigherHalf(pml4_i) == pml4_i >= HIGHER_HALF

Paths == UNION {[1 .. n -> Indices] : n \in 1 .. 4}

(* The paths whose entries are present, below the higher half. *)
Present(m, top) ==
  {q \in Paths : ~InHigherHalf(q[1]) /\ Descend(m, top, q) # 0}

(* Mutant: the pml4 itself is not freed. *)
FreeCloneMutant(m, f, top) ==
  LET pages == {Descend(m, top, q) : q \in Present(m, top)}
  IN  [mem |-> [p \in Pages |-> IF p \in pages \cup {top} THEN EmptyTable ELSE m[p]],
       free |-> f \cup pages]

(* Every page the clone maps and every table of it goes back, the pml4     *)
(* last; the entries are cleared.                                          *)
FreeClone(m, f, top) ==
  LET tables == {Descend(m, top, q) : q \in {r \in Present(m, top) : Len(r) < 4}}
      leaves == {Descend(m, top, q) : q \in {r \in Present(m, top) : Len(r) = 4}}
  IN  [mem |-> [p \in Pages |->
                 IF p \in tables THEN EmptyTable
                 ELSE IF p = top
                 THEN [i \in Indices |-> IF InHigherHalf(i) THEN m[p][i] ELSE None]
                 ELSE m[p]],
       free |-> f \cup tables \cup leaves \cup {top}]

(* It is for clones, and for one the CPU does not run on: what the code    *)
(* trusts its callers with.                                                *)
vmm_free_pagemap_clone(pm) ==
  /\ Call /\ pm.map # 0
  /\ pm.top # cr3
  /\ LET w == FreeClone(mem, free, pm.top)
     IN  mem' = w.mem /\ free' = w.free
  /\ maps' = maps \ {pm}
  /\ view' = [view EXCEPT ![pm.top] = [v \in VPages |-> None]]
  /\ clone' = NoClone
  /\ lost' = lost \cup {pm.map}
  /\ UNCHANGED <<phase, booted, filled, cr3, held, direct, failed>>

-----------------------------------------------------------------------------
(* vmm_clone_pagemap                                                       *)

(* Up to the first entry: the pages of the pagemap_t and of the pml4. *)
vmm_clone_pagemap(pm) ==
  /\ Call
  /\ Cardinality(maps) <= MaxClones
  /\ LET map == NextFree(free)
         top == NextFree(free \ {map})
     IN  \/ /\ \A p, q \in free : p = q
            /\ clone' = NoClone
            /\ UNCHANGED <<mem, free>>
         \/ /\ \E p, q \in free : p # q
            /\ mem' = [mem EXCEPT ![top] = EmptyTable]
            /\ free' = free \ {map, top}
            /\ clone' = [state |-> "making", src |-> pm.top,
                         child |-> [map |-> map, top |-> top]]
  /\ UNCHANGED <<phase, booted, filled, maps, cr3, held, view, direct, lost, failed>>

(* The present entries of the source that the loops have not come to yet:  *)
(* in the higher half they do not descend.                                 *)
Pending ==
  {q \in Paths : /\ EntryAt(mem, clone.src, q) # None
                 /\ EntryAt(mem, clone.child.top, q) = None
                 /\ ~InHigherHalf(q[1]) \/ Len(q) = 1}

(* The nested loops come to q before r: it is on r's way, or has the       *)
(* smaller index where they part.                                          *)
Before(q, r) ==
  \E n \in 1 .. Len(r) :
    /\ \A k \in 1 .. (n - 1) : k <= Len(q) /\ q[k] = r[k]
    /\ n > Len(q) \/ q[n] < r[n]

Upcoming == {q \in Pending : \A r \in Pending \ {q} : Before(q, r)}

(* flags & 0xFFF *)
LowFlags(flags) == flags \ {"NX"}

(* Mutant: the page's bytes are not copied. *)
CloneEntryMutant(q) ==
  LET e == EntryAt(mem, clone.src, q)
      parent == Descend(mem, clone.child.top, Front(q))
      p == NextFree(free)
  IN  [mem |-> [mem EXCEPT ![p] = EmptyTable,
                           ![parent][Last(q)] = [page |-> p, flags |-> LowFlags(e.flags)]],
       free |-> free \ {p}, filled |-> filled \ {p}]

(* The loop body for one entry: it becomes a table of the child, or a page *)
(* with the source page's bytes.                                           *)
CloneEntry(q) ==
  LET e == EntryAt(mem, clone.src, q)
      parent == Descend(mem, clone.child.top, Front(q))
      p == NextFree(free)
  IN  IF InHigherHalf(q[1])
      THEN [mem |-> [mem EXCEPT ![parent][Last(q)] = e], free |-> free, filled |-> filled]
      ELSE [mem |-> [mem EXCEPT ![p] = EmptyTable,
                       ![parent][Last(q)] = [page |-> p, flags |-> LowFlags(e.flags)]],
            free |-> free \ {p},
            filled |-> IF Len(q) = 4 /\ e.page \in filled
                       THEN filled \cup {p} ELSE filled \ {p}]

(* A call of vmm_clone_pagemap goes on: with the next entry; with none     *)
(* left; or to clone_fail, which frees what the child has so far and then  *)
(* its pagemap_t.                                                          *)
CloneStep ==
  /\ clone.state = "making"
  /\ \E q \in Upcoming :
       /\ free # {} \/ InHigherHalf(q[1])
       /\ LET w == CloneEntry(q)
          IN  mem' = w.mem /\ free' = w.free /\ filled' = w.filled
  /\ UNCHANGED <<phase, booted, maps, cr3, held, view, direct, lost, failed, clone, calls>>

CloneReturn ==
  /\ clone.state = "making" /\ Pending = {}
  /\ maps' = maps \cup {clone.child}
  /\ view' = [view EXCEPT ![clone.child.top] =
                 [v \in VPages |-> EntryAt(mem, clone.child.top, v)]]
  /\ clone' = [clone EXCEPT !.state = "made"]
  /\ UNCHANGED <<phase, booted, mem, free, filled, cr3, held, direct, lost, failed, calls>>

CloneFail ==
  /\ clone.state = "making" /\ free = {}
  /\ \E q \in Upcoming : ~InHigherHalf(q[1])
  /\ LET w == FreeClone(mem, free, clone.child.top)
     IN  mem' = w.mem /\ free' = w.free \cup {clone.child.map}
  /\ clone' = NoClone
  /\ UNCHANGED <<phase, booted, filled, maps, cr3, held, view, direct, lost, failed, calls>>

-----------------------------------------------------------------------------
(* vmm_switch_to, vmm_init                                                 *)

vmm_switch_to(pm) ==
  /\ Call
  /\ cr3' = pm.top
  /\ clone' = NoClone
  /\ UNCHANGED <<phase, booted, mem, free, filled, maps, held, view, direct, lost, failed>>

(* The flags of the kernel's sections, of the direct map of physical       *)
(* memory and of the identity map of its first megabyte.                   *)
BootFlags(kind) == CASE kind = "text" -> {}
                     [] kind = "rodata" -> {"NX"}
                     [] OTHER -> {"WRITABLE", "NX"}

(* A missing response of the boot loader, or no page for the pml4, is a    *)
(* panic.                                                                  *)
vmm_init(responses) ==
  /\ phase = "boot"
  /\ \/ /\ ~responses \/ free = {}
        /\ phase' = "panic"
        /\ UNCHANGED <<mem, free, maps>>
     \/ /\ responses /\ free # {}
        /\ phase' = "init"
        /\ LET top == NextFree(free)
           IN  /\ mem' = [mem EXCEPT ![top] = EmptyTable]
               /\ free' = free \ {top}
               /\ maps' = {[map |-> 0, top |-> top]}
  /\ UNCHANGED <<booted, filled, cr3, held, view, direct, lost, failed, clone, calls>>

(* The loops of vmm_init: one page more; one that cannot be mapped is a    *)
(* panic.                                                                  *)
MapBootPage(pm) ==
  /\ phase = "init" /\ booted < Len(BootMaps)
  /\ LET b == BootMaps[booted + 1]
         w == MapPage(mem, free, pm.top, b.virt, b.page, BootFlags(b.kind))
     IN  /\ mem' = w.mem /\ free' = w.free
         /\ IF w.at = 0
            THEN phase' = "panic" /\ failed' = TRUE /\ UNCHANGED <<booted, view, direct>>
            ELSE /\ view' = [view EXCEPT ![pm.top][b.virt] =
                              [page |-> b.page, flags |-> BootFlags(b.kind)]]
                 /\ direct' = direct \cup {<<pm.top, b.virt>>}
                 /\ booted' = booted + 1
                 /\ UNCHANGED <<phase, failed>>
  /\ UNCHANGED <<filled, maps, cr3, held, lost, clone, calls>>

(* Its last call is vmm_switch_to. *)
InitReturn(pm) ==
  /\ phase = "init" /\ booted = Len(BootMaps)
  /\ phase' = "run" /\ cr3' = pm.top
  /\ UNCHANGED <<booted, mem, free, filled, maps, held, view, direct, lost, failed, clone, calls>>

-----------------------------------------------------------------------------
(* The clients: a page is allocated and written, and freed when it is not  *)
(* mapped.                                                                 *)

AllocatePage ==
  /\ Call /\ free # {}
  /\ Cardinality(held) < MaxHeld
  /\ LET p == NextFree(free)
     IN  free' = free \ {p} /\ held' = held \cup {p} /\ filled' = filled \cup {p}
  /\ clone' = NoClone
  /\ UNCHANGED <<phase, booted, mem, maps, cr3, view, direct, lost, failed>>

FreePage(p) ==
  /\ Call /\ p \in held
  /\ free' = free \cup {p} /\ held' = held \ {p}
  /\ clone' = NoClone
  /\ UNCHANGED <<phase, booted, mem, filled, maps, cr3, view, direct, lost, failed>>

(* The three calls that check for a NULL pagemap: vmm_clone_pagemap and    *)
(* vmm_free_pagemap_clone return, vmm_switch_to panics.                    *)
InvalidPagemap ==
  \/ phase = "run" /\ UNCHANGED vars
  \/ /\ phase = "run" /\ clone.state # "making" /\ phase' = "panic"
     /\ UNCHANGED <<booted, mem, free, filled, maps, cr3, held, view, direct, lost, failed,
                    clone, calls>>

Panicked == phase = "panic" /\ UNCHANGED vars

Init == /\ phase = "boot" /\ booted = 0
        /\ mem = [p \in Pages |-> EmptyTable]
        /\ free = Pages \ Image
        /\ filled = Image
        /\ maps = {} /\ cr3 = 0
        /\ held = {} /\ direct = {} /\ lost = {} /\ failed = FALSE
        /\ clone = NoClone /\ calls = 0
        /\ view = [p \in Pages |-> [v \in VPages |-> None]]

Next == \/ \E responses \in BOOLEAN : vmm_init(responses)
        \/ \E pm \in maps :
             \/ MapBootPage(pm)
             \/ InitReturn(pm)
             \/ \E v \in VPages, p \in held, fl \in FlagSets : vmm_map_page(pm, v, p, fl)
             \/ \E v \in VPages, aligned \in BOOLEAN : vmm_unmap_page(pm, v, aligned)
             \/ vmm_clone_pagemap(pm)
             \/ vmm_free_pagemap_clone(pm)
             \/ vmm_switch_to(pm)
        \/ CloneStep
        \/ CloneReturn
        \/ CloneFail
        \/ InvalidPagemap
        \/ AllocatePage
        \/ \E p \in held : FreePage(p)
        \/ Panicked

Spec == Init /\ [][Next]_vars

-----------------------------------------------------------------------------
(* Properties                                                              *)

(* The pagemaps, with the one that vmm_clone_pagemap is making. *)
Live == maps \cup (IF clone.state = "making" THEN {clone.child} ELSE {})

(* The places a pagemap keeps pages at: its pml4 at the empty path, its    *)
(* tables at paths of one to three indices, what it maps at paths of four. *)
Places(pm) == {q \in {<<>>} \cup Paths : Descend(mem, pm.top, q) # 0}

(* The places whose page belongs to the pagemap; those that vmm_init       *)
(* mapped are second names.                                                *)
OwnPlaces(pm) == {q \in Places(pm) : <<pm.top, q>> \notin direct}

OwnPages(pm) == {Descend(mem, pm.top, q) : q \in OwnPlaces(pm)}

MapPages == {pm.map : pm \in Live} \ {0}

Entries == {None} \cup [page : Pages, flags : SUBSET Flags]

(* Every entry of every page table, whoever wrote it (vmm_map_page,        *)
(* vmm_unmap_page, the clone's `phys | flags`), is zero or a physical page *)
(* with flags, and the CPU's cr3 is the pml4 of a pagemap that exists.     *)
TypeOK ==
  /\ phase \in {"boot", "init", "run", "panic"}
  /\ \A p \in Pages : \A i \in Indices : mem[p][i] \in Entries
  /\ free \subseteq Pages \ Image /\ held \subseteq Pages \ Image
  /\ lost \subseteq Pages \ Image /\ filled \subseteq Pages
  /\ maps \subseteq [map : {0} \cup Pages, top : Pages]
  /\ \A p \in Pages : \A v \in VPages : view[p][v] \in Entries
  /\ direct \subseteq {pm.top : pm \in maps} \X VPages
  /\ cr3 \in {pm.top : pm \in maps} \cup {0}
  /\ (phase = "run") => (cr3 # 0)
  /\ clone.state \in {"none", "making", "made"}
  /\ failed \in BOOLEAN /\ calls \in 0 .. MaxCalls /\ booted \in 0 .. Len(BootMaps)

(* A page has one use at a time: no table or mapped page is reached at two *)
(* places of one pagemap or from two pagemaps, and none is free, in a      *)
(* client's hands or a pagemap_t.  vmm_unmap_page frees tables it still    *)
(* holds pointers to, and vmm_clone_pagemap and vmm_free_pagemap_clone     *)
(* pair their allocations and releases by hand at five levels.             *)
OnePurpose ==
  /\ \A pm \in Live :
       /\ \A q, r \in OwnPlaces(pm) :
            (Descend(mem, pm.top, q) = Descend(mem, pm.top, r)) => (q = r)
       /\ OwnPages(pm) \cap (Image \cup free \cup held \cup lost \cup MapPages) = {}
       /\ \A other \in Live \ {pm} : OwnPages(pm) \cap OwnPages(other) = {}
  /\ free \cap (held \cup lost \cup MapPages) = {}
  /\ held \cap (lost \cup MapPages) = {} /\ lost \cap MapPages = {}

(* No page is lost, other than the pagemap_t's of freed clones: what       *)
(* vmm_unmap_page's pruning, a freed clone and a clone that fails half way *)
(* (clone_fail) have taken is back in the allocator.                       *)
Conserved ==
  Pages = Image \cup free \cup held \cup lost \cup MapPages
            \cup UNION {OwnPages(pm) : pm \in Live}

(* A walk of the tables (vmm_virt_to_phys, and the CPU's own) finds in     *)
(* every pagemap exactly the mappings made in it and not undone since:     *)
(* pruning the tables of one page takes no other mapping away, and an      *)
(* operation on a pagemap, or a failed one, changes no other pagemap.      *)
TranslationExact ==
  \A pm \in maps : \A v \in VPages :
    /\ EntryAt(mem, pm.top, v) = view[pm.top][v]
    /\ vmm_virt_to_phys(mem, pm.top, v) = view[pm.top][v].page

(* Unless vmm_map_page ever ran out of pages after making the upper tables *)
(* of a path, every table below a pml4 has an entry: vmm_unmap_page leaves *)
(* no empty table at any of the three levels, and clones have none.        *)
Pruned ==
  ~failed => \A pm \in maps : \A q \in Places(pm) :
               Len(q) \in 1 .. 3 => mem[Descend(mem, pm.top, q)] # EmptyTable

(* A clone that vmm_clone_pagemap has just returned maps the virtual pages *)
(* its source maps and no others, with the low flag bits of every entry on *)
(* the way (`& 0xFFF`, vmm_clone.c:227, drops PTE_NX, which is bit 63), and *)
(* with the bytes of every page that the source has to itself.  A page of  *)
(* the direct map may have become one of the clone's while it was made.    *)
CloneExact ==
  clone.state = "made" =>
    \A q \in Paths :
      LET e == EntryAt(mem, clone.src, q)
          c == EntryAt(mem, clone.child.top, q)
      IN  /\ (e = None) <=> (c = None)
          /\ e # None => c.flags = e.flags \ {"NX"}
          /\ (e # None /\ Len(q) = 4 /\ <<clone.src, q>> \notin direct)
               => (c.page \in filled <=> e.page \in filled)

-----------------------------------------------------------------------------
(* What the comments say of the code, and the code does not do             *)

(* vmm_clone.c:28, "They also only work for userspace mappings", and the   *)
(* branch at vmm_clone.c:152-156 that copies the higher half's entries as  *)
(* they are: a clone shares the kernel's tables.  pml4_i << 39 is at most  *)
(* 511 << 39, below every VMM_HIGHER_HALF, so the branch is never taken.   *)
KernelHalfShared ==
  clone.state = "made" =>
    \A i \in Indices : i >= 256 => mem[clone.child.top][i] = mem[clone.src][i]
=============================================================================
