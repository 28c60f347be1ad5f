# Osiris kernel: TLA+ models and proofs

Osiris is a small monolithic x86-64 kernel booted by Limine.  This directory
keeps, beside its source, TLA+ modules of the parts whose correctness is hard to
test, TLC runs that check them on small instances, and TLAPS proofs of the most
important properties for every value of the constants.

## The system

`x64_main` (`sys/arch/x86_64/main.c`) brings the parts up in this order:

| part | source | state | operations |
|---|---|---|---|
| descriptor tables | `boot/gdt.c` | GDT, TSS | `gdt_init`, `tss_init` |
| console | `dev/liminefb/liminefb.c` | cursor, colours, framebuffer | `putchar`, scrolling, erase |
| traps | `trap.c`, `isr.asm` | IDT, PIC masks, `ticks` | `trap_init`, `isr_handler_c`, `irq_handler_c` |
| physical memory | `page.c` | bitmap, `highest_page`, three counters | `pmm_init`, `allocate_page`, `free_page`, `is_page_free` |
| virtual memory | `vmm/vmm_map.c`, `vmm/vmm_clone.c` | page tables in physical pages, `kernel_pagemap`, cr3 | map, unmap, translate, switch, clone, free a clone |
| heap | `heap.c` | `free_list_head` over a 1 MiB arena, size words in the blocks | `heap_init`, `kmalloc`, `kfree`, `kcalloc`, `krealloc` |
| processes | `kern/proc.c`, `swtch.asm` | `proc_table`, `proc_count`, `current_proc`, stacks | `proc_init`, `proc_create`, `proc_destroy`, `schedule` |
| keyboard | `dev/atkbd/atkbd.c` | ring buffer, modifiers, LED mask | interrupt handler, `atkbd_get_char`, `atkbd_read` |
| boot modules | `boot/request.c`, `kern/module.c` | Limine's responses | `module_init` |
| VFS | `kern/mount.c` | list of mount points | `vfs_mount`, `vfs_umount`, `vfs_read`, `vfs_write` |
| devfs, random, tarfs | `fs/`, `dev/random` | device table, generator state, archive | register, lookup, read, write |
| printk, panic, debugger | `kern/printk.c`, `kern/panic.c` | none, symbol table | `vsnprintf`, `panic`, symbol lookup |
| user mode | `swtch.asm` | none | `switch_to_user` |

How they interact.  The VMM takes tables from the PMM and gives them back; the
heap takes its arena from both at boot; `proc_create` takes stacks from the heap
and `proc_destroy` returns them; the keyboard handler takes memory from the heap
in an interrupt.  The timer interrupt calls `schedule`, which switches stacks in
the middle of whatever the current process was doing: every function that runs
with interrupts enabled can be preempted between any two instructions, and none
of the data structures has a lock.  The VFS keeps its mount points and handles in
heap blocks and dispatches to devfs (which calls the keyboard, the console and
the generator) and to the archive that `module_init` mounted.  Everything that
prints goes through `printk` to the console.  `panic` and exceptions print and
stop the machine.

What is hard here: preemption inside `proc_create` and `proc_destroy`; failures
half way through operations that take several pages (`vmm_map_page`,
`vmm_clone_pagemap`); pairing allocations with releases by hand over four levels
of tables; merging in the heap; walks over the mount list that others change; the
cursor across wrapping, scrolling and backspaces; interrupts while the system is
still coming up; page and size arithmetic at the borders; long sequences of
legal calls.  `PROJECT.json` lists these hazards at their lines,
each with the properties that cover it or the reason none does.  Where the code
does go wrong and no comment says otherwise, the step is in the model and the
hazard has a note instead of a property.

## Modules

| module | what it is |
|---|---|
| `Pmm` | `page.c` |
| `PagePool` | what `page.c` promises its clients; `Pmm` implements it |
| `Heap` | `heap.c` |
| `Vmm` | `vmm_map.c` and `vmm_clone.c` on top of a page allocator |
| `Proc` | `proc.c`, `swtch.asm` and the timer's interrupt |
| `Kbd` | `atkbd.c` with the keyboard and the processes that read it |
| `Tar` | the archive walk of `tar_parse.c` and `tar_octal.c`, as operators |
| `Vfs` | `mount.c`, `devfs_dev.c`, `module.c` and the open, read and close of `tar_parse.c`, in processes that preempt each other |
| `MountTable` | what the mount list promises; `Vfs` implements it |
| `Format` | `vsnprintf`, as operators |
| `Console` | `liminefb.c` and `printk` |
| `Terminal` | what the console promises; `Console` implements it |
| `Boot` | `x64_main`, `gdt.c`, `trap.c` and `isr.asm`, `panic.c`, `switch_to_user` |
| `PmmProofs`, `HeapProofs`, `VmmProofs`, `ProcProofs`, `KbdProofs`, `VfsProofs`, `ConsoleProofs`, `BootProofs` | the theorems about a component and their proofs |
| `MCPmm`, `MCHeap`, `MCVmm`, `MCProc`, `MCKbd`, `MCVfs`, `MCConsole`, `MCBoot` | instances for TLC |

Definitions named `...Mutant` are deliberately wrong versions of the definition
they stand in front of.  Nothing uses them; replacing the definition by its
mutant shows that a property can fail.

### Pmm

The globals of `page.c` are the record `pmm`; the bitmap is the set of indices
whose bit is 1.  `Boot` is `pmm_init` on a boot environment (`boot`: memory map,
load address, linker symbols): `HighestPage`, `RamPages` and the three `Reserve`
steps are its loops in order.  `AllocatePage`/`OutOfMemory` are the two ends of
`allocate_page`, `FreePage`/`FreeReject` those of `free_page`, whose four early
returns are `FreeRejected`.  Ghost state: `owned`, the pages clients hold,
`dirty`, the pages with somebody's bytes in them, and `result`, the last call's
value.  Two contracts about code outside the kernel are assumptions on `Boots`:
Limine never calls the kernel's own image usable, and the linker script puts
`memory_bitmap` inside the image.  Clients may free anything (NULL, misaligned,
out of range, already free) except the exact address of a page that boot
withheld, which `free_page` cannot tell from a page it handed out.

### Heap

`free_list` is the list from `free_list_head`, `live` the blocks that are out
with the size word in front of them and the number of bytes the client asked
for.  Sizes are `size_t`: arithmetic wraps at `SIZE_MOD`.  `Carve`/`Carved` are
the two halves of a first-fit allocation with or without a split, `Release` the
insertion with its two merges.  `kcalloc` and `krealloc` write into what they
get: if that is smaller than they think the state becomes `overrun`.
`kfree_stray` is `kfree` of a pointer the sanity check can catch.

### Vmm

A virtual page is its path of four indices.  `mem[p]` is page `p` read as a
table; flags are sets; PTE_PRESENT is implied by an entry.  `MapPage` is three
calls of `vmm_get_next_level` and the write of the entry; `Clear` is one level of
the cascade of `vmm_unmap_page`, `Prune` all four.  A clone is a call in steps:
`vmm_clone_pagemap` takes the two pages of the child, each `CloneStep` is the loop
body for one entry (`CloneEntry`), and `CloneReturn` or `CloneFail` ends it.  The
nested loops are `Upcoming`: of the source's entries that the child has not got
yet (`Pending`) the one that comes `Before` all others.  Nothing else runs
meanwhile; the steps are there so that each allocation is one.  `FreeClone` serves
`vmm_free_pagemap_clone` and `clone_fail`.  Boot is `vmm_init` (the responses and
the pml4), a `MapBootPage` for each page of its three loops, and `InitReturn`.
`allocate_page` is the lowest free page, as in `Pmm`.

What `vmm_init` maps, the image, the direct map and the identity map, are second
names of pages that are free or in use otherwise; `direct` remembers those places,
so that "who uses this page" still has one answer.  Further ghost state: `view`, the
mappings asked for, `held`, pages of a client not mapped yet, `filled`, the pages
that hold data, `lost`, the pages of freed clones' `pagemap_t`, `failed`, and the
part of `clone` that stays until the next call.  The pages that `vmm_init`'s loops
come to are data, the constant sequence `BootMaps`: the bounds and the address
arithmetic of the loops (`vmm_map.c`, 262-340) are not modelled.  Nor does `cr3`
change how a table is reached.  The code goes through the direct map of the active
pagemap, and that of a clone is a copy that leads to copies of the tables, so after
a switch to a clone the model's accesses are idealised; nothing but `vmm_init` calls
`vmm_switch_to`.  Left out: the TLB and `invlpg`; the offset inside a page.  A client maps a page at one place, and does not free
the pagemap the CPU is using.  `CloneExact` is stated with what the code keeps of
the flags: `& 0xFFF` loses PTE_NX, so no page of a clone is no-execute.  The
bytes are claimed of the pages that the source has to itself: a clone of the
kernel's pagemap also copies the direct map, and a page of it may be taken for
the clone before the loops come to it.

### Proc

`schedule` runs in an interrupt gate and is one step.  `proc_create` and
`proc_destroy` are cut where the scheduler could see the difference: claim a
slot, make stack and frame, publish; free the stack, mark dead, each turn of the
shift, decrement, fix `current_proc`.  A step of a call happens only while the
CPU executes the thread that made the call, so a tick can suspend a call and a
later one resume it.  `cpu` is what executes (stack and thread), `mem[s]` the
thread whose registers are saved on stack `s`; that `current_proc` agrees with
`cpu` is a property, not an assumption.  kmalloc may fail at any time; the
unchecked NULL is then a write to page 0 or a fault, depending on the memory
map, and both are in the model; `StackOwned` is about the stacks that kmalloc did
return.  Not modelled: two calls of `proc_create` or
`proc_destroy` overlapping each other, stack depth, torn structure copies.

### Kbd

The handler runs with interrupts off until its character is buffered and is one
step (`IrqCaps`, `IrqBreak`, `IrqMake` are the paths through `atkbd_irq`).
`atkbd_get_char` is three steps, the test of the indices, the read and the
advance, because an interrupt or another reader can come in between.  `wire` is
what the keyboard has sent.  `atkbd_set_led`, called inside the interrupt, polls
until the keyboard acknowledges and drops what comes before; how many codes that
is, and whether the poll times out, is left open.  A character is its key with
the table it was decoded by.  `atkbd_init` is two steps because
`atkbd_clear_buffer` enables interrupts in the middle of it.  Ghost state: `put`
and `got`, the characters buffered and returned, `down`, the keys held, and
`swallowed`, the modifiers of which the dialogue dropped a code and whose keys have
sent none since.

The user may press any key again that is down, which is the keyboard's repeat, and
shift, control and alt have two keys each.  The right control and alt keys send the
codes of the left ones behind a prefix, 0xE0, which `atkbd_irq` takes for the release
of key 0x60; it changes nothing and is left off the wire.  The release of either key
ends the modifier, so what the flags can promise is `Follows`: down only while one
of the keys is, and surely while both are.  Keyboards also send shift codes behind
the prefix around print-screen and, with num lock, the cursor keys, which the driver
takes for the shift key; these are not modelled.

### Tar and Vfs

An archive is a function from block addresses to headers, data and zeros; `Tar`
walks it (`Visited`, `WalkEnds`) and fills the table (`tarfs_init`).  In `Vfs` the
mount list and the device list are linked through `heap`, whose blocks are free,
somebody else's, a mount point, a device node or an open handle, so a dangling
pointer is visible as what it points to now.  `call[p]` is the call process `p` is
in.  The loops over the list are taken one entry at a time (`WalkOn`, `WalkEnd`,
and one action for what each call does where it stops); the link and the unlink
are one step each; open, read and close are separate steps.  `phase = "wild"`
stands for whatever follows the use of a pointer that is not one.  A path is a
sequence of names and slashes, compared as `vfs_read` compares characters: since
the character behind the mount point must be a slash, the root `/` covers only
itself and `//...`, and a path like `/etc/motd` is found by the last resort, by
its whole name in the archive.  Ghost state: `lost` (the block `vfs_mount`
forgets when it refuses a type), `before` (the table when a read began) and
`result`.  `MayStart` is what the code leaves to its callers: one change of the
list at a time, no unmount under somebody's walk.  Left out: names longer than
their fields (`kstrcpy` has no bound), `kbd` characters (`Kbd` has them), and sizes
that tar writers end with a space instead of a NUL.

### Format and Console

`vsnprintf` is a fold over the items of a format: literal characters and
directives with their arguments.  Negative numbers under `%d` (the digits are then
read in front of their table) and a format that ends in `%` (the loop goes on behind
its NUL) are left out; every format in the tree is a literal and none ends so.
The screen is `screen[band][column]`, bands of
pixels by columns of eight; ink is a part of a glyph or of the cursor.  Drawing
adds ink, erasing removes it, scrolling moves it, and a write to a band that is
not on the screen is recorded in `outside`.  `liminefb_putchar` is one step, and a
string is printed one character at a time, so several writers interleave; a
preemption inside `liminefb_putchar` is not modelled.  `Terminal` has only a grid
of characters and a position; the mapping reads the grid off the ink.

### Boot

`at` is the call of `x64_main` the CPU has come to and `up` the functions that
have returned; `Uses` and `Handler` are what a function or an interrupt handler
needs to be up.  `atkbd_init` is two steps because `atkbd_clear_buffer` ends in
`sti`, before `x64_main`'s own.  `env` is what the outside gives: whether the
boot loader answers, which function runs out of something, whether a device
other than the timer and the keyboard raises its line, the symbol table and the
chain of return addresses.  `Exception` is `isr_handler_c`, or a triple fault when
there is no IDT yet.  `switch_to_user` builds its frame value by value: it pushes
four, and `iretq` takes five, so the flags become the code selector and the
machine stops with a general protection fault.  `mi_startup` is therefore never
reached.  `panic` is the steps around its `cli`, then one step per turn of the
binary search and per frame.  Left out: non-maskable interrupts, and the IST
stacks, which `gdt_init` sets up and no gate names.

## Runs

| run | instance | shows |
|---|---|---|
| `pmm` | six boot environments, pages of 4 bytes, 8-bit bitmap | bitmap, counters, clients' pages agree; a page is fresh; refinement of `PagePool` |
| `heap` | 5 units of 16 bytes, `size_t` of 8 bits | blocks apart, merged, nothing lost, refusals justified |
| `vmm` | 14 pages, two boot mappings, indices {0, 256}, three virtual pages, two clones, 6 calls | one use per page, nothing lost, exact translations, pruned tables, clones are copies |
| `proc` | 3 slots, 3 stacks, 2 destroys | stacks owned, the right process runs and resumes, every process runs again and again |
| `kbd` | buffer of 3, 4 key presses or repeats, two keys per modifier, one reader | characters in order until the wrap and each returned, never full, no stuck modifier but one whose last code was swallowed |
| `vfs` | 2 processes, a small heap, 3 calls, archives of every shape | blocks owned, reads right, refinement of `MountTable`, calls return, wild pointers only where the environment gave reason |
| `console` | 3 columns, 6 or 7 bands, lines of 2 bands, two writers, 3 calls | refinement of `Terminal`, one cursor, writes inside the screen, formats right |
| `boot` | lines 0, 1 and 7, tables of up to 3 symbols, traces of up to 2 frames | parts up before use, stops explained, trace right, boot ends |
| `vmm_kernel_half`, `proc_switch`, `kbd_wrap`, `vfs_search` | small | four places where the code does something else than its comments say |

**Bounds.**  *pmm*: the environments are chosen one per case of `pmm_init`
(unaligned and overlapping entries, more memory than bitmap bits, the kernel
above the bitmap, nothing usable, each response missing); the pools are small
enough to be exhausted.  *heap*: the sizes are one to three units, the whole
arena, one byte too many, the last size that does not wrap and one that does,
so exact fits, splits, merges on either and both sides, exhaustion and
wrap-around all happen.  *vmm*: the kernel's tables take 4 pages and a
clone of it 7, so with 14 pages a second clone fails at different allocations
depending on what was mapped and unmapped before, and `vmm_map_page` fails after making
some of its tables; of the virtual pages two share all tables and one only the
upper two; one boot mapping is of the image and one, the direct map's, of a page
that the allocator hands out later; 6 calls are enough for map-map-clone-unmap-free sequences and keep
the run under a minute.  *proc*: three slots are the idle process, a caller and
another, which is what a shift needs; two destroys let one hit the state the
other left behind.  *kbd*: four presses are one more than the buffer holds, so the
wrap and the write behind the block happen; two codes on the wire are enough for
one to be swallowed behind caps lock; reads are bounded because after the wrap a
reader never blocks again.  *vfs*: two processes are a preempted call and the one
that preempts it, and three calls a change before, during and after a walk; the
heap starts with any number of its blocks taken, so every allocation fails
somewhere; blocks of 4 bytes and a table of three files let an archive have a
file of three blocks, an empty one, a duplicate, a directory, one file too many,
a size without a NUL and no end.  *console*: three lines and three columns wrap,
scroll and go back over a line within one string; 7 bands are three lines and a
half; 4 characters of buffer are cut by strings and overrun by numbers; two
writers are enough, since printing keeps no state of its own between characters.
*boot*: one stray line stands for all that have no gate, and of several reasons to
panic the first one counts.  In `kbd`, `vfs`, `console` and `boot` the system may
stop (nobody types or calls, the machine halts), so these runs do not look for
deadlocks.

**Fairness.**  `FairSpec` asks only for weak fairness of the timer tick: the PIT
keeps interrupting, and `phase = "run"` keeps it enabled.  Nothing is assumed
of the processes: a call may never finish.  `Kbd`'s `FairSpec` asks that boot
goes on, that interrupts are delivered while they are on, and that a process
that reads is scheduled, which is what `EveryProcessRuns` shows of `Proc`;
`Vfs`'s asks the same for each process in a call, and nothing of processes that
start no call or of who types.  `Boot`'s asks that the CPU goes on with `x64_main`
or `panic` when no interrupt is being served: handlers are short and return.

**Findings** (runs that end in a violation):

* "switch to the idle task" assigns `current_proc` and leaves the CPU on the
  stack that was just freed (`LeavesFreedStack`).
* the higher-half test of the clone compares `pml4_i << 39`, which is never sign
  extended, so the kernel half is copied and not shared (`KernelHalfShared`).
* `atkbd_get_char` returns old characters without blocking once 4096 have been
  typed, because one index wraps and the other does not (`NextTyped`).
* the last resort of `vfs_read`, meant to search every file system, stops at the
  first one and calls its `read` with the path in place of a handle
  (`LastResortSearchesAll`).

Seen on the way and part of the models, without a run of their own: the guard of
`proc_destroy` for the idle process tests a state no process is ever in;
`vmm_free_pagemap_clone` leaves the page of the `pagemap_t` allocated (the ghost
`lost` of `Vmm`); two readers of the keyboard can get the same character;
`vfs_mount` forgets the block of an entry of an unsupported type (`lost` of
`Vfs`); an interrupt line without a gate stops the machine, so the "Unhandled
IRQ" message cannot appear; a number at the end of `printk`'s buffer is written
behind it; `switch_to_user` faults, so `mi_startup` is not reached.

## Proofs

All theorems hold for every value of the constants that satisfies the named
assumptions (`SizesAssumption`, `BootsAssumption`; `ArenaAssumption`; `VmmAssumption`;
`ProcAssumption`; `KbdAssumption`; `VfsAssumption`, `ArchiveAssumption`; `ConsoleAssumption`,
`PrintAssumption`; `BootAssumption`), which TLC evaluates on the instances.

*PmmProofs.*  The invariant adds to `TypeOK` and `FreeExact` that the bitmap's
clear bits are exactly the unheld, unwithheld RAM pages and that the counters
are the cardinalities of those sets; the induction step for the counters needs
that the page taken was clear and the page given was set, which is why
`free_page`'s checks matter.  `OwnedSafe` then follows from the two contracts:
a page whose whole range lies in an allocatable entry cannot touch the image.
`PoolRefinement` maps `free` to the clear bits and `held` to `owned`.

*HeapProofs.*  None of the heap's properties is inductive alone: that a freed
block may be inserted needs disjointness, disjointness needs the size words, and
`NoLeak` needs that a split's two parts are the block.  `HeapInv` states the
merged list, byte-disjointness of list and live blocks, that together they are
the arena, and that only a wrapped size leads to an overrun.  Lemmas describe
`Carve` and `Release` once (their bytes, order and alignment) and each action
cites them.  `Reclaimed` and `RefusedOnlyWhenFull` follow from coverage and
full merging: a run of free bytes is inside one block of the list.

*VmmProofs.*  The six properties of `Vmm` have one inductive invariant, `Inv`;
none of them is inductive without the others.  At its centre is `Ledger`
(`Books`): every page has exactly one use, free, elsewhere (image, client,
`pagemap_t`) or one place of one pagemap, second names aside.  That a table has
one place is what makes a write local: `Edit` is any step that rewrites one entry
of one table, with a bare table or page behind it, and `EditWalk` shows that it
changes the walk to one place of one pagemap and to no other.
`vmm_get_next_level` and `Clear` are edits, and `vmm_map_page` and `vmm_unmap_page`
cascades of them in which at most one table is empty (`PrunedBut`): the one just
made, which the next level fills, or the one just emptied, which the next level
frees.  `NewTop` and `DropTop` are the same for whole pagemaps: a free page becomes
a pml4, and a pagemap goes with all it keeps.  The other parts of `Inv` say that
uses outside the tables exclude each other (`Sorts`), that pagemaps share neither
pml4 nor `pagemap_t` (`Apart`), that only the kernel's has second names (`Second`,
`Early`: a freed clone must not give back a page it does not own), that walks find
what was asked for (`Exact`), and of a clone in the making that what it has so far
is as in the source (`Making`, `CopyOf`).  `ParentThere` in the clone's step is
where the order of the loops matters: the table an entry goes into is there,
because the loops come to it first.  When nothing is pending, `CopyOf` in both
directions is `CloneExact`.

`VmmAssumption` places the direct map (`HIGHER_HALF`, in units of 2^39 bytes) at
2^63 or above: Limine maps it into the upper half of the address space.  With
indices up to 511 the higher-half branches of `vmm_clone.c` are then dead, which
the theorems use and `vmm_kernel_half` shows.

*ProcProofs.*  `TableInv` carries `StackOwned` through every intermediate step
of the calls: it says what a suspended call guarantees about the slot it works
on and bounds `created` and `proc_count` by each other.  `RegularInv`, which
holds until the first destroy, adds the agreement of `current_proc`, the states
and the CPU, and the saved frame of every other process.

*KbdProofs.*  `ModifiersRight` needs to look ahead: `FollowInv` says of each
modifier that the last code on the wire that works it will bring it to where the
keys are, or that there is none and it is there (`OnItsWay`), unless a code of it
was swallowed; a new code of the modifier makes this true whatever was lost before,
and a dropped code of another one does not matter to it.  `NeverFullOne` and
`NextTypedOne` are for one reader (`Readers = {r}`), which is all the code is
meant for; their invariant relates the buffer's indices to what was put and got,
and says what the reader has taken when it is interrupted between the read of
the character and the advance of the index.

*VfsProofs.*  The mount list and the device list are chains through the heap, so
the invariant (`Inv`) first says what a chain is (`ListInv`), then who holds which
block (`HoldInv`), that nothing else is allocated (`LeakInv`), where a preempted
call may stand on the list (`PlaceInv`) and which calls exclude each other
(`AloneInv`).  `OwnedHolds` follows; it is the property that needs all of them at
once, since linking a block is safe only because nobody else links and because
the walk ended at the last entry.  The other two theorems need `SeekInv`, which
says what a walk has passed: every entry up to where it stands was looked at and
did not match, and the table that an access saw when it began is a prefix of the
table now.  `TableImplemented` maps the abstract table to the chain's entries: a
link appends, a removal takes out the first match (what `SeekInv` says of the
place), and every other step leaves the table alone.  `DerailsRight` adds
`DriverInv` (the three drivers stay registered) and `ArchiveAssumption` (an
archive with an end is walked to its end).

*ConsoleProofs.*  Each operation of `liminefb.c` has a lemma that says what it
makes of any console (`Ends`, `Backs`): settled, on the screen if it was, one
cursor if there was at most the old one.  They are about any column and line, as
the operations nest: `liminefb_newline` scrolls, which redraws the cursor, which
may be behind the last column.  The invariant is about screens of whole lines,
where the cursor's band stays a multiple of a line, and about other screens until
the first backspace; `TypeCorrect` holds on all of them.

`TerminalImplemented` is the refinement of `Terminal`.  Its invariant, `TextInv`,
says of a screen of whole lines that the bands of each cell that no cursor
reaches (`Body`, `Dry`) are inked exactly as one text asks (`Reads`), and that
the cells behind the cursor on its line and below it are empty:
`liminefb_putchar` only sets the lit pixels of a glyph, so a cell reads right only
if it was empty before.
`TodoInv` adds that what a writer has still to print are characters and not
blanks.  Every operation is characterised by what it does to the ink (`SameInk`
for the cursor, `UpInk` for the scroll, `Newlined`, `Erased`), and each step of a
writer that puts a character is then the terminal's step for it; all others leave
the text alone.  A screen that is not of whole lines maps to a constant text, as
in the run.

*BootProofs.*  `StopsRight` rests on `ProgressInv` (what is up is exactly what the
calls before `at` bring up) and `InterruptInv` (interrupts stay off until
`atkbd_clear_buffer`, by when every handler's parts are up).  `TraceCorrect` is
the loop invariant of the binary search (`SearchInv`): the symbols up to `l` do
not begin behind the address, those behind `r` do.

Type correctness of `Pmm`, `Heap` and `Proc` and the heap's `Reclaimed` are proved
and therefore no longer part of the runs.

**Only model-checked**: the liveness properties (`EveryProcessRuns`,
`EveryCharRead`, `CallsReturn`, `BootEnds`), which are out of the prover's reach;
`ReadsRight`, which needs to know what the recursive walk of `Tar` computes, and
`FormatsRight`, which needs it of the fold in `Format`: both would be induction
over data; and `NeverFull` and `NextTypedUntilWrap` for several readers.

## Not modelled, and what is left

Not modelled: `request.c` (data for the boot loader), the generator of `random.c`
(64-bit multiplications), the string library (its functions are equality and
assignment in the models), port I/O, the pixels inside a column, the TSS's
stacks, torn writes inside a step that the models keep whole.

What would come next is `HeapProc`: kmalloc and kfree cut into steps under
preemption and composed with the scheduler, and with it the other shared lists
that have no lock (the process table, the keyboard's indices and the mount list
under several callers), which the hazards name without a property.
