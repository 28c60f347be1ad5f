-------------------------------- MODULE Heap --------------------------------
(***************************************************************************)
(* The kernel heap, sys/arch/x86_64/heap.c: a first-fit allocator over one *)
(* arena, with an address-ordered free list that merges neighbours.        *)
(*                                                                         *)
(* free_list is the list from free_list_head on, one [addr, size] record   *)
(* per heap_free_block_t.  live is the clients' side: the blocks handed    *)
(* out, each with the size word kfree will read back (a block's first word *)
(* while it is out) and the number of bytes its client asked for.  result  *)
(* is the last call's pointer, and the bytes it looked for when it was an  *)
(* allocation (0 when the call did not search the list).                   *)
(***************************************************************************)
EXTENDS Integers, SequencesExt

CONSTANTS KERNEL_HEAP_START,         \* address of the arena
          KERNEL_HEAP_INITIAL_SIZE,  \* its bytes
          SIZE_MOD,                  \* 2^64: size_t arithmetic wraps at it
          Sizes,                     \* the sizes clients ask for
          StrayPtrs                  \* pointers that were never handed out

VARIABLES phase, free_list, live, result

vars == <<phase, free_list, live, result>>

NULL == 0

HEAP_ALIGNMENT == 16
MIN_ALLOC_SIZE == 16   \* sizeof (heap_free_block_t)
HEADER == 8            \* sizeof (size_t)

ASSUME ArenaAssumption ==
  /\ KERNEL_HEAP_START \in Nat /\ KERNEL_HEAP_START % 16 = 0
  /\ KERNEL_HEAP_START > NULL
  /\ KERNEL_HEAP_INITIAL_SIZE \in Nat /\ KERNEL_HEAP_INITIAL_SIZE % 16 = 0
  /\ KERNEL_HEAP_INITIAL_SIZE > 0
  /\ SIZE_MOD \in Nat /\ SIZE_MOD % 16 = 0
  /\ KERNEL_HEAP_START + KERNEL_HEAP_INITIAL_SIZE < SIZE_MOD
  /\ Sizes \subseteq 0 .. SIZE_MOD - 1
  /\ StrayPtrs \subseteq Nat

ArenaEnd == KERNEL_HEAP_START + KERNEL_HEAP_INITIAL_SIZE

Block == [addr : Nat, size : Nat \ {0}]

End(b) == b.addr + b.size

-----------------------------------------------------------------------------
(* heap_init                                                               *)

(* 256 times allocate_page and vmm_map_page, either of which may fail. *)
heap_init(pages_ok) ==
  \/ /\ phase = "uninit" /\ pages_ok
     /\ phase' = "ready"
     /\ free_list' = <<[addr |-> KERNEL_HEAP_START,
                        size |-> KERNEL_HEAP_INITIAL_SIZE]>>
     /\ UNCHANGED <<live, result>>
  \/ /\ phase = "uninit" /\ ~pages_ok
     /\ phase' = "panic"
     /\ UNCHANGED <<free_list, live, result>>
  \/ /\ phase = "ready"
     /\ UNCHANGED vars

-----------------------------------------------------------------------------
(* kmalloc                                                                 *)

ALIGN_UP_HEAP(x) == LET y == (x + HEAP_ALIGNMENT - 1) % SIZE_MOD
                    IN  y - (y % HEAP_ALIGNMENT)

TotalSize(size) == LET t == ALIGN_UP_HEAP((size + HEADER) % SIZE_MOD)
                   IN  IF t < MIN_ALLOC_SIZE THEN MIN_ALLOC_SIZE ELSE t

(* Mutant: curr->size > total_size. *)
LargeEnoughMutant(b, t) == b.size > t

LargeEnough(b, t) == b.size >= t

(* The first block of the list that is large enough. *)
Fits(l, t, i) == /\ LargeEnough(l[i], t)
                 /\ \A j \in 1 .. (i - 1) : ~LargeEnough(l[j], t)

Splits(l, t, i) == l[i].size - t >= MIN_ALLOC_SIZE

(* Mutant: the split-off remainder is not linked into the list. *)
CarveMutant(l, t, i) == RemoveAt(l, i)

(* The list without the t bytes taken from the front of its i-th block. *)
Carve(l, t, i) ==
  IF Splits(l, t, i)
  THEN [l EXCEPT ![i] = [addr |-> l[i].addr + t, size |-> l[i].size - t]]
  ELSE RemoveAt(l, i)

(* Mutant: curr->size = total_size is missing. *)
CarvedMutant(l, t, i, size) ==
  [addr |-> l[i].addr, size |-> l[i].size, req |-> size]

(* The block that goes out, and the pointer its client gets. *)
Carved(l, t, i, size) ==
  [addr |-> l[i].addr, size |-> IF Splits(l, t, i) THEN t ELSE l[i].size,
   req |-> size]

UserPtr(b) == b.addr + HEADER

Usable(b) == b.size - HEADER

NoFit(l, t) == \A i \in DOMAIN l : ~LargeEnough(l[i], t)

(* kmalloc (total) on behalf of a client that needs req bytes and whose    *)
(* caller then touches the first written bytes of the block.  Bytes        *)
(* written past the block's end leave the heap undefined.                  *)
Allocate(total, req, written) ==
  \/ /\ total = 0
     /\ result' = [ptr |-> NULL, need |-> 0]
     /\ UNCHANGED <<phase, free_list, live>>
  \/ /\ total # 0 /\ NoFit(free_list, TotalSize(total))
     /\ result' = [ptr |-> NULL, need |-> TotalSize(total)]
     /\ UNCHANGED <<phase, free_list, live>>
  \/ /\ total # 0
     /\ \E i \in DOMAIN free_list :
          LET t == TotalSize(total)
              b == Carved(free_list, t, i, req)
          IN  /\ Fits(free_list, t, i)
              /\ free_list' = Carve(free_list, t, i)
              /\ live' = live \cup {b}
              /\ result' = [ptr |-> UserPtr(b), need |-> t]
              /\ phase' = IF written > Usable(b) THEN "overrun" ELSE phase

kmalloc(size) == phase = "ready" /\ Allocate(size, size, 0)

-----------------------------------------------------------------------------
(* kfree                                                                   *)

(* Where the walk over the list stops: before the first block at or above  *)
(* the freed one.                                                          *)
InsertionPoint(l, a, k) == /\ \A j \in 1 .. (k - 1) : l[j].addr < a
                           /\ k <= Len(l) => l[k].addr >= a

(* The k-th block absorbs its successor when they touch. *)
Coalesce(l, k) ==
  IF k \in 1 .. (Len(l) - 1) /\ End(l[k]) = l[k + 1].addr
  THEN RemoveAt([l EXCEPT ![k] = [addr |-> l[k].addr,
                                  size |-> l[k].size + l[k + 1].size]],
                k + 1)
  ELSE l

(* Mutant: no merge with the previous block. *)
ReleaseMutant(l, k, b) ==
  Coalesce(InsertAt(l, k, [addr |-> b.addr, size |-> b.size]), k)

(* Insert, then merge with the next block, then with the previous one. *)
Release(l, k, b) ==
  Coalesce(Coalesce(InsertAt(l, k, [addr |-> b.addr, size |-> b.size]), k),
           k - 1)

(* The sanity check on a pointer whose size word reads size. *)
Invalid(ptr, size) == LET block_start == ptr - HEADER
                      IN  \/ block_start < KERNEL_HEAP_START
                          \/ block_start >= ArenaEnd
                          \/ size < MIN_ALLOC_SIZE
                          \/ block_start % HEAP_ALIGNMENT # 0

(* kfree of the pointer to a live block. *)
kfree(b) ==
  /\ phase = "ready"
  /\ result' = [ptr |-> NULL, need |-> 0]
  /\ live' = live \ {b}
  /\ IF Invalid(UserPtr(b), b.size)
     THEN phase' = "panic" /\ UNCHANGED free_list
     ELSE /\ \E k \in 1 .. (Len(free_list) + 1) :
               /\ InsertionPoint(free_list, b.addr, k)
               /\ free_list' = Release(free_list, k, b)
          /\ UNCHANGED phase

(* kfree of NULL, or of a pointer that no block has and that the check     *)
(* catches; size is the word found in front of it.  A pointer to the       *)
(* inside of a block, preceded by a word that looks like a size, cannot be *)
(* told from a good one and is left out.                                   *)
kfree_stray(ptr, size) ==
  /\ phase = "ready"
  /\ \A b \in live : ptr # UserPtr(b)
  /\ \/ ptr = NULL /\ UNCHANGED phase
     \/ ptr # NULL /\ Invalid(ptr, size) /\ phase' = "panic"
  /\ result' = [ptr |-> NULL, need |-> 0]
  /\ UNCHANGED <<free_list, live>>

-----------------------------------------------------------------------------
(* kcalloc, krealloc                                                       *)

CallocTotal(num, size) == (num * size) % SIZE_MOD

(* Mutant: no overflow check. *)
CallocOverflowsMutant(num, size) == FALSE

CallocOverflows(num, size) ==
  size # 0 /\ CallocTotal(num, size) \div size # num

kcalloc(num, size) ==
  /\ phase = "ready"
  /\ \/ /\ CallocOverflows(num, size)
        /\ result' = [ptr |-> NULL, need |-> 0]
        /\ UNCHANGED <<phase, free_list, live>>
     \/ /\ ~CallocOverflows(num, size)
        /\ LET total == CallocTotal(num, size)
           IN  Allocate(total, num * size, total)

(* krealloc of a live block b: NULL pointers go to kmalloc. *)
krealloc(b, size) ==
  \/ /\ size = 0
     /\ kfree(b)
  \/ /\ phase = "ready"
     /\ 0 < size /\ size <= Usable(b)
     /\ live' = (live \ {b}) \cup {[b EXCEPT !.req = size]}
     /\ result' = [ptr |-> UserPtr(b), need |-> 0]
     /\ UNCHANGED <<phase, free_list>>
  \/ /\ phase = "ready"
     /\ size > Usable(b)
     /\ NoFit(free_list, TotalSize(size))
     /\ result' = [ptr |-> NULL, need |-> TotalSize(size)]
     /\ UNCHANGED <<phase, free_list, live>>
  \/ /\ phase = "ready"
     /\ size > Usable(b)
     /\ \E i \in DOMAIN free_list :
          LET t == TotalSize(size)
              n == Carved(free_list, t, i, size)
              l == Carve(free_list, t, i)
          IN  /\ Fits(free_list, t, i)
              /\ \E k \in 1 .. (Len(l) + 1) :
                   /\ InsertionPoint(l, b.addr, k)
                   /\ free_list' = Release(l, k, b)
              /\ live' = (live \ {b}) \cup {n}
              /\ result' = [ptr |-> UserPtr(n), need |-> t]
              /\ phase' = IF Usable(b) > Usable(n) THEN "overrun" ELSE phase

-----------------------------------------------------------------------------
(* panic halts the machine; after an overrun nothing is known. *)
Halted == phase \in {"panic", "overrun"} /\ UNCHANGED vars

Init == /\ phase = "uninit"
        /\ free_list = <<>>
        /\ live = {}
        /\ result = [ptr |-> NULL, need |-> 0]

Next == \/ \E ok \in BOOLEAN : heap_init(ok)
        \/ \E size \in Sizes : kmalloc(size)
        \/ \E num, size \in Sizes : kcalloc(num, size)
        \/ \E b \in live : kfree(b)
        \/ \E b \in live, size \in Sizes : krealloc(b, size)
        \/ \E p \in StrayPtrs, size \in {0, MIN_ALLOC_SIZE} : kfree_stray(p, size)
        \/ Halted

Spec == Init /\ [][Next]_vars

-----------------------------------------------------------------------------
(* Properties.                                                             *)

(* The list holds blocks with a size, never a header split off for an      *)
(* empty remainder by kmalloc, and results are addresses.                  *)
TypeOK == /\ phase \in {"uninit", "ready", "panic", "overrun"}
          /\ free_list \in Seq(Block)
          /\ live \subseteq [addr : Nat, size : Nat \ {0}, req : Nat]
          /\ result \in [ptr : Nat, need : Nat]

InArena(b) == /\ KERNEL_HEAP_START <= b.addr /\ End(b) <= ArenaEnd
              /\ b.size >= MIN_ALLOC_SIZE
              /\ b.addr % HEAP_ALIGNMENT = 0 /\ b.size % HEAP_ALIGNMENT = 0

(* The free list is in address order and fully merged: between two of its  *)
(* blocks there is always a live one, so no sequence of frees fragments    *)
(* the arena for good.                                                     *)
FreeListMerged ==
  /\ \A i \in DOMAIN free_list : InArena(free_list[i])
  /\ \A i, j \in DOMAIN free_list : i < j => End(free_list[i]) < free_list[j].addr

Apart(b, c) == End(b) <= c.addr \/ End(c) <= b.addr

(* Live blocks lie in the arena, apart from each other and from every free *)
(* block, and kfree's sanity check accepts each of them.                   *)
LiveApart ==
  /\ \A b \in live : InArena(b) /\ ~Invalid(UserPtr(b), b.size)
  /\ \A b, c \in live : b # c => Apart(b, c)
  /\ \A b \in live : \A i \in DOMAIN free_list : Apart(b, free_list[i])

Covers(b, x) == b.addr <= x /\ x < End(b)

(* No byte of the arena is ever lost: each is in a live or a free block.   *)
NoLeak ==
  phase \in {"ready", "overrun"} =>
    \A x \in KERNEL_HEAP_START .. (ArenaEnd - 1) :
      \/ \E b \in live : Covers(b, x)
      \/ \E i \in DOMAIN free_list : Covers(free_list[i], x)

(* Once everything has been freed, the heap is one block again, whatever   *)
(* the order of the calls was.                                             *)
Reclaimed ==
  phase = "ready" /\ live = {} =>
    free_list = <<[addr |-> KERNEL_HEAP_START,
                   size |-> KERNEL_HEAP_INITIAL_SIZE]>>

(* The sizes for which size + sizeof (size_t) + HEAP_ALIGNMENT - 1 wraps.  *)
Wraps(n) == SIZE_MOD - HEADER - HEAP_ALIGNMENT < n /\ n < SIZE_MOD

(* A block is as large as its client asked for, and kcalloc and krealloc   *)
(* write only inside it, unless the size was in the last 23 bytes of       *)
(* size_t's range, where kmalloc's rounding wraps.                         *)
RoomUnlessWrap ==
  /\ \A b \in live : Usable(b) >= b.req \/ Wraps(b.req)
  /\ phase = "overrun" => \E b \in live : Wraps(b.req)

(* An allocation is refused only when no run of free bytes is long enough, *)
(* wherever the live blocks lie: merging leaves no split run behind.       *)
RefusedOnlyWhenFull ==
  result.ptr = NULL /\ result.need > 0 =>
    \A a \in KERNEL_HEAP_START .. (ArenaEnd - result.need) :
      \E b \in live : ~Apart(b, [addr |-> a, size |-> result.need])
=============================================================================
