-------------------------------- MODULE MCHeap ------------------------------
(* An arena of five 16-byte units at address 16, size_t of 8 bits.         *)
EXTENDS Heap

(* One, two and three units, the whole arena and one byte too many; the    *)
(* last size that does not wrap, and one that does; 0 and 2 for kcalloc.   *)
MCSizes == {0, 2, 8, 9, 40, 72, 73, 232, 255}

(* NULL; before, inside (misaligned, and aligned) and behind the arena.    *)
MCStrayPtrs == {0, 8, 32, 40, 104}
=============================================================================
