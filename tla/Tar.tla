-------------------------------- MODULE Tar ---------------------------------
(***************************************************************************)
(* The walk over a ustar archive, sys/fs/tar/tar_parse.c and tar_octal.c.  *)
(*                                                                         *)
(* An archive is a function from the addresses of its blocks to what is    *)
(* there: a header, a block of some file's data, or zeros.  A character of *)
(* a number is its difference from '0'.                                    *)
(***************************************************************************)
EXTENDS Integers, FiniteSets, Sequences

CONSTANTS TAR_BLOCK_SIZE,  \* 512
          MAX_TAR_FILES    \* 64: entries of tar_files

ASSUME TarAssumption == /\ TAR_BLOCK_SIZE \in Nat \ {0}
                        /\ MAX_TAR_FILES \in Nat

NUL == -48

Header(name, size, typeflag) ==
  [kind |-> "header", name |-> name, size |-> size, typeflag |-> typeflag]

(* Block number at of the data of the archive's file number of. *)
Data(of, at) == [kind |-> "data", of |-> of, at |-> at]

Zeros == [kind |-> "zeros"]

-----------------------------------------------------------------------------
(* The digits up to a NUL or to the end of the field. *)
oct2bin(str) ==
  LET digits == {i \in DOMAIN str : \A j \in 1 .. i : str[j] # NUL}
      n[i \in 0 .. Len(str)] == IF i = 0 THEN 0 ELSE n[i - 1] * 8 + str[i]
  IN  n[Cardinality(digits)]

RoundUp(n) == LET m == n + TAR_BLOCK_SIZE - 1
              IN  m - (m % TAR_BLOCK_SIZE)

IsHeader(mem, ptr) == ptr \in DOMAIN mem /\ mem[ptr].kind = "header"

Skip(mem, ptr) == ptr + TAR_BLOCK_SIZE + RoundUp(oct2bin(mem[ptr].size))

(* Where ptr is at the n-th test of the loop's condition. *)
Visited(mem) ==
  LET ptr[n \in 0 .. Cardinality(DOMAIN mem)] ==
        IF n = 0 THEN 0
        ELSE LET p == ptr[n - 1] IN IF IsHeader(mem, p) THEN Skip(mem, p) ELSE p
  IN  ptr

Headers(mem) ==
  LET ptr == Visited(mem)
  IN  Cardinality({n \in DOMAIN ptr : IsHeader(mem, ptr[n])})

TarFile(mem, ptr) ==
  [name |-> mem[ptr].name,
   type |-> IF mem[ptr].typeflag = "5" THEN "TAR_DIR" ELSE "TAR_FILE",
   addr |-> ptr + TAR_BLOCK_SIZE, size |-> oct2bin(mem[ptr].size)]

(* Mutant: no test of tar_file_count. *)
tarfs_initMutant(mem) == [i \in 1 .. Headers(mem) |-> TarFile(mem, Visited(mem)[i - 1])]

(* Headers beyond the table's size are walked over and not recorded. *)
tarfs_init(mem) ==
  LET count == Headers(mem)
  IN  [i \in 1 .. (IF count < MAX_TAR_FILES THEN count ELSE MAX_TAR_FILES) |->
         TarFile(mem, Visited(mem)[i - 1])]

(* Nothing but a block of zeros ends the loop: without one it reads on     *)
(* into whatever lies behind the module.                                   *)
WalkEnds(mem) == LET last == Visited(mem)[Headers(mem)]
                 IN  last \in DOMAIN mem /\ mem[last] = Zeros

-----------------------------------------------------------------------------
(* The first entry with that name; 0 when there is none. *)
tarfs_find(files, name) ==
  IF \E i \in DOMAIN files : files[i].name = name
  THEN CHOOSE i \in DOMAIN files :
         /\ files[i].name = name
         /\ \A j \in 1 .. (i - 1) : files[j].name # name
  ELSE 0

(* What tarfs_read copies at an offset: bufsize is compared as an unsigned *)
(* number, so a negative one asks for everything.                          *)
Clamp(file, offset, bufsize) ==
  LET remaining == file.size - offset
  IN  IF bufsize < 0 \/ bufsize > remaining THEN remaining ELSE bufsize
=============================================================================
