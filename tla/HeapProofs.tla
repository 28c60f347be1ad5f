----------------------------- MODULE HeapProofs -----------------------------
(***************************************************************************)
(* Proofs about the kernel heap, for every arena, every width of size_t    *)
(* and every set of request sizes that satisfy Heap's assumptions.         *)
(***************************************************************************)
EXTENDS Heap, SequenceTheorems, TLAPS

-----------------------------------------------------------------------------
(* Natural numbers                                                        *)

(* Quotient and remainder make up the dividend. *)
LEMMA DivMod ==
  ASSUME NEW x \in Int, NEW d \in Int, d > 0
  PROVE  x = d * (x \div d) + (x % d)
  BY Z3T(30)

(* Sums and differences of multiples of 16 are multiples of 16. *)
LEMMA Mod16 ==
  ASSUME NEW a \in Nat, NEW b \in Nat, a % 16 = 0, b % 16 = 0
  PROVE  (a + b) % 16 = 0 /\ (a - b) % 16 = 0
  OBVIOUS

-----------------------------------------------------------------------------
(* Sequences: what removing and inserting an element give.                 *)

(* A sequence without its k-th element. *)
LEMMA RemoveAtIs ==
  ASSUME NEW S, NEW s \in Seq(S), NEW k \in 1 .. Len(s)
  PROVE  /\ RemoveAt(s, k) \in Seq(S)
         /\ Len(RemoveAt(s, k)) = Len(s) - 1
         /\ \A j \in 1 .. (Len(s) - 1) :
              RemoveAt(s, k)[j] = IF j < k THEN s[j] ELSE s[j + 1]
<1> DEFINE a == SubSeq(s, 1, k - 1)
           b == SubSeq(s, k + 1, Len(s))
<1>1. /\ a \in Seq(S) /\ Len(a) = k - 1 /\ \A j \in 1 .. k - 1 : a[j] = s[j]
  BY SubSeqProperties
<1>2. /\ b \in Seq(S) /\ Len(b) = Len(s) - k
      /\ \A j \in 1 .. Len(s) - k : b[j] = s[k + j]
  BY SubSeqProperties
<1> HIDE DEF a, b
<1>3. /\ a \o b \in Seq(S) /\ Len(a \o b) = Len(a) + Len(b)
      /\ \A j \in 1 .. Len(a) + Len(b) :
           (a \o b)[j] = IF j <= Len(a) THEN a[j] ELSE b[j - Len(a)]
  BY <1>1, <1>2, ConcatProperties
<1>4. RemoveAt(s, k) = a \o b
  BY DEF RemoveAt, a, b
<1>5. ASSUME NEW j \in 1 .. (Len(s) - 1)
      PROVE  RemoveAt(s, k)[j] = IF j < k THEN s[j] ELSE s[j + 1]
  <2>1. CASE j < k
    BY <1>1, <1>2, <1>3, <1>4, <2>1
  <2>2. CASE j >= k
    <3>1. j - (k - 1) \in 1 .. Len(s) - k /\ j \in 1 .. Len(a) + Len(b)
          /\ ~(j <= Len(a)) /\ k + (j - (k - 1)) = j + 1
      BY <1>1, <1>2, <2>2
    <3> QED BY <1>1, <1>2, <1>3, <1>4, <2>2, <3>1
  <2> QED BY <2>1, <2>2
<1>6. RemoveAt(s, k) \in Seq(S) /\ Len(RemoveAt(s, k)) = Len(s) - 1
  <2>1. Len(s) \in Nat /\ Len(a) + Len(b) = Len(s) - 1
    BY <1>1, <1>2
  <2> QED BY <1>3, <1>4, <2>1
<1> QED BY <1>5, <1>6, Zenon

(* m has the elements of s other than the k-th, in their order: its        *)
(* element j is element f[j] of s.                                         *)
Keeps(f, s, k, m) ==
  /\ f \in [1 .. Len(m) -> 1 .. Len(s)]
  /\ \A j \in 1 .. Len(m) : f[j] # k /\ m[j] = s[f[j]]
  /\ \A i, j \in 1 .. Len(m) : i < j => f[i] < f[j]
  /\ \A p \in 1 .. Len(s) : p # k => \E j \in 1 .. Len(m) : f[j] = p

(* Removing an element keeps the others. *)
LEMMA RemoveAtMap ==
  ASSUME NEW S, NEW s \in Seq(S), NEW k \in 1 .. Len(s)
  PROVE  \E f : Keeps(f, s, k, RemoveAt(s, k))
<1> DEFINE n == Len(s)
           f == [j \in 1 .. (n - 1) |-> IF j < k THEN j ELSE j + 1]
<1>1. n \in Nat
  OBVIOUS
<1>2. f \in [1 .. (n - 1) -> 1 .. n]
  BY <1>1
<1>3. \A j \in 1 .. (n - 1) : f[j] # k /\ RemoveAt(s, k)[j] = s[f[j]]
  BY <1>1, RemoveAtIs
<1>4. \A i, j \in 1 .. (n - 1) : i < j => f[i] < f[j]
  BY <1>1
<1>5. ASSUME NEW p \in 1 .. n, p # k
      PROVE  \E j \in 1 .. (n - 1) : f[j] = p
  <2>1. CASE p < k
    <3>1. p \in 1 .. (n - 1) /\ f[p] = p
      BY <1>1, <2>1
    <3> QED BY <3>1
  <2>2. CASE p > k
    <3>1. p - 1 \in 1 .. (n - 1) /\ f[p - 1] = p
      BY <1>1, <2>2
    <3> QED BY <3>1
  <2> QED BY <1>1, <1>5, <2>1, <2>2
<1>6. Len(RemoveAt(s, k)) = n - 1
  BY RemoveAtIs
<1> HIDE DEF f, n
<1>7. Keeps(f, s, k, RemoveAt(s, k))
  BY <1>2, <1>3, <1>4, <1>5, <1>6 DEF Keeps, n
<1> QED BY <1>7

(* A sequence with e in front of its k-th element. *)
LEMMA InsertAtIs ==
  ASSUME NEW S, NEW s \in Seq(S), NEW e \in S, NEW k \in 1 .. (Len(s) + 1)
  PROVE  /\ InsertAt(s, k, e) \in Seq(S)
         /\ Len(InsertAt(s, k, e)) = Len(s) + 1
         /\ \A j \in 1 .. (Len(s) + 1) :
              InsertAt(s, k, e)[j] = IF j < k THEN s[j]
                                     ELSE IF j = k THEN e ELSE s[j - 1]
<1> DEFINE a == SubSeq(s, 1, k - 1)
           b == SubSeq(s, k, Len(s))
           c == a \o <<e>>
<1>1. /\ a \in Seq(S) /\ Len(a) = k - 1 /\ \A j \in 1 .. k - 1 : a[j] = s[j]
  BY SubSeqProperties
<1>2. /\ b \in Seq(S) /\ Len(b) = Len(s) - k + 1
      /\ \A j \in 1 .. Len(s) - k + 1 : b[j] = s[k + j - 1]
  BY SubSeqProperties
<1> HIDE DEF a, b
<1>3. /\ c \in Seq(S) /\ Len(c) = k
      /\ \A j \in 1 .. k : c[j] = IF j < k THEN s[j] ELSE e
  <2>1. <<e>> \in Seq(S) /\ Len(<<e>>) = 1 /\ <<e>>[1] = e
    OBVIOUS
  <2>2. /\ c \in Seq(S) /\ Len(c) = k
        /\ \A j \in 1 .. k : c[j] = IF j <= Len(a) THEN a[j]
                                    ELSE <<e>>[j - Len(a)]
    BY <1>1, <2>1, ConcatProperties
  <2>3. ASSUME NEW j \in 1 .. k PROVE c[j] = IF j < k THEN s[j] ELSE e
    <3>1. CASE j < k
      BY <1>1, <2>2, <3>1
    <3>2. CASE j = k
      <4>1. ~(j <= Len(a)) /\ j - Len(a) = 1
        BY <1>1, <3>2
      <4> QED BY <2>1, <2>2, <3>2, <4>1
    <3>3. j < k \/ j = k
      OBVIOUS
    <3> QED BY <3>1, <3>2, <3>3, Zenon
  <2> QED BY <2>2, <2>3
<1> HIDE DEF c
<1>4. /\ c \o b \in Seq(S) /\ Len(c \o b) = Len(c) + Len(b)
      /\ \A j \in 1 .. Len(c) + Len(b) :
           (c \o b)[j] = IF j <= Len(c) THEN c[j] ELSE b[j - Len(c)]
  BY <1>2, <1>3, ConcatProperties
<1>5. InsertAt(s, k, e) = c \o b
  BY DEF InsertAt, a, b, c
<1>6. ASSUME NEW j \in 1 .. (Len(s) + 1)
      PROVE  InsertAt(s, k, e)[j] = IF j < k THEN s[j]
                                    ELSE IF j = k THEN e ELSE s[j - 1]
  <2>1. CASE j <= k
    BY <1>2, <1>3, <1>4, <1>5, <2>1
  <2>2. CASE j > k
    <3>1. j - k \in 1 .. Len(s) - k + 1 /\ j \in 1 .. Len(c) + Len(b)
          /\ ~(j <= Len(c)) /\ k + (j - k) - 1 = j - 1
      BY <1>2, <1>3, <2>2
    <3> QED BY <1>2, <1>3, <1>4, <1>5, <2>2, <3>1
  <2> QED BY <2>1, <2>2
<1>7. InsertAt(s, k, e) \in Seq(S) /\ Len(InsertAt(s, k, e)) = Len(s) + 1
  BY <1>2, <1>3, <1>4, <1>5
<1> QED BY <1>6, <1>7, Zenon

-----------------------------------------------------------------------------
(* Blocks and the bytes they cover.                                        *)

ArenaBlock(b) == b.addr \in Nat /\ b.size \in Nat /\ InArena(b)

Bytes(b) == {x \in Nat : Covers(b, x)}

FreeBytes(l) == {x \in Nat : \E i \in 1 .. Len(l) : Covers(l[i], x)}

(* The blocks of a list follow each other without overlap ... *)
Ordered(l) == /\ l \in Seq(Block)
              /\ \A i \in 1 .. Len(l) : ArenaBlock(l[i])
              /\ \A i, j \in 1 .. Len(l) : i < j => End(l[i]) <= l[j].addr

(* ... and the i-th does not touch its successor. *)
Gap(l, i) == i \in 1 .. (Len(l) - 1) => End(l[i]) < l[i + 1].addr

Merged(l) == Ordered(l) /\ \A i \in 1 .. Len(l) : Gap(l, i)

(* Blocks with no byte in common are apart, and the reverse. *)
LEMMA ApartBytes ==
  ASSUME NEW b, NEW c, ArenaBlock(b), ArenaBlock(c)
  PROVE  Apart(b, c) <=> Bytes(b) \cap Bytes(c) = {}
<1> USE DEF ArenaBlock, InArena, MIN_ALLOC_SIZE, End
<1>1. ASSUME Apart(b, c) PROVE Bytes(b) \cap Bytes(c) = {}
  BY <1>1 DEF Apart, Bytes, Covers
<1>2. ASSUME ~Apart(b, c) PROVE Bytes(b) \cap Bytes(c) # {}
  <2>1. CASE b.addr <= c.addr
    <3>1. c.addr \in Bytes(b) \cap Bytes(c)
      BY <1>2, <2>1 DEF Apart, Bytes, Covers
    <3> QED BY <3>1
  <2>2. CASE c.addr <= b.addr
    <3>1. b.addr \in Bytes(b) \cap Bytes(c)
      BY <1>2, <2>2 DEF Apart, Bytes, Covers
    <3> QED BY <3>1
  <2> QED BY <2>1, <2>2
<1> QED BY <1>1, <1>2

(* A merged list is what FreeListMerged asks for, and the reverse. *)
LEMMA MergedIs ==
  ASSUME NEW l \in Seq(Block)
  PROVE  Merged(l) <=> /\ \A i \in DOMAIN l : InArena(l[i])
                       /\ \A i, j \in DOMAIN l : i < j => End(l[i]) < l[j].addr
<1>1. DOMAIN l = 1 .. Len(l) /\ Len(l) \in Nat
  OBVIOUS
<1>2. \A i \in 1 .. Len(l) : /\ l[i].addr \in Nat /\ l[i].size \in Nat
                             /\ End(l[i]) \in Nat /\ l[i].addr < End(l[i])
  <2>1. \A i \in 1 .. Len(l) : l[i] \in Block
    BY ElementOfSeq
  <2>2. \A b \in Block : b.addr \in Nat /\ b.size \in Nat /\ b.size # 0
    BY DEF Block
  <2> QED BY <2>1, <2>2 DEF End
<1>3. ASSUME Merged(l)
      PROVE  /\ \A i \in DOMAIN l : InArena(l[i])
             /\ \A i, j \in DOMAIN l : i < j => End(l[i]) < l[j].addr
  <2>1. ASSUME NEW i \in 1 .. Len(l), NEW j \in 1 .. Len(l), i < j
        PROVE  End(l[i]) < l[j].addr
    <3>1. End(l[i]) < l[i + 1].addr /\ i + 1 \in 1 .. Len(l)
      BY <1>1, <1>3, <2>1 DEF Merged, Gap
    <3>2. CASE j = i + 1
      BY <3>1, <3>2
    <3>3. CASE j > i + 1
      <4>1. End(l[i + 1]) <= l[j].addr
        BY <1>3, <3>1, <3>3 DEF Merged, Ordered
      <4> QED BY <1>2, <3>1, <4>1
    <3> QED BY <1>1, <2>1, <3>2, <3>3
  <2> QED BY <1>1, <1>3, <2>1 DEF Merged, Ordered, ArenaBlock
<1>4. ASSUME /\ \A i \in DOMAIN l : InArena(l[i])
             /\ \A i, j \in DOMAIN l : i < j => End(l[i]) < l[j].addr
      PROVE  Merged(l)
  <2>1. Ordered(l)
    <3>1. \A i \in 1 .. Len(l) : ArenaBlock(l[i])
      BY <1>1, <1>2, <1>4 DEF ArenaBlock
    <3>2. ASSUME NEW i \in 1 .. Len(l), NEW j \in 1 .. Len(l), i < j
          PROVE  End(l[i]) <= l[j].addr
      <4>1. End(l[i]) < l[j].addr
        BY <1>1, <1>4, <3>2
      <4> QED BY <1>2, <4>1
    <3> QED BY <3>1, <3>2 DEF Ordered
  <2>2. ASSUME NEW i \in 1 .. Len(l) PROVE Gap(l, i)
    BY <1>1, <1>4 DEF Gap
  <2> QED BY <2>1, <2>2 DEF Merged
<1> QED BY <1>3, <1>4

-----------------------------------------------------------------------------
(* kmalloc's edit of the list.                                             *)

(* The facts about the elements of an ordered list that SMT needs. *)
LEMMA OrderedBlocks ==
  ASSUME NEW l, Ordered(l)
  PROVE  /\ Len(l) \in Nat /\ DOMAIN l = 1 .. Len(l)
         /\ \A i \in 1 .. Len(l) :
              /\ l[i] \in Block
              /\ l[i] = [addr |-> l[i].addr, size |-> l[i].size]
              /\ l[i].addr \in Nat /\ l[i].size \in Nat /\ l[i].size >= 16
              /\ l[i].addr % 16 = 0 /\ l[i].size % 16 = 0
              /\ KERNEL_HEAP_START <= l[i].addr
              /\ l[i].addr + l[i].size <= ArenaEnd
              /\ End(l[i]) = l[i].addr + l[i].size
<1>1. l \in Seq(Block)
  BY DEF Ordered
<1>2. \A i \in 1 .. Len(l) : l[i] \in Block
  BY <1>1, ElementOfSeq
<1>3. \A b \in Block : b = [addr |-> b.addr, size |-> b.size]
  BY DEF Block
<1>4. \A i \in 1 .. Len(l) : ArenaBlock(l[i])
  BY DEF Ordered
<1>5. ASSUME NEW i \in 1 .. Len(l)
      PROVE  /\ l[i].addr \in Nat /\ l[i].size \in Nat /\ l[i].size >= 16
             /\ l[i].addr % 16 = 0 /\ l[i].size % 16 = 0
             /\ KERNEL_HEAP_START <= l[i].addr
             /\ l[i].addr + l[i].size <= ArenaEnd
             /\ End(l[i]) = l[i].addr + l[i].size
  BY <1>4 DEF ArenaBlock, InArena, MIN_ALLOC_SIZE, HEAP_ALIGNMENT, End
<1> QED BY <1>1, <1>2, <1>3, <1>5

(* Carving t bytes out of a block that has them moves exactly those bytes  *)
(* (or the whole block, when the rest is too small) out of the free ones,  *)
(* and leaves the list merged.                                             *)
LEMMA CarveStep ==
  ASSUME NEW l, Merged(l), NEW t \in Nat, t % 16 = 0, t >= 16,
         NEW i \in 1 .. Len(l), l[i].size >= t, NEW r
  PROVE  /\ Merged(Carve(l, t, i))
         /\ ArenaBlock(Carved(l, t, i, r))
         /\ Carved(l, t, i, r).size >= t
         /\ Bytes(Carved(l, t, i, r)) \subseteq FreeBytes(l)
         /\ FreeBytes(Carve(l, t, i))
              = FreeBytes(l) \ Bytes(Carved(l, t, i, r))
<1> DEFINE m == Carve(l, t, i)
           b == Carved(l, t, i, r)
<1>0. Ordered(l)
  BY DEF Merged
<1>1. /\ Len(l) \in Nat /\ DOMAIN l = 1 .. Len(l)
      /\ \A j \in 1 .. Len(l) :
           /\ l[j] \in Block
           /\ l[j] = [addr |-> l[j].addr, size |-> l[j].size]
           /\ l[j].addr \in Nat /\ l[j].size \in Nat /\ l[j].size >= 16
           /\ l[j].addr % 16 = 0 /\ l[j].size % 16 = 0
           /\ KERNEL_HEAP_START <= l[j].addr
           /\ l[j].addr + l[j].size <= ArenaEnd
           /\ End(l[j]) = l[j].addr + l[j].size
  BY <1>0, OrderedBlocks
<1>2. /\ KERNEL_HEAP_START \in Nat /\ ArenaEnd \in Nat
  BY ArenaAssumption DEF ArenaEnd
<1>3. \A j, k \in 1 .. Len(l) : j < k => l[j].addr + l[j].size < l[k].addr
  <2>1. l \in Seq(Block)
    BY <1>0 DEF Ordered
  <2>2. \A j, k \in DOMAIN l : j < k => End(l[j]) < l[k].addr
    BY <2>1, MergedIs
  <2> QED BY <1>1, <2>2
<1>4. /\ b.addr = l[i].addr /\ b.size \in Nat /\ b.size >= t
      /\ b.size = IF Splits(l, t, i) THEN t ELSE l[i].size
  BY <1>1 DEF Carved
<1>5. /\ b.size <= l[i].size /\ b.size % 16 = 0 /\ b.size >= 16
  BY <1>1, <1>4 DEF Splits, MIN_ALLOC_SIZE
<1> HIDE DEF b
<1>6. ArenaBlock(b)
  BY <1>1, <1>2, <1>4, <1>5
     DEF ArenaBlock, InArena, MIN_ALLOC_SIZE, HEAP_ALIGNMENT, End
<1>7. Bytes(b) \subseteq FreeBytes(l)
  <2>1. ASSUME NEW x \in Bytes(b) PROVE x \in FreeBytes(l)
    <3>1. x \in Nat /\ b.addr <= x /\ x < b.addr + b.size
      BY <2>1 DEF Bytes, Covers, End
    <3>2. Covers(l[i], x)
      BY <1>1, <1>4, <1>5, <3>1 DEF Covers
    <3> QED BY <3>1, <3>2 DEF FreeBytes
  <2> QED BY <2>1
<1>8. CASE Splits(l, t, i)
  <2> DEFINE c == [addr |-> l[i].addr + t, size |-> l[i].size - t]
  <2>1. l[i].size - t >= 16 /\ b.size = t
    BY <1>4, <1>8 DEF Splits, MIN_ALLOC_SIZE
  <2>0. /\ l[i].addr \in Nat /\ l[i].size \in Nat
        /\ l[i].addr % 16 = 0 /\ l[i].size % 16 = 0
        /\ KERNEL_HEAP_START <= l[i].addr
        /\ l[i].addr + l[i].size <= ArenaEnd
    BY <1>1
  <2>2. /\ c \in Block /\ c.addr = l[i].addr + t /\ c.size = l[i].size - t
        /\ (l[i].addr + t) % 16 = 0 /\ (l[i].size - t) % 16 = 0
    <3>1. l[i].addr + t \in Nat /\ l[i].size - t \in Nat \ {0}
      BY <2>0, <2>1
    <3>2. (l[i].addr + t) % 16 = 0 /\ (l[i].size - t) % 16 = 0
      BY <2>0, Mod16
    <3> QED BY <3>1, <3>2 DEF Block
  <2>3. m = [l EXCEPT ![i] = c]
    BY <1>8 DEF Carve
  <2> HIDE DEF c, m
  <2>4. /\ m \in Seq(Block) /\ Len(m) = Len(l)
        /\ \A j \in 1 .. Len(l) : m[j] = IF j = i THEN c ELSE l[j]
    <3>1. l \in Seq(Block)
      BY <1>0 DEF Ordered
    <3> QED BY <1>1, <2>2, <2>3, <3>1, ExceptSeq
  <2>5. \A j \in 1 .. Len(m) : ArenaBlock(m[j])
    <3>1. ArenaBlock(c)
      BY <1>1, <1>2, <2>1, <2>2, SMTT(30)
         DEF ArenaBlock, InArena, MIN_ALLOC_SIZE, HEAP_ALIGNMENT, End
    <3> QED BY <1>0, <2>4, <3>1 DEF Ordered
  <2>6. ASSUME NEW j \in 1 .. Len(m), NEW k \in 1 .. Len(m), j < k
        PROVE  End(m[j]) < m[k].addr
    <3>1. j \in 1 .. Len(l) /\ k \in 1 .. Len(l)
      BY <2>4
    <3>2. l[j].addr + l[j].size < l[k].addr
      BY <1>3, <2>6, <3>1
    <3>3. m[j].addr + m[j].size = l[j].addr + l[j].size
      <4>1. CASE j = i
        <5>1. m[j] = c
          BY <2>4, <3>1, <4>1
        <5>2. c.addr + c.size = l[i].addr + l[i].size
          BY <2>0, <2>2
        <5> QED BY <4>1, <5>1, <5>2
      <4>2. CASE j # i
        BY <2>4, <3>1, <4>2
      <4> QED BY <4>1, <4>2
    <3>4. l[k].addr <= m[k].addr /\ m[k].addr \in Nat
      <4>1. CASE k = i
        BY <2>0, <2>2, <2>4, <3>1, <4>1
      <4>2. CASE k # i
        <5>1. m[k] = l[k] /\ l[k].addr \in Nat
          BY <1>1, <2>4, <3>1, <4>2
        <5> QED BY <5>1
      <4> QED BY <4>1, <4>2
    <3>5. l[j].addr \in Nat /\ l[j].size \in Nat /\ l[k].addr \in Nat
      BY <1>1, <3>1
    <3> QED BY <3>2, <3>3, <3>4, <3>5, SMTT(30) DEF End
  <2>7. Merged(m)
    <3>1. \A j \in DOMAIN m : InArena(m[j])
      BY <2>4, <2>5 DEF ArenaBlock
    <3>2. DOMAIN m = 1 .. Len(m)
      BY <2>4
    <3> QED BY <2>4, <2>6, <3>1, <3>2, MergedIs
  <2>8. ASSUME NEW x \in Nat
        PROVE  x \in FreeBytes(m) <=> x \in FreeBytes(l) /\ x \notin Bytes(b)
    <3>1. ASSUME NEW j \in 1 .. Len(l)
          PROVE  Covers(m[j], x) <=> Covers(l[j], x) /\ ~Covers(b, x)
      <4>1. CASE j = i
        <5>1. m[j] = c /\ l[j] = l[i]
          BY <2>4, <4>1
        <5>2. Covers(c, x) <=> Covers(l[i], x) /\ ~Covers(b, x)
          <6>1. /\ End(b) = l[i].addr + t /\ b.addr = l[i].addr
                /\ c.addr = l[i].addr + t
            BY <1>4, <2>1, <2>2 DEF End
          <6>2. End(c) = l[i].addr + l[i].size /\ End(l[i]) = l[i].addr + l[i].size
            BY <2>0, <2>2 DEF End
          <6> HIDE DEF c
          <6> QED BY <2>0, <2>1, <6>1, <6>2 DEF Covers
        <5> QED BY <5>1, <5>2
      <4>2. CASE j < i
        <5>1. l[j].addr + l[j].size < l[i].addr
          BY <1>3, <4>2
        <5> QED BY <1>1, <1>4, <2>1, <2>4, <4>2, <5>1 DEF Covers, End
      <4>3. CASE j > i
        <5>1. l[i].addr + l[i].size < l[j].addr
          BY <1>3, <4>3
        <5> QED BY <1>1, <1>4, <1>5, <2>4, <4>3, <5>1 DEF Covers, End
      <4> QED BY <1>1, <4>1, <4>2, <4>3
    <3> QED BY <2>4, <3>1 DEF FreeBytes, Bytes
  <2>9. FreeBytes(m) = FreeBytes(l) \ Bytes(b)
    BY <2>8 DEF FreeBytes
  <2> QED BY <1>4, <1>6, <1>7, <2>7, <2>9 DEF m, b
<1>9. CASE ~Splits(l, t, i)
  <2>1. m = RemoveAt(l, i) /\ b.size = l[i].size
    BY <1>4, <1>9 DEF Carve
  <2> HIDE DEF m
  <2>2. /\ m \in Seq(Block) /\ Len(m) = Len(l) - 1 /\ DOMAIN m = 1 .. Len(m)
    <3>1. l \in Seq(Block)
      BY <1>0 DEF Ordered
    <3> QED BY <2>1, <3>1, RemoveAtIs
  <2>3. PICK f : Keeps(f, l, i, m)
    <3>1. l \in Seq(Block)
      BY <1>0 DEF Ordered
    <3> QED BY <2>1, <3>1, RemoveAtMap
  <2>4. \A j \in 1 .. Len(m) : InArena(m[j])
    <3>1. \A p \in 1 .. Len(l) : InArena(l[p])
      BY <1>0 DEF Ordered, ArenaBlock
    <3> QED BY <2>3, <3>1 DEF Keeps
  <2>5. Merged(m)
    <3>1. ASSUME NEW j \in 1 .. Len(m), NEW k \in 1 .. Len(m), j < k
          PROVE  End(m[j]) < m[k].addr
      <4>1. f[j] \in 1 .. Len(l) /\ f[k] \in 1 .. Len(l) /\ f[j] < f[k]
            /\ m[j] = l[f[j]] /\ m[k] = l[f[k]]
        BY <2>3, <3>1 DEF Keeps
      <4> QED BY <1>3, <4>1 DEF End
    <3> QED BY <2>2, <2>4, <3>1, MergedIs
  <2>6. ASSUME NEW x \in Nat
        PROVE  x \in FreeBytes(m) <=> x \in FreeBytes(l) /\ x \notin Bytes(b)
    <3>1. Covers(b, x) <=> Covers(l[i], x)
      BY <1>1, <1>4, <2>1 DEF Covers, End
    <3>2. ASSUME NEW j \in 1 .. Len(l), j # i
          PROVE  ~(Covers(l[j], x) /\ Covers(l[i], x))
      <4>1. j < i \/ i < j
        BY <3>2
      <4> QED BY <1>1, <1>3, <4>1 DEF Covers
    <3>3. (\E j \in 1 .. Len(m) : Covers(m[j], x))
            <=> (\E p \in 1 .. Len(l) : p # i /\ Covers(l[p], x))
      <4>1. ASSUME NEW j \in 1 .. Len(m), Covers(m[j], x)
            PROVE  \E p \in 1 .. Len(l) : p # i /\ Covers(l[p], x)
        <5>1. f[j] \in 1 .. Len(l) /\ f[j] # i /\ m[j] = l[f[j]]
          BY <2>3 DEF Keeps
        <5> QED BY <4>1, <5>1
      <4>2. ASSUME NEW p \in 1 .. Len(l), p # i, Covers(l[p], x)
            PROVE  \E j \in 1 .. Len(m) : Covers(m[j], x)
        <5>1. PICK j \in 1 .. Len(m) : f[j] = p
          BY <2>3, <4>2 DEF Keeps
        <5>2. m[j] = l[p]
          BY <2>3, <5>1 DEF Keeps
        <5> QED BY <4>2, <5>2
      <4> QED BY <4>1, <4>2
    <3> QED BY <3>1, <3>2, <3>3 DEF FreeBytes, Bytes
  <2>7. FreeBytes(m) = FreeBytes(l) \ Bytes(b)
    BY <2>6 DEF FreeBytes
  <2> QED BY <1>4, <1>6, <1>7, <2>5, <2>7 DEF m, b
<1> QED BY <1>8, <1>9

-----------------------------------------------------------------------------
(* kfree's edit of the list.                                               *)

(* Merging a block with its successor keeps the order and the bytes, and   *)
(* leaves a gap behind every block but those in T, which lie before.       *)
LEMMA CoalesceStep ==
  ASSUME NEW l, Ordered(l), NEW k \in Nat, NEW T, \A i \in T : i \in Nat /\ i < k,
         \A j \in 1 .. Len(l) : j \notin T /\ j # k => Gap(l, j)
  PROVE  /\ Ordered(Coalesce(l, k))
         /\ FreeBytes(Coalesce(l, k)) = FreeBytes(l)
         /\ \A j \in 1 .. Len(Coalesce(l, k)) :
              j \notin T => Gap(Coalesce(l, k), j)
<1> DEFINE touch == k \in 1 .. (Len(l) - 1) /\ End(l[k]) = l[k + 1].addr
           m == Coalesce(l, k)
<1>1. /\ Len(l) \in Nat /\ DOMAIN l = 1 .. Len(l)
      /\ \A j \in 1 .. Len(l) :
           /\ l[j] \in Block
           /\ l[j].addr \in Nat /\ l[j].size \in Nat /\ l[j].size >= 16
           /\ l[j].addr % 16 = 0 /\ l[j].size % 16 = 0
           /\ KERNEL_HEAP_START <= l[j].addr
           /\ l[j].addr + l[j].size <= ArenaEnd
           /\ End(l[j]) = l[j].addr + l[j].size
  BY OrderedBlocks
<1>2. CASE ~touch
  <2>1. m = l
    BY <1>2 DEF Coalesce
  <2>2. Gap(l, k)
    <3>1. SUFFICES ASSUME k \in 1 .. (Len(l) - 1) PROVE End(l[k]) < l[k + 1].addr
      BY DEF Gap
    <3>2. k \in 1 .. Len(l) /\ k + 1 \in 1 .. Len(l) /\ k < k + 1
      BY <1>1, <3>1
    <3>3. End(l[k]) <= l[k + 1].addr
      BY <3>2 DEF Ordered
    <3>4. End(l[k]) # l[k + 1].addr
      BY <1>2, <3>1
    <3>5. End(l[k]) \in Nat /\ l[k + 1].addr \in Nat
      BY <1>1, <3>2, SMTT(30)
    <3> QED BY <3>3, <3>4, <3>5
  <2> QED BY <2>1, <2>2
<1>3. CASE touch
  <2> DEFINE big == [addr |-> l[k].addr, size |-> l[k].size + l[k + 1].size]
             u == [l EXCEPT ![k] = big]
             g(j) == IF j <= k THEN j ELSE j + 1
             h(j) == IF j < k THEN j ELSE j + 1
  <2>1. /\ k \in 1 .. Len(l) /\ k + 1 \in 1 .. Len(l) /\ k < Len(l)
        /\ l[k].addr + l[k].size = l[k + 1].addr
    BY <1>1, <1>3
  <2>2. /\ l[k].addr \in Nat /\ l[k].size \in Nat /\ l[k].size >= 16
        /\ l[k + 1].addr \in Nat /\ l[k + 1].size \in Nat
        /\ l[k + 1].size >= 16 /\ l[k + 1].addr + l[k + 1].size <= ArenaEnd
        /\ KERNEL_HEAP_START <= l[k].addr
        /\ l[k].addr % 16 = 0 /\ l[k].size % 16 = 0 /\ l[k + 1].size % 16 = 0
    BY <1>1, <2>1
  <2>3. /\ big \in Block /\ big.addr = l[k].addr
        /\ big.size = l[k].size + l[k + 1].size
        /\ End(big) = l[k + 1].addr + l[k + 1].size
    <3>1. l[k].size + l[k + 1].size \in Nat \ {0}
      <4>1. \A p, q \in Nat : p >= 16 => p + q \in Nat \ {0}
        OBVIOUS
      <4> QED BY <2>2, <4>1
    <3> QED BY <2>1, <2>2, <3>1 DEF Block, End
  <2> HIDE DEF big
  <2>4. ArenaBlock(big)
    <3>1. (l[k].size + l[k + 1].size) % 16 = 0
      BY <2>2, Mod16
    <3>2. big.size >= 16 /\ big.addr \in Nat /\ big.size \in Nat
      BY <2>2, <2>3
    <3> QED BY <2>2, <2>3, <3>1, <3>2
            DEF ArenaBlock, InArena, MIN_ALLOC_SIZE, HEAP_ALIGNMENT
  <2>5. m = RemoveAt(u, k + 1)
    BY <1>3 DEF Coalesce, big
  <2>6. /\ u \in Seq(Block) /\ Len(u) = Len(l)
        /\ \A j \in 1 .. Len(l) : u[j] = IF j = k THEN big ELSE l[j]
    <3>1. l \in Seq(Block)
      BY DEF Ordered
    <3> QED BY <2>1, <2>3, <3>1, ExceptSeq
  <2> HIDE DEF u, m
  <2>7. /\ m \in Seq(Block) /\ Len(m) = Len(l) - 1
        /\ \A j \in 1 .. (Len(l) - 1) : m[j] = IF j < k + 1 THEN u[j] ELSE u[j + 1]
    <3>1. k + 1 \in 1 .. Len(u) /\ u \in Seq(Block)
      BY <2>1, <2>6
    <3>2. /\ RemoveAt(u, k + 1) \in Seq(Block)
          /\ Len(RemoveAt(u, k + 1)) = Len(u) - 1
          /\ \A j \in 1 .. (Len(u) - 1) :
               RemoveAt(u, k + 1)[j] = IF j < k + 1 THEN u[j] ELSE u[j + 1]
      BY <3>1, RemoveAtIs, Zenon
    <3>3. Len(u) = Len(l) /\ m = RemoveAt(u, k + 1)
      BY <2>5, <2>6
    <3> QED BY <3>2, <3>3
  <2>8. ASSUME NEW j \in 1 .. Len(m)
        PROVE  /\ g(j) \in 1 .. Len(l) /\ h(j) \in 1 .. Len(l)
               /\ m[j].addr = l[g(j)].addr /\ End(m[j]) = End(l[h(j)])
               /\ ArenaBlock(m[j])
    <3>1. \A p \in 1 .. Len(l) : ArenaBlock(l[p])
      BY DEF Ordered
    <3>2. CASE j < k
      <4>0. j \in 1 .. (Len(l) - 1) /\ j \in 1 .. Len(l) /\ j < k + 1 /\ j # k
        BY <1>1, <2>7, <3>2
      <4>1. m[j] = l[j]
        BY <2>6, <2>7, <4>0
      <4> QED BY <1>1, <2>7, <3>1, <3>2, <4>1
    <3>3. CASE j = k
      <4>1. m[j] = big
        BY <1>1, <2>1, <2>6, <2>7, <3>3, SMTT(30)
      <4>2. End(l[k + 1]) = l[k + 1].addr + l[k + 1].size
        BY DEF End
      <4> QED BY <2>1, <2>3, <2>4, <3>3, <4>1, <4>2
    <3>4. CASE j > k
      <4>1. m[j] = l[j + 1] /\ j + 1 \in 1 .. Len(l)
        BY <1>1, <2>6, <2>7, <3>4
      <4> QED BY <2>7, <3>1, <3>4, <4>1
    <3> QED BY <2>7, <3>2, <3>3, <3>4
  <2>9. Ordered(m)
    <3>1. ASSUME NEW i \in 1 .. Len(m), NEW j \in 1 .. Len(m), i < j
          PROVE  End(m[i]) <= m[j].addr
      <4>1. h(i) < g(j)
        BY <2>7, <3>1
      <4>2. /\ h(i) \in 1 .. Len(l) /\ g(j) \in 1 .. Len(l)
            /\ End(m[i]) = End(l[h(i)]) /\ m[j].addr = l[g(j)].addr
        BY <2>8
      <4> HIDE DEF g, h
      <4> QED BY <4>1, <4>2 DEF Ordered
    <3> QED BY <2>7, <2>8, <3>1 DEF Ordered
  <2>10. ASSUME NEW j \in 1 .. Len(m), j \notin T
         PROVE  Gap(m, j)
    <3>1. SUFFICES ASSUME j \in 1 .. (Len(m) - 1)
                   PROVE  End(m[j]) < m[j + 1].addr
      BY DEF Gap
    <3>2. /\ j + 1 \in 1 .. Len(m) /\ g(j + 1) = h(j) + 1
          /\ h(j) \in 1 .. (Len(l) - 1) /\ h(j) # k
          /\ (h(j) = j \/ h(j) > k)
      BY <2>7, <3>1
    <3>3. h(j) \notin T /\ h(j) \in 1 .. Len(l)
      BY <1>1, <2>10, <3>2
    <3>4. Gap(l, h(j))
      BY <3>2, <3>3
    <3>5. End(m[j]) = End(l[h(j)]) /\ m[j + 1].addr = l[g(j + 1)].addr
      BY <2>8, <3>2
    <3> HIDE DEF g, h
    <3> QED BY <3>2, <3>4, <3>5 DEF Gap
  <2>11. ASSUME NEW x \in Nat
         PROVE  (\E j \in 1 .. Len(m) : Covers(m[j], x))
                  <=> (\E p \in 1 .. Len(l) : Covers(l[p], x))
    <3>1. Covers(big, x) <=> Covers(l[k], x) \/ Covers(l[k + 1], x)
      <4>1. End(l[k]) = l[k].addr + l[k].size
            /\ End(l[k + 1]) = l[k + 1].addr + l[k + 1].size
        BY DEF End
      <4> QED BY <2>1, <2>2, <2>3, <4>1, SMTT(30) DEF Covers
    <3>2. ASSUME NEW j \in 1 .. Len(m), Covers(m[j], x)
          PROVE  \E p \in 1 .. Len(l) : Covers(l[p], x)
      <4>1. CASE j < k
        <5>1. m[j] = l[j] /\ j \in 1 .. Len(l)
          BY <1>1, <2>6, <2>7, <4>1
        <5> QED BY <3>2, <5>1
      <4>2. CASE j = k
        <5>1. m[j] = big
          BY <1>1, <2>1, <2>6, <2>7, <4>2
        <5> QED BY <2>1, <3>1, <3>2, <5>1
      <4>3. CASE j > k
        <5>1. m[j] = l[j + 1] /\ j + 1 \in 1 .. Len(l)
          BY <1>1, <2>6, <2>7, <4>3
        <5> QED BY <3>2, <5>1
      <4> QED BY <2>7, <4>1, <4>2, <4>3
    <3>3. ASSUME NEW p \in 1 .. Len(l), Covers(l[p], x)
          PROVE  \E j \in 1 .. Len(m) : Covers(m[j], x)
      <4>1. CASE p < k
        <5>1. m[p] = l[p] /\ p \in 1 .. Len(m)
          BY <1>1, <2>1, <2>6, <2>7, <4>1
        <5> QED BY <3>3, <5>1
      <4>2. CASE p = k \/ p = k + 1
        <5>1. m[k] = big /\ k \in 1 .. Len(m)
          BY <1>1, <2>1, <2>6, <2>7
        <5> QED BY <3>1, <3>3, <4>2, <5>1
      <4>3. CASE p > k + 1
        <5>1. m[p - 1] = l[p] /\ p - 1 \in 1 .. Len(m)
          BY <1>1, <2>1, <2>6, <2>7, <4>3
        <5> QED BY <3>3, <5>1
      <4> QED BY <4>1, <4>2, <4>3
    <3> QED BY <3>2, <3>3
  <2>12. FreeBytes(m) = FreeBytes(l)
    BY <2>11 DEF FreeBytes
  <2> QED BY <2>9, <2>10, <2>12 DEF m
<1> QED BY <1>2, <1>3

(* Inserting a block where kfree's walk stops keeps the list in order and  *)
(* adds the block's bytes; only the block itself and the one before it may *)
(* touch their successors.                                                 *)
LEMMA InsertStep ==
  ASSUME NEW l, Merged(l), NEW b, ArenaBlock(b),
         Bytes(b) \cap FreeBytes(l) = {},
         NEW k \in 1 .. (Len(l) + 1), InsertionPoint(l, b.addr, k),
         NEW n, n = InsertAt(l, k, [addr |-> b.addr, size |-> b.size])
  PROVE  /\ Ordered(n)
         /\ FreeBytes(n) = FreeBytes(l) \cup Bytes(b)
         /\ \A j \in 1 .. Len(n) : j \notin {k - 1} /\ j # k => Gap(n, j)
<1> DEFINE c == [addr |-> b.addr, size |-> b.size]
<1>0. Ordered(l) /\ l \in Seq(Block)
  BY DEF Merged, Ordered
<1>1. /\ Len(l) \in Nat /\ DOMAIN l = 1 .. Len(l)
      /\ \A j \in 1 .. Len(l) :
           /\ l[j].addr \in Nat /\ l[j].size \in Nat /\ l[j].size >= 16
           /\ End(l[j]) = l[j].addr + l[j].size
           /\ ArenaBlock(l[j])
  BY <1>0, OrderedBlocks DEF Ordered
<1>2. /\ b.addr \in Nat /\ b.size \in Nat /\ b.size >= 16
      /\ c.addr = b.addr /\ c.size = b.size /\ c \in Block
      /\ End(c) = b.addr + b.size /\ ArenaBlock(c) /\ Bytes(c) = Bytes(b)
  BY DEF ArenaBlock, InArena, MIN_ALLOC_SIZE, Block, End, Bytes, Covers
<1> HIDE DEF c
<1>3. /\ n \in Seq(Block) /\ Len(n) = Len(l) + 1
      /\ \A j \in 1 .. (Len(l) + 1) :
           n[j] = IF j < k THEN l[j] ELSE IF j = k THEN c ELSE l[j - 1]
  <2>1. n = InsertAt(l, k, c)
    BY DEF c
  <2>2. k \in 1 .. (Len(l) + 1) /\ c \in Block
    BY <1>2
  <2>3. /\ InsertAt(l, k, c) \in Seq(Block) /\ Len(InsertAt(l, k, c)) = Len(l) + 1
        /\ \A j \in 1 .. (Len(l) + 1) :
             InsertAt(l, k, c)[j]
               = IF j < k THEN l[j] ELSE IF j = k THEN c ELSE l[j - 1]
    <3> DEFINE P(S, q, x, h) ==
                 /\ InsertAt(q, h, x) \in Seq(S)
                 /\ Len(InsertAt(q, h, x)) = Len(q) + 1
                 /\ \A j \in 1 .. (Len(q) + 1) :
                      InsertAt(q, h, x)[j]
                        = IF j < h THEN q[j] ELSE IF j = h THEN x ELSE q[j - 1]
    <3>1. \A S : \A q \in Seq(S) : \A x \in S : \A h \in 1 .. (Len(q) + 1) :
            P(S, q, x, h)
      BY InsertAtIs, Zenon
    <3> HIDE DEF P
    <3>2. P(Block, l, c, k)
      BY <1>0, <2>2, <3>1, Zenon
    <3> QED BY <3>2, Zenon DEF P
  <2> QED BY <2>1, <2>3, Zenon
<1>4. /\ \A j \in 1 .. Len(l) : j < k => n[j] = l[j]
      /\ n[k] = c
      /\ \A j \in 1 .. Len(l) : j >= k => n[j + 1] = l[j]
  <2>1. n[k] = c
    BY <1>1, <1>3
  <2>2. ASSUME NEW j \in 1 .. Len(l), j < k PROVE n[j] = l[j]
    <3>1. j \in 1 .. (Len(l) + 1)
      BY <1>1
    <3> QED BY <1>3, <2>2, <3>1
  <2>3. ASSUME NEW j \in 1 .. Len(l), j >= k PROVE n[j + 1] = l[j]
    <3>1. j + 1 \in 1 .. (Len(l) + 1) /\ ~(j + 1 < k) /\ j + 1 # k
          /\ (j + 1) - 1 = j
      BY <1>1, <2>3
    <3> QED BY <1>3, <3>1
  <2> QED BY <2>1, <2>2, <2>3
<1>5. ASSUME NEW j \in 1 .. Len(l) PROVE Apart(b, l[j])
  <2>1. Bytes(l[j]) \subseteq FreeBytes(l)
    BY DEF Bytes, FreeBytes
  <2> QED BY <1>1, <2>1, ApartBytes
<1>6. ASSUME NEW j \in 1 .. Len(l), j < k PROVE End(l[j]) <= b.addr
  <2>1. l[j].addr < b.addr
    BY <1>6 DEF InsertionPoint
  <2>2. End(l[j]) <= b.addr \/ b.addr + b.size <= l[j].addr
    BY <1>5 DEF Apart, End
  <2> QED BY <1>1, <1>2, <2>1, <2>2
<1>7. ASSUME NEW j \in 1 .. Len(l), j >= k PROVE End(c) <= l[j].addr
  <2>1. b.addr <= l[j].addr
    <3>1. k \in 1 .. Len(l) /\ b.addr <= l[k].addr
      BY <1>1, <1>7 DEF InsertionPoint
    <3>2. CASE j = k
      BY <3>1, <3>2
    <3>3. CASE j > k
      <4>1. End(l[k]) <= l[j].addr
        BY <1>0, <3>1, <3>3 DEF Ordered
      <4> QED BY <1>1, <1>2, <3>1, <4>1, SMTT(30)
    <3> QED BY <1>1, <1>7, <3>2, <3>3
  <2>2. End(l[j]) <= b.addr \/ b.addr + b.size <= l[j].addr
    BY <1>5 DEF Apart, End
  <2> QED BY <1>1, <1>2, <2>1, <2>2, SMTT(30)
<1>8. ASSUME NEW j \in 1 .. Len(n)
      PROVE  \/ j = k
             \/ \E p \in 1 .. Len(l) : p < k /\ j = p
             \/ \E p \in 1 .. Len(l) : p >= k /\ j = p + 1
  <2>1. CASE j < k
    <3>1. j \in 1 .. Len(l)
      BY <1>1, <1>3, <2>1
    <3> QED BY <2>1, <3>1
  <2>2. CASE j > k
    <3>1. j - 1 \in 1 .. Len(l) /\ j - 1 >= k /\ j = (j - 1) + 1
      BY <1>1, <1>3, <2>2
    <3> QED BY <3>1
  <2> QED BY <1>1, <1>3, <2>1, <2>2
<1>9. \A j \in 1 .. Len(n) : ArenaBlock(n[j])
  BY <1>1, <1>2, <1>4, <1>8
<1>10. ASSUME NEW i \in 1 .. Len(n), NEW j \in 1 .. Len(n), i < j
       PROVE  End(n[i]) <= n[j].addr
  <2>1. CASE i = k
    <3>1. PICK p \in 1 .. Len(l) : p >= k /\ j = p + 1
      BY <1>3, <1>8, <1>10, <2>1
    <3> QED BY <1>4, <1>7, <2>1, <3>1
  <2>2. ASSUME NEW p \in 1 .. Len(l), p < k, i = p
        PROVE  End(n[i]) <= n[j].addr
    <3>1. n[i] = l[p]
      BY <1>4, <2>2
    <3>2. CASE j = k
      BY <1>2, <1>4, <1>6, <2>2, <3>1, <3>2
    <3>3. ASSUME NEW q \in 1 .. Len(l), q < k, j = q
          PROVE  End(n[i]) <= n[j].addr
      <4>1. n[j] = l[q] /\ p < q
        BY <1>4, <1>10, <2>2, <3>3
      <4> QED BY <1>0, <3>1, <4>1 DEF Ordered
    <3>4. ASSUME NEW q \in 1 .. Len(l), q >= k, j = q + 1
          PROVE  End(n[i]) <= n[j].addr
      <4>1. n[j] = l[q] /\ p < q
        BY <1>4, <2>2, <3>4
      <4> QED BY <1>0, <3>1, <4>1 DEF Ordered
    <3> QED BY <1>8, <3>2, <3>3, <3>4
  <2>3. ASSUME NEW p \in 1 .. Len(l), p >= k, i = p + 1
        PROVE  End(n[i]) <= n[j].addr
    <3>1. PICK q \in 1 .. Len(l) : q >= k /\ j = q + 1
      BY <1>3, <1>8, <1>10, <2>3
    <3>2. n[i] = l[p] /\ n[j] = l[q] /\ p < q
      BY <1>4, <1>10, <2>3, <3>1
    <3> QED BY <1>0, <3>2 DEF Ordered
  <2> QED BY <1>8, <2>1, <2>2, <2>3
<1>11. Ordered(n)
  BY <1>3, <1>9, <1>10 DEF Ordered
<1>12. ASSUME NEW j \in 1 .. Len(n), j # k - 1, j # k
       PROVE  Gap(n, j)
  <2>1. SUFFICES ASSUME j \in 1 .. (Len(n) - 1)
                 PROVE  End(n[j]) < n[j + 1].addr
    BY DEF Gap
  <2>2. CASE j < k
    <3>1. j + 1 < k /\ j \in 1 .. (Len(l) - 1) /\ j \in 1 .. Len(l)
          /\ j + 1 \in 1 .. Len(l)
      BY <1>1, <1>3, <1>12, <2>1, <2>2
    <3>2. n[j] = l[j] /\ n[j + 1] = l[j + 1]
      BY <1>4, <2>2, <3>1
    <3> QED BY <3>1, <3>2 DEF Merged, Gap
  <2>3. CASE j > k
    <3>1. /\ j - 1 >= k /\ j - 1 \in 1 .. (Len(l) - 1) /\ j - 1 \in 1 .. Len(l)
          /\ j \in 1 .. Len(l) /\ (j - 1) + 1 = j
      BY <1>1, <1>3, <1>12, <2>1, <2>3
    <3>2. n[j] = l[j - 1] /\ n[j + 1] = l[j]
      <4>1. n[(j - 1) + 1] = l[j - 1]
        BY <1>4, <3>1
      <4>2. n[j + 1] = l[j]
        BY <1>4, <2>3, <3>1
      <4> QED BY <3>1, <4>1, <4>2
    <3>3. Gap(l, j - 1)
      BY <3>1 DEF Merged
    <3>4. End(l[j - 1]) < l[j].addr
      BY <3>1, <3>3 DEF Gap
    <3> QED BY <3>2, <3>4
  <2> QED BY <1>3, <1>12, <2>2, <2>3
<1>13. ASSUME NEW x \in Nat
       PROVE  (\E j \in 1 .. Len(n) : Covers(n[j], x))
                <=> (\E p \in 1 .. Len(l) : Covers(l[p], x)) \/ Covers(b, x)
  <2>1. Covers(c, x) <=> Covers(b, x)
    BY <1>2 DEF Covers, End
  <2>2. ASSUME NEW j \in 1 .. Len(n), Covers(n[j], x)
        PROVE  (\E p \in 1 .. Len(l) : Covers(l[p], x)) \/ Covers(b, x)
    BY <1>4, <1>8, <2>1, <2>2
  <2>3. ASSUME NEW p \in 1 .. Len(l), Covers(l[p], x)
        PROVE  \E j \in 1 .. Len(n) : Covers(n[j], x)
    <3>1. CASE p < k
      <4>1. p \in 1 .. Len(n) /\ n[p] = l[p]
        BY <1>1, <1>3, <1>4, <3>1
      <4> QED BY <2>3, <4>1
    <3>2. CASE p >= k
      <4>1. p + 1 \in 1 .. Len(n) /\ n[p + 1] = l[p]
        BY <1>1, <1>3, <1>4, <3>2
      <4> QED BY <2>3, <4>1
    <3> QED BY <1>1, <3>1, <3>2
  <2>4. Covers(b, x) => \E j \in 1 .. Len(n) : Covers(n[j], x)
    <3>1. k \in 1 .. Len(n)
      BY <1>3
    <3> QED BY <1>4, <2>1, <3>1
  <2> QED BY <2>2, <2>3, <2>4
<1>14. FreeBytes(n) = FreeBytes(l) \cup Bytes(b)
  BY <1>13 DEF FreeBytes, Bytes
<1> QED BY <1>11, <1>12, <1>14

(* kfree gives a block's bytes back and leaves the list merged. *)
LEMMA ReleaseStep ==
  ASSUME NEW l, Merged(l), NEW b, ArenaBlock(b),
         Bytes(b) \cap FreeBytes(l) = {},
         NEW k \in 1 .. (Len(l) + 1), InsertionPoint(l, b.addr, k)
  PROVE  /\ Merged(Release(l, k, b))
         /\ FreeBytes(Release(l, k, b)) = FreeBytes(l) \cup Bytes(b)
<1> DEFINE n == InsertAt(l, k, [addr |-> b.addr, size |-> b.size])
           m == Coalesce(n, k)
<1>0. k \in Nat /\ k - 1 \in Nat
  OBVIOUS
<1>1. /\ Ordered(n)
      /\ FreeBytes(n) = FreeBytes(l) \cup Bytes(b)
      /\ \A j \in 1 .. Len(n) : j \notin {k - 1} /\ j # k => Gap(n, j)
  BY InsertStep
<1> HIDE DEF n
<1>2. /\ Ordered(m) /\ FreeBytes(m) = FreeBytes(n)
      /\ \A j \in 1 .. Len(m) : j \notin {k - 1} => Gap(m, j)
  <2>1. \A i \in {k - 1} : i \in Nat /\ i < k
    BY <1>0
  <2> QED BY <1>0, <1>1, <2>1, CoalesceStep, ZenonT(60)
<1> HIDE DEF m
<1>3. /\ Ordered(Coalesce(m, k - 1)) /\ FreeBytes(Coalesce(m, k - 1)) = FreeBytes(m)
      /\ \A j \in 1 .. Len(Coalesce(m, k - 1)) :
           j \notin {} => Gap(Coalesce(m, k - 1), j)
  <2>1. \A i \in {} : i \in Nat /\ i < k - 1
    OBVIOUS
  <2>2. \A j \in 1 .. Len(m) : j \notin {} /\ j # k - 1 => Gap(m, j)
    BY <1>2
  <2> QED BY <1>0, <1>2, <2>1, <2>2, CoalesceStep
<1>4. Release(l, k, b) = Coalesce(m, k - 1)
  BY DEF Release, m, n
<1> QED BY <1>1, <1>2, <1>3, <1>4 DEF Merged

-----------------------------------------------------------------------------
(* The free list and the live blocks together.                             *)

(* No byte is in two blocks, live or free ... *)
Sound(l, L) ==
  /\ Merged(l)
  /\ \A b \in L : ArenaBlock(b)
  /\ \A b, c \in L : b # c => Bytes(b) \cap Bytes(c) = {}
  /\ \A b \in L : Bytes(b) \cap FreeBytes(l) = {}

(* ... and every byte of the arena is in one. *)
Full(l, L) ==
  \A x \in KERNEL_HEAP_START .. (ArenaEnd - 1) :
    x \in FreeBytes(l) \/ \E b \in L : x \in Bytes(b)

(* A block has its first byte. *)
LEMMA BlockNonempty ==
  ASSUME NEW b, ArenaBlock(b)
  PROVE  b.addr \in Bytes(b)
BY DEF ArenaBlock, InArena, Bytes, Covers, End, MIN_ALLOC_SIZE

(* Taking a block out of the list. *)
LEMMA SoundCarve ==
  ASSUME NEW l, NEW L, Sound(l, L), NEW t \in Nat, t % 16 = 0, t >= 16,
         NEW i \in 1 .. Len(l), l[i].size >= t, NEW r
  PROVE  /\ Sound(Carve(l, t, i), L \cup {Carved(l, t, i, r)})
         /\ Full(l, L) => Full(Carve(l, t, i), L \cup {Carved(l, t, i, r)})
         /\ Carved(l, t, i, r).size >= t
         /\ ArenaBlock(Carved(l, t, i, r))
         /\ Carved(l, t, i, r) \notin L
<1> DEFINE m == Carve(l, t, i)
           b == Carved(l, t, i, r)
<1>1. /\ Merged(m) /\ ArenaBlock(b) /\ b.size >= t
      /\ Bytes(b) \subseteq FreeBytes(l)
      /\ FreeBytes(m) = FreeBytes(l) \ Bytes(b)
  BY CarveStep DEF Sound
<1> HIDE DEF m, b
<1>2. Sound(m, L \cup {b})
  BY <1>1 DEF Sound
<1>3. Full(l, L) => Full(m, L \cup {b})
  BY <1>1 DEF Full
<1>4. b \notin L
  BY <1>1, BlockNonempty DEF Sound
<1> QED BY <1>1, <1>2, <1>3, <1>4 DEF m, b

(* Putting a block back. *)
LEMMA SoundRelease ==
  ASSUME NEW l, NEW L, Sound(l, L), NEW b \in L,
         NEW k \in 1 .. (Len(l) + 1), InsertionPoint(l, b.addr, k)
  PROVE  /\ Sound(Release(l, k, b), L \ {b})
         /\ Full(l, L) => Full(Release(l, k, b), L \ {b})
<1> DEFINE m == Release(l, k, b)
<1>1. ArenaBlock(b) /\ Merged(l) /\ Bytes(b) \cap FreeBytes(l) = {}
  BY DEF Sound
<1>2. Merged(m) /\ FreeBytes(m) = FreeBytes(l) \cup Bytes(b)
  BY <1>1, ReleaseStep
<1> HIDE DEF m
<1>3. Sound(m, L \ {b})
  BY <1>2 DEF Sound
<1>4. Full(l, L) => Full(m, L \ {b})
  BY <1>2 DEF Full
<1> QED BY <1>3, <1>4 DEF m

(* What a block's client asked for plays no part. *)
LEMMA SoundRelabel ==
  ASSUME NEW l, NEW L, Sound(l, L), NEW b \in L,
         NEW c, c.addr = b.addr, c.size = b.size
  PROVE  /\ Sound(l, (L \ {b}) \cup {c})
         /\ Full(l, L) => Full(l, (L \ {b}) \cup {c})
<1>1. ArenaBlock(c) /\ Bytes(c) = Bytes(b)
  BY DEF Sound, ArenaBlock, InArena, End, Bytes, Covers
<1>2. Sound(l, (L \ {b}) \cup {c})
  BY <1>1 DEF Sound
<1>3. Full(l, L) => Full(l, (L \ {b}) \cup {c})
  BY <1>1 DEF Full
<1> QED BY <1>2, <1>3

(* kmalloc's rounding: a multiple of 16, at least 16, and room for the     *)
(* header and the bytes asked for unless the sum wraps.                    *)
LEMMA TotalSizeIs ==
  ASSUME NEW n \in 0 .. (SIZE_MOD - 1)
  PROVE  /\ TotalSize(n) \in Nat /\ TotalSize(n) >= 16
         /\ TotalSize(n) % 16 = 0
         /\ TotalSize(n) >= n + 8 \/ Wraps(n)
<1> USE ArenaAssumption
<1> DEFINE x == (n + 8) % SIZE_MOD
           y == (x + 16 - 1) % SIZE_MOD
           a == y - (y % 16)
<1>0. SIZE_MOD \in Nat /\ SIZE_MOD > 0 /\ n \in Nat
  OBVIOUS
<1>1. x \in 0 .. (SIZE_MOD - 1) /\ (n + 8 < SIZE_MOD => x = n + 8)
  BY <1>0
<1> HIDE DEF x
<1>2. y \in 0 .. (SIZE_MOD - 1) /\ (x + 15 < SIZE_MOD => y = x + 15)
  BY <1>0, <1>1
<1> HIDE DEF y
<1>3. a \in Nat /\ (a % 16) = 0 /\ a + 15 >= y
  BY <1>2
<1>4. TotalSize(n) = IF a < 16 THEN 16 ELSE a
  BY DEF TotalSize, ALIGN_UP_HEAP, HEADER, HEAP_ALIGNMENT, MIN_ALLOC_SIZE, x, y
<1> HIDE DEF a
<1>5. a >= n + 8 \/ Wraps(n)
  BY <1>0, <1>1, <1>2, <1>3 DEF Wraps, HEADER, HEAP_ALIGNMENT
<1>6. (16 % 16) = 0
  OBVIOUS
<1> QED BY <1>0, <1>3, <1>4, <1>5, <1>6

-----------------------------------------------------------------------------
(* The inductive invariant.                                                *)

LiveBlock == [addr : Nat, size : Nat \ {0}, req : Nat]

(* A block has room for what was asked for, unless the request wraps. *)
Roomy(b) == Usable(b) >= b.req \/ Wraps(b.req)

HeapInv ==
  /\ TypeOK
  /\ phase = "uninit" => free_list = <<>> /\ live = {} /\ result.need = 0
  /\ Sound(free_list, live)
  /\ phase \in {"ready", "overrun"} => Full(free_list, live)
  /\ \A b \in live : Roomy(b)
  /\ phase = "overrun" => \E b \in live : Wraps(b.req)

(* The part of HeapInv that speaks of the two kinds of blocks, and that    *)
(* every call made in phase "ready" leaves as it was.                      *)
Blocks(l, L) ==
  /\ l \in Seq(Block) /\ L \subseteq LiveBlock
  /\ Sound(l, L) /\ Full(l, L)
  /\ \A b \in L : Roomy(b)

(* A pointer handed out is not NULL. *)
LEMMA UserPtrIs ==
  ASSUME NEW b, ArenaBlock(b)
  PROVE  UserPtr(b) \in Nat /\ UserPtr(b) # NULL
BY ArenaAssumption DEF ArenaBlock, InArena, UserPtr, HEADER, NULL

(* kmalloc's search and its edit. *)
LEMMA BlocksCarve ==
  ASSUME NEW l, NEW L, Blocks(l, L), NEW total \in 0 .. (SIZE_MOD - 1),
         NEW i \in DOMAIN l, Fits(l, TotalSize(total), i)
  PROVE  LET t == TotalSize(total)
             b == Carved(l, t, i, total)
         IN  /\ Blocks(Carve(l, t, i), L \cup {b})
             /\ b \in LiveBlock /\ b \notin L /\ ArenaBlock(b)
             /\ b.req = total
             /\ Usable(b) >= total \/ Wraps(total)
<1> DEFINE t == TotalSize(total)
           b == Carved(l, t, i, total)
           m == Carve(l, t, i)
<1>1. /\ t \in Nat /\ t >= 16 /\ t % 16 = 0 /\ (t >= total + 8 \/ Wraps(total))
  BY TotalSizeIs
<1> HIDE DEF t
<1>2. i \in 1 .. Len(l) /\ l[i].size >= t
  BY DEF Blocks, Fits, LargeEnough, t
<1>3. Sound(l, L)
  BY DEF Blocks
<1>4. /\ Sound(m, L \cup {b}) /\ (Full(l, L) => Full(m, L \cup {b}))
      /\ b.size >= t /\ ArenaBlock(b) /\ b \notin L
  BY <1>1, <1>2, <1>3, SoundCarve
<1>5. b.req = total /\ b = [addr |-> b.addr, size |-> b.size, req |-> b.req]
  BY DEF Carved
<1> HIDE DEF b, m
<1>6. b \in LiveBlock
  <2>1. b.addr \in Nat /\ b.size \in Nat \ {0} /\ b.req \in Nat
    BY <1>1, <1>4, <1>5, ArenaAssumption DEF ArenaBlock
  <2> QED BY <1>5, <2>1 DEF LiveBlock
<1>7. Usable(b) >= total \/ Wraps(total)
  BY <1>1, <1>4 DEF Usable, HEADER, ArenaBlock
<1>8. m \in Seq(Block)
  BY <1>4 DEF Sound, Merged, Ordered
<1>9. Roomy(b)
  BY <1>5, <1>7 DEF Roomy
<1>10. Blocks(m, L \cup {b})
  BY <1>4, <1>6, <1>8, <1>9 DEF Blocks
<1> QED BY <1>4, <1>5, <1>6, <1>7, <1>10 DEF m, b, t

(* kfree's edit. *)
LEMMA BlocksRelease ==
  ASSUME NEW l, NEW L, Blocks(l, L), NEW b \in L,
         NEW k \in 1 .. (Len(l) + 1), InsertionPoint(l, b.addr, k)
  PROVE  Blocks(Release(l, k, b), L \ {b})
<1> DEFINE m == Release(l, k, b)
<1>1. Sound(m, L \ {b}) /\ Full(m, L \ {b})
  BY SoundRelease DEF Blocks
<1> HIDE DEF m
<1>2. m \in Seq(Block)
  BY <1>1 DEF Sound, Merged, Ordered
<1>3. Blocks(m, L \ {b})
  BY <1>1, <1>2 DEF Blocks
<1> QED BY <1>3 DEF m

(* In phase "ready" the invariant is Blocks. *)
LEMMA ReadyInv ==
  ASSUME HeapInv, phase = "ready"
  PROVE  Blocks(free_list, live)
BY DEF HeapInv, TypeOK, Blocks, LiveBlock

LEMMA ReadyInvNext ==
  ASSUME Blocks(free_list, live)',
         phase' \in {"ready", "panic", "overrun"},
         result' \in [ptr : Nat, need : Nat],
         phase' = "overrun" => \E b \in live' : Wraps(b.req)
  PROVE  HeapInv'
BY DEF HeapInv, TypeOK, Blocks, LiveBlock

(* A call of kmalloc (total), for a caller that writes at most what it     *)
(* asked for.                                                              *)
LEMMA AllocateStep ==
  ASSUME HeapInv, phase = "ready", NEW total \in 0 .. (SIZE_MOD - 1),
         NEW written \in 0 .. total, Allocate(total, total, written)
  PROVE  HeapInv'
<1>1. Blocks(free_list, live)
  BY ReadyInv
<1>2. CASE total = 0 /\ result' = [ptr |-> NULL, need |-> 0]
           /\ UNCHANGED <<phase, free_list, live>>
  BY <1>1, <1>2, ReadyInvNext DEF NULL
<1>3. CASE result' = [ptr |-> NULL, need |-> TotalSize(total)]
           /\ UNCHANGED <<phase, free_list, live>>
  BY <1>1, <1>3, ReadyInvNext, TotalSizeIs DEF NULL
<1>4. ASSUME NEW i \in DOMAIN free_list,
             LET t == TotalSize(total)
                 b == Carved(free_list, t, i, total)
             IN  /\ Fits(free_list, t, i)
                 /\ free_list' = Carve(free_list, t, i)
                 /\ live' = live \cup {b}
                 /\ result' = [ptr |-> UserPtr(b), need |-> t]
                 /\ phase' = IF written > Usable(b) THEN "overrun" ELSE phase
      PROVE  HeapInv'
  <2> DEFINE t == TotalSize(total)
             b == Carved(free_list, t, i, total)
  <2>1. Fits(free_list, t, i)
    BY <1>4
  <2>2. /\ Blocks(Carve(free_list, t, i), live \cup {b})
        /\ b \in LiveBlock /\ b.req = total /\ ArenaBlock(b)
        /\ Usable(b) >= total \/ Wraps(total)
    BY <1>1, <2>1, BlocksCarve
  <2>3. t \in Nat
    BY TotalSizeIs
  <2>4. /\ free_list' = Carve(free_list, t, i) /\ live' = live \cup {b}
        /\ result' = [ptr |-> UserPtr(b), need |-> t]
        /\ phase' = IF written > Usable(b) THEN "overrun" ELSE phase
    BY <1>4
  <2> HIDE DEF t, b
  <2>5. Blocks(free_list, live)'
    BY <2>2, <2>4 DEF Blocks, Full, Sound
  <2>6. phase' = "overrun" => \E c \in live' : Wraps(c.req)
    <3>1. ASSUME phase' = "overrun" PROVE Wraps(b.req)
      <4>1. written > Usable(b)
        BY <2>4, <3>1
      <4> QED BY <2>2, <4>1 DEF Usable, HEADER, ArenaBlock
    <3> QED BY <2>4, <3>1
  <2>7. UserPtr(b) \in Nat
    BY <2>2, UserPtrIs
  <2> QED BY <2>3, <2>4, <2>5, <2>6, <2>7, ReadyInvNext
<1> QED BY <1>2, <1>3, <1>4 DEF Allocate

(* kcalloc's overflow check: when it passes, the product is exact. *)
LEMMA CallocExact ==
  ASSUME NEW num \in Nat, NEW size \in Nat, ~CallocOverflows(num, size)
  PROVE  CallocTotal(num, size) = num * size
<1> DEFINE p == num * size
           c == p % SIZE_MOD
<1>0. SIZE_MOD \in Nat /\ SIZE_MOD > 0
  BY ArenaAssumption
<1>1. p \in Nat
  OBVIOUS
<1>2. CASE size = 0
  <2>1. p = 0
    BY <1>2
  <2> QED BY <1>0, <2>1 DEF CallocTotal
<1>3. CASE size # 0
  <2>1. (c \div size) = num
    BY <1>3 DEF CallocOverflows, CallocTotal
  <2>2. c \in Nat /\ c <= p
    <3> HIDE DEF p
    <3>1. c \in Nat
      BY <1>0, <1>1
    <3>2. p = SIZE_MOD * (p \div SIZE_MOD) + c
      BY <1>0, <1>1, DivMod
    <3>3. (p \div SIZE_MOD) \in Nat
      BY <1>0, <1>1
    <3>4. SIZE_MOD * (p \div SIZE_MOD) \in Nat
      BY <1>0, <3>3
    <3> HIDE DEF c
    <3> QED BY <1>1, <3>1, <3>2, <3>4
  <2> HIDE DEF c
  <2>3. c = size * (c \div size) + (c % size)
    BY <1>3, <2>2, DivMod
  <2>4. (c % size) \in Nat
    BY <1>3, <2>2
  <2>5. size * num = p
    OBVIOUS
  <2>6. c = p
    BY <1>1, <2>1, <2>2, <2>3, <2>4, <2>5
  <2> QED BY <2>6 DEF CallocTotal, c
<1> QED BY <1>2, <1>3

-----------------------------------------------------------------------------
(* One lemma per operation.                                                *)

LEMMA InitStep ==
  ASSUME Init
  PROVE  HeapInv
<1>1. <<>> \in Seq(Block) /\ Len(<<>>) = 0
  OBVIOUS
<1>2. Merged(<<>>)
  BY <1>1 DEF Merged, Ordered
<1>3. Sound(free_list, live)
  BY <1>2 DEF Init, Sound
<1> QED BY <1>3 DEF Init, HeapInv, TypeOK, NULL

LEMMA HeapInitStep ==
  ASSUME HeapInv, NEW ok \in BOOLEAN, heap_init(ok)
  PROVE  HeapInv'
<1> DEFINE b == [addr |-> KERNEL_HEAP_START, size |-> KERNEL_HEAP_INITIAL_SIZE]
<1>1. CASE /\ phase = "uninit" /\ phase' = "ready"
           /\ free_list' = <<b>> /\ UNCHANGED <<live, result>>
  <2>1. /\ b \in Block /\ b.addr = KERNEL_HEAP_START
        /\ b.size = KERNEL_HEAP_INITIAL_SIZE /\ ArenaBlock(b)
    BY ArenaAssumption
    DEF Block, ArenaBlock, InArena, End, ArenaEnd, MIN_ALLOC_SIZE, HEAP_ALIGNMENT
  <2> HIDE DEF b
  <2>2. /\ <<b>> \in Seq(Block) /\ Len(<<b>>) = 1 /\ <<b>>[1] = b
    BY <2>1
  <2>3. Merged(<<b>>)
    BY <2>1, <2>2 DEF Merged, Ordered, Gap
  <2>4. ASSUME NEW x \in KERNEL_HEAP_START .. (ArenaEnd - 1)
        PROVE  x \in FreeBytes(<<b>>)
    <3>1. x \in Nat /\ Covers(b, x)
      BY <2>1, ArenaAssumption DEF Covers, End, ArenaEnd
    <3> QED BY <2>2, <3>1 DEF FreeBytes
  <2>5. live = {} /\ result \in [ptr : Nat, need : Nat]
    BY <1>1 DEF HeapInv, TypeOK
  <2>6. Blocks(<<b>>, {})
    BY <2>2, <2>3, <2>4 DEF Blocks, Sound, Full
  <2>7. Blocks(free_list, live)'
    BY <1>1, <2>5, <2>6 DEF Blocks, Sound, Full
  <2> QED BY <1>1, <2>5, <2>7, ReadyInvNext
<1>2. CASE phase' = "panic" /\ UNCHANGED <<free_list, live, result>>
  BY <1>2 DEF HeapInv, TypeOK
<1>3. CASE UNCHANGED vars
  BY <1>3 DEF HeapInv, TypeOK, vars, Usable, Roomy
<1> QED BY <1>1, <1>2, <1>3 DEF heap_init

LEMMA KmallocStep ==
  ASSUME HeapInv, NEW size \in Sizes, kmalloc(size)
  PROVE  HeapInv'
<1>1. size \in 0 .. (SIZE_MOD - 1) /\ 0 \in 0 .. size
  BY ArenaAssumption
<1> QED BY <1>1, AllocateStep DEF kmalloc

LEMMA KcallocStep ==
  ASSUME HeapInv, NEW num \in Sizes, NEW size \in Sizes, kcalloc(num, size)
  PROVE  HeapInv'
<1>1. num \in Nat /\ size \in Nat /\ phase = "ready"
  BY ArenaAssumption DEF kcalloc
<1>2. CASE CallocOverflows(num, size) /\ result' = [ptr |-> NULL, need |-> 0]
           /\ UNCHANGED <<phase, free_list, live>>
  <2>1. Blocks(free_list, live)
    BY <1>1, ReadyInv
  <2> QED BY <1>1, <1>2, <2>1, ReadyInvNext DEF NULL
<1>3. CASE ~CallocOverflows(num, size)
  <2> DEFINE total == CallocTotal(num, size)
  <2>1. total = num * size
    BY <1>1, <1>3, CallocExact
  <2>2. total \in 0 .. (SIZE_MOD - 1)
    <3>1. num * size \in Nat
      BY <1>1
    <3>2. \A p \in Nat : p % SIZE_MOD \in 0 .. (SIZE_MOD - 1)
      BY ArenaAssumption
    <3> QED BY <3>1, <3>2 DEF CallocTotal
  <2>3. Allocate(total, num * size, total)
    BY <1>3 DEF kcalloc
  <2> HIDE DEF total
  <2>4. Allocate(total, total, total)
    BY <2>1, <2>3
  <2>5. total \in 0 .. total
    BY <2>2
  <2> QED BY <1>1, <2>2, <2>4, <2>5, AllocateStep
<1> QED BY <1>2, <1>3 DEF kcalloc

(* kfree's sanity check never refuses a block that was handed out. *)
LEMMA LiveValid ==
  ASSUME NEW b, ArenaBlock(b)
  PROVE  ~Invalid(UserPtr(b), b.size)
<1>1. /\ b.addr \in Nat /\ b.size \in Nat /\ b.size >= 16 /\ b.addr % 16 = 0
      /\ KERNEL_HEAP_START <= b.addr /\ b.addr + b.size <= ArenaEnd
  BY DEF ArenaBlock, InArena, End, MIN_ALLOC_SIZE, HEAP_ALIGNMENT
<1>2. UserPtr(b) - HEADER = b.addr
  BY <1>1 DEF UserPtr, HEADER
<1>3. KERNEL_HEAP_START \in Nat /\ ArenaEnd \in Nat
  BY ArenaAssumption DEF ArenaEnd
<1> QED BY <1>1, <1>2, <1>3 DEF Invalid, MIN_ALLOC_SIZE, HEAP_ALIGNMENT

LEMMA KfreeStep ==
  ASSUME HeapInv, NEW b \in live, kfree(b)
  PROVE  HeapInv'
<1>1. phase = "ready" /\ Blocks(free_list, live)
  BY ReadyInv DEF kfree
<1>2. ~Invalid(UserPtr(b), b.size)
  BY <1>1, LiveValid DEF Blocks, Sound
<1>3. PICK k \in 1 .. (Len(free_list) + 1) :
        /\ InsertionPoint(free_list, b.addr, k)
        /\ free_list' = Release(free_list, k, b)
  BY <1>2 DEF kfree
<1>4. Blocks(Release(free_list, k, b), live \ {b})
  BY <1>1, <1>3, BlocksRelease
<1>5. live' = live \ {b} /\ phase' = phase /\ result' = [ptr |-> NULL, need |-> 0]
  BY <1>2 DEF kfree
<1>6. Blocks(free_list, live)'
  BY <1>3, <1>4, <1>5 DEF Blocks, Sound, Full
<1> QED BY <1>1, <1>5, <1>6, ReadyInvNext DEF NULL

LEMMA KfreeStrayStep ==
  ASSUME HeapInv, NEW p, NEW size, kfree_stray(p, size)
  PROVE  HeapInv'
<1>1. Blocks(free_list, live) /\ phase = "ready"
  BY ReadyInv DEF kfree_stray
<1>2. /\ phase' \in {phase, "panic"} /\ result' = [ptr |-> NULL, need |-> 0]
      /\ UNCHANGED <<free_list, live>>
  BY DEF kfree_stray
<1> QED BY <1>1, <1>2, ReadyInvNext DEF NULL

LEMMA KreallocStep ==
  ASSUME HeapInv, NEW b \in live, NEW size \in Sizes, krealloc(b, size)
  PROVE  HeapInv'
<1>0. size \in 0 .. (SIZE_MOD - 1) /\ size \in Nat
  BY ArenaAssumption
<1>1. CASE kfree(b)
  BY <1>1, KfreeStep
<1>2. CASE /\ phase = "ready" /\ size <= Usable(b)
           /\ live' = (live \ {b}) \cup {[b EXCEPT !.req = size]}
           /\ result' = [ptr |-> UserPtr(b), need |-> 0]
           /\ UNCHANGED <<phase, free_list>>
  <2> DEFINE c == [b EXCEPT !.req = size]
  <2>1. Blocks(free_list, live) /\ b \in LiveBlock /\ ArenaBlock(b)
    BY <1>2, ReadyInv DEF Blocks, Sound
  <2>2. /\ c \in LiveBlock /\ c.addr = b.addr /\ c.size = b.size /\ c.req = size
    BY <1>0, <2>1 DEF LiveBlock
  <2> HIDE DEF c
  <2>3. Roomy(c)
    BY <1>2, <2>2 DEF Roomy, Usable
  <2>4. /\ Sound(free_list, (live \ {b}) \cup {c})
        /\ Full(free_list, (live \ {b}) \cup {c})
    BY <2>1, <2>2, SoundRelabel DEF Blocks
  <2>5. Blocks(free_list, (live \ {b}) \cup {c})
    BY <2>1, <2>2, <2>3, <2>4 DEF Blocks
  <2>6. live' = (live \ {b}) \cup {c}
    BY <1>2 DEF c
  <2>7. Blocks(free_list, live)'
    BY <1>2, <2>5, <2>6 DEF Blocks, Sound, Full
  <2>8. UserPtr(b) \in Nat
    BY <2>1, UserPtrIs
  <2> QED BY <1>2, <2>7, <2>8, ReadyInvNext
<1>3. CASE /\ phase = "ready" /\ result' = [ptr |-> NULL, need |-> TotalSize(size)]
           /\ UNCHANGED <<phase, free_list, live>>
  BY <1>0, <1>3, ReadyInv, ReadyInvNext, TotalSizeIs DEF NULL
<1>4. ASSUME phase = "ready", size > Usable(b), NEW i \in DOMAIN free_list,
             LET t == TotalSize(size)
                 n == Carved(free_list, t, i, size)
                 l == Carve(free_list, t, i)
             IN  /\ Fits(free_list, t, i)
                 /\ \E k \in 1 .. (Len(l) + 1) :
                      /\ InsertionPoint(l, b.addr, k)
                      /\ free_list' = Release(l, k, b)
                 /\ live' = (live \ {b}) \cup {n}
                 /\ result' = [ptr |-> UserPtr(n), need |-> t]
                 /\ phase' = IF Usable(b) > Usable(n) THEN "overrun" ELSE phase
      PROVE  HeapInv'
  <2> DEFINE t == TotalSize(size)
             n == Carved(free_list, t, i, size)
             l == Carve(free_list, t, i)
  <2>1. Blocks(free_list, live) /\ Fits(free_list, t, i)
    BY <1>4, ReadyInv
  <2>2. /\ Blocks(l, live \cup {n}) /\ n \in LiveBlock /\ n \notin live
        /\ ArenaBlock(n) /\ n.req = size
        /\ Usable(n) >= size \/ Wraps(size)
    BY <1>0, <2>1, BlocksCarve
  <2>3. t \in Nat
    BY <1>0, TotalSizeIs
  <2>4. PICK k \in 1 .. (Len(l) + 1) :
          /\ InsertionPoint(l, b.addr, k)
          /\ free_list' = Release(l, k, b)
    BY <1>4
  <2>5. /\ live' = (live \ {b}) \cup {n}
        /\ result' = [ptr |-> UserPtr(n), need |-> t]
        /\ phase' = IF Usable(b) > Usable(n) THEN "overrun" ELSE phase
    BY <1>4
  <2> HIDE DEF t, n, l
  <2>6. Blocks(Release(l, k, b), (live \cup {n}) \ {b})
    BY <2>2, <2>4, BlocksRelease
  <2>7. (live \cup {n}) \ {b} = (live \ {b}) \cup {n}
    BY <2>2
  <2>8. Blocks(free_list, live)'
    BY <2>4, <2>5, <2>6, <2>7 DEF Blocks, Sound, Full
  <2>9. phase' = "overrun" => \E c \in live' : Wraps(c.req)
    <3>1. ArenaBlock(b)
      BY <2>1 DEF Blocks, Sound
    <3>2. ASSUME phase' = "overrun" PROVE Wraps(n.req)
      <4>1. Usable(b) > Usable(n)
        BY <1>4, <2>5, <3>2
      <4> QED BY <1>0, <1>4, <2>2, <3>1, <4>1 DEF Usable, HEADER, ArenaBlock
    <3> QED BY <2>5, <3>2
  <2>10. UserPtr(n) \in Nat
    BY <2>2, UserPtrIs
  <2> QED BY <1>4, <2>3, <2>5, <2>8, <2>9, <2>10, ReadyInvNext
<1> QED BY <1>1, <1>2, <1>3, <1>4 DEF krealloc

LEMMA NextStep ==
  ASSUME HeapInv, [Next]_vars
  PROVE  HeapInv'
<1>1. CASE UNCHANGED vars
  BY <1>1 DEF HeapInv, TypeOK, vars
<1>2. CASE Next
  BY <1>1, <1>2, HeapInitStep, KmallocStep, KcallocStep, KfreeStep,
     KreallocStep, KfreeStrayStep DEF Next, Halted
<1> QED BY <1>1, <1>2

(* Every behaviour of the heap keeps the invariant. *)
THEOREM Invariance == Spec => []HeapInv
<1>1. Init => HeapInv
  BY InitStep
<1>2. HeapInv /\ [Next]_vars => HeapInv'
  BY NextStep
<1> QED BY <1>1, <1>2, PTL DEF Spec

-----------------------------------------------------------------------------
(* What the invariant gives.                                               *)

LEMMA InvMerged ==
  ASSUME HeapInv
  PROVE  FreeListMerged
<1>1. free_list \in Seq(Block) /\ Merged(free_list)
  BY DEF HeapInv, TypeOK, Sound
<1> QED BY <1>1, MergedIs DEF FreeListMerged

LEMMA InvApart ==
  ASSUME HeapInv
  PROVE  LiveApart
<1>1. Sound(free_list, live) /\ free_list \in Seq(Block)
  BY DEF HeapInv, TypeOK
<1>2. \A i \in DOMAIN free_list :
        ArenaBlock(free_list[i]) /\ Bytes(free_list[i]) \subseteq FreeBytes(free_list)
  BY <1>1 DEF Sound, Merged, Ordered, Bytes, FreeBytes
<1>3. ASSUME NEW b \in live PROVE InArena(b) /\ ~Invalid(UserPtr(b), b.size)
  BY <1>1, LiveValid DEF Sound, ArenaBlock
<1>4. ASSUME NEW b \in live, NEW c \in live, b # c PROVE Apart(b, c)
  BY <1>1, <1>4, ApartBytes DEF Sound
<1>5. ASSUME NEW b \in live, NEW i \in DOMAIN free_list
      PROVE  Apart(b, free_list[i])
  <2>1. Bytes(b) \cap Bytes(free_list[i]) = {} /\ ArenaBlock(b)
    BY <1>1, <1>2 DEF Sound
  <2> QED BY <1>2, <2>1, ApartBytes
<1> QED BY <1>3, <1>4, <1>5 DEF LiveApart

LEMMA InvNoLeak ==
  ASSUME HeapInv
  PROVE  NoLeak
<1>1. DOMAIN free_list = 1 .. Len(free_list)
  BY DEF HeapInv, TypeOK
<1> QED BY <1>1 DEF HeapInv, NoLeak, Full, Bytes, FreeBytes

(* A run of free bytes lies inside one free block. *)
LEMMA FreeRun ==
  ASSUME NEW l, Merged(l), NEW a \in Nat, NEW t \in Nat, t > 0,
         \A x \in a .. (a + t - 1) : x \in FreeBytes(l)
  PROVE  \E i \in 1 .. Len(l) : l[i].addr <= a /\ a + t <= End(l[i])
<1>1. /\ Len(l) \in Nat /\ DOMAIN l = 1 .. Len(l) /\ l \in Seq(Block)
      /\ \A i \in 1 .. Len(l) :
           /\ l[i].addr \in Nat /\ l[i].size \in Nat /\ End(l[i]) \in Nat
           /\ l[i].addr < End(l[i])
  <2>1. Ordered(l)
    BY DEF Merged
  <2>2. Len(l) \in Nat /\ DOMAIN l = 1 .. Len(l) /\ l \in Seq(Block)
    BY <2>1, OrderedBlocks DEF Ordered
  <2>3. ASSUME NEW i \in 1 .. Len(l)
        PROVE  /\ l[i].addr \in Nat /\ l[i].size \in Nat /\ l[i].size >= 16
               /\ End(l[i]) = l[i].addr + l[i].size
    BY <2>1, OrderedBlocks
  <2>4. ASSUME NEW i \in 1 .. Len(l)
        PROVE  End(l[i]) \in Nat /\ l[i].addr < End(l[i])
    BY <2>3
  <2> QED BY <2>2, <2>3, <2>4
<1>2. \A i, j \in 1 .. Len(l) : i < j => End(l[i]) < l[j].addr
  BY <1>1, MergedIs
<1>3. PICK i \in 1 .. Len(l) : l[i].addr <= a /\ a < End(l[i])
  <2>1. a \in FreeBytes(l)
    OBVIOUS
  <2> QED BY <2>1 DEF FreeBytes, Covers
<1>4. a + t <= End(l[i])
  <2>1. SUFFICES ASSUME End(l[i]) < a + t PROVE FALSE
    BY <1>1
  <2>2. End(l[i]) \in FreeBytes(l)
    <3>1. End(l[i]) \in a .. (a + t - 1)
      BY <1>1, <1>3, <2>1
    <3> QED BY <3>1
  <2>3. PICK j \in 1 .. Len(l) : l[j].addr <= End(l[i]) /\ End(l[i]) < End(l[j])
    BY <2>2 DEF FreeBytes, Covers
  <2>4. CASE i < j
    <3>1. End(l[i]) < l[j].addr
      BY <1>2, <2>4
    <3> QED BY <1>1, <2>3, <3>1
  <2>5. CASE j < i
    <3>1. End(l[j]) < l[i].addr
      BY <1>2, <2>5
    <3> QED BY <1>1, <2>3, <3>1
  <2>6. CASE i = j
    BY <1>1, <2>3, <2>6
  <2> QED BY <1>1, <2>4, <2>5, <2>6
<1> QED BY <1>3, <1>4

LEMMA InvReclaimed ==
  ASSUME HeapInv
  PROVE  Reclaimed
<1>1. SUFFICES ASSUME phase = "ready", live = {}
               PROVE  free_list = <<[addr |-> KERNEL_HEAP_START,
                                     size |-> KERNEL_HEAP_INITIAL_SIZE]>>
  BY DEF Reclaimed
<1> DEFINE l == free_list
<1>2. /\ Merged(l) /\ Ordered(l) /\ l \in Seq(Block)
      /\ \A x \in KERNEL_HEAP_START .. (ArenaEnd - 1) : x \in FreeBytes(l)
  BY <1>1 DEF HeapInv, Sound, Full, Merged, Ordered
<1> HIDE DEF l
<1>3. /\ Len(l) \in Nat
      /\ \A i \in 1 .. Len(l) :
           /\ l[i] \in Block /\ l[i] = [addr |-> l[i].addr, size |-> l[i].size]
           /\ l[i].addr \in Nat /\ l[i].size \in Nat /\ l[i].size >= 16
           /\ KERNEL_HEAP_START <= l[i].addr
           /\ l[i].addr + l[i].size <= ArenaEnd
           /\ End(l[i]) = l[i].addr + l[i].size
  BY <1>2, OrderedBlocks
<1>4. /\ KERNEL_HEAP_START \in Nat /\ KERNEL_HEAP_INITIAL_SIZE \in Nat
      /\ KERNEL_HEAP_INITIAL_SIZE > 0
      /\ ArenaEnd = KERNEL_HEAP_START + KERNEL_HEAP_INITIAL_SIZE
      /\ ArenaEnd - 1 = KERNEL_HEAP_START + KERNEL_HEAP_INITIAL_SIZE - 1
  BY ArenaAssumption DEF ArenaEnd
<1>5. PICK i \in 1 .. Len(l) :
        l[i].addr <= KERNEL_HEAP_START
        /\ KERNEL_HEAP_START + KERNEL_HEAP_INITIAL_SIZE <= End(l[i])
  <2>1. \A x \in KERNEL_HEAP_START
                  .. (KERNEL_HEAP_START + KERNEL_HEAP_INITIAL_SIZE - 1) :
          x \in FreeBytes(l)
    BY <1>2, <1>4
  <2> QED BY <1>2, <1>4, <2>1, FreeRun
<1>6. l[i].addr = KERNEL_HEAP_START /\ l[i].size = KERNEL_HEAP_INITIAL_SIZE
      /\ End(l[i]) = ArenaEnd
  <2>1. /\ l[i].addr \in Nat /\ l[i].size \in Nat
        /\ KERNEL_HEAP_START <= l[i].addr /\ l[i].addr + l[i].size <= ArenaEnd
        /\ End(l[i]) = l[i].addr + l[i].size
    BY <1>3
  <2> QED BY <1>4, <1>5, <2>1
<1>7. ASSUME NEW j \in 1 .. Len(l), j # i PROVE FALSE
  <2>0. /\ l[j].addr \in Nat /\ l[j].size \in Nat /\ l[j].size >= 16
        /\ KERNEL_HEAP_START <= l[j].addr /\ l[j].addr + l[j].size <= ArenaEnd
        /\ End(l[j]) = l[j].addr + l[j].size
    BY <1>3
  <2>1. CASE i < j
    <3>1. End(l[i]) <= l[j].addr
      BY <1>2, <2>1 DEF Ordered
    <3> QED BY <1>4, <1>6, <2>0, <3>1
  <2>2. CASE j < i
    <3>1. End(l[j]) <= l[i].addr
      BY <1>2, <2>2 DEF Ordered
    <3> QED BY <1>4, <1>6, <2>0, <3>1
  <2> QED BY <1>7, <2>1, <2>2
<1>8. Len(l) = 1 /\ i = 1
  <2>1. 1 \in 1 .. Len(l) /\ Len(l) \in 1 .. Len(l)
    BY <1>3
  <2> QED BY <1>7, <2>1
<1>9. l[1] = [addr |-> KERNEL_HEAP_START, size |-> KERNEL_HEAP_INITIAL_SIZE]
  BY <1>3, <1>6, <1>8
<1>10. l = <<l[1]>>
  BY <1>2, <1>8
<1> QED BY <1>9, <1>10 DEF l

LEMMA InvRoom ==
  ASSUME HeapInv
  PROVE  RoomUnlessWrap
BY DEF HeapInv, Roomy, RoomUnlessWrap

-----------------------------------------------------------------------------
(* Theorems.                                                               *)

(* The heap's variables keep their types. *)
THEOREM TypeCorrect == Spec => []TypeOK
BY Invariance, PTL DEF HeapInv

(* kmalloc and kfree keep the free list in address order and merged. *)
THEOREM MergedFreeList == Spec => []FreeListMerged
BY Invariance, InvMerged, PTL

(* No two blocks overlap, live or free, and kfree accepts every live one. *)
THEOREM LiveApartness == Spec => []LiveApart
BY Invariance, InvApart, PTL

(* No byte of the arena is lost. *)
THEOREM Leakless == Spec => []NoLeak
BY Invariance, InvNoLeak, PTL

(* When everything has been freed the arena is one block again. *)
THEOREM Reclamation == Spec => []Reclaimed
BY Invariance, InvReclaimed, PTL

(* A block holds what was asked for unless the size wrapped. *)
THEOREM Room == Spec => []RoomUnlessWrap
BY Invariance, InvRoom, PTL

-----------------------------------------------------------------------------
(* Refusals.                                                               *)

(* When no block fits, every place for t bytes meets a live block. *)
LEMMA NoFitFull ==
  ASSUME NEW l, NEW L, Blocks(l, L), NEW t \in Nat, t > 0, NoFit(l, t),
         NEW a \in KERNEL_HEAP_START .. (ArenaEnd - t)
  PROVE  \E b \in L : ~Apart(b, [addr |-> a, size |-> t])
<1> DEFINE c == [addr |-> a, size |-> t]
<1>1. SUFFICES ASSUME \A b \in L : Apart(b, c) PROVE FALSE
  OBVIOUS
<1>2. /\ a \in Nat /\ KERNEL_HEAP_START <= a /\ a + t <= ArenaEnd
      /\ KERNEL_HEAP_START \in Nat /\ ArenaEnd \in Nat
      /\ c.addr = a /\ c.size = t
  BY ArenaAssumption DEF ArenaEnd
<1> HIDE DEF c
<1>3. Merged(l) /\ Ordered(l) /\ l \in Seq(Block)
  BY DEF Blocks, Sound, Merged
<1>4. ASSUME NEW x \in a .. (a + t - 1) PROVE x \in FreeBytes(l)
  <2>1. x \in Nat /\ a <= x /\ x < a + t
    BY <1>2
  <2>2. x \in KERNEL_HEAP_START .. (ArenaEnd - 1)
    BY <1>2, <2>1
  <2>3. ASSUME NEW b \in L, x \in Bytes(b) PROVE FALSE
    <3>1. b.addr \in Nat /\ b.size \in Nat
      BY DEF Blocks, Sound, ArenaBlock
    <3>2. b.addr <= x /\ x < b.addr + b.size
      BY <2>3 DEF Bytes, Covers, End
    <3>3. b.addr + b.size <= a \/ a + t <= b.addr
      BY <1>1, <1>2 DEF Apart, End
    <3> QED BY <1>2, <2>1, <3>1, <3>2, <3>3
  <2> QED BY <2>2, <2>3 DEF Blocks, Full
<1>5. PICK i \in 1 .. Len(l) : l[i].addr <= a /\ a + t <= End(l[i])
  BY <1>2, <1>3, <1>4, FreeRun
<1>6. /\ l[i].addr \in Nat /\ l[i].size \in Nat /\ i \in DOMAIN l
      /\ End(l[i]) = l[i].addr + l[i].size
  BY <1>3, OrderedBlocks
<1>7. l[i].size >= t
  BY <1>2, <1>5, <1>6
<1> QED BY <1>6, <1>7 DEF NoFit, LargeEnough

(* A refused request meets a live block wherever it is placed. *)
LEMMA RefusalStep ==
  ASSUME HeapInv, phase = "ready", NEW total \in 0 .. (SIZE_MOD - 1),
         NoFit(free_list, TotalSize(total)),
         result' = [ptr |-> NULL, need |-> TotalSize(total)], live' = live
  PROVE  RefusedOnlyWhenFull'
<1>1. Blocks(free_list, live)
  BY ReadyInv
<1>2. TotalSize(total) \in Nat /\ TotalSize(total) > 0
  BY TotalSizeIs
<1>3. result'.need = TotalSize(total)
  OBVIOUS
<1> DEFINE t == TotalSize(total)
<1> HIDE DEF t
<1>4. \A a \in KERNEL_HEAP_START .. (ArenaEnd - t) :
        \E b \in live : ~Apart(b, [addr |-> a, size |-> t])
  BY <1>1, <1>2, NoFitFull DEF t
<1> QED BY <1>3, <1>4 DEF RefusedOnlyWhenFull, t

(* A step that answers with a pointer, or did not search, refuses nothing. *)
LEMMA AnswerStep ==
  ASSUME result'.ptr # NULL \/ result'.need = 0
  PROVE  RefusedOnlyWhenFull'
BY DEF RefusedOnlyWhenFull

LEMMA AllocateAnswer ==
  ASSUME HeapInv, phase = "ready", NEW total \in 0 .. (SIZE_MOD - 1),
         NEW req, NEW written, Allocate(total, req, written)
  PROVE  RefusedOnlyWhenFull'
<1>1. CASE result' = [ptr |-> NULL, need |-> 0]
  BY <1>1, AnswerStep
<1>2. CASE /\ NoFit(free_list, TotalSize(total)) /\ live' = live
           /\ result' = [ptr |-> NULL, need |-> TotalSize(total)]
  BY <1>2, RefusalStep
<1>3. ASSUME NEW i \in DOMAIN free_list,
             Fits(free_list, TotalSize(total), i),
             result'.ptr = UserPtr(Carved(free_list, TotalSize(total), i, req))
      PROVE  RefusedOnlyWhenFull'
  <2>1. Sound(free_list, live) /\ free_list \in Seq(Block)
    BY DEF HeapInv, TypeOK
  <2>2. i \in 1 .. Len(free_list) /\ free_list[i].size >= TotalSize(total)
    BY <1>3, <2>1 DEF Fits, LargeEnough
  <2>3. ArenaBlock(Carved(free_list, TotalSize(total), i, req))
    BY <2>1, <2>2, TotalSizeIs, SoundCarve
  <2> QED BY <1>3, <2>3, UserPtrIs, AnswerStep
<1> QED BY <1>1, <1>2, <1>3 DEF Allocate

(* An allocation is refused only when no run of free bytes is long enough. *)
THEOREM RefusalsJustified == Spec => []RefusedOnlyWhenFull
<1>1. Init => RefusedOnlyWhenFull
  BY DEF Init, RefusedOnlyWhenFull
<1>2. ASSUME HeapInv, RefusedOnlyWhenFull, [Next]_vars
      PROVE  RefusedOnlyWhenFull'
  <2>0. \A size \in Sizes : size \in 0 .. (SIZE_MOD - 1)
    BY ArenaAssumption
  <2>1. CASE UNCHANGED <<live, result>>
    BY <1>2, <2>1 DEF RefusedOnlyWhenFull
  <2>2. ASSUME NEW ok \in BOOLEAN, heap_init(ok) PROVE UNCHANGED <<live, result>>
    BY <2>2 DEF heap_init, vars
  <2>3. ASSUME NEW size \in Sizes, kmalloc(size) PROVE RefusedOnlyWhenFull'
    BY <1>2, <2>0, <2>3, AllocateAnswer DEF kmalloc
  <2>4. ASSUME NEW num \in Sizes, NEW size \in Sizes, kcalloc(num, size)
        PROVE  RefusedOnlyWhenFull'
    <3>1. CASE result' = [ptr |-> NULL, need |-> 0]
      BY <3>1, AnswerStep
    <3>2. CASE Allocate(CallocTotal(num, size), num * size, CallocTotal(num, size))
      <4>1. CallocTotal(num, size) \in 0 .. (SIZE_MOD - 1)
        <5>1. num \in Nat /\ size \in Nat
          BY <2>0, ArenaAssumption
        <5>2. num * size \in Nat
          BY <5>1
        <5>3. \A p \in Nat : p % SIZE_MOD \in 0 .. (SIZE_MOD - 1)
          BY ArenaAssumption
        <5> QED BY <5>2, <5>3 DEF CallocTotal
      <4>2. phase = "ready"
        BY <2>4 DEF kcalloc
      <4> DEFINE total == CallocTotal(num, size)
      <4> HIDE DEF total
      <4>3. total \in 0 .. (SIZE_MOD - 1) /\ Allocate(total, num * size, total)
        BY <3>2, <4>1 DEF total
      <4> QED BY <1>2, <4>2, <4>3, AllocateAnswer
    <3> QED BY <2>4, <3>1, <3>2 DEF kcalloc
  <2>5. ASSUME NEW b, kfree(b) PROVE RefusedOnlyWhenFull'
    BY <2>5, AnswerStep DEF kfree
  <2>6. ASSUME NEW b \in live, NEW size \in Sizes, krealloc(b, size)
        PROVE  RefusedOnlyWhenFull'
    <3>1. CASE kfree(b)
      BY <3>1, <2>5
    <3>2. CASE result'.need = 0
      BY <3>2, AnswerStep
    <3>3. CASE /\ phase = "ready" /\ NoFit(free_list, TotalSize(size))
               /\ live' = live /\ result' = [ptr |-> NULL, need |-> TotalSize(size)]
      BY <1>2, <2>0, <3>3, RefusalStep
    <3>4. ASSUME NEW i \in DOMAIN free_list,
                 Fits(free_list, TotalSize(size), i),
                 result'.ptr = UserPtr(Carved(free_list, TotalSize(size), i, size))
          PROVE  RefusedOnlyWhenFull'
      <4>1. Sound(free_list, live) /\ free_list \in Seq(Block)
        BY <1>2 DEF HeapInv, TypeOK
      <4>2. i \in 1 .. Len(free_list) /\ free_list[i].size >= TotalSize(size)
        BY <3>4, <4>1 DEF Fits, LargeEnough
      <4>3. ArenaBlock(Carved(free_list, TotalSize(size), i, size))
        BY <2>0, <4>1, <4>2, TotalSizeIs, SoundCarve
      <4> QED BY <3>4, <4>3, UserPtrIs, AnswerStep
    <3> QED BY <2>6, <3>1, <3>2, <3>3, <3>4 DEF krealloc
  <2>7. ASSUME NEW p, NEW size, kfree_stray(p, size) PROVE RefusedOnlyWhenFull'
    BY <2>7, AnswerStep DEF kfree_stray
  <2> QED BY <1>2, <2>1, <2>2, <2>3, <2>4, <2>5, <2>6, <2>7 DEF Next, Halted, vars
<1> QED BY <1>1, <1>2, Invariance, PTL DEF Spec
=============================================================================
