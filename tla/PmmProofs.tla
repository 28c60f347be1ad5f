------------------------------ MODULE PmmProofs -----------------------------
(***************************************************************************)
(* Proofs about the physical memory manager, for every page size, bitmap   *)
(* size and set of boot environments that satisfy Pmm's assumptions.       *)
(***************************************************************************)
EXTENDS Pmm, WellFoundedInduction, FiniteSetTheorems, TLAPS

-----------------------------------------------------------------------------
(* Natural numbers                                                        *)

(* A nonempty set of naturals has a least element.  The library states the *)
(* principle for predicates; this form is for sets, and serves the proofs  *)
(* for induction: consider the least counterexample.                       *)
LEMMA LeastNat ==
  ASSUME NEW T \in SUBSET Nat, T # {}
  PROVE  \E m \in T : \A k \in T : m <= k
<1>1. PICK R : IsWellFoundedOn(R, Nat) /\ R = OpToRel(<, Nat)
  BY NatLessThanWellFounded, Zenon
<1>2. \A x, y \in Nat : y < x => <<y, x>> \in R
  BY <1>1 DEF OpToRel
<1>3. PICK x \in T : \A y \in T : ~(<<y, x>> \in R)
  BY <1>1, WFMin
<1>4. \A y \in T : ~(y < x)
  BY <1>2, <1>3
<1>5. \A y \in T : x <= y
  BY <1>4
<1> QED BY <1>5

(* A nonempty, bounded set of naturals has a greatest element. *)
LEMMA GreatestNat ==
  ASSUME NEW T \in SUBSET Nat, T # {}, NEW b \in Nat, \A k \in T : k <= b
  PROVE  \E m \in T : \A k \in T : k <= m
<1> DEFINE U == {u \in Nat : \A k \in T : k <= u}
<1>1. PICK m \in U : \A u \in U : m <= u
  <2>1. U \in SUBSET Nat /\ U # {}
    OBVIOUS
  <2> QED BY <2>1, LeastNat
<1>2. m \in T
  <2>1. SUFFICES ASSUME m \notin T PROVE FALSE
    OBVIOUS
  <2>2. \A k \in T : k <= m - 1
    BY <2>1, <1>1
  <2>3. m - 1 \in Nat
    <3>1. PICK t \in T : TRUE
      OBVIOUS
    <3>2. t \in Nat /\ t <= m - 1 /\ m \in Nat
      BY <3>1, <2>2
    <3> QED BY <3>2
  <2>4. m - 1 \in U
    BY <2>2, <2>3
  <2> QED BY <2>4, <1>1
<1> QED BY <1>1, <1>2

(* Finitely many naturals have a common upper bound. *)
LEMMA FiniteBound ==
  ASSUME NEW n \in Nat, NEW f \in [1 .. n -> Nat]
  PROVE  \E u \in Nat : \A i \in 1 .. n : f[i] <= u
<1> DEFINE Bounded(j) == \E u \in Nat : \A i \in 1 .. j : f[i] <= u
           bad == {j \in 0 .. n : ~Bounded(j)}
<1>1. SUFFICES ASSUME bad # {} PROVE FALSE
  <2>1. n \notin bad => Bounded(n)
    OBVIOUS
  <2> QED BY <2>1
<1>2. PICK j \in bad : \A k \in bad : j <= k
  <2>1. bad \in SUBSET Nat
    OBVIOUS
  <2> HIDE DEF bad
  <2> QED BY <1>1, <2>1, LeastNat
<1>3. j \in 0 .. n /\ ~Bounded(j)
  BY <1>2
<1>4. j # 0
  BY <1>3
<1>5. Bounded(j - 1)
  <2>1. j - 1 \in 0 .. n /\ ~(j <= j - 1)
    BY <1>3, <1>4
  <2> QED BY <1>2, <2>1
<1>6. PICK u \in Nat : \A i \in 1 .. (j - 1) : f[i] <= u
  BY <1>5
<1>7. f[j] \in Nat
  BY <1>3, <1>4
<1>8. PICK v \in Nat : u <= v /\ f[j] <= v
  <2>1. u + f[j] \in Nat /\ u <= u + f[j] /\ f[j] <= u + f[j]
    BY <1>7
  <2> QED BY <2>1
<1>9. \A i \in 1 .. j : f[i] <= v
  <2>1. \A i \in 1 .. j : i = j \/ i \in 1 .. (j - 1)
    BY <1>3
  <2>2. \A i \in 1 .. j : f[i] \in Nat
    BY <1>3
  <2> QED BY <1>6, <1>7, <1>8, <2>1, <2>2
<1> QED BY <1>3, <1>9

(* Quotient and remainder make up the dividend. *)
LEMMA DivMod ==
  ASSUME NEW x \in Int, NEW d \in Int, d > 0
  PROVE  x = d * (x \div d) + (x % d)
  BY Z3T(30)

-----------------------------------------------------------------------------
(* Page arithmetic.                                                        *)

(* Integer division brackets the dividend. *)
LEMMA DivBounds ==
  ASSUME NEW x \in Nat
  PROVE  /\ PageOf(x) \in Nat
         /\ PAGE_SIZE * PageOf(x) <= x
         /\ x < PAGE_SIZE * PageOf(x) + PAGE_SIZE
  BY SizesAssumption, SMTT(60) DEF PageOf

(* A larger multiple of the page size has the larger factor. *)
LEMMA MulOrder ==
  ASSUME NEW a \in Int, NEW b \in Int, a < b
  PROVE  PAGE_SIZE * a + PAGE_SIZE <= PAGE_SIZE * b
  BY SizesAssumption, SMTT(60)

(* A page's address leads back to the page. *)
LEMMA PageOfAddr ==
  ASSUME NEW i \in Nat
  PROVE  AddrOf(i) \in Nat /\ PageOf(AddrOf(i)) = i
<1>1. AddrOf(i) \in Nat /\ AddrOf(i) = PAGE_SIZE * i
  BY SizesAssumption DEF AddrOf
<1>2. /\ PageOf(AddrOf(i)) \in Nat
      /\ PAGE_SIZE * PageOf(AddrOf(i)) <= PAGE_SIZE * i
      /\ PAGE_SIZE * i < PAGE_SIZE * PageOf(AddrOf(i)) + PAGE_SIZE
  BY <1>1, DivBounds
<1>3. ~(PageOf(AddrOf(i)) < i)
  BY <1>2, MulOrder, SizesAssumption
<1>4. ~(i < PageOf(AddrOf(i)))
  BY <1>2, MulOrder, SizesAssumption
<1> QED BY <1>1, <1>2, <1>3, <1>4

(* Rounding up brackets the address from above. *)
LEMMA AlignUp ==
  ASSUME NEW x \in Nat
  PROVE  ALIGN_UP(x) \in Nat /\ x <= ALIGN_UP(x)
<1>1. x + PAGE_SIZE - 1 \in Nat
  BY SizesAssumption
<1>2. /\ PageOf(x + PAGE_SIZE - 1) \in Nat
      /\ x + PAGE_SIZE - 1 < PAGE_SIZE * PageOf(x + PAGE_SIZE - 1) + PAGE_SIZE
  BY <1>1, DivBounds
<1>3. ALIGN_UP(x) = PAGE_SIZE * PageOf(x + PAGE_SIZE - 1)
  BY <1>2, SizesAssumption DEF ALIGN_UP, PageOf
<1>4. PAGE_SIZE * PageOf(x + PAGE_SIZE - 1) \in Nat
  BY <1>2, SizesAssumption
<1> QED BY <1>2, <1>3, <1>4, SizesAssumption

(* Every byte of a whole page of an entry lies in the entry. *)
LEMMA EntryPagesInside ==
  ASSUME NEW e, e.base \in Nat, e.length \in Nat, NEW p \in EntryPages(e),
         NEW x \in AddrOf(p) .. (AddrOf(p + 1) - 1)
  PROVE  /\ p \in Nat
         /\ e.base <= x /\ x < Top(e)
<1>1. ALIGN_UP(e.base) \in Nat /\ e.base <= ALIGN_UP(e.base) /\ Top(e) \in Nat
  BY AlignUp DEF Top
<1>2. /\ PageOf(ALIGN_UP(e.base)) \in Nat
      /\ PageOf(Top(e)) \in Nat
      /\ PAGE_SIZE * PageOf(Top(e)) <= Top(e)
  BY <1>1, DivBounds
<1>3. p \in Nat /\ PageOf(ALIGN_UP(e.base)) <= p /\ p < PageOf(Top(e))
  BY <1>2 DEF EntryPages, PageRange
<1>4. /\ AddrOf(p) = PAGE_SIZE * p
      /\ AddrOf(p + 1) = PAGE_SIZE * p + PAGE_SIZE
      /\ PAGE_SIZE * p \in Nat
  BY <1>3, SizesAssumption DEF AddrOf
<1>5. PAGE_SIZE * p + PAGE_SIZE <= PAGE_SIZE * PageOf(Top(e))
  BY <1>2, <1>3, MulOrder
<1>6. e.base <= PAGE_SIZE * p
  <2>1. /\ PageOf(e.base + PAGE_SIZE - 1) \in Nat
        /\ ALIGN_UP(e.base) = AddrOf(PageOf(e.base + PAGE_SIZE - 1))
    BY DivBounds, SizesAssumption DEF ALIGN_UP, AddrOf, PageOf
  <2>2. PageOf(ALIGN_UP(e.base)) = PageOf(e.base + PAGE_SIZE - 1)
    BY <2>1, PageOfAddr
  <2>3. ALIGN_UP(e.base) = PAGE_SIZE * PageOf(ALIGN_UP(e.base))
    BY <2>1, <2>2, SizesAssumption DEF AddrOf
  <2>4. PAGE_SIZE * PageOf(ALIGN_UP(e.base)) <= PAGE_SIZE * p
    BY <1>2, <1>3, SizesAssumption
  <2> QED BY <2>3, <2>4, <1>1, <1>4
<1>7. x \in Int /\ PAGE_SIZE * p <= x /\ x < PAGE_SIZE * p + PAGE_SIZE
  BY <1>4, SizesAssumption
<1>8. PAGE_SIZE * PageOf(Top(e)) \in Nat /\ PAGE_SIZE \in Nat
  BY <1>2, SizesAssumption
<1> QED BY <1>1, <1>2, <1>3, <1>4, <1>5, <1>6, <1>7, <1>8

(* A page outside the low pages lies above the limit, rounded down. *)
LEMMA AboveLow ==
  ASSUME NEW p \in Nat, p \notin LowPages, NEW x \in Int, AddrOf(p) <= x
  PROVE  x >= (LOW_LIMIT \div PAGE_SIZE) * PAGE_SIZE
<1>1. PageOf(LOW_LIMIT) \in Nat /\ PageOf(LOW_LIMIT) <= p
  BY DivBounds, SizesAssumption DEF LowPages, PageRange
<1>2. PAGE_SIZE * PageOf(LOW_LIMIT) <= PAGE_SIZE * p
  BY <1>1, SizesAssumption
<1> QED BY <1>1, <1>2, SizesAssumption DEF AddrOf, PageOf

(* Page 0, whose address is NULL, is among the low pages. *)
LEMMA PageZeroLow == 0 \in LowPages
<1>1. /\ PageOf(LOW_LIMIT) \in Nat
      /\ LOW_LIMIT < PAGE_SIZE * PageOf(LOW_LIMIT) + PAGE_SIZE
  BY DivBounds, SizesAssumption
<1>2. PageOf(LOW_LIMIT) # 0
  BY <1>1, SizesAssumption
<1> QED BY <1>1, <1>2 DEF LowPages, PageRange

(* An address without remainder is the address of its page. *)
LEMMA AlignedAddr ==
  ASSUME NEW x \in Nat, x % PAGE_SIZE = 0
  PROVE  x = AddrOf(PageOf(x))
<1>1. x = PAGE_SIZE * (x \div PAGE_SIZE) + (x % PAGE_SIZE)
  BY SizesAssumption, DivMod
<1>2. x \div PAGE_SIZE \in Nat
  BY DivBounds DEF PageOf
<1> QED BY <1>1, <1>2, SizesAssumption DEF AddrOf, PageOf

-----------------------------------------------------------------------------
(* The boot environment.                                                   *)

(* The parts of a boot environment have their types. *)
LEMMA BootFields ==
  ASSUME NEW b \in Boots
  PROVE  /\ b.memmap \in Seq([base : Nat, length : Nat, type : MemTypes])
         /\ \A i \in DOMAIN b.memmap : /\ b.memmap[i].base \in Nat
                                       /\ b.memmap[i].length \in Nat
                                       /\ Top(b.memmap[i]) \in Nat
         /\ b.physical_base \in Nat /\ b.virtual_base \in Nat
         /\ b.text_start \in Nat /\ b.bss_end \in Nat
         /\ b.memory_bitmap \in Nat
<1>1. b \in BootType
  BY BootsAssumption
<1>2. b.memmap \in Seq([base : Nat, length : Nat, type : MemTypes])
  BY <1>1 DEF BootType
<1>3. \A i \in DOMAIN b.memmap :
        b.memmap[i] \in [base : Nat, length : Nat, type : MemTypes]
  <2>1. ASSUME NEW S, NEW s \in Seq(S), NEW i \in DOMAIN s PROVE s[i] \in S
    BY <2>1
  <2> QED BY <1>2, <2>1
<1>4. \A i \in DOMAIN b.memmap : /\ b.memmap[i].base \in Nat
                                 /\ b.memmap[i].length \in Nat
  BY <1>3
<1> QED BY <1>1, <1>2, <1>4, SMTT(30) DEF BootType, Top

(* The map has a highest top, so highest_page is a page with a bit. *)
LEMMA HighestPageType ==
  ASSUME NEW b \in Boots
  PROVE  HighestPage(b) \in 0 .. MaxPages - 1
<1> DEFINE m == b.memmap
           tops == {0} \cup {Top(m[i]) : i \in DOMAIN m}
<1>1. Len(m) \in Nat /\ DOMAIN m = 1 .. Len(m)
  BY BootFields
<1>2. \A i \in 1 .. Len(m) : Top(m[i]) \in Nat
  BY BootFields, <1>1
<1>4. PICK u \in Nat : \A i \in 1 .. Len(m) : Top(m[i]) <= u
  <2> DEFINE f == [i \in 1 .. Len(m) |-> Top(m[i])]
  <2>1. f \in [1 .. Len(m) -> Nat]
    BY <1>2
  <2>2. \E u \in Nat : \A i \in 1 .. Len(m) : f[i] <= u
    <3> HIDE DEF f
    <3> QED BY <1>1, <2>1, FiniteBound
  <2> QED BY <2>2
<1>5. tops \in SUBSET Nat /\ tops # {} /\ \A t \in tops : t <= u
  BY <1>1, <1>2, <1>4
<1>6. \E t \in tops : \A k \in tops : k <= t
  <2> HIDE DEF tops
  <2> QED BY <1>5, GreatestNat
<1> DEFINE high == CHOOSE t \in tops : \A k \in tops : k <= t
<1>7. high \in Nat
  <2> HIDE DEF tops
  <2> QED BY <1>5, <1>6
<1>8. PageOf(high) \in Nat /\ MaxPages \in Nat \ {0}
  <2> HIDE DEF high
  <2> QED BY <1>7, DivBounds, SizesAssumption DEF MaxPages
<1>9. HighestPage(b) = IF PageOf(high) >= MaxPages THEN MaxPages - 1
                                                   ELSE PageOf(high)
  BY DEF HighestPage
<1> HIDE DEF high
<1> QED BY <1>8, <1>9

-----------------------------------------------------------------------------
(* The bitmap and its counter.                                             *)

(* The state the reservation loops work on: a typed record whose           *)
(* free_pages counts the clear bits.                                       *)
Consistent(s) == /\ s \in PmmType
                 /\ s.highest_page < MaxPages
                 /\ s.free_pages = Cardinality(Clear(s))

(* There are finitely many pages to count. *)
LEMMA ClearFinite ==
  ASSUME NEW s, s \in PmmType
  PROVE  IsFiniteSet(Clear(s)) /\ Cardinality(Clear(s)) \in Nat
<1>1. IsFiniteSet(0 .. s.highest_page)
  BY FS_Interval DEF PmmType
<1> QED BY <1>1, FS_Subset, FS_CardinalityType DEF Clear, Managed

(* A reservation loop clears nothing, withholds its pages, and keeps the   *)
(* counter exact whether or not the pages were clear before.               *)
LEMMA ReserveStep ==
  ASSUME NEW s, Consistent(s), NEW R
  PROVE  /\ Consistent(Reserve(s, R))
         /\ Clear(Reserve(s, R)) = Clear(s) \ R
         /\ Reserve(s, R).highest_page = s.highest_page
         /\ Reserve(s, R).total_ram_pages = s.total_ram_pages
<1> DEFINE mine == R \cap Managed(s)
           t == Reserve(s, R)
<1>1. /\ s.bitmap \subseteq 0 .. MaxPages - 1 /\ s.highest_page \in Nat
      /\ s.used_pages \in Int /\ s.free_pages \in Int
      /\ s.total_ram_pages \in Nat /\ s.highest_page < MaxPages
      /\ MaxPages \in Nat
  BY SizesAssumption DEF Consistent, PmmType, MaxPages
<1>2. mine \subseteq 0 .. MaxPages - 1
  BY <1>1 DEF Managed
<1>3. IsFiniteSet(Clear(s)) /\ Cardinality(Clear(s)) \in Nat
  BY ClearFinite DEF Consistent
<1>4. mine \ s.bitmap = Clear(s) \cap R
  BY DEF Clear, Managed
<1>5. /\ Cardinality(Clear(s) \ R)
           = Cardinality(Clear(s)) - Cardinality(Clear(s) \cap R)
      /\ Cardinality(Clear(s) \cap R) \in Nat
  BY <1>3, FS_Difference, FS_Subset, FS_CardinalityType
<1>6. /\ t.bitmap = s.bitmap \cup mine
      /\ t.free_pages = s.free_pages - Cardinality(mine \ s.bitmap)
      /\ t.highest_page = s.highest_page
      /\ t.used_pages = s.used_pages
      /\ t.total_ram_pages = s.total_ram_pages
  BY DEF Reserve, Consistent, PmmType
<1>7. t \in PmmType
  <2>1. s.free_pages - Cardinality(mine \ s.bitmap) \in Int
    BY <1>1, <1>4, <1>5
  <2>2. s.bitmap \cup mine \in SUBSET (0 .. MaxPages - 1)
    BY <1>1, <1>2
  <2> HIDE DEF mine
  <2> QED BY <2>1, <2>2, <1>1 DEF Reserve, Consistent, PmmType, mine
<1>8. Clear(t) = Clear(s) \ R
  BY <1>6 DEF Clear, Managed
<1>9. t.free_pages = Cardinality(Clear(t))
  BY <1>4, <1>5, <1>6, <1>8 DEF Consistent
<1> HIDE DEF t
<1> QED BY <1>1, <1>6, <1>7, <1>8, <1>9 DEF Consistent, t

(* The map's walk leaves exactly the RAM pages clear. *)
LEMMA WalkMapStep ==
  ASSUME NEW b \in Boots
  PROVE  /\ Consistent(WalkMap(b))
         /\ Clear(WalkMap(b)) = RamPages(b, HighestPage(b))
         /\ WalkMap(b).highest_page = HighestPage(b)
         /\ WalkMap(b).total_ram_pages
              = Cardinality(RamPages(b, HighestPage(b)))
<1> DEFINE hp == HighestPage(b)
           ram == RamPages(b, hp)
           w == WalkMap(b)
<1>1. hp \in Nat /\ hp < MaxPages /\ MaxPages \in Nat
  BY HighestPageType, SizesAssumption DEF MaxPages
<1>2. ram \subseteq 0 .. hp
  BY DEF RamPages
<1>3. Cardinality(ram) \in Nat
  <2> HIDE DEF ram, hp
  <2>1. IsFiniteSet(0 .. hp)
    BY <1>1, FS_Interval
  <2> QED BY <1>2, <2>1, FS_Subset, FS_CardinalityType
<1>4. w = [bitmap |-> (0 .. MaxPages - 1) \ ram, highest_page |-> hp,
           used_pages |-> 0, free_pages |-> Cardinality(ram),
           total_ram_pages |-> Cardinality(ram)]
  BY DEF WalkMap
<1> HIDE DEF ram, hp, w
<1>5. w \in PmmType
  BY <1>1, <1>3, <1>4 DEF PmmType
<1>6. Clear(w) = ram
  <2>1. w.highest_page = hp /\ w.bitmap = (0 .. MaxPages - 1) \ ram
    BY <1>4
  <2>2. 0 .. hp \subseteq 0 .. MaxPages - 1
    BY <1>1
  <2> QED BY <1>2, <2>1, <2>2, Zenon DEF Clear, Managed
<1> QED BY <1>1, <1>4, <1>5, <1>6 DEF Consistent, w, ram, hp

(* What pmm_init establishes. *)
LEMMA InitialPmmStep ==
  ASSUME NEW b \in Boots
  PROVE  /\ Consistent(InitialPmm(b))
         /\ InitialPmm(b).highest_page = HighestPage(b)
         /\ Clear(InitialPmm(b)) = RamPages(b, HighestPage(b)) \ Withheld(b)
         /\ InitialPmm(b).total_ram_pages
              = Cardinality(RamPages(b, HighestPage(b)))
         /\ InitialPmm(b).used_pages
              = InitialPmm(b).total_ram_pages - InitialPmm(b).free_pages
<1> DEFINE s1 == Reserve(WalkMap(b), KernelPages(b))
           s2 == Reserve(s1, BitmapPages(b))
           s3 == Reserve(s2, LowPages)
           f == InitialPmm(b)
<1>1. /\ Consistent(s1)
      /\ Clear(s1) = RamPages(b, HighestPage(b)) \ KernelPages(b)
      /\ s1.highest_page = HighestPage(b)
      /\ s1.total_ram_pages = Cardinality(RamPages(b, HighestPage(b)))
  BY WalkMapStep, ReserveStep
<1>2. /\ Consistent(s2)
      /\ Clear(s2) = Clear(s1) \ BitmapPages(b)
      /\ s2.highest_page = HighestPage(b)
      /\ s2.total_ram_pages = s1.total_ram_pages
  <2> HIDE DEF s1
  <2> QED BY <1>1, ReserveStep
<1>3. /\ Consistent(s3)
      /\ Clear(s3) = Clear(s2) \ LowPages
      /\ s3.highest_page = HighestPage(b)
      /\ s3.total_ram_pages = s1.total_ram_pages
  <2> HIDE DEF s2
  <2> QED BY <1>2, ReserveStep
<1>4. f = [s3 EXCEPT !.used_pages = s3.total_ram_pages - s3.free_pages]
  BY DEF InitialPmm
<1> HIDE DEF s1, s2, s3, f
<1>5. /\ f.bitmap = s3.bitmap /\ f.highest_page = s3.highest_page
      /\ f.free_pages = s3.free_pages
      /\ f.total_ram_pages = s3.total_ram_pages
      /\ f.used_pages = s3.total_ram_pages - s3.free_pages
      /\ f \in PmmType
  BY <1>3, <1>4 DEF Consistent, PmmType
<1>6. Clear(f) = RamPages(b, HighestPage(b)) \ Withheld(b)
  BY <1>1, <1>2, <1>3, <1>5 DEF Clear, Managed, Withheld
<1> QED BY <1>1, <1>3, <1>5, <1>6 DEF Consistent, Clear, Managed, f

-----------------------------------------------------------------------------
(* The inductive invariant.                                                *)

(* The pages the pool consists of. *)
Ram(b) == RamPages(b, HighestPage(b))
Available(b) == Ram(b) \ Withheld(b)

(* Before the pool exists nobody got a page; once it exists, the clear     *)
(* bits and the held pages partition what is available and the counters    *)
(* follow the bits.                                                        *)
Books == IF phase = "ready"
         THEN /\ Consistent(pmm)
              /\ pmm.highest_page = HighestPage(boot)
              /\ owned \subseteq Available(boot)
              /\ Clear(pmm) = Available(boot) \ owned
              /\ pmm.total_ram_pages = Cardinality(Ram(boot))
              /\ pmm.used_pages = pmm.total_ram_pages - pmm.free_pages
         ELSE owned = {} /\ result = NoResult

IInv == TypeOK /\ Books

(* An available page is a page with a bit, and is not page 0. *)
LEMMA AvailablePages ==
  ASSUME NEW b \in Boots, NEW p \in Available(b)
  PROVE  p \in 0 .. HighestPage(b) /\ p \in 0 .. MaxPages - 1 /\ p # 0
<1>1. p \in 0 .. HighestPage(b) /\ p \notin LowPages
  BY DEF Available, Ram, RamPages, Withheld
<1>2. HighestPage(b) \in Nat /\ HighestPage(b) < MaxPages /\ MaxPages \in Nat
  BY HighestPageType, SizesAssumption DEF MaxPages
<1> QED BY <1>1, <1>2, PageZeroLow

(* Taking the first clear page. *)
LEMMA TakeStep ==
  ASSUME NEW s, Consistent(s), NEW i \in Clear(s)
  PROVE  /\ Consistent(TakePage(s, i))
         /\ Clear(TakePage(s, i)) = Clear(s) \ {i}
         /\ TakePage(s, i).highest_page = s.highest_page
         /\ TakePage(s, i).total_ram_pages = s.total_ram_pages
         /\ TakePage(s, i).free_pages = s.free_pages - 1
         /\ TakePage(s, i).used_pages = s.used_pages + 1
<1> DEFINE t == TakePage(s, i)
<1>1. /\ s.bitmap \subseteq 0 .. MaxPages - 1 /\ s.highest_page \in Nat
      /\ s.used_pages \in Int /\ s.free_pages \in Int
      /\ s.total_ram_pages \in Nat /\ s.highest_page < MaxPages
      /\ MaxPages \in Nat
  BY SizesAssumption DEF Consistent, PmmType, MaxPages
<1>2. i \in 0 .. MaxPages - 1
  BY <1>1 DEF Clear, Managed
<1>3. /\ t.bitmap = s.bitmap \cup {i} /\ t.highest_page = s.highest_page
      /\ t.used_pages = s.used_pages + 1 /\ t.free_pages = s.free_pages - 1
      /\ t.total_ram_pages = s.total_ram_pages
      /\ t \in PmmType
  <2> DEFINE bits == s.bitmap \cup {i}
             used == s.used_pages + 1
             free == s.free_pages - 1
  <2>1. bits \in SUBSET (0 .. MaxPages - 1) /\ used \in Int /\ free \in Int
    BY <1>1, <1>2
  <2>2. t \in PmmType
    <3>1. t = [s EXCEPT !.bitmap = bits, !.used_pages = used,
                        !.free_pages = free]
      BY DEF TakePage
    <3> HIDE DEF bits, used, free, t
    <3> QED BY <2>1, <3>1 DEF Consistent, PmmType
  <2> QED BY <2>2 DEF TakePage, Consistent, PmmType
<1> HIDE DEF t
<1>4. Clear(t) = Clear(s) \ {i}
  BY <1>3 DEF Clear, Managed
<1>5. Cardinality(Clear(s) \ {i}) = Cardinality(Clear(s)) - 1
  BY ClearFinite, FS_RemoveElement DEF Consistent
<1> QED BY <1>1, <1>3, <1>4, <1>5 DEF Consistent, t

(* Giving a used page back. *)
LEMMA GiveStep ==
  ASSUME NEW s, Consistent(s), NEW i \in Managed(s), i \in s.bitmap
  PROVE  /\ Consistent(GivePage(s, i))
         /\ Clear(GivePage(s, i)) = Clear(s) \cup {i}
         /\ GivePage(s, i).highest_page = s.highest_page
         /\ GivePage(s, i).total_ram_pages = s.total_ram_pages
         /\ GivePage(s, i).free_pages = s.free_pages + 1
         /\ GivePage(s, i).used_pages = s.used_pages - 1
<1> DEFINE t == GivePage(s, i)
<1>1. /\ s.bitmap \subseteq 0 .. MaxPages - 1 /\ s.highest_page \in Nat
      /\ s.used_pages \in Int /\ s.free_pages \in Int
      /\ s.total_ram_pages \in Nat /\ s.highest_page < MaxPages
  BY DEF Consistent, PmmType
<1>2. /\ t.bitmap = s.bitmap \ {i} /\ t.highest_page = s.highest_page
      /\ t.used_pages = s.used_pages - 1 /\ t.free_pages = s.free_pages + 1
      /\ t.total_ram_pages = s.total_ram_pages
      /\ t \in PmmType
  <2> DEFINE bits == s.bitmap \ {i}
             used == s.used_pages - 1
             free == s.free_pages + 1
  <2>1. bits \in SUBSET (0 .. MaxPages - 1) /\ used \in Int /\ free \in Int
    BY <1>1
  <2>2. t \in PmmType
    <3>1. t = [s EXCEPT !.bitmap = bits, !.used_pages = used,
                        !.free_pages = free]
      BY DEF GivePage
    <3> HIDE DEF bits, used, free, t
    <3> QED BY <2>1, <3>1 DEF Consistent, PmmType
  <2> QED BY <2>2 DEF GivePage, Consistent, PmmType
<1> HIDE DEF t
<1>3. Clear(t) = Clear(s) \cup {i}
  BY <1>2 DEF Clear, Managed
<1>4. Cardinality(Clear(s) \cup {i}) = Cardinality(Clear(s)) + 1
  BY ClearFinite, FS_AddElement DEF Consistent, Clear
<1> QED BY <1>1, <1>2, <1>3, <1>4 DEF Consistent, t

(* A free_page call that is not turned away is of a page a client holds. *)
LEMMA FreedIsOwned ==
  ASSUME IInv, NEW addr \in Addresses, MayFree(addr),
         ~FreeRejected(pmm, addr)
  PROVE  PageOf(addr) \in owned /\ PageOf(addr) \in pmm.bitmap
<1>1. addr \in Nat
  BY SizesAssumption DEF Addresses, AddrOf, MaxPages
<1>2. addr # NULL /\ addr % PAGE_SIZE = 0 /\ PageOf(addr) \in pmm.bitmap
      /\ ~(PageOf(addr) > pmm.highest_page)
  BY DEF FreeRejected
<1>3. PageOf(addr) \in Nat /\ addr = AddrOf(PageOf(addr))
  BY <1>1, <1>2, DivBounds, AlignedAddr
<1>4. PageOf(addr) \in Managed(pmm)
  BY <1>2, <1>3 DEF IInv, TypeOK, PmmType, Managed
<1> QED BY <1>2, <1>3, <1>4 DEF MayFree

(* The initial states satisfy the invariant. *)
LEMMA InitIInv == Init => IInv
<1> SUFFICES ASSUME Init PROVE IInv
  OBVIOUS
<1>1. MaxPages \in Nat \ {0}
  BY SizesAssumption DEF MaxPages
<1>2. pmm \in PmmType /\ pmm.highest_page < MaxPages
  BY <1>1 DEF Init, PmmType
<1>3. TypeOK
  BY <1>2 DEF Init, TypeOK
<1> QED BY <1>3 DEF IInv, Books, Init

(* Every step preserves the invariant. *)
LEMMA NextIInv == IInv /\ [Next]_vars => IInv'
<1> SUFFICES ASSUME IInv, [Next]_vars PROVE IInv'
  OBVIOUS
<1> USE DEF IInv
<1>1. MaxPages \in Nat \ {0}
  BY SizesAssumption DEF MaxPages
<1>2. CASE Boot
  <2>1. /\ boot' = boot /\ owned' = owned /\ dirty' = dirty
        /\ pmm' = InitialPmm(boot) /\ phase' = "ready" /\ result' = NoResult
        /\ owned = {} /\ boot \in Boots
    BY <1>2 DEF Boot, Books, TypeOK
  <2>2. /\ Consistent(pmm')
        /\ pmm'.highest_page = HighestPage(boot)
        /\ Clear(pmm') = Available(boot)
        /\ pmm'.total_ram_pages = Cardinality(Ram(boot))
        /\ pmm'.used_pages = pmm'.total_ram_pages - pmm'.free_pages
    BY <2>1, InitialPmmStep DEF Available, Ram
  <2>3. TypeOK'
    BY <2>1, <2>2 DEF TypeOK, Consistent
  <2>4. Books'
    BY <2>1, <2>2 DEF Books, Consistent, Clear, Managed
  <2> QED BY <2>3, <2>4
<1>3. CASE BootPanic
  BY <1>3 DEF BootPanic, TypeOK, Books
<1>4. CASE Halted
  BY <1>4 DEF Halted, vars, TypeOK, Books, Consistent, Clear, Managed
<1>5. CASE AllocatePage
  <2>1. PICK i \in Managed(pmm) :
          /\ FirstClear(pmm, i) /\ pmm' = TakePage(pmm, i)
          /\ owned' = owned \cup {i} /\ dirty' = Zero(dirty, i)
          /\ result' = AddrOf(i)
    BY <1>5 DEF AllocatePage
  <2>2. phase = "ready" /\ phase' = phase /\ boot' = boot
    BY <1>5 DEF AllocatePage
  <2>3. i \in Clear(pmm) /\ Consistent(pmm)
    BY <2>1, <2>2 DEF FirstClear, Books
  <2>4. /\ Consistent(pmm')
        /\ Clear(pmm') = Clear(pmm) \ {i}
        /\ pmm'.highest_page = pmm.highest_page
        /\ pmm'.total_ram_pages = pmm.total_ram_pages
        /\ pmm'.free_pages = pmm.free_pages - 1
        /\ pmm'.used_pages = pmm.used_pages + 1
    BY <2>1, <2>3, TakeStep
  <2>5. i \in Available(boot) /\ boot \in Boots
    BY <2>2, <2>3 DEF Books, TypeOK
  <2>6. i \in 0 .. MaxPages - 1 /\ i \in Nat
    BY <1>1, <2>5, AvailablePages
  <2>7. TypeOK'
    BY <2>1, <2>2, <2>4, <2>6, PageOfAddr DEF TypeOK, Consistent, Zero
  <2>8. Books'
    <3>1. owned' \subseteq Available(boot)
      BY <2>1, <2>2, <2>5 DEF Books
    <3>2. Clear(pmm') = Available(boot) \ owned'
      BY <2>1, <2>2, <2>4 DEF Books
    <3>3. pmm'.used_pages = pmm'.total_ram_pages - pmm'.free_pages
      BY <2>2, <2>3, <2>4 DEF Books, Consistent, PmmType
    <3> QED BY <2>2, <2>4, <3>1, <3>2, <3>3 DEF Books
  <2> QED BY <2>7, <2>8
<1>6. CASE OutOfMemory
  BY <1>6 DEF OutOfMemory, TypeOK, Books, NULL
<1>7. ASSUME NEW addr \in Addresses, MayFree(addr), FreePage(addr)
      PROVE  IInv'
  <2> DEFINE i == PageOf(addr)
  <2>1. /\ phase = "ready" /\ phase' = phase /\ boot' = boot
        /\ dirty' = dirty /\ result' = NoResult /\ pmm' = GivePage(pmm, i)
        /\ owned' = owned \ {i} /\ ~FreeRejected(pmm, addr)
    BY <1>7 DEF FreePage
  <2>2. i \in owned /\ i \in pmm.bitmap /\ boot \in Boots
    BY <1>7, <2>1, FreedIsOwned DEF TypeOK
  <2>3. i \in Available(boot) /\ Consistent(pmm)
    BY <2>1, <2>2 DEF Books
  <2>4. i \in Managed(pmm)
    BY <2>1, <2>2, <2>3, AvailablePages DEF Books, Managed
  <2> HIDE DEF i
  <2>5. /\ Consistent(pmm')
        /\ Clear(pmm') = Clear(pmm) \cup {i}
        /\ pmm'.highest_page = pmm.highest_page
        /\ pmm'.total_ram_pages = pmm.total_ram_pages
        /\ pmm'.free_pages = pmm.free_pages + 1
        /\ pmm'.used_pages = pmm.used_pages - 1
    BY <2>1, <2>2, <2>3, <2>4, GiveStep
  <2>6. TypeOK'
    BY <2>1, <2>5 DEF TypeOK, Consistent
  <2>7. Books'
    <3>1. owned' \subseteq Available(boot)
      BY <2>1 DEF Books
    <3>2. Clear(pmm') = Available(boot) \ owned'
      BY <2>1, <2>3, <2>5 DEF Books
    <3>3. pmm'.used_pages = pmm'.total_ram_pages - pmm'.free_pages
      BY <2>1, <2>3, <2>5 DEF Books, Consistent, PmmType
    <3> QED BY <2>1, <2>5, <3>1, <3>2, <3>3 DEF Books
  <2> QED BY <2>6, <2>7
<1>8. ASSUME NEW addr \in Addresses, FreeReject(addr)
      PROVE  IInv'
  BY <1>8 DEF FreeReject, TypeOK, Books
<1>9. ASSUME NEW i \in owned, WritePage(i)
      PROVE  IInv'
  BY <1>9 DEF WritePage, TypeOK, Books
<1>10. CASE UNCHANGED vars
  BY <1>10 DEF vars, TypeOK, Books
<1> QED BY <1>2, <1>3, <1>4, <1>5, <1>6, <1>7, <1>8, <1>9, <1>10 DEF Next

(* The invariant holds of every reachable state. *)
THEOREM Invariance == Spec => []IInv
  BY InitIInv, NextIInv, PTL DEF Spec

(* Every variable of page.c's model keeps its type; in particular no bit   *)
(* beyond the bitmap is ever addressed.                                    *)
THEOREM TypeCorrect == Spec => []TypeOK
<1>1. IInv => TypeOK
  BY DEF IInv
<1> QED BY <1>1, Invariance, PTL

-----------------------------------------------------------------------------
(* The properties the runs check.                                          *)

(* Exactly the available pages that nobody holds read as free: pages are   *)
(* neither lost nor handed out twice.                                      *)
THEOREM FreeExactness == Spec => []FreeExact
<1>1. IInv => FreeExact
  <2> SUFFICES ASSUME IInv, phase = "ready" PROVE FreeExact
    BY DEF FreeExact
  <2>1. /\ Consistent(pmm) /\ pmm.highest_page = HighestPage(boot)
        /\ owned \subseteq Available(boot)
        /\ Clear(pmm) = Available(boot) \ owned
    BY DEF IInv, Books
  <2>2. ASSUME NEW p \in 0 .. MaxPages - 1
        PROVE  is_page_free(pmm, AddrOf(p)) <=> p \in Clear(pmm)
    <3>1. PageOf(AddrOf(p)) = p /\ p \in Nat
      BY PageOfAddr
    <3>2. pmm.highest_page \in Nat
      BY <2>1 DEF Consistent, PmmType
    <3> QED BY <3>1, <3>2 DEF is_page_free, Clear, Managed
  <2> QED BY <2>1, <2>2 DEF FreeExact, Available, Ram
<1> QED BY <1>1, Invariance, PTL

(* The three counters agree with the bitmap and with each other. *)
THEOREM CountsExactness == Spec => []CountsExact
<1>1. IInv => CountsExact
  <2> SUFFICES ASSUME IInv, phase = "ready" PROVE CountsExact
    BY DEF CountsExact
  <2> DEFINE ram == Ram(boot)
             kept == Ram(boot) \cap Withheld(boot)
  <2>1. /\ Consistent(pmm) /\ pmm.highest_page = HighestPage(boot)
        /\ owned \subseteq ram \ kept
        /\ Clear(pmm) = (ram \ kept) \ owned
        /\ pmm.total_ram_pages = Cardinality(ram)
        /\ pmm.used_pages = pmm.total_ram_pages - pmm.free_pages
        /\ boot \in Boots /\ kept \subseteq ram
        /\ kept = RamPages(boot, pmm.highest_page) \cap Withheld(boot)
    BY DEF IInv, Books, Available, TypeOK, Ram
  <2>2. IsFiniteSet(ram)
    <3>1. HighestPage(boot) \in Nat
      BY <2>1, HighestPageType, SizesAssumption DEF MaxPages
    <3>2. IsFiniteSet(0 .. HighestPage(boot))
      BY <3>1, FS_Interval
    <3>3. ram \subseteq 0 .. HighestPage(boot)
      BY DEF Ram, RamPages
    <3> HIDE DEF ram
    <3> QED BY <3>2, <3>3, FS_Subset
  <2> HIDE DEF ram, kept
  <2>3. /\ IsFiniteSet(kept) /\ IsFiniteSet(ram \ kept) /\ IsFiniteSet(owned)
        /\ Cardinality(ram \ kept) = Cardinality(ram) - Cardinality(kept)
    <3>1. ram \cap kept = kept
      BY <2>1
    <3>2. IsFiniteSet(kept)
      BY <2>1, <2>2, FS_Subset
    <3>3. IsFiniteSet(ram \ kept) /\ IsFiniteSet(owned)
      BY <2>1, <2>2, FS_Subset, FS_Difference
    <3> QED BY <2>2, <3>1, <3>2, <3>3, FS_Difference
  <2>4. Cardinality(Clear(pmm)) = Cardinality(ram \ kept) - Cardinality(owned)
    <3>1. (ram \ kept) \cap owned = owned
      BY <2>1
    <3>2. Cardinality((ram \ kept) \ owned)
            = Cardinality(ram \ kept) - Cardinality((ram \ kept) \cap owned)
      BY <2>3, FS_Difference
    <3> QED BY <2>1, <3>1, <3>2
  <2>5. /\ Cardinality(ram) \in Nat /\ Cardinality(kept) \in Nat
        /\ Cardinality(owned) \in Nat /\ PAGE_SIZE \in Nat
    BY <2>2, <2>3, FS_CardinalityType, SizesAssumption
  <2>6. /\ pmm.free_pages = Cardinality(Clear(pmm))
        /\ pmm.used_pages = Cardinality(owned) + Cardinality(kept)
        /\ pmm.used_pages + pmm.free_pages = pmm.total_ram_pages
        /\ pmm.free_pages \in Int /\ pmm.used_pages \in Int
    <3>1. pmm.free_pages = Cardinality(Clear(pmm))
      BY <2>1 DEF Consistent
    <3>2. pmm.free_pages
            = Cardinality(ram) - Cardinality(kept) - Cardinality(owned)
      BY <2>3, <2>4, <3>1
    <3>3. pmm.used_pages = Cardinality(ram) - pmm.free_pages
      BY <2>1
    <3>4. pmm.total_ram_pages = Cardinality(ram)
      BY <2>1
    <3> QED BY <2>5, <3>1, <3>2, <3>3, <3>4
  <2>7. /\ get_free_memory(pmm) = PAGE_SIZE * Cardinality(Clear(pmm))
        /\ get_used_memory(pmm)
             = PAGE_SIZE * (Cardinality(owned) + Cardinality(kept))
    BY <2>5, <2>6 DEF get_free_memory, get_used_memory
  <2>8. get_used_memory(pmm) + get_free_memory(pmm) = get_total_memory(pmm)
    <3>1. ASSUME NEW a \in Int, NEW b \in Int, NEW c \in Int, a + b = c
          PROVE  a * PAGE_SIZE + b * PAGE_SIZE = c * PAGE_SIZE
      BY <3>1, <2>5
    <3>2. pmm.total_ram_pages \in Int
      BY <2>1, <2>5
    <3> QED BY <2>6, <3>1, <3>2, ZenonT(60)
         DEF get_free_memory, get_used_memory, get_total_memory
  <2> QED BY <2>1, <2>7, <2>8 DEF CountsExact
<1> QED BY <1>1, Invariance, PTL

(* Every byte of a held page is allocatable RAM above the low memory and   *)
(* outside the kernel image.                                               *)
THEOREM OwnedSafety == Spec => []OwnedSafe
<1>1. IInv => OwnedSafe
  <2> SUFFICES ASSUME IInv, NEW p \in owned,
                      NEW x \in AddrOf(p) .. (AddrOf(p + 1) - 1)
               PROVE  /\ x >= (LOW_LIMIT \div PAGE_SIZE) * PAGE_SIZE
                      /\ ~InImage(boot, x)
                      /\ \E i \in DOMAIN boot.memmap :
                           /\ Allocatable(boot.memmap[i])
                           /\ boot.memmap[i].base <= x
                           /\ x < Top(boot.memmap[i])
    BY DEF OwnedSafe
  <2>1. boot \in Boots /\ p \in Available(boot)
    BY DEF IInv, TypeOK, Books
  <2>2. PICK i \in DOMAIN boot.memmap :
          Allocatable(boot.memmap[i]) /\ p \in EntryPages(boot.memmap[i])
    BY <2>1 DEF Available, Ram, RamPages
  <2>3. /\ p \in Nat
        /\ boot.memmap[i].base <= x /\ x < Top(boot.memmap[i])
    BY <2>1, <2>2, BootFields, EntryPagesInside
  <2>4. AddrOf(p) \in Nat /\ AddrOf(p + 1) \in Nat
    BY <2>3, PageOfAddr
  <2>5. x \in Nat /\ AddrOf(p) <= x
    BY <2>4
  <2>6. x >= (LOW_LIMIT \div PAGE_SIZE) * PAGE_SIZE
    BY <2>1, <2>3, <2>5, AboveLow DEF Available, Withheld
  <2>7. x \in boot.memmap[i].base .. (Top(boot.memmap[i]) - 1)
    BY <2>1, <2>2, <2>3, <2>5, BootFields
  <2>8. ~InImage(boot, x)
    BY <2>1, <2>2, <2>7, BootsAssumption DEF LimineContract
  <2> QED BY <2>2, <2>3, <2>6, <2>8
<1> QED BY <1>1, Invariance, PTL

(* allocate_page refuses only when no page is free and otherwise returns a *)
(* page that nobody held, zeroed.                                          *)
THEOREM AllocFreshness == Spec => AllocFresh
<1>1. IInv /\ [Next]_vars => [AllocStep]_vars
  <2> SUFFICES ASSUME IInv, Next PROVE AllocStep
    OBVIOUS
  <2>1. CASE AllocatePage
    <3>1. PICK i \in Managed(pmm) :
            /\ FirstClear(pmm, i)
            /\ owned' = owned \cup {i} /\ dirty' = Zero(dirty, i)
            /\ result' = AddrOf(i)
      BY <2>1 DEF AllocatePage
    <3>2. i \in Available(boot) /\ i \notin owned /\ boot \in Boots
      BY <2>1, <3>1 DEF FirstClear, AllocatePage, IInv, Books, TypeOK
    <3>3. i \in Nat /\ i # 0
      BY <3>2, AvailablePages, HighestPageType
    <3>4. PageOf(result') = i /\ result' # NULL
      BY <3>1, <3>3, PageOfAddr, SizesAssumption DEF AddrOf, NULL
    <3> QED BY <3>1, <3>2, <3>4 DEF AllocStep, Zero
  <2>2. CASE OutOfMemory
    BY <2>2 DEF OutOfMemory, AllocStep
  <2>3. ASSUME result' = NoResult PROVE AllocStep
    BY <2>3 DEF AllocStep, NULL, NoResult
  <2>4. CASE Boot
    BY <2>3, <2>4 DEF Boot
  <2>5. CASE BootPanic \/ Halted
    <3>1. phase # "ready" /\ result' = result
      BY <2>5 DEF BootPanic, Halted, vars
    <3> QED BY <2>3, <3>1 DEF IInv, Books
  <2>6. ASSUME NEW addr \in Addresses, FreePage(addr) \/ FreeReject(addr)
        PROVE  AllocStep
    BY <2>3, <2>6 DEF FreePage, FreeReject
  <2>7. ASSUME NEW i \in owned, WritePage(i) PROVE AllocStep
    BY <2>3, <2>7 DEF WritePage
  <2> QED BY <2>1, <2>2, <2>4, <2>5, <2>6, <2>7 DEF Next
<1> QED BY <1>1, Invariance, PTL DEF Spec, AllocFresh

(* page.c implements the abstract page pool. *)
THEOREM PoolRefinement == Spec => ImplementsPool
<1> DEFINE avail == IF phase = "ready" THEN Clear(pmm) ELSE {}
<1>1. Init => Pool!PoolInit
  BY DEF Init, Pool!PoolInit
<1>2. IInv /\ IInv' /\ [Next]_vars => [Pool!PoolNext]_(Pool!poolVars)
  <2> SUFFICES ASSUME IInv, IInv', [Next]_vars
               PROVE  Pool!PoolNext \/ UNCHANGED Pool!poolVars
    BY DEF Pool!poolVars
  <2>1. CASE Boot
    <3>1. avail = {} /\ owned = {} /\ owned' = owned /\ result' = NoResult
          /\ avail' = Clear(pmm')
      BY <2>1 DEF Boot, IInv, Books
    <3>2. ASSUME NEW p \in Clear(pmm')
          PROVE  p \in 0 .. MaxPages - 1 /\ AddrOf(p) # NULL
      <4>1. boot' \in Boots /\ p \in Available(boot')
        BY <2>1 DEF Boot, IInv, Books, TypeOK
      <4>2. p \in 0 .. MaxPages - 1 /\ p # 0 /\ MaxPages \in Nat
        BY <4>1, AvailablePages, SizesAssumption DEF MaxPages
      <4> QED BY <4>2, SizesAssumption DEF AddrOf, NULL
    <3> QED BY <3>1, <3>2 DEF Pool!PoolNext, Pool!Fill
  <2>2. CASE BootPanic \/ Halted
    BY <2>2 DEF BootPanic, Halted, vars, Pool!poolVars
  <2>3. CASE AllocatePage
    <3>1. PICK i \in Managed(pmm) :
            /\ FirstClear(pmm, i) /\ pmm' = TakePage(pmm, i)
            /\ owned' = owned \cup {i} /\ result' = AddrOf(i)
      BY <2>3 DEF AllocatePage
    <3>2. i \in Clear(pmm) /\ Consistent(pmm) /\ i \in Available(boot)
          /\ boot \in Boots /\ phase = "ready" /\ phase' = phase
      BY <2>3, <3>1 DEF FirstClear, AllocatePage, IInv, Books, TypeOK
    <3>3. i \in avail /\ avail' = avail \ {i}
      BY <3>1, <3>2, TakeStep
    <3>4. i \in 0 .. MaxPages - 1
      BY <3>2, AvailablePages
    <3> QED BY <3>1, <3>3, <3>4 DEF Pool!PoolNext, Pool!Acquire
  <2>4. CASE OutOfMemory
    <3>1. avail = {} /\ avail' = avail /\ owned' = owned /\ result' = NULL
      BY <2>4 DEF OutOfMemory
    <3> QED BY <3>1 DEF Pool!PoolNext, Pool!Refuse
  <2>5. ASSUME NEW addr \in Addresses, MayFree(addr), FreePage(addr)
        PROVE  Pool!PoolNext
    <3> DEFINE i == PageOf(addr)
    <3>1. /\ phase = "ready" /\ phase' = phase /\ result' = NoResult
          /\ pmm' = GivePage(pmm, i) /\ owned' = owned \ {i}
          /\ ~FreeRejected(pmm, addr)
      BY <2>5 DEF FreePage
    <3>2. i \in owned /\ i \in pmm.bitmap /\ boot \in Boots
      BY <2>5, <3>1, FreedIsOwned DEF IInv, TypeOK
    <3>3. i \in Available(boot) /\ Consistent(pmm)
      BY <3>1, <3>2 DEF IInv, Books
    <3>4. i \in Managed(pmm) /\ i \in 0 .. MaxPages - 1
      BY <3>1, <3>2, <3>3, AvailablePages DEF IInv, Books, Managed
    <3> HIDE DEF i
    <3>5. avail' = avail \cup {i}
      BY <3>1, <3>2, <3>3, <3>4, GiveStep
    <3> QED BY <3>1, <3>2, <3>4, <3>5 DEF Pool!PoolNext, Pool!Release
  <2>6. ASSUME NEW addr \in Addresses, FreeReject(addr)
        PROVE  Pool!PoolNext
    BY <2>6 DEF FreeReject, Pool!PoolNext, Pool!Ignore
  <2>7. ASSUME NEW i \in owned, WritePage(i)
        PROVE  Pool!PoolNext
    BY <2>7 DEF WritePage, Pool!PoolNext, Pool!Ignore
  <2>8. CASE UNCHANGED vars
    BY <2>8 DEF vars, Pool!poolVars
  <2> QED BY <2>1, <2>2, <2>3, <2>4, <2>5, <2>6, <2>7, <2>8 DEF Next
<1> QED BY <1>1, <1>2, Invariance, PTL
        DEF Spec, ImplementsPool, Pool!PoolSpec
=============================================================================
