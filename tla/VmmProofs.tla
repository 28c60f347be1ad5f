------------------------------ MODULE VmmProofs -----------------------------
(***************************************************************************)
(* Proofs about the virtual memory manager, for every set of pages, of     *)
(* table indices and of virtual pages, every memory map that vmm_init      *)
(* maps, and every number of calls, clones and clients' pages.             *)
(***************************************************************************)
EXTENDS Vmm, WellFoundedInduction, SequenceTheorems, TLAPS

-----------------------------------------------------------------------------
(* The places of a pagemap: its root, and the paths of table indices       *)

Nodes == {<<>>} \cup Paths

LEMMA NodeIs ==
  ASSUME NEW q
  PROVE  q \in Nodes <=> q \in Seq(Indices) /\ Len(q) <= 4
<1>1. ASSUME q \in Nodes PROVE q \in Seq(Indices) /\ Len(q) <= 4
  <2>1. CASE q = <<>>
    BY <2>1
  <2>2. CASE q # <<>>
    <3>1. PICK n \in 1 .. 4 : q \in [1 .. n -> Indices]
      BY <1>1, <2>2 DEF Nodes, Paths
    <3>2. q \in Seq(Indices)
      <4>1. n \in Nat
        OBVIOUS
      <4> QED BY <3>1, <4>1, SeqDef
    <3>3. Len(q) = n
      BY <3>1, <3>2
    <3> QED BY <3>2, <3>3
  <2> QED BY <2>1, <2>2
<1>2. ASSUME q \in Seq(Indices), Len(q) <= 4 PROVE q \in Nodes
  <2>1. q \in [1 .. Len(q) -> Indices] /\ Len(q) \in Nat
    BY <1>2, LenProperties
  <2>2. CASE Len(q) = 0
    <3>1. q = <<>>
      BY <1>2, <2>2
    <3> QED BY <3>1 DEF Nodes
  <2>3. CASE Len(q) # 0
    <3>1. PICK n \in 1 .. 4 : n = Len(q)
      BY <1>2, <2>1, <2>3
    <3>2. q \in [1 .. n -> Indices]
      BY <2>1, <3>1
    <3> QED BY <3>2 DEF Nodes, Paths
  <2> QED BY <2>2, <2>3
<1> QED BY <1>1, <1>2

LEMMA PathIs ==
  ASSUME NEW q
  PROVE  q \in Paths <=> q \in Nodes /\ q # <<>>
<1>1. q \in Paths => q # <<>>
  <2>1. ASSUME q \in Paths PROVE q # <<>>
    <3>1. PICK n \in 1 .. 4 : q \in [1 .. n -> Indices]
      BY <2>1 DEF Paths
    <3>2. DOMAIN q = 1 .. n /\ 1 \in 1 .. n
      BY <3>1
    <3> QED BY <3>2
  <2> QED BY <2>1
<1> QED BY <1>1 DEF Nodes

LEMMA RootNode == <<>> \in Nodes /\ Len(<<>>) = 0
  BY DEF Nodes

LEMMA NodeLen ==
  ASSUME NEW q \in Nodes
  PROVE  Len(q) \in 0 .. 4 /\ (Len(q) = 0 => q = <<>>)
<1>1. q \in Seq(Indices) /\ Len(q) <= 4
  BY NodeIs
<1>2. Len(q) \in Nat
  BY <1>1
<1>3. Len(q) = 0 => q = <<>>
  BY <1>1, EmptySeq
<1>4. PICK k : k = Len(q)
  OBVIOUS
<1>5. k \in Nat /\ k <= 4
  BY <1>1, <1>2, <1>4
<1>6. k \in 0 .. 4
  BY <1>5
<1> QED BY <1>3, <1>4, <1>6, Zenon

LEMMA NodeAppend ==
  ASSUME NEW q \in Nodes, Len(q) < 4, NEW i \in Indices
  PROVE  /\ Append(q, i) \in Nodes /\ Append(q, i) \in Paths
         /\ Len(Append(q, i)) = Len(q) + 1
         /\ Front(Append(q, i)) = q /\ Last(Append(q, i)) = i
<1>1. q \in Seq(Indices) /\ Len(q) \in 0 .. 3
  <2>1. q \in Seq(Indices)
    BY NodeIs
  <2>2. Len(q) \in 0 .. 4
    BY NodeLen
  <2> QED BY <2>1, <2>2
<1>2. Append(q, i) \in Seq(Indices) /\ Len(Append(q, i)) = Len(q) + 1
  BY <1>1
<1>3. Append(q, i) \in Nodes
  <2>1. Len(Append(q, i)) <= 4
    BY <1>1, <1>2
  <2> QED BY <1>2, <2>1, NodeIs, Zenon
<1>4. Append(q, i) # <<>>
  BY <1>1, <1>2
<1>5. Last(Append(q, i)) = i
  BY <1>1, <1>2 DEF Last
<1>6. Front(Append(q, i)) = q
  <2> DEFINE a == Append(q, i)
             n == Len(q)
  <2>1. n \in Nat /\ \A j \in 1 .. n : a[j] = q[j] /\ q[j] \in Indices
    BY <1>1
  <2>2. Front(a) = SubSeq(a, 1, n)
    BY <1>1, <1>2 DEF Front
  <2> HIDE DEF a
  <2>3. \A j \in 1 .. n : a[j] \in Indices
    BY <2>1
  <2>4. /\ SubSeq(a, 1, n) \in Seq(Indices) /\ Len(SubSeq(a, 1, n)) = n
        /\ \A j \in 1 .. n : SubSeq(a, 1, n)[j] = a[j]
    <3> HIDE DEF n
    <3>1. /\ SubSeq(a, 1, n) \in Seq(Indices)
          /\ Len(SubSeq(a, 1, n)) = IF 1 <= n THEN n - 1 + 1 ELSE 0
          /\ \A j \in 1 .. (n - 1 + 1) : SubSeq(a, 1, n)[j] = a[1 + j - 1]
      BY <2>1, <2>3, SubSeqProperties
    <3> QED BY <2>1, <3>1
  <2>5. SubSeq(a, 1, n) = q
    BY <1>1, <2>1, <2>4, SeqEqual
  <2> QED BY <2>2, <2>5 DEF a
<1> QED BY <1>2, <1>3, <1>4, <1>5, <1>6, PathIs

LEMMA NodeSplit ==
  ASSUME NEW q \in Paths
  PROVE  /\ Front(q) \in Nodes /\ Last(q) \in Indices
         /\ Len(Front(q)) < 4 /\ Len(q) = Len(Front(q)) + 1
         /\ q = Append(Front(q), Last(q))
<1> DEFINE n == Len(q) - 1
<1>1. q \in Seq(Indices) /\ Len(q) \in 1 .. 4
  <2>1. q \in Nodes /\ q # <<>>
    BY PathIs
  <2>2. q \in Seq(Indices) /\ Len(q) \in 0 .. 4 /\ Len(q) # 0
    BY <2>1, NodeIs, NodeLen
  <2> QED BY <2>2
<1>2. n \in 0 .. 3 /\ \A j \in 1 .. n : q[j] \in Indices
  BY <1>1
<1>3. Front(q) = SubSeq(q, 1, n)
  BY DEF Front
<1>4. /\ SubSeq(q, 1, n) \in Seq(Indices) /\ Len(SubSeq(q, 1, n)) = n
      /\ \A j \in 1 .. n : SubSeq(q, 1, n)[j] = q[j]
  <2>1. PICK k : k = n
    OBVIOUS
  <2>2. k \in Int /\ \A j \in 1 .. k : q[j] \in Indices
    BY <1>2, <2>1
  <2>3. /\ SubSeq(q, 1, k) \in Seq(Indices)
        /\ Len(SubSeq(q, 1, k)) = IF 1 <= k THEN k - 1 + 1 ELSE 0
        /\ \A j \in 1 .. (k - 1 + 1) : SubSeq(q, 1, k)[j] = q[1 + j - 1]
    BY <2>2, SubSeqProperties
  <2>4. k \in 0 .. 3
    BY <1>2, <2>1
  <2>5. /\ SubSeq(q, 1, k) \in Seq(Indices) /\ Len(SubSeq(q, 1, k)) = k
        /\ \A j \in 1 .. k : SubSeq(q, 1, k)[j] = q[j]
    BY <2>3, <2>4
  <2> QED BY <2>1, <2>5
<1>5. Front(q) \in Seq(Indices) /\ Len(Front(q)) = n /\ \A j \in 1 .. n : Front(q)[j] = q[j]
  BY <1>3, <1>4
<1>6. Last(q) \in Indices /\ Last(q) = q[n + 1]
  BY <1>1 DEF Last
<1>7. Front(q) \in Nodes
  BY <1>2, <1>5, NodeIs
<1>8. q = Append(Front(q), Last(q))
  <2>1. PICK f, l : f = Front(q) /\ l = Last(q)
    OBVIOUS
  <2>2. f \in Seq(Indices) /\ l \in Indices /\ Len(f) = n /\ l = q[n + 1]
        /\ \A j \in 1 .. n : f[j] = q[j]
    BY <1>5, <1>6, <2>1
  <2>3. Append(f, l) \in Seq(Indices) /\ Len(Append(f, l)) = Len(q)
    BY <1>1, <2>2
  <2>4. \A j \in 1 .. Len(q) : Append(f, l)[j] = q[j]
    BY <1>1, <2>2
  <2>5. q = Append(f, l)
    BY <1>1, <2>3, <2>4, SeqEqual
  <2> QED BY <2>1, <2>5
<1> QED BY <1>1, <1>2, <1>5, <1>6, <1>7, <1>8

LEMMA AppendSame ==
  ASSUME NEW q \in Nodes, NEW r \in Nodes, Len(q) < 4, Len(r) < 4,
         NEW i \in Indices, NEW j \in Indices, Append(q, i) = Append(r, j)
  PROVE  q = r /\ i = j
  BY NodeAppend

(* What holds at the root, and below every place where it holds, holds at  *)
(* all places.                                                             *)
LEMMA NodeInduction ==
  ASSUME NEW S, <<>> \in S,
         \A q \in Nodes : q \in S /\ Len(q) < 4 => \A i \in Indices : Append(q, i) \in S
  PROVE  Nodes \subseteq S
<1>1. \A q \in Nodes : Len(q) = 0 => q \in S
  BY NodeLen
<1>2. ASSUME NEW n \in 0 .. 3, \A q \in Nodes : Len(q) = n => q \in S
      PROVE  \A q \in Nodes : Len(q) = n + 1 => q \in S
  <2> SUFFICES ASSUME NEW q \in Nodes, Len(q) = n + 1 PROVE q \in S
    OBVIOUS
  <2>1. q \in Paths
    <3>1. Len(q) # Len(<<>>)
      BY RootNode
    <3> QED BY <3>1, PathIs
  <2>2. Front(q) \in Nodes /\ Last(q) \in Indices /\ Len(Front(q)) = n
        /\ q = Append(Front(q), Last(q))
    <3>1. Len(Front(q)) \in 0 .. 4
      BY <2>1, NodeSplit, NodeLen
    <3> QED BY <2>1, <3>1, NodeSplit
  <2>3. PICK f, l : f = Front(q) /\ l = Last(q)
    OBVIOUS
  <2>4. f \in S /\ f \in Nodes /\ Len(f) < 4 /\ l \in Indices /\ q = Append(f, l)
    BY <1>2, <2>2, <2>3
  <2> QED BY <2>4
<1>3. \A q \in Nodes : Len(q) = 1 => q \in S
  BY <1>1, <1>2
<1>4. \A q \in Nodes : Len(q) = 2 => q \in S
  BY <1>3, <1>2
<1>5. \A q \in Nodes : Len(q) = 3 => q \in S
  BY <1>4, <1>2
<1>6. \A q \in Nodes : Len(q) = 4 => q \in S
  BY <1>5, <1>2
<1>7. \A q \in Nodes : Len(q) \in 0 .. 4
  BY NodeLen
<1> QED BY <1>1, <1>3, <1>4, <1>5, <1>6, <1>7


-----------------------------------------------------------------------------
(* Walks                                                                   *)

LEMMA DescendRoot == \A m, top : Descend(m, top, <<>>) = top
  BY RootNode DEF Descend

LEMMA DescendIs ==
  ASSUME NEW m, NEW top, NEW q
  PROVE  /\ Len(q) = 0 => Descend(m, top, q) = top
         /\ Len(q) = 1 => Descend(m, top, q) = Down(m, top, q[1])
         /\ Len(q) = 2 => Descend(m, top, q) = Down(m, Down(m, top, q[1]), q[2])
         /\ Len(q) = 3 => Descend(m, top, q) = Down(m, Down(m, Down(m, top, q[1]), q[2]), q[3])
         /\ Len(q) = 4 => Descend(m, top, q) =
                            Down(m, Down(m, Down(m, Down(m, top, q[1]), q[2]), q[3]), q[4])
  BY DEF Descend

LEMMA DescendBelow ==
  ASSUME NEW m, NEW top, NEW q \in Nodes, Len(q) < 4, NEW i \in Indices
  PROVE  Descend(m, top, Append(q, i)) = Down(m, Descend(m, top, q), i)
<1> DEFINE a == Append(q, i)
<1>1. q \in Seq(Indices) /\ Len(q) \in 0 .. 3
  <2>1. q \in Seq(Indices)
    BY NodeIs
  <2>2. Len(q) \in 0 .. 4
    BY NodeLen
  <2> QED BY <2>1, <2>2
<1>2. Len(a) = Len(q) + 1 /\ a[Len(q) + 1] = i /\ \A j \in 1 .. Len(q) : a[j] = q[j]
  BY <1>1
<1> HIDE DEF a
<1>3. CASE Len(q) = 0
  <2>1. Len(a) = 1 /\ a[1] = i
    BY <1>2, <1>3
  <2>2. Descend(m, top, a) = Down(m, top, i)
    BY <2>1, DescendIs
  <2>3. Descend(m, top, q) = top
    BY <1>3, DescendIs
  <2> QED BY <2>2, <2>3 DEF a
<1>4. CASE Len(q) = 1
  <2>1. Len(a) = 2 /\ a[1] = q[1] /\ a[2] = i
    BY <1>2, <1>4
  <2>2. Descend(m, top, a) = Down(m, Down(m, top, a[1]), a[2])
    BY <2>1, DescendIs
  <2>3. Descend(m, top, q) = Down(m, top, q[1])
    BY <1>4, DescendIs
  <2> QED BY <2>1, <2>2, <2>3 DEF a
<1>5. CASE Len(q) = 2
  <2>1. Len(a) = 3 /\ a[1] = q[1] /\ a[2] = q[2] /\ a[3] = i
    BY <1>2, <1>5
  <2>2. Descend(m, top, a) = Down(m, Down(m, Down(m, top, a[1]), a[2]), a[3])
    BY <2>1, DescendIs
  <2>3. Descend(m, top, q) = Down(m, Down(m, top, q[1]), q[2])
    BY <1>5, DescendIs
  <2> QED BY <2>1, <2>2, <2>3 DEF a
<1>6. CASE Len(q) = 3
  <2>1. Len(a) = 4 /\ a[1] = q[1] /\ a[2] = q[2] /\ a[3] = q[3] /\ a[4] = i
    BY <1>2, <1>6
  <2>2. Descend(m, top, a) = Down(m, Down(m, Down(m, Down(m, top, a[1]), a[2]), a[3]), a[4])
    BY <2>1, DescendIs
  <2>3. Descend(m, top, q) = Down(m, Down(m, Down(m, top, q[1]), q[2]), q[3])
    BY <1>6, DescendIs
  <2> QED BY <2>1, <2>2, <2>3 DEF a
<1> QED BY <1>1, <1>3, <1>4, <1>5, <1>6

LEMMA EntryBelow ==
  ASSUME NEW m, NEW top, NEW q \in Nodes, Len(q) < 4, NEW i \in Indices
  PROVE  /\ EntryAt(m, top, Append(q, i)) =
              IF Descend(m, top, q) = 0 THEN None ELSE m[Descend(m, top, q)][i]
         /\ Descend(m, top, Append(q, i)) = EntryAt(m, top, Append(q, i)).page
<1>1. EntryAt(m, top, Append(q, i)) =
        IF Descend(m, top, q) = 0 THEN None ELSE m[Descend(m, top, q)][i]
  BY NodeAppend DEF EntryAt
<1>2. Descend(m, top, Append(q, i)) = Down(m, Descend(m, top, q), i)
  BY DescendBelow
<1>3. Down(m, Descend(m, top, q), i) = EntryAt(m, top, Append(q, i)).page
  BY <1>1 DEF Down, None
<1> QED BY <1>1, <1>2, <1>3

Mems == [Pages -> [Indices -> Entries]]

LEMMA NonePage == None \in Entries /\ None.page = 0 /\ 0 \notin Pages
  BY VmmAssumption DEF None, Entries

LEMMA EntryPage ==
  ASSUME NEW e \in Entries
  PROVE  /\ e.page \in Pages \cup {0} /\ (e.page = 0 <=> e = None)
         /\ e.flags \in SUBSET Flags
<1>1. CASE e = None
  BY <1>1, NonePage DEF None
<1>2. CASE e \in [page : Pages, flags : SUBSET Flags]
  BY <1>2, NonePage
<1> QED BY <1>1, <1>2 DEF Entries

(* A walk ends at a page, or nowhere. *)
LEMMA WalkType ==
  ASSUME NEW m \in Mems, NEW top \in Pages, NEW q \in Nodes
  PROVE  Descend(m, top, q) \in Pages \cup {0}
<1> DEFINE S == {r \in Nodes : Descend(m, top, r) \in Pages \cup {0}}
<1>1. <<>> \in S
  BY RootNode, DescendRoot
<1>2. ASSUME NEW r \in Nodes, r \in S, Len(r) < 4, NEW i \in Indices
      PROVE  Append(r, i) \in S
  <2>1. PICK p \in Pages \cup {0} : p = Descend(m, top, r)
    BY <1>2
  <2>2. Descend(m, top, Append(r, i)) = Down(m, p, i)
    BY <1>2, <2>1, DescendBelow
  <2>3. Down(m, p, i) \in Pages \cup {0}
    <3>1. CASE p = 0
      BY <3>1 DEF Down
    <3>2. CASE p # 0
      <4>1. m[p][i] \in Entries
        BY <2>1, <3>2 DEF Mems
      <4> QED BY <3>2, <4>1, EntryPage DEF Down
    <3> QED BY <3>1, <3>2
  <2> QED BY <2>2, <2>3, <1>2, NodeAppend
<1> HIDE DEF S
<1>3. Nodes \subseteq S
  BY <1>1, <1>2, NodeInduction
<1> QED BY <1>3 DEF S

LEMMA EntryType ==
  ASSUME NEW m \in Mems, NEW top \in Pages, NEW q \in Paths
  PROVE  /\ EntryAt(m, top, q) \in Entries
         /\ Descend(m, top, q) = EntryAt(m, top, q).page
         /\ Descend(m, top, q) # 0 <=> EntryAt(m, top, q) # None
<1>1. PICK f \in Nodes, l \in Indices : Len(f) < 4 /\ q = Append(f, l)
  BY NodeSplit
<1>2. PICK p \in Pages \cup {0} : p = Descend(m, top, f)
  BY WalkType
<1>3. EntryAt(m, top, q) = IF p = 0 THEN None ELSE m[p][l]
  BY <1>1, <1>2, EntryBelow
<1>4. EntryAt(m, top, q) \in Entries
  BY <1>2, <1>3, NonePage DEF Mems
<1>5. Descend(m, top, q) = EntryAt(m, top, q).page
  BY <1>1, EntryBelow
<1> QED BY <1>4, <1>5, EntryPage

(* On the way to a page there are pages. *)
LEMMA WalkUp ==
  ASSUME NEW m, NEW top, NEW q \in Nodes, Len(q) < 4, NEW i \in Indices,
         Descend(m, top, Append(q, i)) # 0
  PROVE  Descend(m, top, q) # 0
  BY DescendBelow DEF Down


-----------------------------------------------------------------------------
(* One entry of one table changes                                          *)

(* As a table, page t of the pagemaps with pml4s T is only at place q of   *)
(* top.                                                                    *)
Only(m, T, t, top, q) ==
  \A x \in T, r \in Nodes : Len(r) < 4 /\ Descend(m, x, r) = t => x = top /\ r = q

(* No pagemap has a page of F for a table. *)
Unused(m, T, F) == \A x \in T, r \in Nodes : Len(r) < 4 => Descend(m, x, r) \notin F

Bare(m, p) == p = 0 \/ \A j \in Indices : m[p][j] = None

(* n is m with entry e at index i of table t; the pages of F are anything. *)
Rewrites(m, n, t, i, e, F) ==
  /\ n \in Mems /\ t \notin F /\ n[t][i] = e
  /\ \A p \in Pages \ F, j \in Indices : p # t \/ j # i => n[p][j] = m[p][j]

(* n is m with e below place q of top; above the last level neither the    *)
(* page that was there nor the one that is now has entries.                *)
Edit(m, n, T, top, q, i, e, F) ==
  /\ m \in Mems /\ T \subseteq Pages /\ top \in T
  /\ q \in Nodes /\ Len(q) < 4 /\ i \in Indices /\ e \in Entries
  /\ Descend(m, top, q) # 0
  /\ Only(m, T, Descend(m, top, q), top, q)
  /\ Unused(m, T, F)
  /\ Rewrites(m, n, Descend(m, top, q), i, e, F)
  /\ Len(q) < 3 => Bare(m, Descend(m, top, Append(q, i))) /\ Bare(n, e.page)

LEMMA EditStep ==
  ASSUME NEW m, NEW n, NEW T, NEW top, NEW q, NEW i, NEW e, NEW F,
         Edit(m, n, T, top, q, i, e, F),
         NEW x \in T, NEW r \in Nodes, Len(r) < 4, NEW j \in Indices,
         Descend(n, x, r) = IF x = top /\ r = Append(q, i) THEN e.page ELSE Descend(m, x, r)
  PROVE  EntryAt(n, x, Append(r, j)) =
           IF x = top /\ Append(r, j) = Append(q, i) THEN e ELSE EntryAt(m, x, Append(r, j))
<1> DEFINE t == Descend(m, top, q)
<1>1. m \in Mems /\ n \in Mems /\ T \subseteq Pages /\ top \in T /\ q \in Nodes /\ Len(q) < 4
      /\ i \in Indices /\ e \in Entries
  BY DEF Edit, Rewrites
<1>2. t \in Pages
  BY <1>1, WalkType DEF Edit
<1>3. PICK p : p = Descend(m, x, r)
  OBVIOUS
<1>4. PICK s : s = Descend(n, x, r)
  OBVIOUS
<1>5. p \in Pages \cup {0} /\ s \in Pages \cup {0}
  BY <1>1, <1>3, <1>4, WalkType
<1>6. EntryAt(m, x, Append(r, j)) = IF p = 0 THEN None ELSE m[p][j]
  BY <1>3, EntryBelow
<1>7. EntryAt(n, x, Append(r, j)) = IF s = 0 THEN None ELSE n[s][j]
  BY <1>4, EntryBelow
<1>8. CASE x = top /\ r = Append(q, i)
  <2>1. s = e.page /\ p = Descend(m, top, Append(q, i))
    BY <1>3, <1>4, <1>8
  <2>2. Len(r) = Len(q) + 1 /\ Len(q) \in 0 .. 4 /\ Len(r) \in 0 .. 4
    BY <1>1, <1>8, NodeAppend, NodeLen
  <2>3. Len(q) < 3
    BY <2>2
  <2>4. Bare(m, p) /\ Bare(n, s)
    BY <2>1, <2>3 DEF Edit
  <2>5. Append(r, j) # Append(q, i)
    <3>1. Len(Append(r, j)) = Len(r) + 1 /\ Len(Append(q, i)) = Len(q) + 1
      BY <1>1, NodeAppend
    <3> QED BY <2>2, <3>1
  <2> QED BY <1>6, <1>7, <2>4, <2>5 DEF Bare
<1>9. CASE ~(x = top /\ r = Append(q, i))
  <2>1. s = p
    BY <1>3, <1>4, <1>9
  <2>2. CASE p = 0
    <3>1. ~(x = top /\ Append(r, j) = Append(q, i))
      <4>1. Append(r, j) = Append(q, i) => r = q
        BY <1>1, AppendSame
      <4>2. x = top /\ r = q => p # 0
        BY <1>3 DEF Edit
      <4> QED BY <2>2, <4>1, <4>2
    <3> QED BY <1>6, <1>7, <2>1, <2>2, <3>1
  <2>3. CASE p = t
    <3>1. x = top /\ r = q
      BY <1>3, <2>3 DEF Edit, Only
    <3>2. Append(r, j) = Append(q, i) <=> j = i
      BY <1>1, <3>1, AppendSame
    <3>3. n[t][j] = IF j = i THEN e ELSE m[t][j]
      BY <1>2 DEF Edit, Rewrites
    <3>4. p # 0
      BY <1>2, <2>3, NonePage
    <3> QED BY <1>6, <1>7, <2>1, <2>3, <3>1, <3>2, <3>3, <3>4
  <2>4. CASE p # 0 /\ p # t
    <3>1. ~(x = top /\ Append(r, j) = Append(q, i))
      <4>1. Append(r, j) = Append(q, i) => r = q
        BY <1>1, AppendSame
      <4>2. x = top /\ r = q => p = t
        BY <1>3
      <4> QED BY <2>4, <4>1, <4>2
    <3>2. p \notin F
      BY <1>3 DEF Edit, Unused
    <3>3. n[p][j] = m[p][j]
      BY <1>5, <2>4, <3>2 DEF Edit, Rewrites
    <3> QED BY <1>6, <1>7, <2>1, <3>1, <3>3
  <2> QED BY <2>2, <2>3, <2>4
<1> QED BY <1>8, <1>9

(* Seen from the places the edit changes one of them. *)
LEMMA EditWalk ==
  ASSUME NEW m, NEW n, NEW T, NEW top, NEW q, NEW i, NEW e, NEW F,
         Edit(m, n, T, top, q, i, e, F), NEW x \in T, NEW r \in Nodes
  PROVE  Descend(n, x, r) = IF x = top /\ r = Append(q, i) THEN e.page ELSE Descend(m, x, r)
<1> DEFINE S == {y \in Nodes : Descend(n, x, y) =
                   IF x = top /\ y = Append(q, i) THEN e.page ELSE Descend(m, x, y)}
<1>1. q \in Nodes /\ Len(q) < 4 /\ i \in Indices
  BY DEF Edit
<1>2. <<>> \in S
  <2>1. Append(q, i) # <<>>
    BY <1>1, NodeAppend, PathIs
  <2> QED BY <2>1, RootNode, DescendRoot
<1>3. ASSUME NEW y \in Nodes, y \in S, Len(y) < 4, NEW j \in Indices
      PROVE  Append(y, j) \in S
  <2>1. Descend(n, x, y) = IF x = top /\ y = Append(q, i) THEN e.page ELSE Descend(m, x, y)
    BY <1>3
  <2>2. EntryAt(n, x, Append(y, j)) =
          IF x = top /\ Append(y, j) = Append(q, i) THEN e ELSE EntryAt(m, x, Append(y, j))
    BY <1>3, <2>1, EditStep
  <2>3. Append(y, j) \in Nodes
    BY <1>3, NodeAppend
  <2>4. /\ Descend(n, x, Append(y, j)) = EntryAt(n, x, Append(y, j)).page
        /\ Descend(m, x, Append(y, j)) = EntryAt(m, x, Append(y, j)).page
    BY <1>3, EntryBelow
  <2> QED BY <2>2, <2>3, <2>4
<1> HIDE DEF S
<1>4. Nodes \subseteq S
  BY <1>2, <1>3, NodeInduction
<1> QED BY <1>4 DEF S

LEMMA EditEntry ==
  ASSUME NEW m, NEW n, NEW T, NEW top, NEW q, NEW i, NEW e, NEW F,
         Edit(m, n, T, top, q, i, e, F), NEW x \in T, NEW r \in Paths
  PROVE  EntryAt(n, x, r) = IF x = top /\ r = Append(q, i) THEN e ELSE EntryAt(m, x, r)
<1>1. PICK f \in Nodes, l \in Indices : Len(f) < 4 /\ r = Append(f, l)
  BY NodeSplit
<1>2. Descend(n, x, f) = IF x = top /\ f = Append(q, i) THEN e.page ELSE Descend(m, x, f)
  BY EditWalk
<1> QED BY <1>1, <1>2, EditStep


-----------------------------------------------------------------------------
(* The books: every page has one use                                       *)

Leaves == [1 .. 4 -> Indices]

LEMMA LeafIs ==
  ASSUME NEW v \in Leaves
  PROVE  v \in Nodes /\ v \in Paths /\ Len(v) = 4
<1>1. v \in Paths
  BY DEF Leaves, Paths
<1>2. v \in Seq(Indices)
  BY <1>1, PathIs, NodeIs
<1>3. Len(v) = 4
  BY <1>2 DEF Leaves
<1> QED BY <1>1, <1>3, PathIs

(* d are places that do not count: second names of pages. *)
OnePlace(m, T, d) ==
  \A x, y \in T, q, r \in Nodes :
    /\ <<x, q>> \notin d /\ <<y, r>> \notin d
    /\ Descend(m, x, q) # 0 /\ Descend(m, x, q) = Descend(m, y, r)
    => x = y /\ q = r

Uses(m, T, d, p) == \E x \in T, q \in Nodes : <<x, q>> \notin d /\ Descend(m, x, q) = p

(* f are the free pages, R those with another use than in a pagemap. *)
Books(m, T, d, f, R) ==
  /\ m \in Mems /\ T \subseteq Pages /\ d \subseteq Pages \X Leaves
  /\ OnePlace(m, T, d)
  /\ f \subseteq Pages /\ R \subseteq Pages /\ f \cap R = {}
  /\ \A p \in Pages : Uses(m, T, d, p) <=> p \notin f \cup R

LEMMA InnerPlace ==
  ASSUME NEW d, d \subseteq Pages \X Leaves, NEW x, NEW q, Len(q) < 4
  PROVE  <<x, q>> \notin d
<1>1. ASSUME <<x, q>> \in d PROVE FALSE
  <2>1. q \in Leaves
    BY <1>1
  <2>2. Len(q) = 4
    BY <2>1, LeafIs
  <2> QED BY <2>2
<1> QED BY <1>1

(* A table has one place, and a page with another use is no table. *)
LEMMA TablesOnce ==
  ASSUME NEW m, NEW T, NEW d, NEW f, NEW R, Books(m, T, d, f, R)
  PROVE  /\ Unused(m, T, f \cup R)
         /\ \A top \in T, q \in Nodes :
              Len(q) < 4 /\ Descend(m, top, q) # 0
              => /\ Only(m, T, Descend(m, top, q), top, q)
                 /\ Descend(m, top, q) \in Pages \ (f \cup R)
<1>1. ASSUME NEW x \in T, NEW r \in Nodes, Len(r) < 4, Descend(m, x, r) # 0
      PROVE  Descend(m, x, r) \in Pages \ (f \cup R)
  <2>1. <<x, r>> \notin d
    BY <1>1, InnerPlace DEF Books
  <2>2. Descend(m, x, r) \in Pages
    BY <1>1, WalkType DEF Books
  <2>3. Uses(m, T, d, Descend(m, x, r))
    BY <2>1 DEF Uses
  <2> QED BY <2>2, <2>3 DEF Books
<1>2. Unused(m, T, f \cup R)
  <2> SUFFICES ASSUME NEW x \in T, NEW r \in Nodes, Len(r) < 4, Descend(m, x, r) \in f \cup R
               PROVE  FALSE
    BY DEF Unused
  <2>1. Descend(m, x, r) # 0
    BY NonePage DEF Books
  <2> QED BY <1>1, <2>1
<1>3. ASSUME NEW top \in T, NEW q \in Nodes, Len(q) < 4, Descend(m, top, q) # 0
      PROVE  Only(m, T, Descend(m, top, q), top, q)
  <2> SUFFICES ASSUME NEW x \in T, NEW r \in Nodes, Len(r) < 4,
                      Descend(m, x, r) = Descend(m, top, q)
               PROVE  x = top /\ r = q
    BY DEF Only
  <2>1. <<x, r>> \notin d /\ <<top, q>> \notin d
    BY <1>3, InnerPlace DEF Books
  <2> QED BY <1>3, <2>1 DEF Books, OnePlace
<1> QED BY <1>1, <1>2, <1>3

(* What an edit does to the books. *)
Balanced(m, d, f, R, top, q, i, e, d2, f2, R2) ==
  LET place == <<top, Append(q, i)>>
  IN  /\ d2 \subseteq Pages \X Leaves /\ \A y : y # place => (y \in d2 <=> y \in d)
      /\ f2 \subseteq Pages /\ R2 \subseteq Pages /\ f2 \cap R2 = {}
      /\ e.page = 0 \/ place \in d2 \/ e.page \in f \cup R
      /\ \A p \in Pages :
           p \notin f2 \cup R2 <=>
             \/ p = e.page /\ place \notin d2
             \/ p \notin f \cup R /\ (place \in d \/ p # Descend(m, top, Append(q, i)))

LEMMA EditBooks ==
  ASSUME NEW m, NEW n, NEW T, NEW top, NEW q, NEW i, NEW e, NEW F,
         Edit(m, n, T, top, q, i, e, F),
         NEW d, NEW f, NEW R, Books(m, T, d, f, R), NEW d2, NEW f2, NEW R2,
         Balanced(m, d, f, R, top, q, i, e, d2, f2, R2)
  PROVE  Books(n, T, d2, f2, R2)
<1> DEFINE a == Append(q, i)
<1>1. a \in Nodes /\ top \in T /\ n \in Mems /\ m \in Mems /\ T \subseteq Pages
  BY NodeAppend DEF Edit, Rewrites
<1>2. /\ d2 \subseteq Pages \X Leaves /\ \A y : y # <<top, a>> => (y \in d2 <=> y \in d)
      /\ e.page = 0 \/ <<top, a>> \in d2 \/ e.page \in f \cup R
      /\ \A p \in Pages :
           p \notin f2 \cup R2 <=>
             \/ p = e.page /\ <<top, a>> \notin d2
             \/ p \notin f \cup R /\ (<<top, a>> \in d \/ p # Descend(m, top, a))
  BY DEF Balanced
<1>3. \A x \in T, r \in Nodes :
        Descend(n, x, r) = IF x = top /\ r = a THEN e.page ELSE Descend(m, x, r)
  BY EditWalk
<1>4. \A x, r : <<x, r>> # <<top, a>> <=> ~(x = top /\ r = a)
  OBVIOUS
<1> HIDE DEF a
<1>5. OnePlace(n, T, d2)
  <2>1. ASSUME NEW y \in T, NEW r \in Nodes, <<y, r>> \notin d2, ~(y = top /\ r = a),
               <<top, a>> \notin d2, e.page # 0
        PROVE  Descend(n, y, r) # e.page
    <3>1. Descend(n, y, r) = Descend(m, y, r) /\ <<y, r>> \notin d
      BY <1>2, <1>3, <1>4, <2>1
    <3>2. Descend(m, y, r) \in Pages => Descend(m, y, r) \notin f \cup R
      <4>1. Uses(m, T, d, Descend(m, y, r))
        BY <3>1 DEF Uses
      <4> QED BY <4>1 DEF Books
    <3>3. e.page \in f \cup R /\ e.page \in Pages
      BY <1>2, <2>1 DEF Books
    <3> QED BY <3>1, <3>2, <3>3
  <2> SUFFICES ASSUME NEW x \in T, NEW y \in T, NEW s \in Nodes, NEW r \in Nodes,
                      <<x, s>> \notin d2, <<y, r>> \notin d2, Descend(n, x, s) # 0,
                      Descend(n, x, s) = Descend(n, y, r)
               PROVE  x = y /\ s = r
    BY DEF OnePlace
  <2>2. CASE x = top /\ s = a
    <3>1. Descend(n, x, s) = e.page
      BY <1>3, <2>2
    <3> QED BY <2>1, <2>2, <3>1
  <2>3. CASE y = top /\ r = a
    <3>1. Descend(n, y, r) = e.page
      BY <1>3, <2>3
    <3> QED BY <2>1, <2>3, <3>1
  <2>4. CASE ~(x = top /\ s = a) /\ ~(y = top /\ r = a)
    <3>1. Descend(n, x, s) = Descend(m, x, s) /\ <<x, s>> \notin d
      BY <1>2, <1>3, <1>4, <2>4
    <3>2. Descend(n, y, r) = Descend(m, y, r) /\ <<y, r>> \notin d
      BY <1>2, <1>3, <1>4, <2>4
    <3> QED BY <3>1, <3>2 DEF Books, OnePlace
  <2> QED BY <2>2, <2>3, <2>4
<1>6. ASSUME NEW p \in Pages PROVE Uses(n, T, d2, p) <=> p \notin f2 \cup R2
  <2>1. ASSUME Uses(n, T, d2, p) PROVE p \notin f2 \cup R2
    <3>1. PICK x \in T, r \in Nodes : <<x, r>> \notin d2 /\ Descend(n, x, r) = p
      BY <2>1 DEF Uses
    <3>2. CASE x = top /\ r = a
      <4>1. p = e.page /\ <<top, a>> \notin d2
        BY <1>3, <3>1, <3>2
      <4> QED BY <1>2, <4>1
    <3>3. CASE ~(x = top /\ r = a)
      <4>1. <<x, r>> \notin d /\ Descend(m, x, r) = p
        BY <1>2, <1>3, <1>4, <3>1, <3>3
      <4>2. p \notin f \cup R
        BY <4>1 DEF Books, Uses
      <4>3. p # 0
        BY NonePage
      <4>4. <<top, a>> \in d \/ p # Descend(m, top, a)
        BY <1>1, <3>3, <4>1, <4>3 DEF Books, OnePlace
      <4> QED BY <1>2, <4>2, <4>4
    <3> QED BY <3>2, <3>3
  <2>2. ASSUME p \notin f2 \cup R2 PROVE Uses(n, T, d2, p)
    <3>1. CASE p = e.page /\ <<top, a>> \notin d2
      <4>1. Descend(n, top, a) = p
        BY <1>1, <1>3, <3>1
      <4> QED BY <1>1, <3>1, <4>1 DEF Uses
    <3>2. CASE p \notin f \cup R /\ (<<top, a>> \in d \/ p # Descend(m, top, a))
      <4>1. Uses(m, T, d, p)
        BY <3>2 DEF Books
      <4>2. PICK x \in T, r \in Nodes : <<x, r>> \notin d /\ Descend(m, x, r) = p
        BY <4>1 DEF Uses
      <4>3. ~(x = top /\ r = a)
        BY <3>2, <4>2
      <4>4. Descend(n, x, r) = p /\ <<x, r>> \notin d2
        BY <1>2, <1>3, <1>4, <4>2, <4>3
      <4> QED BY <4>4 DEF Uses
    <3> QED BY <1>2, <2>2, <3>1, <3>2
  <2> QED BY <2>1, <2>2
<1>7. f2 \subseteq Pages /\ R2 \subseteq Pages /\ f2 \cap R2 = {}
  BY DEF Balanced
<1> QED BY <1>1, <1>2, <1>5, <1>6, <1>7 DEF Books


-----------------------------------------------------------------------------
(* The edits that the operations make                                      *)

(* A nonempty set of naturals has a least element. *)
LEMMA LeastNat ==
  ASSUME NEW T \in SUBSET Nat, T # {}
  PROVE  \E m \in T : \A k \in T : m <= k
<1>1. PICK R : IsWellFoundedOn(R, Nat) /\ R = OpToRel(<, Nat)
  BY NatLessThanWellFounded, Zenon
<1>2. \A x, y \in Nat : y < x => <<y, x>> \in R
  BY <1>1 DEF OpToRel
<1>3. PICK x \in T : \A y \in T : ~(<<y, x>> \in R)
  BY <1>1, WFMin
<1>4. \A y \in T : ~(y < x)
  BY <1>2, <1>3
<1>5. \A y \in T : x <= y
  BY <1>4
<1> QED BY <1>5

LEMMA NextFreeIs ==
  ASSUME NEW f, f \subseteq Pages, f # {}
  PROVE  NextFree(f) \in f
<1>1. f \in SUBSET Nat
  BY VmmAssumption
<1>2. \E p \in f : \A q \in f : p <= q
  BY <1>1, LeastNat
<1> QED BY <1>2 DEF NextFree

LEMMA EmptyIs ==
  /\ EmptyTable \in [Indices -> Entries] /\ \A i \in Indices : EmptyTable[i] = None
  BY NonePage DEF EmptyTable

LEMMA TableEmpty ==
  ASSUME NEW t \in [Indices -> Entries]
  PROVE  vmm_is_table_empty(t) <=> \A i \in Indices : t[i] = None
  BY EmptyIs DEF vmm_is_table_empty, EmptyTable

(* Table t of the pagemaps is at place q of top. *)
At(m, T, top, q, t) ==
  /\ top \in T /\ q \in Nodes /\ Len(q) < 4 /\ t = Descend(m, top, q) /\ t # 0

LEMMA AtTable ==
  ASSUME NEW m, NEW T, NEW d, NEW f, NEW R, Books(m, T, d, f, R),
         NEW top, NEW q, NEW t, At(m, T, top, q, t)
  PROVE  t \in Pages /\ t \notin f \cup R /\ Only(m, T, t, top, q)
  BY TablesOnce DEF At

(* An entry is written into a table. *)
LEMMA PlainEdit ==
  ASSUME NEW m, NEW T, NEW d, NEW f, NEW R, Books(m, T, d, f, R),
         NEW top, NEW q, NEW t, At(m, T, top, q, t), NEW i \in Indices, NEW e \in Entries,
         NEW n, n = [m EXCEPT ![t][i] = e],
         Len(q) < 3 => Bare(m, Descend(m, top, Append(q, i))) /\ Bare(n, e.page)
  PROVE  Edit(m, n, T, top, q, i, e, {})
<1>1. t \in Pages /\ t \notin f \cup R /\ Only(m, T, t, top, q)
  BY AtTable
<1>2. m \in [Pages -> [Indices -> Entries]] /\ T \subseteq Pages
  BY DEF Books, Mems
<1>3. n \in [Pages -> [Indices -> Entries]]
  BY <1>1, <1>2
<1>4. n[t][i] = e /\ \A p \in Pages, j \in Indices : p # t \/ j # i => n[p][j] = m[p][j]
  BY <1>1, <1>2
<1>5. Rewrites(m, n, t, i, e, {})
  BY <1>3, <1>4 DEF Rewrites, Mems
<1>6. Unused(m, T, {})
  BY DEF Unused
<1> QED BY <1>1, <1>2, <1>5, <1>6 DEF Edit, At, Mems

(* A free page is emptied and linked where no entry was. *)
LEMMA FreshEdit ==
  ASSUME NEW m, NEW T, NEW d, NEW f, NEW R, Books(m, T, d, f, R),
         NEW top, NEW q, NEW t, At(m, T, top, q, t), NEW i \in Indices,
         m[t][i] = None, <<top, Append(q, i)>> \notin d, NEW p \in f, NEW fl \in SUBSET Flags,
         NEW n, n = [m EXCEPT ![p] = EmptyTable, ![t][i] = [page |-> p, flags |-> fl]]
  PROVE  /\ Edit(m, n, T, top, q, i, [page |-> p, flags |-> fl], {p})
         /\ Books(n, T, d, f \ {p}, R)
<1> DEFINE e == [page |-> p, flags |-> fl]
<1>1. t \in Pages /\ t \notin f \cup R /\ Only(m, T, t, top, q)
  BY AtTable
<1>2. m \in [Pages -> [Indices -> Entries]] /\ T \subseteq Pages /\ p \in Pages /\ t # p
  BY <1>1 DEF Books, Mems
<1>3. e \in Entries /\ e.page = p /\ e # None
  BY <1>2, NonePage DEF Entries
<1> HIDE DEF e
<1>4. n = [m EXCEPT ![p] = EmptyTable, ![t][i] = e]
  BY DEF e
<1>5. n \in [Pages -> [Indices -> Entries]]
  BY <1>1, <1>2, <1>3, <1>4, EmptyIs
<1>6. /\ n[t][i] = e /\ n[p] = EmptyTable
      /\ \A x \in Pages \ {p}, j \in Indices : x # t \/ j # i => n[x][j] = m[x][j]
  BY <1>1, <1>2, <1>4
<1>7. Rewrites(m, n, t, i, e, {p})
  BY <1>2, <1>5, <1>6 DEF Rewrites, Mems
<1>8. Unused(m, T, {p})
  BY TablesOnce DEF Unused
<1>9. Bare(n, e.page)
  BY <1>3, <1>6, EmptyIs DEF Bare
<1>10. q \in Nodes /\ Len(q) < 4 /\ top \in T /\ t = Descend(m, top, q) /\ t # 0
  BY DEF At
<1>11. EntryAt(m, top, Append(q, i)) = None
  BY <1>10, EntryBelow
<1>12. Descend(m, top, Append(q, i)) = 0
  BY <1>10, <1>11, EntryBelow, NonePage
<1>13. Bare(m, Descend(m, top, Append(q, i)))
  BY <1>12 DEF Bare
<1>14. Edit(m, n, T, top, q, i, e, {p})
  BY <1>1, <1>2, <1>3, <1>7, <1>8, <1>9, <1>10, <1>13 DEF Edit, Mems
<1>15. Balanced(m, d, f, R, top, q, i, e, d, f \ {p}, R)
  <2>1. d \subseteq Pages \X Leaves /\ f \subseteq Pages /\ R \subseteq Pages /\ f \cap R = {}
    BY DEF Books
  <2>2. ASSUME NEW x \in Pages
        PROVE  x \notin (f \ {p}) \cup R <=>
                 \/ x = e.page /\ <<top, Append(q, i)>> \notin d
                 \/ /\ x \notin f \cup R
                    /\ <<top, Append(q, i)>> \in d \/ x # Descend(m, top, Append(q, i))
    <3>1. x # 0
      BY NonePage
    <3> QED BY <1>3, <1>12, <2>1, <3>1
  <2>3. e.page \in f \cup R
    BY <1>3
  <2> QED BY <2>1, <2>2, <2>3 DEF Balanced
<1>16. Books(n, T, d, f \ {p}, R)
  BY <1>14, <1>15, EditBooks
<1> QED BY <1>14, <1>16 DEF e

(* Of the entries one has changed. *)
Upd(m, n, T, top, a, e) ==
  \A x \in T, r \in Paths :
    EntryAt(n, x, r) = IF x = top /\ r = a THEN e ELSE EntryAt(m, x, r)

LEMMA EditUpd ==
  ASSUME NEW m, NEW n, NEW T, NEW top, NEW q, NEW i, NEW e, NEW F,
         Edit(m, n, T, top, q, i, e, F), NEW a, a = Append(q, i)
  PROVE  Upd(m, n, T, top, a, e)
  BY EditEntry DEF Upd

(* The table at place r has an entry, if there is one. *)
Full(m, x, r) ==
  Descend(m, x, r) # 0 => \E j \in Indices : EntryAt(m, x, Append(r, j)) # None

(* Every table of the pagemaps with pml4s X below a pml4 has an entry,     *)
(* except at the places E.                                                 *)
PrunedBut(m, X, E) ==
  \A x \in X, r \in Paths : Len(r) < 4 /\ <<x, r>> \notin E => Full(m, x, r)

(* A new entry makes its table full, and may be the only empty table. *)
LEMMA PrunedLink ==
  ASSUME NEW m \in Mems, NEW n \in Mems, NEW T, T \subseteq Pages,
         NEW top \in T, NEW q \in Nodes, Len(q) < 4, NEW i \in Indices, NEW a, a = Append(q, i),
         NEW e, e # None, Upd(m, n, T, top, a, e), NEW X, X \subseteq T,
         PrunedBut(m, X, {<<top, q>>})
  PROVE  PrunedBut(n, X, {<<top, a>>})
<1> SUFFICES ASSUME NEW x \in X, NEW r \in Paths, Len(r) < 4, <<x, r>> # <<top, a>>,
                    Descend(n, x, r) # 0
             PROVE  \E j \in Indices : EntryAt(n, x, Append(r, j)) # None
  BY DEF PrunedBut, Full
<1>1. x \in T /\ r \in Nodes /\ a \in Paths
  BY PathIs, NodeAppend
<1>2. CASE x = top /\ r = q
  <2>1. EntryAt(n, x, Append(r, i)) = e
    BY <1>1, <1>2 DEF Upd
  <2> QED BY <2>1
<1>3. CASE ~(x = top /\ r = q)
  <2>1. Descend(m, x, r) # 0
    <3>1. ~(x = top /\ r = a)
      OBVIOUS
    <3>2. EntryAt(n, x, r) = EntryAt(m, x, r)
      BY <1>1, <3>1 DEF Upd
    <3> QED BY <1>1, <3>2, EntryType
  <2>2. <<x, r>> \notin {<<top, q>>}
    BY <1>3
  <2>3. PICK j \in Indices : EntryAt(m, x, Append(r, j)) # None
    BY <2>1, <2>2 DEF PrunedBut, Full
  <2>4. ~(x = top /\ Append(r, j) = a)
    BY <1>1, <1>3, AppendSame
  <2>5. Append(r, j) \in Paths
    BY <1>1, NodeAppend
  <2>6. EntryAt(n, x, Append(r, j)) = EntryAt(m, x, Append(r, j))
    BY <1>1, <2>4, <2>5 DEF Upd
  <2> QED BY <2>3, <2>6
<1> QED BY <1>2, <1>3

(* An entry that is there does as well. *)
LEMMA PrunedWalk ==
  ASSUME NEW m, NEW X, NEW top, NEW q \in Nodes, Len(q) < 4, NEW i \in Indices,
         EntryAt(m, top, Append(q, i)) # None, PrunedBut(m, X, {<<top, q>>}), NEW E
  PROVE  PrunedBut(m, X, E)
<1> SUFFICES ASSUME NEW x \in X, NEW r \in Paths, Len(r) < 4
             PROVE  Full(m, x, r)
  BY DEF PrunedBut
<1>1. CASE x = top /\ r = q
  BY <1>1 DEF Full
<1>2. CASE ~(x = top /\ r = q)
  <2>1. <<x, r>> \notin {<<top, q>>}
    BY <1>2
  <2> QED BY <2>1 DEF PrunedBut
<1> QED BY <1>1, <1>2

(* Clearing an entry may empty its table. *)
LEMMA PrunedClear ==
  ASSUME NEW m \in Mems, NEW n \in Mems, NEW T, T \subseteq Pages,
         NEW top \in T, NEW q \in Nodes, Len(q) < 4, NEW i \in Indices, NEW a, a = Append(q, i),
         Upd(m, n, T, top, a, None), NEW X, X \subseteq T, PrunedBut(m, X, {<<top, a>>})
  PROVE  PrunedBut(n, X, {<<top, q>>})
<1> SUFFICES ASSUME NEW x \in X, NEW r \in Paths, Len(r) < 4, <<x, r>> # <<top, q>>,
                    Descend(n, x, r) # 0
             PROVE  \E j \in Indices : EntryAt(n, x, Append(r, j)) # None
  BY DEF PrunedBut, Full
<1>1. x \in T /\ r \in Nodes /\ a \in Paths /\ ~(x = top /\ r = q)
  BY PathIs, NodeAppend
<1>2. ~(x = top /\ r = a)
  <2>1. x = top /\ r = a => EntryAt(n, x, r) = None
    BY <1>1 DEF Upd
  <2> QED BY <1>1, <2>1, EntryType
<1>3. Descend(m, x, r) # 0
  <2>1. EntryAt(n, x, r) = EntryAt(m, x, r)
    BY <1>1, <1>2 DEF Upd
  <2> QED BY <1>1, <2>1, EntryType
<1>4. <<x, r>> \notin {<<top, a>>}
  BY <1>2
<1>5. PICK j \in Indices : EntryAt(m, x, Append(r, j)) # None
  BY <1>3, <1>4 DEF PrunedBut, Full
<1>6. ~(x = top /\ Append(r, j) = a)
  BY <1>1, AppendSame
<1>7. Append(r, j) \in Paths
  BY <1>1, NodeAppend
<1>8. EntryAt(n, x, Append(r, j)) = EntryAt(m, x, Append(r, j))
  BY <1>1, <1>6, <1>7 DEF Upd
<1> QED BY <1>5, <1>8


-----------------------------------------------------------------------------
(* vmm_map_page                                                            *)

Pre(v, n) == SubSeq(v, 1, n)

LEMMA PreIs ==
  ASSUME NEW v \in Leaves, NEW n \in 0 .. 4
  PROVE  /\ Pre(v, n) \in Seq(Indices) /\ Pre(v, n) \in Nodes /\ Len(Pre(v, n)) = n
         /\ \A j \in 1 .. n : Pre(v, n)[j] = v[j] /\ v[j] \in Indices
<1>1. \A j \in 1 .. 4 : v[j] \in Indices
  BY DEF Leaves
<1>2. n \in Int /\ \A j \in 1 .. n : v[j] \in Indices
  BY <1>1
<1>3. /\ SubSeq(v, 1, n) \in Seq(Indices)
      /\ Len(SubSeq(v, 1, n)) = IF 1 <= n THEN n - 1 + 1 ELSE 0
      /\ \A j \in 1 .. (n - 1 + 1) : SubSeq(v, 1, n)[j] = v[1 + j - 1]
  BY <1>2, SubSeqProperties
<1>4. PICK s : s = SubSeq(v, 1, n)
  OBVIOUS
<1>5. s \in Seq(Indices) /\ Len(s) = n /\ \A j \in 1 .. n : s[j] = v[j]
  BY <1>3, <1>4
<1>6. s \in Nodes
  <2>1. Len(s) <= 4
    BY <1>5
  <2> QED BY <1>5, <2>1, NodeIs, Zenon
<1> QED BY <1>2, <1>4, <1>5, <1>6 DEF Pre

LEMMA PreNext ==
  ASSUME NEW v \in Leaves, NEW n \in 0 .. 3
  PROVE  v[n + 1] \in Indices /\ Pre(v, n + 1) = Append(Pre(v, n), v[n + 1])
<1>1. PICK s : s = Pre(v, n)
  OBVIOUS
<1>2. PICK u : u = Pre(v, n + 1)
  OBVIOUS
<1>4. n \in 0 .. 4 /\ n + 1 \in 0 .. 4
  OBVIOUS
<1>3. s \in Seq(Indices) /\ Len(s) = n /\ \A j \in 1 .. n : s[j] = v[j]
  BY <1>1, <1>4, PreIs
<1>5. u \in Seq(Indices) /\ Len(u) = n + 1 /\ \A j \in 1 .. (n + 1) : u[j] = v[j]
  BY <1>2, <1>4, PreIs
<1>6. v[n + 1] \in Indices
  BY DEF Leaves
<1>7. /\ Append(s, v[n + 1]) \in Seq(Indices) /\ Len(Append(s, v[n + 1])) = n + 1
      /\ \A j \in 1 .. (n + 1) : Append(s, v[n + 1])[j] = v[j]
  BY <1>3, <1>6
<1>8. u = Append(s, v[n + 1])
  <2>1. PICK b : b = Append(s, v[n + 1])
    OBVIOUS
  <2>2. b \in Seq(Indices) /\ Len(b) = n + 1 /\ \A j \in 1 .. (n + 1) : b[j] = v[j]
    BY <1>7, <2>1
  <2>3. u = b
    BY <1>5, <2>2, SeqEqual
  <2> QED BY <2>1, <2>3
<1> QED BY <1>1, <1>2, <1>6, <1>8

LEMMA PreEnds ==
  ASSUME NEW v \in Leaves
  PROVE  Pre(v, 0) = <<>> /\ Pre(v, 4) = v /\ Front(v) = Pre(v, 3) /\ Last(v) = v[4]
<1>1. v \in Seq(Indices) /\ Len(v) = 4
  BY LeafIs, NodeIs
<1>2. PICK s : s = Pre(v, 4)
  OBVIOUS
<1>3. s \in Seq(Indices) /\ Len(s) = 4 /\ \A j \in 1 .. 4 : s[j] = v[j]
  BY <1>2, PreIs
<1>4. s = v
  BY <1>1, <1>3, SeqEqual
<1>5. Pre(v, 0) = <<>>
  <2>1. Pre(v, 0) \in Nodes /\ Len(Pre(v, 0)) = 0
    BY PreIs
  <2> QED BY <2>1, NodeLen
<1>6. Front(v) = Pre(v, 3)
  BY <1>1 DEF Front, Pre
<1>7. Last(v) = v[4]
  BY <1>1 DEF Last
<1> QED BY <1>2, <1>4, <1>5, <1>6, <1>7

(* The mappings of two memories are the same. *)
SameLeaves(m, n, T) == \A x \in T, v \in Leaves : EntryAt(n, x, v) = EntryAt(m, x, v)

LEMMA SameLeavesTwice ==
  ASSUME NEW m, NEW n, NEW k, NEW T, SameLeaves(m, n, T), SameLeaves(n, k, T)
  PROVE  SameLeaves(m, k, T)
  BY DEF SameLeaves

LEMMA UpdLeaves ==
  ASSUME NEW m, NEW n, NEW T, NEW top, NEW a, Len(a) < 4, NEW e, Upd(m, n, T, top, a, e)
  PROVE  SameLeaves(m, n, T)
<1> SUFFICES ASSUME NEW x \in T, NEW v \in Leaves PROVE EntryAt(n, x, v) = EntryAt(m, x, v)
  BY DEF SameLeaves
<1>1. v \in Paths /\ v # a
  <2>1. v \in Paths /\ Len(v) = 4
    BY LeafIs
  <2> QED BY <2>1
<1> QED BY <1>1 DEF Upd

(* vmm_get_next_level has come to place q on its way; of the pagemaps X    *)
(* only the table there may be empty.                                      *)
Working(w, T, d, R, X, top, q) ==
  /\ w = [mem |-> w.mem, free |-> w.free, at |-> w.at]
  /\ Books(w.mem, T, d, w.free, R) /\ X \subseteq T
  /\ \/ w.at = 0
     \/ At(w.mem, T, top, q, w.at) /\ PrunedBut(w.mem, X, {<<top, q>>})

LEMMA LevelWorks ==
  ASSUME NEW w, NEW T, NEW d, NEW R, NEW X, NEW top, NEW q, Working(w, T, d, R, X, top, q),
         Len(q) < 3, NEW i \in Indices, NEW fl \in SUBSET Flags,
         NEW y, y = vmm_get_next_level(w, i, fl), NEW a, a = Append(q, i)
  PROVE  Working(y, T, d, R, X, top, a) /\ SameLeaves(w.mem, y.mem, T)
<1> DEFINE m == w.mem
           t == w.at
<1>1. CASE t = 0
  <2>1. y = w
    BY <1>1 DEF vmm_get_next_level
  <2> QED BY <1>1, <2>1 DEF Working, SameLeaves
<1>2. CASE t # 0
  <2>1. /\ Books(m, T, d, w.free, R) /\ X \subseteq T
        /\ At(m, T, top, q, t) /\ PrunedBut(m, X, {<<top, q>>})
        /\ w = [mem |-> m, free |-> w.free, at |-> t]
    BY <1>2 DEF Working
  <2>2. top \in T /\ q \in Nodes /\ t = Descend(m, top, q) /\ Len(q) < 4
    BY <2>1 DEF At
  <2>3. a \in Nodes /\ a \in Paths /\ Len(a) < 4
    <3>1. Len(q) \in 0 .. 4
      BY <2>2, NodeLen
    <3>2. a \in Nodes /\ a \in Paths /\ Len(a) = Len(q) + 1
      BY <2>2, NodeAppend
    <3> QED BY <3>1, <3>2
  <2>4. EntryAt(m, top, a) = m[t][i] /\ Descend(m, top, a) = m[t][i].page
    BY <1>2, <2>2, EntryBelow
  <2>5. m[t][i] \in Entries /\ m \in Mems
    BY <2>1, AtTable DEF Books, Mems
  <2>6. CASE m[t][i] # None
    <3>1. y = [w EXCEPT !.at = m[t][i].page]
      BY <1>2, <2>6 DEF vmm_get_next_level
    <3>2. y.mem = m /\ y.free = w.free /\ y.at = m[t][i].page
          /\ y = [mem |-> y.mem, free |-> y.free, at |-> y.at]
      BY <2>1, <3>1
    <3>3. m[t][i].page # 0
      BY <2>5, <2>6, EntryPage
    <3>4. PrunedBut(m, X, {<<top, a>>})
      BY <2>1, <2>2, <2>4, <2>6, PrunedWalk
    <3>5. At(m, T, top, a, y.at)
      BY <2>2, <2>3, <2>4, <3>2, <3>3 DEF At
    <3> QED BY <2>1, <3>2, <3>4, <3>5 DEF Working, SameLeaves
  <2>7. CASE m[t][i] = None /\ w.free = {}
    <3>1. y = [w EXCEPT !.at = 0]
      BY <1>2, <2>7 DEF vmm_get_next_level
    <3>2. y.mem = m /\ y.free = w.free /\ y.at = 0
          /\ y = [mem |-> y.mem, free |-> y.free, at |-> y.at]
      BY <2>1, <3>1
    <3> QED BY <2>1, <3>2 DEF Working, SameLeaves
  <2>8. CASE m[t][i] = None /\ w.free # {}
    <3>1. PICK p : p = NextFree(w.free)
      OBVIOUS
    <3>2. p \in w.free
      BY <2>1, <2>8, <3>1, NextFreeIs DEF Books
    <3>3. y = [mem |-> [m EXCEPT ![p] = EmptyTable, ![t][i] = [page |-> p, flags |-> fl]],
               free |-> w.free \ {p}, at |-> p]
      BY <1>2, <2>8, <3>1 DEF vmm_get_next_level
    <3>4. PICK n : n = y.mem
      OBVIOUS
    <3>5. n = [m EXCEPT ![p] = EmptyTable, ![t][i] = [page |-> p, flags |-> fl]]
      BY <3>3, <3>4
    <3>6. <<top, a>> \notin d
      BY <2>1, <2>3, InnerPlace DEF Books
    <3>7. PICK f : f = w.free
      OBVIOUS
    <3>8. PICK k, g : k = m /\ g = t
      OBVIOUS
    <3>9. /\ Edit(m, n, T, top, q, i, [page |-> p, flags |-> fl], {p})
          /\ Books(n, T, d, f \ {p}, R)
      <4>1. /\ Books(k, T, d, f, R) /\ At(k, T, top, q, g) /\ i \in Indices /\ k[g][i] = None
            /\ <<top, Append(q, i)>> \notin d /\ p \in f /\ fl \in SUBSET Flags
            /\ n = [k EXCEPT ![p] = EmptyTable, ![g][i] = [page |-> p, flags |-> fl]]
        BY <2>1, <2>8, <3>2, <3>5, <3>6, <3>7, <3>8
      <4>2. /\ Edit(k, n, T, top, q, i, [page |-> p, flags |-> fl], {p})
            /\ Books(n, T, d, f \ {p}, R)
        BY <4>1, FreshEdit
      <4> QED BY <3>8, <4>2
    <3>10. PICK e : e = [page |-> p, flags |-> fl]
      OBVIOUS
    <3>11. Upd(m, n, T, top, a, e)
      BY <3>9, <3>10, EditUpd
    <3>12. e # None /\ p # 0 /\ e.page = p
      <4>1. p \in Pages
        BY <2>1, <3>2 DEF Books
      <4> QED BY <3>10, <4>1, NonePage
    <3>13. SameLeaves(m, n, T)
      BY <2>3, <3>11, UpdLeaves
    <3>14. n \in Mems /\ T \subseteq Pages
      BY <3>9 DEF Books
    <3>15. PrunedBut(n, X, {<<top, a>>})
      <4>1. /\ k \in Mems /\ n \in Mems /\ T \subseteq Pages /\ top \in T /\ q \in Nodes
            /\ Len(q) < 4 /\ i \in Indices /\ a = Append(q, i) /\ e # None
            /\ Upd(k, n, T, top, a, e) /\ X \subseteq T /\ PrunedBut(k, X, {<<top, q>>})
        BY <2>1, <2>2, <2>5, <3>8, <3>11, <3>12, <3>14
      <4> QED BY <4>1, PrunedLink
    <3>16. Descend(n, top, a) = p
      <4>1. Edit(k, n, T, top, q, i, e, {p})
        BY <3>8, <3>9, <3>10
      <4>2. \A x \in T, r \in Nodes :
              Descend(n, x, r) = IF x = top /\ r = Append(q, i) THEN e.page ELSE Descend(k, x, r)
        BY <4>1, EditWalk
      <4> QED BY <2>2, <2>3, <3>12, <4>2
    <3>17. At(n, T, top, a, p)
      BY <2>2, <2>3, <3>12, <3>16 DEF At
    <3>18. y.mem = n /\ y.free = f \ {p} /\ y.at = p
           /\ y = [mem |-> y.mem, free |-> y.free, at |-> y.at]
      BY <3>3, <3>4, <3>7
    <3> QED BY <2>1, <3>9, <3>13, <3>15, <3>17, <3>18 DEF Working
  <2> QED BY <2>6, <2>7, <2>8
<1> QED BY <1>1, <1>2


LEMMA PrunedMore ==
  ASSUME NEW m, NEW X, NEW E, PrunedBut(m, X, {})
  PROVE  PrunedBut(m, X, E)
  BY DEF PrunedBut

LEMMA PrunedLeaf ==
  ASSUME NEW m, NEW X, NEW top, NEW v \in Leaves, PrunedBut(m, X, {<<top, v>>})
  PROVE  PrunedBut(m, X, {})
<1> SUFFICES ASSUME NEW x \in X, NEW r \in Paths, Len(r) < 4 PROVE Full(m, x, r)
  BY DEF PrunedBut
<1>1. r # v
  <2>1. Len(v) = 4
    BY LeafIs
  <2> QED BY <2>1
<1>2. <<x, r>> \notin {<<top, v>>}
  BY <1>1
<1> QED BY <1>2 DEF PrunedBut

(* A call of vmm_map_page: the tables of the path, then the entry. *)
Mapping(m, T, d, f, R, X, top, v, e) ==
  /\ Books(m, T, d, f, R) /\ X \subseteq T /\ PrunedBut(m, X, {})
  /\ top \in T /\ v \in Leaves /\ e \in Entries /\ e # None

LEMMA MapPageWorks ==
  ASSUME NEW m, NEW T, NEW d, NEW f, NEW R, NEW X, NEW top, NEW v, NEW phys, NEW flags,
         Mapping(m, T, d, f, R, X, top, v, [page |-> phys, flags |-> flags]),
         flags \in SUBSET Flags, NEW w, w = MapPage(m, f, top, v, phys, flags)
  PROVE  \/ w.at = 0 /\ Books(w.mem, T, d, w.free, R) /\ SameLeaves(m, w.mem, T)
         \/ /\ w.at # 0
            /\ PrunedBut(w.mem, X, {})
            /\ \E k : /\ Books(k, T, d, w.free, R) /\ SameLeaves(m, k, T)
                      /\ Edit(k, w.mem, T, top, Pre(v, 3), v[4],
                              [page |-> phys, flags |-> flags], {})
<1> DEFINE fl == AllocFlags(flags)
           e == [page |-> phys, flags |-> flags]
           w0 == [mem |-> m, free |-> f, at |-> top]
           w1 == vmm_get_next_level(w0, v[1], fl)
           w2 == vmm_get_next_level(w1, v[2], fl)
           w3 == vmm_get_next_level(w2, v[3], fl)
<1>1. fl \in SUBSET Flags
  BY DEF AllocFlags, Flags
<1>2. /\ Books(m, T, d, f, R) /\ X \subseteq T /\ PrunedBut(m, X, {})
      /\ top \in T /\ v \in Leaves /\ e \in Entries /\ e # None
  BY DEF Mapping
<1>3. w = IF w3.at = 0 THEN w3 ELSE [w3 EXCEPT !.mem[w3.at][v[4]] = e]
  BY DEF MapPage
<1>4. /\ v[1] \in Indices /\ v[2] \in Indices /\ v[3] \in Indices /\ v[4] \in Indices
      /\ Pre(v, 1) = Append(Pre(v, 0), v[1]) /\ Pre(v, 2) = Append(Pre(v, 1), v[2])
      /\ Pre(v, 3) = Append(Pre(v, 2), v[3]) /\ Pre(v, 4) = Append(Pre(v, 3), v[4])
  <2>1. \A n \in 0 .. 3 : v[n + 1] \in Indices /\ Pre(v, n + 1) = Append(Pre(v, n), v[n + 1])
    BY <1>2, PreNext
  <2>2. /\ v[0 + 1] \in Indices /\ v[1 + 1] \in Indices /\ v[2 + 1] \in Indices
        /\ v[3 + 1] \in Indices /\ Pre(v, 0 + 1) = Append(Pre(v, 0), v[0 + 1])
        /\ Pre(v, 1 + 1) = Append(Pre(v, 1), v[1 + 1])
        /\ Pre(v, 2 + 1) = Append(Pre(v, 2), v[2 + 1])
        /\ Pre(v, 3 + 1) = Append(Pre(v, 3), v[3 + 1])
    BY <2>1
  <2> QED BY <2>2
<1>5. \A n \in 0 .. 4 : Pre(v, n) \in Nodes /\ Len(Pre(v, n)) = n
  BY <1>2, PreIs
<1>6. Pre(v, 0) = <<>> /\ Pre(v, 4) = v
  BY <1>2, PreEnds
<1> HIDE DEF fl, e, w1, w2, w3
<1>7. Working(w0, T, d, R, X, top, Pre(v, 0))
  <2>1. Descend(m, top, <<>>) = top
    BY DescendRoot
  <2>2. top # 0
    BY <1>2, NonePage DEF Books
  <2>3. At(m, T, top, Pre(v, 0), top)
    BY <1>2, <1>6, <2>1, <2>2, RootNode DEF At
  <2>4. PrunedBut(m, X, {<<top, Pre(v, 0)>>})
    BY <1>2, PrunedMore
  <2> QED BY <1>2, <2>3, <2>4 DEF Working
<1>8. Working(w1, T, d, R, X, top, Pre(v, 1)) /\ SameLeaves(m, w1.mem, T)
  <2>1. PICK y : y = w1
    OBVIOUS
  <2>2. Len(Pre(v, 0)) < 3 /\ y = vmm_get_next_level(w0, v[1], fl)
    BY <1>5, <2>1 DEF w1
  <2>3. Working(y, T, d, R, X, top, Pre(v, 1)) /\ SameLeaves(w0.mem, y.mem, T)
    <3>1. PICK z : z = w0
      OBVIOUS
    <3>2. Working(z, T, d, R, X, top, Pre(v, 0)) /\ y = vmm_get_next_level(z, v[1], fl)
      BY <1>7, <2>2, <3>1
    <3>3. Working(y, T, d, R, X, top, Pre(v, 1)) /\ SameLeaves(z.mem, y.mem, T)
      <4>1. v[1] \in Indices /\ Pre(v, 1) = Append(Pre(v, 0), v[1]) /\ Len(Pre(v, 0)) < 3
        BY <1>4, <2>2
      <4> QED BY <1>1, <3>2, <4>1, LevelWorks
    <3> QED BY <3>1, <3>3
  <2> QED BY <2>1, <2>3
<1>9. Working(w2, T, d, R, X, top, Pre(v, 2)) /\ SameLeaves(m, w2.mem, T)
  <2>1. Len(Pre(v, 1)) < 3
    <3>1. Len(Pre(v, 1)) = 1
      BY <1>5
    <3> QED BY <3>1
  <2>2. PICK y, z : y = w2 /\ z = w1
    OBVIOUS
  <2>3. Working(z, T, d, R, X, top, Pre(v, 1)) /\ y = vmm_get_next_level(z, v[2], fl)
    BY <1>8, <2>2 DEF w2
  <2>4. Working(y, T, d, R, X, top, Pre(v, 2)) /\ SameLeaves(z.mem, y.mem, T)
    <3>1. v[2] \in Indices /\ Pre(v, 2) = Append(Pre(v, 1), v[2])
      BY <1>4
    <3> QED BY <1>1, <2>1, <2>3, <3>1, LevelWorks
  <2> QED BY <1>8, <2>2, <2>4, SameLeavesTwice
<1>10. Working(w3, T, d, R, X, top, Pre(v, 3)) /\ SameLeaves(m, w3.mem, T)
  <2>1. Len(Pre(v, 2)) < 3
    <3>1. PICK c : c = Len(Pre(v, 2))
      OBVIOUS
    <3>2. c = 2
      BY <1>5, <3>1
    <3>3. c < 3
      BY <3>2
    <3> QED BY <3>1, <3>3
  <2>2. PICK y, z : y = w3 /\ z = w2
    OBVIOUS
  <2>3. Working(z, T, d, R, X, top, Pre(v, 2)) /\ y = vmm_get_next_level(z, v[3], fl)
    BY <1>9, <2>2 DEF w3
  <2>4. Working(y, T, d, R, X, top, Pre(v, 3)) /\ SameLeaves(z.mem, y.mem, T)
    <3>1. v[3] \in Indices /\ Pre(v, 3) = Append(Pre(v, 2), v[3])
      BY <1>4
    <3> QED BY <1>1, <2>1, <2>3, <3>1, LevelWorks
  <2> QED BY <1>9, <2>2, <2>4, SameLeavesTwice
<1>11. PICK z : z = w3
  OBVIOUS
<1>12. /\ z = [mem |-> z.mem, free |-> z.free, at |-> z.at]
       /\ Books(z.mem, T, d, z.free, R) /\ SameLeaves(m, z.mem, T)
       /\ \/ z.at = 0
          \/ At(z.mem, T, top, Pre(v, 3), z.at) /\ PrunedBut(z.mem, X, {<<top, Pre(v, 3)>>})
  BY <1>10, <1>11 DEF Working
<1>13. CASE z.at = 0
  <2>1. w = z
    BY <1>3, <1>11, <1>13
  <2> QED BY <1>12, <1>13, <2>1
<1>14. CASE z.at # 0
  <2>1. PICK k, t, n : k = z.mem /\ t = z.at /\ n = [k EXCEPT ![t][v[4]] = e]
    OBVIOUS
  <2>2. w.mem = n /\ w.free = z.free /\ w.at = z.at
    BY <1>3, <1>11, <1>12, <1>14, <2>1
  <2>3. Books(k, T, d, z.free, R) /\ At(k, T, top, Pre(v, 3), t)
        /\ PrunedBut(k, X, {<<top, Pre(v, 3)>>}) /\ SameLeaves(m, k, T)
    BY <1>12, <1>14, <2>1
  <2>4. Len(Pre(v, 3)) = 3 /\ Pre(v, 3) \in Nodes
    BY <1>5
  <2>5. Edit(k, n, T, top, Pre(v, 3), v[4], e, {})
    BY <1>2, <1>4, <2>1, <2>3, <2>4, PlainEdit
  <2>6. Upd(k, n, T, top, v, e)
    BY <1>4, <1>6, <2>5, EditUpd
  <2>7. k \in Mems /\ n \in Mems /\ T \subseteq Pages
    BY <2>3, <2>5 DEF Books, Edit, Rewrites
  <2>8. PrunedBut(n, X, {<<top, v>>})
    <3>1. PICK q, i, g : q = Pre(v, 3) /\ i = v[4] /\ g = e
      OBVIOUS
    <3>2. Len(q) = 3
      BY <2>4, <3>1
    <3>3. Len(q) < 4
      BY <3>2
    <3>4. v = Append(q, i)
      BY <1>4, <1>6, <3>1
    <3>5. /\ k \in Mems /\ n \in Mems /\ T \subseteq Pages /\ top \in T /\ q \in Nodes
          /\ i \in Indices /\ g # None /\ Upd(k, n, T, top, v, g) /\ X \subseteq T
          /\ PrunedBut(k, X, {<<top, q>>})
      BY <1>2, <1>4, <2>3, <2>4, <2>6, <2>7, <3>1
    <3> QED BY <3>3, <3>4, <3>5, PrunedLink
  <2>9. PrunedBut(n, X, {})
    BY <1>2, <2>8, PrunedLeaf
  <2> QED BY <1>14, <2>2, <2>3, <2>5, <2>9 DEF e
<1> QED BY <1>13, <1>14


(* A cleared entry: the table it was in is now empty, or full. *)
Clearing(m, n, T, X, top, q, i, t) ==
  /\ Edit(m, n, T, top, q, i, None, {}) /\ t = Descend(m, top, q)
  /\ X \subseteq T /\ PrunedBut(m, X, {<<top, Append(q, i)>>})

LEMMA Cleared ==
  ASSUME NEW m, NEW n, NEW T, NEW X, NEW top, NEW q, NEW i, NEW t,
         Clearing(m, n, T, X, top, q, i, t)
  PROVE  /\ Descend(n, top, q) = t /\ t \in Pages /\ n \in Mems
         /\ PrunedBut(n, X, {<<top, q>>})
         /\ vmm_is_table_empty(n[t]) => Bare(n, t)
         /\ ~vmm_is_table_empty(n[t]) => PrunedBut(n, X, {})
         /\ q = <<>> => PrunedBut(n, X, {})
<1>1. /\ m \in Mems /\ n \in Mems /\ T \subseteq Pages /\ top \in T /\ q \in Nodes
      /\ Len(q) < 4 /\ i \in Indices /\ t # 0 /\ t = Descend(m, top, q) /\ X \subseteq T
  BY DEF Clearing, Edit, Rewrites
<1>2. PICK a : a = Append(q, i)
  OBVIOUS
<1> Edit(m, n, T, top, q, i, None, {}) /\ PrunedBut(m, X, {<<top, a>>})
  BY <1>2 DEF Clearing
<1>3. Len(a) = Len(q) + 1
  BY <1>1, <1>2, NodeAppend
<1>4. a # q
  <2>1. PICK k \in 0 .. 4 : k = Len(q)
    BY <1>1, NodeLen
  <2> QED BY <1>3, <2>1
<1>5. t \in Pages
  BY <1>1, WalkType
<1>6. Descend(n, top, q) = t
  <2>1. \A x \in T, r \in Nodes :
          Descend(n, x, r) = IF x = top /\ r = Append(q, i) THEN None.page ELSE Descend(m, x, r)
    BY EditWalk
  <2> QED BY <1>1, <1>2, <1>4, <2>1
<1>7. PrunedBut(n, X, {<<top, q>>})
  <2>1. Upd(m, n, T, top, a, None)
    BY <1>2, EditUpd
  <2> QED BY <1>1, <1>2, <2>1, PrunedClear
<1>8. n[t] \in [Indices -> Entries]
  BY <1>1, <1>5 DEF Mems
<1>9. ASSUME ~vmm_is_table_empty(n[t]) PROVE PrunedBut(n, X, {})
  <2>1. PICK j \in Indices : n[t][j] # None
    BY <1>8, <1>9, TableEmpty
  <2>2. EntryAt(n, top, Append(q, j)) # None
    BY <1>1, <1>6, <2>1, EntryBelow
  <2> QED BY <1>1, <1>7, <2>2, PrunedWalk
<1>10. ASSUME q = <<>> PROVE PrunedBut(n, X, {})
  <2> SUFFICES ASSUME NEW x \in X, NEW r \in Paths, Len(r) < 4 PROVE Full(n, x, r)
    BY DEF PrunedBut
  <2>1. r # q
    BY <1>10, PathIs
  <2>2. <<x, r>> \notin {<<top, q>>}
    BY <2>1
  <2> QED BY <1>7, <2>2 DEF PrunedBut
<1>11. vmm_is_table_empty(n[t]) => Bare(n, t)
  BY <1>8, TableEmpty DEF Bare
<1> QED BY <1>1, <1>5, <1>6, <1>7, <1>9, <1>10, <1>11

(* vmm_unmap_page has cleared an entry of the table at place q: it is done *)
(* if that table, or the pml4, stays.                                      *)
Cascade(a, T, d, R, X, top, q) ==
  /\ a = [mem |-> a.mem, free |-> a.free, top |-> top, done |-> a.done]
  /\ a.done \in BOOLEAN
  /\ Books(a.mem, T, d, a.free, R) /\ X \subseteq T
  /\ a.done => PrunedBut(a.mem, X, {})
  /\ ~a.done => /\ At(a.mem, T, top, q, Descend(a.mem, top, q))
                /\ q # <<>>
                /\ Bare(a.mem, Descend(a.mem, top, q))
                /\ PrunedBut(a.mem, X, {<<top, q>>})

LEMMA ClearWorks ==
  ASSUME NEW a, NEW T, NEW d, NEW R, NEW X, NEW top, NEW v \in Leaves, NEW n \in 1 .. 3,
         Cascade(a, T, d, R, X, top, Pre(v, n)), NEW y, y = Clear(a, v, n)
  PROVE  Cascade(y, T, d, R, X, top, Pre(v, n - 1)) /\ SameLeaves(a.mem, y.mem, T)
<1>1. CASE a.done
  <2>1. y = a
    BY <1>1 DEF Clear
  <2> QED BY <1>1, <2>1 DEF Cascade, SameLeaves
<1>2. CASE ~a.done
  <2>1. PICK m, q, i, t, r, c, f :
          /\ m = a.mem /\ q = Pre(v, n - 1) /\ i = v[n] /\ t = Descend(m, top, q)
          /\ r = Pre(v, n) /\ c = Descend(m, top, r) /\ f = a.free
    OBVIOUS
  <2>2. PICK k : k = [m EXCEPT ![t][i] = None]
    OBVIOUS
  <2>3. /\ Books(m, T, d, f, R) /\ X \subseteq T /\ At(m, T, top, r, c) /\ r # <<>>
        /\ Bare(m, c) /\ PrunedBut(m, X, {<<top, r>>})
        /\ a = [mem |-> m, free |-> f, top |-> top, done |-> FALSE]
    BY <1>2, <2>1 DEF Cascade
  <2>4. /\ q \in Nodes /\ Len(q) = n - 1 /\ i \in Indices /\ r = Append(q, i) /\ Len(r) = n
        /\ r \in Nodes
    <3>1. n - 1 \in 0 .. 3 /\ n - 1 \in 0 .. 4 /\ n \in 0 .. 4 /\ (n - 1) + 1 = n
      OBVIOUS
    <3>2. \A j \in 0 .. 4 : Pre(v, j) \in Nodes /\ Len(Pre(v, j)) = j
      BY PreIs
    <3>3. \A j \in 0 .. 3 : v[j + 1] \in Indices /\ Pre(v, j + 1) = Append(Pre(v, j), v[j + 1])
      BY PreNext
    <3>4. v[(n - 1) + 1] \in Indices /\ Pre(v, (n - 1) + 1) = Append(Pre(v, n - 1), v[(n - 1) + 1])
      BY <3>1, <3>3
    <3> QED BY <2>1, <3>1, <3>2, <3>4
  <2>5. Len(q) < 3 /\ Len(q) < 4 /\ Len(r) < 4
    BY <2>4
  <2>6. top \in T /\ c # 0 /\ c = Descend(m, top, Append(q, i))
    BY <2>1, <2>3, <2>4 DEF At
  <2>7. t # 0
    BY <2>1, <2>4, <2>5, <2>6, WalkUp
  <2>8. At(m, T, top, q, t)
    BY <2>1, <2>4, <2>5, <2>6, <2>7 DEF At
  <2>9. t \in Pages /\ m \in Mems
    BY <2>3, <2>8, AtTable DEF Books
  <2>10. m[t][i].page = c
    BY <2>1, <2>4, <2>5, <2>6, <2>7, DescendBelow DEF Down
  <2>11. y = [mem |-> k, free |-> f \cup {c}, top |-> top,
              done |-> (n = 1 \/ ~vmm_is_table_empty(k[t]))]
    <3>1. n # 4
      OBVIOUS
    <3>2. /\ Descend(a.mem, a.top, SubSeq(v, 1, n - 1)) = t /\ v[n] = i
          /\ [a.mem EXCEPT ![t][i] = None] = k /\ a.mem[t][i].page = c
      BY <2>1, <2>2, <2>3, <2>10 DEF Pre
    <3>3. y = [a EXCEPT !.mem = k, !.done = n = 1 \/ ~vmm_is_table_empty(k[t]),
                        !.free = IF n = 4 THEN @ ELSE @ \cup {c}]
      <4>1. y = ClearEntry(a, t, i, n)
        BY <1>2, <3>2, Zenon DEF Clear
      <4> QED BY <3>2, <4>1, Zenon DEF ClearEntry
    <3>4. y = [a EXCEPT !.mem = k, !.done = n = 1 \/ ~vmm_is_table_empty(k[t]),
                        !.free = @ \cup {c}]
      BY <3>1, <3>3, Zenon
    <3> QED BY <2>3, <3>4
  <2>12. Edit(m, k, T, top, q, i, None, {})
    <3>1. Bare(k, None.page)
      BY NonePage DEF Bare
    <3>2. Len(q) < 3 => Bare(m, Descend(m, top, Append(q, i))) /\ Bare(k, None.page)
      BY <2>3, <2>6, <3>1
    <3> QED BY <2>2, <2>3, <2>4, <2>8, <3>2, NonePage, PlainEdit
  <2>13. Books(k, T, d, f \cup {c}, R)
    <3>1. c \in Pages /\ c \notin f \cup R
      BY <2>3, AtTable
    <3>2. d \subseteq Pages \X Leaves /\ f \subseteq Pages /\ R \subseteq Pages /\ f \cap R = {}
      BY <2>3 DEF Books
    <3>3. <<top, Append(q, i)>> \notin d
      BY <2>4, <2>5, <3>2, InnerPlace
    <3>4. Balanced(m, d, f, R, top, q, i, None, d, f \cup {c}, R)
      BY <2>6, <3>1, <3>2, <3>3, NonePage DEF Balanced
    <3> QED BY <2>3, <2>12, <3>4, EditBooks
  <2>14. /\ Descend(k, top, q) = t /\ t \in Pages /\ k \in Mems
         /\ PrunedBut(k, X, {<<top, q>>})
         /\ vmm_is_table_empty(k[t]) => Bare(k, t)
         /\ ~vmm_is_table_empty(k[t]) => PrunedBut(k, X, {})
         /\ q = <<>> => PrunedBut(k, X, {})
    <3>1. Clearing(m, k, T, X, top, q, i, t)
      BY <2>1, <2>3, <2>4, <2>12 DEF Clearing
    <3> QED BY <3>1, Cleared
  <2>15. SameLeaves(m, k, T)
    BY <2>4, <2>5, <2>12, EditUpd, UpdLeaves
  <2>16. q = <<>> <=> n = 1
    <3>1. Len(q) \in 0 .. 4 /\ (Len(q) = 0 => q = <<>>) /\ Len(<<>>) = 0
      BY <2>4, NodeLen, RootNode
    <3>2. n = 1 => Len(q) = 0
      BY <2>4
    <3>3. Len(q) = 0 => n = 1
      BY <2>4
    <3> QED BY <3>1, <3>2, <3>3
  <2>17. At(k, T, top, q, Descend(k, top, q))
    BY <2>7, <2>8, <2>14 DEF At
  <2>18. PICK dn \in BOOLEAN : dn <=> (n = 1 \/ ~vmm_is_table_empty(k[t]))
    OBVIOUS
  <2>19. y = [mem |-> k, free |-> f \cup {c}, top |-> top, done |-> dn]
    BY <2>11, <2>18, Zenon
  <2>20. dn => PrunedBut(k, X, {})
    BY <2>14, <2>16, <2>18
  <2>21. ~dn => Bare(k, t) /\ q # <<>>
    BY <2>14, <2>16, <2>18
  <2>22. y.mem = k /\ y.free = f \cup {c} /\ y.top = top /\ y.done = dn
    BY <2>19
  <2>23. Cascade(y, T, d, R, X, top, q)
    <3>1. y = [mem |-> y.mem, free |-> y.free, top |-> top, done |-> y.done]
      BY <2>19
    <3>2. y.done \in BOOLEAN
      BY <2>22
    <3>3. y.done => PrunedBut(y.mem, X, {})
      BY <2>20, <2>22
    <3>4. ~y.done => /\ At(y.mem, T, top, q, Descend(y.mem, top, q)) /\ q # <<>>
                     /\ Bare(y.mem, Descend(y.mem, top, q)) /\ PrunedBut(y.mem, X, {<<top, q>>})
      BY <2>14, <2>17, <2>21, <2>22
    <3> QED BY <2>3, <2>13, <2>22, <3>1, <3>2, <3>3, <3>4 DEF Cascade
  <2> QED BY <2>1, <2>15, <2>22, <2>23
<1> QED BY <1>1, <1>2, Zenon


(* Of the leaves, only the entry of v changes. *)
LeafUpd(m, n, T, top, v, e) ==
  \A x \in T, r \in Leaves :
    EntryAt(n, x, r) = IF x = top /\ r = v THEN e ELSE EntryAt(m, x, r)

LEMMA LeafUpdSame ==
  ASSUME NEW m, NEW n, NEW k, NEW T, NEW top, NEW v, NEW e
  PROVE  /\ LeafUpd(m, n, T, top, v, e) /\ SameLeaves(n, k, T) => LeafUpd(m, k, T, top, v, e)
         /\ SameLeaves(m, n, T) /\ LeafUpd(n, k, T, top, v, e) => LeafUpd(m, k, T, top, v, e)
  BY DEF LeafUpd, SameLeaves

LEMMA UpdLeafUpd ==
  ASSUME NEW m, NEW n, NEW T, NEW top, NEW v, NEW e, Upd(m, n, T, top, v, e)
  PROVE  LeafUpd(m, n, T, top, v, e)
<1>1. \A r \in Leaves : r \in Paths
  BY LeafIs
<1> QED BY <1>1 DEF LeafUpd, Upd

Unmapping(m, T, d, f, R, X, top, v) ==
  /\ Books(m, T, d, f, R) /\ X \subseteq T /\ PrunedBut(m, X, {})
  /\ top \in T /\ v \in Leaves /\ EntryAt(m, top, v) # None

(* The page that has no use left when the entry of v goes. *)
Released(m, d, top, v) ==
  IF <<top, v>> \in d \/ EntryAt(m, top, v) = None THEN {} ELSE {EntryAt(m, top, v).page}

LEMMA LastClear ==
  ASSUME NEW m, NEW T, NEW d, NEW f, NEW R, NEW X, NEW top, NEW v,
         Unmapping(m, T, d, f, R, X, top, v), NEW y,
         y = Clear([mem |-> m, free |-> f, top |-> top, done |-> FALSE], v, 4)
  PROVE  /\ Cascade(y, T, d \ {<<top, v>>}, R \cup Released(m, d, top, v), X, top, Pre(v, 3))
         /\ LeafUpd(m, y.mem, T, top, v, None)
<1>1. /\ Books(m, T, d, f, R) /\ X \subseteq T /\ PrunedBut(m, X, {})
      /\ top \in T /\ v \in Leaves /\ EntryAt(m, top, v) # None
  BY DEF Unmapping
<1>2. PICK q, i, t, p : /\ q = Pre(v, 3) /\ i = v[4] /\ t = Descend(m, top, q)
                        /\ p = EntryAt(m, top, v).page
  OBVIOUS
<1>3. PICK k, d2, R2 : /\ k = [m EXCEPT ![t][i] = None] /\ d2 = d \ {<<top, v>>}
                       /\ R2 = R \cup Released(m, d, top, v)
  OBVIOUS
<1>4. q \in Nodes /\ Len(q) = 3 /\ i \in Indices /\ v = Append(q, i)
  <2>1. \A j \in 0 .. 4 : Pre(v, j) \in Nodes /\ Len(Pre(v, j)) = j
    BY <1>1, PreIs
  <2>2. \A j \in 0 .. 3 : v[j + 1] \in Indices /\ Pre(v, j + 1) = Append(Pre(v, j), v[j + 1])
    BY <1>1, PreNext
  <2>3. v[3 + 1] \in Indices /\ Pre(v, 3 + 1) = Append(Pre(v, 3), v[3 + 1])
    BY <2>2
  <2>4. Pre(v, 4) = v
    BY <1>1, PreEnds
  <2> QED BY <1>2, <2>1, <2>3, <2>4
<1>5. Len(q) < 4 /\ ~(Len(q) < 3) /\ q # <<>>
  <2>1. Len(<<>>) = 0
    BY RootNode
  <2> QED BY <1>4, <2>1
<1>6. m \in Mems /\ T \subseteq Pages /\ top \in Pages /\ v \in Paths
  BY <1>1, LeafIs DEF Books
<1>7. Descend(m, top, v) = p /\ p \in Pages /\ p # 0
  <2>1. /\ EntryAt(m, top, v) \in Entries /\ Descend(m, top, v) = EntryAt(m, top, v).page
    BY <1>6, EntryType
  <2>2. p # 0 /\ p \in Pages
    BY <1>1, <1>2, <2>1, EntryPage
  <2> QED BY <1>2, <2>1, <2>2
<1>8. At(m, T, top, q, t)
  <2>1. Descend(m, top, Append(q, i)) # 0
    BY <1>4, <1>7
  <2>2. t # 0
    BY <1>2, <1>4, <1>5, <2>1, WalkUp
  <2> QED BY <1>1, <1>2, <1>4, <1>5, <2>2 DEF At
<1>9. t \in Pages
  BY <1>1, <1>8, AtTable
<1>10. PICK dn \in BOOLEAN : dn <=> ~vmm_is_table_empty(k[t])
  OBVIOUS
<1>11. y = [mem |-> k, free |-> f, top |-> top, done |-> dn]
  <2>1. PICK a : a = [mem |-> m, free |-> f, top |-> top, done |-> FALSE]
    OBVIOUS
  <2>2. /\ Descend(a.mem, a.top, SubSeq(v, 1, 4 - 1)) = t /\ v[4] = i
        /\ [a.mem EXCEPT ![t][i] = None] = k
    BY <1>2, <1>3, <2>1 DEF Pre
  <2>3. ~a.done /\ 4 # 1
    BY <2>1
  <2>4. y = [a EXCEPT !.mem = k, !.done = 4 = 1 \/ ~vmm_is_table_empty(k[t]),
                      !.free = IF 4 = 4 THEN @ ELSE @ \cup {a.mem[t][i].page}]
    <3>1. y = ClearEntry(a, t, i, 4)
      BY <2>1, <2>2, <2>3, Zenon DEF Clear
    <3> QED BY <2>2, <3>1, Zenon DEF ClearEntry
  <2>5. y = [a EXCEPT !.mem = k, !.done = dn, !.free = @]
    BY <1>10, <2>3, <2>4, Zenon
  <2> QED BY <2>1, <2>5
<1>12. y.mem = k /\ y.free = f /\ y.top = top /\ y.done = dn
  BY <1>11
<1>13. Edit(m, k, T, top, q, i, None, {})
  BY <1>1, <1>3, <1>4, <1>5, <1>8, NonePage, PlainEdit
<1>14. Books(k, T, d2, f, R2)
  <2>1. /\ d \subseteq Pages \X Leaves /\ f \subseteq Pages /\ R \subseteq Pages /\ f \cap R = {}
        /\ \A c \in Pages : Uses(m, T, d, c) <=> c \notin f \cup R
    BY <1>1 DEF Books
  <2>2. PICK pl : pl = <<top, v>>
    OBVIOUS
  <2>3. pl \notin d => p \notin f \cup R
    <3>1. pl \notin d => Uses(m, T, d, p)
      BY <1>1, <1>7, <2>2, LeafIs DEF Uses
    <3> QED BY <1>7, <2>1, <3>1
  <2>4. R2 = R \cup (IF pl \in d THEN {} ELSE {p}) /\ d2 = d \ {pl}
    BY <1>1, <1>2, <1>3, <2>2 DEF Released
  <2>5. pl \notin d2
    BY <2>4
  <2>6. R2 \subseteq Pages /\ f \cap R2 = {}
    BY <1>7, <2>1, <2>3, <2>4
  <2>7. \A c \in Pages : c \notin f \cup R2 <=> (c \notin f \cup R /\ (pl \in d \/ c # p))
    BY <2>4
  <2>8. Balanced(m, d, f, R, top, q, i, None, d2, f, R2)
    <3>1. d2 \subseteq Pages \X Leaves /\ \A z : z # pl => (z \in d2 <=> z \in d)
      BY <2>1, <2>4
    <3>2. None.page = 0 /\ 0 \notin Pages /\ <<top, Append(q, i)>> = pl
          /\ Descend(m, top, Append(q, i)) = p
      BY <1>4, <1>7, <2>2, NonePage
    <3>3. \A c \in Pages : c \notin f \cup R2 <=>
            \/ c = None.page /\ pl \notin d2
            \/ c \notin f \cup R /\ (pl \in d \/ c # p)
      BY <2>7, <3>2
    <3> QED BY <2>1, <2>6, <3>1, <3>2, <3>3 DEF Balanced
  <2> QED BY <1>1, <1>13, <2>8, EditBooks
<1>15. PrunedBut(m, X, {<<top, Append(q, i)>>})
  BY <1>1, PrunedMore
<1>16. Clearing(m, k, T, X, top, q, i, t)
  BY <1>1, <1>2, <1>13, <1>15 DEF Clearing
<1>17. /\ Descend(k, top, q) = t /\ PrunedBut(k, X, {<<top, q>>})
       /\ vmm_is_table_empty(k[t]) => Bare(k, t)
       /\ ~vmm_is_table_empty(k[t]) => PrunedBut(k, X, {})
  BY <1>16, Cleared
<1>18. Cascade(y, T, d2, R2, X, top, q)
  <2>1. y = [mem |-> y.mem, free |-> y.free, top |-> top, done |-> y.done]
    BY <1>11
  <2>2. y.done => PrunedBut(y.mem, X, {})
    BY <1>10, <1>12, <1>17
  <2>3. ~y.done => Bare(y.mem, Descend(y.mem, top, q))
    BY <1>10, <1>12, <1>17
  <2>4. At(y.mem, T, top, q, Descend(y.mem, top, q))
    BY <1>8, <1>12, <1>17 DEF At
  <2>5. y.done \in BOOLEAN
    BY <1>12
  <2>6. Books(y.mem, T, d2, y.free, R2) /\ PrunedBut(y.mem, X, {<<top, q>>})
    BY <1>12, <1>14, <1>17
  <2> QED BY <1>1, <1>5, <2>1, <2>2, <2>3, <2>4, <2>5, <2>6 DEF Cascade
<1>19. LeafUpd(m, k, T, top, v, None)
  BY <1>4, <1>13, EditUpd, UpdLeafUpd
<1> QED BY <1>2, <1>3, <1>12, <1>18, <1>19

(* vmm_unmap_page, from the entry to the last table that it empties. *)
LEMMA PruneWorks ==
  ASSUME NEW m, NEW T, NEW d, NEW f, NEW R, NEW X, NEW top, NEW v,
         Unmapping(m, T, d, f, R, X, top, v), NEW w, w = Prune(m, f, top, v)
  PROVE  /\ Books(w.mem, T, d \ {<<top, v>>}, w.free, R \cup Released(m, d, top, v))
         /\ PrunedBut(w.mem, X, {})
         /\ LeafUpd(m, w.mem, T, top, v, None)
<1>1. PICK a4, d2, R2 :
        /\ a4 = Clear([mem |-> m, free |-> f, top |-> top, done |-> FALSE], v, 4)
        /\ d2 = d \ {<<top, v>>} /\ R2 = R \cup Released(m, d, top, v)
  OBVIOUS
<1>2. PICK a3 : a3 = Clear(a4, v, 3)
  OBVIOUS
<1>3. PICK a2 : a2 = Clear(a3, v, 2)
  OBVIOUS
<1>4. w = Clear(a2, v, 1) /\ v \in Leaves
  BY <1>1, <1>2, <1>3 DEF Prune, Unmapping
<1>5. Cascade(a4, T, d2, R2, X, top, Pre(v, 3)) /\ LeafUpd(m, a4.mem, T, top, v, None)
  BY <1>1, LastClear
<1>6. \A n \in 1 .. 3 : \A a, y :
          Cascade(a, T, d2, R2, X, top, Pre(v, n)) /\ y = Clear(a, v, n) =>
          Cascade(y, T, d2, R2, X, top, Pre(v, n - 1)) /\ SameLeaves(a.mem, y.mem, T)
  BY <1>4, ClearWorks
<1>7. Cascade(a3, T, d2, R2, X, top, Pre(v, 2)) /\ SameLeaves(a4.mem, a3.mem, T)
  <2>1. 3 \in 1 .. 3 /\ 3 - 1 = 2
    OBVIOUS
  <2> QED BY <1>2, <1>5, <1>6, <2>1
<1>8. Cascade(a2, T, d2, R2, X, top, Pre(v, 1)) /\ SameLeaves(a3.mem, a2.mem, T)
  <2>1. 2 \in 1 .. 3 /\ 2 - 1 = 1
    OBVIOUS
  <2> QED BY <1>3, <1>6, <1>7, <2>1
<1>9. Cascade(w, T, d2, R2, X, top, Pre(v, 0)) /\ SameLeaves(a2.mem, w.mem, T)
  <2>1. 1 \in 1 .. 3 /\ 1 - 1 = 0
    OBVIOUS
  <2> QED BY <1>4, <1>6, <1>8, <2>1
<1>10. Pre(v, 0) = <<>>
  BY <1>4, PreEnds
<1>11. Books(w.mem, T, d2, w.free, R2) /\ PrunedBut(w.mem, X, {})
  BY <1>9, <1>10 DEF Cascade
<1>12. LeafUpd(m, w.mem, T, top, v, None)
  BY <1>5, <1>7, <1>8, <1>9, LeafUpdSame
<1> QED BY <1>1, <1>11, <1>12


(* A page that is mapped comes from R and the page that was there goes to  *)
(* R; or the page gets a second name.                                      *)
Moves(m, d, R, top, v, phys, d2, R2) ==
  \/ /\ phys \in R /\ d2 = d \ {<<top, v>>}
     /\ R2 = (R \ {phys}) \cup Released(m, d, top, v)
  \/ /\ EntryAt(m, top, v) = None \/ <<top, v>> \in d
     /\ d2 = d \cup {<<top, v>>} /\ R2 = R

LEMMA MapBooks ==
  ASSUME NEW m, NEW T, NEW d, NEW f, NEW R, NEW X, NEW top, NEW v, NEW phys, NEW flags,
         Mapping(m, T, d, f, R, X, top, v, [page |-> phys, flags |-> flags]),
         flags \in SUBSET Flags, NEW w, w = MapPage(m, f, top, v, phys, flags), w.at # 0,
         NEW d2, NEW R2, Moves(m, d, R, top, v, phys, d2, R2)
  PROVE  /\ Books(w.mem, T, d2, w.free, R2) /\ PrunedBut(w.mem, X, {})
         /\ LeafUpd(m, w.mem, T, top, v, [page |-> phys, flags |-> flags])
<1>1. PICK e : e = [page |-> phys, flags |-> flags]
  OBVIOUS
<1>2. /\ Books(m, T, d, f, R) /\ X \subseteq T /\ PrunedBut(m, X, {})
      /\ top \in T /\ v \in Leaves /\ e \in Entries /\ e # None
  BY <1>1 DEF Mapping
<1>3. PrunedBut(w.mem, X, {}) /\ \E k : /\ Books(k, T, d, w.free, R) /\ SameLeaves(m, k, T)
                                        /\ Edit(k, w.mem, T, top, Pre(v, 3), v[4], e, {})
  BY <1>1, MapPageWorks
<1>4. PICK k : /\ Books(k, T, d, w.free, R) /\ SameLeaves(m, k, T)
               /\ Edit(k, w.mem, T, top, Pre(v, 3), v[4], e, {})
  BY <1>3
<1>5. PICK q, i, n, g : q = Pre(v, 3) /\ i = v[4] /\ n = w.mem /\ g = w.free
  OBVIOUS
<1>6. v = Append(q, i)
  <2>1. \A j \in 0 .. 3 : v[j + 1] \in Indices /\ Pre(v, j + 1) = Append(Pre(v, j), v[j + 1])
    BY <1>2, PreNext
  <2>2. Pre(v, 3 + 1) = Append(Pre(v, 3), v[3 + 1])
    BY <2>1
  <2>3. Pre(v, 4) = v
    BY <1>2, PreEnds
  <2> QED BY <1>5, <2>2, <2>3
<1>7. Books(k, T, d, g, R) /\ Edit(k, n, T, top, q, i, e, {})
  BY <1>4, <1>5
<1>8. LeafUpd(m, n, T, top, v, e)
  <2>1. LeafUpd(k, n, T, top, v, e)
    BY <1>6, <1>7, EditUpd, UpdLeafUpd
  <2> QED BY <1>4, <2>1, LeafUpdSame
<1>9. /\ EntryAt(k, top, v) = EntryAt(m, top, v)
      /\ Descend(k, top, v) = EntryAt(m, top, v).page /\ EntryAt(m, top, v) \in Entries
  <2>1. EntryAt(k, top, v) = EntryAt(m, top, v)
    BY <1>2, <1>4 DEF SameLeaves
  <2>2. k \in Mems /\ top \in Pages /\ v \in Paths
    BY <1>2, <1>7, LeafIs DEF Books
  <2> QED BY <2>1, <2>2, EntryType
<1>10. PICK pl, old, E0 : /\ pl = <<top, v>> /\ old = EntryAt(m, top, v).page
                          /\ E0 = EntryAt(m, top, v)
  OBVIOUS
<1>11. old \in Pages \cup {0} /\ (old = 0 <=> E0 = None)
  BY <1>9, <1>10, EntryPage
<1>12. /\ d \subseteq Pages \X Leaves /\ g \subseteq Pages /\ R \subseteq Pages /\ g \cap R = {}
       /\ \A c \in Pages : Uses(k, T, d, c) <=> c \notin g \cup R
  BY <1>7 DEF Books
<1>13. pl \notin d /\ old # 0 => old \in Pages /\ old \notin g \cup R
  <2>1. pl \notin d => Uses(k, T, d, old)
    BY <1>2, <1>9, <1>10, LeafIs DEF Uses
  <2> QED BY <1>11, <1>12, <2>1
<1>14. phys \in Pages /\ e.page = phys /\ 0 \notin Pages
  BY <1>1, <1>2, NonePage, EntryPage
<1>15. Descend(k, top, Append(q, i)) = old /\ <<top, Append(q, i)>> = pl
  BY <1>6, <1>9, <1>10
<1>16. top \in Pages /\ v \in Leaves
  BY <1>2 DEF Books
<1>17. pl \in Pages \X Leaves
  BY <1>10, <1>16
<1>18. CASE phys \in R /\ d2 = d \ {<<top, v>>} /\ R2 = (R \ {phys}) \cup Released(m, d, top, v)
  <2>1. R2 = (R \ {phys}) \cup (IF pl \in d \/ E0 = None THEN {} ELSE {old}) /\ d2 = d \ {pl}
    BY <1>10, <1>18 DEF Released
  <2>2. R2 \subseteq Pages /\ g \cap R2 = {}
    BY <1>11, <1>12, <1>13, <2>1
  <2>3. \A c \in Pages : c \notin g \cup R2 <=>
          \/ c = phys /\ pl \notin d2
          \/ c \notin g \cup R /\ (pl \in d \/ c # old)
    BY <1>11, <1>12, <1>13, <1>14, <1>18, <2>1
  <2>4. d2 \subseteq Pages \X Leaves /\ \A z : z # pl => (z \in d2 <=> z \in d)
    BY <1>12, <2>1
  <2>5. Balanced(k, d, g, R, top, q, i, e, d2, g, R2)
    BY <1>12, <1>14, <1>15, <1>18, <2>2, <2>3, <2>4 DEF Balanced
  <2>6. Books(n, T, d2, g, R2)
    BY <1>7, <2>5, EditBooks
  <2> QED BY <1>1, <1>3, <1>5, <1>8, <2>6
<1>19. CASE /\ EntryAt(m, top, v) = None \/ <<top, v>> \in d
            /\ d2 = d \cup {<<top, v>>} /\ R2 = R
  <2>1. (E0 = None \/ pl \in d) /\ d2 = d \cup {pl} /\ R2 = R
    BY <1>10, <1>19
  <2>2. \A c \in Pages : c \notin g \cup R2 <=>
          \/ c = phys /\ pl \notin d2
          \/ c \notin g \cup R /\ (pl \in d \/ c # old)
    BY <1>11, <1>14, <2>1
  <2>3. d2 \subseteq Pages \X Leaves /\ \A z : z # pl => (z \in d2 <=> z \in d)
    BY <1>12, <1>17, <2>1
  <2>4. Balanced(k, d, g, R, top, q, i, e, d2, g, R2)
    BY <1>12, <1>14, <1>15, <2>1, <2>2, <2>3 DEF Balanced
  <2>5. Books(n, T, d2, g, R2)
    BY <1>7, <2>4, EditBooks
  <2> QED BY <1>1, <1>3, <1>5, <1>8, <2>5
<1> QED BY <1>18, <1>19 DEF Moves

-----------------------------------------------------------------------------
(* Pagemaps come and go                                                    *)

(* The pagemaps with pml4s T are in n as they are in m. *)
SameWalk(m, n, T) ==
  /\ \A x \in T, r \in Nodes : Descend(n, x, r) = Descend(m, x, r)
  /\ \A x \in T, r \in Paths : EntryAt(n, x, r) = EntryAt(m, x, r)

(* They are when only pages that are no tables of theirs changed. *)
LEMMA KeepWalk ==
  ASSUME NEW m \in Mems, NEW n, NEW T, T \subseteq Pages, NEW F, Unused(m, T, F),
         \A p \in Pages \ F : n[p] = m[p]
  PROVE  SameWalk(m, n, T)
<1>1. ASSUME NEW x \in T, NEW r \in Nodes, Len(r) < 4, NEW i \in Indices,
             Descend(n, x, r) = Descend(m, x, r)
      PROVE  EntryAt(n, x, Append(r, i)) = EntryAt(m, x, Append(r, i))
  <2>1. PICK t : t = Descend(m, x, r)
    OBVIOUS
  <2>2. t \in Pages \cup {0} /\ t \notin F
    BY <1>1, <2>1, WalkType DEF Unused
  <2>3. t # 0 => n[t] = m[t]
    BY <2>2
  <2>4. /\ EntryAt(n, x, Append(r, i)) = IF t = 0 THEN None ELSE n[t][i]
        /\ EntryAt(m, x, Append(r, i)) = IF t = 0 THEN None ELSE m[t][i]
    BY <1>1, <2>1, EntryBelow
  <2> QED BY <2>3, <2>4
<1>2. ASSUME NEW x \in T PROVE \A r \in Nodes : Descend(n, x, r) = Descend(m, x, r)
  <2> DEFINE S == {r \in Nodes : Descend(n, x, r) = Descend(m, x, r)}
  <2>1. <<>> \in S
    BY RootNode, DescendRoot
  <2>2. ASSUME NEW r \in Nodes, r \in S, Len(r) < 4, NEW i \in Indices
        PROVE  Append(r, i) \in S
    <3>1. EntryAt(n, x, Append(r, i)) = EntryAt(m, x, Append(r, i))
      BY <1>1, <2>2
    <3>2. /\ Descend(n, x, Append(r, i)) = EntryAt(n, x, Append(r, i)).page
          /\ Descend(m, x, Append(r, i)) = EntryAt(m, x, Append(r, i)).page
      BY <2>2, EntryBelow
    <3>3. Append(r, i) \in Nodes
      BY <2>2, NodeAppend
    <3> QED BY <3>1, <3>2, <3>3
  <2> HIDE DEF S
  <2>3. Nodes \subseteq S
    BY <2>1, <2>2, NodeInduction
  <2> QED BY <2>3 DEF S
<1>3. ASSUME NEW x \in T, NEW r \in Paths PROVE EntryAt(n, x, r) = EntryAt(m, x, r)
  <2>1. PICK q, i : q = Front(r) /\ i = Last(r)
    OBVIOUS
  <2>2. q \in Nodes /\ i \in Indices /\ Len(q) < 4 /\ r = Append(q, i)
    BY <2>1, NodeSplit
  <2>3. Descend(n, x, q) = Descend(m, x, q)
    BY <1>2, <2>2
  <2> QED BY <1>1, <2>2, <2>3
<1> QED BY <1>2, <1>3 DEF SameWalk

LEMMA PrunedSame ==
  ASSUME NEW m, NEW n, NEW T, SameWalk(m, n, T), NEW X, X \subseteq T, NEW E,
         PrunedBut(m, X, E)
  PROVE  PrunedBut(n, X, E)
<1> SUFFICES ASSUME NEW x \in X, NEW r \in Paths, Len(r) < 4, <<x, r>> \notin E,
                    Descend(n, x, r) # 0
             PROVE  \E j \in Indices : EntryAt(n, x, Append(r, j)) # None
  BY DEF PrunedBut, Full
<1>1. r \in Nodes /\ x \in T
  BY PathIs
<1>2. Descend(m, x, r) # 0
  BY <1>1 DEF SameWalk
<1>3. PICK j \in Indices : EntryAt(m, x, Append(r, j)) # None
  BY <1>2 DEF PrunedBut, Full
<1>4. Append(r, j) \in Paths
  BY <1>1, NodeAppend
<1> QED BY <1>1, <1>3, <1>4 DEF SameWalk


(* A page passes between the uses outside the pagemaps. *)
LEMMA OtherUse ==
  ASSUME NEW m, NEW T, NEW d, NEW f, NEW R, Books(m, T, d, f, R),
         NEW f2, NEW R2, f2 \cup R2 = f \cup R, f2 \cap R2 = {}
  PROVE  Books(m, T, d, f2, R2)
<1>1. /\ m \in Mems /\ T \subseteq Pages /\ d \subseteq Pages \X Leaves
      /\ OnePlace(m, T, d) /\ f \subseteq Pages /\ R \subseteq Pages
      /\ \A p \in Pages : Uses(m, T, d, p) <=> p \notin f \cup R
  BY DEF Books
<1>2. f2 \subseteq Pages /\ R2 \subseteq Pages
  BY <1>1
<1>3. \A p \in Pages : Uses(m, T, d, p) <=> p \notin f2 \cup R2
  BY <1>1
<1> QED BY <1>1, <1>2, <1>3 DEF Books

(* A pml4 is in use, so a page with another use is none. *)
LEMMA TopsUsed ==
  ASSUME NEW m, NEW T, NEW d, NEW f, NEW R, Books(m, T, d, f, R)
  PROVE  T \cap (f \cup R) = {}
<1> SUFFICES ASSUME NEW x \in T PROVE x \notin f \cup R
  OBVIOUS
<1>1. Descend(m, x, <<>>) = x /\ <<>> \in Nodes /\ Len(<<>>) < 4
  BY DescendRoot, RootNode
<1> QED BY <1>1, TablesOnce DEF Unused

Founds(m, n, T, d, f, R, p) ==
  Books(m, T, d, f, R) /\ p \in f /\ (\A y : <<p, y>> \notin d)
  /\ n = [m EXCEPT ![p] = EmptyTable]

(* A free page becomes a pml4. *)
LEMMA NewTop ==
  ASSUME NEW m, NEW n, NEW T, NEW d, NEW f, NEW R, NEW p, Founds(m, n, T, d, f, R, p)
  PROVE  /\ Books(n, T \cup {p}, d, f \ {p}, R)
         /\ SameWalk(m, n, T)
         /\ \A r \in Paths : Descend(n, p, r) = 0 /\ EntryAt(n, p, r) = None
<1>1. /\ Books(m, T, d, f, R) /\ p \in f /\ (\A y : <<p, y>> \notin d)
      /\ n = [m EXCEPT ![p] = EmptyTable]
  BY DEF Founds
<1>2. /\ m \in Mems /\ T \subseteq Pages /\ d \subseteq Pages \X Leaves
      /\ OnePlace(m, T, d) /\ f \subseteq Pages /\ R \subseteq Pages /\ f \cap R = {}
      /\ \A c \in Pages : Uses(m, T, d, c) <=> c \notin f \cup R
  BY <1>1 DEF Books
<1>3. n \in Mems /\ n[p] = EmptyTable /\ \A c \in Pages \ {p} : n[c] = m[c]
  <2>1. EmptyTable \in [Indices -> Entries] /\ p \in Pages
    BY <1>1, <1>2, EmptyIs
  <2> QED BY <1>1, <1>2, <2>1 DEF Mems
<1>4. SameWalk(m, n, T)
  <2>1. Unused(m, T, f \cup R)
    BY <1>1, TablesOnce
  <2>2. Unused(m, T, {p})
    BY <1>1, <2>1 DEF Unused
  <2> QED BY <1>2, <1>3, <2>2, KeepWalk
<1>5. p \in Pages /\ p # 0 /\ p \notin T
  <2>1. T \cap (f \cup R) = {}
    BY <1>1, TopsUsed
  <2> QED BY <1>1, <1>2, <2>1, NonePage
<1>6. ASSUME NEW q \in Nodes, Len(q) < 4, NEW i \in Indices, Descend(n, p, q) \in {0, p}
      PROVE  EntryAt(n, p, Append(q, i)) = None /\ Descend(n, p, Append(q, i)) = 0
  <2>1. PICK t : t = Descend(n, p, q)
    OBVIOUS
  <2>2. /\ EntryAt(n, p, Append(q, i)) = IF t = 0 THEN None ELSE n[t][i]
        /\ Descend(n, p, Append(q, i)) = EntryAt(n, p, Append(q, i)).page
    BY <1>6, <2>1, EntryBelow
  <2>3. t = 0 \/ n[t][i] = None
    BY <1>3, <1>6, <2>1, EmptyIs
  <2> QED BY <2>2, <2>3, NonePage
<1>7. \A q \in Nodes : Descend(n, p, q) \in {0, p}
  <2> DEFINE S == {q \in Nodes : Descend(n, p, q) \in {0, p}}
  <2>1. <<>> \in S
    BY RootNode, DescendRoot
  <2>2. ASSUME NEW q \in Nodes, q \in S, Len(q) < 4, NEW i \in Indices PROVE Append(q, i) \in S
    BY <1>6, <2>2, NodeAppend
  <2> HIDE DEF S
  <2>3. Nodes \subseteq S
    BY <2>1, <2>2, NodeInduction
  <2> QED BY <2>3 DEF S
<1>8. ASSUME NEW r \in Paths PROVE Descend(n, p, r) = 0 /\ EntryAt(n, p, r) = None
  <2>1. PICK q, i : q = Front(r) /\ i = Last(r)
    OBVIOUS
  <2>2. q \in Nodes /\ i \in Indices /\ Len(q) < 4 /\ r = Append(q, i)
    BY <2>1, NodeSplit
  <2>3. Descend(n, p, q) \in {0, p}
    BY <1>7, <2>2
  <2> QED BY <1>6, <2>2, <2>3
<1>9. \A r \in Nodes : Descend(n, p, r) = p \/ Descend(n, p, r) = 0
  BY <1>7
<1>10. \A r \in Nodes : Descend(n, p, r) = p => r = <<>>
  BY <1>5, <1>8, PathIs
<1>11. \A x \in T, r \in Nodes : <<x, r>> \notin d => Descend(n, x, r) # p
  <2> SUFFICES ASSUME NEW x \in T, NEW r \in Nodes, <<x, r>> \notin d PROVE Descend(n, x, r) # p
    OBVIOUS
  <2>1. Descend(n, x, r) = Descend(m, x, r)
    BY <1>4 DEF SameWalk
  <2>2. ~Uses(m, T, d, p)
    BY <1>1, <1>2, <1>5
  <2> QED BY <2>1, <2>2 DEF Uses
<1>12. OnePlace(n, T \cup {p}, d)
  <2> SUFFICES ASSUME NEW x \in T \cup {p}, NEW y \in T \cup {p}, NEW q \in Nodes, NEW r \in Nodes,
                      <<x, q>> \notin d, <<y, r>> \notin d,
                      Descend(n, x, q) # 0, Descend(n, x, q) = Descend(n, y, r)
               PROVE  x = y /\ q = r
    BY DEF OnePlace
  <2>1. CASE x \in T /\ y \in T
    <3>1. Descend(n, x, q) = Descend(m, x, q) /\ Descend(n, y, r) = Descend(m, y, r)
      BY <1>4, <2>1 DEF SameWalk
    <3> QED BY <1>2, <2>1, <3>1 DEF OnePlace
  <2>2. CASE x = p /\ y = p
    BY <1>9, <1>10, <2>2
  <2>3. CASE x = p /\ y \in T
    BY <1>9, <1>11, <2>3
  <2>4. CASE x \in T /\ y = p
    BY <1>9, <1>11, <2>4
  <2> QED BY <2>1, <2>2, <2>3, <2>4
<1>13. ASSUME NEW c \in Pages PROVE Uses(n, T \cup {p}, d, c) <=> c \notin (f \ {p}) \cup R
  <2>1. Uses(n, T \cup {p}, d, p)
    BY <1>1, RootNode, DescendRoot DEF Uses
  <2>2. c # p => (Uses(n, T \cup {p}, d, c) <=> Uses(m, T, d, c))
    <3>1. ASSUME c # p, Uses(n, T \cup {p}, d, c) PROVE Uses(m, T, d, c)
      <4>1. PICK x \in T \cup {p}, q \in Nodes : <<x, q>> \notin d /\ Descend(n, x, q) = c
        BY <3>1 DEF Uses
      <4>2. x # p
        BY <1>9, <3>1, <4>1, NonePage
      <4>3. x \in T /\ Descend(m, x, q) = c
        BY <1>4, <4>1, <4>2 DEF SameWalk
      <4> QED BY <4>1, <4>3 DEF Uses
    <3>2. ASSUME Uses(m, T, d, c) PROVE Uses(n, T \cup {p}, d, c)
      <4>1. PICK x \in T, q \in Nodes : <<x, q>> \notin d /\ Descend(m, x, q) = c
        BY <3>2 DEF Uses
      <4>2. Descend(n, x, q) = c
        BY <1>4, <4>1 DEF SameWalk
      <4> QED BY <4>1, <4>2 DEF Uses
    <3> QED BY <3>1, <3>2
  <2>3. p \notin R
    BY <1>1, <1>2
  <2>4. CASE c = p
    BY <2>1, <2>3, <2>4
  <2>5. CASE c # p
    BY <1>2, <2>2, <2>5
  <2> QED BY <2>4, <2>5
<1>14. T \cup {p} \subseteq Pages /\ f \ {p} \subseteq Pages /\ (f \ {p}) \cap R = {}
  BY <1>2, <1>5
<1>15. Books(n, T \cup {p}, d, f \ {p}, R)
  BY <1>2, <1>3, <1>12, <1>13, <1>14 DEF Books
<1> QED BY <1>4, <1>8, <1>15

(* All that is at places of a pagemap. *)
Kept(m, top) == {Descend(m, top, q) : q \in Nodes} \ {0}

LEMMA KeptIs ==
  ASSUME NEW m \in Mems, NEW f, NEW top \in Pages, NEW w, w = FreeClone(m, f, top)
  PROVE  /\ w.mem \in Mems /\ w.free = f \cup Kept(m, top)
         /\ \A p \in Pages \ Kept(m, top) : w.mem[p] = m[p]
<1>1. \A q \in Paths : ~InHigherHalf(q[1])
  <2> SUFFICES ASSUME NEW q \in Paths PROVE ~InHigherHalf(q[1])
    OBVIOUS
  <2>1. PICK k \in 1 .. 4 : q \in [1 .. k -> Indices]
    BY DEF Paths
  <2>2. q[1] \in Indices
    BY <2>1
  <2>3. q[1] \in 0 .. 511 /\ HIGHER_HALF >= 2^24 /\ HIGHER_HALF \in Nat
    BY <2>2, VmmAssumption
  <2>4. 2^24 = 16777216
    OBVIOUS
  <2> QED BY <2>3, <2>4 DEF InHigherHalf
<1>2. Present(m, top) = {q \in Paths : Descend(m, top, q) # 0}
  BY <1>1 DEF Present
<1> DEFINE tables == {Descend(m, top, q) : q \in {r \in Present(m, top) : Len(r) < 4}}
           leaves == {Descend(m, top, q) : q \in {r \in Present(m, top) : Len(r) = 4}}
<1>3. top # 0 /\ Descend(m, top, <<>>) = top /\ <<>> \in Nodes
  BY NonePage, DescendRoot, RootNode
<1>4. \A p : p \in tables \cup leaves \cup {top} => p \in Kept(m, top)
  <2>1. \A q \in Paths : q \in Nodes
    BY PathIs
  <2> QED BY <1>2, <1>3, <2>1 DEF Kept
<1>5. \A p : p \in Kept(m, top) => p \in tables \cup leaves \cup {top}
  <2> SUFFICES ASSUME NEW q \in Nodes, Descend(m, top, q) # 0
               PROVE  Descend(m, top, q) \in tables \cup leaves \cup {top}
    BY DEF Kept
  <2>1. CASE q = <<>>
    BY <1>3, <2>1
  <2>2. CASE q # <<>>
    <3>1. q \in Present(m, top)
      BY <1>2, <2>2, PathIs
    <3>2. Len(q) < 4 \/ Len(q) = 4
      <4>1. PICK k \in 0 .. 4 : k = Len(q)
        BY NodeLen
      <4> QED BY <4>1
    <3> QED BY <3>1, <3>2
  <2> QED BY <2>1, <2>2
<1>6. tables \cup leaves \cup {top} = Kept(m, top)
  BY <1>4, <1>5
<1> DEFINE n == [p \in Pages |->
                   IF p \in tables THEN EmptyTable
                   ELSE IF p = top
                   THEN [i \in Indices |-> IF InHigherHalf(i) THEN m[p][i] ELSE None]
                   ELSE m[p]]
<1>7. w = [mem |-> n, free |-> f \cup tables \cup leaves \cup {top}]
  BY DEF FreeClone
<1>8. ASSUME NEW p \in Pages PROVE n[p] \in [Indices -> Entries]
  <2>1. m[p] \in [Indices -> Entries] /\ EmptyTable \in [Indices -> Entries] /\ None \in Entries
    BY EmptyIs, NonePage DEF Mems
  <2>2. [i \in Indices |-> IF InHigherHalf(i) THEN m[p][i] ELSE None] \in [Indices -> Entries]
    BY <2>1
  <2> HIDE DEF tables
  <2> QED BY <2>1, <2>2
<1>9. n \in Mems
  <2> HIDE DEF tables
  <2>1. DOMAIN n = Pages /\ n = [p \in Pages |-> n[p]]
    OBVIOUS
  <2> HIDE DEF n
  <2> QED BY <1>8, <2>1 DEF Mems
<1>10. \A p \in Pages \ Kept(m, top) : n[p] = m[p]
  <2> SUFFICES ASSUME NEW p \in Pages, p \notin Kept(m, top) PROVE n[p] = m[p]
    OBVIOUS
  <2>1. p \notin tables /\ p # top
    BY <1>6
  <2> HIDE DEF tables
  <2> QED BY <2>1
<1>11. w.mem = n /\ w.free = f \cup Kept(m, top)
  <2> HIDE DEF n, tables, leaves
  <2> QED BY <1>6, <1>7
<1> HIDE DEF n
<1> QED BY <1>9, <1>10, <1>11

Drops(m, T, d, f, R, top) == Books(m, T, d, f, R) /\ top \in T /\ (\A y : <<top, y>> \notin d)

(* A pagemap goes with all that it keeps. *)
LEMMA DropTop ==
  ASSUME NEW m, NEW T, NEW d, NEW f, NEW R, NEW top, Drops(m, T, d, f, R, top),
         NEW w, w = FreeClone(m, f, top)
  PROVE  /\ Books(w.mem, T \ {top}, d, w.free, R)
         /\ SameWalk(m, w.mem, T \ {top})
<1>1. Books(m, T, d, f, R) /\ top \in T /\ (\A y : <<top, y>> \notin d)
  BY DEF Drops
<1>2. /\ m \in Mems /\ T \subseteq Pages /\ d \subseteq Pages \X Leaves
      /\ OnePlace(m, T, d) /\ f \subseteq Pages /\ R \subseteq Pages /\ f \cap R = {}
      /\ \A c \in Pages : Uses(m, T, d, c) <=> c \notin f \cup R
  BY <1>1 DEF Books
<1>3. PICK n, G : n = w.mem /\ G = Kept(m, top)
  OBVIOUS
<1>4. n \in Mems /\ w.free = f \cup G /\ \A p \in Pages \ G : n[p] = m[p]
  <2>1. top \in Pages
    BY <1>1, <1>2
  <2> QED BY <1>2, <1>3, <2>1, KeptIs
<1>5. G \subseteq Pages
  <2>1. \A q \in Nodes : Descend(m, top, q) \in Pages \cup {0}
    BY <1>1, <1>2, WalkType
  <2> QED BY <1>3, <2>1 DEF Kept
<1>6. \A p \in G : Uses(m, T, d, p)
  BY <1>1, <1>3 DEF Kept, Uses
<1>7. ASSUME NEW x \in T, x # top, NEW r \in Nodes, <<x, r>> \notin d PROVE Descend(m, x, r) \notin G
  <2> SUFFICES ASSUME Descend(m, x, r) \in G PROVE FALSE
    OBVIOUS
  <2>1. PICK q \in Nodes : Descend(m, x, r) = Descend(m, top, q) /\ Descend(m, top, q) # 0
    BY <1>3 DEF Kept
  <2> QED BY <1>1, <1>2, <1>7, <2>1 DEF OnePlace
<1>8. SameWalk(m, n, T \ {top})
  <2>1. Unused(m, T \ {top}, G)
    <3> SUFFICES ASSUME NEW x \in T \ {top}, NEW r \in Nodes, Len(r) < 4
                 PROVE  Descend(m, x, r) \notin G
      BY DEF Unused
    <3>1. <<x, r>> \notin d
      BY <1>2, InnerPlace
    <3> QED BY <1>7, <3>1
  <2>2. T \ {top} \subseteq Pages
    BY <1>2
  <2> QED BY <1>2, <1>4, <2>1, <2>2, KeepWalk
<1>9. OnePlace(n, T \ {top}, d)
  <2> SUFFICES ASSUME NEW x \in T \ {top}, NEW y \in T \ {top}, NEW q \in Nodes, NEW r \in Nodes,
                      <<x, q>> \notin d, <<y, r>> \notin d,
                      Descend(n, x, q) # 0, Descend(n, x, q) = Descend(n, y, r)
               PROVE  x = y /\ q = r
    BY DEF OnePlace
  <2>1. Descend(n, x, q) = Descend(m, x, q) /\ Descend(n, y, r) = Descend(m, y, r)
    BY <1>8 DEF SameWalk
  <2>2. x \in T /\ y \in T
    OBVIOUS
  <2> QED BY <1>2, <2>1, <2>2 DEF OnePlace
<1>10. ASSUME NEW c \in Pages PROVE Uses(n, T \ {top}, d, c) <=> c \notin (f \cup G) \cup R
  <2>1. ASSUME Uses(n, T \ {top}, d, c) PROVE Uses(m, T, d, c) /\ c \notin G
    <3>1. PICK x \in T \ {top}, q \in Nodes : <<x, q>> \notin d /\ Descend(n, x, q) = c
      BY <2>1 DEF Uses
    <3>2. Descend(m, x, q) = c
      BY <1>8, <3>1 DEF SameWalk
    <3> QED BY <1>7, <3>1, <3>2 DEF Uses
  <2>2. ASSUME Uses(m, T, d, c), c \notin G PROVE Uses(n, T \ {top}, d, c)
    <3>1. PICK x \in T, q \in Nodes : <<x, q>> \notin d /\ Descend(m, x, q) = c
      BY <2>2 DEF Uses
    <3>2. x # top
      <4>1. c # 0
        BY NonePage
      <4> QED BY <1>3, <2>2, <3>1, <4>1 DEF Kept
    <3>3. Descend(n, x, q) = c
      BY <1>8, <3>1, <3>2 DEF SameWalk
    <3> QED BY <3>1, <3>2, <3>3 DEF Uses
  <2> QED BY <1>2, <2>1, <2>2
<1>11. (f \cup G) \cap R = {}
  BY <1>2, <1>5, <1>6
<1>12. T \ {top} \subseteq Pages /\ f \cup G \subseteq Pages
  BY <1>2, <1>5
<1>13. Books(n, T \ {top}, d, f \cup G, R)
  BY <1>2, <1>4, <1>9, <1>10, <1>11, <1>12 DEF Books
<1> QED BY <1>3, <1>4, <1>8, <1>13


-----------------------------------------------------------------------------
(* The inductive invariant                                                 *)

TopsOf(S) == {pm.top : pm \in S}
MapsOf(S) == {pm.map : pm \in S} \ {0}

(* The pages in use outside the tables. *)
Elsewhere == Image \cup held \cup lost \cup MapsOf(Live)

Shape ==
  /\ phase \in {"boot", "init", "run", "panic"} /\ failed \in BOOLEAN
  /\ booted \in 0 .. Len(BootMaps) /\ calls \in 0 .. MaxCalls
  /\ filled \subseteq Pages
  /\ maps \subseteq [map : {0} \cup Pages, top : Pages]
  /\ view \in [Pages -> [VPages -> Entries]]
  /\ clone \in [state : {"none", "making", "made"}, src : {0} \cup Pages,
                child : [map : {0} \cup Pages, top : {0} \cup Pages]]
  /\ cr3 \in TopsOf(maps) \cup {0}
  /\ phase = "run" => cr3 # 0

(* The uses outside the tables exclude each other. *)
Sorts == /\ Image \cap (held \cup lost \cup MapsOf(Live)) = {}
         /\ held \cap (lost \cup MapsOf(Live)) = {} /\ lost \cap MapsOf(Live) = {}

(* Two pagemaps share neither a pml4 nor a pagemap_t. *)
Apart == \A a, b \in Live : a # b => a.top # b.top /\ (a.map = b.map => a.map = 0)

(* Only the kernel's pagemap has what vmm_init mapped. *)
Second == direct \subseteq TopsOf({pm \in maps : pm.map = 0}) \X VPages

Ledger == Books(mem, TopsOf(Live), direct, free, Elsewhere)

Exact == \A pm \in maps, v \in VPages : EntryAt(mem, pm.top, v) = view[pm.top][v]

(* Until vmm_init returns there are no clones, and no other mappings. *)
Early ==
  /\ phase \in {"boot", "init"} => clone.state = "none"
  /\ phase = "boot" => maps = {} /\ \A p \in Pages, v \in VPages : view[p][v] = None
  /\ phase = "init" => \A pm \in maps : /\ pm.map = 0
                                        /\ \A v \in VPages : \/ view[pm.top][v] = None
                                                             \/ <<pm.top, v>> \in direct

TrimTops == IF failed THEN {} ELSE TopsOf(maps)

Trim == PrunedBut(mem, TrimTops, {})

(* What the child has so far is as in the source. *)
CopyOf(m, fill, d, src, top) ==
  \A q \in Paths :
    EntryAt(m, top, q) # None =>
      /\ EntryAt(m, src, q) # None
      /\ EntryAt(m, top, q).flags = EntryAt(m, src, q).flags \ {"NX"}
      /\ Len(q) = 4 /\ <<src, q>> \notin d =>
           (EntryAt(m, top, q).page \in fill <=> EntryAt(m, src, q).page \in fill)

Making ==
  clone.state = "making" =>
    /\ clone.src \in TopsOf(maps) /\ clone.child \notin maps
    /\ clone.child.map \in Pages /\ clone.child.top \in Pages
    /\ CopyOf(mem, filled, direct, clone.src, clone.child.top)

Inv == /\ Shape /\ Sorts /\ Apart /\ Second /\ Ledger /\ Exact /\ Early /\ Trim /\ Making
       /\ CloneExact


LEMMA PlaceTops ==
  ASSUME Inv
  PROVE  /\ TopsOf(maps) \subseteq TopsOf(Live) /\ TopsOf(Live) \subseteq Pages
         /\ \A pl \in direct : \E pm \in maps : pm.map = 0 /\ pl[1] = pm.top
         /\ MapPages = MapsOf(Live)
<1>1. maps \subseteq Live
  BY DEF Live
<1>2. TopsOf(Live) \subseteq Pages
  BY DEF Inv, Ledger, Books
<1>3. ASSUME NEW pl \in direct PROVE \E pm \in maps : pm.map = 0 /\ pl[1] = pm.top
  <2>1. pl \in TopsOf({pm \in maps : pm.map = 0}) \X VPages
    BY <1>3 DEF Inv, Second
  <2>2. pl[1] \in TopsOf({pm \in maps : pm.map = 0})
    BY <2>1
  <2> QED BY <2>2 DEF TopsOf
<1> QED BY <1>1, <1>2, <1>3 DEF TopsOf, MapsOf, MapPages

LEMMA InvTypes == Inv => TypeOK
<1> SUFFICES ASSUME Inv PROVE TypeOK
  OBVIOUS
<1>1. mem \in Mems /\ free \subseteq Pages /\ Elsewhere \subseteq Pages /\ free \cap Elsewhere = {}
  BY DEF Inv, Ledger, Books
<1>2. \A p \in Pages : \A i \in Indices : mem[p][i] \in Entries
  BY <1>1 DEF Mems
<1>3. \A p \in Pages : \A v \in VPages : view[p][v] \in Entries
  BY DEF Inv, Shape
<1>4. free \subseteq Pages \ Image /\ held \subseteq Pages \ Image /\ lost \subseteq Pages \ Image
  BY <1>1 DEF Inv, Sorts, Elsewhere
<1>5. direct \subseteq {pm.top : pm \in maps} \X VPages
  BY DEF Inv, Second, TopsOf
<1>6. cr3 \in {pm.top : pm \in maps} \cup {0}
  BY DEF Inv, Shape, TopsOf
<1>7. clone.state \in {"none", "making", "made"}
  BY DEF Inv, Shape
<1>8. /\ phase \in {"boot", "init", "run", "panic"} /\ failed \in BOOLEAN
      /\ booted \in 0 .. Len(BootMaps) /\ calls \in 0 .. MaxCalls /\ filled \subseteq Pages
      /\ maps \subseteq [map : {0} \cup Pages, top : Pages] /\ (phase = "run" => cr3 # 0)
  BY DEF Inv, Shape
<1> QED BY <1>2, <1>3, <1>4, <1>5, <1>6, <1>7, <1>8 DEF TypeOK

LEMMA InvTranslation == Inv => TranslationExact
<1> SUFFICES ASSUME Inv PROVE TranslationExact
  OBVIOUS
<1>1. \A pm \in maps, v \in VPages : EntryAt(mem, pm.top, v) = view[pm.top][v]
  BY DEF Inv, Exact
<1> QED BY <1>1 DEF TranslationExact, vmm_virt_to_phys

LEMMA OwnIs ==
  ASSUME Inv, NEW pm \in Live
  PROVE  /\ pm.top \in TopsOf(Live) /\ pm.top \in Pages
         /\ \A q \in OwnPlaces(pm) : /\ q \in Nodes /\ <<pm.top, q>> \notin direct
                                     /\ Descend(mem, pm.top, q) # 0
         /\ \A q \in Nodes : <<pm.top, q>> \notin direct /\ Descend(mem, pm.top, q) # 0
                             => q \in OwnPlaces(pm)
<1>1. pm.top \in TopsOf(Live)
  BY DEF TopsOf
<1> QED BY <1>1, PlaceTops DEF OwnPlaces, Places, Nodes

LEMMA InvOnePurpose == Inv => OnePurpose
<1> SUFFICES ASSUME Inv PROVE OnePurpose
  OBVIOUS
<1>1. /\ OnePlace(mem, TopsOf(Live), direct) /\ free \cap Elsewhere = {} /\ mem \in Mems
      /\ \A p \in Pages : Uses(mem, TopsOf(Live), direct, p) <=> p \notin free \cup Elsewhere
  BY DEF Inv, Ledger, Books
<1>2. MapPages = MapsOf(Live)
  BY PlaceTops
<1>3. ASSUME NEW pm \in Live, NEW q \in OwnPlaces(pm), NEW other \in Live, NEW r \in OwnPlaces(other),
             Descend(mem, pm.top, q) = Descend(mem, other.top, r)
      PROVE  pm = other /\ q = r
  <2>1. /\ pm.top \in TopsOf(Live) /\ q \in Nodes /\ <<pm.top, q>> \notin direct
        /\ Descend(mem, pm.top, q) # 0
    BY OwnIs
  <2>2. /\ other.top \in TopsOf(Live) /\ r \in Nodes /\ <<other.top, r>> \notin direct
    BY OwnIs
  <2>3. pm.top = other.top /\ q = r
    BY <1>1, <1>3, <2>1, <2>2 DEF OnePlace
  <2>4. pm = other
    BY <2>3 DEF Inv, Apart
  <2> QED BY <2>3, <2>4
<1>4. ASSUME NEW pm \in Live, NEW q \in OwnPlaces(pm)
      PROVE  Descend(mem, pm.top, q) \notin Image \cup free \cup held \cup lost \cup MapPages
  <2>1. /\ pm.top \in TopsOf(Live) /\ q \in Nodes /\ <<pm.top, q>> \notin direct /\ pm.top \in Pages
        /\ Descend(mem, pm.top, q) # 0
    BY OwnIs
  <2>2. Descend(mem, pm.top, q) \in Pages
    BY <1>1, <2>1, WalkType
  <2>3. Uses(mem, TopsOf(Live), direct, Descend(mem, pm.top, q))
    BY <2>1 DEF Uses
  <2> QED BY <1>1, <1>2, <2>2, <2>3 DEF Elsewhere
<1>5. \A pm \in Live : \A q, r \in OwnPlaces(pm) :
        (Descend(mem, pm.top, q) = Descend(mem, pm.top, r)) => (q = r)
  BY <1>3
<1>6. \A pm \in Live : OwnPages(pm) \cap (Image \cup free \cup held \cup lost \cup MapPages) = {}
  BY <1>4 DEF OwnPages
<1>7. \A pm \in Live : \A other \in Live \ {pm} : OwnPages(pm) \cap OwnPages(other) = {}
  BY <1>3 DEF OwnPages
<1>8. /\ free \cap (held \cup lost \cup MapPages) = {}
      /\ held \cap (lost \cup MapPages) = {} /\ lost \cap MapPages = {}
  BY <1>1, <1>2 DEF Inv, Sorts, Elsewhere
<1> QED BY <1>5, <1>6, <1>7, <1>8 DEF OnePurpose

LEMMA InvConserved == Inv => Conserved
<1> SUFFICES ASSUME Inv PROVE Conserved
  OBVIOUS
<1>1. /\ free \subseteq Pages /\ Elsewhere \subseteq Pages /\ mem \in Mems
      /\ \A p \in Pages : Uses(mem, TopsOf(Live), direct, p) <=> p \notin free \cup Elsewhere
  BY DEF Inv, Ledger, Books
<1>2. MapPages = MapsOf(Live)
  BY PlaceTops
<1>3. ASSUME NEW p \in Pages, Uses(mem, TopsOf(Live), direct, p)
      PROVE  \E pm \in Live : p \in OwnPages(pm)
  <2>1. PICK x \in TopsOf(Live), q \in Nodes : <<x, q>> \notin direct /\ Descend(mem, x, q) = p
    BY <1>3 DEF Uses
  <2>2. PICK pm \in Live : x = pm.top
    BY <2>1 DEF TopsOf
  <2>3. p # 0
    BY NonePage
  <2>4. q \in OwnPlaces(pm)
    BY <2>1, <2>2, <2>3, OwnIs
  <2> QED BY <2>1, <2>2, <2>4 DEF OwnPages
<1>4. ASSUME NEW pm \in Live PROVE OwnPages(pm) \subseteq Pages
  <2>1. \A q \in OwnPlaces(pm) : Descend(mem, pm.top, q) \in Pages
    BY <1>1, OwnIs, WalkType
  <2> QED BY <2>1 DEF OwnPages
<1>5. Pages \subseteq Image \cup free \cup held \cup lost \cup MapPages
                        \cup UNION {OwnPages(pm) : pm \in Live}
  BY <1>1, <1>2, <1>3 DEF Elsewhere
<1>6. UNION {OwnPages(pm) : pm \in Live} \subseteq Pages
  BY <1>4
<1>7. Image \cup free \cup held \cup lost \cup MapPages \subseteq Pages
  BY <1>1, <1>2 DEF Elsewhere
<1> QED BY <1>5, <1>6, <1>7 DEF Conserved

LEMMA InvPruned == Inv => Pruned
<1> SUFFICES ASSUME Inv, ~failed, NEW pm \in maps, NEW q \in Places(pm), Len(q) \in 1 .. 3
             PROVE  mem[Descend(mem, pm.top, q)] # EmptyTable
  BY DEF Pruned
<1>1. q \in Nodes /\ Descend(mem, pm.top, q) # 0
  BY DEF Places, Nodes
<1>2. Len(q) < 4 /\ q \in Paths
  <2>1. PICK k : k = Len(q)
    OBVIOUS
  <2>2. k \in 1 .. 3
    BY <2>1
  <2>3. k < 4 /\ k # 0
    BY <2>2
  <2>4. q # <<>>
    BY <2>1, <2>3, RootNode
  <2> QED BY <1>1, <2>1, <2>3, <2>4, PathIs
<1>3. pm.top \in TrimTops
  BY DEF TrimTops, TopsOf
<1>4. PICK j \in Indices : EntryAt(mem, pm.top, Append(q, j)) # None
  BY <1>1, <1>2, <1>3 DEF Inv, Trim, PrunedBut, Full
<1>5. EntryAt(mem, pm.top, Append(q, j)) = mem[Descend(mem, pm.top, q)][j]
  BY <1>1, <1>2, EntryBelow
<1> QED BY <1>4, <1>5, EmptyIs


LEMMA InvInit == Init => Inv
<1> SUFFICES ASSUME Init PROVE Inv
  OBVIOUS
<1>1. /\ phase = "boot" /\ booted = 0 /\ mem = [p \in Pages |-> EmptyTable]
      /\ free = Pages \ Image /\ filled = Image /\ maps = {} /\ cr3 = 0
      /\ held = {} /\ direct = {} /\ lost = {} /\ failed = FALSE /\ clone = NoClone /\ calls = 0
      /\ view = [p \in Pages |-> [v \in VPages |-> None]]
  BY DEF Init
<1>2. Live = {} /\ TopsOf(Live) = {} /\ MapsOf(Live) = {} /\ TopsOf(maps) = {}
  BY <1>1 DEF Live, NoClone, TopsOf, MapsOf
<1>3. Elsewhere = Image /\ Image \subseteq Pages
  BY <1>1, <1>2, VmmAssumption DEF Elsewhere
<1>4. mem \in Mems
  BY <1>1, EmptyIs DEF Mems
<1>5. Shape
  <2>1. BootMaps \in Seq([virt : VPages, page : Pages,
                          kind : {"text", "rodata", "data", "direct", "low"}])
    BY VmmAssumption
  <2>2. booted \in 0 .. Len(BootMaps)
    BY <1>1, <2>1
  <2>3. calls \in 0 .. MaxCalls
    BY <1>1, VmmAssumption
  <2>4. view \in [Pages -> [VPages -> Entries]]
    BY <1>1, NonePage
  <2>5. clone \in [state : {"none", "making", "made"}, src : {0} \cup Pages,
                   child : [map : {0} \cup Pages, top : {0} \cup Pages]]
    BY <1>1 DEF NoClone
  <2> QED BY <1>1, <1>3, <2>2, <2>3, <2>4, <2>5 DEF Shape
<1>6. Sorts /\ Apart /\ Second /\ Exact
  BY <1>1, <1>2 DEF Sorts, Apart, Second, Exact
<1>7. Ledger
  <2>1. OnePlace(mem, TopsOf(Live), direct)
    BY <1>2 DEF OnePlace
  <2>2. \A p : ~Uses(mem, TopsOf(Live), direct, p)
    BY <1>2 DEF Uses
  <2>3. direct \subseteq Pages \X Leaves /\ TopsOf(Live) \subseteq Pages
    BY <1>1, <1>2
  <2>4. free \subseteq Pages /\ Elsewhere \subseteq Pages /\ free \cap Elsewhere = {}
        /\ \A p \in Pages : p \in free \cup Elsewhere
    BY <1>1, <1>3
  <2> QED BY <1>4, <2>1, <2>2, <2>3, <2>4 DEF Ledger, Books
<1>8. Early
  <2>1. clone.state = "none"
    BY <1>1 DEF NoClone
  <2> QED BY <1>1, <2>1 DEF Early
<1>9. Trim
  <2>1. TrimTops = {}
    BY <1>2 DEF TrimTops
  <2> QED BY <2>1 DEF Trim, PrunedBut
<1>10. Making /\ CloneExact
  BY <1>1 DEF Making, CloneExact, NoClone
<1> QED BY <1>5, <1>6, <1>7, <1>8, <1>9, <1>10 DEF Inv

(* A step that leaves the memory, the pages and the pagemaps alone. *)
Idle ==
  /\ UNCHANGED <<mem, free, filled, maps, held, view, direct, lost, failed, booted>>
  /\ \/ UNCHANGED clone
     \/ clone.state # "making" /\ clone' = NoClone

LEMMA IdleLive ==
  ASSUME Idle
  PROVE  Live' = Live /\ Elsewhere' = Elsewhere /\ TopsOf(maps)' = TopsOf(maps)
<1>1. maps' = maps /\ held' = held /\ lost' = lost
  BY DEF Idle
<1>2. Live' = Live
  BY <1>1 DEF Idle, Live, NoClone
<1> QED BY <1>1, <1>2 DEF Elsewhere, TopsOf, MapsOf

LEMMA IdleKeeps ==
  ASSUME Inv, Idle, calls' \in 0 .. MaxCalls,
         phase' \in {"run", "panic"} \/ phase' = phase,
         cr3' \in TopsOf(maps) \cup {0}, phase' = "run" => cr3' # 0
  PROVE  Inv'
<1>1. /\ mem' = mem /\ free' = free /\ filled' = filled /\ maps' = maps /\ held' = held
      /\ view' = view /\ direct' = direct /\ lost' = lost /\ failed' = failed /\ booted' = booted
  BY DEF Idle
<1>2. Live' = Live /\ Elsewhere' = Elsewhere /\ TopsOf(maps)' = TopsOf(maps)
  BY IdleLive
<1>3. clone' = clone \/ clone' = NoClone
  BY DEF Idle
<1>4. Shape'
  <2>1. clone' \in [state : {"none", "making", "made"}, src : {0} \cup Pages,
                    child : [map : {0} \cup Pages, top : {0} \cup Pages]]
    BY <1>3 DEF Inv, Shape, NoClone
  <2>2. phase' \in {"boot", "init", "run", "panic"}
    BY DEF Inv, Shape
  <2>3. /\ failed' \in BOOLEAN /\ booted' \in 0 .. Len(BootMaps) /\ filled' \subseteq Pages
        /\ maps' \subseteq [map : {0} \cup Pages, top : Pages]
        /\ view' \in [Pages -> [VPages -> Entries]]
    BY <1>1 DEF Inv, Shape
  <2>4. cr3' \in TopsOf(maps)' \cup {0}
    BY <1>2
  <2> QED BY <2>1, <2>2, <2>3, <2>4 DEF Shape
<1>5. Sorts' /\ Apart'
  <2>1. MapsOf(Live)' = MapsOf(Live)
    BY <1>2 DEF MapsOf
  <2>2. Sorts'
    BY <1>1, <2>1 DEF Inv, Sorts
  <2>3. Apart'
    BY <1>2 DEF Inv, Apart
  <2> QED BY <2>2, <2>3
<1>6. Second'
  BY <1>1 DEF Inv, Second, TopsOf
<1>7. Ledger'
  <2>1. TopsOf(Live)' = TopsOf(Live)
    BY <1>2 DEF TopsOf
  <2> QED BY <1>1, <1>2, <2>1 DEF Inv, Ledger
<1>8. Exact'
  BY <1>1 DEF Inv, Exact
<1>9. Early'
  <2>1. CASE phase' = phase
    <3>1. clone.state = "none" => clone'.state = "none"
      BY <1>3 DEF NoClone
    <3> QED BY <1>1, <2>1, <3>1 DEF Inv, Early
  <2>2. CASE phase' \in {"run", "panic"}
    BY <2>2 DEF Early
  <2> QED BY <2>1, <2>2
<1>10. Trim'
  <2>1. TrimTops' = TrimTops
    BY <1>1, <1>2 DEF TrimTops
  <2> QED BY <1>1, <2>1 DEF Inv, Trim
<1>11. Making' /\ CloneExact'
  <2>1. CASE clone' = clone
    <3>1. Making'
      BY <1>1, <1>2, <2>1 DEF Inv, Making
    <3>2. CloneExact'
      BY <1>1, <2>1 DEF Inv, CloneExact
    <3> QED BY <3>1, <3>2
  <2>2. CASE clone' = NoClone
    BY <2>2 DEF Making, CloneExact, NoClone
  <2> QED BY <1>3, <2>1, <2>2
<1> QED BY <1>4, <1>5, <1>6, <1>7, <1>8, <1>9, <1>10, <1>11 DEF Inv

LEMMA CallIs ==
  ASSUME Inv, Call
  PROVE  phase = "run" /\ clone.state # "making" /\ calls' \in 0 .. MaxCalls /\ Live = maps
<1>1. calls \in 0 .. MaxCalls /\ MaxCalls \in Nat
  BY VmmAssumption DEF Inv, Shape
<1>2. phase = "run" /\ clone.state # "making" /\ calls < MaxCalls /\ calls' = calls + 1
  BY DEF Call
<1>3. calls' \in 0 .. MaxCalls
  BY <1>1, <1>2
<1>4. Live = maps
  BY <1>2 DEF Live
<1> QED BY <1>2, <1>3, <1>4

LEMMA InvStutter == Inv /\ UNCHANGED vars => Inv'
<1> SUFFICES ASSUME Inv, UNCHANGED vars PROVE Inv'
  OBVIOUS
<1>1. Idle /\ calls' = calls /\ phase' = phase /\ cr3' = cr3 /\ maps' = maps
  BY DEF vars, Idle
<1>2. calls' \in 0 .. MaxCalls /\ cr3' \in TopsOf(maps) \cup {0} /\ (phase' = "run" => cr3' # 0)
  BY <1>1 DEF Inv, Shape
<1> QED BY <1>1, <1>2, IdleKeeps

LEMMA InvSwitch == ASSUME Inv, NEW pm \in maps, vmm_switch_to(pm) PROVE Inv'
<1>1. Idle /\ phase' = phase /\ cr3' = pm.top
  BY DEF vmm_switch_to, Idle, Call
<1>2. calls' \in 0 .. MaxCalls
  BY CallIs DEF vmm_switch_to
<1>3. pm.top \in TopsOf(maps)
  BY DEF TopsOf
<1>4. cr3' # 0
  BY <1>1, <1>3, PlaceTops, NonePage
<1> QED BY <1>1, <1>2, <1>3, <1>4, IdleKeeps

LEMMA InvInitReturn == ASSUME Inv, NEW pm \in maps, InitReturn(pm) PROVE Inv'
<1>1. Idle /\ phase' = "run" /\ cr3' = pm.top /\ calls' = calls
  BY DEF InitReturn, Idle
<1>2. calls' \in 0 .. MaxCalls
  BY <1>1 DEF Inv, Shape
<1>3. pm.top \in TopsOf(maps)
  BY DEF TopsOf
<1>4. cr3' # 0
  BY <1>1, <1>3, PlaceTops, NonePage
<1> QED BY <1>1, <1>2, <1>3, <1>4, IdleKeeps

LEMMA InvInvalid == ASSUME Inv, InvalidPagemap PROVE Inv'
<1>1. CASE phase = "run" /\ UNCHANGED vars
  BY <1>1, InvStutter
<1>2. CASE /\ phase' = "panic"
           /\ UNCHANGED <<booted, mem, free, filled, maps, cr3, held, view, direct, lost, failed,
                          clone, calls>>
  <2>1. Idle /\ calls' = calls /\ cr3' = cr3 /\ phase' = "panic"
    BY <1>2 DEF Idle
  <2>2. calls' \in 0 .. MaxCalls /\ cr3' \in TopsOf(maps) \cup {0}
    BY <2>1 DEF Inv, Shape
  <2> QED BY <2>1, <2>2, IdleKeeps
<1> QED BY <1>1, <1>2 DEF InvalidPagemap


(* After a call that is not part of a clone. *)
LEMMA Settled ==
  ASSUME clone' = NoClone, phase' \in {"run", "panic"}
  PROVE  Early' /\ Making' /\ CloneExact' /\ Live' = maps'
<1>1. clone'.state = "none"
  BY DEF NoClone
<1>2. Live' = maps'
  BY <1>1 DEF Live
<1> QED BY <1>1, <1>2 DEF Early, Making, CloneExact

LEMMA CallShape ==
  ASSUME Inv, Call, phase' = phase, booted' = booted, clone' = NoClone, cr3' = cr3,
         filled' \subseteq Pages, failed' \in BOOLEAN,
         maps' \subseteq maps, view' \in [Pages -> [VPages -> Entries]],
         cr3 \in TopsOf(maps)' \cup {0}
  PROVE  Shape'
<1>1. calls' \in 0 .. MaxCalls
  BY CallIs
<1>2. clone' \in [state : {"none", "making", "made"}, src : {0} \cup Pages,
                  child : [map : {0} \cup Pages, top : {0} \cup Pages]]
  BY DEF NoClone
<1>3. /\ phase' \in {"boot", "init", "run", "panic"} /\ booted' \in 0 .. Len(BootMaps)
      /\ maps' \subseteq [map : {0} \cup Pages, top : Pages] /\ (phase' = "run" => cr3' # 0)
  BY DEF Inv, Shape
<1> QED BY <1>1, <1>2, <1>3 DEF Shape

(* A page passes between the allocator and a client. *)
Handed ==
  /\ Call /\ clone' = NoClone /\ filled' \subseteq Pages
  /\ free' \cup held' = free \cup held /\ free' \cap held' = {}
  /\ UNCHANGED <<phase, booted, mem, maps, cr3, view, direct, lost, failed>>

LEMMA HandedKeeps == ASSUME Inv, Handed PROVE Inv'
<1>1. /\ Call /\ clone' = NoClone /\ filled' \subseteq Pages
      /\ free' \cup held' = free \cup held /\ free' \cap held' = {}
      /\ phase' = phase /\ booted' = booted /\ mem' = mem /\ maps' = maps /\ cr3' = cr3
      /\ view' = view /\ direct' = direct /\ lost' = lost /\ failed' = failed
  BY DEF Handed
<1>2. phase = "run" /\ Live = maps
  BY <1>1, CallIs
<1>3. Early' /\ Making' /\ CloneExact' /\ Live' = maps'
  BY <1>1, <1>2, Settled
<1>4. TopsOf(maps)' = TopsOf(maps)
  BY <1>1 DEF TopsOf
<1>5. Shape'
  <2>1. view' \in [Pages -> [VPages -> Entries]] /\ failed' \in BOOLEAN /\ maps' \subseteq maps
        /\ cr3 \in TopsOf(maps)' \cup {0}
    BY <1>1, <1>4 DEF Inv, Shape
  <2> QED BY <1>1, <2>1, CallShape
<1>6. PICK M : M = MapsOf(maps)
  OBVIOUS
<1>7. MapsOf(Live) = M /\ MapsOf(Live)' = M
  BY <1>1, <1>2, <1>3, <1>6 DEF MapsOf
<1>8. /\ Elsewhere = Image \cup held \cup lost \cup M
      /\ Elsewhere' = Image \cup held' \cup lost \cup M
      /\ Image \cap (held \cup lost \cup M) = {} /\ held \cap (lost \cup M) = {}
      /\ lost \cap M = {}
  BY <1>1, <1>7 DEF Inv, Sorts, Elsewhere
<1>9. Books(mem, TopsOf(Live), direct, free, Elsewhere)
  BY DEF Inv, Ledger
<1>10. free \cap Elsewhere = {}
  BY <1>9 DEF Books
<1>11. Sorts'
  BY <1>1, <1>7, <1>8, <1>10 DEF Sorts
<1>12. Ledger'
  <2>1. free' \cup Elsewhere' = free \cup Elsewhere /\ free' \cap Elsewhere' = {}
    BY <1>1, <1>8, <1>10
  <2>2. PICK f2, R2 : f2 = free' /\ R2 = Elsewhere'
    OBVIOUS
  <2>3. Books(mem, TopsOf(Live), direct, f2, R2)
    BY <1>9, <2>1, <2>2, OtherUse
  <2>4. TopsOf(Live)' = TopsOf(Live)
    BY <1>2, <1>3, <1>4
  <2> QED BY <1>1, <2>2, <2>3, <2>4 DEF Ledger
<1>13. Apart' /\ Second' /\ Exact'
  <2>1. Apart'
    BY <1>1, <1>2, <1>3 DEF Inv, Apart
  <2>2. Second'
    BY <1>1 DEF Inv, Second, TopsOf
  <2>3. Exact'
    BY <1>1 DEF Inv, Exact
  <2> QED BY <2>1, <2>2, <2>3
<1>14. Trim'
  <2>1. TrimTops' = TrimTops
    BY <1>1, <1>4 DEF TrimTops
  <2> QED BY <1>1, <2>1 DEF Inv, Trim
<1> QED BY <1>3, <1>5, <1>11, <1>12, <1>13, <1>14 DEF Inv

LEMMA FreeIs ==
  ASSUME Inv
  PROVE  /\ free \subseteq Pages /\ Elsewhere \subseteq Pages /\ free \cap Elsewhere = {}
         /\ mem \in Mems /\ filled \subseteq Pages /\ held \subseteq Elsewhere
  BY DEF Inv, Ledger, Books, Shape, Elsewhere

LEMMA InvAllocate == ASSUME Inv, AllocatePage PROVE Inv'
<1>1. PICK p : /\ p = NextFree(free) /\ free # {}
               /\ free' = free \ {p} /\ held' = held \cup {p} /\ filled' = filled \cup {p}
  BY DEF AllocatePage
<1>2. p \in free /\ p \in Pages /\ p \notin held
  BY <1>1, FreeIs, NextFreeIs
<1>3. free \cap held = {}
  BY FreeIs
<1>4. filled' \subseteq Pages
  BY <1>1, <1>2, FreeIs
<1>5. free' \cup held' = free \cup held /\ free' \cap held' = {}
  BY <1>1, <1>2, <1>3
<1>6. Handed
  BY <1>4, <1>5 DEF AllocatePage, Handed
<1> QED BY <1>6, HandedKeeps

LEMMA InvFreePage == ASSUME Inv, NEW p \in held, FreePage(p) PROVE Inv'
<1>1. free' = free \cup {p} /\ held' = held \ {p} /\ filled' = filled
  BY DEF FreePage
<1>2. filled' \subseteq Pages /\ free \cap held = {}
  BY <1>1, FreeIs
<1>3. free' \cup held' = free \cup held /\ free' \cap held' = {}
  BY <1>1, <1>2
<1>4. Handed
  BY <1>2, <1>3 DEF FreePage, Handed
<1> QED BY <1>4, HandedKeeps

LEMMA InvVmmInit == ASSUME Inv, NEW responses \in BOOLEAN, vmm_init(responses) PROVE Inv'
<1>1. /\ phase = "boot" /\ booted' = booted /\ filled' = filled /\ cr3' = cr3 /\ held' = held
      /\ view' = view /\ direct' = direct /\ lost' = lost /\ failed' = failed /\ clone' = clone
      /\ calls' = calls
  BY DEF vmm_init
<1>2. CASE phase' = "panic" /\ UNCHANGED <<mem, free, maps>>
  <2>1. Idle /\ cr3' \in TopsOf(maps) \cup {0} /\ calls' \in 0 .. MaxCalls
    BY <1>1, <1>2 DEF Idle, Inv, Shape
  <2> QED BY <1>2, <2>1, IdleKeeps
<1>3. CASE /\ free # {} /\ phase' = "init" /\ mem' = [mem EXCEPT ![NextFree(free)] = EmptyTable]
           /\ free' = free \ {NextFree(free)} /\ maps' = {[map |-> 0, top |-> NextFree(free)]}
  <2>1. PICK p, pm : p = NextFree(free) /\ pm = [map |-> 0, top |-> p]
    OBVIOUS
  <2>2. /\ mem' = [mem EXCEPT ![p] = EmptyTable] /\ free' = free \ {p} /\ maps' = {pm}
        /\ pm.top = p /\ pm.map = 0
    BY <1>3, <2>1
  <2>3. p \in free /\ p \in Pages /\ free \subseteq Pages
    BY <1>3, <2>1, FreeIs, NextFreeIs
  <2>4. maps = {} /\ clone.state = "none" /\ \A c \in Pages, v \in VPages : view[c][v] = None
    BY <1>1 DEF Inv, Early
  <2>5. Live = {} /\ Live' = {pm}
    BY <1>1, <2>2, <2>4 DEF Live
  <2>6. /\ TopsOf(Live) = {} /\ TopsOf(Live)' = {p} /\ MapsOf(Live) = {} /\ MapsOf(Live)' = {}
        /\ TopsOf(maps)' = {p} /\ TopsOf(maps) = {}
    BY <2>2, <2>4, <2>5 DEF TopsOf, MapsOf
  <2>7. direct = {}
    BY <2>4 DEF Inv, Second, TopsOf
  <2>8. Elsewhere' = Elsewhere
    BY <1>1, <2>6 DEF Elsewhere
  <2>9. Founds(mem, mem', TopsOf(Live), direct, free, Elsewhere, p)
    BY <2>2, <2>3, <2>7 DEF Inv, Ledger, Founds
  <2>10. PICK n, T, R, d : n = mem' /\ T = TopsOf(Live) /\ R = Elsewhere /\ d = direct
    OBVIOUS
  <2>11. Founds(mem, n, T, d, free, R, p)
    BY <2>9, <2>10
  <2>12. /\ Books(n, T \cup {p}, d, free \ {p}, R)
         /\ \A r \in Paths : Descend(n, p, r) = 0 /\ EntryAt(n, p, r) = None
    BY <2>11, NewTop
  <2>13. Ledger'
    <3>1. T \cup {p} = TopsOf(Live)'
      BY <2>6, <2>10
    <3> QED BY <1>1, <2>2, <2>8, <2>10, <2>12, <3>1 DEF Ledger
  <2>14. Shape'
    <3>1. cr3' = 0
      <4>1. cr3 \in TopsOf(maps) \cup {0}
        BY DEF Inv, Shape
      <4> QED BY <1>1, <2>6, <4>1
    <3>2. maps' \subseteq [map : {0} \cup Pages, top : Pages]
      BY <2>1, <2>2, <2>3
    <3> QED BY <1>1, <1>3, <3>1, <3>2 DEF Inv, Shape
  <2>15. Sorts'
    BY <1>1, <2>6 DEF Inv, Sorts
  <2>16. Apart' /\ Second'
    BY <1>1, <2>5, <2>7 DEF Apart, Second
  <2>17. \A v \in VPages : EntryAt(n, p, v) = None
    BY <2>12, LeafIs, VmmAssumption DEF Leaves
  <2>18. Exact' /\ Early'
    <3>1. Exact'
      BY <1>1, <2>2, <2>3, <2>4, <2>10, <2>17 DEF Exact
    <3>2. Early'
      BY <1>1, <1>3, <2>2, <2>3, <2>4 DEF Early
    <3> QED BY <3>1, <3>2
  <2>19. Trim'
    <3> SUFFICES ASSUME NEW x \in TrimTops', NEW r \in Paths, Len(r) < 4 PROVE Full(n, x, r)
      BY <2>10 DEF Trim, PrunedBut
    <3>1. x = p
      BY <2>6 DEF TrimTops
    <3> QED BY <2>12, <3>1 DEF Full
  <2>20. Making' /\ CloneExact'
    BY <1>1, <2>4 DEF Making, CloneExact
  <2> QED BY <2>13, <2>14, <2>15, <2>16, <2>18, <2>19, <2>20 DEF Inv
<1> QED BY <1>2, <1>3 DEF vmm_init


LEMMA ReleasedIs ==
  ASSUME NEW m, NEW T, NEW d, NEW f, NEW R, Books(m, T, d, f, R), NEW top \in T, NEW v \in Leaves
  PROVE  Released(m, d, top, v) \subseteq Pages \ (f \cup R)
<1>1. /\ m \in Mems /\ T \subseteq Pages
      /\ \A p \in Pages : Uses(m, T, d, p) <=> p \notin f \cup R
  BY DEF Books
<1>2. PICK e : e = EntryAt(m, top, v)
  OBVIOUS
<1>3. v \in Nodes /\ v \in Paths /\ top \in Pages
  BY <1>1, LeafIs
<1>4. e \in Entries /\ Descend(m, top, v) = e.page
  BY <1>1, <1>2, <1>3, EntryType
<1>5. e # None => e.page \in Pages
  BY <1>4, EntryPage
<1>6. <<top, v>> \notin d => Uses(m, T, d, e.page)
  BY <1>3, <1>4 DEF Uses
<1> QED BY <1>1, <1>2, <1>5, <1>6 DEF Released

LEMMA ViewUpd ==
  ASSUME Inv, NEW pm \in maps, NEW v \in VPages, NEW e \in Entries,
         LeafUpd(mem, mem', TopsOf(Live), pm.top, v, e),
         view' = [view EXCEPT ![pm.top][v] = e], maps' = maps
  PROVE  Exact' /\ view' \in [Pages -> [VPages -> Entries]]
<1>1. view \in [Pages -> [VPages -> Entries]] /\ \A x \in maps : x.top \in Pages /\ x.top \in TopsOf(Live)
  <2>1. \A x \in maps : x.top \in TopsOf(Live)
    BY DEF Live, TopsOf
  <2> QED BY <2>1, PlaceTops DEF Inv, Shape
<1>2. VPages \subseteq Leaves
  BY VmmAssumption DEF Leaves
<1>3. view' \in [Pages -> [VPages -> Entries]]
  BY <1>1
<1>4. ASSUME NEW x \in maps, NEW r \in VPages PROVE EntryAt(mem', x.top, r) = view'[x.top][r]
  <2>1. EntryAt(mem', x.top, r) =
          IF x.top = pm.top /\ r = v THEN e ELSE EntryAt(mem, x.top, r)
    BY <1>1, <1>2 DEF LeafUpd
  <2>2. EntryAt(mem, x.top, r) = view[x.top][r]
    BY DEF Inv, Exact
  <2>3. view'[x.top][r] = IF x.top = pm.top /\ r = v THEN e ELSE view[x.top][r]
    BY <1>1
  <2> QED BY <2>1, <2>2, <2>3
<1>5. Exact'
  BY <1>4 DEF Exact
<1> QED BY <1>3, <1>5

LEMMA ViewSame ==
  ASSUME Inv, SameLeaves(mem, mem', TopsOf(Live)), view' = view, maps' = maps
  PROVE  Exact'
<1>1. VPages \subseteq Leaves /\ \A x \in maps : x.top \in TopsOf(Live)
  BY VmmAssumption DEF Leaves, Live, TopsOf
<1> QED BY <1>1 DEF Inv, Exact, SameLeaves

LEMMA ClientIs ==
  ASSUME Inv, NEW pm \in maps, NEW v \in VPages
  PROVE  /\ ClientPage(pm.top, v) = Released(mem, direct, pm.top, v)
         /\ ClientPage(pm.top, v) \subseteq Pages \ (free \cup Elsewhere)
<1>1. EntryAt(mem, pm.top, v) = view[pm.top][v]
  BY DEF Inv, Exact
<1>2. ClientPage(pm.top, v) = Released(mem, direct, pm.top, v)
  BY <1>1 DEF ClientPage, Released
<1>3. pm.top \in TopsOf(Live) /\ v \in Leaves
  BY VmmAssumption DEF Leaves, Live, TopsOf
<1>4. Released(mem, direct, pm.top, v) \subseteq Pages \ (free \cup Elsewhere)
  BY <1>3, ReleasedIs DEF Inv, Ledger
<1> QED BY <1>2, <1>4

(* A call on one pagemap that changes at most the entry of v. *)
OnMap(pm, v) ==
  /\ Call /\ clone' = NoClone
  /\ UNCHANGED <<phase, booted, filled, maps, cr3, lost>>
  /\ direct' = direct \ {<<pm.top, v>>} \/ direct' = direct

LEMMA OnMapKeeps ==
  ASSUME Inv, NEW pm \in maps, NEW v \in VPages, OnMap(pm, v),
         NEW H, H \subseteq held,
         held' = H \/ held' = H \cup ClientPage(pm.top, v),
         NEW T, T = TopsOf(maps), NEW R, R = (Elsewhere \ held) \cup held',
         Books(mem', T, direct', free', R), Exact', Trim',
         failed' \in BOOLEAN, view' \in [Pages -> [VPages -> Entries]]
  PROVE  Inv'
<1>1. /\ Call /\ clone' = NoClone /\ phase' = phase /\ booted' = booted /\ filled' = filled
      /\ maps' = maps /\ cr3' = cr3 /\ lost' = lost /\ direct' \subseteq direct
  BY DEF OnMap
<1>2. phase = "run" /\ Live = maps
  BY <1>1, CallIs
<1>3. Early' /\ Making' /\ CloneExact' /\ Live' = maps'
  BY <1>1, <1>2, Settled
<1>4. TopsOf(maps)' = T /\ TopsOf(Live)' = T
  BY <1>1, <1>3 DEF TopsOf
<1>5. Shape'
  <2>1. maps' \subseteq maps /\ cr3 \in TopsOf(maps)' \cup {0} /\ filled' \subseteq Pages
    BY <1>1, <1>4 DEF Inv, Shape
  <2> QED BY <1>1, <2>1, CallShape
<1>6. PICK M, C : M = MapsOf(maps) /\ C = ClientPage(pm.top, v)
  OBVIOUS
<1>7. MapsOf(Live) = M /\ MapsOf(Live)' = M
  BY <1>1, <1>2, <1>3, <1>6 DEF MapsOf
<1>8. /\ Elsewhere = Image \cup held \cup lost \cup M
      /\ Elsewhere' = Image \cup held' \cup lost \cup M
      /\ Image \cap (held \cup lost \cup M) = {} /\ held \cap (lost \cup M) = {}
      /\ lost \cap M = {}
  BY <1>1, <1>7 DEF Inv, Sorts, Elsewhere
<1>9. C \cap Elsewhere = {} /\ held' \subseteq held \cup C
  <2>1. C \subseteq Pages \ (free \cup Elsewhere)
    BY <1>6, ClientIs
  <2> QED BY <1>6, <2>1
<1>10. Sorts'
  BY <1>1, <1>7, <1>8, <1>9 DEF Sorts
<1>11. R = Elsewhere'
  BY <1>8
<1>12. Ledger'
  BY <1>4, <1>11 DEF Ledger
<1>13. Apart'
  BY <1>1, <1>2, <1>3 DEF Inv, Apart
<1>14. Second'
  BY <1>1 DEF Inv, Second, TopsOf
<1> QED BY <1>3, <1>5, <1>10, <1>12, <1>13, <1>14 DEF Inv

LEMMA TrimIs ==
  ASSUME Inv
  PROVE  /\ TrimTops \subseteq TopsOf(Live) /\ PrunedBut(mem, TrimTops, {})
         /\ maps' = maps /\ failed' = failed => TrimTops' = TrimTops
         /\ failed' => Trim'
<1>1. TrimTops \subseteq TopsOf(Live)
  BY PlaceTops DEF TrimTops
<1>2. maps' = maps /\ failed' = failed => TrimTops' = TrimTops
  BY DEF TrimTops, TopsOf
<1>3. failed' => Trim'
  BY DEF Trim, TrimTops, PrunedBut
<1> QED BY <1>1, <1>2, <1>3 DEF Inv, Trim

LEMMA InvMapPage ==
  ASSUME Inv, NEW pm \in maps, NEW v \in VPages, NEW p \in held, NEW fl \in FlagSets,
         vmm_map_page(pm, v, p, fl)
  PROVE  Inv'
<1>1. PICK w, e : w = MapPage(mem, free, pm.top, v, p, fl) /\ e = [page |-> p, flags |-> fl]
  OBVIOUS
<1>2. Call /\ mem' = w.mem /\ free' = w.free /\ maps' = maps
  BY <1>1 DEF vmm_map_page
<1>3. Live = maps
  BY <1>2, CallIs
<1>4. PICK T, R, X, top : T = TopsOf(Live) /\ R = Elsewhere /\ X = TrimTops /\ top = pm.top
  OBVIOUS
<1>5. Books(mem, T, direct, free, R) /\ X \subseteq T /\ PrunedBut(mem, X, {})
  BY <1>4, TrimIs DEF Inv, Ledger
<1>6. fl \in SUBSET Flags /\ v \in Leaves /\ top \in T
  BY <1>3, <1>4, VmmAssumption DEF Leaves, TopsOf
<1>7. p \in R /\ p \in Pages
  BY <1>4, FreeIs
<1>8. e \in Entries /\ e # None
  <2>1. e \in Entries /\ e.page = p
    BY <1>1, <1>6, <1>7 DEF Entries
  <2> QED BY <1>7, <2>1, NonePage
<1>9. Mapping(mem, T, direct, free, R, X, top, v, [page |-> p, flags |-> fl])
  BY <1>1, <1>5, <1>6, <1>8 DEF Mapping
<1>10. w = MapPage(mem, free, top, v, p, fl)
  BY <1>1, <1>4
<1>11. CASE w.at = 0
  <2>1. failed' = TRUE /\ view' = view /\ held' = held /\ direct' = direct
    BY <1>1, <1>11 DEF vmm_map_page
  <2>2. Books(w.mem, T, direct, w.free, R) /\ SameLeaves(mem, w.mem, T)
    BY <1>6, <1>9, <1>10, <1>11, MapPageWorks
  <2>3. OnMap(pm, v)
    BY <2>1 DEF vmm_map_page, OnMap
  <2>4. R = (Elsewhere \ held) \cup held'
    BY <1>4, <2>1, FreeIs
  <2>5. Exact' /\ Trim'
    BY <1>2, <1>4, <2>1, <2>2, ViewSame, TrimIs
  <2>6. view' \in [Pages -> [VPages -> Entries]] /\ failed' \in BOOLEAN
    BY <2>1 DEF Inv, Shape
  <2>7. Books(mem', T, direct', free', R) /\ T = TopsOf(maps)
    BY <1>2, <1>3, <1>4, <2>1, <2>2
  <2> QED BY <2>1, <2>3, <2>4, <2>5, <2>6, <2>7, OnMapKeeps
<1>12. CASE w.at # 0
  <2>1. /\ view' = [view EXCEPT ![pm.top][v] = e] /\ failed' = failed
        /\ held' = (held \ {p}) \cup ClientPage(pm.top, v)
        /\ direct' = direct \ {<<pm.top, v>>}
    BY <1>1, <1>12 DEF vmm_map_page
  <2>2. PICK C, d2, R2 : /\ C = ClientPage(pm.top, v) /\ d2 = direct \ {<<top, v>>}
                         /\ R2 = (R \ {p}) \cup Released(mem, direct, top, v)
    OBVIOUS
  <2>3. Moves(mem, direct, R, top, v, p, d2, R2)
    BY <1>7, <2>2 DEF Moves
  <2>4. /\ Books(w.mem, T, d2, w.free, R2) /\ PrunedBut(w.mem, X, {})
        /\ LeafUpd(mem, w.mem, T, top, v, [page |-> p, flags |-> fl])
    BY <1>6, <1>9, <1>10, <1>12, <2>3, MapBooks
  <2>5. C = Released(mem, direct, top, v)
    BY <1>4, <2>2, ClientIs
  <2>6. R2 = (Elsewhere \ held) \cup held'
    BY <1>4, <2>1, <2>2, <2>5, FreeIs
  <2>7. OnMap(pm, v)
    BY <2>1 DEF vmm_map_page, OnMap
  <2>8. Exact' /\ view' \in [Pages -> [VPages -> Entries]]
    BY <1>1, <1>2, <1>4, <1>8, <2>1, <2>4, ViewUpd
  <2>9. Trim'
    BY <1>2, <1>4, <2>1, <2>4, TrimIs DEF Trim
  <2>10. failed' \in BOOLEAN
    BY <2>1 DEF Inv, Shape
  <2>11. Books(mem', T, direct', free', R2) /\ T = TopsOf(maps)
    BY <1>2, <1>3, <1>4, <2>1, <2>2, <2>4
  <2>12. held \ {p} \subseteq held
    OBVIOUS
  <2> QED BY <2>1, <2>6, <2>7, <2>8, <2>9, <2>10, <2>11, <2>12, OnMapKeeps
<1> QED BY <1>11, <1>12

LEMMA InvUnmap ==
  ASSUME Inv, NEW pm \in maps, NEW v \in VPages, NEW aligned \in BOOLEAN,
         vmm_unmap_page(pm, v, aligned)
  PROVE  Inv'
<1>1. Call /\ maps' = maps /\ failed' = failed /\ clone' = NoClone
      /\ UNCHANGED <<phase, booted, filled, maps, cr3, lost, failed>>
  BY DEF vmm_unmap_page
<1>2. CASE UNCHANGED <<mem, free, held, view, direct>>
  <2>1. Idle
    BY <1>1, <1>2 DEF Idle, Call
  <2>2. phase' = phase /\ calls' \in 0 .. MaxCalls
    BY <1>1, CallIs
  <2>3. cr3' \in TopsOf(maps) \cup {0} /\ (phase' = "run" => cr3' # 0)
    BY <1>1 DEF Inv, Shape
  <2> QED BY <2>1, <2>2, <2>3, IdleKeeps
<1>3. CASE /\ EntryAt(mem, pm.top, v) # None
           /\ mem' = Prune(mem, free, pm.top, v).mem /\ free' = Prune(mem, free, pm.top, v).free
           /\ view' = [view EXCEPT ![pm.top][v] = None]
           /\ held' = held \cup ClientPage(pm.top, v)
           /\ direct' = direct \ {<<pm.top, v>>}
  <2>1. Live = maps
    BY <1>1, CallIs
  <2>2. PICK T, R, X, top, w, C, d2, R2 :
          /\ T = TopsOf(Live) /\ R = Elsewhere /\ X = TrimTops /\ top = pm.top
          /\ w = Prune(mem, free, top, v) /\ C = ClientPage(pm.top, v)
          /\ d2 = direct \ {<<top, v>>} /\ R2 = R \cup Released(mem, direct, top, v)
    OBVIOUS
  <2>3. Books(mem, T, direct, free, R) /\ X \subseteq T /\ PrunedBut(mem, X, {})
    BY <2>2, TrimIs DEF Inv, Ledger
  <2>4. v \in Leaves /\ top \in T
    BY <2>1, <2>2, VmmAssumption DEF Leaves, TopsOf
  <2>5. Unmapping(mem, T, direct, free, R, X, top, v)
    BY <1>3, <2>2, <2>3, <2>4 DEF Unmapping
  <2>6. /\ Books(w.mem, T, d2, w.free, R2) /\ PrunedBut(w.mem, X, {})
        /\ LeafUpd(mem, w.mem, T, top, v, None)
    BY <2>2, <2>5, PruneWorks
  <2>7. C = Released(mem, direct, top, v)
    BY <2>2, ClientIs
  <2>8. R2 = (Elsewhere \ held) \cup held'
    BY <1>3, <2>2, <2>7, FreeIs
  <2>9. OnMap(pm, v)
    BY <1>1, <1>3 DEF OnMap
  <2>10. mem' = w.mem /\ free' = w.free /\ direct' = d2
    BY <1>3, <2>2
  <2>11. Exact' /\ view' \in [Pages -> [VPages -> Entries]]
    <3>1. PICK e : e = None
      OBVIOUS
    <3>2. /\ e \in Entries /\ LeafUpd(mem, mem', TopsOf(Live), pm.top, v, e)
          /\ view' = [view EXCEPT ![pm.top][v] = e] /\ maps' = maps
      BY <1>1, <1>3, <2>2, <2>6, <2>10, <3>1, NonePage
    <3> QED BY <3>2, ViewUpd
  <2>12. Trim'
    BY <1>1, <2>2, <2>6, <2>10, TrimIs DEF Trim
  <2>13. failed' \in BOOLEAN
    BY <1>1 DEF Inv, Shape
  <2>14. Books(mem', T, direct', free', R2) /\ T = TopsOf(maps)
    BY <2>1, <2>2, <2>6, <2>10
  <2>15. held' = held \cup ClientPage(pm.top, v) /\ held \subseteq held
    BY <1>3
  <2> QED BY <2>8, <2>9, <2>11, <2>12, <2>13, <2>14, <2>15, OnMapKeeps
<1> QED BY <1>2, <1>3 DEF vmm_unmap_page


LEMMA BootIs ==
  ASSUME Inv, booted < Len(BootMaps), NEW b, b = BootMaps[booted + 1]
  PROVE  /\ b.virt \in VPages /\ b.page \in Pages /\ booted + 1 \in 0 .. Len(BootMaps)
         /\ BootFlags(b.kind) \in SUBSET Flags
<1>1. BootMaps \in Seq([virt : VPages, page : Pages,
                        kind : {"text", "rodata", "data", "direct", "low"}])
  BY VmmAssumption
<1>2. booted \in 0 .. Len(BootMaps)
  BY DEF Inv, Shape
<1>3. booted + 1 \in 1 .. Len(BootMaps)
  BY <1>1, <1>2
<1>4. b \in [virt : VPages, page : Pages, kind : {"text", "rodata", "data", "direct", "low"}]
  <2>1. PICK S, k : /\ S = [virt : VPages, page : Pages,
                             kind : {"text", "rodata", "data", "direct", "low"}]
                    /\ k = booted + 1
    OBVIOUS
  <2>2. BootMaps \in Seq(S) /\ k \in 1 .. Len(BootMaps)
    BY <1>1, <1>3, <2>1
  <2>3. BootMaps[k] \in S
    BY <2>2
  <2> QED BY <2>1, <2>3
<1>5. booted + 1 \in 0 .. Len(BootMaps)
  BY <1>1, <1>3
<1>6. BootFlags(b.kind) \in SUBSET Flags
  BY DEF BootFlags, Flags
<1> QED BY <1>4, <1>5, <1>6

LEMMA InvBootPage == ASSUME Inv, NEW pm \in maps, MapBootPage(pm) PROVE Inv'
<1>1. PICK b, fl, v : b = BootMaps[booted + 1] /\ fl = BootFlags(b.kind) /\ v = b.virt
  OBVIOUS
<1>2. PICK w, e : w = MapPage(mem, free, pm.top, v, b.page, fl) /\ e = [page |-> b.page, flags |-> fl]
  OBVIOUS
<1>3. /\ phase = "init" /\ booted < Len(BootMaps) /\ mem' = w.mem /\ free' = w.free
      /\ filled' = filled /\ maps' = maps /\ cr3' = cr3 /\ held' = held /\ lost' = lost
      /\ clone' = clone /\ calls' = calls
  BY <1>1, <1>2 DEF MapBootPage
<1>4. /\ v \in VPages /\ v \in Leaves /\ b.page \in Pages /\ booted + 1 \in 0 .. Len(BootMaps)
      /\ fl \in SUBSET Flags
  BY <1>1, <1>3, BootIs, VmmAssumption DEF Leaves
<1>5. clone.state = "none" /\ Live = maps /\ Live' = maps
  <2>1. clone.state = "none"
    BY <1>3 DEF Inv, Early
  <2> QED BY <1>3, <2>1 DEF Live
<1>6. PICK T, R, X, top, phys : /\ T = TopsOf(Live) /\ R = Elsewhere /\ X = TrimTops
                                /\ top = pm.top /\ phys = b.page
  OBVIOUS
<1>7. Books(mem, T, direct, free, R) /\ X \subseteq T /\ PrunedBut(mem, X, {})
  BY <1>6, TrimIs DEF Inv, Ledger
<1>8. top \in T /\ TopsOf(Live)' = T /\ TopsOf(maps)' = T /\ Elsewhere' = Elsewhere
      /\ MapsOf(Live)' = MapsOf(Live)
  BY <1>3, <1>5, <1>6 DEF TopsOf, MapsOf, Elsewhere
<1>9. e \in Entries /\ e # None
  <2>1. e \in Entries /\ e.page = b.page
    BY <1>2, <1>4 DEF Entries
  <2> QED BY <1>4, <2>1, NonePage
<1>10. Mapping(mem, T, direct, free, R, X, top, v, [page |-> phys, flags |-> fl])
  BY <1>2, <1>4, <1>6, <1>7, <1>8, <1>9 DEF Mapping
<1>11. w = MapPage(mem, free, top, v, phys, fl) /\ e = [page |-> phys, flags |-> fl]
  BY <1>2, <1>6
<1>12. Sorts' /\ Apart' /\ Making' /\ CloneExact'
  <2>1. Sorts'
    BY <1>3, <1>8 DEF Inv, Sorts
  <2>2. Apart'
    BY <1>5 DEF Inv, Apart
  <2> QED BY <1>3, <1>5, <2>1, <2>2 DEF Making, CloneExact
<1>13. cr3' \in TopsOf(maps)' \cup {0} /\ calls' \in 0 .. MaxCalls /\ filled' \subseteq Pages
       /\ maps' \subseteq [map : {0} \cup Pages, top : Pages]
       /\ clone' \in [state : {"none", "making", "made"}, src : {0} \cup Pages,
                      child : [map : {0} \cup Pages, top : {0} \cup Pages]]
  BY <1>3, <1>5, <1>6, <1>8 DEF Inv, Shape
<1>14. CASE w.at = 0
  <2>1. phase' = "panic" /\ failed' = TRUE /\ booted' = booted /\ view' = view /\ direct' = direct
    BY <1>1, <1>2, <1>14 DEF MapBootPage
  <2>2. Books(w.mem, T, direct, w.free, R) /\ SameLeaves(mem, w.mem, T)
    BY <1>4, <1>10, <1>11, <1>14, MapPageWorks
  <2>3. Ledger'
    BY <1>3, <1>6, <1>8, <2>1, <2>2 DEF Ledger
  <2>4. Exact' /\ Trim'
    BY <1>3, <1>6, <2>1, <2>2, ViewSame, TrimIs
  <2>5. Shape'
    <3>1. view' \in [Pages -> [VPages -> Entries]] /\ booted' \in 0 .. Len(BootMaps)
      BY <2>1 DEF Inv, Shape
    <3> QED BY <1>13, <2>1, <3>1 DEF Shape
  <2>6. Second'
    BY <1>3, <2>1 DEF Inv, Second, TopsOf
  <2>7. Early'
    BY <2>1 DEF Early
  <2> QED BY <1>12, <2>3, <2>4, <2>5, <2>6, <2>7 DEF Inv
<1>15. CASE w.at # 0
  <2>1. /\ view' = [view EXCEPT ![pm.top][v] = e] /\ direct' = direct \cup {<<pm.top, v>>}
        /\ booted' = booted + 1 /\ phase' = phase /\ failed' = failed
    BY <1>1, <1>2, <1>15 DEF MapBootPage
  <2>2. /\ pm.map = 0
        /\ \A x \in maps : x.map = 0 /\ \A r \in VPages : \/ view[x.top][r] = None
                                                          \/ <<x.top, r>> \in direct
    BY <1>3 DEF Inv, Early
  <2>3. EntryAt(mem, top, v) = None \/ <<top, v>> \in direct
    BY <1>4, <1>6, <2>2 DEF Inv, Exact
  <2>4. PICK d2 : d2 = direct \cup {<<top, v>>}
    OBVIOUS
  <2>5. Moves(mem, direct, R, top, v, phys, d2, R)
    BY <2>3, <2>4 DEF Moves
  <2>6. /\ Books(w.mem, T, d2, w.free, R) /\ PrunedBut(w.mem, X, {})
        /\ LeafUpd(mem, w.mem, T, top, v, [page |-> phys, flags |-> fl])
    BY <1>4, <1>10, <1>11, <1>15, <2>5, MapBooks
  <2>7. Ledger'
    BY <1>3, <1>6, <1>8, <2>1, <2>4, <2>6 DEF Ledger
  <2>8. Exact' /\ view' \in [Pages -> [VPages -> Entries]]
    BY <1>3, <1>4, <1>6, <1>9, <1>11, <2>1, <2>6, ViewUpd
  <2>9. Trim'
    BY <1>3, <1>6, <2>1, <2>6, TrimIs DEF Trim
  <2>10. Shape'
    <3>1. booted' \in 0 .. Len(BootMaps) /\ phase' = "init" /\ failed' \in BOOLEAN
      BY <1>3, <1>4, <2>1 DEF Inv, Shape
    <3> QED BY <1>13, <2>8, <3>1 DEF Shape
  <2>11. Second'
    <3>1. pm.top \in TopsOf({x \in maps : x.map = 0})
      BY <2>2 DEF TopsOf
    <3>2. TopsOf({x \in maps : x.map = 0})' = TopsOf({x \in maps : x.map = 0})
      BY <1>3 DEF TopsOf
    <3>3. direct \subseteq TopsOf({x \in maps : x.map = 0}) \X VPages
      BY DEF Inv, Second
    <3>4. direct' \subseteq TopsOf({x \in maps : x.map = 0}) \X VPages
      <4>1. PICK K : K = TopsOf({x \in maps : x.map = 0})
        OBVIOUS
      <4>2. <<pm.top, v>> \in K \X VPages /\ direct \subseteq K \X VPages
        BY <1>4, <3>1, <3>3, <4>1
      <4>3. direct' \subseteq K \X VPages
        BY <2>1, <4>2
      <4> QED BY <4>1, <4>3
    <3> QED BY <3>2, <3>4 DEF Second
  <2>12. Early'
    <3>1. ASSUME NEW x \in maps, NEW r \in VPages
          PROVE  view'[x.top][r] = None \/ <<x.top, r>> \in direct'
      <4>1. CASE x.top = pm.top /\ r = v
        BY <2>1, <4>1
      <4>2. CASE ~(x.top = pm.top /\ r = v)
        <5>1. view \in [Pages -> [VPages -> Entries]] /\ x.top \in Pages
          BY DEF Inv, Shape
        <5>2. view'[x.top][r] = view[x.top][r]
          BY <2>1, <4>2, <5>1
        <5> QED BY <2>1, <2>2, <5>2
      <4> QED BY <4>1, <4>2
    <3>2. phase' = "init" /\ clone'.state = "none" /\ maps' = maps
      BY <1>3, <1>5, <2>1
    <3> QED BY <2>2, <3>1, <3>2 DEF Early
  <2> QED BY <1>12, <2>7, <2>8, <2>9, <2>10, <2>11, <2>12 DEF Inv
<1> QED BY <1>14, <1>15

(* A clone has none of the places that vmm_init mapped. *)
LEMMA CloneOwn ==
  ASSUME Inv, NEW pm \in Live, pm.map # 0
  PROVE  \A y : <<pm.top, y>> \notin direct
<1> SUFFICES ASSUME NEW y, <<pm.top, y>> \in direct PROVE FALSE
  OBVIOUS
<1>1. PICK k \in maps : k.map = 0 /\ <<pm.top, y>>[1] = k.top
  BY PlaceTops
<1>2. k \in Live /\ k # pm /\ k.top = pm.top
  BY <1>1 DEF Live
<1> QED BY <1>2 DEF Inv, Apart

(* Without one of them, the pagemaps have the other pml4s and pagemap_t's. *)
LEMMA WithoutOne ==
  ASSUME Inv, NEW pm \in Live, pm.map # 0
  PROVE  /\ TopsOf(Live \ {pm}) = TopsOf(Live) \ {pm.top}
         /\ MapsOf(Live \ {pm}) = MapsOf(Live) \ {pm.map} /\ pm.map \in MapsOf(Live)
<1>1. \A a \in Live : a # pm => a.top # pm.top /\ a.map # pm.map
  BY DEF Inv, Apart
<1> QED BY <1>1 DEF TopsOf, MapsOf

LEMMA InvFree == ASSUME Inv, NEW pm \in maps, vmm_free_pagemap_clone(pm) PROVE Inv'
<1>1. PICK w, top : w = FreeClone(mem, free, pm.top) /\ top = pm.top
  OBVIOUS
<1>2. /\ Call /\ pm.map # 0 /\ pm.top # cr3 /\ mem' = w.mem /\ free' = w.free
      /\ maps' = maps \ {pm} /\ view' = [view EXCEPT ![pm.top] = [v \in VPages |-> None]]
      /\ clone' = NoClone /\ lost' = lost \cup {pm.map}
      /\ phase' = phase /\ booted' = booted /\ filled' = filled /\ cr3' = cr3 /\ held' = held
      /\ direct' = direct /\ failed' = failed
  BY <1>1 DEF vmm_free_pagemap_clone
<1>3. phase = "run" /\ Live = maps
  BY <1>2, CallIs
<1>4. Early' /\ Making' /\ CloneExact' /\ Live' = maps'
  BY <1>2, <1>3, Settled
<1>5. PICK T, R, M : T = TopsOf(Live) /\ R = Elsewhere /\ M = MapsOf(Live)
  OBVIOUS
<1>6. /\ TopsOf(Live \ {pm}) = T \ {top}
      /\ MapsOf(Live \ {pm}) = M \ {pm.map} /\ pm.map \in M
  BY <1>1, <1>2, <1>3, <1>5, WithoutOne
<1>7. /\ TopsOf(Live)' = T \ {top} /\ TopsOf(maps)' = T \ {top} /\ MapsOf(Live)' = M \ {pm.map}
      /\ TopsOf(maps) = T
  BY <1>2, <1>3, <1>4, <1>5, <1>6 DEF TopsOf, MapsOf
<1>8. /\ R = Image \cup held \cup lost \cup M
      /\ Elsewhere' = Image \cup held \cup lost \cup {pm.map} \cup (M \ {pm.map})
      /\ Image \cap (held \cup lost \cup M) = {} /\ held \cap (lost \cup M) = {}
      /\ lost \cap M = {}
  BY <1>2, <1>5, <1>7 DEF Inv, Sorts, Elsewhere
<1>9. Elsewhere' = R
  BY <1>6, <1>8
<1>10. Sorts'
  BY <1>2, <1>6, <1>7, <1>8 DEF Sorts
<1>11. Drops(mem, T, direct, free, R, top)
  <2>1. \A y : <<top, y>> \notin direct
    BY <1>1, <1>2, <1>3, CloneOwn
  <2>2. top \in T
    BY <1>1, <1>3, <1>5 DEF TopsOf
  <2> QED BY <1>5, <2>1, <2>2 DEF Inv, Ledger, Drops
<1>12. Books(w.mem, T \ {top}, direct, w.free, R) /\ SameWalk(mem, w.mem, T \ {top})
  BY <1>1, <1>11, DropTop
<1>13. Ledger'
  BY <1>2, <1>7, <1>9, <1>12 DEF Ledger
<1>14. Apart'
  BY <1>2, <1>3, <1>4 DEF Inv, Apart
<1>15. Second'
  <2>1. \A pl \in direct : pl \in TopsOf({x \in maps' : x.map = 0}) \X VPages
    <3> SUFFICES ASSUME NEW pl \in direct PROVE pl \in TopsOf({x \in maps' : x.map = 0}) \X VPages
      OBVIOUS
    <3>1. pl \in TopsOf({x \in maps : x.map = 0}) \X VPages
      BY DEF Inv, Second
    <3>2. {x \in maps' : x.map = 0} = {x \in maps : x.map = 0}
      BY <1>2
    <3> QED BY <3>1, <3>2
  <2>2. direct' \subseteq TopsOf({x \in maps' : x.map = 0}) \X VPages
    BY <1>2, <2>1
  <2> QED BY <2>2 DEF Second, TopsOf
<1>16. view \in [Pages -> [VPages -> Entries]] /\ \A x \in maps : x.top \in Pages
  BY DEF Inv, Shape
<1>17. view' \in [Pages -> [VPages -> Entries]]
  BY <1>2, <1>16, NonePage
<1>18. Shape'
  <2>1. cr3 \in T \cup {0}
    BY <1>7 DEF Inv, Shape
  <2>2. cr3 \in TopsOf(maps)' \cup {0}
    BY <1>1, <1>2, <1>7, <2>1
  <2>3. filled' \subseteq Pages /\ failed' \in BOOLEAN /\ maps' \subseteq maps
    BY <1>2 DEF Inv, Shape
  <2> QED BY <1>2, <1>17, <2>2, <2>3, CallShape
<1>19. Exact'
  <2> SUFFICES ASSUME NEW x \in maps', NEW v \in VPages PROVE EntryAt(mem', x.top, v) = view'[x.top][v]
    BY DEF Exact
  <2>1. x \in maps /\ x # pm
    BY <1>2
  <2>2. x.top # top /\ x.top \in T
    BY <1>1, <1>2, <1>3, <1>5, <2>1 DEF Inv, Apart, TopsOf
  <2>3. v \in Paths
    BY LeafIs, VmmAssumption DEF Leaves
  <2>4. EntryAt(w.mem, x.top, v) = EntryAt(mem, x.top, v)
    BY <1>12, <2>2, <2>3 DEF SameWalk
  <2>5. view'[x.top][v] = view[x.top][v]
    BY <1>1, <1>2, <1>16, <2>1, <2>2
  <2> QED BY <1>2, <2>1, <2>4, <2>5 DEF Inv, Exact
<1>20. Trim'
  <2>1. PICK X : X = TrimTops'
    OBVIOUS
  <2>2. X \subseteq T \ {top} /\ X \subseteq TrimTops
    BY <1>2, <1>7, <2>1 DEF TrimTops
  <2>3. PrunedBut(mem, X, {})
    BY <2>2 DEF Inv, Trim, PrunedBut
  <2>4. PrunedBut(w.mem, X, {})
    BY <1>12, <2>2, <2>3, PrunedSame
  <2> QED BY <1>2, <2>1, <2>4 DEF Trim
<1> QED BY <1>4, <1>10, <1>13, <1>14, <1>15, <1>18, <1>19, <1>20 DEF Inv


(* No table index reaches VMM_HIGHER_HALF. *)
LEMMA LowHalf ==
  ASSUME NEW q \in Paths
  PROVE  ~InHigherHalf(q[1])
<1>1. PICK k \in 1 .. 4 : q \in [1 .. k -> Indices]
  BY DEF Paths
<1>2. q[1] \in Indices
  BY <1>1
<1>3. q[1] \in 0 .. 511 /\ HIGHER_HALF >= 2^24 /\ HIGHER_HALF \in Nat
  BY <1>2, VmmAssumption
<1>4. 2^24 = 16777216
  OBVIOUS
<1> QED BY <1>3, <1>4 DEF InHigherHalf

(* The pagemaps that exist stay as they are. *)
LEMMA MapsStay ==
  ASSUME Inv, SameWalk(mem, mem', TopsOf(maps)), maps' = maps, view' = view, failed' = failed
  PROVE  Exact' /\ Trim'
<1>1. Exact'
  <2>1. \A x \in maps : x.top \in TopsOf(maps)
    BY DEF TopsOf
  <2>2. \A v \in VPages : v \in Paths
    BY LeafIs, VmmAssumption DEF Leaves
  <2> QED BY <2>1, <2>2 DEF Inv, Exact, SameWalk
<1>2. PICK X, T, n : X = TrimTops /\ T = TopsOf(maps) /\ n = mem'
  OBVIOUS
<1>3. X \subseteq T /\ PrunedBut(mem, X, {}) /\ SameWalk(mem, n, T)
  BY <1>2, TrimIs DEF TrimTops
<1>4. PrunedBut(n, X, {})
  BY <1>3, PrunedSame
<1>5. Trim'
  BY <1>2, <1>4, TrimIs DEF Trim
<1> QED BY <1>1, <1>5

(* Two pages can be taken from free, the pagemap_t's and the pml4's. *)
LEMMA TwoPages ==
  ASSUME Inv, \E p, q \in free : p # q, NEW map, map = NextFree(free),
         NEW top, top = NextFree(free \ {map})
  PROVE  map \in free /\ top \in free /\ map # top /\ map \in Pages /\ top \in Pages
<1>1. free \subseteq Pages
  BY FreeIs
<1>2. map \in free
  BY <1>1, NextFreeIs
<1>3. free \ {map} # {} /\ free \ {map} \subseteq Pages
  BY <1>1
<1>4. top \in free \ {map}
  BY <1>3, NextFreeIs
<1> QED BY <1>1, <1>2, <1>4

LEMMA InvClone == ASSUME Inv, NEW pm \in maps, vmm_clone_pagemap(pm) PROVE Inv'
<1>1. /\ Call /\ phase' = phase /\ booted' = booted /\ filled' = filled /\ maps' = maps
      /\ cr3' = cr3 /\ held' = held /\ view' = view /\ direct' = direct /\ lost' = lost
      /\ failed' = failed
  BY DEF vmm_clone_pagemap
<1>2. phase = "run" /\ clone.state # "making" /\ Live = maps /\ calls' \in 0 .. MaxCalls
  BY <1>1, CallIs
<1>3. CASE clone' = NoClone /\ UNCHANGED <<mem, free>>
  <2>1. Idle
    BY <1>1, <1>2, <1>3 DEF Idle
  <2>2. cr3' \in TopsOf(maps) \cup {0} /\ (phase' = "run" => cr3' # 0)
    BY <1>1 DEF Inv, Shape
  <2> QED BY <1>1, <1>2, <2>1, <2>2, IdleKeeps
<1>4. CASE LET map == NextFree(free)
               top == NextFree(free \ {map})
           IN  /\ \E p, q \in free : p # q
               /\ mem' = [mem EXCEPT ![top] = EmptyTable]
               /\ free' = free \ {map, top}
               /\ clone' = [state |-> "making", src |-> pm.top,
                            child |-> [map |-> map, top |-> top]]
  <2>1. PICK map, top, child : /\ map = NextFree(free) /\ top = NextFree(free \ {map})
                               /\ child = [map |-> map, top |-> top]
    OBVIOUS
  <2>2. /\ \E p, q \in free : p # q
        /\ mem' = [mem EXCEPT ![top] = EmptyTable] /\ free' = free \ {map, top}
        /\ clone' = [state |-> "making", src |-> pm.top, child |-> child]
        /\ child.map = map /\ child.top = top
    BY <1>4, <2>1
  <2>3. map \in free /\ top \in free /\ map # top /\ map \in Pages /\ top \in Pages
    BY <2>1, <2>2, TwoPages
  <2>4. PICK T, R, M, n, d, g : /\ T = TopsOf(Live) /\ R = Elsewhere /\ M = MapsOf(Live)
                                /\ n = mem' /\ d = direct /\ g = free \ {map}
    OBVIOUS
  <2>5. Books(mem, T, d, free, R) /\ free \cap R = {}
    BY <2>4 DEF Inv, Ledger, Books
  <2>6. Books(mem, T, d, g, R \cup {map})
    <3>1. g \cup (R \cup {map}) = free \cup R /\ g \cap (R \cup {map}) = {}
      BY <2>3, <2>4, <2>5
    <3> QED BY <2>5, <3>1, OtherUse
  <2>7. top \notin T
    BY <2>3, <2>5, TopsUsed
  <2>8. \A y : <<top, y>> \notin d
    <3> SUFFICES ASSUME NEW y, <<top, y>> \in d PROVE FALSE
      OBVIOUS
    <3>1. PICK k \in maps : <<top, y>>[1] = k.top
      BY <2>4, PlaceTops
    <3>2. k.top \in T
      BY <1>2, <2>4 DEF TopsOf
    <3> QED BY <2>7, <3>1, <3>2
  <2>9. Founds(mem, n, T, d, g, R \cup {map}, top)
    BY <2>2, <2>3, <2>4, <2>6, <2>8 DEF Founds
  <2>10. /\ Books(n, T \cup {top}, d, g \ {top}, R \cup {map}) /\ SameWalk(mem, n, T)
         /\ \A r \in Paths : EntryAt(n, top, r) = None
    BY <2>9, NewTop
  <2>11. Live' = maps \cup {child}
    BY <1>1, <2>2 DEF Live
  <2>12. /\ TopsOf(Live)' = T \cup {top} /\ TopsOf(maps)' = T /\ TopsOf(maps) = T
    BY <1>1, <1>2, <2>2, <2>4, <2>11 DEF TopsOf
  <2>13. MapsOf(Live)' = M \cup {map}
    <3>1. map # 0
      BY <2>3, NonePage
    <3> QED BY <1>2, <2>2, <2>4, <2>11, <3>1 DEF MapsOf
  <2>14. /\ R = Image \cup held \cup lost \cup M
         /\ Elsewhere' = Image \cup held \cup lost \cup (M \cup {map})
         /\ Image \cap (held \cup lost \cup M) = {} /\ held \cap (lost \cup M) = {}
         /\ lost \cap M = {}
    BY <1>1, <2>4, <2>13 DEF Inv, Sorts, Elsewhere
  <2>15. Elsewhere' = R \cup {map} /\ map \notin R
    BY <2>3, <2>5, <2>14
  <2>16. Sorts'
    BY <1>1, <2>13, <2>14, <2>15 DEF Sorts
  <2>17. Ledger'
    <3>1. free' = g \ {top}
      BY <2>2, <2>4
    <3> QED BY <1>1, <2>4, <2>10, <2>12, <2>15, <3>1 DEF Ledger
  <2>18. Apart'
    <3>1. \A a \in maps : a.top # top /\ (a.map = 0 \/ a.map # map)
      <4> SUFFICES ASSUME NEW a \in maps PROVE a.top # top /\ (a.map = 0 \/ a.map # map)
        OBVIOUS
      <4>1. a.top \in T
        BY <1>2, <2>4 DEF TopsOf
      <4>2. a.map # 0 => a.map \in M
        BY <1>2, <2>4 DEF MapsOf
      <4> QED BY <2>7, <2>14, <2>15, <4>1, <4>2
    <3>2. \A a, b \in maps : a # b => a.top # b.top /\ (a.map = b.map => a.map = 0)
      BY <1>2 DEF Inv, Apart
    <3> QED BY <2>2, <2>11, <3>1, <3>2 DEF Apart
  <2>19. Second'
    BY <1>1 DEF Inv, Second, TopsOf
  <2>20. Exact' /\ Trim'
    BY <1>1, <2>4, <2>10, <2>12, MapsStay
  <2>21. Early'
    BY <1>1, <1>2 DEF Early
  <2>22. pm.top \in TopsOf(maps) /\ pm.top \in Pages
    <3>1. pm.top \in TopsOf(maps)
      BY DEF TopsOf
    <3> QED BY <3>1, PlaceTops
  <2>23. Shape'
    <3>1. clone' \in [state : {"none", "making", "made"}, src : {0} \cup Pages,
                      child : [map : {0} \cup Pages, top : {0} \cup Pages]]
      BY <2>1, <2>2, <2>3, <2>22
    <3>2. cr3' \in TopsOf(maps)' \cup {0}
      BY <1>1, <2>12 DEF Inv, Shape
    <3> QED BY <1>1, <1>2, <3>1, <3>2 DEF Inv, Shape
  <2>24. /\ clone'.state = "making" /\ clone'.src = pm.top /\ clone'.child = child
    BY <2>2
  <2>25. Making'
    <3>1. child \notin maps
      BY <1>2, <2>2, <2>4, <2>7 DEF TopsOf
    <3>2. CopyOf(n, filled', d, pm.top, top)
      BY <2>10 DEF CopyOf
    <3> QED BY <1>1, <2>2, <2>3, <2>4, <2>12, <2>22, <2>24, <3>1, <3>2 DEF Making
  <2>26. CloneExact'
    BY <2>24 DEF CloneExact
  <2> QED BY <2>16, <2>17, <2>18, <2>19, <2>20, <2>21, <2>23, <2>25, <2>26 DEF Inv
<1> QED BY <1>3, <1>4 DEF vmm_clone_pagemap

(* What a clone in the making rests on. *)
LEMMA MakingIs ==
  ASSUME Inv, clone.state = "making", NEW ct, ct = clone.child.top
  PROVE  /\ Live = maps \cup {clone.child} /\ clone.child \in Live /\ clone.child \notin maps
         /\ clone.child.map # 0 /\ clone.child.map \in Pages /\ ct \in Pages /\ ct \in TopsOf(Live)
         /\ ct \notin TopsOf(maps) /\ clone.src \in TopsOf(maps) /\ clone.src \in TopsOf(Live)
         /\ clone.src \in Pages /\ TopsOf(maps) = TopsOf(Live) \ {ct}
         /\ \A y : <<ct, y>> \notin direct
         /\ CopyOf(mem, filled, direct, clone.src, ct)
<1>1. /\ clone.src \in TopsOf(maps) /\ clone.child \notin maps
      /\ clone.child.map \in Pages /\ clone.child.top \in Pages
      /\ CopyOf(mem, filled, direct, clone.src, clone.child.top)
  BY DEF Inv, Making
<1>2. Live = maps \cup {clone.child}
  BY DEF Live
<1>3. clone.child.map # 0
  BY <1>1, NonePage
<1>4. ct \in TopsOf(Live)
  BY <1>2 DEF TopsOf
<1>5. \A a \in maps : a.top # ct
  BY <1>1, <1>2 DEF Inv, Apart
<1>6. TopsOf(maps) = TopsOf(Live) \ {ct}
  BY <1>2, <1>5 DEF TopsOf
<1>7. clone.src \in Pages /\ clone.src \in TopsOf(Live)
  BY <1>1, PlaceTops
<1>8. \A y : <<ct, y>> \notin direct
  BY <1>2, <1>3, CloneOwn
<1> QED BY <1>1, <1>2, <1>3, <1>4, <1>6, <1>7, <1>8


LEMMA EditOthers ==
  ASSUME NEW m, NEW n, NEW T, NEW top, NEW q, NEW i, NEW e, NEW F,
         Edit(m, n, T, top, q, i, e, F), NEW Y, Y = T \ {top}
  PROVE  SameWalk(m, n, Y)
<1>1. \A x \in T, r \in Nodes :
        Descend(n, x, r) = IF x = top /\ r = Append(q, i) THEN e.page ELSE Descend(m, x, r)
  BY EditWalk
<1>2. \A x \in T, r \in Paths :
        EntryAt(n, x, r) = IF x = top /\ r = Append(q, i) THEN e ELSE EntryAt(m, x, r)
  BY EditEntry
<1> QED BY <1>1, <1>2 DEF SameWalk

LEMMA UsedEntry ==
  ASSUME NEW m, NEW T, NEW d, NEW f, NEW R, Books(m, T, d, f, R), NEW x \in T, NEW r \in Paths,
         <<x, r>> \notin d, EntryAt(m, x, r) # None
  PROVE  EntryAt(m, x, r).page \notin f \cup R
<1>1. /\ m \in Mems /\ T \subseteq Pages
      /\ \A p \in Pages : Uses(m, T, d, p) <=> p \notin f \cup R
  BY DEF Books
<1>2. PICK e : e = EntryAt(m, x, r)
  OBVIOUS
<1>3. e \in Entries /\ Descend(m, x, r) = e.page /\ r \in Nodes
  BY <1>1, <1>2, EntryType, PathIs
<1>4. e.page \in Pages
  BY <1>2, <1>3, EntryPage
<1>5. Uses(m, T, d, e.page)
  BY <1>3 DEF Uses
<1> QED BY <1>1, <1>2, <1>4, <1>5

(* The loop body of vmm_clone_pagemap keeps the copy true. *)
Copies(m, n, T, d, f, R, src, ct, q, p, fill, fill2) ==
  /\ Books(m, T, d, f, R) /\ src \in T /\ ct \in T /\ src # ct /\ p \in f /\ q \in Paths
  /\ (\A y : <<ct, y>> \notin d) /\ EntryAt(m, src, q) # None
  /\ CopyOf(m, fill, d, src, ct)
  /\ Upd(m, n, T, ct, q, [page |-> p, flags |-> EntryAt(m, src, q).flags \ {"NX"}])
  /\ \A c : c # p => (c \in fill2 <=> c \in fill)
  /\ Len(q) = 4 => (p \in fill2 <=> EntryAt(m, src, q).page \in fill)

LEMMA CopyStep ==
  ASSUME NEW m, NEW n, NEW T, NEW d, NEW f, NEW R, NEW src, NEW ct, NEW q, NEW p,
         NEW fill, NEW fill2, Copies(m, n, T, d, f, R, src, ct, q, p, fill, fill2)
  PROVE  CopyOf(n, fill2, d, src, ct)
<1>1. /\ Books(m, T, d, f, R) /\ src \in T /\ ct \in T /\ src # ct /\ p \in f /\ q \in Paths
      /\ (\A y : <<ct, y>> \notin d) /\ EntryAt(m, src, q) # None
      /\ CopyOf(m, fill, d, src, ct)
      /\ \A c : c # p => (c \in fill2 <=> c \in fill)
      /\ Len(q) = 4 => (p \in fill2 <=> EntryAt(m, src, q).page \in fill)
  BY DEF Copies
<1>2. PICK g : g = [page |-> p, flags |-> EntryAt(m, src, q).flags \ {"NX"}]
  OBVIOUS
<1>3. Upd(m, n, T, ct, q, g)
  BY <1>2 DEF Copies
<1>4. g.page = p /\ g.flags = EntryAt(m, src, q).flags \ {"NX"}
  BY <1>2
<1>5. \A r \in Paths : /\ EntryAt(n, src, r) = EntryAt(m, src, r)
                       /\ EntryAt(n, ct, r) = IF r = q THEN g ELSE EntryAt(m, ct, r)
  BY <1>1, <1>3 DEF Upd
<1>6. ASSUME NEW r \in Paths, EntryAt(m, src, r) # None, <<src, r>> \notin d
      PROVE  EntryAt(m, src, r).page \in fill2 <=> EntryAt(m, src, r).page \in fill
  <2>1. EntryAt(m, src, r).page # p
    BY <1>1, <1>6, UsedEntry
  <2> QED BY <1>1, <2>1
<1>7. ASSUME NEW r \in Paths, EntryAt(m, ct, r) # None
      PROVE  EntryAt(m, ct, r).page \in fill2 <=> EntryAt(m, ct, r).page \in fill
  <2>1. EntryAt(m, ct, r).page # p
    <3>1. <<ct, r>> \notin d
      BY <1>1
    <3>2. EntryAt(m, ct, r).page \notin f \cup R
      BY <1>1, <1>7, <3>1, UsedEntry
    <3> QED BY <1>1, <3>2
  <2> QED BY <1>1, <2>1
<1> SUFFICES ASSUME NEW r \in Paths, EntryAt(n, ct, r) # None
             PROVE  /\ EntryAt(n, src, r) # None
                    /\ EntryAt(n, ct, r).flags = EntryAt(n, src, r).flags \ {"NX"}
                    /\ Len(r) = 4 /\ <<src, r>> \notin d =>
                         (EntryAt(n, ct, r).page \in fill2 <=> EntryAt(n, src, r).page \in fill2)
  BY DEF CopyOf
<1>8. CASE r = q
  <2>1. EntryAt(n, src, r) = EntryAt(m, src, q) /\ EntryAt(n, ct, r) = g
    BY <1>5, <1>8
  <2>2. <<src, q>> \notin d =>
          (EntryAt(m, src, q).page \in fill2 <=> EntryAt(m, src, q).page \in fill)
    BY <1>1, <1>6
  <2> QED BY <1>1, <1>4, <1>8, <2>1, <2>2
<1>9. CASE r # q
  <2>1. EntryAt(n, src, r) = EntryAt(m, src, r) /\ EntryAt(n, ct, r) = EntryAt(m, ct, r)
    BY <1>5, <1>9
  <2>2. /\ EntryAt(m, src, r) # None
        /\ EntryAt(m, ct, r).flags = EntryAt(m, src, r).flags \ {"NX"}
        /\ Len(r) = 4 /\ <<src, r>> \notin d =>
             (EntryAt(m, ct, r).page \in fill <=> EntryAt(m, src, r).page \in fill)
    BY <1>1, <2>1 DEF CopyOf
  <2> QED BY <1>6, <1>7, <2>1, <2>2
<1> QED BY <1>8, <1>9

(* The loops come to a table before they come to its entries. *)
LEMMA NotBefore ==
  ASSUME NEW r \in Nodes, Len(r) < 4, NEW i \in Indices
  PROVE  ~Before(Append(r, i), r)
<1>1. PICK q : q = Append(r, i)
  OBVIOUS
<1>2. r \in Seq(Indices)
  BY NodeIs
<1>3. Len(q) = Len(r) + 1 /\ \A k \in 1 .. Len(r) : q[k] = r[k] /\ r[k] \in Indices
  BY <1>1, <1>2
<1>4. Len(r) \in Nat
  BY <1>2
<1>5. ASSUME NEW n \in 1 .. Len(r) PROVE ~(n > Len(q)) /\ ~(q[n] < r[n])
  <2>1. q[n] = r[n] /\ r[n] \in 0 .. 511
    BY <1>3, VmmAssumption
  <2>2. ~(n > Len(q))
    BY <1>3, <1>4
  <2>3. PICK a, b : a = q[n] /\ b = r[n]
    OBVIOUS
  <2>4. a = b /\ b \in 0 .. 511
    BY <2>1, <2>3
  <2>5. ~(a < b)
    BY <2>4
  <2> QED BY <2>2, <2>3, <2>5
<1> QED BY <1>1, <1>5 DEF Before

(* The table that the next entry goes into is there. *)
LEMMA ParentThere ==
  ASSUME Inv, clone.state = "making", NEW q \in Upcoming
  PROVE  /\ q \in Paths /\ EntryAt(mem, clone.src, q) # None
         /\ EntryAt(mem, clone.child.top, q) = None
         /\ Descend(mem, clone.child.top, Front(q)) # 0
<1>1. /\ q \in Paths /\ EntryAt(mem, clone.src, q) # None
      /\ EntryAt(mem, clone.child.top, q) = None
      /\ \A r \in Pending \ {q} : Before(q, r)
  BY DEF Upcoming, Pending
<1>2. PICK r, i, ct, src : r = Front(q) /\ i = Last(q) /\ ct = clone.child.top /\ src = clone.src
  OBVIOUS
<1>3. r \in Nodes /\ i \in Indices /\ Len(r) < 4 /\ q = Append(r, i) /\ Len(q) = Len(r) + 1
  BY <1>1, <1>2, NodeSplit
<1>4. mem \in Mems /\ ct \in Pages /\ src \in Pages
  BY <1>2, MakingIs, FreeIs
<1>5. CASE r = <<>>
  <2>1. Descend(mem, ct, r) = ct
    BY <1>5, DescendRoot
  <2> QED BY <1>1, <1>2, <1>4, <2>1, NonePage
<1>6. CASE r # <<>>
  <2>1. r \in Paths
    BY <1>3, <1>6, PathIs
  <2>2. Descend(mem, src, q) # 0
    BY <1>1, <1>2, <1>4, EntryType
  <2>3. Descend(mem, src, r) # 0
    BY <1>3, <2>2, WalkUp
  <2>4. EntryAt(mem, src, r) # None
    BY <1>4, <2>1, <2>3, EntryType
  <2>5. r # q
    <3>1. PICK k \in 0 .. 4 : k = Len(r)
      BY <1>3, NodeLen
    <3> QED BY <1>3, <3>1
  <2>6. ~Before(q, r)
    BY <1>3, NotBefore
  <2>7. r \notin Pending
    BY <1>1, <2>5, <2>6
  <2>8. EntryAt(mem, ct, r) # None
    BY <1>2, <2>1, <2>4, <2>7, LowHalf DEF Pending
  <2>9. Descend(mem, ct, r) # 0
    BY <1>4, <2>1, <2>8, EntryType
  <2> QED BY <1>1, <1>2, <2>9
<1> QED BY <1>5, <1>6

LEMMA InvCloneStep == ASSUME Inv, CloneStep PROVE Inv'
<1>1. PICK q \in Upcoming :
        /\ free # {} \/ InHigherHalf(q[1])
        /\ mem' = CloneEntry(q).mem /\ free' = CloneEntry(q).free /\ filled' = CloneEntry(q).filled
  BY DEF CloneStep
<1>2. /\ clone.state = "making" /\ phase' = phase /\ booted' = booted /\ maps' = maps
      /\ cr3' = cr3 /\ held' = held /\ view' = view /\ direct' = direct /\ lost' = lost
      /\ failed' = failed /\ clone' = clone /\ calls' = calls
  BY DEF CloneStep
<1>3. PICK ct, src, r, i, p, t, e :
        /\ ct = clone.child.top /\ src = clone.src /\ r = Front(q) /\ i = Last(q)
        /\ p = NextFree(free) /\ t = Descend(mem, ct, r) /\ e = EntryAt(mem, src, q)
  OBVIOUS
<1>4. q \in Paths /\ e # None /\ EntryAt(mem, ct, q) = None /\ t # 0
  BY <1>2, <1>3, ParentThere
<1>5. ~InHigherHalf(q[1]) /\ free # {}
  BY <1>1, <1>4, LowHalf
<1>6. p \in free /\ p \in Pages
  BY <1>3, <1>5, FreeIs, NextFreeIs
<1>7. PICK fl, g, n, fill2 : /\ fl = e.flags \ {"NX"} /\ g = [page |-> p, flags |-> fl]
                             /\ n = mem' /\ fill2 = filled'
  OBVIOUS
<1>8. /\ n = [mem EXCEPT ![p] = EmptyTable, ![t][i] = [page |-> p, flags |-> fl]]
      /\ free' = free \ {p}
      /\ fill2 = IF Len(q) = 4 /\ e.page \in filled THEN filled \cup {p} ELSE filled \ {p}
  BY <1>1, <1>3, <1>5, <1>7 DEF CloneEntry, LowFlags
<1>9. r \in Nodes /\ i \in Indices /\ Len(r) < 4 /\ q = Append(r, i)
  BY <1>3, <1>4, NodeSplit
<1>10. PICK T, R, d, Y : /\ T = TopsOf(Live) /\ R = Elsewhere /\ d = direct /\ Y = TopsOf(maps)
  OBVIOUS
<1>11. /\ ct \in T /\ ct \in Pages /\ src \in T /\ src \in Pages /\ src # ct /\ Y = T \ {ct}
       /\ (\A y : <<ct, y>> \notin d) /\ CopyOf(mem, filled, d, src, ct)
       /\ clone.child \notin maps /\ clone.child.map \in Pages
  BY <1>2, <1>3, <1>10, MakingIs
<1>12. Books(mem, T, d, free, R) /\ mem \in Mems
  BY <1>10 DEF Inv, Ledger, Books
<1>13. At(mem, T, ct, r, t)
  BY <1>3, <1>4, <1>9, <1>11 DEF At
<1>14. mem[t][i] = None
  <2>1. EntryAt(mem, ct, Append(r, i)) = IF Descend(mem, ct, r) = 0 THEN None ELSE mem[Descend(mem, ct, r)][i]
    BY <1>9, EntryBelow
  <2> QED BY <1>3, <1>4, <1>9, <2>1
<1>15. fl \in SUBSET Flags
  <2>1. e \in Entries
    BY <1>3, <1>4, <1>11, <1>12, EntryType
  <2> QED BY <1>7, <2>1, EntryPage
<1>16. <<ct, Append(r, i)>> \notin d
  BY <1>11
<1>17. /\ Edit(mem, n, T, ct, r, i, [page |-> p, flags |-> fl], {p})
       /\ Books(n, T, d, free \ {p}, R)
  <2>1. /\ Books(mem, T, d, free, R) /\ At(mem, T, ct, r, t) /\ i \in Indices
        /\ mem[t][i] = None /\ <<ct, Append(r, i)>> \notin d /\ p \in free /\ fl \in SUBSET Flags
        /\ n = [mem EXCEPT ![p] = EmptyTable, ![t][i] = [page |-> p, flags |-> fl]]
    BY <1>6, <1>8, <1>9, <1>12, <1>13, <1>14, <1>15, <1>16
  <2>2. PICK m, f : m = mem /\ f = free
    OBVIOUS
  <2>3. /\ Books(m, T, d, f, R) /\ At(m, T, ct, r, t) /\ i \in Indices
        /\ m[t][i] = None /\ <<ct, Append(r, i)>> \notin d /\ p \in f /\ fl \in SUBSET Flags
        /\ n = [m EXCEPT ![p] = EmptyTable, ![t][i] = [page |-> p, flags |-> fl]]
    BY <2>1, <2>2
  <2>4. /\ Edit(m, n, T, ct, r, i, [page |-> p, flags |-> fl], {p})
        /\ Books(n, T, d, f \ {p}, R)
    BY <2>3, FreshEdit
  <2> QED BY <2>2, <2>4
<1>18. Edit(mem, n, T, ct, r, i, g, {p})
  BY <1>7, <1>17
<1>19. SameWalk(mem, n, Y)
  BY <1>11, <1>18, EditOthers
<1>20. Upd(mem, n, T, ct, q, g)
  BY <1>9, <1>18, EditUpd
<1>21. CopyOf(n, fill2, d, src, ct)
  <2>1. \A c : c # p => (c \in fill2 <=> c \in filled)
    BY <1>8
  <2>2. Len(q) = 4 => (p \in fill2 <=> e.page \in filled)
    BY <1>8
  <2>3. Copies(mem, n, T, d, free, R, src, ct, q, p, filled, fill2)
    BY <1>3, <1>4, <1>6, <1>7, <1>11, <1>12, <1>20, <2>1, <2>2 DEF Copies
  <2> QED BY <2>3, CopyStep
<1>22. /\ Live' = Live /\ Elsewhere' = R /\ TopsOf(Live)' = T /\ TopsOf(maps)' = Y
       /\ MapsOf(Live)' = MapsOf(Live)
  <2>1. Live' = Live
    BY <1>2 DEF Live
  <2> QED BY <1>2, <1>10, <2>1 DEF Elsewhere, TopsOf, MapsOf
<1>23. Ledger'
  BY <1>2, <1>7, <1>8, <1>10, <1>17, <1>22 DEF Ledger
<1>24. Exact' /\ Trim'
  BY <1>2, <1>7, <1>10, <1>19, MapsStay
<1>25. Shape'
  <2>1. filled' \subseteq Pages
    BY <1>6, <1>7, <1>8 DEF Inv, Shape
  <2>2. cr3' \in TopsOf(maps)' \cup {0}
    BY <1>2, <1>10, <1>22 DEF Inv, Shape
  <2> QED BY <1>2, <2>1, <2>2 DEF Inv, Shape
<1>26. Sorts'
  BY <1>2, <1>22 DEF Inv, Sorts
<1>27. Apart' /\ Second' /\ Early'
  <2>1. Apart'
    BY <1>22 DEF Inv, Apart
  <2>2. Second'
    BY <1>2 DEF Inv, Second, TopsOf
  <2>3. Early'
    BY <1>2 DEF Inv, Early
  <2> QED BY <2>1, <2>2, <2>3
<1>28. Making' /\ CloneExact'
  <2>1. src \in Y
    BY <1>11
  <2>2. Making'
    BY <1>2, <1>3, <1>7, <1>10, <1>11, <1>21, <1>22, <2>1 DEF Making
  <2> QED BY <1>2, <2>2 DEF CloneExact
<1> QED BY <1>23, <1>24, <1>25, <1>26, <1>27, <1>28 DEF Inv


LEMMA InvCloneReturn == ASSUME Inv, CloneReturn PROVE Inv'
<1>1. /\ clone.state = "making" /\ Pending = {} /\ maps' = maps \cup {clone.child}
      /\ view' = [view EXCEPT ![clone.child.top] =
                    [v \in VPages |-> EntryAt(mem, clone.child.top, v)]]
      /\ clone' = [clone EXCEPT !.state = "made"]
      /\ phase' = phase /\ booted' = booted /\ mem' = mem /\ free' = free /\ filled' = filled
      /\ cr3' = cr3 /\ held' = held /\ direct' = direct /\ lost' = lost /\ failed' = failed
      /\ calls' = calls
  BY DEF CloneReturn
<1>2. PICK ct, src, child : ct = clone.child.top /\ src = clone.src /\ child = clone.child
  OBVIOUS
<1>3. /\ Live = maps \cup {child} /\ child \notin maps /\ child.map # 0 /\ child.map \in Pages
      /\ ct \in Pages /\ ct \in TopsOf(Live) /\ ct \notin TopsOf(maps) /\ src \in TopsOf(maps)
      /\ src \in Pages /\ TopsOf(maps) = TopsOf(Live) \ {ct}
      /\ CopyOf(mem, filled, direct, src, ct) /\ child.top = ct
  BY <1>1, <1>2, MakingIs
<1>4. /\ clone'.state = "made" /\ clone'.src = src /\ clone'.child = child
      /\ clone' \in [state : {"none", "making", "made"}, src : {0} \cup Pages,
                     child : [map : {0} \cup Pages, top : {0} \cup Pages]]
  BY <1>1, <1>2 DEF Inv, Shape
<1>5. Live' = Live /\ maps' = Live
  <2>1. maps' = Live
    BY <1>1, <1>2, <1>3
  <2> QED BY <1>4, <2>1 DEF Live
<1>6. /\ Elsewhere' = Elsewhere /\ TopsOf(Live)' = TopsOf(Live) /\ MapsOf(Live)' = MapsOf(Live)
      /\ TopsOf(maps)' = TopsOf(Live)
  BY <1>1, <1>5 DEF Elsewhere, TopsOf, MapsOf
<1>7. mem \in Mems
  BY FreeIs
<1>8. \A q \in Paths : EntryAt(mem, src, q) # None <=> EntryAt(mem, ct, q) # None
  <2>1. \A q \in Paths : EntryAt(mem, src, q) # None => EntryAt(mem, ct, q) # None
    BY <1>1, <1>2, LowHalf DEF Pending
  <2> QED BY <1>3, <2>1 DEF CopyOf
<1>9. view \in [Pages -> [VPages -> Entries]]
  BY DEF Inv, Shape
<1>10. \A v \in VPages : v \in Paths
  BY LeafIs, VmmAssumption DEF Leaves
<1>11. PICK row : row = [v \in VPages |-> EntryAt(mem, ct, v)]
  OBVIOUS
<1>12. row \in [VPages -> Entries] /\ \A v \in VPages : row[v] = EntryAt(mem, ct, v)
  <2>1. \A v \in VPages : EntryAt(mem, ct, v) \in Entries
    BY <1>3, <1>7, <1>10, EntryType
  <2> QED BY <1>11, <2>1
<1>13. view' = [view EXCEPT ![ct] = row]
  BY <1>1, <1>2, <1>11
<1>14. view' \in [Pages -> [VPages -> Entries]]
  BY <1>9, <1>12, <1>13
<1>15. Shape'
  <2>1. child \in [map : {0} \cup Pages, top : Pages]
    <3>1. child \in [map : {0} \cup Pages, top : {0} \cup Pages]
      BY <1>2 DEF Inv, Shape
    <3> QED BY <1>3, <3>1
  <2>2. maps' \subseteq [map : {0} \cup Pages, top : Pages]
    BY <1>1, <1>2, <2>1 DEF Inv, Shape
  <2>3. cr3' \in TopsOf(maps)' \cup {0}
    BY <1>1, <1>3, <1>6 DEF Inv, Shape
  <2> QED BY <1>1, <1>4, <1>14, <2>2, <2>3 DEF Inv, Shape
<1>16. Sorts' /\ Apart'
  <2>1. Sorts'
    BY <1>1, <1>6 DEF Inv, Sorts
  <2>2. Apart'
    BY <1>5 DEF Inv, Apart
  <2> QED BY <2>1, <2>2
<1>17. Second'
  <2>1. {x \in maps' : x.map = 0} = {x \in maps : x.map = 0}
    BY <1>1, <1>2, <1>3
  <2>2. direct \subseteq TopsOf({x \in maps : x.map = 0}) \X VPages
    BY DEF Inv, Second
  <2>3. direct' \subseteq TopsOf({x \in maps' : x.map = 0}) \X VPages
    BY <1>1, <2>1, <2>2
  <2> QED BY <2>3 DEF Second, TopsOf
<1>18. Ledger'
  BY <1>1, <1>6 DEF Inv, Ledger
<1>19. Exact'
  <2> SUFFICES ASSUME NEW x \in maps', NEW v \in VPages PROVE EntryAt(mem, x.top, v) = view'[x.top][v]
    BY <1>1 DEF Exact
  <2>1. CASE x = child
    BY <1>3, <1>9, <1>12, <1>13, <2>1
  <2>2. CASE x # child
    <3>1. x \in maps /\ x.top \in TopsOf(maps)
      BY <1>1, <1>2, <2>2 DEF TopsOf
    <3>2. x.top # ct /\ x.top \in Pages
      BY <1>3, <3>1, PlaceTops
    <3>3. view'[x.top] = view[x.top]
      BY <1>9, <1>13, <3>2
    <3> QED BY <3>1, <3>3 DEF Inv, Exact
  <2> QED BY <2>1, <2>2
<1>20. Early'
  <2>1. phase \notin {"boot", "init"}
    BY <1>1 DEF Inv, Early
  <2> QED BY <1>1, <2>1 DEF Early
<1>21. Trim'
  <2>1. CASE failed
    BY <1>1, <2>1, TrimIs
  <2>2. CASE ~failed
    <3> SUFFICES ASSUME NEW x \in TopsOf(Live), NEW r \in Paths, Len(r) < 4, Descend(mem, x, r) # 0
                 PROVE  \E j \in Indices : EntryAt(mem, x, Append(r, j)) # None
      BY <1>1, <1>6, <2>2 DEF Trim, TrimTops, PrunedBut, Full
    <3>1. \A y \in TopsOf(maps) :
            Descend(mem, y, r) # 0 => \E j \in Indices : EntryAt(mem, y, Append(r, j)) # None
      BY <2>2 DEF Inv, Trim, TrimTops, PrunedBut, Full
    <3>2. CASE x = ct
      <4>1. EntryAt(mem, ct, r) # None
        BY <1>3, <1>7, <3>2, EntryType
      <4>2. Descend(mem, src, r) # 0
        BY <1>3, <1>7, <1>8, <4>1, EntryType
      <4>3. PICK j \in Indices : EntryAt(mem, src, Append(r, j)) # None
        BY <1>3, <3>1, <4>2
      <4>4. Append(r, j) \in Paths
        BY PathIs, NodeAppend
      <4> QED BY <1>8, <3>2, <4>3, <4>4
    <3>3. CASE x # ct
      BY <1>3, <3>1, <3>3
    <3> QED BY <3>2, <3>3
  <2> QED BY <2>1, <2>2 DEF Inv, Shape
<1>22. Making'
  BY <1>4 DEF Making
<1>23. CloneExact'
  <2> SUFFICES ASSUME NEW q \in Paths
               PROVE  LET e == EntryAt(mem, src, q)
                          c == EntryAt(mem, ct, q)
                      IN  /\ (e = None) <=> (c = None)
                          /\ e # None => c.flags = e.flags \ {"NX"}
                          /\ (e # None /\ Len(q) = 4 /\ <<src, q>> \notin direct)
                               => (c.page \in filled <=> e.page \in filled)
    BY <1>1, <1>3, <1>4 DEF CloneExact
  <2> QED BY <1>3, <1>8 DEF CopyOf
<1> QED BY <1>15, <1>16, <1>17, <1>18, <1>19, <1>20, <1>21, <1>22, <1>23 DEF Inv

LEMMA InvCloneFail == ASSUME Inv, CloneFail PROVE Inv'
<1>1. PICK ct, child, w : /\ ct = clone.child.top /\ child = clone.child
                          /\ w = FreeClone(mem, free, ct)
  OBVIOUS
<1>2. /\ clone.state = "making" /\ mem' = w.mem /\ free' = w.free \cup {child.map}
      /\ clone' = NoClone /\ phase' = phase /\ booted' = booted /\ filled' = filled
      /\ maps' = maps /\ cr3' = cr3 /\ held' = held /\ view' = view /\ direct' = direct
      /\ lost' = lost /\ failed' = failed /\ calls' = calls
  BY <1>1 DEF CloneFail
<1>3. /\ Live = maps \cup {child} /\ child \in Live /\ child \notin maps /\ child.map # 0
      /\ child.map \in Pages /\ ct \in TopsOf(Live) /\ TopsOf(maps) = TopsOf(Live) \ {ct}
      /\ (\A y : <<ct, y>> \notin direct) /\ child.top = ct
  BY <1>1, <1>2, MakingIs
<1>4. phase \in {"run", "panic"}
  BY <1>2 DEF Inv, Shape, Early
<1>5. Early' /\ Making' /\ CloneExact' /\ Live' = maps'
  BY <1>2, <1>4, Settled
<1>6. PICK T, R, M, d, n : /\ T = TopsOf(Live) /\ R = Elsewhere /\ M = MapsOf(Live)
                           /\ d = direct /\ n = mem'
  OBVIOUS
<1>7. Live \ {child} = maps
  BY <1>3
<1>8. MapsOf(maps) = M \ {child.map} /\ child.map \in M
  BY <1>3, <1>6, <1>7, WithoutOne
<1>9. /\ TopsOf(Live)' = T \ {ct} /\ TopsOf(maps)' = T \ {ct} /\ TopsOf(maps) = T \ {ct}
      /\ MapsOf(Live)' = M \ {child.map}
  BY <1>2, <1>3, <1>5, <1>6, <1>8 DEF TopsOf, MapsOf
<1>10. /\ R = Image \cup held \cup lost \cup M
       /\ Elsewhere' = Image \cup held \cup lost \cup (M \ {child.map})
       /\ Image \cap (held \cup lost \cup M) = {} /\ held \cap (lost \cup M) = {}
       /\ lost \cap M = {}
  BY <1>2, <1>6, <1>9 DEF Inv, Sorts, Elsewhere
<1>11. Elsewhere' = R \ {child.map} /\ child.map \in R
  BY <1>8, <1>10
<1>12. Sorts'
  BY <1>2, <1>9, <1>10 DEF Sorts
<1>13. Drops(mem, T, d, free, R, ct)
  BY <1>3, <1>6 DEF Inv, Ledger, Drops
<1>14. Books(w.mem, T \ {ct}, d, w.free, R) /\ SameWalk(mem, w.mem, T \ {ct})
  BY <1>1, <1>13, DropTop
<1>15. Ledger'
  <2>1. PICK f2, R2, f1, Y : /\ f2 = free' /\ R2 = R \ {child.map} /\ f1 = w.free
                             /\ Y = T \ {ct}
    OBVIOUS
  <2>2. Books(n, Y, d, f1, R) /\ f1 \cap R = {}
    BY <1>2, <1>6, <1>14, <2>1 DEF Books
  <2>3. f2 \cup R2 = f1 \cup R /\ f2 \cap R2 = {}
    BY <1>2, <1>11, <2>1, <2>2
  <2>4. Books(n, Y, d, f2, R2)
    BY <2>2, <2>3, OtherUse
  <2> QED BY <1>2, <1>6, <1>9, <1>11, <2>1, <2>4 DEF Ledger
<1>16. Apart'
  BY <1>2, <1>3, <1>5 DEF Inv, Apart
<1>17. Second'
  BY <1>2 DEF Inv, Second, TopsOf
<1>18. Exact' /\ Trim'
  BY <1>2, <1>9, <1>14, MapsStay
<1>19. Shape'
  <2>1. clone' \in [state : {"none", "making", "made"}, src : {0} \cup Pages,
                    child : [map : {0} \cup Pages, top : {0} \cup Pages]]
    BY <1>2 DEF NoClone
  <2>2. cr3' \in TopsOf(maps)' \cup {0}
    BY <1>2, <1>9 DEF Inv, Shape
  <2> QED BY <1>2, <2>1, <2>2 DEF Inv, Shape
<1> QED BY <1>5, <1>12, <1>15, <1>16, <1>17, <1>18, <1>19 DEF Inv

LEMMA InvNext == Inv /\ [Next]_vars => Inv'
<1> SUFFICES ASSUME Inv, [Next]_vars PROVE Inv'
  OBVIOUS
<1>1. ASSUME NEW responses \in BOOLEAN, vmm_init(responses) PROVE Inv'
  BY <1>1, InvVmmInit
<1>2. ASSUME NEW pm \in maps, MapBootPage(pm) PROVE Inv'
  BY <1>2, InvBootPage
<1>3. ASSUME NEW pm \in maps, InitReturn(pm) PROVE Inv'
  BY <1>3, InvInitReturn
<1>4. ASSUME NEW pm \in maps, NEW v \in VPages, NEW p \in held, NEW fl \in FlagSets,
             vmm_map_page(pm, v, p, fl)
      PROVE  Inv'
  BY <1>4, InvMapPage
<1>5. ASSUME NEW pm \in maps, NEW v \in VPages, NEW aligned \in BOOLEAN,
             vmm_unmap_page(pm, v, aligned)
      PROVE  Inv'
  BY <1>5, InvUnmap
<1>6. ASSUME NEW pm \in maps, vmm_clone_pagemap(pm) PROVE Inv'
  BY <1>6, InvClone
<1>7. ASSUME NEW pm \in maps, vmm_free_pagemap_clone(pm) PROVE Inv'
  BY <1>7, InvFree
<1>8. ASSUME NEW pm \in maps, vmm_switch_to(pm) PROVE Inv'
  BY <1>8, InvSwitch
<1>9. ASSUME CloneStep PROVE Inv'
  BY <1>9, InvCloneStep
<1>10. ASSUME CloneReturn PROVE Inv'
  BY <1>10, InvCloneReturn
<1>11. ASSUME CloneFail PROVE Inv'
  BY <1>11, InvCloneFail
<1>12. ASSUME InvalidPagemap PROVE Inv'
  BY <1>12, InvInvalid
<1>13. ASSUME AllocatePage PROVE Inv'
  BY <1>13, InvAllocate
<1>14. ASSUME NEW p \in held, FreePage(p) PROVE Inv'
  BY <1>14, InvFreePage
<1>15. ASSUME Panicked PROVE Inv'
  BY <1>15, InvStutter DEF Panicked
<1>16. CASE UNCHANGED vars
  BY <1>16, InvStutter
<1>17. CASE Next
  BY <1>1, <1>2, <1>3, <1>4, <1>5, <1>6, <1>7, <1>8, <1>9, <1>10, <1>11, <1>12, <1>13, <1>14,
     <1>15, <1>17, Zenon DEF Next
<1> QED BY <1>16, <1>17

LEMMA InvHolds == Spec => []Inv
<1>1. Inv /\ [Next]_vars => Inv'
  BY InvNext
<1>2. Init => Inv
  BY InvInit
<1> QED BY <1>1, <1>2, PTL DEF Spec

(* Whatever the clients call and wherever the allocator runs out, every    *)
(* entry that vmm_map_page, vmm_unmap_page and vmm_clone_pagemap write is  *)
(* zero or a physical page with flags, and cr3 stays the pml4 of a pagemap *)
(* that exists.                                                            *)
THEOREM VmmTypeCorrect == Spec => []TypeOK
<1>1. Inv => TypeOK
  BY InvTypes
<1> QED BY <1>1, InvHolds, PTL

(* For any number of pages, indices and clones: no page of physical memory *)
(* has two uses.  Neither the pruning in vmm_unmap_page nor                *)
(* vmm_free_pagemap_clone and clone_fail give back a page that is still a  *)
(* table, mapped, in a client's hands or a pagemap_t.                      *)
THEOREM VmmOnePurpose == Spec => []OnePurpose
<1>1. Inv => OnePurpose
  BY InvOnePurpose
<1> QED BY <1>1, InvHolds, PTL

(* No page is lost by vmm_unmap_page's pruning, vmm_free_pagemap_clone or  *)
(* a vmm_clone_pagemap that runs out of pages at any of its entries, other *)
(* than the pagemap_t's of freed clones.                                   *)
THEOREM VmmConserved == Spec => []Conserved
<1>1. Inv => Conserved
  BY InvConserved
<1> QED BY <1>1, InvHolds, PTL

(* vmm_virt_to_phys, and the CPU, find in every pagemap exactly what       *)
(* vmm_map_page put there and vmm_unmap_page did not take away, whatever   *)
(* happens to the tables of other pages and other pagemaps meanwhile.      *)
THEOREM VmmTranslationExact == Spec => []TranslationExact
<1>1. Inv => TranslationExact
  BY InvTranslation
<1> QED BY <1>1, InvHolds, PTL

(* vmm_unmap_page leaves no empty table at any level, and the clones that  *)
(* vmm_clone_pagemap makes have none, as long as vmm_map_page never fails. *)
THEOREM VmmPruned == Spec => []Pruned
<1>1. Inv => Pruned
  BY InvPruned
<1> QED BY <1>1, InvHolds, PTL

(* The nested loops of vmm_clone_pagemap, with an allocation at each entry *)
(* and pages of the direct map that become the clone's on the way, return  *)
(* a pagemap with the entries and the bytes of the source.                 *)
THEOREM VmmCloneExact == Spec => []CloneExact
<1>1. Inv => CloneExact
  BY DEF Inv
<1> QED BY <1>1, InvHolds, PTL

=============================================================================
