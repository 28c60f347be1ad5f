------------------------------ MODULE VfsProofs -----------------------------
(***************************************************************************)
(* Proofs about the virtual file system, for every heap, every number of   *)
(* processes and calls, and every set of paths and entries.                *)
(***************************************************************************)
EXTENDS Vfs, WellFoundedInduction, FiniteSetTheorems, TLAPS

-----------------------------------------------------------------------------
(* Natural numbers                                                        *)

(* A nonempty set of naturals has a least element.  The library states the *)
(* principle for predicates; this form is for sets, and serves the proofs  *)
(* for induction: consider the least counterexample.                       *)
LEMMA LeastNat ==
  ASSUME NEW T \in SUBSET Nat, T # {}
  PROVE  \E m \in T : \A k \in T : m <= k
<1>1. PICK R : IsWellFoundedOn(R, Nat) /\ R = OpToRel(<, Nat)
  BY NatLessThanWellFounded, Zenon
<1>2. \A x, y \in Nat : y < x => <<y, x>> \in R
  BY <1>1 DEF OpToRel
<1>3. PICK x \in T : \A y \in T : ~(<<y, x>> \in R)
  BY <1>1, WFMin
<1>4. \A y \in T : ~(y < x)
  BY <1>2, <1>3
<1>5. \A y \in T : x <= y
  BY <1>4
<1> QED BY <1>5

-----------------------------------------------------------------------------
(* Linked lists                                                            *)

(* The blocks s are linked in this order, from the root to NULL. *)
IsList(h, root, kind, s) ==
  /\ s \in Seq(Blocks)
  /\ \A i, j \in 1 .. Len(s) : s[i] = s[j] => i = j
  /\ \A i \in 1 .. Len(s) : /\ h[s[i]].kind = kind
                            /\ h[s[i]].next = IF i < Len(s) THEN s[i + 1] ELSE NULL
  /\ root = IF Len(s) = 0 THEN NULL ELSE s[1]

LEMMA BlocksAre == NULL \notin Blocks /\ NULL = 0 /\ Blocks \in SUBSET Nat
  BY VfsAssumption, Zenon DEF NULL

(* Distinct blocks are no more than there are. *)
LEMMA ListLength ==
  ASSUME NEW s \in Seq(Blocks), \A i, j \in 1 .. Len(s) : s[i] = s[j] => i = j
  PROVE  Len(s) \in 0 .. Cardinality(Blocks) /\ Cardinality(Blocks) \in Nat
<1>1. IsFiniteSet(Blocks) /\ Cardinality(Blocks) \in Nat
  BY VfsAssumption, FS_CardinalityType
<1>2. s \in Injection(1 .. Len(s), Blocks)
  BY DEF Injection, IsInjective
<1>3. Cardinality(1 .. Len(s)) <= Cardinality(Blocks)
  BY <1>1, <1>2, FS_Injection
<1>4. Len(s) \in Nat /\ Cardinality(1 .. Len(s)) = Len(s)
  BY FS_Interval
<1> QED BY <1>1, <1>3, <1>4

(* A walk from the root finds the blocks of the list, and only them. *)
LEMMA ChainIs ==
  ASSUME NEW h, NEW root, NEW kind, NEW s, IsList(h, root, kind, s)
  PROVE  Chain(h, root, kind) = s
<1> DEFINE next == [b \in Blocks \cup {NULL} |-> IF Holds(h, b, kind) THEN h[b].next ELSE NULL]
           C == Cardinality(Blocks)
           at == CHOOSE at : at = [n \in 0 .. C |-> IF n = 0 THEN root ELSE next[at[n - 1]]]
           g == [n \in 0 .. C |-> IF n < Len(s) THEN s[n + 1] ELSE NULL]
           len == Cardinality({n \in DOMAIN at : at[n] # NULL})
<1>1. Chain(h, root, kind) = [i \in 1 .. len |-> at[i - 1]]
  BY Zenon DEF Chain
<1>2. s \in Seq(Blocks) /\ Len(s) \in 0 .. C /\ C \in Nat /\ NULL \notin Blocks /\ NULL = 0
  BY ListLength, BlocksAre DEF IsList
<1>3. \A n \in 1 .. C : next[g[n - 1]] = g[n]
  <2>1. SUFFICES ASSUME NEW n \in 1 .. C PROVE next[g[n - 1]] = g[n]
    OBVIOUS
  <2>2. CASE n - 1 < Len(s)
    <3>1. n \in 1 .. Len(s) /\ g[n - 1] = s[n] /\ s[n] \in Blocks
      BY <2>1, <2>2, <1>2
    <3>2. h[s[n]].kind = kind /\ h[s[n]].next = IF n < Len(s) THEN s[n + 1] ELSE NULL
      BY <3>1 DEF IsList
    <3>3. g[n] = IF n < Len(s) THEN s[n + 1] ELSE NULL
      BY <2>1, <1>2
    <3> QED BY <3>1, <3>2, <3>3 DEF Holds
  <2>3. CASE ~(n - 1 < Len(s))
    <3>1. g[n - 1] = NULL /\ g[n] = NULL
      BY <2>1, <2>3, <1>2
    <3> QED BY <3>1, <1>2 DEF Holds
  <2> QED BY <2>2, <2>3
<1>4. g[0] = root
  BY <1>2 DEF IsList
<1>5. g = [n \in 0 .. C |-> IF n = 0 THEN root ELSE next[g[n - 1]]]
  <2>1. \A n \in 0 .. C : g[n] = IF n = 0 THEN root ELSE next[g[n - 1]]
    <3> HIDE DEF next, g
    <3> QED BY <1>2, <1>3, <1>4
  <2> HIDE DEF next
  <2> QED BY <2>1
<1>6. at = [n \in 0 .. C |-> IF n = 0 THEN root ELSE next[at[n - 1]]]
  <2> HIDE DEF next, g
  <2> QED BY <1>5
<1>7. \A n \in 0 .. C : at[n] = g[n]
  <2> DEFINE bad == {n \in 0 .. C : at[n] # g[n]}
  <2>0. /\ \A n \in 0 .. C : at[n] = IF n = 0 THEN root ELSE next[at[n - 1]]
        /\ \A n \in 0 .. C : g[n] = IF n = 0 THEN root ELSE next[g[n - 1]]
    <3> HIDE DEF next, g, at
    <3> QED BY <1>5, <1>6
  <2> HIDE DEF next, g, at
  <2>1. SUFFICES ASSUME bad # {} PROVE FALSE
    OBVIOUS
  <2>2. PICK m \in bad : \A k \in bad : m <= k
    <3>1. bad \in SUBSET Nat
      BY <1>2
    <3> QED BY <2>1, <3>1, LeastNat
  <2>3. m # 0 /\ m \in 0 .. C
    BY <2>0, <1>2, <2>2
  <2>4. m - 1 \notin bad /\ m - 1 \in 0 .. C
    BY <2>2, <2>3, <1>2
  <2>5. at[m - 1] = g[m - 1]
    BY <2>4
  <2>6. at[m] = g[m]
    BY <2>3, <2>5, <2>0
  <2> QED BY <2>2, <2>6
<1>8. DOMAIN at = 0 .. C
  <2> HIDE DEF next, at
  <2> QED BY <1>6
<1>9. {n \in DOMAIN at : at[n] # NULL} = 0 .. (Len(s) - 1)
  <2>1. \A n \in 0 .. C : g[n] # NULL <=> n < Len(s)
    BY <1>2
  <2> HIDE DEF at, g
  <2> QED BY <1>2, <1>7, <1>8, <2>1
<1>10. len = Len(s)
  <2> DEFINE n == Len(s) - 1
  <2>1. n \in Int /\ Len(s) = n + 1 /\ n >= -1
    BY <1>2
  <2> HIDE DEF n, at, g, next
  <2>2. Cardinality(0 .. n) = IF 0 > n THEN 0 ELSE n - 0 + 1
    BY <2>1, FS_Interval
  <2>3. Cardinality(0 .. n) = Len(s)
    BY <2>1, <2>2
  <2>4. {k \in DOMAIN at : at[k] # NULL} = 0 .. n
    BY <1>9 DEF n
  <2> QED BY <2>3, <2>4, Zenon
<1>11. \A i \in 1 .. Len(s) : at[i - 1] = s[i]
  <2>1. \A i \in 1 .. Len(s) : i - 1 \in 0 .. C /\ g[i - 1] = s[i]
    BY <1>2
  <2> HIDE DEF at, g
  <2> QED BY <1>7, <2>1
<1> HIDE DEF len, at
<1> QED BY <1>1, <1>2, <1>10, <1>11

(* A list is the same in a heap that differs elsewhere. *)
LEMMA ListKeep ==
  ASSUME NEW h, NEW g, NEW root, NEW kind, NEW s, IsList(h, root, kind, s),
         \A b \in Blocks : h[b].kind = kind => g[b].kind = kind /\ g[b].next = h[b].next
  PROVE  IsList(g, root, kind, s)
<1>1. \A i \in 1 .. Len(s) : s[i] \in Blocks
  BY DEF IsList
<1> QED BY <1>1 DEF IsList

LEMMA ListAppend ==
  ASSUME NEW h, NEW g, NEW root, NEW kind, NEW s, IsList(h, root, kind, s),
         NEW b \in Blocks, \A i \in 1 .. Len(s) : s[i] # b,
         g[b].kind = kind, g[b].next = NULL,
         \A i \in 1 .. Len(s) : g[s[i]].kind = kind,
         \A i \in 1 .. (Len(s) - 1) : g[s[i]].next = h[s[i]].next,
         s # <<>> => g[s[Len(s)]].next = b
  PROVE  IsList(g, IF s = <<>> THEN b ELSE root, kind, Append(s, b))
<1> DEFINE t == Append(s, b)
<1>1. s \in Seq(Blocks) /\ Len(s) \in Nat
  BY DEF IsList
<1>2. t \in Seq(Blocks) /\ Len(t) = Len(s) + 1
  BY <1>1
<1>3. t[Len(s) + 1] = b /\ \A i \in 1 .. Len(s) : t[i] = s[i]
  BY <1>1
<1> HIDE DEF t
<1>4. \A i, j \in 1 .. Len(t) : t[i] = t[j] => i = j
  <2>1. \A i \in 1 .. Len(t) : i \in 1 .. Len(s) \/ i = Len(s) + 1
    BY <1>1, <1>2
  <2> QED BY <2>1, <1>3 DEF IsList
<1>5. ASSUME NEW i \in 1 .. Len(t)
      PROVE  /\ g[t[i]].kind = kind
             /\ g[t[i]].next = IF i < Len(t) THEN t[i + 1] ELSE NULL
  <2>1. CASE i = Len(s) + 1
    BY <2>1, <1>1, <1>2, <1>3
  <2>2. CASE i = Len(s)
    <3>1. s # <<>> /\ i \in 1 .. Len(s)
      BY <2>2, <1>1, <1>5
    <3> QED BY <3>1, <2>2, <1>1, <1>2, <1>3
  <2>3. CASE i < Len(s)
    <3>1. i \in 1 .. (Len(s) - 1) /\ i \in 1 .. Len(s) /\ i + 1 \in 1 .. Len(s)
      BY <2>3, <1>1, <1>5
    <3>2. h[s[i]].next = s[i + 1]
      BY <3>1, <2>3 DEF IsList
    <3> QED BY <3>1, <3>2, <2>3, <1>1, <1>2, <1>3
  <2> QED BY <2>1, <2>2, <2>3, <1>1, <1>2
<1>6. (IF s = <<>> THEN b ELSE root) = t[1]
  <2>1. CASE s = <<>>
    <3>1. Len(s) = 0
      BY <2>1
    <3> QED BY <3>1, <2>1, <1>3
  <2>2. CASE s # <<>>
    <3>1. Len(s) # 0 /\ 1 \in 1 .. Len(s)
      BY <2>2, <1>1
    <3> QED BY <3>1, <2>2, <1>3 DEF IsList
  <2> QED BY <2>1, <2>2
<1>7. Len(t) # 0
  BY <1>1, <1>2
<1>8. IsList(g, IF s = <<>> THEN b ELSE root, kind, t)
  BY <1>2, <1>4, <1>5, <1>6, <1>7 DEF IsList
<1> QED BY <1>8 DEF t

LEMMA ListPush ==
  ASSUME NEW h, NEW g, NEW root, NEW kind, NEW s, IsList(h, root, kind, s),
         NEW b \in Blocks, \A i \in 1 .. Len(s) : s[i] # b,
         g[b].kind = kind, g[b].next = root,
         \A i \in 1 .. Len(s) : g[s[i]].kind = kind /\ g[s[i]].next = h[s[i]].next
  PROVE  IsList(g, b, kind, <<b>> \o s)
<1> DEFINE t == <<b>> \o s
<1>1. s \in Seq(Blocks) /\ Len(s) \in Nat
  BY DEF IsList
<1>2. t \in Seq(Blocks) /\ Len(t) = Len(s) + 1
  BY <1>1
<1>3. t[1] = b /\ \A i \in 1 .. Len(s) : t[i + 1] = s[i]
  BY <1>1
<1> HIDE DEF t
<1>4. \A i \in 1 .. Len(t) : i = 1 \/ i - 1 \in 1 .. Len(s)
  BY <1>1, <1>2
<1>5. \A i \in 1 .. Len(t) : i # 1 => t[i] = s[i - 1]
  <2>1. \A i \in 1 .. Len(t) : i = (i - 1) + 1
    BY <1>1, <1>2
  <2> QED BY <2>1, <1>3, <1>4
<1>6. \A i, j \in 1 .. Len(t) : t[i] = t[j] => i = j
  <2>1. \A i, j \in 1 .. Len(s) : s[i] = s[j] => i = j
    BY DEF IsList
  <2>2. \A j \in 1 .. Len(t) : j # 1 => t[j] # b
    BY <1>4, <1>5
  <2>3. SUFFICES ASSUME NEW i \in 1 .. Len(t), NEW j \in 1 .. Len(t), t[i] = t[j], i # j
                 PROVE  FALSE
    OBVIOUS
  <2>4. i # 1 /\ j # 1
    BY <2>2, <2>3, <1>3
  <2>5. i - 1 \in 1 .. Len(s) /\ j - 1 \in 1 .. Len(s) /\ s[i - 1] = s[j - 1]
    BY <2>3, <2>4, <1>4, <1>5
  <2>6. i - 1 = j - 1
    BY <2>1, <2>5
  <2> QED BY <2>3, <2>6, <1>1, <1>2
<1>7. ASSUME NEW i \in 1 .. Len(t)
      PROVE  /\ g[t[i]].kind = kind
             /\ g[t[i]].next = IF i < Len(t) THEN t[i + 1] ELSE NULL
  <2>1. CASE i = 1
    <3>1. root = IF Len(s) = 0 THEN NULL ELSE s[1]
      BY DEF IsList
    <3>2. Len(s) # 0 => t[2] = s[1]
      BY <1>1, <1>3
    <3> QED BY <2>1, <3>1, <3>2, <1>1, <1>2, <1>3
  <2>2. CASE i # 1
    <3> DEFINE j == i - 1
    <3>1. j \in 1 .. Len(s) /\ t[i] = s[j] /\ i = j + 1
      BY <2>2, <1>4, <1>5
    <3> HIDE DEF j
    <3>2. h[s[j]].next = IF j < Len(s) THEN s[j + 1] ELSE NULL
      BY <3>1 DEF IsList
    <3>3. j < Len(s) => t[i + 1] = s[j + 1]
      BY <3>1, <1>1, <1>3
    <3> QED BY <3>1, <3>2, <3>3, <1>1, <1>2
  <2> QED BY <2>1, <2>2
<1>8. Len(t) # 0
  BY <1>1, <1>2
<1>9. IsList(g, b, kind, t)
  BY <1>2, <1>3, <1>6, <1>7, <1>8 DEF IsList
<1> QED BY <1>9 DEF t

LEMMA RemoveAtIs ==
  ASSUME NEW S, NEW s \in Seq(S), NEW m \in 1 .. Len(s)
  PROVE  /\ RemoveAt(s, m) \in Seq(S) /\ Len(RemoveAt(s, m)) = Len(s) - 1
         /\ \A i \in 1 .. (Len(s) - 1) :
              RemoveAt(s, m)[i] = IF i < m THEN s[i] ELSE s[i + 1]
<1> DEFINE a == SubSeq(s, 1, m - 1)
           c == SubSeq(s, m + 1, Len(s))
<1>0. Len(s) \in Nat /\ m \in Nat
  OBVIOUS
<1>1. a \in Seq(S) /\ Len(a) = m - 1 /\ \A i \in 1 .. (m - 1) : a[i] = s[i]
  BY <1>0
<1>2. c \in Seq(S) /\ Len(c) = Len(s) - m /\ \A i \in 1 .. (Len(s) - m) : c[i] = s[m + i]
  BY <1>0
<1> HIDE DEF a, c
<1>3. RemoveAt(s, m) = a \o c
  BY DEF RemoveAt, a, c
<1>4. a \o c \in Seq(S) /\ Len(a \o c) = Len(s) - 1
  <2>0. a \in Seq(S) /\ c \in Seq(S)
    BY <1>1, <1>2
  <2>1. a \o c \in Seq(S) /\ Len(a \o c) = Len(a) + Len(c)
    BY <2>0
  <2>2. (m - 1) + (Len(s) - m) = Len(s) - 1
    BY <1>0
  <2> QED BY <2>1, <2>2, <1>1, <1>2
<1>5. ASSUME NEW i \in 1 .. (Len(s) - 1)
      PROVE  (a \o c)[i] = IF i < m THEN s[i] ELSE s[i + 1]
  <2>1. CASE i < m
    <3>1. i \in 1 .. (m - 1) /\ (a \o c)[i] = a[i]
      BY <2>1, <1>0, <1>1, <1>2, <1>5
    <3> QED BY <3>1, <2>1, <1>1
  <2>2. CASE ~(i < m)
    <3>1. i - (m - 1) \in 1 .. (Len(s) - m) /\ (a \o c)[i] = c[i - (m - 1)]
      BY <2>2, <1>0, <1>1, <1>2, <1>5
    <3>2. m + (i - (m - 1)) = i + 1
      BY <1>0, <1>5
    <3> QED BY <3>1, <3>2, <2>2, <1>2
  <2> QED BY <2>1, <2>2
<1> QED BY <1>3, <1>4, <1>5

(* What vfs_remove_mountpoint's two loops do: whoever pointed to the block *)
(* points to its successor.                                                *)
LEMMA ListRemove ==
  ASSUME NEW h, NEW g, NEW root, NEW kind, NEW s, IsList(h, root, kind, s),
         NEW m \in 1 .. Len(s),
         \A i \in 1 .. Len(s) : i # m =>
           /\ g[s[i]].kind = kind
           /\ g[s[i]].next = IF h[s[i]].next = s[m] THEN h[s[m]].next ELSE h[s[i]].next
  PROVE  IsList(g, IF root = s[m] THEN h[s[m]].next ELSE root, kind, RemoveAt(s, m))
<1> DEFINE t == RemoveAt(s, m)
           q == IF root = s[m] THEN h[s[m]].next ELSE root
<1>0. s \in Seq(Blocks) /\ Len(s) \in Nat /\ m \in 1 .. Len(s)
  BY DEF IsList
<1>1. t \in Seq(Blocks) /\ Len(t) = Len(s) - 1
  BY <1>0, RemoveAtIs
<1>2. \A i \in 1 .. (Len(s) - 1) : t[i] = IF i < m THEN s[i] ELSE s[i + 1]
  BY <1>0, RemoveAtIs
<1> HIDE DEF t
<1>3. \A i, j \in 1 .. Len(s) : s[i] = s[j] => i = j
  BY DEF IsList
<1>4. \A i \in 1 .. Len(s) : h[s[i]].next = IF i < Len(s) THEN s[i + 1] ELSE NULL
  BY DEF IsList
<1>5. \A i \in 1 .. Len(s) : s[i] # NULL
  BY <1>0, BlocksAre
<1>6. \A i, j \in 1 .. Len(t) : t[i] = t[j] => i = j
  <2>1. SUFFICES ASSUME NEW i \in 1 .. Len(t), NEW j \in 1 .. Len(t), t[i] = t[j]
                 PROVE  i = j
    OBVIOUS
  <2>2. i \in 1 .. Len(s) /\ i + 1 \in 1 .. Len(s) /\ j \in 1 .. Len(s) /\ j + 1 \in 1 .. Len(s)
    BY <1>0, <1>1
  <2>3. t[i] = (IF i < m THEN s[i] ELSE s[i + 1]) /\ t[j] = (IF j < m THEN s[j] ELSE s[j + 1])
    BY <1>1, <1>2
  <2>4. CASE i < m /\ j < m
    BY <2>1, <2>2, <2>3, <2>4, <1>3
  <2>5. CASE i < m /\ ~(j < m)
    <3>1. i # j + 1
      BY <2>1, <2>5, <1>0, <1>1
    <3>2. s[i] = s[j + 1]
      BY <2>1, <2>3, <2>5
    <3> QED BY <3>1, <3>2, <2>2, <1>3
  <2>6. CASE ~(i < m) /\ j < m
    <3>1. j # i + 1
      BY <2>1, <2>6, <1>0, <1>1
    <3>2. s[i + 1] = s[j]
      BY <2>1, <2>3, <2>6
    <3> QED BY <3>1, <3>2, <2>2, <1>3
  <2>7. CASE ~(i < m) /\ ~(j < m)
    <3>1. i + 1 = j + 1
      BY <2>1, <2>2, <2>3, <2>7, <1>3
    <3> QED BY <3>1, <1>0, <1>1
  <2> QED BY <2>4, <2>5, <2>6, <2>7
<1>7. ASSUME NEW i \in 1 .. Len(t)
      PROVE  /\ g[t[i]].kind = kind
             /\ g[t[i]].next = IF i < Len(t) THEN t[i + 1] ELSE NULL
  <2>0. i < Len(t) => t[i + 1] = IF i + 1 < m THEN s[i + 1] ELSE s[i + 2]
    <3>1. SUFFICES ASSUME i < Len(t) PROVE t[i + 1] = IF i + 1 < m THEN s[i + 1] ELSE s[i + 2]
      OBVIOUS
    <3> DEFINE j == i + 1
    <3>2. j \in 1 .. (Len(s) - 1) /\ j + 1 = i + 2
      BY <3>1, <1>0, <1>1, <1>7
    <3>3. t[j] = IF j < m THEN s[j] ELSE s[j + 1]
      BY <3>2, <1>2
    <3> QED BY <3>2, <3>3
  <2>1. CASE i < m
    <3>1. t[i] = s[i] /\ i \in 1 .. Len(s) /\ i # m /\ i < Len(s)
      BY <2>1, <1>0, <1>1, <1>2, <1>7
    <3>2. g[s[i]].kind = kind /\ h[s[i]].next = s[i + 1] /\ i + 1 \in 1 .. Len(s)
      BY <3>1, <1>4, <1>0
    <3>3. g[s[i]].next = IF s[i + 1] = s[m] THEN h[s[m]].next ELSE s[i + 1]
      BY <3>1, <3>2
    <3>4. CASE i + 1 = m
      <4>1. g[s[i]].next = IF m < Len(s) THEN s[m + 1] ELSE NULL
        BY <3>3, <3>4, <1>4
      <4>2. m + 1 = i + 2 /\ (m < Len(s) <=> i < Len(t))
        BY <3>4, <1>0, <1>1, <1>7
      <4>3. ~(i + 1 < m)
        BY <3>4, <1>0
      <4> QED BY <4>1, <4>2, <4>3, <2>0, <3>1, <3>2
    <3>5. CASE i + 1 # m
      <4>1. s[i + 1] # s[m]
        BY <3>2, <3>5, <1>3
      <4>2. i + 1 < m /\ i < Len(t)
        BY <3>5, <2>1, <1>0, <1>1, <1>7
      <4> QED BY <4>1, <4>2, <3>1, <3>2, <3>3, <2>0
    <3> QED BY <3>4, <3>5
  <2>2. CASE ~(i < m)
    <3> DEFINE j == i + 1
    <3>1. t[i] = s[j] /\ j \in 1 .. Len(s) /\ j # m /\ m < j
      BY <2>2, <1>0, <1>1, <1>2, <1>7
    <3>2. g[s[j]].kind = kind
      BY <3>1
    <3>3. h[s[j]].next # s[m]
      <4>1. h[s[j]].next = IF j < Len(s) THEN s[j + 1] ELSE NULL
        BY <3>1, <1>4
      <4>2. j < Len(s) => s[j + 1] # s[m]
        <5>1. j < Len(s) => j + 1 \in 1 .. Len(s) /\ j + 1 # m
          BY <3>1, <1>0
        <5> QED BY <5>1, <1>3
      <4> QED BY <4>1, <4>2, <1>5
    <3>4. g[s[j]].next = IF j < Len(s) THEN s[j + 1] ELSE NULL
      BY <3>1, <3>3, <1>4
    <3>5. j + 1 = i + 2 /\ (j < Len(s) <=> i < Len(t)) /\ ~(i + 1 < m)
      BY <2>2, <1>0, <1>1, <1>7
    <3> QED BY <3>1, <3>2, <3>4, <3>5, <2>0
  <2> QED BY <2>1, <2>2
<1>8. q = IF Len(t) = 0 THEN NULL ELSE t[1]
  <2>1. root = s[1]
    BY <1>0 DEF IsList
  <2>2. CASE m = 1
    <3>1. q = IF 1 < Len(s) THEN s[2] ELSE NULL
      BY <2>1, <2>2, <1>4, <1>0
    <3>2. Len(t) # 0 => t[1] = s[2]
      BY <2>2, <1>0, <1>1, <1>2
    <3> QED BY <3>1, <3>2, <1>0, <1>1
  <2>3. CASE m # 1
    <3>1. s[1] # s[m]
      BY <2>3, <1>0, <1>3
    <3>2. Len(t) # 0 /\ t[1] = s[1]
      BY <2>3, <1>0, <1>1, <1>2
    <3> QED BY <3>1, <3>2, <2>1
  <2> QED BY <2>2, <2>3
<1> HIDE DEF q
<1>9. IsList(g, q, kind, t)
  BY <1>1, <1>6, <1>7, <1>8 DEF IsList
<1> QED BY <1>9 DEF t, q

-----------------------------------------------------------------------------
(* The heap's nodes                                                        *)

AllEntries == Entries \cup BootEntries

MountNodes == [kind : {"mount"}, entry : AllEntries, next : Blocks \cup {NULL}]

DeviceNodes == [kind : {"device"}, name : DOMAIN DeviceOps, next : Blocks \cup {NULL}]

IsHandle(r) == r = [kind |-> "handle", offset |-> r.offset, file |-> r.file]

IsNode(r) == \/ r \in {Free, Other} \cup MountNodes \cup DeviceNodes
             \/ IsHandle(r)

IsHeap(h) == h = [b \in Blocks |-> h[b]] /\ \A b \in Blocks : IsNode(h[b])

LEMMA KindOf ==
  ASSUME NEW r, IsNode(r)
  PROVE  /\ r.kind \in {"free", "other", "mount", "device", "handle"}
         /\ r.kind = "mount" => r \in MountNodes
         /\ r.kind = "device" => r \in DeviceNodes
         /\ r.kind = "handle" => IsHandle(r)
         /\ r.kind = "free" => r = Free
         /\ r = Free => r.kind = "free"
<1>1. Free.kind = "free" /\ Other.kind = "other"
  BY DEF Free, Other
<1>2. r \in MountNodes => r.kind = "mount"
  BY DEF MountNodes
<1>3. r \in DeviceNodes => r.kind = "device"
  BY DEF DeviceNodes
<1>4. IsHandle(r) => r.kind = "handle"
  BY DEF IsHandle
<1> QED BY <1>1, <1>2, <1>3, <1>4 DEF IsNode

(* kmalloc returns a free block, or NULL when there is none. *)
LEMMA kmallocIs ==
  ASSUME NEW h
  PROVE  \/ kmalloc(h) = NULL /\ FreeBlocks(h) = {}
         \/ kmalloc(h) \in Blocks /\ h[kmalloc(h)] = Free /\ kmalloc(h) # NULL
<1>1. CASE FreeBlocks(h) = {}
  BY <1>1 DEF kmalloc
<1>2. CASE FreeBlocks(h) # {}
  <2>1. FreeBlocks(h) \in SUBSET Nat
    BY BlocksAre DEF FreeBlocks
  <2>2. \E b \in FreeBlocks(h) : \A c \in FreeBlocks(h) : b <= c
    BY <1>2, <2>1, LeastNat
  <2>3. kmalloc(h) \in FreeBlocks(h)
    BY <1>2, <2>2 DEF kmalloc
  <2> QED BY <2>3, BlocksAre DEF FreeBlocks
<1> QED BY <1>1, <1>2

Writes(g, h, b, r) == g = [h EXCEPT ![b] = r]

(* A block is given new contents. *)
LEMMA SetNode ==
  ASSUME NEW h, IsHeap(h), NEW b \in Blocks, NEW r, IsNode(r), NEW g, Writes(g, h, b, r)
  PROVE  /\ IsHeap(g) /\ g[b] = r
         /\ \A c \in Blocks : c # b => g[c] = h[c]
<1>1. DOMAIN h = Blocks
  BY DEF IsHeap
<1>2. g[b] = r /\ \A c \in Blocks : c # b => g[c] = h[c]
  BY <1>1 DEF Writes
<1>3. g = [c \in Blocks |-> g[c]]
  BY <1>1 DEF Writes
<1>4. \A c \in Blocks : IsNode(g[c])
  BY <1>2 DEF IsHeap
<1> QED BY <1>2, <1>3, <1>4 DEF IsHeap

LEMMA NewMount ==
  ASSUME NEW e \in AllEntries
  PROVE  /\ vfs_create_mountpoint(e) \in MountNodes /\ IsNode(vfs_create_mountpoint(e))
         /\ vfs_create_mountpoint(e).kind = "mount"
         /\ vfs_create_mountpoint(e).next = NULL /\ vfs_create_mountpoint(e).entry = e
  BY DEF vfs_create_mountpoint, MountNodes, IsNode

LEMMA NewNext ==
  ASSUME NEW r \in MountNodes, NEW b \in Blocks \cup {NULL}
  PROVE  LET t == [r EXCEPT !.next = b]
         IN  /\ t \in MountNodes /\ t.kind = "mount" /\ t.next = b /\ t.entry = r.entry
             /\ IsNode(t)
<1>1. [r EXCEPT !.next = b] \in MountNodes
  BY DEF MountNodes
<1> QED BY <1>1 DEF MountNodes, IsNode

(* The end of vfs_add_mountpoint's walk. *)
LastOf(s) == IF s = <<>> THEN NULL ELSE s[Len(s)]

LEMMA LinkIs ==
  ASSUME NEW h, IsHeap(h), NEW root, NEW s, IsList(h, root, "mount", s),
         NEW mp \in Blocks, h[mp].kind = "mount", h[mp].next = NULL,
         \A i \in 1 .. Len(s) : s[i] # mp
  PROVE  LET cur == LastOf(s)
             g == vfs_add_mountpoint(h, cur, mp)
         IN  /\ cur = NULL <=> s = <<>>
             /\ IsHeap(g)
             /\ IsList(g, IF cur = NULL THEN mp ELSE root, "mount", Append(s, mp))
             /\ \A b \in Blocks : g[b].kind = h[b].kind
             /\ \A b \in Blocks : h[b].kind = "mount" => g[b].entry = h[b].entry
             /\ \A b \in Blocks : b # cur => g[b] = h[b]
<1> DEFINE cur == LastOf(s)
           g == vfs_add_mountpoint(h, cur, mp)
<1>0. s \in Seq(Blocks) /\ Len(s) \in Nat
  BY DEF IsList
<1>1. CASE s = <<>>
  <2>1. cur = NULL /\ g = h
    BY <1>1 DEF LastOf, vfs_add_mountpoint
  <2>2. Len(s) = 0
    BY <1>1
  <2>3. IsList(g, IF s = <<>> THEN mp ELSE root, "mount", Append(s, mp))
    <3>1. \A i \in 1 .. Len(s) : FALSE
      BY <2>2
    <3>2. \A i \in 1 .. (Len(s) - 1) : FALSE
      BY <2>2
    <3>3. g[mp].kind = "mount" /\ g[mp].next = NULL
      BY <2>1
    <3> HIDE DEF g
    <3> QED BY <3>1, <3>2, <3>3, <1>1, ListAppend
  <2> QED BY <2>1, <2>3, <1>1
<1>2. CASE s # <<>>
  <2>1. Len(s) \in 1 .. Len(s) /\ cur = s[Len(s)] /\ cur \in Blocks /\ cur # NULL
    BY <1>0, <1>2, BlocksAre DEF LastOf
  <2>2. h[cur].kind = "mount" /\ h[cur] \in MountNodes
    BY <2>1, KindOf DEF IsList, IsHeap
  <2> DEFINE t == [h[cur] EXCEPT !.next = mp]
  <2>3. t.kind = "mount" /\ t.next = mp /\ t.entry = h[cur].entry /\ IsNode(t)
    BY <2>2, NewNext
  <2>4. g = [h EXCEPT ![cur] = t]
    BY <2>1 DEF vfs_add_mountpoint
  <2> HIDE DEF cur, g, t
  <2>5. IsHeap(g) /\ g[cur] = t /\ \A c \in Blocks : c # cur => g[c] = h[c]
    <3>1. Writes(g, h, cur, t)
      BY <2>4 DEF Writes
    <3> QED BY <2>1, <2>3, <3>1, SetNode
  <2>6. mp # cur
    BY <2>1
  <2>7. \A i \in 1 .. Len(s) : s[i] \in Blocks /\ h[s[i]].kind = "mount"
    BY <1>0 DEF IsList
  <2>8. \A i \in 1 .. Len(s) : g[s[i]].kind = "mount"
    BY <2>3, <2>5, <2>7
  <2>9. \A i \in 1 .. (Len(s) - 1) : g[s[i]].next = h[s[i]].next
    <3>1. \A i \in 1 .. (Len(s) - 1) : i \in 1 .. Len(s) /\ i # Len(s)
      BY <1>0
    <3>2. \A i \in 1 .. (Len(s) - 1) : s[i] # cur
      BY <3>1, <2>1 DEF IsList
    <3> QED BY <3>1, <3>2, <2>5, <2>7
  <2>10. g[mp].kind = "mount" /\ g[mp].next = NULL /\ g[s[Len(s)]].next = mp
    BY <2>1, <2>3, <2>5, <2>6
  <2>11. IsList(g, IF s = <<>> THEN mp ELSE root, "mount", Append(s, mp))
    BY <2>8, <2>9, <2>10, ListAppend
  <2>12. IsList(g, IF cur = NULL THEN mp ELSE root, "mount", Append(s, mp))
    BY <2>11, <2>1, <1>2
  <2>13. /\ \A b \in Blocks : g[b].kind = h[b].kind
         /\ \A b \in Blocks : h[b].kind = "mount" => g[b].entry = h[b].entry
    BY <2>2, <2>3, <2>5
  <2> QED BY <2>1, <2>5, <2>12, <2>13, <1>2 DEF cur, g
<1> QED BY <1>1, <1>2

LEMMA UnlinkIs ==
  ASSUME NEW h, IsHeap(h), NEW root, NEW s, IsList(h, root, "mount", s), NEW m \in 1 .. Len(s)
  PROVE  LET mp == s[m]
             g == vfs_remove_mountpoint(h, mp)
         IN  /\ mp \in Blocks /\ IsHeap(g)
             /\ IsList(g, IF root = mp THEN h[mp].next ELSE root, "mount", RemoveAt(s, m))
             /\ g[mp] = Free
             /\ \A b \in Blocks \ {mp} : g[b].kind = h[b].kind
             /\ \A b \in Blocks \ {mp} : h[b].kind = "mount" => g[b].entry = h[b].entry
             /\ \A b \in Blocks \ {mp} : h[b].kind # "mount" => g[b] = h[b]
             /\ \A b \in Blocks \ {mp} : h[b].kind = "mount" /\ h[b].next = NULL =>
                  g[b].next = NULL
<1> DEFINE mp == s[m]
           u == Unlinked(h, mp)
           g == vfs_remove_mountpoint(h, mp)
<1>1. s \in Seq(Blocks) /\ Len(s) \in Nat /\ mp \in Blocks /\ mp # NULL
  BY BlocksAre DEF IsList
<1>2. h[mp].kind = "mount" /\ h[mp] \in MountNodes /\ h[mp].next \in Blocks \cup {NULL}
  <2>1. h[mp].kind = "mount" /\ IsNode(h[mp])
    BY <1>1 DEF IsList, IsHeap
  <2>2. h[mp] \in MountNodes
    BY <2>1, KindOf
  <2> QED BY <2>1, <2>2 DEF MountNodes
<1>3. ASSUME NEW b \in Blocks
      PROVE  /\ IsNode(u[b]) /\ u[b].kind = h[b].kind
             /\ h[b].kind # "mount" => u[b] = h[b]
             /\ h[b].kind = "mount" =>
                  /\ u[b].next = IF h[b].next = mp THEN h[mp].next ELSE h[b].next
                  /\ u[b].entry = h[b].entry
  <2>1. u[b] = IF Holds(h, b, "mount") /\ h[b].next = mp
               THEN [h[b] EXCEPT !.next = h[mp].next] ELSE h[b]
    BY <1>3 DEF Unlinked
  <2>2. IsNode(h[b])
    BY <1>3 DEF IsHeap
  <2>3. CASE h[b].kind = "mount" /\ h[b].next = mp
    <3>1. h[b] \in MountNodes
      BY <2>2, <2>3, KindOf
    <3>2. u[b] = [h[b] EXCEPT !.next = h[mp].next]
      BY <2>1, <2>3 DEF Holds
    <3>3. u[b].kind = "mount" /\ u[b].next = h[mp].next /\ u[b].entry = h[b].entry /\ IsNode(u[b])
      BY <3>1, <3>2, <1>2, NewNext
    <3> QED BY <3>3, <2>3
  <2>4. CASE ~(h[b].kind = "mount" /\ h[b].next = mp)
    <3>1. u[b] = h[b]
      BY <2>1, <2>4 DEF Holds
    <3> QED BY <3>1, <2>2, <2>4
  <2> QED BY <2>3, <2>4
<1>4. IsHeap(u)
  <2>1. u = [b \in Blocks |-> u[b]]
    BY DEF Unlinked
  <2> QED BY <2>1, <1>3 DEF IsHeap
<1> HIDE DEF u
<1>5. g = [u EXCEPT ![mp] = Free]
  BY DEF vfs_remove_mountpoint, u
<1>6. IsNode(Free)
  BY DEF IsNode
<1> HIDE DEF g
<1>7. IsHeap(g) /\ g[mp] = Free /\ \A b \in Blocks : b # mp => g[b] = u[b]
  <2>1. Writes(g, u, mp, Free)
    BY <1>5 DEF Writes
  <2> QED BY <1>1, <1>4, <1>6, <2>1, SetNode
<1>8. \A i \in 1 .. Len(s) : i # m =>
        /\ g[s[i]].kind = "mount"
        /\ g[s[i]].next = IF h[s[i]].next = mp THEN h[mp].next ELSE h[s[i]].next
  <2>1. SUFFICES ASSUME NEW i \in 1 .. Len(s), i # m
                 PROVE  /\ g[s[i]].kind = "mount"
                        /\ g[s[i]].next = IF h[s[i]].next = mp THEN h[mp].next ELSE h[s[i]].next
    OBVIOUS
  <2>2. s[i] \in Blocks /\ s[i] # mp /\ h[s[i]].kind = "mount"
    BY <2>1, <1>1 DEF IsList
  <2>3. g[s[i]] = u[s[i]]
    BY <2>2, <1>7
  <2> QED BY <2>2, <2>3, <1>3
<1>9. IsList(g, IF root = mp THEN h[mp].next ELSE root, "mount", RemoveAt(s, m))
  BY <1>8, ListRemove
<1>10. ASSUME NEW b \in Blocks \ {mp}
       PROVE  /\ g[b].kind = h[b].kind
              /\ h[b].kind = "mount" => g[b].entry = h[b].entry
              /\ h[b].kind # "mount" => g[b] = h[b]
              /\ h[b].kind = "mount" /\ h[b].next = NULL => g[b].next = NULL
  <2>1. g[b] = u[b]
    BY <1>7, <1>10
  <2> QED BY <2>1, <1>1, <1>3, <1>10
<1> QED BY <1>1, <1>7, <1>9, <1>10 DEF g

-----------------------------------------------------------------------------
(* The inductive invariant of ownership                                    *)

IsAccess(c) ==
  /\ c = [op |-> c.op, pc |-> c.pc, cur |-> c.cur, path |-> c.path,
          size |-> c.size, node |-> c.node, before |-> c.before]
  /\ c.op \in {"read", "write", "find"} /\ c.pc \in {"walk", "search", "read", "wait"}
  /\ c.pc # "walk" => c.op = "read"
  /\ c.path \in Paths

IsClose(c) ==
  /\ c = [op |-> "read", pc |-> "close", path |-> c.path, size |-> c.size,
          node |-> c.node, before |-> c.before, res |-> c.res]
  /\ c.path \in Paths

IsMount(c) ==
  /\ c = [op |-> "mount", pc |-> c.pc, cur |-> c.cur, node |-> c.node]
  /\ c.pc \in {"walk", "link"}

IsUmount(c) ==
  /\ c = [op |-> "umount", pc |-> c.pc, cur |-> c.cur, device |-> c.device, target |-> c.target]
  /\ c.pc \in {"walk", "remove"}

IsCall(c) == c = Idle \/ IsAccess(c) \/ IsClose(c) \/ IsMount(c) \/ IsUmount(c)

CallInv == call = [p \in Procs |-> call[p]] /\ \A p \in Procs : IsCall(call[p])

ScalarInv ==
  /\ phase \in {"module", "devfs", "run", "panic", "wild"}
  /\ lost \subseteq Blocks /\ calls \in 0 .. MaxCalls

ListInv == /\ IsHeap(heap)
           /\ IsList(heap, mountpoints_root, "mount", MountList)
           /\ IsList(heap, devfs_root, "device", DeviceList)

Mounted(b) == \E i \in 1 .. Len(MountList) : MountList[i] = b
Registered(b) == \E i \in 1 .. Len(DeviceList) : DeviceList[i] = b

(* p has a block to link, or to close. *)
Pends(p) == call[p].pc # "done" /\ call[p].op = "mount"
Reads(p) == call[p].pc \in {"read", "close"}

(* What a call holds is of its kind and in no list. *)
HoldInv ==
  /\ \A p \in Procs : Pends(p) =>
       /\ Holds(heap, call[p].node, "mount") /\ heap[call[p].node].next = NULL
       /\ ~Mounted(call[p].node) /\ call[p].node \notin lost
  /\ \A p \in Procs : Reads(p) => Holds(heap, call[p].node, "handle")
  /\ \A p, q \in Procs : Reads(p) /\ Reads(q) /\ p # q => call[p].node # call[q].node
  /\ \A b \in lost : Holds(heap, b, "mount") /\ ~Mounted(b)

(* And nothing else is allocated. *)
LeakInv ==
  \A b \in Blocks :
    /\ heap[b].kind = "mount" =>
         Mounted(b) \/ b \in lost \/ \E p \in Procs : Pends(p) /\ call[p].node = b
    /\ heap[b].kind = "handle" => \E p \in Procs : Reads(p) /\ call[p].node = b
    /\ heap[b].kind = "device" => Registered(b)

(* A call's place in the list: a mount's walk ends at the last entry, and  *)
(* only an empty list makes it link behind nothing.                        *)
PlaceOK(c) ==
  /\ c.pc \in {"walk", "search", "link", "remove"} => Mounted(c.cur) \/ c.cur = NULL
  /\ c.op = "mount" /\ c.cur = NULL => MountList = <<>>
  /\ c.pc = "link" /\ c.cur # NULL => heap[c.cur].next = NULL
  /\ c.pc = "remove" => c.cur # NULL

PlaceInv == \A p \in Procs : InCall(p) => PlaceOK(call[p])

(* Who changes the list is alone in that, and who unmounts is alone. *)
AloneInv ==
  \A p, q \in Procs : InCall(p) /\ InCall(q) /\ p # q =>
    call[p].op # "umount" /\ ~(call[p].op = "mount" /\ call[q].op = "mount")

(* Before the first process nothing is called, and the lists are filled in *)
(* their order.                                                            *)
BootInv ==
  phase \in {"module", "devfs"} =>
    /\ \A p \in Procs : call[p] = Idle
    /\ lost = {} /\ devfs_root = NULL
    /\ phase = "module" => mountpoints_root = NULL

Inv == /\ ScalarInv /\ CallInv /\ ListInv /\ HoldInv
       /\ LeakInv /\ PlaceInv /\ AloneInv /\ BootInv

-----------------------------------------------------------------------------
(* What every step needs                                                   *)

LEMMA ShapeOf ==
  ASSUME NEW c, IsCall(c)
  PROVE  /\ c.pc = "done" <=> c = Idle
         /\ c.pc = "link" => IsMount(c)
         /\ c.pc = "remove" => IsUmount(c)
         /\ c.pc = "close" => IsClose(c)
         /\ c.pc \in {"search", "read", "wait"} => IsAccess(c) /\ c.op = "read"
         /\ c.pc = "walk" => IsAccess(c) \/ IsMount(c) \/ IsUmount(c)
         /\ c.op = "mount" => IsMount(c)
         /\ c.op = "umount" => IsUmount(c)
         /\ c.op \in {"read", "write", "find"} => IsAccess(c) \/ IsClose(c)
         /\ c.op \in {"write", "find"} => c.pc = "walk"
         /\ c.op \in {"read", "write", "find", "mount", "umount"} => c.pc # "done"
         /\ c.op \in {"none", "read", "write", "find", "mount", "umount"}
<1>1. Idle.op = "none" /\ Idle.pc = "done"
  BY DEF Idle
<1>2. IsAccess(c) => /\ c.op \in {"read", "write", "find"}
                     /\ c.pc \in {"walk", "search", "read", "wait"}
                     /\ (c.pc # "walk" => c.op = "read")
  BY DEF IsAccess
<1>3. IsClose(c) => c.op = "read" /\ c.pc = "close"
  BY DEF IsClose
<1>4. IsMount(c) => c.op = "mount" /\ c.pc \in {"walk", "link"}
  BY DEF IsMount
<1>5. IsUmount(c) => c.op = "umount" /\ c.pc \in {"walk", "remove"}
  BY DEF IsUmount
<1> QED BY <1>1, <1>2, <1>3, <1>4, <1>5 DEF IsCall

LEMMA CallAt ==
  ASSUME CallInv, NEW p \in Procs, NEW c, call' = [call EXCEPT ![p] = c]
  PROVE  /\ call'[p] = c /\ \A q \in Procs : q # p => call'[q] = call[q]
         /\ call' = [q \in Procs |-> call'[q]]
<1>1. DOMAIN call = Procs
  BY DEF CallInv
<1> QED BY <1>1

LEMMA ListedAre ==
  ASSUME ListInv
  PROVE  /\ \A b : Mounted(b) => Holds(heap, b, "mount") /\ b # NULL
         /\ \A b : Registered(b) => Holds(heap, b, "device")
         /\ \A i \in 1 .. Len(MountList) : Mounted(MountList[i])
         /\ mountpoints_root = NULL <=> MountList = <<>>
         /\ mountpoints_root # NULL => Mounted(mountpoints_root)
         /\ MountList \in Seq(Blocks) /\ DeviceList \in Seq(Blocks)
<1>1. MountList \in Seq(Blocks) /\ DeviceList \in Seq(Blocks)
  BY DEF ListInv, IsList
<1>2. \A b : Mounted(b) => Holds(heap, b, "mount") /\ b # NULL
  BY <1>1, BlocksAre DEF ListInv, IsList, Mounted, Holds
<1>3. \A b : Registered(b) => Holds(heap, b, "device")
  BY <1>1 DEF ListInv, IsList, Registered, Holds
<1>4. \A i \in 1 .. Len(MountList) : Mounted(MountList[i])
  BY DEF Mounted
<1>5. mountpoints_root = IF Len(MountList) = 0 THEN NULL ELSE MountList[1]
  BY DEF ListInv, IsList
<1>6. Len(MountList) = 0 <=> MountList = <<>>
  BY <1>1
<1>7. Len(MountList) # 0 => 1 \in 1 .. Len(MountList)
  BY <1>1
<1> QED BY <1>1, <1>2, <1>3, <1>4, <1>5, <1>6, <1>7

(* The call of one process goes on; the lists and what calls hold stay. *)
LEMMA QuietStep ==
  ASSUME Inv, phase = "run", phase' = "run", calls' \in 0 .. MaxCalls,
         heap' = heap, UNCHANGED listVars,
         NEW p \in Procs, NEW c, call' = [call EXCEPT ![p] = c], IsCall(c),
         c.op = "mount" <=> Pends(p), Pends(p) => c.node = call[p].node,
         c.pc \in {"read", "close"} <=> Reads(p), Reads(p) => c.node = call[p].node,
         c.pc # "done" => PlaceOK(c),
         \A q \in Procs : q # p /\ InCall(q) /\ c.pc # "done" =>
           /\ call[q].op # "umount" /\ c.op # "umount"
           /\ ~(c.op = "mount" /\ call[q].op = "mount")
  PROVE  Inv'
<1> USE DEF listVars
<1>1. call'[p] = c /\ (\A q \in Procs : q # p => call'[q] = call[q]) /\ CallInv'
  BY CallAt DEF Inv, CallInv
<1>2. MountList' = MountList /\ DeviceList' = DeviceList
  BY DEF MountList, DeviceList
<1>3. \A q \in Procs : Pends(q)' <=> Pends(q)
  <2>1. c.op = "mount" => c.pc # "done"
    BY ShapeOf
  <2> QED BY <1>1, <2>1 DEF Pends
<1>4. \A q \in Procs : Reads(q)' <=> Reads(q)
  BY <1>1 DEF Reads
<1>5. \A q \in Procs : Pends(q) \/ Reads(q) => call'[q].node = call[q].node
  BY <1>1
<1>6. ScalarInv' /\ ListInv'
  BY <1>2 DEF Inv, ScalarInv, ListInv
<1>7. \A b : (Mounted(b)' <=> Mounted(b)) /\ (Registered(b)' <=> Registered(b))
  BY <1>2 DEF Mounted, Registered
<1>8. HoldInv'
  <2>1. HoldInv
    BY DEF Inv
  <2> QED BY <2>1, <1>3, <1>4, <1>5, <1>7 DEF HoldInv
<1>9. LeakInv'
  <2>1. LeakInv
    BY DEF Inv
  <2> QED BY <2>1, <1>3, <1>4, <1>5, <1>7 DEF LeakInv
<1>10. PlaceInv'
  <2>1. \A d : PlaceOK(d)' <=> PlaceOK(d)
    BY <1>2, <1>7 DEF PlaceOK
  <2>2. PlaceInv
    BY DEF Inv
  <2> QED BY <2>1, <2>2, <1>1 DEF PlaceInv, InCall
<1>11. AloneInv'
  <2>1. AloneInv
    BY DEF Inv
  <2> QED BY <2>1, <1>1 DEF AloneInv, InCall
<1>12. BootInv'
  BY DEF BootInv
<1> QED BY <1>1, <1>6, <1>8, <1>9, <1>10, <1>11, <1>12 DEF Inv

(* A pointer that is not one is used: nothing more is known to happen. *)
LEMMA WildStep ==
  ASSUME Inv, phase' = "wild", calls' = calls, UNCHANGED <<heap, listVars, call>>
  PROVE  Inv'
<1> USE DEF listVars
<1>1. MountList' = MountList /\ DeviceList' = DeviceList
  BY DEF MountList, DeviceList
<1>2. \A b : (Mounted(b)' <=> Mounted(b)) /\ (Registered(b)' <=> Registered(b))
  BY <1>1 DEF Mounted, Registered
<1>3. ScalarInv' /\ CallInv' /\ ListInv'
  BY <1>1 DEF Inv, ScalarInv, CallInv, ListInv
<1>4. HoldInv' /\ LeakInv'
  BY <1>2 DEF Inv, HoldInv, LeakInv, Pends, Reads
<1>5. PlaceInv' /\ AloneInv' /\ BootInv'
  BY <1>1, <1>2 DEF Inv, PlaceInv, PlaceOK, AloneInv, BootInv, InCall
<1> QED BY <1>3, <1>4, <1>5 DEF Inv

(* The call of p ends. *)
LEMMA ReturnStep ==
  ASSUME Inv, phase = "run", phase' = "run", calls' \in 0 .. MaxCalls,
         heap' = heap, UNCHANGED listVars,
         NEW p \in Procs, ~Pends(p), ~Reads(p), call' = [call EXCEPT ![p] = Idle]
  PROVE  Inv'
<1>1. IsCall(Idle) /\ Idle.op = "none" /\ Idle.pc = "done"
  BY DEF IsCall, Idle
<1> HIDE DEF Idle
<1> QED BY <1>1, QuietStep

LEMMA NoCallHolds ==
  ASSUME NEW p, ~InCall(p)
  PROVE  ~Pends(p) /\ ~Reads(p)
  BY DEF InCall, Pends, Reads

LEMMA AloneFrom ==
  ASSUME NEW p, NEW op, MayStart(p, op), NEW q \in Procs, InCall(q)
  PROVE  call[q].op # "umount" /\ op # "umount" /\ ~(op = "mount" /\ call[q].op = "mount")
  BY DEF MayStart

LEMMA CallsCount ==
  ASSUME Inv, NEW p, NEW op, MayStart(p, op), calls' = calls + 1
  PROVE  calls' \in 0 .. MaxCalls
  BY VfsAssumption DEF Inv, ScalarInv, MayStart

LEMMA StartAccessStep ==
  ASSUME Inv, NEW p \in Procs, NEW op \in {"read", "write", "find"}, NEW path \in Paths,
         NEW size, StartAccess(p, op, path, size)
  PROVE  Inv'
<1>1. MayStart(p, op) /\ phase = "run" /\ phase' = "run" /\ heap' = heap /\ UNCHANGED listVars
  BY DEF StartAccess, MayStart
<1>2. calls' \in 0 .. MaxCalls
  BY <1>1, CallsCount DEF StartAccess
<1>3. ~InCall(p) /\ ~Pends(p) /\ ~Reads(p)
  BY <1>1, NoCallHolds DEF MayStart
<1>4. CASE op = "write" /\ path = NullPath
  <2>1. call' = [call EXCEPT ![p] = Idle]
    BY <1>4 DEF StartAccess, Returns
  <2> QED BY <1>1, <1>2, <1>3, <2>1, ReturnStep
<1>5. CASE ~(op = "write" /\ path = NullPath)
  <2> DEFINE c == [op |-> op, pc |-> "walk", cur |-> mountpoints_root, path |-> path,
                   size |-> size, node |-> NULL, before |-> Table]
  <2>1. call' = [call EXCEPT ![p] = c]
    BY <1>5 DEF StartAccess, Goes
  <2>2. IsCall(c) /\ c.op # "mount" /\ c.pc = "walk" /\ c.op = op
    BY DEF IsCall, IsAccess
  <2>3. PlaceOK(c)
    <3>1. ListInv
      BY DEF Inv
    <3>2. c.cur = mountpoints_root
      OBVIOUS
    <3> HIDE DEF c
    <3> QED BY <3>1, <3>2, <2>2, ListedAre DEF PlaceOK
  <2> HIDE DEF c
  <2>4. \A q \in Procs : q # p /\ InCall(q) /\ c.pc # "done" =>
          /\ call[q].op # "umount" /\ c.op # "umount"
          /\ ~(c.op = "mount" /\ call[q].op = "mount")
    BY <1>1, <2>2, AloneFrom
  <2> QED BY <1>1, <1>2, <1>3, <2>1, <2>2, <2>3, <2>4, QuietStep
<1> QED BY <1>4, <1>5

LEMMA StartUnmountStep ==
  ASSUME Inv, NEW p \in Procs, NEW device, NEW target, StartUnmount(p, device, target)
  PROVE  Inv'
<1>1. MayStart(p, "umount") /\ phase = "run" /\ phase' = "run" /\ heap' = heap /\ UNCHANGED listVars
  BY DEF StartUnmount, MayStart
<1>2. calls' \in 0 .. MaxCalls
  BY <1>1, CallsCount DEF StartUnmount
<1>3. ~InCall(p) /\ ~Pends(p) /\ ~Reads(p)
  BY <1>1, NoCallHolds DEF MayStart
<1> DEFINE c == [op |-> "umount", pc |-> "walk", cur |-> mountpoints_root,
                 device |-> device, target |-> target]
<1>4. call' = [call EXCEPT ![p] = c]
  BY DEF StartUnmount, Goes
<1>5. IsCall(c) /\ c.op = "umount" /\ c.pc = "walk" /\ c.cur = mountpoints_root
  BY DEF IsCall, IsUmount
<1> HIDE DEF c
<1>6. PlaceOK(c)
  <2>1. ListInv
    BY DEF Inv
  <2> QED BY <2>1, <1>5, ListedAre DEF PlaceOK
<1>7. \A q \in Procs : ~InCall(q)
  BY <1>1 DEF MayStart
<1> QED BY <1>1, <1>2, <1>3, <1>4, <1>5, <1>6, <1>7, QuietStep

(* The next entry is in the list too, unless there is none. *)
LEMMA NextIs ==
  ASSUME ListInv, NEW b, Mounted(b)
  PROVE  heap[b].next = NULL \/ Mounted(heap[b].next)
<1>1. PICK i \in 1 .. Len(MountList) : MountList[i] = b
  BY DEF Mounted
<1>2. heap[b].next = IF i < Len(MountList) THEN MountList[i + 1] ELSE NULL
  BY <1>1 DEF ListInv, IsList
<1>3. Len(MountList) \in Nat
  BY DEF ListInv, IsList
<1>4. i < Len(MountList) => i + 1 \in 1 .. Len(MountList)
  BY <1>3
<1> QED BY <1>2, <1>4 DEF Mounted

(* A call under way moves on without a change of what it holds. *)
LEMMA MoveStep ==
  ASSUME Inv, phase = "run", phase' = "run", calls' = calls,
         heap' = heap, UNCHANGED listVars,
         NEW p \in Procs, InCall(p), NEW c, call' = [call EXCEPT ![p] = c],
         IsCall(c), c.op = call[p].op, PlaceOK(c),
         call[p].op = "mount" => c.node = call[p].node,
         ~Reads(p), c.pc \notin {"done", "read", "close"}
  PROVE  Inv'
<1>1. \A q \in Procs : q # p /\ InCall(q) =>
        /\ call[q].op # "umount" /\ call[p].op # "umount"
        /\ ~(call[p].op = "mount" /\ call[q].op = "mount")
  BY DEF Inv, AloneInv
<1>2. calls' \in 0 .. MaxCalls
  BY DEF Inv, ScalarInv
<1>3. Pends(p) <=> call[p].op = "mount"
  BY DEF Pends, InCall
<1> QED BY <1>1, <1>2, <1>3, QuietStep

LEMMA WithCur ==
  ASSUME NEW c, IsCall(c), NEW x, c.pc \in {"walk", "search"}
  PROVE  LET d == [c EXCEPT !.cur = x]
         IN  /\ IsCall(d) /\ d.op = c.op /\ d.pc = c.pc /\ d.cur = x
             /\ c.op = "mount" => d.node = c.node
             /\ c.op \in {"read", "write", "find"} =>
                  d.path = c.path /\ d.before = c.before
             /\ c.op = "umount" => d.device = c.device /\ d.target = c.target
<1> DEFINE d == [c EXCEPT !.cur = x]
<1>1. CASE IsAccess(c)
  <2>1. c = [op |-> c.op, pc |-> c.pc, cur |-> c.cur, path |-> c.path,
             size |-> c.size, node |-> c.node, before |-> c.before]
    BY <1>1 DEF IsAccess
  <2>2. d = [op |-> c.op, pc |-> c.pc, cur |-> x, path |-> c.path,
             size |-> c.size, node |-> c.node, before |-> c.before]
    BY <2>1
  <2> HIDE DEF d
  <2>3. IsAccess(d) /\ d.op = c.op /\ d.pc = c.pc /\ d.cur = x /\ d.path = c.path /\ d.before = c.before
    BY <2>2, <1>1 DEF IsAccess
  <2>4. c.op # "mount" /\ c.op # "umount"
    BY <1>1 DEF IsAccess
  <2> QED BY <2>3, <2>4 DEF IsCall, d
<1>2. CASE IsMount(c)
  <2>1. d = [op |-> "mount", pc |-> c.pc, cur |-> x, node |-> c.node]
    BY <1>2 DEF IsMount
  <2> HIDE DEF d
  <2>2. IsMount(d) /\ d.op = c.op /\ d.pc = c.pc /\ d.cur = x /\ d.node = c.node /\ c.op = "mount"
    BY <2>1, <1>2 DEF IsMount
  <2> QED BY <2>2 DEF IsCall, d
<1>3. CASE IsUmount(c)
  <2>1. d = [op |-> "umount", pc |-> c.pc, cur |-> x, device |-> c.device, target |-> c.target]
    BY <1>3 DEF IsUmount
  <2> HIDE DEF d
  <2>2. /\ IsUmount(d) /\ d.op = c.op /\ d.pc = c.pc /\ d.cur = x /\ c.op = "umount"
        /\ d.device = c.device /\ d.target = c.target
    BY <2>1, <1>3 DEF IsUmount
  <2> QED BY <2>2 DEF IsCall, d
<1> QED BY <1>1, <1>2, <1>3, ShapeOf

Moved(d, c, pc, cur, node) ==
  d = [op |-> "read", pc |-> pc, cur |-> cur, path |-> c.path,
       size |-> c.size, node |-> node, before |-> c.before]

LEMMA AccessPc ==
  ASSUME NEW c, IsAccess(c), c.op = "read", NEW pc \in {"search", "read", "wait"},
         NEW cur, NEW node, NEW d, Moved(d, c, pc, cur, node)
  PROVE  /\ IsAccess(d) /\ d.op = "read" /\ d.pc = pc /\ d.cur = cur /\ d.node = node
         /\ d.path = c.path /\ d.before = c.before
<1>1. c.path \in Paths
  BY DEF IsAccess
<1> QED BY <1>1 DEF IsAccess, Moved

LEMMA ListPc ==
  ASSUME NEW c
  PROVE  /\ IsMount(c) => LET d == [c EXCEPT !.pc = "link"]
                          IN  /\ IsMount(d) /\ d.op = "mount" /\ d.pc = "link"
                              /\ d.cur = c.cur /\ d.node = c.node
         /\ IsUmount(c) => LET d == [c EXCEPT !.pc = "remove"]
                           IN  /\ IsUmount(d) /\ d.op = "umount" /\ d.pc = "remove"
                               /\ d.cur = c.cur /\ d.device = c.device /\ d.target = c.target
<1>1. IsMount(c) => [c EXCEPT !.pc = "link"] =
                      [op |-> "mount", pc |-> "link", cur |-> c.cur, node |-> c.node]
  BY DEF IsMount
<1>2. IsUmount(c) => [c EXCEPT !.pc = "remove"] =
                       [op |-> "umount", pc |-> "remove", cur |-> c.cur,
                        device |-> c.device, target |-> c.target]
  BY DEF IsUmount
<1> QED BY <1>1, <1>2 DEF IsMount, IsUmount

(* A call at an entry of the list is at one that is mounted. *)
LEMMA AtEntry ==
  ASSUME Inv, NEW p \in Procs, call[p].pc \in {"walk", "search", "link", "remove"}
  PROVE  /\ InCall(p) /\ ~Reads(p) /\ IsCall(call[p]) /\ PlaceOK(call[p])
         /\ Mounted(call[p].cur) \/ call[p].cur = NULL
         /\ call[p].cur # NULL => Holds(heap, call[p].cur, "mount")
         /\ ListInv
<1>1. InCall(p) /\ ~Reads(p)
  BY DEF InCall, Reads
<1>2. IsCall(call[p]) /\ ListInv
  BY DEF Inv, CallInv
<1>3. PlaceOK(call[p])
  BY <1>1 DEF Inv, PlaceInv
<1>4. Mounted(call[p].cur) \/ call[p].cur = NULL
  BY <1>3 DEF PlaceOK
<1> QED BY <1>1, <1>2, <1>3, <1>4, ListedAre

LEMMA WalkOnStep ==
  ASSUME Inv, NEW p \in Procs, WalkOn(p)
  PROVE  Inv'
<1> DEFINE c == call[p]
           d == [c EXCEPT !.cur = Advanced(p)]
<1>1. phase = "run" /\ c.pc = "walk" /\ c.cur # NULL /\ calls' = calls
  BY DEF WalkOn
<1>2. /\ InCall(p) /\ ~Reads(p) /\ IsCall(c) /\ Mounted(c.cur)
      /\ Holds(heap, c.cur, "mount") /\ ListInv
  BY <1>1, AtEntry
<1>3. CASE c.op \in {"read", "find"} /\ c.path = NullPath
  <2>1. Wild
    BY <1>3 DEF WalkOn
  <2> QED BY <2>1, <1>1, WildStep DEF Wild
<1>4. CASE ~(c.op \in {"read", "find"} /\ c.path = NullPath)
  <2>1. /\ ~Stops(p) /\ call' = [call EXCEPT ![p] = d]
        /\ phase' = "run" /\ heap' = heap /\ UNCHANGED listVars
    BY <1>1, <1>2, <1>4 DEF WalkOn, Goes
  <2>2. IsCall(d) /\ d.op = c.op /\ d.pc = "walk" /\ d.cur = Advanced(p)
    BY <1>1, <1>2, WithCur
  <2>3. c.op = "mount" => d.node = c.node
    BY <1>1, <1>2, WithCur
  <2>4. Advanced(p) = NULL \/ Mounted(Advanced(p))
    BY <1>2, NextIs DEF Advanced
  <2>5. c.op = "mount" => Advanced(p) # NULL
    BY <2>1 DEF Stops, Advanced
  <2>6. PlaceOK(d)
    BY <2>2, <2>4, <2>5 DEF PlaceOK
  <2> HIDE DEF d
  <2> QED BY <1>1, <1>2, <2>1, <2>2, <2>3, <2>6, MoveStep
<1> QED BY <1>3, <1>4

LEMMA WalkEndStep ==
  ASSUME Inv, NEW p \in Procs, WalkEnd(p)
  PROVE  Inv'
<1> DEFINE c == call[p]
<1>1. /\ phase = "run" /\ phase' = "run" /\ c.pc = "walk" /\ c.cur = NULL /\ calls' = calls
      /\ heap' = heap /\ UNCHANGED listVars
  BY DEF WalkEnd
<1>2. InCall(p) /\ ~Reads(p) /\ IsCall(c) /\ PlaceOK(c) /\ ListInv
  BY <1>1, AtEntry
<1>3. CASE c.op = "read" /\ Goes(p, [c EXCEPT !.pc = "search", !.cur = mountpoints_root])
  <2> DEFINE d == [c EXCEPT !.pc = "search", !.cur = mountpoints_root]
  <2>1. IsAccess(c)
    BY <1>1, <1>2, <1>3, ShapeOf DEF IsClose
  <2>2. IsAccess(d) /\ d.op = "read" /\ d.pc = "search" /\ d.cur = mountpoints_root
    <3>1. Moved(d, c, "search", mountpoints_root, c.node)
      <4> HIDE DEF c
      <4>1. c = [op |-> "read", pc |-> c.pc, cur |-> c.cur, path |-> c.path,
                 size |-> c.size, node |-> c.node, before |-> c.before]
        BY <2>1, <1>3 DEF IsAccess
      <4>2. d = [[c EXCEPT !.pc = "search"] EXCEPT !.cur = mountpoints_root]
        OBVIOUS
      <4> DEFINE f == [c EXCEPT !.pc = "search"]
      <4>3. f = [op |-> "read", pc |-> "search", cur |-> c.cur, path |-> c.path,
                 size |-> c.size, node |-> c.node, before |-> c.before]
        BY <4>1
      <4> HIDE DEF f, d
      <4>4. d = [f EXCEPT !.cur = mountpoints_root]
        BY <4>2 DEF f
      <4>5. d = [op |-> "read", pc |-> "search", cur |-> mountpoints_root, path |-> c.path,
                 size |-> c.size, node |-> c.node, before |-> c.before]
        BY <4>3, <4>4
      <4> QED BY <4>5 DEF Moved
    <3> HIDE DEF d
    <3> QED BY <3>1, <2>1, <1>3, AccessPc
  <2>3. call' = [call EXCEPT ![p] = d]
    BY <1>3 DEF Goes
  <2> HIDE DEF d
  <2>4. PlaceOK(d)
    BY <2>2, <1>2, ListedAre DEF PlaceOK
  <2>5. IsCall(d) /\ d.op = c.op /\ d.pc \notin {"done", "read", "close"}
    BY <2>2, <1>3 DEF IsCall
  <2> QED BY <1>1, <1>2, <1>3, <2>3, <2>4, <2>5, MoveStep
<1>4. CASE c.op = "mount" /\ Goes(p, [c EXCEPT !.pc = "link"])
  <2> DEFINE d == [c EXCEPT !.pc = "link"]
  <2>1. IsMount(c)
    BY <1>2, <1>4, ShapeOf
  <2>2. IsMount(d) /\ d.op = "mount" /\ d.pc = "link" /\ d.cur = c.cur /\ d.node = c.node
    BY <2>1, ListPc
  <2>3. call' = [call EXCEPT ![p] = d]
    BY <1>4 DEF Goes
  <2> HIDE DEF d
  <2>4. PlaceOK(d)
    BY <2>2, <1>1, <1>2, <1>4 DEF PlaceOK
  <2>5. IsCall(d) /\ d.op = c.op /\ d.pc \notin {"done", "read", "close"}
    BY <2>2, <1>4 DEF IsCall
  <2> QED BY <1>1, <1>2, <2>2, <2>3, <2>4, <2>5, MoveStep
<1>5. CASE c.op \in {"write", "find", "umount"} /\ Returns(p, Failed)
  <2>1. call' = [call EXCEPT ![p] = Idle] /\ ~Pends(p) /\ calls' \in 0 .. MaxCalls
    BY <1>1, <1>5 DEF Returns, Pends, Inv, ScalarInv
  <2> QED BY <1>1, <1>2, <2>1, ReturnStep
<1> QED BY <1>3, <1>4, <1>5 DEF WalkEnd

LEMMA ListFoundStep ==
  ASSUME Inv, NEW p \in Procs, ListFound(p)
  PROVE  Inv'
<1> DEFINE c == call[p]
<1>1. /\ phase = "run" /\ phase' = "run" /\ c.pc = "walk" /\ calls' = calls
      /\ heap' = heap /\ UNCHANGED listVars /\ Holds(heap, c.cur, "mount") /\ Stops(p)
  BY DEF ListFound, AtStop
<1>2. InCall(p) /\ ~Reads(p) /\ IsCall(c) /\ PlaceOK(c) /\ ListInv
  BY <1>1, AtEntry
<1>0. c.cur # NULL
  BY <1>1, BlocksAre DEF Holds
<1>3. CASE AtStop(p, "mount") /\ Goes(p, [c EXCEPT !.pc = "link"])
  <2> DEFINE d == [c EXCEPT !.pc = "link"]
  <2>1. c.op = "mount" /\ IsMount(c)
    BY <1>2, <1>3, ShapeOf DEF AtStop
  <2>2. IsMount(d) /\ d.op = "mount" /\ d.pc = "link" /\ d.cur = c.cur /\ d.node = c.node
    BY <2>1, ListPc
  <2>3. call' = [call EXCEPT ![p] = d]
    BY <1>3 DEF Goes
  <2>4. heap[c.cur].next = NULL
    BY <1>1, <2>1 DEF Stops
  <2> HIDE DEF d
  <2>5. PlaceOK(d)
    BY <2>2, <2>4, <1>0, <1>1, <1>2 DEF PlaceOK
  <2>6. IsCall(d) /\ d.op = c.op /\ d.pc \notin {"done", "read", "close"}
    BY <2>1, <2>2 DEF IsCall
  <2> QED BY <1>1, <1>2, <2>2, <2>3, <2>5, <2>6, MoveStep
<1>4. CASE AtStop(p, "umount") /\ Goes(p, [c EXCEPT !.pc = "remove"])
  <2> DEFINE d == [c EXCEPT !.pc = "remove"]
  <2>1. c.op = "umount" /\ IsUmount(c)
    BY <1>2, <1>4, ShapeOf DEF AtStop
  <2>2. IsUmount(d) /\ d.op = "umount" /\ d.pc = "remove" /\ d.cur = c.cur
    BY <2>1, ListPc
  <2>3. call' = [call EXCEPT ![p] = d]
    BY <1>4 DEF Goes
  <2> HIDE DEF d
  <2>4. PlaceOK(d)
    BY <2>2, <1>0, <1>1, <1>2 DEF PlaceOK
  <2>5. IsCall(d) /\ d.op = c.op /\ d.pc \notin {"done", "read", "close"} /\ c.op # "mount"
    BY <2>1, <2>2 DEF IsCall
  <2> QED BY <1>1, <1>2, <2>3, <2>4, <2>5, MoveStep
<1> QED BY <1>3, <1>4 DEF ListFound

(* A block that is in no list is written. *)
LEMMA BlockStep ==
  ASSUME ListInv, NEW b \in Blocks, heap[b].kind \in {"free", "handle"}, NEW r, IsNode(r),
         heap' = [heap EXCEPT ![b] = r],
         mountpoints_root' = mountpoints_root, devfs_root' = devfs_root
  PROVE  /\ ListInv' /\ MountList' = MountList /\ DeviceList' = DeviceList
         /\ heap'[b] = r /\ \A x \in Blocks : x # b => heap'[x] = heap[x]
         /\ ~Mounted(b) /\ ~Registered(b)
         /\ \A x : (Mounted(x)' <=> Mounted(x)) /\ (Registered(x)' <=> Registered(x))
<1>1. IsHeap(heap') /\ heap'[b] = r /\ \A x \in Blocks : x # b => heap'[x] = heap[x]
  <2>1. Writes(heap', heap, b, r)
    BY DEF Writes
  <2>2. IsHeap(heap)
    BY DEF ListInv
  <2>3. PICK g : g = heap'
    OBVIOUS
  <2>5. IsNode(r) /\ b \in Blocks /\ Writes(g, heap, b, r)
    BY <2>1, <2>3
  <2>4. IsHeap(g) /\ g[b] = r /\ \A x \in Blocks : x # b => g[x] = heap[x]
    BY <2>2, <2>5, SetNode
  <2> QED BY <2>3, <2>4
<1>2. ~Mounted(b) /\ ~Registered(b)
  BY ListedAre DEF Holds
<1>3. IsList(heap', mountpoints_root, "mount", MountList)
  <2>1. \A x \in Blocks : heap[x].kind = "mount" =>
          heap'[x].kind = "mount" /\ heap'[x].next = heap[x].next
    BY <1>1
  <2> QED BY <2>1, ListKeep DEF ListInv
<1>4. IsList(heap', devfs_root, "device", DeviceList)
  <2>1. \A x \in Blocks : heap[x].kind = "device" =>
          heap'[x].kind = "device" /\ heap'[x].next = heap[x].next
    BY <1>1
  <2> QED BY <2>1, ListKeep DEF ListInv
<1>5. MountList' = MountList /\ DeviceList' = DeviceList
  BY <1>3, <1>4, ChainIs DEF MountList, DeviceList
<1>6. ListInv'
  BY <1>1, <1>3, <1>4, <1>5 DEF ListInv
<1> QED BY <1>1, <1>2, <1>5, <1>6 DEF Mounted, Registered

(* Where the list keeps its blocks, and the last its place, so does whoever *)
(* stands on one.                                                           *)
LEMMA PlaceKeep ==
  ASSUME ListInv, MountList' = MountList,
         \A x \in Blocks : heap[x].kind = "mount" => heap'[x] = heap[x]
  PROVE  \A c : PlaceOK(c) /\ c.pc # "done" /\ IsCall(c) => PlaceOK(c)'
<1>1. \A x : Mounted(x)' <=> Mounted(x)
  BY DEF Mounted
<1>2. \A x : Mounted(x) => heap'[x] = heap[x]
  BY ListedAre DEF Holds
<1> QED BY <1>1, <1>2 DEF PlaceOK

LEMMA StartMountStep ==
  ASSUME Inv, NEW p \in Procs, NEW e \in Entries, StartMount(p, e)
  PROVE  Inv'
<1> DEFINE mp == kmalloc(heap)
           r == vfs_create_mountpoint(e)
           c == [op |-> "mount", pc |-> "walk", cur |-> mountpoints_root, node |-> mp]
<1>1. /\ MayStart(p, "mount") /\ phase = "run" /\ phase' = "run"
      /\ mountpoints_root' = mountpoints_root /\ devfs_root' = devfs_root
  BY DEF StartMount, MayStart
<1>2. calls' \in 0 .. MaxCalls
  BY <1>1, CallsCount DEF StartMount
<1>3. ~InCall(p) /\ ~Pends(p) /\ ~Reads(p) /\ call[p].pc = "done"
  BY <1>1, NoCallHolds DEF MayStart, InCall
<1>4. CASE mp = NULL
  <2>1. heap' = heap /\ lost' = lost /\ call' = [call EXCEPT ![p] = Idle]
    BY <1>4 DEF StartMount, Returns
  <2> QED BY <1>1, <1>2, <1>3, <2>1, ReturnStep DEF listVars
<1>5. CASE mp # NULL
  <2>1. mp \in Blocks /\ heap[mp] = Free
    BY <1>5, kmallocIs
  <2>2. heap' = [heap EXCEPT ![mp] = r]
    BY <1>5 DEF StartMount
  <2>3. r.kind = "mount" /\ r.next = NULL /\ IsNode(r)
    BY NewMount DEF AllEntries
  <2>4. heap[mp].kind = "free"
    BY <2>1 DEF Free
  <2> HIDE DEF mp, r
  <2>5. /\ ListInv' /\ MountList' = MountList /\ DeviceList' = DeviceList
        /\ heap'[mp] = r /\ (\A x \in Blocks : x # mp => heap'[x] = heap[x]) /\ ~Mounted(mp)
        /\ \A x : (Mounted(x)' <=> Mounted(x)) /\ (Registered(x)' <=> Registered(x))
    BY <1>1, <2>1, <2>2, <2>3, <2>4, BlockStep DEF Inv
  <2>6. mp \notin lost /\ \A q \in Procs : (Pends(q) \/ Reads(q)) => call[q].node # mp
    BY <2>4 DEF Inv, HoldInv, Holds
  <2>7. \A q \in Procs : call[q].op # "mount"
    <3>1. \A q \in Procs : ~(InCall(q) /\ call[q].op = "mount")
      BY <1>1 DEF MayStart
    <3> QED BY <3>1, ShapeOf DEF Inv, CallInv, InCall
  <2>8. ASSUME NEW d, call' = [call EXCEPT ![p] = d], IsCall(d), d.pc \notin {"read", "close"},
               \/ d.op = "mount" /\ d.node = mp /\ lost' = lost
               \/ d = Idle /\ lost' = lost \cup {mp},
               d.pc # "done" => PlaceOK(d)' /\ d.op = "mount"
        PROVE  Inv'
    <3>1. call'[p] = d /\ (\A q \in Procs : q # p => call'[q] = call[q]) /\ CallInv'
      BY <2>8, CallAt DEF Inv, CallInv
    <3>2. \A q \in Procs : Pends(q)' <=> q = p /\ d.op = "mount"
      BY <2>7, <2>8, <3>1, ShapeOf DEF Pends
    <3>3. \A q \in Procs : (Reads(q)' <=> Reads(q)) /\ (Reads(q) => call'[q].node = call[q].node)
      BY <1>3, <2>8, <3>1 DEF Reads
    <3>4. ScalarInv'
      BY <1>1, <1>2, <2>1, <2>8 DEF Inv, ScalarInv
    <3>5. d = Idle => d.op # "mount"
      BY DEF Idle
    <3>6. lost' = IF d.op = "mount" THEN lost ELSE lost \cup {mp}
      BY <2>8, <3>5
    <3>7. HoldInv'
      <4>0. HoldInv
        BY DEF Inv
      <4>1. \A q \in Procs : Pends(q)' =>
              /\ Holds(heap', call'[q].node, "mount") /\ heap'[call'[q].node].next = NULL
              /\ ~Mounted(call[q].node)' /\ call'[q].node \notin lost'
        BY <2>1, <2>3, <2>5, <2>6, <2>8, <3>1, <3>2, <3>6 DEF Holds
      <4>2. \A q \in Procs : Reads(q)' => Holds(heap', call'[q].node, "handle")
        BY <4>0, <2>5, <2>6, <3>3 DEF HoldInv, Holds
      <4>3. \A q, s \in Procs : Reads(q)' /\ Reads(s)' /\ q # s => call'[q].node # call'[s].node
        BY <4>0, <3>3 DEF HoldInv
      <4>4. \A b \in lost' : Holds(heap', b, "mount") /\ ~Mounted(b)'
        <5>1. \A b \in lost : Holds(heap', b, "mount") /\ ~Mounted(b)'
          BY <4>0, <2>5, <2>6 DEF HoldInv, Holds
        <5>2. \A b : b = mp => Holds(heap', b, "mount") /\ ~Mounted(b)'
          BY <2>1, <2>3, <2>5 DEF Holds
        <5> QED BY <5>1, <5>2, <3>6
      <4> QED BY <4>1, <4>2, <4>3, <4>4 DEF HoldInv
    <3>8. LeakInv'
      <4>1. LeakInv
        BY DEF Inv
      <4>2. SUFFICES ASSUME NEW b \in Blocks
                     PROVE  /\ heap'[b].kind = "mount" =>
                                 \/ Mounted(b)' \/ b \in lost'
                                 \/ \E q \in Procs : Pends(q)' /\ call'[q].node = b
                            /\ heap'[b].kind = "handle" =>
                                 \E q \in Procs : Reads(q)' /\ call'[q].node = b
                            /\ heap'[b].kind = "device" => Registered(b)'
        BY DEF LeakInv
      <4>3. CASE b = mp
        BY <4>3, <2>3, <2>5, <2>8, <3>1, <3>2, <3>6
      <4>4. CASE b # mp
        <5>1. heap'[b] = heap[b]
          BY <4>4, <2>5
        <5>2. heap[b].kind = "mount" => Mounted(b) \/ b \in lost
          BY <4>1, <2>7 DEF LeakInv, Pends
        <5> QED BY <5>1, <5>2, <4>1, <2>5, <3>3, <3>6 DEF LeakInv
      <4> QED BY <4>3, <4>4
    <3>9. PlaceInv'
      <4>1. \A x \in Blocks : heap[x].kind = "mount" => heap'[x] = heap[x]
        BY <2>4, <2>5
      <4>2. \A q \in Procs : q # p /\ InCall(q) =>
              PlaceOK(call[q]) /\ call[q].pc # "done" /\ IsCall(call[q])
        BY DEF Inv, PlaceInv, CallInv, InCall
      <4>3. \A x : PlaceOK(x) /\ x.pc # "done" /\ IsCall(x) => PlaceOK(x)'
        BY <4>1, <2>5, PlaceKeep DEF Inv
      <4> QED BY <4>2, <4>3, <2>8, <3>1 DEF PlaceInv, InCall
    <3>10. AloneInv'
      <4>1. AloneInv /\ \A q \in Procs : InCall(q) => call[q].op # "umount" /\ call[q].op # "mount"
        BY <1>1, AloneFrom DEF Inv
      <4> QED BY <4>1, <2>8, <3>1 DEF AloneInv, InCall
    <3>11. BootInv'
      BY <1>1 DEF BootInv
    <3> QED BY <3>1, <3>4, <3>7, <3>8, <3>9, <3>10, <3>11, <2>5 DEF Inv
  <2>9. CASE ~Supported(e.fs)
    <3>1. call' = [call EXCEPT ![p] = Idle] /\ lost' = lost \cup {mp}
      BY <2>9, <1>5 DEF StartMount, Returns, mp
    <3>2. IsCall(Idle) /\ Idle.pc = "done"
      BY DEF IsCall, Idle
    <3> HIDE DEF Idle
    <3> QED BY <3>1, <3>2, <2>8
  <2>10. CASE Supported(e.fs)
    <3>1. call' = [call EXCEPT ![p] = c] /\ lost' = lost
      BY <2>10, <1>5 DEF StartMount, Goes, mp
    <3>2. IsCall(c) /\ c.op = "mount" /\ c.pc = "walk" /\ c.node = mp /\ c.cur = mountpoints_root
      BY DEF IsCall, IsMount
    <3> HIDE DEF c
    <3>3. PICK d : d = c
      OBVIOUS
    <3>4. PlaceOK(d)'
      <4>1. Mounted(mountpoints_root) \/ (mountpoints_root = NULL /\ MountList' = <<>>)
        BY <2>5, ListedAre DEF Inv
      <4>2. d.cur = mountpoints_root /\ d.op = "mount" /\ d.pc = "walk"
        BY <3>2, <3>3
      <4>3. \A x : Mounted(x)' <=> Mounted(x)
        BY <2>5
      <4>4. Mounted(d.cur)' \/ (d.cur = NULL /\ MountList' = <<>>)
        BY <4>1, <4>2, <4>3
      <4>5. Mounted(d.cur)' => d.cur # NULL
        BY <2>5, <4>3, ListedAre DEF Inv
      <4> QED BY <4>2, <4>4, <4>5 DEF PlaceOK
    <3>5. call' = [call EXCEPT ![p] = d]
      BY <3>1, <3>3
    <3>6. IsCall(d) /\ d.op = "mount" /\ d.pc = "walk" /\ d.node = mp
      BY <3>2, <3>3
    <3>7. lost' = lost
      BY <3>1
    <3>8. /\ d.pc \notin {"read", "close"} /\ d.op = "mount" /\ d.node = mp /\ lost' = lost
          /\ (d.pc # "done" => PlaceOK(d)' /\ d.op = "mount")
      BY <3>4, <3>6, <3>7
    <3> QED BY <3>5, <3>6, <3>8, <2>8
  <2> QED BY <2>9, <2>10
<1> QED BY <1>4, <1>5

(* The entry that nothing follows is the last one. *)
LEMMA LastIs ==
  ASSUME ListInv, NEW b, Mounted(b), heap[b].next = NULL
  PROVE  b = LastOf(MountList)
<1>1. PICK i \in 1 .. Len(MountList) : MountList[i] = b
  BY DEF Mounted
<1>2. NULL = IF i < Len(MountList) THEN MountList[i + 1] ELSE NULL
  BY <1>1 DEF ListInv, IsList
<1>3. MountList \in Seq(Blocks) /\ Len(MountList) \in Nat
  BY DEF ListInv, IsList
<1>4. i < Len(MountList) => MountList[i + 1] \in Blocks
  BY <1>3
<1>5. i = Len(MountList)
  BY <1>2, <1>3, <1>4, BlocksAre
<1>6. MountList # <<>>
  BY <1>3, <1>5
<1> QED BY <1>1, <1>5, <1>6 DEF LastOf

(* Of the calls that are not p's, none holds a block to link while p does, *)
(* and none unmounts.                                                      *)
LEMMA OthersRead ==
  ASSUME Inv, NEW p \in Procs, InCall(p), call[p].op = "mount"
  PROVE  /\ \A q \in Procs : q # p => ~Pends(q) /\ call[q].op \notin {"mount", "umount"}
         /\ \A q \in Procs : q # p => call[q].pc \notin {"link", "remove"}
<1>1. \A q \in Procs : q # p /\ InCall(q) => call[q].op \notin {"mount", "umount"}
  BY DEF Inv, AloneInv
<1>2. \A q \in Procs : ~InCall(q) => call[q].op \notin {"mount", "umount"}
  BY ShapeOf DEF Inv, CallInv, InCall
<1>3. \A q \in Procs : call[q].pc \in {"link", "remove"} => call[q].op \in {"mount", "umount"}
  BY ShapeOf DEF Inv, CallInv, IsMount, IsUmount
<1> QED BY <1>1, <1>2, <1>3 DEF Pends

LEMMA LinkFacts ==
  ASSUME Inv, NEW p \in Procs, MountLink(p)
  PROVE  LET mp == call[p].node
         IN  /\ InCall(p) /\ IsMount(call[p]) /\ Pends(p) /\ mp \in Blocks /\ ~Mounted(mp)
             /\ call[p].cur = LastOf(MountList)
             /\ IsHeap(heap')
             /\ IsList(heap', mountpoints_root', "mount", Append(MountList, mp))
             /\ MountList' = Append(MountList, mp) /\ DeviceList' = DeviceList
             /\ IsList(heap', devfs_root', "device", DeviceList)
             /\ \A b \in Blocks : heap'[b].kind = heap[b].kind
             /\ \A b \in Blocks : heap[b].kind = "mount" => heap'[b].entry = heap[b].entry
             /\ \A b \in Blocks : heap[b].kind = "device" => heap'[b] = heap[b]
<1> DEFINE c == call[p]
           mp == c.node
<1>1. /\ phase = "run" /\ c.pc = "link" /\ heap' = vfs_add_mountpoint(heap, c.cur, mp)
      /\ mountpoints_root' = (IF c.cur = NULL THEN mp ELSE mountpoints_root)
      /\ devfs_root' = devfs_root
  BY DEF MountLink
<1>2. InCall(p) /\ PlaceOK(c) /\ ListInv /\ IsCall(c)
  BY <1>1, AtEntry
<1>3. IsMount(c) /\ c.op = "mount" /\ Pends(p)
  BY <1>1, <1>2, ShapeOf DEF IsMount, Pends
<1>4. /\ Holds(heap, mp, "mount") /\ heap[mp].next = NULL /\ ~Mounted(mp)
      /\ mp \in Blocks /\ heap[mp].kind = "mount"
  BY <1>3 DEF Inv, HoldInv, Holds
<1>5. c.cur = LastOf(MountList)
  <2>1. CASE c.cur = NULL
    <3>1. MountList = <<>>
      BY <2>1, <1>2, <1>3 DEF PlaceOK
    <3> QED BY <2>1, <3>1 DEF LastOf
  <2>2. CASE c.cur # NULL
    BY <2>2, <1>1, <1>2, LastIs DEF PlaceOK
  <2> QED BY <2>1, <2>2
<1>6. \A i \in 1 .. Len(MountList) : MountList[i] # mp
  BY <1>4 DEF Mounted
<1>7. /\ IsHeap(heap) /\ IsList(heap, mountpoints_root, "mount", MountList)
      /\ IsList(heap, devfs_root, "device", DeviceList)
  BY <1>2 DEF ListInv
<1>8. /\ IsHeap(heap')
      /\ IsList(heap', mountpoints_root', "mount", Append(MountList, mp))
      /\ \A b \in Blocks : heap'[b].kind = heap[b].kind
      /\ \A b \in Blocks : heap[b].kind = "mount" => heap'[b].entry = heap[b].entry
      /\ \A b \in Blocks : b # c.cur => heap'[b] = heap[b]
  BY <1>1, <1>4, <1>5, <1>6, <1>7, LinkIs
<1>9. \A b \in Blocks : heap[b].kind = "device" => b # c.cur
  BY <1>2, AtEntry, <1>1, BlocksAre DEF Holds
<1>10. IsList(heap', devfs_root', "device", DeviceList)
  <2>1. \A b \in Blocks : heap[b].kind = "device" =>
          heap'[b].kind = "device" /\ heap'[b].next = heap[b].next
    BY <1>8, <1>9
  <2> QED BY <2>1, <1>1, <1>7, ListKeep
<1>11. MountList' = Append(MountList, mp) /\ DeviceList' = DeviceList
  BY <1>8, <1>10, ChainIs DEF MountList, DeviceList
<1> QED BY <1>2, <1>3, <1>4, <1>5, <1>8, <1>9, <1>10, <1>11

LEMMA MountLinkStep ==
  ASSUME Inv, NEW p \in Procs, MountLink(p)
  PROVE  Inv'
<1> DEFINE mp == call[p].node
<1>1. /\ phase = "run" /\ phase' = "run" /\ call' = [call EXCEPT ![p] = Idle]
      /\ lost' = lost /\ calls' = calls
  BY DEF MountLink, Returns
<1>2. /\ InCall(p) /\ IsMount(call[p]) /\ Pends(p) /\ mp \in Blocks
      /\ IsHeap(heap')
      /\ IsList(heap', mountpoints_root', "mount", Append(MountList, mp))
      /\ MountList' = Append(MountList, mp) /\ DeviceList' = DeviceList
      /\ IsList(heap', devfs_root', "device", DeviceList)
      /\ \A b \in Blocks : heap'[b].kind = heap[b].kind
  BY LinkFacts
<1>3. /\ \A q \in Procs : q # p => ~Pends(q) /\ call[q].op \notin {"mount", "umount"}
      /\ \A q \in Procs : q # p => call[q].pc \notin {"link", "remove"}
  BY <1>2, OthersRead DEF IsMount
<1>4. call'[p] = Idle /\ (\A q \in Procs : q # p => call'[q] = call[q]) /\ CallInv'
  BY <1>1, CallAt DEF Inv, CallInv, IsCall
<1>5. Idle.pc = "done" /\ Idle.op = "none"
  BY DEF Idle
<1>6. \A q \in Procs : ~Pends(q)' /\ (Reads(q)' <=> Reads(q)) /\ (Reads(q) => call'[q] = call[q])
  <2>1. ~Reads(p)
    BY <1>2 DEF IsMount, Reads
  <2> QED BY <2>1, <1>3, <1>4, <1>5 DEF Pends, Reads
<1>7. \A b : Mounted(b)' <=> Mounted(b) \/ b = mp
  <2>1. MountList \in Seq(Blocks)
    BY DEF Inv, ListInv, IsList
  <2>2. Len(MountList') = Len(MountList) + 1 /\ MountList'[Len(MountList) + 1] = mp
    BY <2>1, <1>2
  <2>3. \A i \in 1 .. Len(MountList) : MountList'[i] = MountList[i]
    BY <2>1, <1>2
  <2>4. \A i \in 1 .. (Len(MountList) + 1) : i \in 1 .. Len(MountList) \/ i = Len(MountList) + 1
    BY <2>1
  <2>5. Len(MountList) + 1 \in 1 .. (Len(MountList) + 1) /\
        \A i \in 1 .. Len(MountList) : i \in 1 .. (Len(MountList) + 1)
    BY <2>1
  <2> QED BY <2>2, <2>3, <2>4, <2>5 DEF Mounted
<1>8. \A b : Registered(b)' <=> Registered(b)
  BY <1>2 DEF Registered
<1>9. ScalarInv' /\ ListInv'
  BY <1>1, <1>2 DEF Inv, ScalarInv, ListInv
<1>10. HoldInv'
  <2>1. HoldInv
    BY DEF Inv
  <2>2. mp \notin lost /\ \A q \in Procs : Reads(q) => call[q].node # mp
    BY <2>1, <1>2 DEF HoldInv, Holds
  <2>3. \A b \in lost' : Holds(heap', b, "mount") /\ ~Mounted(b)'
    BY <2>1, <2>2, <1>1, <1>2, <1>7 DEF HoldInv, Holds
  <2>4. \A q \in Procs : Reads(q)' => Holds(heap', call'[q].node, "handle")
    BY <2>1, <1>2, <1>6 DEF HoldInv, Holds
  <2>5. \A q, s \in Procs : Reads(q)' /\ Reads(s)' /\ q # s => call'[q].node # call'[s].node
    BY <2>1, <1>6 DEF HoldInv
  <2> QED BY <2>3, <2>4, <2>5, <1>6 DEF HoldInv
<1>11. LeakInv'
  <2>1. LeakInv
    BY DEF Inv
  <2>2. ASSUME NEW b \in Blocks, heap'[b].kind = "mount" PROVE Mounted(b)' \/ b \in lost'
    <3>1. Mounted(b) \/ b \in lost \/ \E q \in Procs : Pends(q) /\ call[q].node = b
      BY <2>1, <2>2, <1>2 DEF LeakInv
    <3>2. \A q \in Procs : Pends(q) => q = p
      BY <1>3
    <3> QED BY <3>1, <3>2, <1>1, <1>7
  <2>3. ASSUME NEW b \in Blocks, heap'[b].kind = "handle"
        PROVE  \E q \in Procs : Reads(q)' /\ call'[q].node = b
    <3>1. PICK q \in Procs : Reads(q) /\ call[q].node = b
      BY <2>1, <2>3, <1>2 DEF LeakInv
    <3> QED BY <3>1, <1>6
  <2>4. ASSUME NEW b \in Blocks, heap'[b].kind = "device" PROVE Registered(b)'
    BY <2>1, <2>4, <1>2, <1>8 DEF LeakInv
  <2> QED BY <2>2, <2>3, <2>4 DEF LeakInv
<1>12. PlaceInv'
  <2>1. \A c : PlaceOK(c) /\ c.op # "mount" /\ c.pc \notin {"link", "remove"} => PlaceOK(c)'
    BY <1>7 DEF PlaceOK
  <2>2. \A q \in Procs : q # p /\ InCall(q) => PlaceOK(call[q])
    BY DEF Inv, PlaceInv
  <2> QED BY <2>1, <2>2, <1>3, <1>4, <1>5 DEF PlaceInv, InCall
<1>13. AloneInv'
  <2>1. AloneInv
    BY DEF Inv
  <2> QED BY <2>1, <1>4, <1>5 DEF AloneInv, InCall
<1>14. BootInv'
  BY <1>1 DEF BootInv
<1> QED BY <1>4, <1>9, <1>10, <1>11, <1>12, <1>13, <1>14 DEF Inv

LEMMA RemoveFacts ==
  ASSUME Inv, NEW p \in Procs, UnmountRemove(p)
  PROVE  LET mp == call[p].cur
         IN  /\ InCall(p) /\ IsUmount(call[p]) /\ mp \in Blocks /\ IsHeap(heap')
             /\ \E m \in 1 .. Len(MountList) :
                  MountList[m] = mp /\ MountList' = RemoveAt(MountList, m)
             /\ IsList(heap', mountpoints_root', "mount", MountList')
             /\ DeviceList' = DeviceList /\ IsList(heap', devfs_root', "device", DeviceList)
             /\ heap'[mp] = Free
             /\ \A b \in Blocks \ {mp} : heap'[b].kind = heap[b].kind
             /\ \A b \in Blocks \ {mp} : heap[b].kind = "mount" => heap'[b].entry = heap[b].entry
             /\ \A b \in Blocks : heap[b].kind = "device" => heap'[b] = heap[b]
<1> DEFINE mp == call[p].cur
<1>1. /\ phase = "run" /\ call[p].pc = "remove" /\ heap' = vfs_remove_mountpoint(heap, mp)
      /\ mountpoints_root' = (IF mountpoints_root = mp THEN heap[mp].next ELSE mountpoints_root)
      /\ devfs_root' = devfs_root
  BY DEF UnmountRemove
<1>2. InCall(p) /\ PlaceOK(call[p]) /\ ListInv /\ IsUmount(call[p])
  BY <1>1, AtEntry, ShapeOf
<1>3. PICK m \in 1 .. Len(MountList) : MountList[m] = mp
  BY <1>1, <1>2 DEF PlaceOK, Mounted
<1>4. /\ IsHeap(heap) /\ IsList(heap, mountpoints_root, "mount", MountList)
      /\ IsList(heap, devfs_root, "device", DeviceList)
  BY <1>2 DEF ListInv
<1>5. /\ mp \in Blocks /\ IsHeap(heap') /\ heap'[mp] = Free
      /\ IsList(heap', mountpoints_root', "mount", RemoveAt(MountList, m))
      /\ \A b \in Blocks \ {mp} : heap'[b].kind = heap[b].kind
      /\ \A b \in Blocks \ {mp} : heap[b].kind = "mount" => heap'[b].entry = heap[b].entry
      /\ \A b \in Blocks \ {mp} : heap[b].kind # "mount" => heap'[b] = heap[b]
  BY <1>1, <1>3, <1>4, UnlinkIs
<1>6. heap[mp].kind = "mount"
  BY <1>2, <1>3, ListedAre DEF Holds
<1>7. IsList(heap', devfs_root', "device", DeviceList)
  <2>1. \A b \in Blocks : heap[b].kind = "device" =>
          heap'[b].kind = "device" /\ heap'[b].next = heap[b].next
    BY <1>5, <1>6
  <2> QED BY <2>1, <1>1, <1>4, ListKeep
<1>8. MountList' = RemoveAt(MountList, m) /\ DeviceList' = DeviceList
  BY <1>5, <1>7, ChainIs DEF MountList, DeviceList
<1> QED BY <1>2, <1>3, <1>5, <1>6, <1>7, <1>8

LEMMA UnmountRemoveStep ==
  ASSUME Inv, NEW p \in Procs, UnmountRemove(p)
  PROVE  Inv'
<1> DEFINE mp == call[p].cur
<1>1. /\ phase = "run" /\ phase' = "run" /\ call' = [call EXCEPT ![p] = Idle]
      /\ lost' = lost /\ calls' = calls
  BY DEF UnmountRemove, Returns
<1>2. /\ InCall(p) /\ IsUmount(call[p]) /\ mp \in Blocks /\ IsHeap(heap')
      /\ IsList(heap', mountpoints_root', "mount", MountList')
      /\ DeviceList' = DeviceList /\ IsList(heap', devfs_root', "device", DeviceList)
      /\ heap'[mp] = Free /\ \A b \in Blocks \ {mp} : heap'[b].kind = heap[b].kind
  BY RemoveFacts
<1>3. PICK m \in 1 .. Len(MountList) : MountList[m] = mp /\ MountList' = RemoveAt(MountList, m)
  BY RemoveFacts
<1>4. \A q \in Procs : q # p => ~InCall(q) /\ ~Pends(q) /\ ~Reads(q)
  <2>1. \A q \in Procs : q # p => ~InCall(q)
    BY <1>2 DEF Inv, AloneInv, IsUmount
  <2> QED BY <2>1, NoCallHolds
<1>5. call'[p] = Idle /\ (\A q \in Procs : q # p => call'[q] = call[q]) /\ CallInv'
  BY <1>1, CallAt DEF Inv, CallInv, IsCall
<1>6. \A q \in Procs : ~Pends(q)' /\ ~Reads(q)' /\ ~InCall(q)' /\ ~Pends(q) /\ ~Reads(q)
  <2>1. Idle.pc = "done" /\ ~Pends(p) /\ ~Reads(p)
    BY <1>2 DEF Idle, IsUmount, Pends, Reads
  <2> QED BY <2>1, <1>4, <1>5 DEF Pends, Reads, InCall
<1>7. \A b \in Blocks : Mounted(b)' <=> Mounted(b) /\ b # mp
  <2>1. MountList \in Seq(Blocks) /\ \A i, j \in 1 .. Len(MountList) : MountList[i] = MountList[j] => i = j
    BY DEF Inv, ListInv, IsList
  <2>2. /\ Len(MountList') = Len(MountList) - 1
        /\ \A i \in 1 .. (Len(MountList) - 1) :
             MountList'[i] = IF i < m THEN MountList[i] ELSE MountList[i + 1]
    BY <1>3, <2>1, RemoveAtIs
  <2>3. ASSUME NEW b \in Blocks, Mounted(b)' PROVE Mounted(b) /\ b # mp
    <3>1. PICK i \in 1 .. (Len(MountList) - 1) : MountList'[i] = b
      BY <2>2, <2>3 DEF Mounted
    <3>2. i \in 1 .. Len(MountList) /\ i + 1 \in 1 .. Len(MountList) /\ m \in Int
      BY <2>1, <3>1
    <3>3. PICK j \in 1 .. Len(MountList) : j # m /\ MountList[j] = b
      BY <3>1, <3>2, <2>2
    <3> QED BY <3>3, <2>1, <1>3 DEF Mounted
  <2>4. ASSUME NEW b \in Blocks, Mounted(b), b # mp PROVE Mounted(b)'
    <3>1. PICK i \in 1 .. Len(MountList) : MountList[i] = b /\ i # m
      BY <2>4, <1>3 DEF Mounted
    <3>2. CASE i < m
      <4>1. i \in 1 .. (Len(MountList) - 1)
        BY <3>1, <3>2, <2>1
      <4> QED BY <4>1, <3>1, <3>2, <2>2 DEF Mounted
    <3>3. CASE ~(i < m)
      <4>1. i - 1 \in 1 .. (Len(MountList) - 1) /\ ~(i - 1 < m) /\ (i - 1) + 1 = i
        BY <3>1, <3>3, <2>1
      <4>2. MountList'[i - 1] = b
        BY <4>1, <3>1, <2>2
      <4> QED BY <4>1, <4>2, <2>2 DEF Mounted
    <3> QED BY <3>2, <3>3
  <2> QED BY <2>3, <2>4
<1>8. ScalarInv' /\ ListInv'
  BY <1>1, <1>2 DEF Inv, ScalarInv, ListInv
<1>9. heap[mp].kind = "mount" /\ heap'[mp].kind = "free" /\ Mounted(mp)
  BY <1>2, <1>3, ListedAre DEF Free, Holds, Inv
<1>10. HoldInv'
  <2>1. \A b \in lost : Holds(heap, b, "mount") /\ ~Mounted(b)
    BY DEF Inv, HoldInv
  <2>2. \A b \in lost' : Holds(heap', b, "mount") /\ ~Mounted(b)'
    BY <2>1, <1>1, <1>2, <1>7, <1>9 DEF Holds
  <2> QED BY <2>2, <1>6 DEF HoldInv
<1>11. LeakInv'
  <2>1. LeakInv
    BY DEF Inv
  <2>2. \A b : Registered(b)' <=> Registered(b)
    BY <1>2 DEF Registered
  <2>3. SUFFICES ASSUME NEW b \in Blocks, b # mp
                 PROVE  /\ heap'[b].kind = "mount" => Mounted(b)' \/ b \in lost'
                        /\ heap'[b].kind = "handle" => FALSE
                        /\ heap'[b].kind = "device" => Registered(b)'
    BY <1>9 DEF LeakInv
  <2>4. heap'[b].kind = heap[b].kind
    BY <1>2, <2>3
  <2> QED BY <2>1, <2>2, <2>3, <2>4, <1>1, <1>6, <1>7 DEF LeakInv
<1>12. PlaceInv' /\ AloneInv'
  BY <1>6 DEF PlaceInv, AloneInv
<1>13. BootInv'
  BY <1>1 DEF BootInv
<1> QED BY <1>5, <1>8, <1>10, <1>11, <1>12, <1>13 DEF Inv

(* A handle is taken, used or given back. *)
LEMMA HandleStep ==
  ASSUME Inv, phase = "run", phase' = "run", calls' = calls, UNCHANGED listVars,
         NEW p \in Procs, InCall(p), call[p].op = "read",
         NEW d, call' = [call EXCEPT ![p] = d], IsCall(d),
         d.pc \in {"done", "read", "close"}, d.op \in {"none", "read"},
         NEW b \in Blocks, NEW r, IsNode(r), heap' = [heap EXCEPT ![b] = r],
         r.kind = IF d.pc = "done" THEN "free" ELSE "handle",
         d.pc # "done" => d.node = b,
         IF Reads(p) THEN call[p].node = b ELSE heap[b].kind = "free"
  PROVE  Inv'
<1> USE DEF listVars
<1>1. ListInv /\ HoldInv /\ LeakInv
  BY DEF Inv
<1>2. heap[b].kind \in {"free", "handle"} /\ ~Pends(p)
  BY <1>1 DEF HoldInv, Holds, Pends
<1>3. /\ ListInv' /\ MountList' = MountList
      /\ heap'[b] = r /\ \A x \in Blocks : x # b => heap'[x] = heap[x]
      /\ \A x : (Mounted(x)' <=> Mounted(x)) /\ (Registered(x)' <=> Registered(x))
  BY <1>1, <1>2, BlockStep
<1>4. call'[p] = d /\ (\A q \in Procs : q # p => call'[q] = call[q]) /\ CallInv'
  BY CallAt DEF Inv, CallInv
<1>5. \A q \in Procs : (Pends(q)' <=> Pends(q)) /\ (Pends(q) => call'[q] = call[q])
  BY <1>2, <1>4 DEF Pends
<1>6. \A q \in Procs : Reads(q)' <=> IF q = p THEN d.pc # "done" ELSE Reads(q)
  BY <1>4 DEF Reads
<1>7. \A q \in Procs : q # p /\ Reads(q) => call[q].node # b
  BY <1>1, <1>2 DEF HoldInv, Holds
<1>8. ScalarInv'
  BY DEF Inv, ScalarInv
<1>9. \A x \in Blocks : heap[x].kind = "mount" => heap'[x] = heap[x]
  BY <1>2, <1>3
<1>10. HoldInv'
  <2>1. \A q \in Procs : Pends(q)' =>
          /\ Holds(heap', call'[q].node, "mount") /\ heap'[call'[q].node].next = NULL
          /\ ~Mounted(call[q].node)' /\ call'[q].node \notin lost'
    BY <1>1, <1>3, <1>5, <1>9 DEF HoldInv, Holds
  <2>2. \A q \in Procs : Reads(q)' => Holds(heap', call'[q].node, "handle")
    <3>1. d.pc # "done" => Holds(heap', d.node, "handle")
      BY <1>3 DEF Holds
    <3>2. \A q \in Procs : q # p /\ Reads(q) => Holds(heap', call[q].node, "handle")
      BY <1>1, <1>3, <1>7 DEF HoldInv, Holds
    <3> QED BY <3>1, <3>2, <1>4, <1>6
  <2>3. \A q, s \in Procs : Reads(q)' /\ Reads(s)' /\ q # s => call'[q].node # call'[s].node
    <3>1. \A q, s \in Procs : Reads(q) /\ Reads(s) /\ q # s => call[q].node # call[s].node
      BY <1>1 DEF HoldInv
    <3> QED BY <3>1, <1>4, <1>6, <1>7
  <2>4. \A x \in lost' : Holds(heap', x, "mount") /\ ~Mounted(x)'
    BY <1>1, <1>3, <1>9 DEF HoldInv, Holds
  <2> QED BY <2>1, <2>2, <2>3, <2>4 DEF HoldInv
<1>11. LeakInv'
  <2>1. SUFFICES ASSUME NEW x \in Blocks
                 PROVE  /\ heap'[x].kind = "mount" =>
                             \/ Mounted(x)' \/ x \in lost'
                             \/ \E q \in Procs : Pends(q)' /\ call'[q].node = x
                        /\ heap'[x].kind = "handle" =>
                             \E q \in Procs : Reads(q)' /\ call'[q].node = x
                        /\ heap'[x].kind = "device" => Registered(x)'
    BY DEF LeakInv
  <2>2. CASE x = b
    BY <2>2, <1>3, <1>4, <1>6
  <2>3. CASE x # b
    <3>1. heap'[x] = heap[x]
      BY <2>3, <1>3
    <3>2. heap[x].kind = "mount" =>
            \/ Mounted(x)' \/ x \in lost'
            \/ \E q \in Procs : Pends(q)' /\ call'[q].node = x
      BY <1>1, <1>3, <1>5 DEF LeakInv
    <3>3. ASSUME heap[x].kind = "handle"
          PROVE  \E q \in Procs : Reads(q)' /\ call'[q].node = x
      <4>1. PICK q \in Procs : Reads(q) /\ call[q].node = x
        BY <3>3, <1>1 DEF LeakInv
      <4>2. q # p
        BY <4>1, <2>3
      <4> QED BY <4>1, <4>2, <1>4, <1>6
    <3> QED BY <3>1, <3>2, <3>3, <1>1, <1>3 DEF LeakInv
  <2> QED BY <2>2, <2>3
<1>12. PlaceInv'
  <2>1. \A q \in Procs : q # p /\ InCall(q) =>
          PlaceOK(call[q]) /\ call[q].pc # "done" /\ IsCall(call[q])
    BY DEF Inv, PlaceInv, CallInv, InCall
  <2>2. \A x : PlaceOK(x) /\ x.pc # "done" /\ IsCall(x) => PlaceOK(x)'
    BY <1>1, <1>3, <1>9, PlaceKeep
  <2>3. \A x : x.pc \in {"read", "close"} /\ x.op # "mount" => PlaceOK(x)'
    BY DEF PlaceOK
  <2>4. d.op # "mount"
    OBVIOUS
  <2> QED BY <2>1, <2>2, <2>3, <2>4, <1>4 DEF PlaceInv, InCall
<1>13. AloneInv'
  <2>1. AloneInv
    BY DEF Inv
  <2>2. d.pc # "done" => d.op = "read"
    BY ShapeOf DEF IsClose
  <2> QED BY <2>1, <2>2, <1>4 DEF AloneInv, InCall
<1>14. BootInv'
  BY DEF BootInv
<1> QED BY <1>3, <1>4, <1>8, <1>10, <1>11, <1>12, <1>13, <1>14 DEF Inv

LEMMA tarfs_openStep ==
  ASSUME Inv, NEW p \in Procs, phase = "run", calls' = calls, call[p].op = "read",
         call[p].pc \in {"walk", "search"}, NEW name, kmalloc(heap) # NULL, tarfs_open(p, name)
  PROVE  Inv'
<1> DEFINE b == kmalloc(heap)
           c == call[p]
           d == [c EXCEPT !.pc = "read", !.node = b]
           r == [kind |-> "handle", offset |-> 0, file |-> tarfs_find(tar_files, name)]
<1>1. InCall(p) /\ ~Reads(p) /\ IsCall(c)
  BY AtEntry
<1>2. IsAccess(c)
  BY <1>1, ShapeOf DEF IsClose
<1>3. IsAccess(d) /\ d.op = "read" /\ d.pc = "read" /\ d.node = b
  <2>1. Moved(d, c, "read", c.cur, b)
    <3>1. c.op = "read"
      OBVIOUS
    <3> HIDE DEF b, c
    <3>2. c = [op |-> "read", pc |-> c.pc, cur |-> c.cur, path |-> c.path,
               size |-> c.size, node |-> c.node, before |-> c.before]
      BY <1>2, <3>1 DEF IsAccess
    <3>3. d = [[c EXCEPT !.pc = "read"] EXCEPT !.node = b]
      OBVIOUS
    <3> DEFINE f == [c EXCEPT !.pc = "read"]
    <3>4. f = [op |-> "read", pc |-> "read", cur |-> c.cur, path |-> c.path,
               size |-> c.size, node |-> c.node, before |-> c.before]
      BY <3>2
    <3> HIDE DEF f, d
    <3>5. d = [f EXCEPT !.node = b]
      BY <3>3 DEF f
    <3>6. d = [op |-> "read", pc |-> "read", cur |-> c.cur, path |-> c.path,
               size |-> c.size, node |-> b, before |-> c.before]
      BY <3>4, <3>5
    <3> QED BY <3>6 DEF Moved
  <2> HIDE DEF d, b
  <2> QED BY <2>1, <1>2, AccessPc
<1>4. b \in Blocks /\ heap[b].kind = "free"
  BY kmallocIs DEF Free
<1>5. /\ heap' = [heap EXCEPT ![b] = r] /\ call' = [call EXCEPT ![p] = d]
      /\ phase' = "run" /\ UNCHANGED listVars
  BY DEF tarfs_open, Goes
<1>6. IsNode(r) /\ r.kind = "handle"
  BY DEF IsNode, IsHandle
<1> HIDE DEF b, d, r
<1>7. IsCall(d) /\ d.pc # "done"
  BY <1>3 DEF IsCall
<1> QED BY <1>1, <1>3, <1>4, <1>5, <1>6, <1>7, HandleStep

LEMMA devfs_readStep ==
  ASSUME Inv, NEW p \in Procs, phase = "run", calls' = calls, call[p].op = "read",
         call[p].pc \in {"walk", "search"}, NEW name, devfs_read(p, name)
  PROVE  Inv'
<1> DEFINE c == call[p]
           d == [c EXCEPT !.pc = "wait"]
<1>1. InCall(p) /\ ~Reads(p) /\ IsCall(c) /\ ~Pends(p)
  BY AtEntry DEF Pends
<1>2. CASE Wild
  BY <1>2, WildStep DEF Wild
<1>3. ASSUME UNCHANGED <<phase, heap, listVars>>, call' = [call EXCEPT ![p] = Idle] PROVE Inv'
  BY <1>1, <1>3, ReturnStep DEF Inv, ScalarInv
<1>4. ASSUME UNCHANGED <<phase, heap, listVars>>, call' = [call EXCEPT ![p] = d] PROVE Inv'
  <2>1. IsAccess(c)
    BY <1>1, ShapeOf DEF IsClose
  <2>2. IsAccess(d) /\ d.op = "read" /\ d.pc = "wait"
    <3>1. Moved(d, c, "wait", c.cur, c.node)
      BY <2>1 DEF IsAccess, Moved
    <3> HIDE DEF d
    <3> QED BY <3>1, <2>1, AccessPc
  <2> HIDE DEF d
  <2>3. IsCall(d) /\ PlaceOK(d)
    BY <2>2 DEF IsCall, PlaceOK
  <2> QED BY <1>1, <1>4, <2>2, <2>3, MoveStep
<1> QED BY <1>2, <1>3, <1>4 DEF devfs_read, Returns, Goes

LEMMA FoundStep ==
  ASSUME Inv, NEW p \in Procs,
         ReadFound(p) \/ ReadSearch(p) \/ WriteFound(p) \/ FindFound(p)
  PROVE  Inv'
<1> DEFINE c == call[p]
<1>1. /\ phase = "run" /\ c.pc \in {"walk", "search"} /\ calls' = calls
      /\ c.pc = "walk" => c.op \in {"read", "write", "find"}
  BY DEF ReadFound, ReadSearch, WriteFound, FindFound, AtStop
<1>2. InCall(p) /\ ~Reads(p) /\ IsCall(c)
  BY <1>1, AtEntry
<1>3. c.op \in {"read", "write", "find"} /\ ~Pends(p) /\ (c.pc = "search" => c.op = "read")
  BY <1>1, <1>2, ShapeOf DEF Pends
<1>4. ASSUME UNCHANGED <<phase, heap, listVars>>, call' = [call EXCEPT ![p] = Idle] PROVE Inv'
  BY <1>1, <1>2, <1>3, <1>4, ReturnStep DEF Inv, ScalarInv
<1>5. ASSUME c.op = "read", NEW name, Opens(name), tarfs_open(p, name) PROVE Inv'
  BY <1>1, <1>5, tarfs_openStep DEF Opens
<1>6. ASSUME c.op = "read", NEW name, devfs_read(p, name) PROVE Inv'
  BY <1>1, <1>6, devfs_readStep
<1>7. CASE ReadFound(p)
  <2>1. c.op = "read"
    BY <1>7 DEF ReadFound, AtStop
  <2> QED BY <2>1, <1>4, <1>5, <1>6, <1>7 DEF ReadFound, Returns
<1>8. CASE ReadSearch(p)
  <2>1. c.op = "read"
    BY <1>3, <1>8 DEF ReadSearch
  <2>2. Wild => Inv'
    BY <1>1, WildStep DEF Wild
  <2> QED BY <2>1, <2>2, <1>4, <1>5, <1>6, <1>8 DEF ReadSearch, Returns
<1>9. CASE WriteFound(p) \/ FindFound(p)
  BY <1>4, <1>9 DEF WriteFound, FindFound, Returns
<1> QED BY <1>7, <1>8, <1>9

LEMMA ReadDataStep ==
  ASSUME Inv, NEW p \in Procs, ReadData(p)
  PROVE  Inv'
<1> DEFINE c == call[p]
           h == heap[c.node]
           x == tarfs_read(h, c.size)
           d == [op |-> "read", pc |-> "close", path |-> c.path, size |-> c.size,
                 node |-> c.node, before |-> c.before,
                 res |-> [val |-> x.n, src |-> <<"file", tar_files[h.file].addr + x.from>>]]
           r == [h EXCEPT !.offset = @ + x.n]
<1>1. /\ phase = "run" /\ phase' = "run" /\ c.pc = "read" /\ calls' = calls
      /\ UNCHANGED listVars /\ call' = [call EXCEPT ![p] = d]
  BY DEF ReadData, Goes
<1>2. heap' = [heap EXCEPT ![c.node] = r]
  BY DEF ReadData
<1>3. IsAccess(c) /\ c.op = "read" /\ Reads(p) /\ InCall(p)
  BY <1>1, ShapeOf DEF Inv, CallInv, Reads, InCall
<1>4. c.node \in Blocks /\ h.kind = "handle" /\ IsHandle(h)
  BY <1>3, KindOf DEF Inv, HoldInv, Holds, ListInv, IsHeap
<1>5. r = [kind |-> "handle", offset |-> h.offset + x.n, file |-> h.file]
  <2> HIDE DEF x, h
  <2> QED BY <1>4 DEF IsHandle
<1>6. IsNode(r) /\ r.kind = "handle"
  <2> HIDE DEF x, r, h
  <2> QED BY <1>5 DEF IsNode, IsHandle
<1>7. IsClose(d) /\ d.op = "read" /\ d.pc = "close" /\ d.node = c.node
  <2>1. c.path \in Paths
    BY <1>3 DEF IsAccess
  <2> HIDE DEF x, h, c
  <2> QED BY <2>1 DEF IsClose
<1> HIDE DEF d, r, h
<1>8. IsCall(d)
  BY <1>7 DEF IsCall
<1> QED BY <1>1, <1>2, <1>3, <1>4, <1>6, <1>7, <1>8, HandleStep

LEMMA tarfs_closeStep ==
  ASSUME Inv, NEW p \in Procs, tarfs_close(p)
  PROVE  Inv'
<1>1. /\ phase = "run" /\ phase' = "run" /\ call[p].pc = "close" /\ calls' = calls
      /\ UNCHANGED listVars /\ call' = [call EXCEPT ![p] = Idle]
      /\ heap' = [heap EXCEPT ![call[p].node] = Free]
  BY DEF tarfs_close, Returns
<1>2. call[p].op = "read" /\ Reads(p) /\ InCall(p)
  BY <1>1, ShapeOf DEF Inv, CallInv, Reads, InCall, IsClose
<1>3. call[p].node \in Blocks
  BY <1>2 DEF Inv, HoldInv, Holds
<1>4. IsCall(Idle) /\ Idle.pc = "done" /\ Idle.op = "none" /\ IsNode(Free) /\ Free.kind = "free"
  BY DEF IsCall, Idle, IsNode, Free
<1> HIDE DEF Idle, Free
<1> QED BY <1>1, <1>2, <1>3, <1>4, HandleStep

LEMMA KeysTypedStep ==
  ASSUME Inv, NEW p \in Procs, KeysTyped(p)
  PROVE  Inv'
<1>1. /\ phase = "run" /\ phase' = "run" /\ call[p].pc = "wait" /\ calls' = calls /\ heap' = heap
      /\ UNCHANGED listVars /\ call' = [call EXCEPT ![p] = Idle]
  BY DEF KeysTyped, Returns
<1>2. ~Pends(p) /\ ~Reads(p)
  BY <1>1, ShapeOf DEF Inv, CallInv, Pends, Reads
<1> QED BY <1>1, <1>2, ReturnStep DEF Inv, ScalarInv

-----------------------------------------------------------------------------
(* Boot                                                                    *)

(* The heap while only the boot code runs: every list node is listed. *)
BootHeap(h, mroot, droot, mounts, devices) ==
  /\ IsHeap(h)
  /\ IsList(h, mroot, "mount", mounts) /\ IsList(h, droot, "device", devices)
  /\ \A b \in Blocks :
       /\ h[b].kind = "mount" => \E i \in 1 .. Len(mounts) : mounts[i] = b
       /\ h[b].kind = "device" => \E i \in 1 .. Len(devices) : devices[i] = b
       /\ h[b].kind # "handle"

LEMMA BootMountIs ==
  ASSUME NEW h, NEW mounts, NEW devices, NEW droot, NEW e \in AllEntries,
         BootHeap(h, mountpoints_root, droot, mounts, devices)
  PROVE  LET m == BootMount(h, e)
         IN  \/ m.heap = h /\ m.root = mountpoints_root
             \/ \E mp \in Blocks :
                  /\ BootHeap(m.heap, m.root, droot, Append(mounts, mp), devices)
                  /\ m.heap[mp].entry = e
                  /\ \A b \in Blocks : h[b].kind = "mount" => m.heap[b].entry = h[b].entry
                  /\ \A b \in Blocks : h[b].kind = "device" => m.heap[b] = h[b]
<1> DEFINE mp == kmalloc(h)
           m == BootMount(h, e)
           r == vfs_create_mountpoint(e)
           g == [h EXCEPT ![mp] = r]
           cur == LastOf(mounts)
<1>0. /\ IsHeap(h) /\ IsList(h, mountpoints_root, "mount", mounts)
      /\ IsList(h, droot, "device", devices)
  BY DEF BootHeap
<1>1. Chain(h, mountpoints_root, "mount") = mounts
  BY <1>0, ChainIs
<1>2. m = IF mp = NULL THEN [heap |-> h, root |-> mountpoints_root]
          ELSE [heap |-> vfs_add_mountpoint(g, cur, mp),
                root |-> IF cur = NULL THEN mp ELSE mountpoints_root]
  BY <1>1 DEF BootMount, LastOf
<1>3. CASE mp = NULL
  BY <1>2, <1>3
<1>4. CASE mp # NULL
  <2>1. mp \in Blocks /\ h[mp].kind = "free"
    BY <1>4, kmallocIs DEF Free
  <2>2. m.heap = vfs_add_mountpoint(g, cur, mp) /\ m.root = IF cur = NULL THEN mp ELSE mountpoints_root
    BY <1>2, <1>4
  <2>3. r.kind = "mount" /\ r.next = NULL /\ r.entry = e /\ IsNode(r)
    BY NewMount
  <2> HIDE DEF m, mp, r
  <2>4. IsHeap(g) /\ g[mp] = r /\ \A b \in Blocks : b # mp => g[b] = h[b]
    <3>1. Writes(g, h, mp, r)
      BY DEF Writes
    <3> HIDE DEF g
    <3> QED BY <1>0, <2>1, <2>3, <3>1, SetNode
  <2> HIDE DEF g
  <2>5. \A i \in 1 .. Len(mounts) : mounts[i] \in Blocks /\ mounts[i] # mp
    BY <1>0, <2>1 DEF IsList
  <2>6. IsList(g, mountpoints_root, "mount", mounts)
    <3>1. \A b \in Blocks : h[b].kind = "mount" => g[b].kind = "mount" /\ g[b].next = h[b].next
      BY <2>1, <2>4
    <3> QED BY <3>1, <1>0, ListKeep
  <2>7. /\ IsHeap(m.heap)
        /\ IsList(m.heap, m.root, "mount", Append(mounts, mp))
        /\ \A b \in Blocks : m.heap[b].kind = g[b].kind
        /\ \A b \in Blocks : g[b].kind = "mount" => m.heap[b].entry = g[b].entry
        /\ \A b \in Blocks : b # cur => m.heap[b] = g[b]
    BY <2>1, <2>2, <2>3, <2>4, <2>5, <2>6, LinkIs
  <2>8. \A b \in Blocks : h[b].kind = "device" => m.heap[b] = h[b]
    <3>1. cur = NULL \/ h[cur].kind = "mount"
      <4>1. mounts # <<>> => Len(mounts) \in 1 .. Len(mounts)
        BY <1>0 DEF IsList
      <4> QED BY <4>1, <1>0 DEF LastOf, IsList
    <3>2. NULL \notin Blocks
      BY BlocksAre
    <3> QED BY <3>1, <3>2, <2>1, <2>4, <2>7
  <2>9. IsList(m.heap, droot, "device", devices)
    <3>1. \A b \in Blocks : h[b].kind = "device" =>
            m.heap[b].kind = "device" /\ m.heap[b].next = h[b].next
      BY <2>8
    <3> QED BY <3>1, <1>0, ListKeep
  <2>10. m.heap[mp].entry = e
    BY <2>1, <2>3, <2>4, <2>7
  <2>11. \A b \in Blocks : h[b].kind = "mount" => m.heap[b].entry = h[b].entry
    BY <2>1, <2>4, <2>7
  <2>12. ASSUME NEW b \in Blocks
         PROVE  /\ m.heap[b].kind = "mount" =>
                     \E i \in 1 .. Len(Append(mounts, mp)) : Append(mounts, mp)[i] = b
                /\ m.heap[b].kind = "device" => \E i \in 1 .. Len(devices) : devices[i] = b
                /\ m.heap[b].kind # "handle"
    <3>1. mounts \in Seq(Blocks)
      BY <1>0 DEF IsList
    <3>2. /\ Len(Append(mounts, mp)) = Len(mounts) + 1
          /\ Append(mounts, mp)[Len(mounts) + 1] = mp
          /\ \A i \in 1 .. Len(mounts) : Append(mounts, mp)[i] = mounts[i]
          /\ Len(mounts) + 1 \in 1 .. (Len(mounts) + 1)
          /\ \A i \in 1 .. Len(mounts) : i \in 1 .. (Len(mounts) + 1)
      BY <3>1
    <3>3. CASE b = mp
      BY <3>2, <3>3, <2>3, <2>4, <2>7
    <3>4. CASE b # mp
      <4>1. m.heap[b].kind = h[b].kind
        BY <3>4, <2>4, <2>7
      <4> QED BY <4>1, <3>2 DEF BootHeap
    <3> QED BY <3>3, <3>4
  <2>13. BootHeap(m.heap, m.root, droot, Append(mounts, mp), devices)
    BY <2>7, <2>9, <2>12 DEF BootHeap
  <2> QED BY <2>1, <2>8, <2>10, <2>11, <2>13 DEF m
<1> QED BY <1>3, <1>4

IsReg(s) == s = [ok |-> s.ok, heap |-> s.heap, root |-> s.root]

Kept(g, h) == \A b \in Blocks : h[b].kind \in {"mount", "device"} => g[b] = h[b]

LEMMA RegisterIs ==
  ASSUME NEW s, IsReg(s), NEW name \in DOMAIN DeviceOps, NEW mroot, NEW mounts, NEW devices,
         BootHeap(s.heap, mroot, s.root, mounts, devices), NEW t, t = devfs_register(s, name)
  PROVE  /\ IsReg(t) /\ (t.ok => s.ok)
         /\ \E ds : BootHeap(t.heap, mroot, t.root, mounts, ds)
         /\ Kept(t.heap, s.heap)
         /\ t.ok => /\ t.root # NULL
                    /\ \E b \in Blocks : t.heap[b].kind = "device" /\ t.heap[b].name = name
<1> DEFINE h == s.heap
           b == kmalloc(h)
           r == [kind |-> "device", name |-> name, next |-> s.root]
<1>0. IsHeap(h) /\ IsList(h, mroot, "mount", mounts) /\ IsList(h, s.root, "device", devices)
  BY DEF BootHeap
<1>1. CASE b = NULL
  <2>1. t = [s EXCEPT !.ok = FALSE]
    BY <1>1 DEF devfs_register
  <2>2. t = [ok |-> FALSE, heap |-> s.heap, root |-> s.root]
    BY <2>1 DEF IsReg
  <2>3. IsReg(t) /\ t.ok = FALSE /\ t.heap = s.heap /\ t.root = s.root
    BY <2>2 DEF IsReg
  <2> QED BY <2>3 DEF Kept
<1>2. CASE b # NULL
  <2>1. b \in Blocks /\ h[b].kind = "free"
    BY <1>2, kmallocIs DEF Free
  <2> DEFINE g == [h EXCEPT ![b] = r]
  <2>2. t = [s EXCEPT !.root = b, !.heap = g]
    BY <1>2 DEF devfs_register
  <2> HIDE DEF g, b, r
  <2>3. t = [ok |-> s.ok, heap |-> g, root |-> b]
    BY <2>2 DEF IsReg
  <2>4. IsReg(t) /\ t.ok = s.ok /\ t.heap = g /\ t.root = b
    BY <2>3 DEF IsReg
  <2>5. r.kind = "device" /\ r.name = name /\ r.next = s.root
    BY DEF r
  <2>6. IsNode(r)
    <3>1. s.root \in Blocks \cup {NULL}
      BY <1>0 DEF IsList
    <3>2. r \in DeviceNodes
      BY <3>1 DEF DeviceNodes, r
    <3> QED BY <3>2 DEF IsNode
  <2>7. IsHeap(g) /\ g[b] = r /\ \A x \in Blocks : x # b => g[x] = h[x]
    <3>1. Writes(g, h, b, r)
      BY DEF Writes, g
    <3> QED BY <1>0, <2>1, <2>6, <3>1, SetNode
  <2>8. \A x \in Blocks : h[x].kind \in {"mount", "device"} => g[x] = h[x]
    BY <2>1, <2>7
  <2>9. IsList(g, mroot, "mount", mounts)
    <3>1. \A x \in Blocks : h[x].kind = "mount" => g[x].kind = "mount" /\ g[x].next = h[x].next
      BY <2>8
    <3> QED BY <3>1, <1>0, ListKeep
  <2>10. \A i \in 1 .. Len(devices) : devices[i] \in Blocks /\ h[devices[i]].kind = "device"
    BY <1>0 DEF IsList
  <2>11. IsList(g, b, "device", <<b>> \o devices)
    <3>1. \A i \in 1 .. Len(devices) :
            /\ devices[i] # b /\ g[devices[i]].kind = "device"
            /\ g[devices[i]].next = h[devices[i]].next
      BY <2>1, <2>8, <2>10
    <3> QED BY <3>1, <1>0, <2>1, <2>5, <2>7, ListPush
  <2>12. ASSUME NEW x \in Blocks
         PROVE  /\ g[x].kind = "mount" => \E i \in 1 .. Len(mounts) : mounts[i] = x
                /\ g[x].kind = "device" =>
                     \E i \in 1 .. Len(<<b>> \o devices) : (<<b>> \o devices)[i] = x
                /\ g[x].kind # "handle"
    <3>1. devices \in Seq(Blocks)
      BY <1>0 DEF IsList
    <3>2. /\ Len(<<b>> \o devices) = Len(devices) + 1 /\ (<<b>> \o devices)[1] = b
          /\ \A i \in 1 .. Len(devices) : (<<b>> \o devices)[i + 1] = devices[i]
          /\ 1 \in 1 .. (Len(devices) + 1)
          /\ \A i \in 1 .. Len(devices) : i + 1 \in 1 .. (Len(devices) + 1)
      BY <3>1, <2>1
    <3>3. CASE x = b
      BY <3>2, <3>3, <2>5, <2>7
    <3>4. CASE x # b
      <4>1. g[x] = h[x]
        BY <3>4, <2>7
      <4>2. /\ h[x].kind = "mount" => \E i \in 1 .. Len(mounts) : mounts[i] = x
            /\ h[x].kind = "device" => \E i \in 1 .. Len(devices) : devices[i] = x
            /\ h[x].kind # "handle"
        BY DEF BootHeap
      <4>3. ASSUME NEW i \in 1 .. Len(devices), devices[i] = x
            PROVE  \E j \in 1 .. Len(<<b>> \o devices) : (<<b>> \o devices)[j] = x
        BY <4>3, <3>2
      <4> QED BY <4>1, <4>2, <4>3
    <3> QED BY <3>3, <3>4
  <2>13. BootHeap(g, mroot, b, mounts, <<b>> \o devices)
    BY <2>7, <2>9, <2>11, <2>12 DEF BootHeap
  <2>14. b # NULL
    BY <1>2
  <2> QED BY <2>1, <2>4, <2>5, <2>7, <2>8, <2>13, <2>14 DEF Kept
<1> QED BY <1>1, <1>2

(* What the lists are is known from any heap that boot leaves behind. *)
LEMMA BootLists ==
  ASSUME NEW mounts, NEW devices,
         BootHeap(heap', mountpoints_root', devfs_root', mounts, devices)
  PROVE  MountList' = mounts /\ DeviceList' = devices
<1>1. /\ IsList(heap', mountpoints_root', "mount", mounts)
      /\ IsList(heap', devfs_root', "device", devices)
  BY DEF BootHeap
<1> QED BY <1>1, ChainIs DEF MountList, DeviceList

LEMMA BootStep ==
  ASSUME Inv, phase \in {"module", "devfs"}, UNCHANGED <<lost, call, calls>>,
         BootHeap(heap', mountpoints_root', devfs_root', MountList', DeviceList'),
         phase' \in {"devfs", "run", "panic", "wild"},
         phase' = "devfs" => devfs_root' = NULL
  PROVE  Inv'
<1>1. lost = {} /\ \A p \in Procs : call[p] = Idle
  BY DEF Inv, BootInv
<1>2. Idle.pc = "done" /\ Idle.op = "none"
  BY DEF Idle
<1>3. \A p \in Procs : ~Pends(p)' /\ ~Reads(p)' /\ ~InCall(p)'
  BY <1>1, <1>2 DEF Pends, Reads, InCall
<1>4. ScalarInv' /\ CallInv' /\ ListInv'
  BY DEF Inv, ScalarInv, CallInv, ListInv, BootHeap
<1>5. HoldInv'
  BY <1>1, <1>3 DEF HoldInv
<1>6. LeakInv'
  BY DEF LeakInv, BootHeap, Mounted, Registered
<1>7. PlaceInv' /\ AloneInv'
  BY <1>3 DEF PlaceInv, AloneInv
<1>8. BootInv'
  BY <1>1 DEF BootInv
<1> QED BY <1>4, <1>5, <1>6, <1>7, <1>8 DEF Inv

(* Boot begins with lists that hold every node. *)
LEMMA BootHeapNow ==
  ASSUME Inv, phase \in {"module", "devfs"}
  PROVE  BootHeap(heap, mountpoints_root, devfs_root, MountList, DeviceList)
<1>1. lost = {} /\ \A p \in Procs : call[p] = Idle
  BY DEF Inv, BootInv
<1>2. \A p \in Procs : ~Pends(p) /\ ~Reads(p)
  BY <1>1 DEF Pends, Reads, Idle
<1>3. ListInv /\ LeakInv
  BY DEF Inv
<1> QED BY <1>1, <1>2, <1>3 DEF BootHeap, ListInv, LeakInv, Mounted, Registered

InitrdEntry == [device |-> "initrd", target |-> <<"/">>, fs |-> "ustar"]
DevfsEntry == [device |-> "devfs", target |-> <<"/", "dev">>, fs |-> "devfs"]

LEMMA module_initFacts ==
  ASSUME Inv, module_init
  PROVE  /\ phase = "module" /\ UNCHANGED <<lost, call, calls, devfs_root>>
         /\ BootHeap(heap', mountpoints_root', devfs_root', MountList', DeviceList')
         /\ phase' \in {"devfs", "panic", "wild"} /\ devfs_root' = NULL
         /\ \/ UNCHANGED <<heap, mountpoints_root>>
            \/ \E mp \in Blocks : /\ MountList' = Append(MountList, mp)
                                  /\ heap'[mp].entry = InitrdEntry
                                  /\ \A b \in Blocks : heap[b].kind = "mount" =>
                                       heap'[b].entry = heap[b].entry
<1>1. /\ phase = "module" /\ UNCHANGED <<lost, call, calls, devfs_root>>
      /\ phase' \in {"devfs", "panic", "wild"}
  BY DEF module_init
<1>2. devfs_root = NULL
  BY <1>1 DEF Inv, BootInv
<1>3. BootHeap(heap, mountpoints_root, devfs_root, MountList, DeviceList)
  BY <1>1, BootHeapNow
<1>4. ASSUME UNCHANGED <<heap, mountpoints_root>>
      PROVE  BootHeap(heap', mountpoints_root', devfs_root', MountList', DeviceList')
  <2>1. MountList' = MountList /\ DeviceList' = DeviceList
    BY <1>1, <1>4 DEF MountList, DeviceList
  <2> QED BY <2>1, <1>1, <1>3, <1>4
<1>5. CASE modules = "loaded"
  <2>1. InitrdEntry \in AllEntries
    BY DEF AllEntries, BootEntries, InitrdEntry
  <2> DEFINE m == BootMount(heap, InitrdEntry)
  <2>2. heap' = m.heap /\ mountpoints_root' = m.root
    BY <1>5 DEF module_init, InitrdEntry
  <2>3. CASE m.heap = heap /\ m.root = mountpoints_root
    BY <2>2, <2>3, <1>1, <1>2, <1>4
  <2>4. ASSUME NEW mp \in Blocks,
               BootHeap(m.heap, m.root, devfs_root, Append(MountList, mp), DeviceList),
               m.heap[mp].entry = InitrdEntry,
               \A b \in Blocks : heap[b].kind = "mount" => m.heap[b].entry = heap[b].entry
        PROVE  /\ BootHeap(heap', mountpoints_root', devfs_root', MountList', DeviceList')
               /\ MountList' = Append(MountList, mp)
    <3> HIDE DEF m
    <3>1. BootHeap(heap', mountpoints_root', devfs_root', Append(MountList, mp), DeviceList)
      BY <1>1, <2>2, <2>4
    <3>2. MountList' = Append(MountList, mp) /\ DeviceList' = DeviceList
      BY <3>1, BootLists
    <3> QED BY <3>1, <3>2
  <2>5. \/ m.heap = heap /\ m.root = mountpoints_root
        \/ \E mp \in Blocks :
             /\ BootHeap(m.heap, m.root, devfs_root, Append(MountList, mp), DeviceList)
             /\ m.heap[mp].entry = InitrdEntry
             /\ \A b \in Blocks : heap[b].kind = "mount" => m.heap[b].entry = heap[b].entry
    BY <1>3, <2>1, BootMountIs
  <2> HIDE DEF m
  <2> QED BY <1>1, <1>2, <2>2, <2>3, <2>4, <2>5
<1>6. CASE modules # "loaded"
  <2>1. UNCHANGED <<heap, mountpoints_root>>
    BY <1>6 DEF module_init
  <2> QED BY <2>1, <1>1, <1>2, <1>4
<1> QED BY <1>5, <1>6

(* Every driver's node is in the heap. *)
Drivers(h) ==
  \A n \in DOMAIN DeviceOps : \E b \in Blocks : h[b].kind = "device" /\ h[b].name = n

LEMMA devfs_initFacts ==
  ASSUME Inv, devfs_init
  PROVE  /\ phase = "devfs" /\ UNCHANGED <<lost, call, calls>>
         /\ BootHeap(heap', mountpoints_root', devfs_root', MountList', DeviceList')
         /\ phase' \in {"run", "panic"}
         /\ phase' = "run" => devfs_root' # NULL /\ Drivers(heap')
         /\ \/ /\ MountList' = MountList
               /\ \A b \in Blocks : heap[b].kind = "mount" => heap'[b].entry = heap[b].entry
            \/ \E mp \in Blocks : /\ MountList' = Append(MountList, mp)
                                  /\ heap'[mp].entry = DevfsEntry
                                  /\ \A b \in Blocks : heap[b].kind = "mount" =>
                                       heap'[b].entry = heap[b].entry
<1> DEFINE m == BootMount(heap, DevfsEntry)
           s0 == [ok |-> TRUE, heap |-> m.heap, root |-> devfs_root]
           s1 == devfs_register(s0, "kbd")
           s2 == devfs_register(s1, "console")
           s3 == devfs_register(s2, "random")
<1>1. /\ phase = "devfs" /\ UNCHANGED <<lost, call, calls>>
      /\ mountpoints_root' = m.root /\ heap' = s3.heap /\ devfs_root' = s3.root
      /\ phase' = IF s3.ok THEN "run" ELSE "panic"
  BY DEF devfs_init, DevfsEntry
<1>2. DevfsEntry \in AllEntries
  BY DEF AllEntries, BootEntries, DevfsEntry
<1>3. BootHeap(heap, mountpoints_root, devfs_root, MountList, DeviceList)
  BY <1>1, BootHeapNow
<1>4. \/ m.heap = heap /\ m.root = mountpoints_root
      \/ \E mp \in Blocks :
           /\ BootHeap(m.heap, m.root, devfs_root, Append(MountList, mp), DeviceList)
           /\ m.heap[mp].entry = DevfsEntry
           /\ \A b \in Blocks : heap[b].kind = "mount" => m.heap[b].entry = heap[b].entry
           /\ \A b \in Blocks : heap[b].kind = "device" => m.heap[b] = heap[b]
  BY <1>2, <1>3, BootMountIs
<1>5. PICK mounts : /\ BootHeap(m.heap, m.root, devfs_root, mounts, DeviceList)
                    /\ \/ m.heap = heap /\ mounts = MountList
                       \/ \E mp \in Blocks :
                            /\ mounts = Append(MountList, mp) /\ m.heap[mp].entry = DevfsEntry
                            /\ \A b \in Blocks : heap[b].kind = "mount" =>
                                 m.heap[b].entry = heap[b].entry
  BY <1>3, <1>4
<1>6. DOMAIN DeviceOps = {"kbd", "console", "random"}
  BY DEF DeviceOps
<1>7. IsReg(s0) /\ s0.heap = m.heap /\ s0.root = devfs_root
  BY DEF IsReg
<1> HIDE DEF m, s0
<1>16. s1 = devfs_register(s0, "kbd")
  OBVIOUS
<1> HIDE DEF s1
<1>8. /\ IsReg(s1) /\ (s1.ok => s0.ok)
      /\ \E ds : BootHeap(s1.heap, m.root, s1.root, mounts, ds)
      /\ Kept(s1.heap, s0.heap)
      /\ s1.ok => \E b \in Blocks : s1.heap[b].kind = "device" /\ s1.heap[b].name = "kbd"
  <2>1. PICK ds : BootHeap(s0.heap, m.root, s0.root, mounts, ds)
    BY <1>5, <1>7
  <2>2. "kbd" \in DOMAIN DeviceOps
    BY <1>6
  <2> QED BY <1>7, <1>16, <2>1, <2>2, RegisterIs
<1>9. /\ IsReg(s2) /\ (s2.ok => s1.ok)
      /\ \E ds : BootHeap(s2.heap, m.root, s2.root, mounts, ds)
      /\ Kept(s2.heap, s1.heap)
      /\ s2.ok => \E b \in Blocks : s2.heap[b].kind = "device" /\ s2.heap[b].name = "console"
  <2>1. PICK ds : BootHeap(s1.heap, m.root, s1.root, mounts, ds)
    BY <1>8
  <2>2. "console" \in DOMAIN DeviceOps
    BY <1>6
  <2> QED BY <1>8, <2>1, <2>2, RegisterIs
<1> HIDE DEF s2
<1>10. /\ IsReg(s3) /\ (s3.ok => s2.ok)
       /\ \E ds : BootHeap(s3.heap, m.root, s3.root, mounts, ds)
       /\ Kept(s3.heap, s2.heap)
       /\ s3.ok => /\ s3.root # NULL
                   /\ \E b \in Blocks : s3.heap[b].kind = "device" /\ s3.heap[b].name = "random"
  <2>1. PICK ds : BootHeap(s2.heap, m.root, s2.root, mounts, ds)
    BY <1>9
  <2>2. "random" \in DOMAIN DeviceOps
    BY <1>6
  <2> QED BY <1>9, <2>1, <2>2, RegisterIs
<1> HIDE DEF s3
<1>11. PICK ds : BootHeap(heap', mountpoints_root', devfs_root', mounts, ds)
  BY <1>1, <1>10
<1>12. MountList' = mounts /\ DeviceList' = ds
  BY <1>11, BootLists
<1>13. \A b \in Blocks : m.heap[b].kind \in {"mount", "device"} =>
         heap'[b] = m.heap[b] /\ s1.heap[b] = m.heap[b]
  BY <1>1, <1>7, <1>8, <1>9, <1>10 DEF Kept
<1>14. s3.ok => Drivers(heap')
  <2>1. SUFFICES ASSUME s3.ok PROVE Drivers(heap')
    OBVIOUS
  <2>2. s1.ok /\ s2.ok
    BY <2>1, <1>9, <1>10
  <2>3. PICK b1 \in Blocks : s1.heap[b1].kind = "device" /\ s1.heap[b1].name = "kbd"
    BY <2>2, <1>8
  <2>4. PICK b2 \in Blocks : s2.heap[b2].kind = "device" /\ s2.heap[b2].name = "console"
    BY <2>2, <1>9
  <2>5. PICK b3 \in Blocks : s3.heap[b3].kind = "device" /\ s3.heap[b3].name = "random"
    BY <2>1, <1>10
  <2>6. s2.heap[b1] = s1.heap[b1] /\ s3.heap[b1] = s1.heap[b1] /\ s3.heap[b2] = s2.heap[b2]
    BY <2>3, <2>4, <1>9, <1>10 DEF Kept
  <2> QED BY <2>3, <2>4, <2>5, <2>6, <1>1, <1>6 DEF Drivers
<1>15. \/ /\ mounts = MountList
          /\ \A b \in Blocks : heap[b].kind = "mount" => heap'[b].entry = heap[b].entry
       \/ \E mp \in Blocks : /\ mounts = Append(MountList, mp)
                             /\ heap'[mp].entry = DevfsEntry
                             /\ \A b \in Blocks : heap[b].kind = "mount" =>
                                  heap'[b].entry = heap[b].entry
  <2>1. CASE m.heap = heap /\ mounts = MountList
    BY <2>1, <1>13
  <2>2. ASSUME NEW mp \in Blocks, mounts = Append(MountList, mp), m.heap[mp].entry = DevfsEntry,
               \A b \in Blocks : heap[b].kind = "mount" => m.heap[b].entry = heap[b].entry
        PROVE  /\ heap'[mp].entry = DevfsEntry
               /\ \A b \in Blocks : heap[b].kind = "mount" => heap'[b].entry = heap[b].entry
    <3>1. m.heap[mp].kind = "mount"
      <4>1. IsList(m.heap, m.root, "mount", mounts) /\ MountList \in Seq(Blocks)
        BY <1>3, <1>5 DEF BootHeap, IsList
      <4>2. Len(mounts) = Len(MountList) + 1 /\ mounts[Len(MountList) + 1] = mp
        BY <2>2, <4>1
      <4>3. Len(MountList) + 1 \in 1 .. Len(mounts)
        BY <4>1, <4>2
      <4> QED BY <4>1, <4>2, <4>3 DEF IsList
    <3>2. \A b \in Blocks : heap[b].kind = "mount" => m.heap[b].kind = "mount"
      <4>1. ASSUME NEW b \in Blocks, heap[b].kind = "mount" PROVE m.heap[b].kind = "mount"
        <5>1. PICK i \in 1 .. Len(MountList) : MountList[i] = b
          BY <4>1, <1>3 DEF BootHeap
        <5>2. IsList(m.heap, m.root, "mount", mounts) /\ MountList \in Seq(Blocks)
          BY <1>3, <1>5 DEF BootHeap, IsList
        <5>3. mounts[i] = b /\ i \in 1 .. Len(mounts)
          BY <5>1, <5>2, <2>2
        <5> QED BY <5>2, <5>3 DEF IsList
      <4> QED BY <4>1
    <3> QED BY <3>1, <3>2, <2>2, <1>13
  <2> QED BY <2>1, <2>2, <1>5
<1> QED BY <1>1, <1>10, <1>11, <1>12, <1>14, <1>15

-----------------------------------------------------------------------------
(* The invariant                                                           *)

LEMMA InitInv == Init => Inv
<1> SUFFICES ASSUME Init PROVE Inv
  OBVIOUS
<1>1. PICK used \in 0 .. Cardinality(Blocks) :
        heap = [b \in Blocks |-> IF b <= used THEN Other ELSE Free]
  BY DEF Init
<1>2. \A b \in Blocks : heap[b] \in {Free, Other}
  BY <1>1
<1>3. \A b \in Blocks : heap[b].kind \in {"free", "other"}
  BY <1>2 DEF Free, Other
<1>4. IsHeap(heap)
  BY <1>1, <1>2 DEF IsHeap, IsNode
<1>5. IsList(heap, NULL, "mount", <<>>) /\ IsList(heap, NULL, "device", <<>>)
  BY DEF IsList
<1>6. MountList = <<>> /\ DeviceList = <<>>
  BY <1>5, ChainIs DEF Init, MountList, DeviceList
<1>7. Idle.pc = "done" /\ \A p \in Procs : call[p] = Idle
  BY DEF Init, Idle
<1>8. ScalarInv /\ CallInv /\ ListInv
  <2>0. MaxCalls \in Nat
    BY VfsAssumption, Zenon
  <2>1. ScalarInv
    <3>1. phase = "module" /\ lost = {} /\ calls = 0
      BY DEF Init
    <3>2. 0 \in 0 .. MaxCalls
      BY <2>0
    <3> QED BY <3>1, <3>2 DEF ScalarInv
  <2>2. CallInv
    BY DEF Init, CallInv, IsCall
  <2>3. ListInv
    BY <1>4, <1>5, <1>6 DEF Init, ListInv
  <2> QED BY <2>1, <2>2, <2>3
<1>9. HoldInv
  BY <1>7 DEF Init, HoldInv, Pends, Reads
<1>10. LeakInv
  BY <1>3 DEF LeakInv
<1>11. PlaceInv /\ AloneInv
  BY <1>7 DEF PlaceInv, AloneInv, InCall
<1>12. BootInv
  BY <1>7 DEF Init, BootInv
<1> QED BY <1>8, <1>9, <1>10, <1>11, <1>12 DEF Inv

LEMMA NextInv == Inv /\ [Next]_vars => Inv'
<1> SUFFICES ASSUME Inv, [Next]_vars PROVE Inv'
  OBVIOUS
<1>1. CASE module_init
  BY <1>1, module_initFacts, BootStep
<1>2. CASE devfs_init
  BY <1>2, devfs_initFacts, BootStep
<1>3. CASE UNCHANGED vars
  <2>1. UNCHANGED <<phase, heap, mountpoints_root, devfs_root, lost, call, calls>>
    BY <1>3 DEF vars, listVars
  <2>2. MountList' = MountList /\ DeviceList' = DeviceList
    BY <2>1 DEF MountList, DeviceList
  <2>3. ScalarInv' /\ CallInv' /\ ListInv'
    BY <2>1, <2>2 DEF Inv, ScalarInv, CallInv, ListInv
  <2>4. HoldInv' /\ LeakInv'
    BY <2>1, <2>2 DEF Inv, HoldInv, LeakInv, Mounted, Registered, Pends, Reads
  <2>5. PlaceInv' /\ AloneInv' /\ BootInv'
    BY <2>1, <2>2 DEF Inv, PlaceInv, PlaceOK, AloneInv, BootInv, InCall, Mounted
  <2> QED BY <2>3, <2>4, <2>5 DEF Inv
<1>4. CASE Halted
  BY <1>3, <1>4 DEF Halted
<1>5. ASSUME NEW p \in Procs, Start(p) PROVE Inv'
  <2>1. ASSUME NEW path \in Paths, NEW size \in ReadSizes, StartAccess(p, "read", path, size)
        PROVE  Inv'
    BY <2>1, StartAccessStep
  <2>2. ASSUME NEW path \in Paths, NEW op \in {"write", "find"}, StartAccess(p, op, path, 0)
        PROVE  Inv'
    BY <2>2, StartAccessStep
  <2>3. ASSUME NEW e \in Entries, StartMount(p, e) PROVE Inv'
    BY <2>3, StartMountStep
  <2>4. ASSUME NEW d \in Entries, NEW e \in Entries, StartUnmount(p, d.device, e.target)
        PROVE  Inv'
    BY <2>4, StartUnmountStep
  <2> QED BY <1>5, <2>1, <2>2, <2>3, <2>4 DEF Start
<1>6. ASSUME NEW p \in Procs, Step(p) PROVE Inv'
  BY <1>6, WalkOnStep, WalkEndStep, ListFoundStep, MountLinkStep, UnmountRemoveStep,
     FoundStep, ReadDataStep, tarfs_closeStep DEF Step
<1>7. ASSUME NEW p \in Procs, KeysTyped(p) PROVE Inv'
  BY <1>7, KeysTypedStep
<1> QED BY <1>1, <1>2, <1>3, <1>4, <1>5, <1>6, <1>7 DEF Next

LEMMA InvHolds == Spec => []Inv
  BY InitInv, NextInv, PTL DEF Spec

(* Every block of the heap that the file systems take has exactly one      *)
(* owner, whatever calls are under way in however many processes.          *)
THEOREM OwnedHolds == Spec => []Owned
<1>1. Inv => Owned
  <2> SUFFICES ASSUME Inv PROVE Owned
    OBVIOUS
  <2>1. ListInv /\ HoldInv /\ LeakInv /\ CallInv
    BY DEF Inv
  <2>2. /\ DOMAIN MountList = 1 .. Len(MountList) /\ DOMAIN DeviceList = 1 .. Len(DeviceList)
        /\ IsInjective(MountList) /\ IsInjective(DeviceList)
    BY <2>1 DEF ListInv, IsList, IsInjective
  <2>3. /\ \A b : b \in ToSet(MountList) <=> Mounted(b)
        /\ \A b : b \in ToSet(DeviceList) <=> Registered(b)
    BY <2>2 DEF ToSet, Mounted, Registered
  <2>4. \A p : (p \in Pending <=> p \in Procs /\ Pends(p)) /\ (p \in Reading <=> p \in Procs /\ Reads(p))
    BY DEF Pending, Reading, Pends, Reads, InCall
  <2> DEFINE pending == {call[p].node : p \in Pending}
             handles == {call[p].node : p \in Reading}
  <2>5. /\ \A b : b \in pending <=> \E p \in Procs : Pends(p) /\ call[p].node = b
        /\ \A b : b \in handles <=> \E p \in Procs : Reads(p) /\ call[p].node = b
    BY <2>4
  <2> HIDE DEF pending, handles
  <2>6. ToSet(DeviceList) = Live("device")
    BY <2>1, <2>3, ListedAre DEF LeakInv, Live, Holds
  <2>7. ToSet(MountList) \cup pending \cup lost = Live("mount")
    <3>1. \A b : Mounted(b) \/ b \in pending \/ b \in lost => b \in Live("mount")
      BY <2>1, <2>5, ListedAre DEF HoldInv, Live, Holds
    <3>2. \A b \in Live("mount") : Mounted(b) \/ b \in pending \/ b \in lost
      BY <2>1, <2>5 DEF LeakInv, Live
    <3> QED BY <3>1, <3>2, <2>3
  <2>8. ToSet(MountList) \cap pending = {} /\ lost \cap (ToSet(MountList) \cup pending) = {}
    BY <2>1, <2>3, <2>5 DEF HoldInv
  <2>9. handles = Live("handle")
    BY <2>1, <2>5 DEF HoldInv, LeakInv, Live, Holds
  <2>10. \A p, q \in Reading : p # q => call[p].node # call[q].node
    BY <2>1, <2>4 DEF HoldInv
  <2>11. \A p \in Procs : call[p].pc \in {"walk", "search", "link", "remove"} =>
           call[p].cur \in ToSet(MountList) \cup {NULL}
    BY <2>3, AtEntry
  <2> QED BY <2>2, <2>6, <2>7, <2>8, <2>9, <2>10, <2>11 DEF Owned, pending, handles
<1> QED BY <1>1, InvHolds, PTL

-----------------------------------------------------------------------------
(* The table of files                                                      *)

(* The walk over an archive is a function: step n has a place to be at. *)
LEMMA VisitedIs ==
  ASSUME NEW mem, IsFiniteSet(DOMAIN mem)
  PROVE  DOMAIN Visited(mem) = 0 .. Cardinality(DOMAIN mem) /\ Cardinality(DOMAIN mem) \in Nat
<1> DEFINE C == Cardinality(DOMAIN mem)
           T(p) == IF IsHeader(mem, p) THEN Skip(mem, p) ELSE p
           Walks(f, k) == f = [n \in 0 .. k |-> IF n = 0 THEN 0 ELSE T(f[n - 1])]
           bad == {k \in Nat : ~\E f : Walks(f, k)}
<1>1. C \in Nat
  BY FS_CardinalityType
<1>2. bad = {}
  <2>1. SUFFICES ASSUME bad # {} PROVE FALSE
    OBVIOUS
  <2>2. PICK k \in bad : \A j \in bad : k <= j
    <3>1. bad \in SUBSET Nat
      OBVIOUS
    <3> HIDE DEF bad
    <3> QED BY <2>1, <3>1, LeastNat
  <2> HIDE DEF T
  <2>3. k \in Nat /\ k # 0
    <3>1. Walks([n \in 0 .. 0 |-> 0], 0)
      OBVIOUS
    <3> QED BY <3>1, <2>2
  <2>4. PICK f : Walks(f, k - 1)
    <3>1. k - 1 \in Nat /\ ~(k <= k - 1)
      BY <2>3
    <3>2. k - 1 \notin bad
      BY <3>1, <2>2
    <3> QED BY <3>1, <3>2
  <2> DEFINE g == [n \in 0 .. k |-> IF n < k THEN f[n] ELSE T(f[k - 1])]
  <2>5. \A n \in 0 .. k : g[n] = IF n = 0 THEN 0 ELSE T(g[n - 1])
    <3>1. SUFFICES ASSUME NEW n \in 0 .. k PROVE g[n] = IF n = 0 THEN 0 ELSE T(g[n - 1])
      OBVIOUS
    <3>2. CASE n = 0
      <4>1. g[n] = f[0] /\ f[0] = 0
        BY <3>2, <2>3, <2>4
      <4> QED BY <3>2, <4>1
    <3>3. CASE n # 0 /\ n < k
      <4>1. n \in 0 .. (k - 1) /\ n - 1 \in 0 .. k /\ n - 1 < k
        BY <3>3, <2>3
      <4>2. g[n] = f[n] /\ g[n - 1] = f[n - 1]
        BY <4>1, <3>3
      <4>3. f[n] = T(f[n - 1])
        BY <4>1, <3>3, <2>4
      <4> QED BY <4>2, <4>3, <3>3
    <3>4. CASE n # 0 /\ n = k
      <4>1. g[n] = T(f[k - 1]) /\ k - 1 \in 0 .. k /\ k - 1 < k
        BY <3>4, <2>3
      <4>2. g[n - 1] = f[k - 1]
        BY <4>1, <3>4
      <4> QED BY <4>1, <4>2, <3>4
    <3> QED BY <3>2, <3>3, <3>4, <2>3
  <2>6. Walks(g, k)
    <3>1. g = [n \in 0 .. k |-> g[n]]
      OBVIOUS
    <3> HIDE DEF g
    <3> QED BY <2>5, <3>1
  <2> QED BY <2>2, <2>6
<1>3. \E f : Walks(f, C)
  BY <1>1, <1>2
<1>4. Visited(mem) = CHOOSE f : Walks(f, C)
  BY Zenon DEF Visited
<1>5. Walks(Visited(mem), C)
  <2> HIDE DEF Walks
  <2> QED BY <1>3, <1>4, Zenon
<1>6. DOMAIN Visited(mem) = 0 .. C
  <2> HIDE DEF T
  <2> QED BY <1>5
<1> QED BY <1>1, <1>6

LEMMA TableFits ==
  ASSUME NEW mem, IsFiniteSet(DOMAIN mem)
  PROVE  Len(tarfs_init(mem)) \in Nat /\ Len(tarfs_init(mem)) <= MAX_TAR_FILES
<1> DEFINE ptr == Visited(mem)
           heads == {n \in DOMAIN ptr : IsHeader(mem, ptr[n])}
           k == IF Headers(mem) < MAX_TAR_FILES THEN Headers(mem) ELSE MAX_TAR_FILES
<1>1. IsFiniteSet(0 .. Cardinality(DOMAIN mem)) /\ DOMAIN ptr = 0 .. Cardinality(DOMAIN mem)
  BY VisitedIs, FS_Interval
<1>2. IsFiniteSet(heads)
  <2>1. heads \in SUBSET (0 .. Cardinality(DOMAIN mem))
    BY <1>1
  <2> HIDE DEF heads
  <2> QED BY <1>1, <2>1, FS_Subset
<1>3. Headers(mem) \in Nat
  BY <1>2, FS_CardinalityType DEF Headers
<1>4. k \in Nat /\ k <= MAX_TAR_FILES
  BY <1>3, TarAssumption
<1>5. tarfs_init(mem) = [i \in 1 .. k |-> TarFile(mem, ptr[i - 1])]
  BY DEF tarfs_init
<1> HIDE DEF k, ptr
<1>6. Len(tarfs_init(mem)) = k
  BY <1>4, <1>5
<1> QED BY <1>4, <1>6

(* The archive is one that can be loaded, and its table fits. *)
TarInv == archive \in Archives /\ Len(tar_files) <= MAX_TAR_FILES

LEMMA TarHolds == Spec => []TarInv
<1>1. Init => TarInv
  <2>1. Len(<<>>) = 0 /\ 0 <= MAX_TAR_FILES
    BY TarAssumption
  <2> QED BY <2>1 DEF Init, TarInv
<1>2. TarInv /\ [Next]_vars => TarInv'
  <2> SUFFICES ASSUME TarInv, [Next]_vars PROVE TarInv'
    OBVIOUS
  <2>1. CASE UNCHANGED bootVars
    BY <2>1 DEF TarInv, bootVars
  <2>2. CASE module_init
    <3>1. archive' = archive /\ (tar_files' = tar_files \/ tar_files' = tarfs_init(archive.mem))
      BY <2>2 DEF module_init
    <3>2. IsFiniteSet(DOMAIN archive.mem)
      BY ArchiveAssumption DEF TarInv
    <3>3. Len(tarfs_init(archive.mem)) <= MAX_TAR_FILES
      BY <3>2, TableFits
    <3> QED BY <3>1, <3>3 DEF TarInv
  <2>3. CASE devfs_init \/ Halted \/ UNCHANGED vars
    BY <2>1, <2>3 DEF devfs_init, Halted, vars
  <2>4. ASSUME NEW p \in Procs, Start(p) \/ Step(p) \/ KeysTyped(p) PROVE TarInv'
    <3>1. UNCHANGED bootVars
      BY <2>4 DEF Start, Step, StartAccess, StartMount, StartUnmount, WalkOn, WalkEnd, ListFound,
         MountLink, UnmountRemove, ReadFound, ReadSearch, WriteFound, FindFound,
         ReadData, tarfs_close, KeysTyped
    <3> QED BY <3>1, <2>1
  <2> QED BY <2>1, <2>2, <2>3, <2>4 DEF Next
<1> QED BY <1>1, <1>2, PTL DEF Spec

(* Whatever the archive holds, tar_files is not written past its end, and  *)
(* the lists' roots are blocks or NULL.                                    *)
THEOREM TypeCorrect == Spec => []TypeOK
<1>1. Inv /\ TarInv => TypeOK
  <2> SUFFICES ASSUME Inv, TarInv PROVE TypeOK
    OBVIOUS
  <2>1. \A b \in Blocks : heap[b].kind \in {"free", "other", "mount", "device", "handle"}
    BY KindOf DEF Inv, ListInv, IsHeap
  <2>2. {mountpoints_root, devfs_root} \subseteq Blocks \cup {NULL}
    BY DEF Inv, ListInv, IsList
  <2> QED BY <2>1, <2>2 DEF Inv, ScalarInv, TarInv, TypeOK
<1> QED BY <1>1, InvHolds, TarHolds, PTL

-----------------------------------------------------------------------------
(* The table that the linked list implements                               *)

LEMMA EntriesOf ==
  ASSUME NEW h, IsHeap(h), NEW root, NEW s, IsList(h, root, "mount", s),
         NEW t, t = [i \in DOMAIN s |-> h[s[i]].entry]
  PROVE  /\ t \in Seq(AllEntries) /\ Len(t) = Len(s) /\ DOMAIN t = 1 .. Len(s)
         /\ \A i \in 1 .. Len(s) : t[i] = h[s[i]].entry
<1> DEFINE n == Len(s)
<1>1. s \in Seq(Blocks) /\ n \in Nat /\ DOMAIN s = 1 .. n
  BY DEF IsList
<1>2. \A i \in 1 .. n : h[s[i]].entry \in AllEntries
  <2> SUFFICES ASSUME NEW i \in 1 .. n PROVE h[s[i]].entry \in AllEntries
    OBVIOUS
  <2>1. s[i] \in Blocks /\ h[s[i]].kind = "mount"
    BY <1>1 DEF IsList
  <2>2. h[s[i]] \in MountNodes
    BY <2>1, KindOf DEF IsHeap
  <2> QED BY <2>2 DEF MountNodes
<1> HIDE DEF n
<1>3. t = [i \in 1 .. n |-> h[s[i]].entry]
  BY <1>1
<1>4. t \in [1 .. n -> AllEntries]
  BY <1>2, <1>3
<1>5. t \in Seq(AllEntries) /\ Len(t) = n
  BY <1>1, <1>4
<1> QED BY <1>3, <1>5 DEF n

IsTable(t, s, h) ==
  /\ t \in Seq(AllEntries) /\ Len(t) = Len(s) /\ DOMAIN t = 1 .. Len(s)
  /\ \A i \in 1 .. Len(s) : t[i] = h[s[i]].entry

LEMMA TableIs == ListInv => IsTable(Table, MountList, heap)
<1> SUFFICES ASSUME ListInv PROVE IsTable(Table, MountList, heap)
  OBVIOUS
<1>1. IsHeap(heap) /\ IsList(heap, mountpoints_root, "mount", MountList)
  BY DEF ListInv
<1>2. Table = [i \in DOMAIN MountList |-> heap[MountList[i]].entry]
  BY DEF Table
<1> QED BY <1>1, <1>2, EntriesOf DEF IsTable

LEMMA TableIsNext == ListInv' => IsTable(Table', MountList', heap')
<1> SUFFICES ASSUME ListInv' PROVE IsTable(Table', MountList', heap')
  OBVIOUS
<1>1. IsHeap(heap') /\ IsList(heap', mountpoints_root', "mount", MountList')
  BY DEF ListInv
<1>2. Table' = [i \in DOMAIN MountList' |-> heap'[MountList'[i]].entry]
  BY DEF Table
<1> QED BY <1>1, <1>2, EntriesOf DEF IsTable

(* A step that leaves the lists and their nodes alone. *)
Steady == /\ MountList' = MountList /\ DeviceList' = DeviceList /\ Kept(heap', heap)

LEMMA SteadyTable ==
  ASSUME ListInv, Steady
  PROVE  Table' = Table
<1>1. MountList \in Seq(Blocks) /\ DOMAIN MountList = 1 .. Len(MountList)
  BY DEF ListInv, IsList
<1>2. \A i \in DOMAIN MountList : heap'[MountList[i]] = heap[MountList[i]]
  BY <1>1 DEF ListInv, IsList, Steady, Kept
<1> QED BY <1>2 DEF Table, Steady

LEMMA GrowTable ==
  ASSUME ListInv, ListInv', NEW mp, MountList' = Append(MountList, mp),
         \A b \in Blocks : heap[b].kind = "mount" => heap'[b].entry = heap[b].entry
  PROVE  /\ Table' = Append(Table, heap'[mp].entry) /\ heap'[mp].entry \in AllEntries
         /\ Len(MountList') = Len(MountList) + 1 /\ Len(Table') = Len(Table) + 1
         /\ \A i \in 1 .. Len(MountList) : MountList'[i] = MountList[i] /\ Table'[i] = Table[i]
<1> DEFINE n == Len(MountList)
<1>1. MountList \in Seq(Blocks) /\ n \in Nat /\ MountList' \in Seq(Blocks)
  BY DEF ListInv, IsList
<1>2. mp \in Blocks
  <2>1. Len(MountList') = n + 1 /\ MountList'[n + 1] = mp
    BY <1>1
  <2> QED BY <2>1, <1>1
<1>3. Len(MountList') = n + 1 /\ MountList'[n + 1] = mp /\ \A i \in 1 .. n : MountList'[i] = MountList[i]
  BY <1>1
<1>4. /\ Table \in Seq(AllEntries) /\ Len(Table) = n
      /\ \A i \in 1 .. n : Table[i] = heap[MountList[i]].entry
  BY TableIs DEF IsTable
<1>5. /\ Table' \in Seq(AllEntries) /\ Len(Table') = n + 1
      /\ \A i \in 1 .. (n + 1) : Table'[i] = heap'[MountList'[i]].entry
  BY <1>3, TableIsNext DEF IsTable
<1>6. \A i \in 1 .. n : Table'[i] = Table[i]
  <2> SUFFICES ASSUME NEW i \in 1 .. n PROVE Table'[i] = Table[i]
    OBVIOUS
  <2>1. MountList[i] \in Blocks /\ heap[MountList[i]].kind = "mount"
    BY <1>1 DEF ListInv, IsList
  <2> QED BY <2>1, <1>1, <1>3, <1>4, <1>5
<1>7. Table'[n + 1] = heap'[mp].entry
  BY <1>1, <1>3, <1>5
<1>8. heap'[mp].entry \in AllEntries
  BY <1>1, <1>5, <1>7
<1> HIDE DEF n
<1>9. PICK t, u, e : t = Table /\ u = Table' /\ e = heap'[mp].entry
  OBVIOUS
<1>10. u = Append(t, e)
  <2>1. /\ t \in Seq(AllEntries) /\ u \in Seq(AllEntries) /\ e \in AllEntries
        /\ Len(t) = n /\ Len(u) = n + 1 /\ u[n + 1] = e /\ \A i \in 1 .. n : u[i] = t[i]
    BY <1>4, <1>5, <1>6, <1>7, <1>8, <1>9
  <2>2. Append(t, e) \in Seq(AllEntries) /\ Len(Append(t, e)) = n + 1
    BY <2>1
  <2>3. \A i \in 1 .. (n + 1) : u[i] = Append(t, e)[i]
    BY <2>1, <1>1 DEF n
  <2> QED BY <2>1, <2>2, <2>3
<1> QED BY <1>3, <1>4, <1>5, <1>6, <1>8, <1>9, <1>10 DEF n

LEMMA ShrinkTable ==
  ASSUME ListInv, ListInv', NEW m \in 1 .. Len(MountList), MountList' = RemoveAt(MountList, m),
         \A b \in Blocks \ {MountList[m]} :
           heap[b].kind = "mount" => heap'[b].entry = heap[b].entry
  PROVE  Table' = RemoveAt(Table, m)
<1> DEFINE n == Len(MountList)
<1>1. MountList \in Seq(Blocks) /\ n \in Nat /\ m \in 1 .. n
  BY DEF ListInv, IsList
<1>2. /\ Len(MountList') = n - 1
      /\ \A i \in 1 .. (n - 1) : MountList'[i] = IF i < m THEN MountList[i] ELSE MountList[i + 1]
  BY <1>1, RemoveAtIs
<1>3. /\ Table \in Seq(AllEntries) /\ Len(Table) = n
      /\ \A i \in 1 .. n : Table[i] = heap[MountList[i]].entry
  BY TableIs DEF IsTable
<1>4. /\ Table' \in Seq(AllEntries) /\ Len(Table') = n - 1
      /\ \A i \in 1 .. (n - 1) : Table'[i] = heap'[MountList'[i]].entry
  BY <1>2, TableIsNext DEF IsTable
<1>5. \A i \in 1 .. n : i # m => heap'[MountList[i]].entry = Table[i]
  <2> SUFFICES ASSUME NEW i \in 1 .. n, i # m PROVE heap'[MountList[i]].entry = Table[i]
    OBVIOUS
  <2>1. /\ MountList[i] \in Blocks /\ heap[MountList[i]].kind = "mount"
        /\ MountList[i] # MountList[m]
    BY <1>1 DEF ListInv, IsList
  <2> QED BY <2>1, <1>3
<1>6. \A i \in 1 .. (n - 1) : Table'[i] = IF i < m THEN Table[i] ELSE Table[i + 1]
  <2> SUFFICES ASSUME NEW i \in 1 .. (n - 1)
               PROVE  Table'[i] = IF i < m THEN Table[i] ELSE Table[i + 1]
    OBVIOUS
  <2>1. i \in 1 .. n /\ i + 1 \in 1 .. n /\ (~(i < m) => i + 1 # m) /\ (i < m => i # m)
    BY <1>1
  <2> QED BY <2>1, <1>2, <1>4, <1>5
<1> HIDE DEF n
<1>7. PICK t, u : t = Table /\ u = Table'
  OBVIOUS
<1>8. u = RemoveAt(t, m)
  <2>1. /\ t \in Seq(AllEntries) /\ u \in Seq(AllEntries) /\ Len(t) = n /\ Len(u) = n - 1
        /\ \A i \in 1 .. (n - 1) : u[i] = IF i < m THEN t[i] ELSE t[i + 1]
    BY <1>3, <1>4, <1>6, <1>7
  <2>2. m \in 1 .. Len(t)
    BY <2>1, <1>1
  <2>3. /\ RemoveAt(t, m) \in Seq(AllEntries) /\ Len(RemoveAt(t, m)) = n - 1
        /\ \A i \in 1 .. (n - 1) : RemoveAt(t, m)[i] = IF i < m THEN t[i] ELSE t[i + 1]
    BY <2>1, <2>2, RemoveAtIs
  <2>4. \A i \in 1 .. (n - 1) : u[i] = RemoveAt(t, m)[i]
    BY <2>1, <2>3
  <2> QED BY <2>1, <2>3, <2>4
<1> QED BY <1>7, <1>8

LEMMA SameSteady ==
  ASSUME heap' = heap, mountpoints_root' = mountpoints_root, devfs_root' = devfs_root
  PROVE  Steady
  BY DEF Steady, MountList, DeviceList, Kept

LEMMA BlockSteady ==
  ASSUME Inv, NEW b \in Blocks, heap[b].kind \in {"free", "handle"}, NEW r, IsNode(r),
         heap' = [heap EXCEPT ![b] = r],
         mountpoints_root' = mountpoints_root, devfs_root' = devfs_root
  PROVE  Steady
<1>1. ListInv
  BY DEF Inv
<1>2. /\ MountList' = MountList /\ DeviceList' = DeviceList
      /\ \A x \in Blocks : x # b => heap'[x] = heap[x]
  BY <1>1, BlockStep
<1> QED BY <1>2 DEF Steady, Kept

LEMMA tarfs_openSteady ==
  ASSUME Inv, NEW p, NEW name, kmalloc(heap) # NULL, tarfs_open(p, name)
  PROVE  Steady
<1> DEFINE b == kmalloc(heap)
           r == [kind |-> "handle", offset |-> 0, file |-> tarfs_find(tar_files, name)]
<1>1. b \in Blocks /\ heap[b].kind = "free"
  BY kmallocIs DEF Free
<1>2. heap' = [heap EXCEPT ![b] = r] /\ mountpoints_root' = mountpoints_root /\ devfs_root' = devfs_root
  BY DEF tarfs_open, listVars
<1>3. IsNode(r)
  BY DEF IsNode, IsHandle
<1> HIDE DEF b, r
<1> QED BY <1>1, <1>2, <1>3, BlockSteady

(* Only the write that links an entry, and the one that takes it out,      *)
(* change what a walk can see.                                             *)
LEMMA StepSteady ==
  ASSUME Inv, NEW p \in Procs, Start(p) \/ Step(p) \/ KeysTyped(p),
         ~MountLink(p), ~UnmountRemove(p)
  PROVE  Steady
<1>1. CASE UNCHANGED <<heap, listVars>>
  BY <1>1, SameSteady DEF listVars
<1>2. ASSUME NEW e \in Entries, StartMount(p, e) PROVE Steady
  <2> DEFINE mp == kmalloc(heap)
             r == vfs_create_mountpoint(e)
  <2>1. UNCHANGED <<mountpoints_root, devfs_root>>
    BY <1>2 DEF StartMount
  <2>2. CASE mp = NULL
    BY <2>1, <2>2, <1>2, SameSteady DEF StartMount
  <2>3. CASE mp # NULL
    <3>1. mp \in Blocks /\ heap[mp].kind = "free"
      BY <2>3, kmallocIs DEF Free
    <3>2. heap' = [heap EXCEPT ![mp] = r]
      BY <2>3, <1>2 DEF StartMount
    <3>3. IsNode(r)
      BY NewMount DEF AllEntries
    <3> HIDE DEF mp, r
    <3> QED BY <2>1, <3>1, <3>2, <3>3, BlockSteady
  <2> QED BY <2>2, <2>3
<1>3. CASE Start(p)
  BY <1>1, <1>2, <1>3 DEF Start, StartAccess, StartUnmount
<1>4. ASSUME NEW name, devfs_read(p, name) PROVE Steady
  BY <1>1, <1>4 DEF devfs_read, Wild
<1>5. CASE ReadFound(p)
  BY <1>1, <1>4, <1>5, tarfs_openSteady DEF ReadFound, Opens
<1>6. CASE ReadSearch(p)
  BY <1>1, <1>4, <1>6, tarfs_openSteady DEF ReadSearch, Opens, Wild
<1>7. CASE ReadData(p)
  <2> DEFINE b == call[p].node
             h == heap[b]
             x == tarfs_read(h, call[p].size)
             r == [h EXCEPT !.offset = @ + x.n]
  <2>1. call[p].pc = "read" /\ heap' = [heap EXCEPT ![b] = r] /\ UNCHANGED listVars
    BY <1>7 DEF ReadData
  <2>2. b \in Blocks /\ h.kind = "handle" /\ IsHandle(h)
    BY <2>1, KindOf DEF Inv, HoldInv, Reads, Holds, ListInv, IsHeap
  <2>3. r = [kind |-> "handle", offset |-> h.offset + x.n, file |-> h.file]
    <3> HIDE DEF x, h
    <3> QED BY <2>2 DEF IsHandle
  <2>4. IsNode(r)
    <3> HIDE DEF x, r, h
    <3> QED BY <2>3 DEF IsNode, IsHandle
  <2>5. UNCHANGED <<mountpoints_root, devfs_root>> /\ heap[b].kind = "handle"
    BY <2>1, <2>2 DEF listVars
  <2> HIDE DEF b, r
  <2> QED BY <2>1, <2>2, <2>4, <2>5, BlockSteady
<1>8. CASE tarfs_close(p)
  <2>1. /\ call[p].pc = "close" /\ heap' = [heap EXCEPT ![call[p].node] = Free]
        /\ UNCHANGED <<mountpoints_root, devfs_root>>
    BY <1>8 DEF tarfs_close, listVars
  <2>2. call[p].node \in Blocks /\ heap[call[p].node].kind = "handle" /\ IsNode(Free)
    BY <2>1 DEF Inv, HoldInv, Reads, Holds, IsNode
  <2> QED BY <2>1, <2>2, BlockSteady
<1>9. CASE WalkOn(p) \/ WalkEnd(p) \/ ListFound(p) \/ WriteFound(p) \/ FindFound(p) \/ KeysTyped(p)
  BY <1>1, <1>9 DEF WalkOn, Wild, WalkEnd, ListFound, WriteFound, FindFound, KeysTyped
<1> QED BY <1>3, <1>5, <1>6, <1>7, <1>8, <1>9 DEF Step

-----------------------------------------------------------------------------
(* What a walk has passed                                                  *)

(* The walk of call c goes on behind entry e. *)
Passes(c, e) ==
  IF c.op = "umount" THEN e.device # c.device /\ e.target # c.target
  ELSE ~Matches(e.target, c.path)

(* The walk stands at entry k, and none of those before has stopped it. *)
Reached(c, s, t, k) == c.cur = s[k] /\ \A j \in 1 .. (k - 1) : Passes(c, t[j])

(* s is the list and t the table: while a call walks, entries are added    *)
(* only behind those that were there when it began.                        *)
SeekOK(c, s, t) ==
  /\ c.op \in {"read", "write", "find"} =>
       /\ c.before \in Seq(AllEntries)
       /\ Len(c.before) <= Len(t) /\ \A j \in 1 .. Len(c.before) : c.before[j] = t[j]
       /\ c.pc = "search" \/ (c.pc = "walk" /\ c.cur = NULL) =>
            \A j \in 1 .. Len(c.before) : Passes(c, c.before[j])
  /\ c.op # "mount" /\ c.pc = "walk" /\ c.cur # NULL => \E k \in 1 .. Len(s) : Reached(c, s, t, k)
  /\ c.pc = "remove" => \E k \in 1 .. Len(s) : Reached(c, s, t, k) /\ ~Passes(c, t[k])

SeekInv == \A p \in Procs : InCall(p) => SeekOK(call[p], MountList, Table)

(* A mount's walk is looking for nothing. *)
LEMMA MountSeeks ==
  ASSUME NEW c, c.op = "mount", c.pc # "remove", NEW s, NEW t
  PROVE  SeekOK(c, s, t)
  BY DEF SeekOK

LEMMA SeekGrow ==
  ASSUME NEW c, c.op # "umount", c.pc # "remove", NEW s, NEW t, NEW u, NEW v, SeekOK(c, s, t),
         Len(s) \in Nat, Len(t) = Len(s), Len(u) = Len(s) + 1, Len(v) = Len(s) + 1,
         \A i \in 1 .. Len(s) : u[i] = s[i] /\ v[i] = t[i]
  PROVE  SeekOK(c, u, v)
<1>1. CASE c.op \in {"read", "write", "find"}
  <2>1. /\ c.before \in Seq(AllEntries)
        /\ Len(c.before) <= Len(t) /\ \A j \in 1 .. Len(c.before) : c.before[j] = t[j]
        /\ c.pc = "search" \/ (c.pc = "walk" /\ c.cur = NULL) =>
            \A j \in 1 .. Len(c.before) : Passes(c, c.before[j])
    BY <1>1 DEF SeekOK
  <2>2. Len(c.before) \in Nat
    BY <2>1
  <2> DEFINE m == Len(c.before)
  <2>3. m <= Len(v) /\ \A j \in 1 .. m : c.before[j] = v[j]
    BY <2>1, <2>2
  <2>4. ASSUME c.pc = "walk", c.cur # NULL PROVE \E k \in 1 .. Len(u) : Reached(c, u, v, k)
    <3>1. PICK k \in 1 .. Len(s) : Reached(c, s, t, k)
      BY <1>1, <2>4 DEF SeekOK
    <3>2. k \in 1 .. Len(u) /\ c.cur = u[k]
      BY <3>1 DEF Reached
    <3>3. \A j \in 1 .. (k - 1) : j \in 1 .. Len(s) /\ Passes(c, t[j])
      BY <3>1 DEF Reached
    <3>4. \A j \in 1 .. (k - 1) : Passes(c, v[j])
      BY <3>3
    <3> QED BY <3>2, <3>4 DEF Reached
  <2> QED BY <2>1, <2>3, <2>4, <1>1 DEF SeekOK
<1>2. CASE c.op \notin {"read", "write", "find"}
  <2>1. ASSUME c.op # "mount", c.pc = "walk", c.cur # NULL
        PROVE \E k \in 1 .. Len(u) : Reached(c, u, v, k)
    <3>1. PICK k \in 1 .. Len(s) : Reached(c, s, t, k)
      BY <2>1 DEF SeekOK
    <3>2. k \in 1 .. Len(u) /\ c.cur = u[k]
      BY <3>1 DEF Reached
    <3>3. \A j \in 1 .. (k - 1) : j \in 1 .. Len(s) /\ Passes(c, t[j])
      BY <3>1 DEF Reached
    <3>4. \A j \in 1 .. (k - 1) : Passes(c, v[j])
      BY <3>3
    <3> QED BY <3>2, <3>4 DEF Reached
  <2> QED BY <2>1, <1>2 DEF SeekOK
<1> QED BY <1>1, <1>2

(* The call of one process goes on, and the lists stay. *)
LEMMA SeekStep ==
  ASSUME Inv, SeekInv, Steady, NEW p \in Procs, NEW d, call' = [call EXCEPT ![p] = d],
         d.pc # "done" => SeekOK(d, MountList, Table)
  PROVE  SeekInv'
<1>1. Table' = Table /\ MountList' = MountList
  BY SteadyTable DEF Inv, Steady
<1>2. call'[p] = d /\ \A q \in Procs : q # p => call'[q] = call[q]
  BY CallAt DEF Inv, CallInv
<1> QED BY <1>1, <1>2 DEF SeekInv, InCall

LEMMA SeekEnd ==
  ASSUME Inv, SeekInv, Steady, NEW p \in Procs, call' = [call EXCEPT ![p] = Idle]
  PROVE  SeekInv'
<1>1. Idle.pc = "done"
  BY DEF Idle
<1> HIDE DEF Idle
<1> QED BY <1>1, SeekStep

LEMMA SeekSame ==
  ASSUME Inv, SeekInv, Steady, call' = call
  PROVE  SeekInv'
<1>1. Table' = Table /\ MountList' = MountList
  BY SteadyTable DEF Inv, Steady
<1> QED BY <1>1 DEF SeekInv, InCall

(* A walk begins at the first entry, with none behind it. *)
LEMMA SeekFirst ==
  ASSUME ListInv, NEW c, c.cur = mountpoints_root, c.cur # NULL
  PROVE  \E k \in 1 .. Len(MountList) : Reached(c, MountList, Table, k)
<1>1. Len(MountList) \in Nat /\ mountpoints_root = IF Len(MountList) = 0 THEN NULL ELSE MountList[1]
  BY DEF ListInv, IsList
<1>2. 1 \in 1 .. Len(MountList) /\ c.cur = MountList[1]
  BY <1>1
<1>3. \A j \in 1 .. (1 - 1) : Passes(c, Table[j])
  OBVIOUS
<1> QED BY <1>2, <1>3 DEF Reached

LEMMA StartAccessSeeks ==
  ASSUME Inv, SeekInv, NEW p \in Procs, NEW op \in {"read", "write", "find"}, NEW path,
         NEW size, StartAccess(p, op, path, size)
  PROVE  SeekInv'
<1>1. Steady
  BY SameSteady DEF StartAccess, listVars
<1>2. CASE op = "write" /\ path = NullPath
  <2>1. call' = [call EXCEPT ![p] = Idle]
    BY <1>2 DEF StartAccess, Returns
  <2> QED BY <1>1, <2>1, SeekEnd
<1>3. CASE ~(op = "write" /\ path = NullPath)
  <2> DEFINE c == [op |-> op, pc |-> "walk", cur |-> mountpoints_root, path |-> path,
                   size |-> size, node |-> NULL, before |-> Table]
  <2>1. call' = [call EXCEPT ![p] = c]
    BY <1>3 DEF StartAccess, Goes
  <2>2. c.op = op /\ c.pc = "walk" /\ c.cur = mountpoints_root /\ c.before = Table
    OBVIOUS
  <2> HIDE DEF c
  <2>3. ListInv
    BY DEF Inv
  <2>4. Table \in Seq(AllEntries) /\ Len(Table) = Len(MountList) /\ Len(Table) \in Nat
    BY <2>3, TableIs DEF IsTable
  <2>5. c.cur # NULL => \E k \in 1 .. Len(MountList) : Reached(c, MountList, Table, k)
    BY <2>2, <2>3, SeekFirst
  <2>6. c.cur = NULL => Len(Table) = 0
    <3>1. mountpoints_root = NULL <=> MountList = <<>>
      BY <2>3, ListedAre
    <3> QED BY <3>1, <2>2, <2>4
  <2>7. c.cur = NULL => \A j \in 1 .. Len(Table) : Passes(c, Table[j])
    BY <2>6
  <2>8. SeekOK(c, MountList, Table)
    BY <2>2, <2>4, <2>5, <2>7 DEF SeekOK
  <2> QED BY <1>1, <2>1, <2>8, SeekStep
<1> QED BY <1>2, <1>3

LEMMA StartMountSeeks ==
  ASSUME Inv, SeekInv, NEW p \in Procs, NEW e \in Entries, StartMount(p, e), Steady
  PROVE  SeekInv'
<1> DEFINE mp == kmalloc(heap)
           c == [op |-> "mount", pc |-> "walk", cur |-> mountpoints_root, node |-> mp]
<1>1. call' = [call EXCEPT ![p] = Idle] \/ call' = [call EXCEPT ![p] = c]
  BY DEF StartMount, Returns, Goes
<1>2. c.op = "mount" /\ c.pc = "walk"
  OBVIOUS
<1> HIDE DEF c
<1>3. SeekOK(c, MountList, Table)
  BY <1>2, MountSeeks
<1> QED BY <1>1, <1>3, SeekEnd, SeekStep

LEMMA StartUnmountSeeks ==
  ASSUME Inv, SeekInv, NEW p \in Procs, NEW device, NEW target, StartUnmount(p, device, target)
  PROVE  SeekInv'
<1>1. Steady
  BY SameSteady DEF StartUnmount, listVars
<1> DEFINE c == [op |-> "umount", pc |-> "walk", cur |-> mountpoints_root,
                 device |-> device, target |-> target]
<1>2. call' = [call EXCEPT ![p] = c]
  BY DEF StartUnmount, Goes
<1>3. c.op = "umount" /\ c.pc = "walk" /\ c.cur = mountpoints_root
  OBVIOUS
<1> HIDE DEF c
<1>4. c.cur # NULL => \E k \in 1 .. Len(MountList) : Reached(c, MountList, Table, k)
  BY <1>3, SeekFirst DEF Inv
<1>5. SeekOK(c, MountList, Table)
  BY <1>3, <1>4 DEF SeekOK
<1> QED BY <1>1, <1>2, <1>5, SeekStep

(* A call that has found its entry, or waits, has only to remember. *)
LEMMA SeekDone ==
  ASSUME NEW c, NEW s, NEW t, SeekOK(c, s, t), c.op = "read",
         NEW d, d.op = "read", d.before = c.before, d.pc \notin {"walk", "search", "remove"}
  PROVE  SeekOK(d, s, t)
  BY DEF SeekOK

(* One turn of the loop: the walk passes one entry more. *)
LEMMA WalkOnSeeks ==
  ASSUME Inv, SeekInv, NEW p \in Procs, WalkOn(p)
  PROVE  SeekInv'
<1> DEFINE c == call[p]
           d == [c EXCEPT !.cur = Advanced(p)]
           n == Len(MountList)
<1>1. phase = "run" /\ c.pc = "walk" /\ c.cur # NULL
  BY DEF WalkOn
<1>2. InCall(p) /\ IsCall(c) /\ ListInv /\ Holds(heap, c.cur, "mount")
  BY <1>1, AtEntry
<1>3. CASE c.op \in {"read", "find"} /\ c.path = NullPath
  <2>1. heap' = heap /\ UNCHANGED listVars /\ call' = call
    BY <1>3 DEF WalkOn, Wild
  <2> QED BY <2>1, SeekSame, SameSteady DEF listVars
<1>4. CASE ~(c.op \in {"read", "find"} /\ c.path = NullPath)
  <2>1. ~Stops(p) /\ call' = [call EXCEPT ![p] = d] /\ heap' = heap /\ UNCHANGED listVars
    BY <1>1, <1>2, <1>4 DEF WalkOn, Goes
  <2>2. Steady
    BY <2>1, SameSteady DEF listVars
  <2>3. d.op = c.op /\ d.pc = "walk" /\ d.cur = Advanced(p) /\ IsCall(d)
    BY <1>1, <1>2, WithCur
  <2>4. /\ c.op \in {"read", "write", "find"} => d.path = c.path /\ d.before = c.before
        /\ c.op = "umount" => d.device = c.device /\ d.target = c.target
    BY <1>1, <1>2, WithCur
  <2> HIDE DEF d
  <2>5. CASE c.op = "mount"
    <3>1. SeekOK(d, MountList, Table)
      BY <2>3, <2>5, MountSeeks
    <3> QED BY <3>1, <2>1, <2>2, SeekStep
  <2>6. CASE c.op # "mount"
    <3>0. SeekOK(c, MountList, Table)
      BY <1>2 DEF SeekInv
    <3>1. PICK k \in 1 .. n : Reached(c, MountList, Table, k)
      BY <3>0, <1>1, <2>6 DEF SeekOK
    <3>2. n \in Nat /\ k \in Nat /\ Len(Table) = n
      BY <1>2, TableIs DEF ListInv, IsList, IsTable
    <3>3. Table[k] = heap[c.cur].entry
      BY <1>2, <3>1, TableIs DEF IsTable, Reached
    <3>4. c.op \in {"read", "write", "find", "umount"}
      BY <1>1, <1>2, <2>6, ShapeOf DEF IsAccess, IsMount, IsUmount
    <3>5. Passes(c, Table[k])
      BY <2>1, <3>3, <3>4 DEF Stops, Passes
    <3>6. \A e : Passes(d, e) <=> Passes(c, e)
      BY <2>3, <2>4, <3>4 DEF Passes
    <3>7. \A j \in 1 .. k : Passes(d, Table[j])
      <4>1. \A j \in 1 .. (k - 1) : Passes(c, Table[j])
        BY <3>1 DEF Reached
      <4>2. \A j \in 1 .. k : j = k \/ j \in 1 .. (k - 1)
        BY <3>2
      <4> QED BY <4>1, <4>2, <3>5, <3>6
    <3>8. d.cur = IF k < n THEN MountList[k + 1] ELSE NULL
      BY <1>2, <2>3, <3>1 DEF ListInv, IsList, Advanced, Reached
    <3>9. d.cur # NULL => \E m \in 1 .. n : Reached(d, MountList, Table, m)
      <4> SUFFICES ASSUME d.cur # NULL PROVE \E m \in 1 .. n : Reached(d, MountList, Table, m)
        OBVIOUS
      <4>1. k + 1 \in 1 .. n /\ d.cur = MountList[k + 1] /\ (k + 1) - 1 = k
        BY <3>2, <3>8
      <4>2. Reached(d, MountList, Table, k + 1)
        BY <4>1, <3>7 DEF Reached
      <4> QED BY <4>1, <4>2
    <3>10. d.op \in {"read", "write", "find"} =>
             /\ d.before \in Seq(AllEntries)
             /\ Len(d.before) <= Len(Table) /\ \A j \in 1 .. Len(d.before) : d.before[j] = Table[j]
      BY <3>0, <2>3, <2>4 DEF SeekOK
    <3>11. ASSUME d.op \in {"read", "write", "find"}, d.cur = NULL
           PROVE  \A j \in 1 .. Len(d.before) : Passes(d, d.before[j])
      <4>1. k = n
        <5>1. k < n => MountList[k + 1] \in Blocks
          BY <1>2, <3>2 DEF ListInv, IsList
        <5> QED BY <5>1, <3>2, <3>8, <3>11, BlocksAre
      <4>2. Len(d.before) \in Nat
        BY <3>10, <3>11
      <4>3. \A j \in 1 .. Len(d.before) : j \in 1 .. k /\ d.before[j] = Table[j]
        BY <4>1, <4>2, <3>2, <3>10, <3>11
      <4> QED BY <4>3, <3>7
    <3>12. SeekOK(d, MountList, Table)
      BY <2>3, <3>9, <3>10, <3>11 DEF SeekOK
    <3> QED BY <3>12, <2>1, <2>2, SeekStep
  <2> QED BY <2>5, <2>6
<1> QED BY <1>3, <1>4

LEMMA WalkEndSeeks ==
  ASSUME Inv, SeekInv, NEW p \in Procs, WalkEnd(p)
  PROVE  SeekInv'
<1> DEFINE c == call[p]
<1>1. c.pc = "walk" /\ c.cur = NULL /\ heap' = heap /\ UNCHANGED listVars
  BY DEF WalkEnd
<1>2. Steady
  BY <1>1, SameSteady DEF listVars
<1>3. InCall(p) /\ IsCall(c)
  BY <1>1, AtEntry
<1>4. SeekOK(c, MountList, Table)
  BY <1>3 DEF SeekInv
<1>5. CASE c.op = "read" /\ Goes(p, [c EXCEPT !.pc = "search", !.cur = mountpoints_root])
  <2> DEFINE d == [c EXCEPT !.pc = "search", !.cur = mountpoints_root]
  <2>1. IsAccess(c)
    BY <1>1, <1>3, <1>5, ShapeOf DEF IsClose
  <2>2. d.op = c.op /\ d.pc = "search" /\ d.path = c.path /\ d.before = c.before
    BY <2>1 DEF IsAccess
  <2>3. call' = [call EXCEPT ![p] = d]
    BY <1>5 DEF Goes
  <2> HIDE DEF d
  <2>4. \A e : Passes(d, e) <=> Passes(c, e)
    BY <2>2, <1>5 DEF Passes
  <2>5. SeekOK(d, MountList, Table)
    BY <2>2, <2>4, <1>1, <1>4, <1>5 DEF SeekOK
  <2> QED BY <1>2, <2>3, <2>5, SeekStep
<1>6. CASE c.op = "mount" /\ Goes(p, [c EXCEPT !.pc = "link"])
  <2> DEFINE d == [c EXCEPT !.pc = "link"]
  <2>1. d.op = "mount" /\ d.pc = "link"
    BY <1>3, <1>6, ShapeOf, ListPc
  <2>2. call' = [call EXCEPT ![p] = d]
    BY <1>6 DEF Goes
  <2> HIDE DEF d
  <2> QED BY <1>2, <2>1, <2>2, MountSeeks, SeekStep
<1>7. CASE Returns(p, Failed)
  BY <1>2, <1>7, SeekEnd DEF Returns
<1> QED BY <1>5, <1>6, <1>7 DEF WalkEnd

LEMMA ListFoundSeeks ==
  ASSUME Inv, SeekInv, NEW p \in Procs, ListFound(p)
  PROVE  SeekInv'
<1> DEFINE c == call[p]
<1>1. c.pc = "walk" /\ heap' = heap /\ UNCHANGED listVars /\ Holds(heap, c.cur, "mount") /\ Stops(p)
  BY DEF ListFound, AtStop
<1>2. Steady
  BY <1>1, SameSteady DEF listVars
<1>3. InCall(p) /\ IsCall(c) /\ ListInv /\ c.cur # NULL
  BY <1>1, AtEntry, BlocksAre DEF Holds
<1>4. CASE c.op = "mount" /\ Goes(p, [c EXCEPT !.pc = "link"])
  <2> DEFINE d == [c EXCEPT !.pc = "link"]
  <2>1. d.op = "mount" /\ d.pc = "link"
    BY <1>3, <1>4, ShapeOf, ListPc
  <2>2. call' = [call EXCEPT ![p] = d]
    BY <1>4 DEF Goes
  <2> HIDE DEF d
  <2> QED BY <1>2, <2>1, <2>2, MountSeeks, SeekStep
<1>5. CASE c.op = "umount" /\ Goes(p, [c EXCEPT !.pc = "remove"])
  <2> DEFINE d == [c EXCEPT !.pc = "remove"]
  <2>1. /\ d.op = "umount" /\ d.pc = "remove" /\ d.cur = c.cur
        /\ d.device = c.device /\ d.target = c.target
    BY <1>3, <1>5, ShapeOf, ListPc
  <2>2. call' = [call EXCEPT ![p] = d]
    BY <1>5 DEF Goes
  <2> HIDE DEF d
  <2>3. PICK k \in 1 .. Len(MountList) : Reached(c, MountList, Table, k)
    BY <1>1, <1>3, <1>5 DEF SeekInv, SeekOK
  <2>4. Table[k] = heap[c.cur].entry
    BY <1>3, <2>3, TableIs DEF IsTable, Reached
  <2>5. \A e : Passes(d, e) <=> Passes(c, e)
    BY <2>1, <1>5 DEF Passes
  <2>6. ~Passes(d, Table[k])
    BY <1>1, <1>5, <2>4, <2>5 DEF Stops, Passes
  <2>7. Reached(d, MountList, Table, k)
    BY <2>1, <2>3, <2>5 DEF Reached
  <2>8. SeekOK(d, MountList, Table)
    BY <2>1, <2>6, <2>7 DEF SeekOK
  <2> QED BY <1>2, <2>2, <2>8, SeekStep
<1> QED BY <1>4, <1>5 DEF ListFound, AtStop

(* An entry is linked behind the last: the walks under way find it there. *)
LEMMA MountLinkTable ==
  ASSUME Inv, Inv', NEW p \in Procs, MountLink(p)
  PROVE  /\ \E e \in AllEntries : Table' = Append(Table, e)
         /\ Len(MountList') = Len(MountList) + 1 /\ Len(Table') = Len(Table) + 1
         /\ \A i \in 1 .. Len(MountList) : MountList'[i] = MountList[i] /\ Table'[i] = Table[i]
<1>1. ListInv /\ ListInv'
  BY DEF Inv
<1>2. /\ MountList' = Append(MountList, call[p].node)
      /\ \A b \in Blocks : heap[b].kind = "mount" => heap'[b].entry = heap[b].entry
  BY LinkFacts
<1> QED BY <1>1, <1>2, GrowTable

LEMMA MountLinkSeeks ==
  ASSUME Inv, Inv', SeekInv, NEW p \in Procs, MountLink(p)
  PROVE  SeekInv'
<1>1. InCall(p) /\ call[p].op = "mount"
  BY LinkFacts DEF Pends
<1>2. \A q \in Procs : q # p => call[q].op # "umount" /\ call[q].pc # "remove"
  BY <1>1, OthersRead
<1>3. call'[p] = Idle /\ \A q \in Procs : q # p => call'[q] = call[q]
  <2>1. call' = [call EXCEPT ![p] = Idle]
    BY DEF MountLink, Returns
  <2> QED BY <2>1, CallAt DEF Inv, CallInv
<1>4. Len(MountList) \in Nat /\ Len(Table) = Len(MountList)
  BY TableIs DEF Inv, ListInv, IsList, IsTable
<1>5. \A c : SeekOK(c, MountList, Table) /\ c.op # "umount" /\ c.pc # "remove" =>
        SeekOK(c, MountList', Table')
  BY <1>4, MountLinkTable, SeekGrow
<1>6. ~InCall(p)'
  BY <1>3 DEF InCall, Idle
<1>7. ASSUME NEW q \in Procs, InCall(q)', q # p PROVE SeekOK(call'[q], MountList', Table')
  <2>1. InCall(q) /\ call'[q] = call[q]
    BY <1>3, <1>7 DEF InCall
  <2> QED BY <2>1, <1>2, <1>5, <1>7 DEF SeekInv
<1> QED BY <1>6, <1>7 DEF SeekInv

(* Who unmounts is alone: no walk is under way when the entry goes. *)
LEMMA RemoveSeeks ==
  ASSUME Inv, SeekInv, NEW p \in Procs, UnmountRemove(p)
  PROVE  SeekInv'
<1>1. InCall(p) /\ call[p].op = "umount"
  <2>1. InCall(p) /\ IsUmount(call[p])
    BY RemoveFacts
  <2> QED BY <2>1 DEF IsUmount
<1>2. \A q \in Procs : q # p => ~InCall(q)
  BY <1>1 DEF Inv, AloneInv
<1>3. call'[p] = Idle /\ \A q \in Procs : q # p => call'[q] = call[q]
  <2>1. call' = [call EXCEPT ![p] = Idle]
    BY DEF UnmountRemove, Returns
  <2> QED BY <2>1, CallAt DEF Inv, CallInv
<1> QED BY <1>2, <1>3 DEF SeekInv, InCall, Idle

LEMMA FoundSeeks ==
  ASSUME Inv, SeekInv, NEW p \in Procs,
         ReadFound(p) \/ ReadSearch(p) \/ WriteFound(p) \/ FindFound(p), Steady
  PROVE  SeekInv'
<1> DEFINE c == call[p]
<1>1. /\ c.pc \in {"walk", "search"}
      /\ c.pc = "walk" => c.op \in {"read", "write", "find"}
  BY DEF ReadFound, ReadSearch, WriteFound, FindFound, AtStop
<1>2. InCall(p) /\ IsCall(c)
  BY <1>1, AtEntry
<1>3. SeekOK(c, MountList, Table) /\ (c.pc = "search" => c.op = "read")
  BY <1>2, ShapeOf DEF SeekInv
<1>4. ASSUME c.op = "read", NEW pc \in {"read", "wait"}, NEW node,
             call' = [call EXCEPT ![p] = [c EXCEPT !.pc = pc, !.node = node]] PROVE SeekInv'
  <2> DEFINE d == [c EXCEPT !.pc = pc, !.node = node]
  <2>1. IsAccess(c)
    BY <1>1, <1>2, <1>4, ShapeOf DEF IsClose
  <2>2. d.op = "read" /\ d.pc = pc /\ d.before = c.before
    BY <2>1, <1>4 DEF IsAccess
  <2> HIDE DEF d
  <2>3. SeekOK(d, MountList, Table)
    BY <2>2, <1>3, <1>4, SeekDone
  <2> QED BY <2>3, <1>4, SeekStep DEF d
<1>5. ASSUME c.op = "read", call' = [call EXCEPT ![p] = [c EXCEPT !.pc = "wait"]] PROVE SeekInv'
  <2> DEFINE d == [c EXCEPT !.pc = "wait"]
  <2>1. IsAccess(c)
    BY <1>1, <1>2, <1>5, ShapeOf DEF IsClose
  <2>2. d.op = "read" /\ d.pc = "wait" /\ d.before = c.before
    BY <2>1, <1>5 DEF IsAccess
  <2>3. call' = [call EXCEPT ![p] = d]
    BY <1>5
  <2> HIDE DEF d
  <2>4. SeekOK(d, MountList, Table)
    BY <2>2, <1>3, <1>5, SeekDone
  <2> QED BY <2>3, <2>4, SeekStep
<1>6. ASSUME call' = call \/ call' = [call EXCEPT ![p] = Idle] PROVE SeekInv'
  BY <1>6, SeekEnd, SeekSame
<1>7. ASSUME c.op = "read", NEW name, tarfs_open(p, name) PROVE SeekInv'
  <2>1. call' = [call EXCEPT ![p] = [c EXCEPT !.pc = "read", !.node = kmalloc(heap)]]
    BY <1>7 DEF tarfs_open, Goes
  <2>2. PICK b : b = kmalloc(heap)
    OBVIOUS
  <2>3. call' = [call EXCEPT ![p] = [c EXCEPT !.pc = "read", !.node = b]]
    BY <2>1, <2>2
  <2> QED BY <2>3, <1>4, <1>7
<1>8. ASSUME c.op = "read", NEW name, devfs_read(p, name) PROVE SeekInv'
  BY <1>5, <1>6, <1>8 DEF devfs_read, Returns, Goes, Wild
<1>9. CASE ReadFound(p)
  <2>1. c.op = "read"
    BY <1>9 DEF ReadFound, AtStop
  <2> QED BY <2>1, <1>6, <1>7, <1>8, <1>9 DEF ReadFound, Returns
<1>10. CASE ReadSearch(p)
  <2>1. c.op = "read"
    BY <1>3, <1>10 DEF ReadSearch
  <2> QED BY <2>1, <1>6, <1>7, <1>8, <1>10 DEF ReadSearch, Returns, Wild
<1>11. CASE WriteFound(p) \/ FindFound(p)
  BY <1>6, <1>11 DEF WriteFound, FindFound, Returns
<1> QED BY <1>9, <1>10, <1>11

LEMMA ReadDataSeeks ==
  ASSUME Inv, SeekInv, NEW p \in Procs, ReadData(p), Steady
  PROVE  SeekInv'
<1>1. call[p].pc = "read" /\ IsCall(call[p]) /\ call[p].op = "read" /\ InCall(p)
  BY ShapeOf DEF ReadData, Inv, CallInv, InCall
<1> DEFINE c == call[p]
           h == heap[c.node]
           x == tarfs_read(h, c.size)
           d == [op |-> "read", pc |-> "close", path |-> c.path, size |-> c.size,
                 node |-> c.node, before |-> c.before,
                 res |-> [val |-> x.n, src |-> <<"file", tar_files[h.file].addr + x.from>>]]
<1>2. /\ call' = [call EXCEPT ![p] = d] /\ d.op = "read" /\ d.pc = "close"
      /\ d.before = call[p].before
  BY DEF ReadData, Goes
<1> HIDE DEF d, x, h, c
<1>3. SeekOK(call[p], MountList, Table)
  BY <1>1 DEF SeekInv
<1>4. SeekOK(d, MountList, Table)
  BY <1>1, <1>2, <1>3, SeekDone
<1> QED BY <1>2, <1>4, SeekStep

LEMMA SeekNext == Inv /\ Inv' /\ SeekInv /\ [Next]_vars => SeekInv'
<1> SUFFICES ASSUME Inv, Inv', SeekInv, [Next]_vars PROVE SeekInv'
  OBVIOUS
<1>1. CASE module_init \/ devfs_init
  <2>1. phase \in {"module", "devfs"} /\ call' = call
    BY <1>1 DEF module_init, devfs_init
  <2>2. \A p \in Procs : call[p] = Idle
    BY <2>1 DEF Inv, BootInv
  <2> QED BY <2>1, <2>2 DEF SeekInv, InCall, Idle
<1>2. CASE Halted \/ UNCHANGED vars
  <2>1. heap' = heap /\ UNCHANGED listVars /\ call' = call
    BY <1>2 DEF Halted, vars
  <2> QED BY <2>1, SameSteady, SeekSame DEF listVars
<1>3. ASSUME NEW p \in Procs, Start(p) PROVE SeekInv'
  <2>1. ASSUME NEW path \in Paths, NEW size \in ReadSizes, StartAccess(p, "read", path, size)
        PROVE  SeekInv'
    BY <2>1, StartAccessSeeks
  <2>2. ASSUME NEW path \in Paths, NEW op \in {"write", "find"}, StartAccess(p, op, path, 0)
        PROVE  SeekInv'
    BY <2>2, StartAccessSeeks
  <2>3. ASSUME NEW e \in Entries, StartMount(p, e) PROVE SeekInv'
    <3>1. phase = "run" /\ ~InCall(p)
      BY <2>3 DEF StartMount, MayStart
    <3>2. ~MountLink(p) /\ ~UnmountRemove(p)
      BY <3>1 DEF MountLink, UnmountRemove, InCall
    <3>3. Steady
      BY <1>3, <3>2, StepSteady
    <3> QED BY <2>3, <3>3, StartMountSeeks
  <2>4. ASSUME NEW d \in Entries, NEW e \in Entries, StartUnmount(p, d.device, e.target)
        PROVE  SeekInv'
    BY <2>4, StartUnmountSeeks
  <2> QED BY <1>3, <2>1, <2>2, <2>3, <2>4 DEF Start
<1>4. ASSUME NEW p \in Procs, Step(p) \/ KeysTyped(p) PROVE SeekInv'
  <2>1. CASE MountLink(p)
    BY <2>1, MountLinkSeeks
  <2>2. CASE UnmountRemove(p)
    BY <2>2, RemoveSeeks
  <2>3. CASE ~MountLink(p) /\ ~UnmountRemove(p)
    <3>1. Steady
      BY <1>4, <2>3, StepSteady
    <3>2. tarfs_close(p) \/ KeysTyped(p) => SeekInv'
      BY <3>1, SeekEnd DEF tarfs_close, KeysTyped, Returns
    <3> QED BY <1>4, <2>3, <3>1, <3>2, WalkOnSeeks, WalkEndSeeks, ListFoundSeeks, FoundSeeks,
               ReadDataSeeks DEF Step
  <2> QED BY <2>1, <2>2, <2>3
<1> QED BY <1>1, <1>2, <1>3, <1>4 DEF Next

LEMMA SeekHolds == Spec => [](Inv /\ SeekInv)
<1>1. Init => SeekInv
  <2> SUFFICES ASSUME Init PROVE SeekInv
    OBVIOUS
  <2>1. Idle.pc = "done" /\ \A p \in Procs : call[p] = Idle
    BY DEF Init, Idle
  <2> QED BY <2>1 DEF SeekInv, InCall
<1> QED BY <1>1, InitInv, NextInv, SeekNext, PTL DEF Spec

-----------------------------------------------------------------------------
(* The refinement                                                          *)

(* The entry that goes is the first one that bears the device or target. *)
LEMMA RemoveTable ==
  ASSUME Inv, Inv', SeekInv, NEW p \in Procs, UnmountRemove(p)
  PROVE  \E i \in DOMAIN Table :
           /\ \/ \A j \in 1 .. (i - 1) : Table[j].device # Table[i].device
              \/ \A j \in 1 .. (i - 1) : Table[j].target # Table[i].target
           /\ Table' = RemoveAt(Table, i)
<1> DEFINE c == call[p]
           n == Len(MountList)
<1>1. ListInv /\ ListInv'
  BY DEF Inv
<1>2. InCall(p) /\ IsUmount(c) /\ c.cur \in Blocks
  BY RemoveFacts
<1>3. c.op = "umount" /\ c.pc = "remove"
  BY <1>2 DEF IsUmount, UnmountRemove
<1>4. PICK m \in 1 .. n : MountList[m] = c.cur /\ MountList' = RemoveAt(MountList, m)
  BY RemoveFacts
<1>5. \A b \in Blocks \ {MountList[m]} : heap[b].kind = "mount" => heap'[b].entry = heap[b].entry
  BY <1>4, RemoveFacts
<1>6. Table' = RemoveAt(Table, m)
  BY <1>1, <1>4, <1>5, ShrinkTable
<1>7. PICK k \in 1 .. n : Reached(c, MountList, Table, k) /\ ~Passes(c, Table[k])
  BY <1>2, <1>3 DEF SeekInv, SeekOK
<1>8. k = m
  BY <1>1, <1>4, <1>7 DEF ListInv, IsList, Reached
<1>9. \A j \in 1 .. (m - 1) : Table[j].device # c.device /\ Table[j].target # c.target
  BY <1>3, <1>7, <1>8 DEF Reached, Passes
<1>10. Table[m].device = c.device \/ Table[m].target = c.target
  BY <1>3, <1>7, <1>8 DEF Passes
<1>11. m \in DOMAIN Table
  BY <1>1, TableIs DEF IsTable
<1> QED BY <1>6, <1>9, <1>10, <1>11

LEMMA TableStep ==
  ASSUME Inv, Inv', SeekInv, Next
  PROVE  \/ Table' = Table
         \/ \E e \in AllEntries : Table' = Append(Table, e)
         \/ \E p \in Procs : UnmountRemove(p)
<1>1. ListInv /\ ListInv'
  BY DEF Inv
<1>2. CASE module_init
  <2>1. CASE UNCHANGED <<heap, mountpoints_root>>
    <3>1. Steady
      BY <2>1, <1>2, SameSteady DEF module_init
    <3> QED BY <1>1, <3>1, SteadyTable
  <2>2. CASE ~UNCHANGED <<heap, mountpoints_root>>
    BY <1>1, <1>2, <2>2, module_initFacts, GrowTable
  <2> QED BY <2>1, <2>2
<1>3. CASE devfs_init
  <2>1. ASSUME MountList' = MountList,
               \A b \in Blocks : heap[b].kind = "mount" => heap'[b].entry = heap[b].entry
        PROVE  Table' = Table
    <3>1. MountList \in Seq(Blocks) /\ DOMAIN MountList = 1 .. Len(MountList)
      BY <1>1 DEF ListInv, IsList
    <3>2. \A i \in DOMAIN MountList : heap'[MountList[i]].entry = heap[MountList[i]].entry
      BY <1>1, <2>1, <3>1 DEF ListInv, IsList
    <3> QED BY <2>1, <3>2 DEF Table
  <2> QED BY <1>1, <1>3, <2>1, devfs_initFacts, GrowTable
<1>4. CASE Halted
  BY <1>1, <1>4, SameSteady, SteadyTable DEF Halted, vars, listVars
<1>5. ASSUME NEW p \in Procs, Start(p) \/ Step(p) \/ KeysTyped(p)
      PROVE  \/ Table' = Table \/ (\E e \in AllEntries : Table' = Append(Table, e))
             \/ UnmountRemove(p)
  BY <1>1, <1>5, MountLinkTable, StepSteady, SteadyTable
<1> QED BY <1>2, <1>3, <1>4, <1>5 DEF Next

(* The linked list, whose entries are written one word at a time while     *)
(* other processes walk it, implements a table that changes by one whole   *)
(* entry: appended last, or the first match removed.                       *)
THEOREM TableImplemented == Spec => ImplementsTable
<1>1. Init => Abstract!TableInit
  <2> SUFFICES ASSUME Init PROVE Table = <<>>
    BY DEF Abstract!TableInit
  <2>1. ListInv /\ mountpoints_root = NULL
    BY InitInv DEF Inv, Init
  <2>2. MountList = <<>>
    BY <2>1, ListedAre
  <2>3. Table \in Seq(AllEntries) /\ Len(Table) = 0
    BY <2>1, <2>2, TableIs DEF IsTable
  <2> QED BY <2>3
<1>2. Inv /\ Inv' /\ SeekInv /\ [Next]_vars => [Abstract!TableNext]_Table
  <2> SUFFICES ASSUME Inv, Inv', SeekInv, [Next]_vars PROVE [Abstract!TableNext]_Table
    OBVIOUS
  <2>1. CASE UNCHANGED vars
    <3>1. Steady
      BY <2>1, SameSteady DEF vars, listVars
    <3> QED BY <3>1, SteadyTable DEF Inv
  <2>2. ASSUME NEW e \in AllEntries, Table' = Append(Table, e) PROVE Abstract!TableNext
    BY <2>2 DEF Abstract!TableNext, Abstract!Mount, AllEntries
  <2>3. ASSUME NEW p \in Procs, UnmountRemove(p) PROVE Abstract!TableNext
    <3>1. Abstract!Unmount(Table, Table')
      BY <2>3, RemoveTable DEF Abstract!Unmount, Abstract!RemoveAt, RemoveAt
    <3> QED BY <3>1 DEF Abstract!TableNext
  <2>4. CASE Next
    BY <2>2, <2>3, <2>4, TableStep
  <2> QED BY <2>1, <2>4
<1> QED BY <1>1, <1>2, SeekHolds, PTL DEF Spec, ImplementsTable, Abstract!TableSpec

-----------------------------------------------------------------------------
(* Derailing                                                               *)

LEMMA ShortPaths ==
  ASSUME NEW S, NEW x \in S, NEW y \in S
  PROVE  <<x>> \in Seq(S) /\ Len(<<x>>) = 1 /\ <<x>>[1] = x /\ <<x, y>> \in Seq(S)
  OBVIOUS

LEMMA Extended ==
  ASSUME NEW S, NEW t \in Seq(S), NEW x \in S
  PROVE  /\ t \o <<x>> \in Seq(S) /\ Len(t \o <<x>>) = Len(t) + 1
         /\ (t \o <<x>>)[Len(t) + 1] = x /\ \A i \in 1 .. Len(t) : (t \o <<x>>)[i] = t[i]
  OBVIOUS

(* What paths and mount points are put together from. *)
Parts(p) == {p[i] : i \in DOMAIN p}

Names == {"/", "dev", "NULL"} \cup (UNION {Parts(p) : p \in Paths})
           \cup (UNION {Parts(e.target) : e \in Entries})

LEMMA PathsAre == \A p \in Paths : p \in Seq(Names)
<1> SUFFICES ASSUME NEW p \in Paths PROVE p \in Seq(Names)
  OBVIOUS
<1>1. p \in Seq(STRING)
  BY VfsAssumption, Zenon
<1>2. Len(p) \in Nat /\ DOMAIN p = 1 .. Len(p) /\ p = [i \in 1 .. Len(p) |-> p[i]]
  BY <1>1
<1>3. \A i \in 1 .. Len(p) : p[i] \in Names
  <2>1. \A i \in 1 .. Len(p) : p[i] \in Parts(p)
    BY <1>2 DEF Parts
  <2> QED BY <2>1 DEF Names
<1>4. p \in [1 .. Len(p) -> Names]
  BY <1>2, <1>3
<1> QED BY <1>2, <1>4

(* What a mount point's comparison accepts: the path itself, or one that   *)
(* goes on with a slash.                                                   *)
LEMMA MatchesIs ==
  ASSUME NEW t \in Seq(Names), NEW p \in Seq(Names)
  PROVE  Matches(t, p) <=> p = t \/ IsPrefix(t \o <<"/">>, p)
<1> DEFINE n == Len(t)
           u == t \o <<"/">>
<1>1. n \in Nat /\ Len(p) \in Nat
  OBVIOUS
<1>2. /\ u \in Seq(Names) /\ Len(u) = n + 1 /\ u[n + 1] = "/"
      /\ \A i \in 1 .. n : u[i] = t[i]
  <2>1. "/" \in Names
    BY DEF Names
  <2> QED BY <2>1, Extended
<1> HIDE DEF u
<1>3. n <= Len(p) => (SubSeq(p, 1, n) = t <=> \A i \in 1 .. n : p[i] = t[i])
  <2> SUFFICES ASSUME n <= Len(p)
               PROVE  SubSeq(p, 1, n) = t <=> \A i \in 1 .. n : p[i] = t[i]
    OBVIOUS
  <2>1. /\ SubSeq(p, 1, n) \in Seq(Names) /\ Len(SubSeq(p, 1, n)) = n
        /\ \A i \in 1 .. n : SubSeq(p, 1, n)[i] = p[i]
    BY <1>1
  <2> QED BY <2>1
<1>4. p = t <=> Len(p) = n /\ \A i \in 1 .. n : p[i] = t[i]
  BY <1>1
<1>5. IsPrefix(u, p) <=> n + 1 <= Len(p) /\ \A i \in 1 .. (n + 1) : p[i] = u[i]
  <2>1. SubSeq(u, 1, Len(u)) = u
    BY <1>1, <1>2
  <2>2. CASE n + 1 <= Len(p)
    <3>1. /\ SubSeq(p, 1, n + 1) \in Seq(Names) /\ Len(SubSeq(p, 1, n + 1)) = n + 1
          /\ \A i \in 1 .. (n + 1) : SubSeq(p, 1, n + 1)[i] = p[i]
      BY <1>1, <2>2
    <3>2. SubSeq(p, 1, n + 1) = u <=> \A i \in 1 .. (n + 1) : p[i] = u[i]
      BY <3>1, <1>1, <1>2
    <3> QED BY <3>2, <2>1, <2>2, <1>2 DEF IsPrefix
  <2>3. CASE ~(n + 1 <= Len(p))
    BY <2>3, <1>2 DEF IsPrefix
  <2> QED BY <2>2, <2>3
<1>6. (\A i \in 1 .. (n + 1) : p[i] = u[i]) <=> (\A i \in 1 .. n : p[i] = t[i]) /\ p[n + 1] = "/"
  <2>1. \A i \in 1 .. (n + 1) : i \in 1 .. n \/ i = n + 1
    BY <1>1
  <2>2. n + 1 \in 1 .. (n + 1) /\ \A i \in 1 .. n : i \in 1 .. (n + 1)
    BY <1>1
  <2> QED BY <2>1, <2>2, <1>2
<1>7. Matches(t, p) <=> /\ n <= Len(p) /\ SubSeq(p, 1, n) = t
                        /\ n = Len(p) \/ p[n + 1] = "/"
  BY DEF Matches
<1>8. n <= Len(p) <=> n = Len(p) \/ n + 1 <= Len(p)
  BY <1>1
<1>9. ~(n = Len(p) /\ n + 1 <= Len(p))
  BY <1>1
<1>10. CASE n = Len(p)
  BY <1>10, <1>3, <1>4, <1>5, <1>7, <1>8, <1>9 DEF u
<1>11. CASE n # Len(p)
  BY <1>11, <1>3, <1>4, <1>5, <1>6, <1>7, <1>8 DEF u
<1> QED BY <1>10, <1>11

LEMMA TargetsAre ==
  ASSUME NEW e \in AllEntries
  PROVE  e.target \in Seq(Names) /\ e.target # NullPath /\ ~Matches(e.target, NullPath)
<1>1. e.target \in Seq(Names) /\ e.target # NullPath
  <2>1. CASE e \in Entries
    <3>1. e \in [device : STRING, target : Seq(STRING) \ {NullPath}, fs : STRING]
      BY <2>1, VfsAssumption, Zenon
    <3>2. PICK t : t = e.target
      OBVIOUS
    <3>3. t \in Seq(STRING) /\ t # NullPath
      BY <3>1, <3>2
    <3>4. Len(t) \in Nat /\ DOMAIN t = 1 .. Len(t) /\ t = [i \in 1 .. Len(t) |-> t[i]]
      BY <3>3
    <3>5. \A i \in 1 .. Len(t) : t[i] \in Names
      <4>1. \A i \in 1 .. Len(t) : t[i] \in Parts(e.target)
        BY <3>2, <3>4 DEF Parts
      <4> QED BY <2>1, <4>1 DEF Names
    <3>6. t \in [1 .. Len(t) -> Names]
      BY <3>4, <3>5
    <3>7. t \in Seq(Names)
      BY <3>4, <3>6
    <3> QED BY <3>2, <3>3, <3>7
  <2>2. CASE e \in BootEntries
    <3>1. e.target = <<"/">> \/ e.target = <<"/", "dev">>
      BY <2>2 DEF BootEntries
    <3>2. <<"/">> \in Seq(Names) /\ <<"/", "dev">> \in Seq(Names)
      <4>1. "/" \in Names /\ "dev" \in Names
        BY DEF Names
      <4> QED BY <4>1, ShortPaths
    <3>3. <<"/">> # NullPath /\ <<"/", "dev">> # NullPath
      BY DEF NullPath
    <3> QED BY <3>1, <3>2, <3>3
  <2> QED BY <2>1, <2>2 DEF AllEntries
<1>2. PICK t : t = e.target
  OBVIOUS
<1>3. t \in Seq(Names) /\ t # NullPath
  BY <1>1, <1>2
<1>4. ~Matches(t, NullPath)
  <2> SUFFICES ASSUME Matches(t, NullPath) PROVE FALSE
    OBVIOUS
  <2>1. NullPath \in Seq(Names) /\ Len(NullPath) = 1 /\ NullPath[1] = "NULL"
    <3>1. "NULL" \in Names
      BY DEF Names
    <3> QED BY <3>1, ShortPaths DEF NullPath
  <2>2. /\ Len(t) <= Len(NullPath) /\ SubSeq(NullPath, 1, Len(t)) = t
        /\ Len(t) = Len(NullPath) \/ NullPath[Len(t) + 1] = "/"
    BY DEF Matches
  <2>3. Len(t) \in Nat
    BY <1>3
  <2>4. CASE Len(t) = 1
    <3>1. SubSeq(NullPath, 1, 1) = NullPath
      BY <2>1
    <3> QED BY <3>1, <2>2, <2>4, <1>3
  <2>5. CASE Len(t) = 0
    BY <2>1, <2>2, <2>5
  <2> QED BY <2>1, <2>2, <2>3, <2>4, <2>5
<1> QED BY <1>1, <1>2, <1>4

(* Where an uninterrupted walk over the table t stops. *)
LEMMA CoveringIs ==
  ASSUME NEW t \in Seq(AllEntries), NEW path \in Seq(Names)
  PROVE  /\ (\A j \in 1 .. Len(t) : ~Matches(t[j].target, path)) => Covering(t, path) = 0
         /\ \A k \in 1 .. Len(t) :
              Matches(t[k].target, path) /\ (\A j \in 1 .. (k - 1) : ~Matches(t[j].target, path))
                => Covering(t, path) = k
<1> DEFINE over == {i \in DOMAIN t : path = t[i].target \/ IsPrefix(t[i].target \o <<"/">>, path)}
<1>1. DOMAIN t = 1 .. Len(t) /\ Len(t) \in Nat /\ \A i \in 1 .. Len(t) : t[i] \in AllEntries
  OBVIOUS
<1>2. \A i : i \in over <=> i \in 1 .. Len(t) /\ Matches(t[i].target, path)
  <2>1. \A i \in 1 .. Len(t) :
          Matches(t[i].target, path) <=>
            path = t[i].target \/ IsPrefix(t[i].target \o <<"/">>, path)
    BY <1>1, TargetsAre, MatchesIs
  <2> QED BY <2>1, <1>1
<1>3. Covering(t, path) = IF over = {} THEN 0 ELSE CHOOSE i \in over : \A j \in over : i <= j
  BY DEF Covering
<1> HIDE DEF over
<1>4. (\A j \in 1 .. Len(t) : ~Matches(t[j].target, path)) => Covering(t, path) = 0
  BY <1>2, <1>3
<1>5. ASSUME NEW k \in 1 .. Len(t), Matches(t[k].target, path),
             \A j \in 1 .. (k - 1) : ~Matches(t[j].target, path)
      PROVE  Covering(t, path) = k
  <2>1. k \in over
    BY <1>2, <1>5
  <2>2. \A j \in over : j \in Nat /\ k <= j
    <3> SUFFICES ASSUME NEW j \in over PROVE j \in Nat /\ k <= j
      OBVIOUS
    <3>1. j \in 1 .. Len(t) /\ Matches(t[j].target, path)
      BY <1>2
    <3>2. j \notin 1 .. (k - 1)
      BY <3>1, <1>5
    <3> QED BY <3>1, <3>2, <1>1
  <2>3. \A i \in over : (\A j \in over : i <= j) => i = k
    BY <2>1, <2>2
  <2> QED BY <2>1, <2>2, <2>3, <1>3
<1> QED BY <1>4, <1>5

LEMMA RelativeIs ==
  ASSUME NEW t \in Seq(Names), NEW path \in Seq(Names), Matches(t, path)
  PROVE  Relative(t, path) \in Seq(Names)
<1> DEFINE rest == SubSeq(path, Len(t) + 1, Len(path))
<1>1. Len(t) \in Nat /\ Len(path) \in Nat /\ Len(t) <= Len(path)
  BY DEF Matches
<1>2. rest \in Seq(Names)
  BY <1>1
<1> HIDE DEF rest
<1>3. rest # <<>> => Tail(rest) \in Seq(Names)
  BY <1>2
<1>4. Relative(t, path) = IF rest # <<>> /\ Head(rest) = "/" THEN Tail(rest) ELSE rest
  BY DEF Relative, rest
<1> QED BY <1>2, <1>3, <1>4

(* The drivers are registered before the first process runs, and stay. *)
DriverInv == phase = "run" => Drivers(heap)

LEMMA DriverNext == Inv /\ DriverInv /\ [Next]_vars => DriverInv'
<1> SUFFICES ASSUME Inv, DriverInv, [Next]_vars, phase' = "run" PROVE Drivers(heap')
  BY DEF DriverInv
<1>1. ASSUME phase = "run", \A b \in Blocks : heap[b].kind = "device" => heap'[b] = heap[b]
      PROVE  Drivers(heap')
  BY <1>1 DEF DriverInv, Drivers
<1>2. CASE module_init
  BY <1>2, module_initFacts
<1>3. CASE devfs_init
  BY <1>3, devfs_initFacts
<1>4. CASE Halted \/ UNCHANGED vars
  BY <1>1, <1>4 DEF Halted, vars
<1>5. ASSUME NEW p \in Procs, Start(p) \/ Step(p) \/ KeysTyped(p) PROVE Drivers(heap')
  <2>1. phase = "run"
    BY <1>5 DEF Start, Step, StartAccess, StartMount, StartUnmount, MayStart, WalkOn, WalkEnd,
       ListFound, AtStop, MountLink, UnmountRemove, ReadFound, ReadSearch, WriteFound, FindFound,
       ReadData, tarfs_close, KeysTyped
  <2>2. CASE MountLink(p)
    BY <2>1, <2>2, <1>1, LinkFacts
  <2>3. CASE UnmountRemove(p)
    BY <2>1, <2>3, <1>1, RemoveFacts
  <2>4. CASE ~MountLink(p) /\ ~UnmountRemove(p)
    BY <2>1, <2>4, <1>1, <1>5, StepSteady DEF Steady, Kept
  <2> QED BY <2>2, <2>3, <2>4
<1> QED BY <1>2, <1>3, <1>4, <1>5 DEF Next

(* A name of one part that is a driver's is found. *)
LEMMA LookupFinds ==
  ASSUME Inv, Drivers(heap), NEW name \in Seq(Names), Len(name) = 1, name[1] \in DOMAIN DeviceOps
  PROVE  devfs_lookup(name)
<1>1. PICK b \in Blocks : heap[b].kind = "device" /\ heap[b].name = name[1]
  BY DEF Drivers
<1>2. Registered(b)
  BY <1>1 DEF Inv, LeakInv
<1>3. DOMAIN DeviceList = 1 .. Len(DeviceList)
  BY DEF Inv, ListInv, IsList
<1>4. PICK i \in DOMAIN DeviceList : DeviceList[i] = b
  BY <1>2, <1>3 DEF Registered
<1>5. <<name[1]>> = name
  OBVIOUS
<1> QED BY <1>1, <1>4, <1>5 DEF devfs_lookup

(* A call that no entry of its table has stopped has no answer there. *)
LEMMA NoAnswer ==
  ASSUME NEW t \in Seq(AllEntries), NEW path \in Seq(Names),
         \A j \in 1 .. Len(t) : ~Matches(t[j].target, path)
  PROVE  ~Answerable(t, path)
<1>1. Covering(t, path) = 0
  BY CoveringIs
<1> QED BY <1>1 DEF Answerable

LEMMA AccessSeeks ==
  ASSUME Inv, SeekInv, NEW p \in Procs, InCall(p), call[p].op \in {"read", "find"}
  PROVE  /\ call[p].path \in Seq(Names) /\ call[p].before \in Seq(AllEntries)
         /\ SeekOK(call[p], MountList, Table)
<1>1. IsCall(call[p]) /\ SeekOK(call[p], MountList, Table)
  BY DEF Inv, CallInv, SeekInv
<1>2. call[p].path \in Paths
  BY <1>1, ShapeOf DEF IsAccess, IsClose
<1> QED BY <1>1, <1>2, PathsAre DEF SeekOK

(* Only a path without a pointer, a search, and a name that is no device's *)
(* derail a call.                                                          *)
LEMMA WalkOnDerails ==
  ASSUME Inv, SeekInv, phase = "run", NEW p \in Procs, WalkOn(p), phase' = "wild"
  PROVE  /\ call' = call /\ InCall(p) /\ call[p].op \in {"read", "find"}
         /\ ~Answerable(call[p].before, call[p].path)
<1>1. call[p].pc = "walk" /\ call[p].cur # NULL
  BY DEF WalkOn
<1>2. InCall(p) /\ Holds(heap, call[p].cur, "mount")
  BY <1>1, AtEntry
<1>3. /\ call[p].op \in {"read", "find"} /\ call[p].path = NullPath /\ call' = call
  BY <1>2 DEF WalkOn, Wild
<1>4. call[p].path \in Seq(Names) /\ call[p].before \in Seq(AllEntries)
  BY <1>2, <1>3, AccessSeeks
<1>5. \A j \in 1 .. Len(call[p].before) : ~Matches(call[p].before[j].target, call[p].path)
  BY <1>3, <1>4, TargetsAre
<1> QED BY <1>2, <1>3, <1>4, <1>5, NoAnswer

LEMMA SearchDerails ==
  ASSUME Inv, SeekInv, phase = "run", NEW p \in Procs, ReadSearch(p), phase' = "wild"
  PROVE  /\ call' = call /\ InCall(p) /\ call[p].op \in {"read", "find"}
         /\ ~Answerable(call[p].before, call[p].path)
<1>1. call[p].pc = "search" /\ call' = call
  BY DEF ReadSearch, Wild, tarfs_open, devfs_read
<1>2. InCall(p) /\ call[p].op = "read"
  BY <1>1, AtEntry, ShapeOf
<1>3. /\ call[p].path \in Seq(Names) /\ call[p].before \in Seq(AllEntries)
      /\ SeekOK(call[p], MountList, Table)
  BY <1>2, AccessSeeks
<1>4. \A j \in 1 .. Len(call[p].before) : ~Matches(call[p].before[j].target, call[p].path)
  BY <1>1, <1>2, <1>3 DEF SeekOK, Passes
<1> QED BY <1>1, <1>2, <1>3, <1>4, NoAnswer

LEMMA FoundDerails ==
  ASSUME Inv, SeekInv, DriverInv, phase = "run", NEW p \in Procs, ReadFound(p), phase' = "wild"
  PROVE  /\ call' = call /\ InCall(p) /\ call[p].op \in {"read", "find"}
         /\ ~Answerable(call[p].before, call[p].path)
<1> DEFINE c == call[p]
           t == c.before
<1>1. /\ AtStop(p, "read") /\ Fs(p) = "devfs" /\ ~devfs_lookup(Name(p)) /\ call' = call
  BY DEF ReadFound, Wild, tarfs_open, devfs_read
<1>2. /\ c.pc = "walk" /\ c.op = "read" /\ Holds(heap, c.cur, "mount")
      /\ Matches(heap[c.cur].entry.target, c.path)
  BY <1>1 DEF AtStop, Stops
<1>3. InCall(p) /\ ListInv /\ c.cur # NULL
  BY <1>2, AtEntry, BlocksAre DEF Holds
<1>4. c.path \in Seq(Names) /\ t \in Seq(AllEntries) /\ SeekOK(c, MountList, Table)
  BY <1>2, <1>3, AccessSeeks
<1>5. PICK k \in 1 .. Len(MountList) : Reached(c, MountList, Table, k)
  BY <1>2, <1>3, <1>4 DEF SeekOK
<1>6. Table[k] = heap[c.cur].entry /\ Table[k] \in AllEntries /\ Len(Table) = Len(MountList)
  BY <1>3, <1>5, TableIs DEF IsTable, Reached
<1>7. \A j \in 1 .. (k - 1) : ~Matches(Table[j].target, c.path)
  BY <1>2, <1>5 DEF Reached, Passes
<1>8. Len(t) \in Nat /\ Len(t) <= Len(Table) /\ \A j \in 1 .. Len(t) : t[j] = Table[j]
  BY <1>2, <1>4 DEF SeekOK
<1>9. CASE Len(t) < k
  <2>1. \A j \in 1 .. Len(t) : j \in 1 .. (k - 1)
    BY <1>8, <1>9
  <2>2. \A j \in 1 .. Len(t) : ~Matches(t[j].target, c.path)
    BY <2>1, <1>7, <1>8
  <2> QED BY <2>2, <1>1, <1>2, <1>3, <1>4, NoAnswer
<1>10. CASE ~(Len(t) < k)
  <2>1. k \in 1 .. Len(t) /\ \A j \in 1 .. (k - 1) : j \in 1 .. Len(t)
    BY <1>8, <1>10
  <2>2. t[k] = Table[k] /\ Matches(t[k].target, c.path)
    BY <2>1, <1>2, <1>6, <1>8
  <2>3. \A j \in 1 .. (k - 1) : ~Matches(t[j].target, c.path)
    BY <2>1, <1>7, <1>8
  <2>4. Covering(t, c.path) = k
    BY <2>1, <2>2, <2>3, <1>4, CoveringIs
  <2> DEFINE name == Relative(t[k].target, c.path)
  <2>5. t[k].fs = "devfs" /\ ~devfs_lookup(name)
    BY <2>2, <1>1, <1>6 DEF Fs, Name
  <2>6. name \in Seq(Names)
    BY <2>2, <1>4, <1>6, TargetsAre, RelativeIs
  <2>7. Answerable(t, c.path) => Len(name) = 1 /\ name[1] \in DOMAIN DeviceOps
    BY <2>4, <2>5 DEF Answerable
  <2>8. Drivers(heap)
    BY DEF DriverInv
  <2> HIDE DEF name
  <2>9. ~Answerable(t, c.path)
    BY <2>5, <2>6, <2>7, <2>8, LookupFinds
  <2> QED BY <2>9, <1>1, <1>2, <1>3
<1> QED BY <1>9, <1>10

LEMMA DerailsNext ==
  ASSUME Inv, SeekInv, DriverInv, TarInv, DerailsOnlyOutside, [Next]_vars
  PROVE  DerailsOnlyOutside'
<1> SUFFICES ASSUME phase' = "wild" PROVE DerailsOnlyOutside'
  BY DEF DerailsOnlyOutside
<1>1. CASE UNCHANGED vars
  BY <1>1 DEF vars, bootVars, listVars, DerailsOnlyOutside, InCall
<1>2. CASE module_init
  <2>1. devfs_root' = NULL /\ archive' = archive /\ modules' = modules
    BY <1>2, module_initFacts DEF module_init
  <2>2. modules = "no response" \/ ~WalkEnds(archive.mem)
    BY <1>2 DEF module_init
  <2>3. archive.ended => WalkEnds(archive.mem)
    BY ArchiveAssumption DEF TarInv
  <2> QED BY <2>1, <2>2, <2>3 DEF DerailsOnlyOutside
<1>3. CASE devfs_init
  BY <1>3, devfs_initFacts
<1>4. ASSUME NEW p \in Procs, call' = call, InCall(p), call[p].op \in {"read", "find"},
             ~Answerable(call[p].before, call[p].path)
      PROVE  DerailsOnlyOutside'
  <2>1. InCall(p)'
    BY <1>4 DEF InCall
  <2>2. ~Answerable(call'[p].before, call'[p].path)
    BY <1>4
  <2>3. call'[p].op \in {"read", "find"}
    BY <1>4
  <2> QED BY <2>1, <2>2, <2>3 DEF DerailsOnlyOutside, Answerable, Covering
<1>5. ASSUME NEW p \in Procs, Start(p) \/ Step(p) \/ KeysTyped(p) PROVE DerailsOnlyOutside'
  <2>1. phase = "run"
    BY <1>5 DEF Start, Step, StartAccess, StartMount, StartUnmount, MayStart, WalkOn, WalkEnd,
       ListFound, AtStop, MountLink, UnmountRemove, ReadFound, ReadSearch, WriteFound, FindFound,
       ReadData, tarfs_close, KeysTyped
  <2>2. WalkOn(p) \/ ReadSearch(p) \/ ReadFound(p)
    BY <2>1, <1>5 DEF Start, Step, StartAccess, StartMount, StartUnmount, WalkEnd,
       ListFound, MountLink, UnmountRemove, WriteFound, FindFound, ReadData, tarfs_close, KeysTyped
  <2> QED BY <2>1, <2>2, <1>4, WalkOnDerails, SearchDerails, FoundDerails
<1> QED BY <1>1, <1>2, <1>3, <1>5 DEF Next, Halted

(* A pointer that is not one is followed only for a path that no mount     *)
(* point was over when the call began, or a device that no driver          *)
(* registers: with any number of processes and entries, mounted meanwhile  *)
(* or not.  At boot, only a missing answer of the boot loader or an        *)
(* archive without an end does it.                                         *)
THEOREM DerailsRight == Spec => []DerailsOnlyOutside
<1>1. Init => DriverInv /\ DerailsOnlyOutside
  BY DEF Init, DriverInv, DerailsOnlyOutside
<1>2. /\ Inv /\ SeekInv /\ DriverInv /\ [Next]_vars => DriverInv'
      /\ Inv /\ SeekInv /\ DriverInv /\ TarInv /\ DerailsOnlyOutside /\ [Next]_vars =>
           DerailsOnlyOutside'
  BY DriverNext, DerailsNext
<1> QED BY <1>1, <1>2, SeekHolds, TarHolds, PTL DEF Spec

=============================================================================
