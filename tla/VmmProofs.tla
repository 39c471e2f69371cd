------------------------------ MODULE VmmProofs ------------------------------
(***************************************************************************)
(* Proofs about Vmm, for every number of vma_structs and every address     *)
(* space: the list stays sorted and disjoint, mm_struct after mm_struct,   *)
(* and find_vma with its cache is exact.                                   *)
(***************************************************************************)
EXTENDS Vmm, FiniteSetTheorems, SequenceTheorems, TLAPS

\* An area that is on the list holds at least one address: insert_vma_struct
\* asserted it.
AreasNotEmpty ==
    \A i \in 1 .. Len(mmap_list) : range[mmap_list[i]].vm_start < range[mmap_list[i]].vm_end

\* The inductive invariant.
IInv ==
    /\ AreasLive
    /\ AreasDisjoint
    /\ AreasNotEmpty
    /\ ~ exists => mmap_list = <<>>

-----------------------------------------------------------------------------
(* Numbers, sequences and sets *)

\* A set of natural numbers that is not empty has a least element.
LEMMA LeastNumber ==
    ASSUME NEW T, T \subseteq Nat, T # {}
    PROVE  \E x \in T : \A y \in T : x <= y
<1> DEFINE R == OpToRel(<, Nat)
<1>1. IsWellFoundedOn(R, Nat)
  BY NatLessThanWellFounded
<1>2. \A y, z \in Nat : y < z => <<y, z>> \in R
  BY DEF OpToRel
<1> HIDE DEF R
<1>3. PICK x \in T : \A y \in T : ~ (<<y, x>> \in R)
  BY <1>1, WFMin
<1>4. ASSUME NEW y \in T PROVE x <= y
  <2>1. x \in Nat /\ y \in Nat
    OBVIOUS
  <2>2. ~ (y < x)
    BY <1>2, <1>3, <2>1
  <2> QED
    BY <2>1, <2>2
<1> QED
  BY <1>4

\* A sequence with one element put in behind its first i.
LEMMA PutIn ==
    ASSUME NEW s \in Seq(Vma), NEW i \in 0 .. Len(s), NEW e \in Vma
    PROVE  LET t == SubSeq(s, 1, i) \o <<e>> \o SubSeq(s, i + 1, Len(s)) IN
           /\ t \in Seq(Vma) /\ Len(t) = Len(s) + 1
           /\ \A j \in 1 .. Len(s) + 1 :
                t[j] = IF j <= i THEN s[j] ELSE IF j = i + 1 THEN e ELSE s[j - 1]
<1> DEFINE a == SubSeq(s, 1, i)
           m == <<e>>
           c == SubSeq(s, i + 1, Len(s))
<1>1. Len(s) \in Nat /\ i \in Nat /\ i <= Len(s) /\ \A j \in 1 .. Len(s) : s[j] \in Vma
  OBVIOUS
<1>2. a \in Seq(Vma) /\ Len(a) = i /\ \A j \in 1 .. i : a[j] = s[j]
  BY <1>1, SubSeqProperties
<1>3. c \in Seq(Vma) /\ Len(c) = Len(s) - i /\ \A j \in 1 .. Len(s) - i : c[j] = s[i + j]
  BY <1>1, SubSeqProperties
<1>4. m \in Seq(Vma) /\ Len(m) = 1 /\ m[1] = e
  OBVIOUS
<1> HIDE DEF a, m, c
<1>5. /\ a \o m \in Seq(Vma) /\ Len(a \o m) = i + 1
      /\ \A j \in 1 .. i + 1 : (a \o m)[j] = IF j <= i THEN a[j] ELSE m[j - i]
  <2>1. Len(a) + Len(m) = i + 1
    BY <1>1, <1>2, <1>4
  <2>2. /\ a \o m \in Seq(Vma) /\ Len(a \o m) = Len(a) + Len(m)
        /\ \A j \in 1 .. Len(a) + Len(m) :
             (a \o m)[j] = IF j <= Len(a) THEN a[j] ELSE m[j - Len(a)]
    BY <1>2, <1>4, ConcatProperties
  <2> QED
    BY <1>2, <2>1, <2>2
<1> DEFINE am == a \o m
<1> HIDE DEF am
<1>6. /\ am \in Seq(Vma) /\ Len(am) = i + 1
      /\ \A j \in 1 .. i : am[j] = s[j]
      /\ am[i + 1] = e
  BY <1>1, <1>2, <1>4, <1>5 DEF am
<1>7. /\ am \o c \in Seq(Vma) /\ Len(am \o c) = Len(s) + 1
      /\ \A j \in 1 .. Len(s) + 1 : (am \o c)[j] = IF j <= i + 1 THEN am[j] ELSE c[j - (i + 1)]
  <2>1. Len(am) + Len(c) = Len(s) + 1
    BY <1>1, <1>3, <1>6
  <2> QED
    BY <1>3, <1>6, <2>1, ConcatProperties
<1>8. ASSUME NEW j \in 1 .. Len(s) + 1
      PROVE  (am \o c)[j] = IF j <= i THEN s[j] ELSE IF j = i + 1 THEN e ELSE s[j - 1]
  <2>1. CASE j <= i + 1
    BY <1>1, <1>6, <1>7, <2>1
  <2>2. CASE ~ (j <= i + 1)
    <3>1. j - (i + 1) \in 1 .. Len(s) - i /\ i + (j - (i + 1)) = j - 1
      BY <1>1, <2>2
    <3>2. c[j - (i + 1)] = s[i + (j - (i + 1))]
      BY <1>3, <3>1
    <3> QED
      BY <1>1, <1>7, <2>2, <3>1, <3>2
  <2> QED
    BY <2>1, <2>2
<1> QED
  BY <1>7, <1>8 DEF am, a, m, c

\* The areas of the list, seen through its places.
LEMMA InListed ==
    ASSUME NEW v
    PROVE  v \in Listed <=> \E i \in 1 .. Len(mmap_list) : mmap_list[i] = v
BY DEF Listed

\* Addresses are integers.
LEMMA Numbers ==
    ASSUME TypeOK
    PROVE  /\ \A v \in Vma : range[v].vm_start \in Addr /\ range[v].vm_end \in Addr
           /\ \A a \in Addr : a \in Nat
           /\ Len(mmap_list) \in Nat
           /\ \A i \in 1 .. Len(mmap_list) : mmap_list[i] \in Vma
           /\ Listed \subseteq Vma
<1>1. \A v \in Vma : range[v].vm_start \in Addr /\ range[v].vm_end \in Addr
  BY DEF TypeOK
<1>2. \A a \in Addr : a \in Nat
  BY VmmAssumption DEF Addr
<1>3. Len(mmap_list) \in Nat /\ \A i \in 1 .. Len(mmap_list) : mmap_list[i] \in Vma
  BY DEF TypeOK
<1> QED
  BY <1>1, <1>2, <1>3 DEF Listed

\* Disjoint areas are distinct, so the list has as many entries as areas.
ListTyped == mmap_list \in Seq(Vma) /\ range \in [Vma -> [vm_start : Addr, vm_end : Addr]]
Counted == Cardinality(Listed) = Len(mmap_list) /\ Len(mmap_list) \in 0 .. Cardinality(Vma)

LEMMA ListedCounted == ListTyped /\ AreasDisjoint /\ AreasNotEmpty => Counted
<1> SUFFICES ASSUME ListTyped, AreasDisjoint, AreasNotEmpty PROVE Counted
  OBVIOUS
<1> DEFINE n == Len(mmap_list)
<1>1. /\ n \in Nat /\ mmap_list \in [1 .. n -> Vma] /\ Listed \subseteq Vma
      /\ \A v \in Vma : range[v].vm_start \in Nat /\ range[v].vm_end \in Nat
  BY VmmAssumption DEF ListTyped, Addr, Listed
<1>2. ASSUME NEW i \in 1 .. n, NEW j \in 1 .. n, mmap_list[i] = mmap_list[j] PROVE i = j
  <2>1. CASE i < j
    BY <1>1, <1>2, <2>1 DEF AreasDisjoint, AreasNotEmpty
  <2>2. CASE j < i
    BY <1>1, <1>2, <2>2 DEF AreasDisjoint, AreasNotEmpty
  <2> QED
    BY <1>1, <2>1, <2>2
<1>3. mmap_list \in [1 .. n -> Listed]
  BY <1>1, InListed
<1>4. mmap_list \in Injection(1 .. n, Listed)
  BY <1>2, <1>3 DEF Injection, IsInjective
<1>5. mmap_list \in Surjection(1 .. n, Listed)
  BY <1>3, InListed DEF Surjection
<1>6. ExistsBijection(1 .. n, Listed)
  BY <1>4, <1>5 DEF ExistsBijection, Bijection
<1>7. Cardinality(Listed) = n
  BY <1>1, <1>6, FS_CountingElements
<1>8. Cardinality(Listed) <= Cardinality(Vma) /\ Cardinality(Vma) \in Nat
  BY <1>1, VmmAssumption, FS_Subset, FS_CardinalityType
<1> QED
  BY <1>1, <1>7, <1>8 DEF Counted

LEMMA ListedCountedNext == (ListTyped /\ AreasDisjoint /\ AreasNotEmpty)' => Counted'
BY ListedCounted, PTL

-----------------------------------------------------------------------------
(* The loops over the list *)

\* insert_vma_struct's loop stops behind the leading areas that do not start above v.
LEMMA InsertAtStops ==
    ASSUME TypeOK, NEW v \in Vma
    PROVE  LET i == InsertAt(v) IN
           /\ i \in 0 .. Len(mmap_list)
           /\ \A j \in 1 .. i : range[mmap_list[j]].vm_start <= range[v].vm_start
           /\ i < Len(mmap_list) => range[mmap_list[i + 1]].vm_start > range[v].vm_start
<1> DEFINE n == Len(mmap_list)
           start(j) == range[mmap_list[j]].vm_start
           s == range[v].vm_start
           Stops(i) == /\ \A j \in 1 .. i : start(j) <= s
                       /\ i < n => start(i + 1) > s
           above == {j \in 1 .. n : start(j) > s}
<1>1. n \in Nat /\ s \in Nat /\ \A j \in 1 .. n : start(j) \in Nat
  BY Numbers DEF Addr
<1>2. \E i \in 0 .. n : Stops(i)
  <2>1. CASE above = {}
    <3>1. Stops(n)
      BY <1>1, <2>1
    <3> QED
      BY <1>1, <3>1
  <2>2. CASE above # {}
    <3>1. above \subseteq Nat
      BY <1>1
    <3>2. PICK k \in above : \A j \in above : k <= j
      BY <2>2, <3>1, LeastNumber
    <3>3. k - 1 \in 0 .. n /\ k = (k - 1) + 1
      BY <1>1
    <3>4. Stops(k - 1)
      BY <1>1, <3>2, <3>3
    <3> QED
      BY <3>3, <3>4
  <2> QED
    BY <2>1, <2>2
<1>3. InsertAt(v) = CHOOSE i \in 0 .. n : Stops(i)
  BY DEF InsertAt
<1> HIDE DEF Stops
<1>4. InsertAt(v) \in 0 .. n /\ Stops(InsertAt(v))
  BY <1>2, <1>3
<1> QED
  BY <1>4 DEF Stops

\* The search returns an area of the list that holds the address, if there is one.
LEMMA SearchFinds ==
    ASSUME TypeOK, NEW a
    PROVE  IF \E v \in Listed : Holds(v, a)
           THEN Search(a) \in Listed /\ Holds(Search(a), a)
           ELSE Search(a) = NULL
<1> DEFINE hits == {i \in 1 .. Len(mmap_list) : Holds(mmap_list[i], a)}
           first == CHOOSE i \in hits : \A j \in hits : i <= j
<1>1. Search(a) = IF hits = {} THEN NULL ELSE mmap_list[first]
  BY DEF Search
<1>2. (\E v \in Listed : Holds(v, a)) <=> hits # {}
  BY InListed
<1>3. ASSUME hits # {} PROVE first \in hits
  <2>1. hits \subseteq Nat
    BY Numbers
  <2>2. \E i \in hits : \A j \in hits : i <= j
    BY <1>3, <2>1, LeastNumber
  <2> HIDE DEF hits
  <2> QED
    BY <2>2
<1>4. ASSUME hits # {} PROVE mmap_list[first] \in Listed /\ Holds(mmap_list[first], a)
  BY <1>3, <1>4, InListed
<1> QED
  BY <1>1, <1>2, <1>4

-----------------------------------------------------------------------------
(* Every step preserves the inductive invariant *)

LEMMA InitInv == Init => IInv
<1> SUFFICES ASSUME Init PROVE IInv
  OBVIOUS
<1>1. Cardinality(Vma) \in Nat
  BY VmmAssumption, FS_CardinalityType
<1>2. Listed = {} /\ Cardinality(Listed) = 0
  BY FS_EmptySet DEF Init, Listed
<1>3. TypeOK
  <2>1. 0 \in Addr /\ mmap_list \in Seq(Vma)
    BY VmmAssumption DEF Init, Addr
  <2>2. exists \in BOOLEAN /\ panic \in BOOLEAN /\ kmem \subseteq Vma
    BY DEF Init
  <2>5. mmap_cache \in Vma \union {NULL} /\ map_count \in 0 .. Cardinality(Vma)
    BY <1>1 DEF Init
  <2>3. range \in [Vma -> [vm_start : Addr, vm_end : Addr]]
    BY <2>1 DEF Init, Empty
  <2>4. found \in [addr : Addr, vma : Vma \union {NULL}]
    BY <2>1 DEF Init, NoAnswer
  <2> QED
    BY <2>1, <2>2, <2>3, <2>4, <2>5 DEF TypeOK
<1>4. AreasDisjoint /\ AreasNotEmpty
  BY DEF Init, AreasDisjoint, AreasNotEmpty
<1> QED
  BY <1>2, <1>3, <1>4 DEF Init, IInv, AreasLive

\* A listed area is one that kmalloc has given out.
LEMMA ListedOwned == IInv => Listed \subseteq kmem
BY DEF IInv, AreasLive, Listed

LEMMA CreateInv ==
    ASSUME IInv, mm_create
    PROVE  IInv'
<1>1. Listed' = {} /\ Cardinality({}) = 0
  BY FS_EmptySet DEF mm_create, Listed
<1>2. Cardinality(Vma) \in Nat
  BY VmmAssumption, FS_CardinalityType
<1> QED
  BY <1>1, <1>2 DEF IInv, AreasLive, AreasDisjoint, AreasNotEmpty, TypeOK, mm_create

LEMMA VmaCreateInv ==
    ASSUME IInv, NEW v \in Vma, NEW s \in Addr, NEW e \in Addr, vma_create(v, s, e)
    PROVE  IInv'
<1>1. /\ kmem' = kmem \union {v} /\ v \notin kmem
      /\ range' = [range EXCEPT ![v] = [vm_start |-> s, vm_end |-> e]]
      /\ UNCHANGED <<exists, mmap_list, mmap_cache, map_count, panic>> /\ found' = NoAnswer
      /\ TypeOK
  BY DEF vma_create, IInv, AreasLive
<1>2. Listed' = Listed /\ v \notin Listed
  BY <1>1, ListedOwned DEF Listed
<1>3. \A i \in 1 .. Len(mmap_list) : range'[mmap_list[i]] = range[mmap_list[i]]
  BY <1>1, <1>2, InListed DEF TypeOK
<1>4. TypeOK'
  BY <1>1, VmmAssumption DEF TypeOK, NoAnswer, Addr
<1>5. AreasDisjoint' /\ AreasNotEmpty'
  BY <1>1, <1>3 DEF IInv, AreasDisjoint, AreasNotEmpty
<1> QED
  BY <1>1, <1>2, <1>4, <1>5 DEF IInv, AreasLive

LEMMA InsertInv ==
    ASSUME IInv, NEW v \in Vma, insert_vma_struct(v)
    PROVE  IInv'
<1> DEFINE i == InsertAt(v)
           n == Len(mmap_list)
           L == mmap_list
<1>1. /\ v \in kmem /\ v \notin Listed /\ exists /\ found' = NoAnswer
      /\ UNCHANGED <<exists, kmem, range, mmap_cache>>
      /\ TypeOK /\ Listed \subseteq kmem
  BY DEF insert_vma_struct, IInv, AreasLive
<1>2. i \in 0 .. n /\ n \in Nat
  BY <1>1, InsertAtStops, Numbers
<1>3. CASE UNCHANGED <<mmap_list, map_count>>
  <2>1. Listed' = Listed
    BY <1>3 DEF Listed
  <2>2. panic' \in BOOLEAN
    BY <1>1 DEF insert_vma_struct, TypeOK
  <2>3. TypeOK'
    BY <1>1, <1>3, <2>2, VmmAssumption DEF TypeOK, NoAnswer, Addr
  <2> QED
    BY <1>1, <1>3, <2>1, <2>3 DEF IInv, AreasLive, AreasDisjoint, AreasNotEmpty
<1>4. CASE /\ AssertsHold(v, i) /\ UNCHANGED panic /\ map_count' = map_count + 1
           /\ mmap_list' = SubSeq(L, 1, i) \o <<v>> \o SubSeq(L, i + 1, Len(L))
  <2>1. /\ mmap_list' \in Seq(Vma) /\ Len(mmap_list') = n + 1
        /\ \A j \in 1 .. n + 1 :
             mmap_list'[j] = IF j <= i THEN L[j] ELSE IF j = i + 1 THEN v ELSE L[j - 1]
    <3>1. /\ L \in Seq(Vma) /\ i \in 0 .. Len(L)
          /\ mmap_list' = SubSeq(L, 1, i) \o <<v>> \o SubSeq(L, i + 1, Len(L))
      BY <1>1, <1>2, <1>4 DEF TypeOK
    <3> HIDE DEF L, i
    <3>2. LET t == SubSeq(L, 1, i) \o <<v>> \o SubSeq(L, i + 1, Len(L)) IN
          /\ t \in Seq(Vma) /\ Len(t) = Len(L) + 1
          /\ \A j \in 1 .. Len(L) + 1 :
               t[j] = IF j <= i THEN L[j] ELSE IF j = i + 1 THEN v ELSE L[j - 1]
      BY <3>1, PutIn, ZenonT(30)
    <3> HIDE DEF n
    <3>3. /\ mmap_list' \in Seq(Vma) /\ Len(mmap_list') = Len(L) + 1
          /\ \A j \in 1 .. Len(L) + 1 :
               mmap_list'[j] = IF j <= i THEN L[j] ELSE IF j = i + 1 THEN v ELSE L[j - 1]
      BY <3>1, <3>2
    <3> QED
      BY <3>3 DEF n, L
  <2> DEFINE M == mmap_list'
             start(w) == range[w].vm_start
             end(w) == range[w].vm_end
  <2>2. /\ \A w \in Vma : start(w) \in Nat /\ end(w) \in Nat
        /\ \A j \in 1 .. n : L[j] \in Vma
    BY <1>1, Numbers DEF Addr
  <2>3. /\ \A j \in 1 .. n : start(L[j]) < end(L[j])
        /\ \A j, k \in 1 .. n : j < k => end(L[j]) <= start(L[k])
    BY DEF IInv, AreasDisjoint, AreasNotEmpty
  <2>4. /\ start(v) < end(v)
        /\ i > 0 => end(L[i]) <= start(v)
        /\ i < n => end(v) <= start(L[i + 1])
    BY <1>4 DEF AssertsHold, check_vma_overlap
  <2>5. /\ \A j \in 1 .. n : j <= i => end(L[j]) <= start(v)
        /\ \A j \in 1 .. n : j > i => end(v) <= start(L[j])
    <3>1. ASSUME NEW j \in 1 .. n, j <= i PROVE end(L[j]) <= start(v)
      <4>1. i \in 1 .. n
        BY <1>2, <3>1
      <4>2. j < i => end(L[j]) <= start(L[i])
        BY <2>3, <4>1
      <4> QED
        BY <1>2, <2>2, <2>3, <2>4, <3>1, <4>1, <4>2
    <3>2. ASSUME NEW j \in 1 .. n, j > i PROVE end(v) <= start(L[j])
      <4>1. i + 1 \in 1 .. n
        BY <1>2, <3>2
      <4>2. end(v) <= start(L[i + 1]) /\ start(L[i + 1]) < end(L[i + 1])
        BY <1>2, <2>3, <2>4, <4>1
      <4>3. CASE i + 1 < j
        BY <2>2, <2>3, <4>1, <4>2, <4>3
      <4>4. CASE i + 1 = j
        BY <4>2, <4>4
      <4> QED
        BY <1>2, <3>2, <4>3, <4>4
    <3> QED
      BY <3>1, <3>2
  <2> HIDE DEF L, n, i, start, end
  <2>6. ASSUME NEW j \in 1 .. n + 1 PROVE start(M[j]) < end(M[j])
    BY <1>2, <2>1, <2>3, <2>4
  <2>7. ASSUME NEW j \in 1 .. n + 1, NEW k \in 1 .. n + 1, j < k PROVE end(M[j]) <= start(M[k])
    <3>1. CASE k <= i
      BY <1>2, <2>1, <2>3, <2>7, <3>1
    <3>2. CASE k = i + 1
      BY <1>2, <2>1, <2>5, <2>7, <3>2
    <3>3. CASE k > i + 1 /\ j <= i
      BY <1>2, <2>1, <2>3, <2>7, <3>3
    <3>4. CASE k > i + 1 /\ j = i + 1
      BY <1>2, <2>1, <2>5, <2>7, <3>4
    <3>5. CASE k > i + 1 /\ j > i + 1
      <4>1. /\ j - 1 \in 1 .. n /\ k - 1 \in 1 .. n /\ j - 1 < k - 1
            /\ M[j] = L[j - 1] /\ M[k] = L[k - 1]
        BY <1>2, <2>1, <2>7, <3>5
      <4> QED
        BY <2>3, <4>1
    <3> QED
      BY <1>2, <3>1, <3>2, <3>3, <3>4, <3>5
  <2>8. AreasDisjoint' /\ AreasNotEmpty'
    BY <1>1, <2>1, <2>6, <2>7 DEF AreasDisjoint, AreasNotEmpty, start, end
  <2>9. Listed' = Listed \union {v}
    <3>1. ASSUME NEW w PROVE w \in Listed' <=> \E j \in 1 .. n + 1 : M[j] = w
      BY <2>1 DEF Listed
    <3>2. M[i + 1] = v /\ i + 1 \in 1 .. n + 1
      BY <1>2, <2>1
    <3>3. ASSUME NEW j \in 1 .. n
          PROVE  \E k \in 1 .. n + 1 : M[k] = L[j]
      <4>1. CASE j <= i
        BY <1>2, <2>1, <4>1
      <4>2. CASE ~ (j <= i)
        <5>1. j + 1 \in 1 .. n + 1 /\ M[j + 1] = L[j]
          BY <1>2, <2>1, <4>2
        <5> QED
          BY <5>1
      <4> QED
        BY <4>1, <4>2
    <3>4. ASSUME NEW j \in 1 .. n + 1
          PROVE  M[j] = v \/ \E k \in 1 .. n : M[j] = L[k]
      <4>1. CASE j <= i
        BY <1>2, <2>1, <4>1
      <4>2. CASE j = i + 1
        BY <1>2, <2>1, <4>2
      <4>3. CASE j > i + 1
        <5>1. j - 1 \in 1 .. n /\ M[j] = L[j - 1]
          BY <1>2, <2>1, <4>3
        <5> QED
          BY <5>1
      <4> QED
        BY <1>2, <4>1, <4>2, <4>3
    <3>5. \A w : w \in Listed <=> \E j \in 1 .. n : L[j] = w
      BY DEF Listed, L, n
    <3> QED
      BY <3>1, <3>2, <3>3, <3>4, <3>5
  <2>10. map_count = n /\ (mmap_cache # NULL => mmap_cache \in Listed)
    BY <1>1 DEF IInv, AreasLive, n
  <2>11. Counted'
    BY <1>1, <2>1, <2>8, ListedCountedNext DEF ListTyped, TypeOK
  <2>12. map_count' = Len(mmap_list') /\ map_count' = Cardinality(Listed')
         /\ map_count' \in 0 .. Cardinality(Vma)
    BY <1>4, <2>1, <2>10, <2>11 DEF Counted
  <2>13. TypeOK'
    BY <1>1, <1>4, <2>1, <2>12, VmmAssumption, SMTT(20) DEF TypeOK, NoAnswer, Addr
  <2> QED
    BY <1>1, <2>8, <2>9, <2>10, <2>12, <2>13 DEF IInv, AreasLive
<1> QED
  BY <1>3, <1>4 DEF insert_vma_struct

\* Whether the cache answers or the search, find_vma is exact.
LEMMA FindExact ==
    ASSUME IInv, NEW a \in Addr, find_vma(a)
    PROVE  /\ found'.addr = a
           /\ IF \E v \in Listed : Holds(v, a)
              THEN found'.vma \in Listed /\ Holds(found'.vma, a)
              ELSE found'.vma = NULL
           /\ mmap_cache' \in {mmap_cache, found'.vma}
           /\ mmap_cache' # NULL => mmap_cache' \in Listed
<1>1. TypeOK /\ exists /\ (mmap_cache # NULL => mmap_cache \in Listed)
  BY DEF IInv, AreasLive, find_vma
<1>2. IF \E v \in Listed : Holds(v, a)
      THEN Search(a) \in Listed /\ Holds(Search(a), a)
      ELSE Search(a) = NULL
  BY <1>1, SearchFinds
<1>3. Listed \subseteq Vma /\ NULL \notin Vma
  BY <1>1, Numbers, VmmAssumption
<1> DEFINE v == IF CacheHit(a) THEN mmap_cache ELSE Search(a)
<1>4. /\ found' = [addr |-> a, vma |-> v]
      /\ mmap_cache' = IF v # NULL THEN v ELSE mmap_cache
  BY DEF find_vma
<1>5. IF \E w \in Listed : Holds(w, a) THEN v \in Listed /\ Holds(v, a) ELSE v = NULL
  BY <1>1, <1>2 DEF CacheHit
<1> HIDE DEF v
<1> QED
  BY <1>1, <1>3, <1>4, <1>5

LEMMA FindInv ==
    ASSUME IInv, NEW a \in Addr, find_vma(a)
    PROVE  IInv'
<1>1. /\ UNCHANGED <<exists, kmem, range, mmap_list, map_count, panic>>
      /\ found' \in [addr : {a}, vma : {found'.vma}]
      /\ TypeOK /\ exists
  BY DEF find_vma, IInv, AreasLive
<1>2. Listed' = Listed /\ Listed \subseteq Vma
  BY <1>1, Numbers DEF Listed
<1>3. found'.vma \in Vma \union {NULL} /\ mmap_cache' \in Vma \union {NULL}
  BY <1>1, <1>2, FindExact DEF TypeOK
<1>4. TypeOK'
  BY <1>1, <1>3 DEF TypeOK
<1> QED
  BY <1>1, <1>2, <1>4, FindExact DEF IInv, AreasLive, AreasDisjoint, AreasNotEmpty

LEMMA DestroyInv ==
    ASSUME IInv, mm_destroy
    PROVE  IInv'
<1>1. /\ kmem' \subseteq kmem /\ mmap_list' = <<>> /\ exists' = FALSE
      /\ range' = [v \in Vma |-> IF v \in Listed THEN Empty ELSE range[v]]
      /\ found' = NoAnswer /\ UNCHANGED <<mmap_cache, map_count, panic>>
      /\ TypeOK
  BY DEF mm_destroy, IInv, AreasLive
<1>2. 0 \in Addr
  BY VmmAssumption DEF Addr
<1>3. range' \in [Vma -> [vm_start : Addr, vm_end : Addr]]
  BY <1>1, <1>2 DEF TypeOK, Empty
<1>4. kmem' \subseteq Vma /\ mmap_list' \in Seq(Vma)
      /\ found' \in [addr : Addr, vma : Vma \union {NULL}]
  BY <1>1, <1>2 DEF TypeOK, NoAnswer
<1>5. TypeOK'
  BY <1>1, <1>3, <1>4 DEF TypeOK
<1> QED
  BY <1>1, <1>5 DEF IInv, AreasLive, AreasDisjoint, AreasNotEmpty

LEMMA NextInv == IInv /\ [Next]_vars => IInv'
<1> SUFFICES ASSUME IInv, [Next]_vars PROVE IInv'
  OBVIOUS
<1>1. CASE mm_create
  BY <1>1, CreateInv
<1>2. ASSUME NEW v \in Vma, NEW s \in Addr, NEW e \in Addr, vma_create(v, s, e) PROVE IInv'
  BY <1>2, VmaCreateInv
<1>3. ASSUME NEW v \in Vma, insert_vma_struct(v) PROVE IInv'
  BY <1>3, InsertInv
<1>4. ASSUME NEW a \in Addr, find_vma(a) PROVE IInv'
  BY <1>4, FindInv
<1>5. CASE mm_destroy
  BY <1>5, DestroyInv
<1>6. CASE UNCHANGED vars
  <2>1. UNCHANGED <<exists, kmem, range, mmap_list, mmap_cache, map_count, panic, found, Listed>>
    BY <1>6 DEF vars, Listed
  <2> QED
    BY <2>1 DEF IInv, AreasLive, AreasDisjoint, AreasNotEmpty, TypeOK
<1> QED
  BY <1>1, <1>2, <1>3, <1>4, <1>5, <1>6 DEF Next, Panicked

THEOREM Invariance == Spec => []IInv
BY InitInv, NextInv, PTL DEF Spec

\* The areas on the list are in order and disjoint after any calls, though
\* insert_vma_struct compares a new one only with its neighbours.
THEOREM Disjoint == Spec => []AreasDisjoint
<1>1. IInv => AreasDisjoint
  BY DEF IInv
<1> QED
  BY Invariance, <1>1, PTL

\* The list and the cache point only to vma_structs that are not freed, and map_count
\* counts them, one mm_struct after the other.
THEOREM Live == Spec => []AreasLive
<1>1. IInv => AreasLive
  BY DEF IInv
<1> QED
  BY Invariance, <1>1, PTL

-----------------------------------------------------------------------------
(* What a step may do *)

\* Where the assertions fail, v is empty or overlaps one of its neighbours: the loop
\* put it behind areas that do not start above it, and before one that does.
LEMMA AssertsFair ==
    ASSUME IInv, NEW v \in Vma, ~ AssertsHold(v, InsertAt(v))
    PROVE  \/ range[v].vm_start >= range[v].vm_end
           \/ \E w \in Listed : /\ range[v].vm_start < range[w].vm_end
                                /\ range[w].vm_start < range[v].vm_end
<1> DEFINE i == InsertAt(v)
           n == Len(mmap_list)
           L == mmap_list
           start(w) == range[w].vm_start
           end(w) == range[w].vm_end
<1>1. /\ TypeOK /\ AreasNotEmpty
  BY DEF IInv, AreasLive
<1>2. /\ n \in Nat /\ \A w \in Vma : start(w) \in Nat /\ end(w) \in Nat
      /\ \A j \in 1 .. n : L[j] \in Vma /\ L[j] \in Listed /\ start(L[j]) < end(L[j])
  BY <1>1, Numbers, InListed DEF Addr, AreasNotEmpty
<1>3. /\ i \in 0 .. n
      /\ \A j \in 1 .. i : start(L[j]) <= start(v)
      /\ i < n => start(L[i + 1]) > start(v)
  BY <1>1, InsertAtStops
<1>4. CASE start(v) >= end(v)
  BY <1>4
<1>5. CASE start(v) < end(v) /\ i > 0 /\ ~ check_vma_overlap(L[i], v)
  <2>1. i \in 1 .. n /\ i \in 1 .. i
    BY <1>2, <1>3, <1>5
  <2>2. start(L[i]) < end(L[i]) /\ start(L[i]) <= start(v) /\ L[i] \in Vma /\ L[i] \in Listed
    BY <1>2, <1>3, <2>1
  <2>3. ~ (end(L[i]) <= start(v))
    BY <1>5, <2>2 DEF check_vma_overlap
  <2>4. start(v) < end(L[i]) /\ start(L[i]) < end(v)
    BY <1>2, <1>5, <2>2, <2>3
  <2> QED
    BY <2>2, <2>4
<1>6. CASE start(v) < end(v) /\ i < n /\ ~ check_vma_overlap(v, L[i + 1])
  <2>1. i + 1 \in 1 .. n
    BY <1>2, <1>3, <1>6
  <2>2. /\ start(L[i + 1]) < end(L[i + 1]) /\ start(L[i + 1]) > start(v)
        /\ L[i + 1] \in Vma /\ L[i + 1] \in Listed
    BY <1>2, <1>3, <1>6, <2>1
  <2>3. ~ (end(v) <= start(L[i + 1]))
    BY <1>6, <2>2 DEF check_vma_overlap
  <2>4. start(v) < end(L[i + 1]) /\ start(L[i + 1]) < end(v)
    BY <1>2, <2>2, <2>3
  <2> QED
    BY <2>2, <2>4
<1>7. start(v) >= end(v) \/ start(v) < end(v)
  BY <1>2
<1> QED
  BY <1>4, <1>5, <1>6, <1>7 DEF AssertsHold

\* insert_vma_struct panics only over an area that is empty or overlaps one on the list:
\* its assertions refuse nothing that fits.
THEOREM Justified == Spec => PanicJustified
<1> DEFINE Fair == panic' /\ ~ panic =>
                     \E v \in kmem \ Listed :
                        \/ range[v].vm_start >= range[v].vm_end
                        \/ \E w \in Listed : /\ range[v].vm_start < range[w].vm_end
                                             /\ range[w].vm_start < range[v].vm_end
<1>1. ASSUME IInv, [Next]_vars PROVE [Fair]_vars
  <2> SUFFICES ASSUME panic', ~ panic, ~ UNCHANGED vars PROVE Fair
    OBVIOUS
  <2>1. \A v \in Vma, s, e \in Addr : ~ vma_create(v, s, e)
    BY DEF vma_create
  <2>2. ~ mm_create /\ ~ mm_destroy /\ ~ Panicked /\ \A a \in Addr : ~ find_vma(a)
    BY DEF mm_create, mm_destroy, Panicked, find_vma
  <2>3. PICK v \in Vma : insert_vma_struct(v)
    BY <1>1, <2>1, <2>2 DEF Next
  <2>4. v \in kmem \ Listed /\ ~ AssertsHold(v, InsertAt(v))
    BY <2>3 DEF insert_vma_struct
  <2> QED
    BY <1>1, <2>4, AssertsFair
<1> QED
  BY Invariance, <1>1, PTL DEF Spec, PanicJustified

\* find_vma returns an area that holds the address whenever there is one on the list,
\* and NULL otherwise, whatever earlier calls left in its one-entry cache.
THEOREM Finds == Spec => FindsTheArea
<1> DEFINE Exact == found' # found /\ found' # NoAnswer =>
                      IF \E v \in Listed : Holds(v, found'.addr)
                      THEN found'.vma \in Listed /\ Holds(found'.vma, found'.addr)
                      ELSE found'.vma = NULL
<1>1. ASSUME IInv, [Next]_vars PROVE [Exact]_vars
  <2> SUFFICES ASSUME found' # found, found' # NoAnswer PROVE Exact
    OBVIOUS
  <2>1. /\ \A v \in Vma, s, e \in Addr : ~ vma_create(v, s, e)
        /\ \A v \in Vma : ~ insert_vma_struct(v)
    BY DEF vma_create, insert_vma_struct
  <2>2. ~ mm_create /\ ~ mm_destroy /\ ~ UNCHANGED vars
    BY DEF mm_create, mm_destroy, vars
  <2>3. PICK a \in Addr : find_vma(a)
    BY <1>1, <2>1, <2>2 DEF Next, Panicked
  <2> QED
    BY <1>1, <2>3, FindExact
<1> QED
  BY Invariance, <1>1, PTL DEF Spec, FindsTheArea

==============================================================================
