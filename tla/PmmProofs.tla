------------------------------ MODULE PmmProofs ------------------------------
(***************************************************************************)
(* Proofs about Pmm, for every size of memory and every bound, under the   *)
(* assumption that callers leave the last page free.                       *)
(***************************************************************************)
EXTENDS Pmm, FiniteSetTheorems, TLAPS

\* The inductive invariant.  TopStaysFree is the assumption on the callers.
IInv ==
    /\ TopStaysFree
    /\ TypeOK
    /\ ListSorted
    /\ BlocksDisjoint
    /\ Coalesced
    /\ Partition
    /\ FreeCounted
    /\ FreeUnreferenced
    /\ NoPanic
    /\ CallPosition
    /\ TopFree

-----------------------------------------------------------------------------
(* libs/list.h on a sorted list *)

LinksType == [next : [Node -> Node], prev : [Node -> Node]]

\* Unlinking an entry of a sorted list leaves the others sorted.
LEMMA DelSorted ==
    ASSUME NEW l \in LinksType, NEW S \in SUBSET Page, Sorted(l, S), NEW e \in S
    PROVE  Sorted(list_del(l, e), S \ {e})
<1> DEFINE a == l.prev[e]
           c == l.next[e]
           m == list_del(l, e)
           T == S \ {e}
<1>0. /\ l.next \in [Node -> Node] /\ l.prev \in [Node -> Node]
      /\ S \subseteq Node /\ HEAD \in Node /\ HEAD \notin S
      /\ \A x \in Node : x \in Int
  BY PmmAssumption DEF LinksType, Node, Page, HEAD
<1>1. /\ a \in S \union {HEAD} /\ c \in S \union {HEAD}
      /\ l.next[a] = e /\ l.prev[c] = e
      /\ a < e /\ (c = HEAD \/ e < c)
  BY <1>0 DEF Sorted, HEAD
<1>2. /\ m.next = [l.next EXCEPT ![a] = c]
      /\ m.prev = [l.prev EXCEPT ![c] = a]
  BY DEF list_del, __list_del
<1>3. SUFFICES ASSUME NEW x \in T \union {HEAD}
      PROVE  /\ m.next[x] \in T \union {HEAD} /\ m.prev[m.next[x]] = x
             /\ m.prev[x] \in T \union {HEAD} /\ m.next[m.prev[x]] = x
             /\ m.next[x] = HEAD => \A z \in T : z <= x
             /\ m.next[x] # HEAD => /\ x < m.next[x]
                                   /\ \A z \in T : z <= x \/ m.next[x] <= z
  BY DEF Sorted
<1>4. /\ m.next[x] = IF x = a THEN c ELSE l.next[x]
      /\ m.prev[x] = IF x = c THEN a ELSE l.prev[x]
  BY <1>0, <1>2
<1>5. m.next[x] \in T \union {HEAD} /\ m.prev[m.next[x]] = x
  BY <1>0, <1>1, <1>2, <1>4 DEF Sorted
<1>6. m.prev[x] \in T \union {HEAD} /\ m.next[m.prev[x]] = x
  BY <1>0, <1>1, <1>2, <1>4 DEF Sorted
<1>7. m.next[x] = HEAD => \A z \in T : z <= x
  BY <1>0, <1>1, <1>4 DEF Sorted
<1>8. m.next[x] # HEAD => x < m.next[x] /\ \A z \in T : z <= x \/ m.next[x] <= z
  <2>1. CASE x = a
    <3>1. e # HEAD /\ \A z \in S : z <= a \/ e <= z
      BY <1>0, <1>1 DEF Sorted
    <3>2. c # HEAD => \A z \in S : z <= e \/ c <= z
      BY <1>0, <1>1 DEF Sorted
    <3> QED
      BY <1>0, <1>1, <1>4, <2>1, <3>1, <3>2
  <2>2. CASE x # a
    BY <1>0, <1>4, <2>2 DEF Sorted
  <2> QED
    BY <2>1, <2>2
<1> QED
  BY <1>5, <1>6, <1>7, <1>8

\* Linking a page behind an entry, where it belongs, keeps the list sorted.
LEMMA AddSorted ==
    ASSUME NEW l \in LinksType, NEW S \in SUBSET Page, Sorted(l, S),
           NEW e \in S \union {HEAD}, NEW b \in Page \ S,
           e < b, l.next[e] = HEAD \/ b < l.next[e]
    PROVE  Sorted(list_add(l, e, b), S \union {b})
<1> DEFINE c == l.next[e]
           m == list_add(l, e, b)
           T == S \union {b}
<1>0. /\ l.next \in [Node -> Node] /\ l.prev \in [Node -> Node]
      /\ S \subseteq Node /\ HEAD \in Node /\ HEAD \notin S /\ b \in Node /\ b # HEAD
      /\ \A x \in Node : x \in Int
  BY PmmAssumption DEF LinksType, Node, Page, HEAD
<1>1. /\ c \in S \union {HEAD} /\ l.prev[c] = e
      /\ e < b /\ (c = HEAD \/ b < c) /\ e # b /\ c # b
  BY <1>0 DEF Sorted
<1>2. /\ m.next = [l.next EXCEPT ![e] = b, ![b] = c]
      /\ m.prev = [l.prev EXCEPT ![c] = b, ![b] = e]
  BY DEF list_add, __list_add
<1>3. SUFFICES ASSUME NEW x \in T \union {HEAD}
      PROVE  /\ m.next[x] \in T \union {HEAD} /\ m.prev[m.next[x]] = x
             /\ m.prev[x] \in T \union {HEAD} /\ m.next[m.prev[x]] = x
             /\ m.next[x] = HEAD => \A z \in T : z <= x
             /\ m.next[x] # HEAD => /\ x < m.next[x]
                                   /\ \A z \in T : z <= x \/ m.next[x] <= z
  BY DEF Sorted
<1>4. /\ m.next[x] = IF x = b THEN c ELSE IF x = e THEN b ELSE l.next[x]
      /\ m.prev[x] = IF x = b THEN e ELSE IF x = c THEN b ELSE l.prev[x]
  BY <1>0, <1>1, <1>2
<1>5. m.next[x] \in T \union {HEAD} /\ m.prev[m.next[x]] = x
  BY <1>0, <1>1, <1>2, <1>4 DEF Sorted
<1>6. m.prev[x] \in T \union {HEAD} /\ m.next[m.prev[x]] = x
  BY <1>0, <1>1, <1>2, <1>4 DEF Sorted
<1>7. m.next[x] = HEAD => \A z \in T : z <= x
  BY <1>0, <1>1, <1>4 DEF Sorted
<1>8. m.next[x] # HEAD => x < m.next[x] /\ \A z \in T : z <= x \/ m.next[x] <= z
  BY <1>0, <1>1, <1>4 DEF Sorted
<1> QED
  BY <1>5, <1>6, <1>7, <1>8

\* list_add_before is list_add behind the entry before.
LEMMA AddBefore ==
    ASSUME NEW l \in LinksType, NEW S \in SUBSET Page, Sorted(l, S),
           NEW e \in S \union {HEAD}, NEW b
    PROVE  list_add_before(l, e, b) = list_add(l, l.prev[e], b)
BY DEF list_add_before, list_add, Sorted

-----------------------------------------------------------------------------
(* Free blocks and runs of free pages *)

\* The numbers in a state are integers.
LEMMA Numbers ==
    ASSUME TypeOK
    PROVE  /\ \A x \in Page : x \in Nat /\ property[x] \in Nat
           /\ \A x \in PG_property : x \in Page
           /\ base \in Page /\ sz \in Nat /\ nr_free \in Nat
           /\ HEAD \in Int /\ HEAD \notin Page
           /\ NPage \in Nat /\ FirstFree \in Nat /\ FirstFree < NPage
           /\ le \in Int
BY PmmAssumption DEF TypeOK, Page, Managed, Node, HEAD

\* The pages of the free blocks, with the bounds of the blocks spelled out.
LEMMA InFreePages ==
    ASSUME TypeOK, NEW p
    PROVE  p \in FreePages <=> /\ p \in Page
                              /\ \E x \in PG_property : x <= p /\ p < x + property[x]
BY Numbers DEF FreePages, Block, Run

\* The head of a free block is a free page.
LEMMA HeadsFree ==
    ASSUME TypeOK, BlocksDisjoint
    PROVE  PG_property \subseteq FreePages
<1>1. SUFFICES ASSUME NEW x \in PG_property PROVE x \in FreePages
  OBVIOUS
<1>2. x \in Page /\ x <= x /\ x < x + property[x]
  BY Numbers DEF BlocksDisjoint
<1> QED
  BY <1>2, InFreePages

\* A run of free pages lies inside one free block: blocks do not touch.
LEMMA RunInBlock ==
    ASSUME TypeOK, BlocksDisjoint, op \in {"idle", "alloc"}, Coalesced,
           NEW q \in Page, NEW n \in Nat \ {0}, Run(q, n) \subseteq FreePages
    PROVE  \E y \in PG_property : y <= q /\ q + n <= y + property[y]
<1>1. q \in FreePages
  BY Numbers DEF Run
<1>2. PICK y \in PG_property : y <= q /\ q < y + property[y]
  BY <1>1, InFreePages
<1>3. SUFFICES ASSUME q + n > y + property[y] PROVE FALSE
  BY <1>2, Numbers
<1>4. y + property[y] \in FreePages
  <2>1. y + property[y] \in Run(q, n)
    BY <1>2, <1>3, Numbers DEF Run
  <2> QED
    BY <2>1
<1>5. PICK z \in PG_property : z <= y + property[y] /\ y + property[y] < z + property[z]
  BY <1>4, InFreePages
<1>6. z = y + property[y]
  <2>1. y < z
    BY <1>2, <1>5, Numbers DEF BlocksDisjoint
  <2> QED
    BY <1>5, <2>1, Numbers DEF BlocksDisjoint
<1> QED
  BY <1>6, Numbers DEF Coalesced

\* The pages of a run, and the arithmetic of taking one away or putting one back.
LEMMA RunCardinality ==
    ASSUME NEW b \in Int, NEW n \in Nat
    PROVE  IsFiniteSet(Run(b, n)) /\ Cardinality(Run(b, n)) = n
<1>1. b + n - 1 \in Int
  OBVIOUS
<1> QED
  BY <1>1, FS_Interval DEF Run

LEMMA FreeFinite ==
    ASSUME TypeOK, BlocksDisjoint
    PROVE  /\ IsFiniteSet(FreePages) /\ Cardinality(FreePages) \in Nat
           /\ FreePages \subseteq Managed
           /\ Cardinality(FreePages) <= NPage - FirstFree
<1>1. FreePages \subseteq Managed
  <2> SUFFICES ASSUME NEW p \in FreePages PROVE p \in Managed
    OBVIOUS
  <2> QED
    BY InFreePages, Numbers, PmmAssumption DEF BlocksDisjoint, Managed, Page
<1>2. IsFiniteSet(Managed) /\ Cardinality(Managed) = NPage - FirstFree
  BY FS_Interval, PmmAssumption DEF Managed
<1> QED
  BY <1>1, <1>2, FS_Subset, FS_CardinalityType

-----------------------------------------------------------------------------
(* The inductive invariant, action by action *)

LEMMA InitInv ==
    TopStaysFree /\ Init => IInv
<1> SUFFICES ASSUME TopStaysFree, Init PROVE IInv
  OBVIOUS
<1> DEFINE b == FirstFree
           n == NPage - FirstFree
<1>0. /\ NPage \in Nat /\ b \in Nat /\ b < NPage /\ n \in Nat \ {0} /\ b \in Page
      /\ MaxRef \in Nat /\ HEAD \notin Page /\ HEAD = -1
  BY PmmAssumption DEF Page, HEAD
<1>1. /\ links = list_add(default_init, HEAD, b) /\ nr_free = n
      /\ PG_reserved = Page \ Run(b, n) /\ PG_property = {b}
      /\ property = [p \in Page |-> IF p = b THEN n ELSE 0]
      /\ ref = [p \in Page |-> 0] /\ held = {}
      /\ op = "idle" /\ sz = 0 /\ base = b /\ le = HEAD /\ ret = NULL
  BY DEF Init, default_init_memmap
<1>2. /\ links.next = [x \in Node |-> IF x = HEAD THEN b ELSE HEAD]
      /\ links.prev = [x \in Node |-> IF x = HEAD THEN b ELSE HEAD]
      /\ links \in LinksType
  BY <1>0, <1>1 DEF list_add, __list_add, default_init, Node, LinksType
<1>3. TypeOK
  BY <1>0, <1>1, <1>2 DEF TypeOK, Managed, Node, LinksType
<1>4. ListSorted
  BY <1>0, <1>1, <1>2 DEF ListSorted, Sorted, Linked, Node
<1>5. BlocksDisjoint
  BY <1>0, <1>1 DEF BlocksDisjoint
<1>6. Coalesced
  BY <1>0, <1>1 DEF Coalesced
<1>7. FreePages = Managed /\ Run(b, n) = Managed
  <2>1. Run(b, n) = Managed
    BY <1>0 DEF Run, Managed
  <2>2. \A p : p \in FreePages <=> p \in Managed
    BY <1>0, <1>1, <1>3, InFreePages DEF Managed, Page
  <2> QED
    BY <2>1, <2>2
<1>8. Partition
  BY <1>1, <1>7 DEF Partition
<1>9. FreeCounted
  BY <1>0, <1>1, <1>7, RunCardinality DEF FreeCounted
<1>10. FreeUnreferenced
  BY <1>1, <1>3, InFreePages DEF FreeUnreferenced
<1>11. NoPanic /\ CallPosition
  BY <1>1 DEF NoPanic, CallPosition
<1>12. TopFree
  BY <1>0, <1>1 DEF TopFree, Linked
<1> QED
  BY <1>3, <1>4, <1>5, <1>6, <1>8, <1>9, <1>10, <1>11, <1>12 DEF IInv

\* The steps of alloc_pages that only move through the list, and the references
\* an owner counts, leave the free list alone.
LEMMA QuietInv ==
    ASSUME IInv, UNCHANGED <<listvars, held>>,
           op \in {"idle", "alloc"}, op' \in {"idle", "alloc"},
           TypeOK', CallPosition', FreeUnreferenced'
    PROVE  IInv'
<1>1. Linked' = Linked /\ Linked = PG_property
  BY DEF Linked, listvars
<1>2. FreePages' = FreePages
  BY DEF FreePages, Block, listvars
<1>3. ListSorted'
  BY <1>1 DEF IInv, ListSorted, Sorted, listvars
<1>4. BlocksDisjoint' /\ Coalesced' /\ NoPanic'
  BY DEF IInv, BlocksDisjoint, Coalesced, NoPanic, listvars
<1>5. Partition' /\ FreeCounted'
  BY <1>2 DEF IInv, Partition, FreeCounted, listvars
<1>6. TopFree'
  BY <1>1 DEF IInv, TopFree, listvars
<1> QED
  BY <1>3, <1>4, <1>5, <1>6 DEF IInv

LEMMA AllocCallInv ==
    ASSUME IInv, NEW n \in 1 .. MaxRequest, AllocCall(n)
    PROVE  IInv'
<1>1. FreePages' = FreePages
  BY DEF AllocCall, FreePages, Block, listvars
<1>2. TypeOK'
  BY PmmAssumption DEF IInv, AllocCall, TypeOK, listvars, Node
<1>3. CallPosition'
  <2>1. Affordable(n)' /\ le' \in OnList' /\ sz' = n /\ le' = HEAD /\ op' = "alloc"
    BY <1>1 DEF AllocCall, Affordable, OnList
  <2>2. \A x \in PG_property' : ~ (x <= le')
    BY <1>2, PmmAssumption, <2>1 DEF TypeOK, HEAD, Page
  <2> QED
    BY <2>1, <2>2 DEF CallPosition
<1>4. FreeUnreferenced'
  BY <1>1 DEF IInv, AllocCall, FreeUnreferenced
<1> QED
  BY <1>2, <1>3, <1>4, QuietInv DEF AllocCall

LEMMA AllocReturnInv ==
    ASSUME IInv, AllocTooMany \/ AllocNone
    PROVE  IInv'
<1>1. /\ UNCHANGED <<listvars, ref, held>> /\ Return /\ ret' = NULL /\ op = "alloc"
  BY DEF AllocTooMany, AllocNone
<1>2. TypeOK'
  BY <1>1, PmmAssumption DEF IInv, TypeOK, listvars, Node, Return, Managed
<1>3. CallPosition'
  BY <1>1 DEF Return, CallPosition
<1>4. FreeUnreferenced'
  BY <1>1 DEF IInv, FreeUnreferenced, FreePages, Block, listvars
<1> QED
  BY <1>1, <1>2, <1>3, <1>4, QuietInv DEF Return

LEMMA AllocScanInv ==
    ASSUME IInv, AllocScan
    PROVE  IInv'
<1> DEFINE p == links.next[le]
<1>1. /\ UNCHANGED <<listvars, ref, held, op, sz, base, ret>> /\ op = "alloc"
      /\ p # HEAD /\ ~ LargeEnough(p) /\ le' = p
  BY DEF AllocScan
<1>2. Linked = PG_property /\ le \in PG_property \union {HEAD}
  BY <1>1 DEF IInv, CallPosition, OnList, Linked
<1>3. /\ p \in PG_property
      /\ \A z \in PG_property : z <= le \/ p <= z
  BY <1>1, <1>2 DEF IInv, ListSorted, Sorted
<1>4. TypeOK'
  BY <1>1, <1>3 DEF IInv, TypeOK, listvars, Node
<1>5. FreePages' = FreePages
  BY <1>1 DEF FreePages, Block, listvars
<1>6. CallPosition'
  <2>1. ASSUME NEW x \in PG_property, x <= p PROVE ~ LargeEnough(x)
    <3>1. x <= le \/ x = p
      BY <1>3, <2>1, Numbers DEF IInv
    <3> QED
      BY <1>1, <3>1 DEF IInv, CallPosition
  <2>2. sz' \in 1 .. MaxRequest /\ Affordable(sz)'
    BY <1>1, <1>5 DEF IInv, CallPosition, Affordable
  <2>3. le' \in OnList'
    BY <1>1, <1>3 DEF OnList, Linked, listvars
  <2> QED
    BY <1>1, <2>1, <2>2, <2>3 DEF CallPosition, LargeEnough, listvars
<1>7. FreeUnreferenced'
  BY <1>1, <1>5 DEF IInv, FreeUnreferenced
<1> QED
  BY <1>1, <1>4, <1>6, <1>7, QuietInv

LEMMA SetPageRefInv ==
    ASSUME IInv, NEW p \in Managed, NEW v \in 0 .. MaxRef, SetPageRef(p, v)
    PROVE  IInv'
<1>1. FreePages' = FreePages
  BY DEF SetPageRef, FreePages, Block, listvars
<1>2. TypeOK'
  BY PmmAssumption DEF IInv, SetPageRef, TypeOK, listvars, Managed, Page
<1>3. FreeUnreferenced'
  <2>1. p \notin FreePages
    BY DEF IInv, SetPageRef, Partition
  <2>2. FreePages \subseteq Page
    BY DEF FreePages
  <2> QED
    BY <1>1, <2>1, <2>2 DEF IInv, SetPageRef, FreeUnreferenced, TypeOK
<1> QED
  BY <1>2, <1>3, QuietInv DEF SetPageRef, CallPosition

\* The first block that is large enough, and why it is not the whole of the last
\* block: a run that avoids the last page fits too.
LEMMA FirstFit ==
    ASSUME IInv, op = "alloc", links.next[le] # HEAD, LargeEnough(links.next[le])
    PROVE  LET page == links.next[le] IN
           /\ page \in PG_property /\ links.prev[page] = le /\ sz \in Nat \ {0}
           /\ le < page
           /\ \A y \in PG_property : property[y] >= sz => page <= y
           /\ Run(page, sz) \subseteq FreePages
           /\ page + property[page] = NPage => property[page] > sz
<1> DEFINE page == links.next[le]
<1>1. /\ Linked = PG_property /\ le \in PG_property \union {HEAD} /\ sz \in Nat \ {0}
      /\ Affordable(sz) /\ \A x \in PG_property : x <= le => ~ LargeEnough(x)
  BY PmmAssumption DEF IInv, CallPosition, OnList, Linked
<1>2. /\ page \in PG_property /\ links.prev[page] = le /\ le < page
      /\ \A z \in PG_property : z <= le \/ page <= z
  BY <1>1 DEF IInv, ListSorted, Sorted
<1>3. TypeOK /\ BlocksDisjoint /\ Coalesced /\ TopStaysFree
  BY DEF IInv
<1>4. \A y \in PG_property : property[y] >= sz => page <= y
  BY <1>1, <1>2 DEF LargeEnough
<1>5. Run(page, sz) \subseteq FreePages
  <2>1. SUFFICES ASSUME NEW q \in Run(page, sz) PROVE q \in FreePages
    OBVIOUS
  <2>2. page <= q /\ q < page + property[page] /\ q \in Int
    BY <1>1, <1>2, <1>3, Numbers DEF Run, LargeEnough
  <2>3. q \in Page
    BY <1>2, <1>3, <2>2, Numbers DEF BlocksDisjoint, Page
  <2> QED
    BY <1>2, <1>3, <2>2, <2>3, InFreePages
<1>6. ASSUME page + property[page] = NPage PROVE property[page] > sz
  <2>1. page \in FreePages
    BY <1>1, <1>2, <1>3, <1>5, Numbers DEF Run
  <2>2. PICK q \in FreePages \ {NPage - 1} : Run(q, sz) \subseteq FreePages \ {NPage - 1}
    BY <1>1, <1>3, <1>5, <2>1 DEF Affordable, Fits
  <2>3. q \in Page
    BY DEF FreePages
  <2>4. PICK y \in PG_property : y <= q /\ q + sz <= y + property[y]
    BY <1>1, <1>3, <2>2, <2>3, RunInBlock
  <2>5. q + sz - 1 # NPage - 1
    <3>1. q + sz - 1 \in Run(q, sz)
      BY <1>1, <1>3, <2>3, Numbers DEF Run
    <3> QED
      BY <2>2, <3>1
  <2>6. page <= y
    BY <1>1, <1>3, <1>4, <2>3, <2>4, Numbers
  <2>7. y = page
    BY <1>2, <1>3, <1>6, <2>6, Numbers DEF BlocksDisjoint
  <2> QED
    BY <1>1, <1>3, <1>6, <2>3, <2>4, <2>5, <2>7, Numbers
<1> QED
  BY <1>1, <1>2, <1>4, <1>5, <1>6

\* The list operations stay within the nodes.
LEMMA ListTypes ==
    ASSUME NEW l \in LinksType, NEW e \in Node, NEW b \in Node
    PROVE  /\ list_del(l, e) \in LinksType
           /\ list_add(l, e, b) \in LinksType
           /\ list_add_before(l, e, b) \in LinksType
BY DEF LinksType, list_del, __list_del, list_add, list_add_before, __list_add

LEMMA AllocTakeInv ==
    ASSUME IInv, AllocTake
    PROVE  IInv'
<1> DEFINE page == links.next[le]
           p    == page + sz
           cut  == list_del(links, page)
<1>1. /\ op = "alloc" /\ page # HEAD /\ LargeEnough(page)
      /\ nr_free' = nr_free - sz /\ held' = held \union Run(page, sz) /\ ret' = page
      /\ Return /\ UNCHANGED <<PG_reserved, ref>>
  BY DEF AllocTake, CountAlloc
<1>2. /\ page \in PG_property /\ links.prev[page] = le /\ sz \in Nat \ {0}
      /\ le < page /\ le \in PG_property \union {HEAD}
      /\ Run(page, sz) \subseteq FreePages
      /\ page + property[page] = NPage => property[page] > sz
      /\ property[page] >= sz
  BY <1>1, FirstFit DEF IInv, CallPosition, OnList, Linked, LargeEnough
<1>3. /\ TypeOK /\ BlocksDisjoint /\ Coalesced /\ links \in LinksType
      /\ Sorted(links, PG_property) /\ PG_property \in SUBSET Page /\ cut \in LinksType
      /\ op' = "idle" /\ Linked' = PG_property'
      /\ property \in [Page -> 0 .. NPage - FirstFree] /\ FirstFree <= page
  BY <1>1, <1>2, ListTypes
     DEF IInv, ListSorted, Linked, TypeOK, LinksType, Node, Return, BlocksDisjoint
<1>4. Sorted(cut, PG_property \ {page})
  BY <1>2, <1>3, DelSorted
<1>5. /\ \A x, y \in PG_property : x + property[x] # y
      /\ \A x, y \in PG_property : x < y => x + property[x] < y
  <2>1. \A x, y \in PG_property : x + property[x] # y
    BY <1>1, <1>3 DEF Coalesced
  <2> QED
    BY <1>3, <2>1, Numbers DEF BlocksDisjoint
<1>6. /\ links' \in LinksType /\ PG_property' \in SUBSET Page
      /\ property' \in [Page -> 0 .. NPage - FirstFree]
      /\ Sorted(links', PG_property')
      /\ BlocksDisjoint'
      /\ \A x, y \in PG_property' : x + property'[x] # y
      /\ \A q \in Page : (\E x \in PG_property' : x <= q /\ q < x + property'[x])
                           <=> q \in FreePages /\ q \notin Run(page, sz)
      /\ \E x \in PG_property' : x + property'[x] = NPage
  <2>0. PICK top \in PG_property : top + property[top] = NPage
    BY <1>1 DEF IInv, TopFree, Linked
  <2>1. CASE property[page] > sz
    <3>1. /\ property' = [property EXCEPT ![p] = property[page] - sz]
          /\ PG_property' = (PG_property \union {p}) \ {page}
          /\ links' = list_add(cut, le, p)
      BY <1>2, <2>1 DEF AllocTake, Remainder, ClearPageProperty, SetPageProperty
    <3>2. /\ p \in Page /\ page < p /\ p < page + property[page] /\ p \notin PG_property
          /\ le < p /\ le # page
      <4>1. /\ page < p /\ p < page + property[page] /\ le < p /\ le # page /\ p \in Nat
            /\ page + property[page] <= NPage
        BY <1>2, <1>3, <2>1, Numbers DEF BlocksDisjoint
      <4>2. p \in Page
        <5>1. p \in Nat /\ p < NPage /\ NPage \in Nat
          BY <1>2, <1>3, <4>1, Numbers
        <5> QED
          BY <5>1 DEF Page
      <4>3. p \notin PG_property
        BY <1>2, <1>3, <1>5, <4>1, Numbers
      <4> QED
        BY <4>1, <4>2, <4>3
    <3>3. PG_property' = (PG_property \ {page}) \union {p} /\ page \in Page
      BY <1>2, <1>3, <3>1, <3>2, Numbers
    <3>4. /\ p \in Node /\ le \in Node
          /\ cut.next[le] = links.next[page]
      BY <1>2, <1>3, <3>2 DEF list_del, __list_del, Node, LinksType
    <3>5. links' \in LinksType
      BY <1>3, <3>1, <3>4, ListTypes
    <3>6. cut.next[le] = HEAD \/ p < cut.next[le]
      <4>1. links.next[page] = HEAD \/ (links.next[page] \in PG_property /\ page < links.next[page])
        BY <1>2, <1>3 DEF Sorted
      <4>2. links.next[page] # HEAD => page + property[page] < links.next[page]
        BY <1>2, <1>5, <4>1
      <4> QED
        BY <1>2, <1>3, <3>2, <3>4, <4>1, <4>2, Numbers
    <3>7. Sorted(links', PG_property')
      <4>1. le \in (PG_property \ {page}) \union {HEAD} /\ p \in Page \ (PG_property \ {page})
        BY <1>2, <3>2
      <4> QED
        BY <1>3, <1>4, <3>1, <3>2, <3>3, <3>6, <4>1, AddSorted
    <3>8. /\ property'[p] = property[page] - sz /\ property'[p] > 0
          /\ property'[p] \in 0 .. NPage - FirstFree
          /\ p + property'[p] = page + property[page]
          /\ \A x \in PG_property \ {page} : property'[x] = property[x]
      BY <1>2, <1>3, <2>1, <3>1, <3>2, Numbers
    <3>a. \A x \in PG_property \ {page} :
             /\ x < page => x + property[x] < page
             /\ ~ (x < page) => page + property[page] < x
      BY <1>2, <1>3, <1>5, Numbers
    <3>b. ASSUME NEW x \in PG_property', x # p
          PROVE  /\ x \in PG_property \ {page} /\ x \in Nat
                 /\ property'[x] = property[x] /\ property[x] \in Nat
      BY <1>3, <3>3, <3>8, <3>b, Numbers
    <3>c. page \in Nat /\ p \in Nat /\ property[page] \in Nat /\ page < p
      BY <1>2, <1>3, <3>2, Numbers
    <3>9. PG_property' \in SUBSET Page /\ property' \in [Page -> 0 .. NPage - FirstFree]
      BY <1>3, <3>1, <3>2, <3>3, <3>8
    <3>10. BlocksDisjoint'
      <4>1. \A x \in PG_property' : /\ FirstFree <= x /\ property'[x] > 0
                                   /\ x + property'[x] <= NPage
        BY <1>2, <1>3, <3>2, <3>3, <3>8, Numbers DEF BlocksDisjoint
      <4>2. ASSUME NEW x \in PG_property', NEW y \in PG_property', x < y
            PROVE  x + property'[x] <= y
        <5>1. CASE x = p
          <6>1. y \in PG_property \ {page} /\ y \in Nat
            BY <3>b, <4>2, <5>1, <3>2, Numbers, <1>3
          <6>2. ~ (y < page)
            <7> HIDE DEF page, p
            <7> QED
              BY <3>c, <4>2, <5>1, <6>1
          <6>3. page + property[page] < y
            BY <3>a, <6>1, <6>2
          <6>4. x + property'[x] = page + property[page]
            BY <3>8, <5>1
          <6> HIDE DEF page, p
          <6> QED
            BY <3>c, <6>1, <6>3, <6>4
        <5>2. CASE x # p /\ y = p
          BY <1>2, <1>3, <3>2, <3>a, <3>b, <4>2, <5>2, Numbers
        <5>3. CASE x # p /\ y # p
          BY <1>3, <3>3, <3>8, <4>2, <5>3 DEF BlocksDisjoint
        <5> QED
          BY <5>1, <5>2, <5>3
      <4> QED
        BY <4>1, <4>2 DEF BlocksDisjoint
    <3>11. ASSUME NEW x \in PG_property', NEW y \in PG_property' PROVE x + property'[x] # y
      <4>1. CASE x = p
        <5>1. x + property'[x] = page + property[page]
          BY <3>8, <4>1
        <5>2. y = p \/ y \in PG_property
          BY <3>3
        <5>3. page + property[page] # p
          BY <1>2, <1>3, <3>2, Numbers
        <5> QED
          BY <1>2, <1>5, <5>1, <5>2, <5>3
      <4>2. CASE x # p /\ y = p
        BY <1>2, <1>3, <3>2, <3>a, <3>b, <4>2, Numbers
      <4>3. CASE x # p /\ y # p
        BY <1>5, <3>3, <3>8, <4>3
      <4> QED
        BY <4>1, <4>2, <4>3
    <3>12. ASSUME NEW q \in Page
           PROVE  (\E x \in PG_property' : x <= q /\ q < x + property'[x])
                     <=> q \in FreePages /\ q \notin Run(page, sz)
      <4>1. q \in Run(page, sz) <=> page <= q /\ q < p
        BY <1>2, <1>3, Numbers DEF Run
      <4>2. q \in FreePages <=> \E x \in PG_property : x <= q /\ q < x + property[x]
        BY <1>3, InFreePages
      <4>3. ASSUME NEW x \in PG_property', x <= q, q < x + property'[x]
            PROVE  q \in FreePages /\ ~ (page <= q /\ q < p)
        <5>1. CASE x = p
          BY <1>2, <1>3, <3>2, <3>8, <4>2, <4>3, <5>1, Numbers
        <5>2. CASE x # p
          BY <1>2, <1>3, <3>2, <3>3, <3>8, <4>2, <4>3, <5>2, Numbers DEF BlocksDisjoint
        <5> QED
          BY <5>1, <5>2
      <4>4. ASSUME NEW x \in PG_property, x <= q, q < x + property[x], ~ (page <= q /\ q < p)
            PROVE  \E y \in PG_property' : y <= q /\ q < y + property'[y]
        <5>1. CASE x = page
          BY <1>2, <1>3, <3>2, <3>3, <3>8, <4>4, <5>1, Numbers
        <5>2. CASE x # page
          BY <3>3, <3>8, <4>4, <5>2
        <5> QED
          BY <5>1, <5>2
      <4> QED
        BY <4>1, <4>2, <4>3, <4>4
    <3>13. \E x \in PG_property' : x + property'[x] = NPage
      BY <2>0, <3>2, <3>3, <3>8
    <3> QED
      BY <3>5, <3>7, <3>9, <3>10, <3>11, <3>12, <3>13
  <2>2. CASE property[page] = sz
    <3>1. property' = property /\ PG_property' = PG_property \ {page} /\ links' = cut
      BY <1>2, <1>3, <2>2, Numbers DEF AllocTake, ClearPageProperty
    <3>2. BlocksDisjoint' /\ \A x, y \in PG_property' : x + property'[x] # y
      BY <1>3, <1>5, <3>1 DEF BlocksDisjoint
    <3>3. ASSUME NEW q \in Page
          PROVE  (\E x \in PG_property' : x <= q /\ q < x + property'[x])
                    <=> q \in FreePages /\ q \notin Run(page, sz)
      <4>1. q \in Run(page, sz) <=> page <= q /\ q < page + property[page]
        BY <1>2, <1>3, <2>2, Numbers DEF Run
      <4>2. q \in FreePages <=> \E x \in PG_property : x <= q /\ q < x + property[x]
        BY <1>3, InFreePages
      <4>3. \A x \in PG_property \ {page} :
               ~ (x <= q /\ q < x + property[x] /\ page <= q /\ q < page + property[page])
        BY <1>2, <1>3, Numbers DEF BlocksDisjoint
      <4> QED
        BY <3>1, <4>1, <4>2, <4>3
    <3>4. \E x \in PG_property' : x + property'[x] = NPage
      BY <1>2, <1>3, <2>0, <2>2, <3>1, Numbers
    <3> QED
      BY <1>3, <1>4, <3>1, <3>2, <3>3, <3>4
  <2> QED
    BY <1>2, <1>3, <2>1, <2>2, Numbers
<1>7. FreePages' = FreePages \ Run(page, sz)
  <2>1. \A x \in PG_property' : x \in Int /\ property'[x] \in Int
    <3>1. \A x \in Page : x \in Int /\ property'[x] \in 0 .. NPage - FirstFree
      BY <1>6, PmmAssumption DEF Page
    <3> QED
      BY <1>6, <3>1, PmmAssumption
  <2>2. \A q \in Page : q \in Int
    BY PmmAssumption DEF Page
  <2>3. \A q : q \in FreePages' <=> /\ q \in Page
                               /\ \E x \in PG_property' : x <= q /\ q < x + property'[x]
    BY <2>1, <2>2 DEF FreePages, Block, Run
  <2>4. FreePages \subseteq Page
    BY DEF FreePages
  <2> QED
    BY <1>6, <2>3, <2>4
<1>8. /\ FreeCounted' /\ sz <= nr_free
  <2>1. IsFiniteSet(FreePages) /\ nr_free = Cardinality(FreePages) /\ nr_free \in Nat
    BY <1>3, FreeFinite DEF IInv, FreeCounted
  <2>2. IsFiniteSet(Run(page, sz)) /\ Cardinality(Run(page, sz)) = sz
    BY <1>2, <1>3, RunCardinality, Numbers
  <2>3. FreePages \intersect Run(page, sz) = Run(page, sz)
    BY <1>2
  <2>4. Cardinality(FreePages \ Run(page, sz)) = nr_free - sz
    <3>1. Cardinality(FreePages \ Run(page, sz)) =
             Cardinality(FreePages) - Cardinality(FreePages \intersect Run(page, sz))
      BY <2>1, FS_Difference
    <3> QED
      BY <2>1, <2>2, <2>3, <3>1
  <2>5. sz <= nr_free
    BY <1>2, <2>1, <2>2, FS_Subset
  <2> QED
    BY <1>1, <1>7, <2>4, <2>5 DEF FreeCounted
<1>9. Partition'
  BY <1>1, <1>2, <1>3, <1>7, FreeFinite DEF IInv, Partition
<1>10. TypeOK'
  <2>1. nr_free' \in 0 .. NPage - FirstFree
    BY <1>1, <1>2, <1>3, <1>8, PmmAssumption DEF TypeOK
  <2>2. page \in Managed /\ held' \in SUBSET Managed
    <3>1. page \in Run(page, sz)
      BY <1>2, <1>3, Numbers DEF Run
    <3> QED
      BY <1>1, <1>2, <1>3, <3>1, FreeFinite DEF TypeOK
  <2> QED
    BY <1>1, <1>6, <2>1, <2>2, PmmAssumption
       DEF IInv, TypeOK, Return, LinksType, Node, Managed
<1>11. FreeUnreferenced'
  BY <1>1, <1>7 DEF IInv, FreeUnreferenced
<1>12. ListSorted' /\ Coalesced' /\ TopFree' /\ NoPanic' /\ CallPosition'
  BY <1>3, <1>6 DEF ListSorted, Coalesced, TopFree, NoPanic, CallPosition
<1> QED
  BY <1>6, <1>8, <1>9, <1>10, <1>11, <1>12 DEF IInv

\* The assertion of default_free_pages holds for every page a caller owns.
LEMMA FreePanicNever ==
    ASSUME IInv, NEW b, NEW n, Run(b, n) \subseteq held, FreePanic(b, n)
    PROVE  FALSE
<1>1. TypeOK /\ PG_property \subseteq FreePages
  BY HeadsFree DEF IInv
<1>2. held \intersect PG_property = {} /\ held \intersect PG_reserved = {}
  BY <1>1 DEF IInv, Partition
<1> QED
  BY <1>2 DEF FreePanic

LEMMA FreeCallInv ==
    ASSUME IInv, NEW b \in Managed, NEW n \in 1 .. (NPage - FirstFree), FreeCall(b, n)
    PROVE  IInv'
<1>1. /\ op = "idle" /\ Run(b, n) \subseteq held /\ held' = held \ Run(b, n)
      /\ sz' = n /\ base' = b /\ le' = HEAD
      /\ ref' = [q \in Page |-> IF q \in Run(b, n) THEN 0 ELSE ref[q]]
      /\ property' = [property EXCEPT ![b] = n]
      /\ PG_property' = PG_property \union {b}
      /\ nr_free' = nr_free + n /\ UNCHANGED <<PG_reserved, ret>>
  BY FreePanicNever DEF FreeCall, FreeStart, RefReset, SetPageProperty
<1>2. /\ TypeOK /\ BlocksDisjoint /\ Linked = PG_property /\ Sorted(links, PG_property)
      /\ held = Managed \ FreePages /\ n \in Nat \ {0}
      /\ b \in Page /\ b \in Nat /\ FirstFree <= b
      /\ property \in [Page -> 0 .. NPage - FirstFree]
      /\ Managed \subseteq Page
  BY <1>1, PmmAssumption DEF IInv, Linked, ListSorted, Partition, TypeOK, Managed, Page
<1>3. b \in held /\ b + n - 1 \in held /\ b + n <= NPage
  <2>1. b \in Run(b, n) /\ b + n - 1 \in Run(b, n)
    BY <1>2 DEF Run
  <2> QED
    BY <1>1, <1>2, <2>1, PmmAssumption DEF Managed
<1>4. \A x \in PG_property : x \in FreePages
  BY <1>2, HeadsFree
<1>5. PICK top \in PG_property : top + property[top] = NPage
  BY <1>2 DEF IInv, TopFree
<1>6. ~ list_empty(links)
  <2>1. top \in Nat
    BY <1>2, Numbers
  <2>2. list_empty(links) => top <= HEAD
    BY <1>2 DEF list_empty, Sorted
  <2> QED
    BY <2>1, <2>2 DEF HEAD
<1>7. op' = "insert" /\ links' = links /\ b \notin PG_property
  BY <1>2, <1>3, <1>4, <1>6, FreePanicNever DEF FreeCall, FreeStart
<1>8. Linked' = PG_property
  BY <1>1, <1>7 DEF Linked
<1>9. /\ property'[b] = n
      /\ \A x \in PG_property : x # b /\ x \in Nat /\ property[x] \in Nat /\ property'[x] = property[x]
  BY <1>1, <1>2, <1>7, Numbers
<1>10. \A x \in PG_property : (x < b => x + property[x] <= b) /\ (b < x => b + n <= x)
  <2>1. ASSUME NEW x \in PG_property, x < b, ~ (x + property[x] <= b) PROVE FALSE
    BY <1>2, <1>3, <1>9, <2>1, InFreePages
  <2>2. ASSUME NEW x \in PG_property, b < x, ~ (b + n <= x) PROVE FALSE
    <3>1. x \in Run(b, n)
      BY <1>2, <1>9, <2>2 DEF Run
    <3> QED
      BY <1>1, <1>2, <1>4, <3>1
  <2> QED
    BY <1>2, <1>9, <2>1, <2>2
<1>11. BlocksDisjoint'
  <2>1. \A x \in PG_property' : /\ FirstFree <= x /\ property'[x] > 0
                               /\ x + property'[x] <= NPage
    BY <1>1, <1>2, <1>3, <1>9 DEF BlocksDisjoint
  <2>2. ASSUME NEW x \in PG_property', NEW y \in PG_property', x < y
        PROVE  x + property'[x] <= y
    <3>1. CASE x = b
      BY <1>1, <1>2, <1>9, <1>10, <2>2, <3>1
    <3>2. CASE y = b
      BY <1>1, <1>2, <1>9, <1>10, <2>2, <3>2
    <3>3. CASE x # b /\ y # b
      BY <1>1, <1>2, <1>9, <2>2, <3>3 DEF BlocksDisjoint
    <3> QED
      BY <3>1, <3>2, <3>3
  <2> QED
    BY <2>1, <2>2 DEF BlocksDisjoint
<1>12. Coalesced'
  <2> SUFFICES ASSUME NEW x \in PG_property', NEW y \in PG_property', x + property'[x] = y
               PROVE  b \in {x, y}
    BY <1>1, <1>7 DEF Coalesced
  <2> QED
    BY <1>1, <1>9 DEF IInv, Coalesced
<1>13. FreePages' = FreePages \union Run(b, n)
  <2>1. \A x \in PG_property' : x \in Int /\ property'[x] \in Int
    BY <1>1, <1>2, <1>9
  <2>2. \A q \in Page : q \in Int
    BY PmmAssumption DEF Page
  <2>3. \A q : q \in FreePages' <=> /\ q \in Page
                               /\ \E x \in PG_property' : x <= q /\ q < x + property'[x]
    BY <2>1, <2>2 DEF FreePages, Block, Run
  <2>4. Run(b, n) \subseteq Page
    BY <1>1, <1>2
  <2>5. \A q \in Page : q \in Run(b, n) <=> b <= q /\ q < b + n
    BY <1>2, <2>2 DEF Run
  <2>6. ASSUME NEW q \in Page
        PROVE  (\E x \in PG_property' : x <= q /\ q < x + property'[x])
                  <=> \/ b <= q /\ q < b + n
                      \/ \E x \in PG_property : x <= q /\ q < x + property[x]
    BY <1>1, <1>9
  <2>7. \A q : q \in FreePages <=> /\ q \in Page
                               /\ \E x \in PG_property : x <= q /\ q < x + property[x]
    BY <1>2, InFreePages
  <2>8. \A q : q \in FreePages' <=> q \in FreePages \/ q \in Run(b, n)
    BY <2>3, <2>4, <2>5, <2>6, <2>7
  <2> QED
    BY <2>8
<1>14. FreeCounted' /\ nr_free' \in 0 .. NPage - FirstFree
  <2>1. IsFiniteSet(FreePages) /\ nr_free = Cardinality(FreePages) /\ nr_free \in Nat
    BY <1>2, FreeFinite DEF IInv, FreeCounted
  <2>2. IsFiniteSet(Run(b, n)) /\ Cardinality(Run(b, n)) = n
    BY <1>2, RunCardinality
  <2>3. FreePages \intersect Run(b, n) = {}
    BY <1>1, <1>2
  <2>4. Cardinality(FreePages \union Run(b, n)) =
           Cardinality(FreePages) + Cardinality(Run(b, n)) - Cardinality(FreePages \intersect Run(b, n))
    BY <2>1, <2>2, FS_Union
  <2>5. Cardinality(FreePages \union Run(b, n)) = nr_free + n
    <3>1. Cardinality(FreePages \intersect Run(b, n)) = 0
      BY <2>3, FS_EmptySet
    <3> QED
      BY <1>2, <2>1, <2>2, <2>4, <3>1
  <2>6. IsFiniteSet(Managed) /\ Cardinality(Managed) = NPage - FirstFree
    BY FS_Interval, PmmAssumption DEF Managed
  <2>7. FreePages \union Run(b, n) \subseteq Managed
    BY <1>1, <1>2, FreeFinite
  <2>8. Cardinality(FreePages \union Run(b, n)) <= NPage - FirstFree
    BY <2>6, <2>7, FS_Subset
  <2> QED
    BY <1>1, <1>2, <1>13, <2>1, <2>5, <2>8, PmmAssumption DEF FreeCounted
<1>15. Partition'
  BY <1>1, <1>2, <1>13 DEF IInv, Partition
<1>16. FreeUnreferenced'
  <2>1. FreePages' \subseteq Page
    BY <1>1, <1>2, <1>13 DEF FreePages
  <2> QED
    BY <1>1, <1>13, <2>1 DEF IInv, FreeUnreferenced
<1>17. TypeOK'
  <2>1. ref' \in [Page -> 0 .. MaxRef] /\ property' \in [Page -> 0 .. NPage - FirstFree]
    BY <1>1, <1>2, PmmAssumption DEF TypeOK
  <2> QED
    BY <1>1, <1>2, <1>7, <1>14, <2>1 DEF TypeOK, Node
<1>18. ListSorted'
  BY <1>2, <1>7, <1>8 DEF ListSorted
<1>19. TopFree'
  BY <1>5, <1>8, <1>9 DEF TopFree
<1>20. CallPosition' /\ NoPanic'
  <2>1. le' < base' /\ le' \in OnList' /\ base' \in PG_property'
    BY <1>1, <1>2 DEF OnList, HEAD
  <2> QED
    BY <1>7, <2>1 DEF CallPosition, NoPanic
<1> QED
  BY <1>11, <1>12, <1>14, <1>15, <1>16, <1>17, <1>18, <1>19, <1>20 DEF IInv

LEMMA FreeInsertInv ==
    ASSUME IInv, FreeInsert
    PROVE  IInv'
<1> DEFINE e == links.next[le]
           S == PG_property \ {base}
<1>1. /\ op = "insert" /\ Linked = S /\ base \in PG_property /\ le \in S \union {HEAD} /\ le < base
      /\ UNCHANGED <<nr_free, PG_reserved, PG_property, property, ref, held, sz, base, ret>>
  BY DEF FreeInsert, Linked, IInv, CallPosition, OnList
<1>2. /\ TypeOK /\ BlocksDisjoint /\ Sorted(links, S) /\ links \in LinksType
      /\ S \in SUBSET Page /\ base \in Page /\ base \in Page \ S
      /\ e \in S \union {HEAD} /\ links.prev[e] = le
  BY <1>1 DEF IInv, ListSorted, TypeOK, LinksType, Sorted
<1>3. PICK top \in S : base < top
  <2>1. PICK top \in S : top + property[top] = NPage
    BY <1>1 DEF IInv, TopFree
  <2>2. ~ (top < base)
    BY <1>1, <1>2, <2>1, Numbers DEF BlocksDisjoint
  <2> QED
    BY <1>1, <1>2, <2>1, <2>2, Numbers
<1>4. e # HEAD
  BY <1>1, <1>2, <1>3, Numbers DEF Sorted
<1>5. FreePages' = FreePages
  BY <1>1 DEF FreePages, Block
<1>6. BlocksDisjoint' /\ Partition' /\ FreeCounted' /\ FreeUnreferenced'
  BY <1>1, <1>5 DEF IInv, BlocksDisjoint, Partition, FreeCounted, FreeUnreferenced
<1>7. CASE base < e
  <2>1. links' = list_add_before(links, e, base) /\ op' = "merge_prev" /\ le' = le
    BY <1>4, <1>7 DEF FreeInsert
  <2>2. links' = list_add(links, le, base)
    BY <1>2, <2>1, AddBefore
  <2>3. Sorted(links', S \union {base})
    BY <1>1, <1>2, <1>7, <2>2, AddSorted
  <2>4. Linked' = PG_property /\ S \union {base} = PG_property
    BY <1>1, <2>1 DEF Linked
  <2>5. ListSorted' /\ TopFree'
    BY <1>1, <2>3, <2>4 DEF ListSorted, TopFree, IInv
  <2>6. Coalesced' /\ NoPanic' /\ CallPosition'
    BY <1>1, <2>1 DEF IInv, Coalesced, NoPanic, CallPosition
  <2>7. TypeOK'
    <3>1. links' \in LinksType
      BY <1>1, <1>2, <2>2, ListTypes DEF Node
    <3> QED
      BY <1>1, <1>2, <2>1, <3>1 DEF TypeOK, LinksType
  <2> QED
    BY <1>6, <2>5, <2>6, <2>7 DEF IInv
<1>8. CASE ~ (base < e)
  <2>1. e \in S /\ e < base
    BY <1>1, <1>2, <1>4, <1>8, Numbers
  <2>2. links.next[e] # HEAD
    BY <1>2, <1>3, <2>1, Numbers DEF Sorted
  <2>3. UNCHANGED <<links, op>> /\ le' = e
    BY <1>4, <1>8, <2>2 DEF FreeInsert
  <2>4. Linked' = S
    BY <1>1, <2>3 DEF Linked
  <2>5. ListSorted' /\ TopFree' /\ Coalesced' /\ NoPanic'
    BY <1>1, <2>3, <2>4 DEF IInv, ListSorted, TopFree, Coalesced, NoPanic
  <2>6. CallPosition'
    BY <1>1, <2>1, <2>3, <2>4 DEF CallPosition, OnList
  <2>7. TypeOK'
    BY <1>1, <1>2, <2>1, <2>3 DEF TypeOK, Node
  <2> QED
    BY <1>6, <2>5, <2>6, <2>7 DEF IInv
<1> QED
  BY <1>7, <1>8

\* Two blocks that touch become one: the free pages stay the same.
LEMMA JoinBlocks ==
    ASSUME TypeOK, BlocksDisjoint, NEW lo \in PG_property, NEW hi \in PG_property,
           lo + property[lo] = hi,
           PG_property' = PG_property \ {hi}, property' = Joined(lo, hi)
    PROVE  /\ BlocksDisjoint' /\ FreePages' = FreePages
           /\ property' \in [Page -> 0 .. NPage - FirstFree]
           /\ property'[lo] = property[lo] + property[hi] /\ lo \in PG_property' /\ lo < hi
           /\ \A x \in PG_property' : x # lo => property'[x] = property[x]
           /\ \A x \in PG_property : x + property[x] = NPage =>
                 \E y \in PG_property' : y + property'[y] = NPage
<1>1. /\ lo \in Page /\ hi \in Page /\ property \in [Page -> 0 .. NPage - FirstFree]
      /\ \A x \in PG_property : x \in Page /\ x \in Nat /\ property[x] \in Nat
      /\ \A x \in PG_property : property[x] > 0
      /\ lo \in Nat /\ hi \in Nat /\ property[lo] \in Nat /\ property[hi] \in Nat
      /\ FirstFree \in Nat /\ NPage \in Nat
  BY Numbers DEF TypeOK, BlocksDisjoint
<1>2. lo < hi /\ lo \in PG_property'
  BY <1>1
<1>3. /\ property' = [property EXCEPT ![lo] = property[lo] + property[hi]]
      /\ property'[lo] = property[lo] + property[hi]
      /\ \A x \in PG_property : x # lo => property'[x] = property[x]
  BY <1>1 DEF Joined
<1>4. /\ hi + property[hi] <= NPage /\ FirstFree <= lo
      /\ lo + property'[lo] = hi + property[hi]
  BY <1>1, <1>3 DEF BlocksDisjoint
<1>5. property' \in [Page -> 0 .. NPage - FirstFree]
  <2>1. property[lo] + property[hi] \in 0 .. NPage - FirstFree
    BY <1>1, <1>3, <1>4
  <2> QED
    BY <1>1, <1>3, <2>1
<1>6. BlocksDisjoint'
  <2>1. \A x \in PG_property' : /\ FirstFree <= x /\ property'[x] > 0
                               /\ x + property'[x] <= NPage
    BY <1>1, <1>3, <1>4 DEF BlocksDisjoint
  <2>2. ASSUME NEW x \in PG_property', NEW y \in PG_property', x < y
        PROVE  x + property'[x] <= y
    <3>1. CASE x = lo
      <4>1. ~ (y < hi)
        BY <1>1, <2>2, <3>1 DEF BlocksDisjoint
      <4>2. hi < y
        BY <1>1, <2>2, <4>1
      <4> QED
        BY <1>1, <1>4, <3>1, <4>2 DEF BlocksDisjoint
    <3>2. CASE x # lo
      BY <1>1, <1>3, <2>2, <3>2 DEF BlocksDisjoint
    <3> QED
      BY <3>1, <3>2
  <2> QED
    BY <2>1, <2>2 DEF BlocksDisjoint
<1>7. FreePages' = FreePages
  <2>1. \A x \in PG_property' : x \in Int /\ property'[x] \in Int
    BY <1>1, <1>3
  <2>2. \A q \in Page : q \in Int
    BY PmmAssumption DEF Page
  <2>3. \A q : q \in FreePages' <=> /\ q \in Page
                               /\ \E x \in PG_property' : x <= q /\ q < x + property'[x]
    BY <2>1, <2>2 DEF FreePages, Block, Run
  <2>4. \A q : q \in FreePages <=> /\ q \in Page
                               /\ \E x \in PG_property : x <= q /\ q < x + property[x]
    BY InFreePages
  <2>5. ASSUME NEW q \in Page, NEW x \in PG_property', x <= q, q < x + property'[x]
        PROVE  \E y \in PG_property : y <= q /\ q < y + property[y]
    <3>1. CASE x = lo /\ q < hi
      BY <3>1, <2>5
    <3>2. CASE x = lo /\ ~ (q < hi)
      BY <1>1, <1>4, <2>2, <2>5, <3>2
    <3>3. CASE x # lo
      BY <1>3, <2>5, <3>3
    <3> QED
      BY <3>1, <3>2, <3>3
  <2>6. ASSUME NEW q \in Page, NEW x \in PG_property, x <= q, q < x + property[x]
        PROVE  \E y \in PG_property' : y <= q /\ q < y + property'[y]
    <3>1. CASE x = lo
      BY <1>1, <1>2, <1>3, <2>2, <2>6, <3>1
    <3>2. CASE x = hi
      BY <1>1, <1>2, <1>4, <2>2, <2>6, <3>2
    <3>3. CASE x # lo /\ x # hi
      BY <1>3, <2>6, <3>3
    <3> QED
      BY <3>1, <3>2, <3>3
  <2> QED
    BY <2>3, <2>4, <2>5, <2>6
<1>8. ASSUME NEW x \in PG_property, x + property[x] = NPage
      PROVE  \E y \in PG_property' : y + property'[y] = NPage
  <2>1. x # lo
    BY <1>1, <1>4, <1>8
  <2>2. CASE x = hi
    BY <1>2, <1>4, <1>8, <2>2
  <2>3. CASE x # hi
    BY <1>3, <1>8, <2>1, <2>3
  <2> QED
    BY <2>2, <2>3
<1> QED
  BY <1>2, <1>3, <1>5, <1>6, <1>7, <1>8

LEMMA FreeMergePrevInv ==
    ASSUME IInv, FreeMergePrev
    PROVE  IInv'
<1> DEFINE p == links.prev[base]
<1>1. /\ op = "merge_prev" /\ op' = "merge_next" /\ Linked = PG_property
      /\ Linked' = PG_property' /\ base \in PG_property
      /\ UNCHANGED <<nr_free, PG_reserved, ref, held, sz, le, ret>>
  BY DEF FreeMergePrev, Linked, IInv, CallPosition
<1>2. /\ TypeOK /\ BlocksDisjoint /\ Coalesced /\ Sorted(links, PG_property)
      /\ links \in LinksType /\ PG_property \in SUBSET Page
      /\ p \in PG_property \union {HEAD} /\ links.next[p] = base
  BY <1>1 DEF IInv, ListSorted, TypeOK, LinksType, Sorted
<1>3. PICK top \in PG_property : top + property[top] = NPage
  BY <1>1 DEF IInv, TopFree
<1>4. CASE p # HEAD /\ p + property[p] = base
  <2>1. /\ property' = Joined(p, base) /\ PG_property' = PG_property \ {base}
        /\ links' = list_del(links, base) /\ base' = p /\ p \in PG_property
    BY <1>2, <1>4 DEF FreeMergePrev, ClearPageProperty
  <2>2. /\ BlocksDisjoint' /\ FreePages' = FreePages
        /\ property' \in [Page -> 0 .. NPage - FirstFree]
        /\ p \in PG_property'
        /\ \A x \in PG_property' : x # p => property'[x] = property[x]
        /\ \E y \in PG_property' : y + property'[y] = NPage
    BY <1>1, <1>2, <1>3, <1>4, <2>1, JoinBlocks
  <2>3. Sorted(links', PG_property') /\ links' \in LinksType
    BY <1>1, <1>2, <2>1, DelSorted, ListTypes DEF Node
  <2>4. Coalesced'
    <3> SUFFICES ASSUME NEW x \in PG_property', NEW y \in PG_property', x + property'[x] = y
                 PROVE  p = x
      BY <1>1, <2>1 DEF Coalesced
    <3> QED
      BY <1>1, <1>2, <2>1, <2>2 DEF Coalesced
  <2>5. Partition' /\ FreeCounted' /\ FreeUnreferenced'
    BY <1>1, <2>2 DEF IInv, Partition, FreeCounted, FreeUnreferenced
  <2>6. TypeOK'
    <3>1. p \in Managed
      BY <1>2, <2>1, Numbers DEF BlocksDisjoint, Managed, Page
    <3> QED
      BY <1>1, <1>2, <2>1, <2>2, <2>3, <3>1 DEF TypeOK, LinksType
  <2>7. ListSorted' /\ TopFree' /\ NoPanic' /\ CallPosition'
    BY <1>1, <2>1, <2>2, <2>3 DEF ListSorted, TopFree, NoPanic, CallPosition
  <2> QED
    BY <2>2, <2>4, <2>5, <2>6, <2>7 DEF IInv
<1>5. CASE ~ (p # HEAD /\ p + property[p] = base)
  <2>1. UNCHANGED <<property, PG_property, links, base>>
    BY <1>5 DEF FreeMergePrev
  <2>2. FreePages' = FreePages
    BY <2>1 DEF FreePages, Block
  <2>3. Coalesced'
    <3>1. SUFFICES ASSUME NEW x \in PG_property, NEW y \in PG_property, x + property[x] = y, base # x
                 PROVE  FALSE
      BY <1>1, <2>1 DEF Coalesced
    <3>2. y = base /\ x < base
      BY <1>1, <1>2, <3>1, Numbers DEF Coalesced, BlocksDisjoint
    <3>3. x <= p
      BY <1>1, <1>2, <3>2, Numbers DEF Sorted
    <3>4. p \in PG_property /\ p < base
      BY <1>1, <1>2, <3>2, <3>3, Numbers DEF Sorted, HEAD
    <3>5. x = p
      BY <1>2, <3>1, <3>2, <3>3, <3>4, Numbers DEF BlocksDisjoint
    <3> QED
      BY <1>2, <1>5, <3>1, <3>2, <3>4, <3>5, Numbers
  <2>4. Partition' /\ FreeCounted' /\ FreeUnreferenced' /\ BlocksDisjoint'
    BY <1>1, <2>1, <2>2 DEF IInv, Partition, FreeCounted, FreeUnreferenced, BlocksDisjoint
  <2>5. TypeOK'
    BY <1>1, <1>2, <2>1 DEF TypeOK
  <2>6. ListSorted' /\ TopFree' /\ NoPanic' /\ CallPosition'
    BY <1>1, <1>2, <1>3, <2>1 DEF ListSorted, TopFree, NoPanic, CallPosition
  <2> QED
    BY <2>3, <2>4, <2>5, <2>6 DEF IInv
<1> QED
  BY <1>4, <1>5

LEMMA FreeMergeNextInv ==
    ASSUME IInv, FreeMergeNext
    PROVE  IInv'
<1> DEFINE p == links.next[base]
<1>1. /\ op = "merge_next" /\ op' = "idle" /\ Return /\ Linked = PG_property
      /\ Linked' = PG_property' /\ base \in PG_property
      /\ UNCHANGED <<nr_free, PG_reserved, ref, held, ret>>
  BY DEF FreeMergeNext, Linked, IInv, CallPosition, Return
<1>2. /\ TypeOK /\ BlocksDisjoint /\ Coalesced /\ Sorted(links, PG_property)
      /\ links \in LinksType /\ PG_property \in SUBSET Page
      /\ p \in PG_property \union {HEAD}
  BY <1>1 DEF IInv, ListSorted, TypeOK, LinksType, Sorted
<1>3. PICK top \in PG_property : top + property[top] = NPage
  BY <1>1 DEF IInv, TopFree
<1>4. CASE p # HEAD /\ base + property[base] = p
  <2>1. /\ property' = Joined(base, p) /\ PG_property' = PG_property \ {p}
        /\ links' = list_del(links, p) /\ p \in PG_property
    BY <1>2, <1>4 DEF FreeMergeNext, ClearPageProperty
  <2>2. /\ BlocksDisjoint' /\ FreePages' = FreePages
        /\ property' \in [Page -> 0 .. NPage - FirstFree]
        /\ property'[base] = property[base] + property[p] /\ base < p
        /\ \A x \in PG_property' : x # base => property'[x] = property[x]
        /\ \E y \in PG_property' : y + property'[y] = NPage
    BY <1>1, <1>2, <1>3, <1>4, <2>1, JoinBlocks
  <2>3. Sorted(links', PG_property') /\ links' \in LinksType
    BY <1>1, <1>2, <2>1, DelSorted, ListTypes DEF Node
  <2>4. Coalesced'
    <3>1. SUFFICES ASSUME NEW x \in PG_property', NEW y \in PG_property', x + property'[x] = y
                 PROVE  FALSE
      BY DEF Coalesced
    <3>2. x = base
      BY <1>1, <1>2, <2>1, <2>2, <3>1 DEF Coalesced
    <3>3. p + property[p] = y
      BY <1>1, <1>2, <1>4, <2>1, <2>2, <3>1, <3>2, Numbers
    <3>4. base = p
      BY <1>1, <1>2, <2>1, <3>3 DEF Coalesced
    <3> QED
      BY <1>1, <1>2, <2>2, <3>4, Numbers
  <2>5. Partition' /\ FreeCounted' /\ FreeUnreferenced'
    BY <1>1, <2>2 DEF IInv, Partition, FreeCounted, FreeUnreferenced
  <2>6. TypeOK'
    <3>1. le' \in Node /\ sz' \in Nat /\ base' \in Managed
      BY <1>1, PmmAssumption DEF Return, Managed, Node
    <3>2. PG_property' \in SUBSET Page
      BY <1>2, <2>1
    <3> QED
      BY <1>1, <1>2, <2>2, <2>3, <3>1, <3>2 DEF TypeOK, LinksType
  <2>7. ListSorted' /\ TopFree' /\ NoPanic' /\ CallPosition'
    BY <1>1, <2>2, <2>3 DEF ListSorted, TopFree, NoPanic, CallPosition
  <2> QED
    BY <2>2, <2>4, <2>5, <2>6, <2>7 DEF IInv
<1>5. CASE ~ (p # HEAD /\ base + property[base] = p)
  <2>1. UNCHANGED <<property, PG_property, links>>
    BY <1>5 DEF FreeMergeNext
  <2>2. FreePages' = FreePages
    BY <2>1 DEF FreePages, Block
  <2>3. Coalesced'
    <3>1. SUFFICES ASSUME NEW x \in PG_property, NEW y \in PG_property, x + property[x] = y
                 PROVE  FALSE
      BY <2>1 DEF Coalesced
    <3>2. x = base /\ base < y
      BY <1>1, <1>2, <3>1, Numbers DEF Coalesced, BlocksDisjoint
    <3>3. p # HEAD /\ base < p /\ p <= y /\ p \in PG_property
      BY <1>1, <1>2, <3>2, Numbers DEF Sorted
    <3>4. base + property[base] <= p
      BY <1>1, <1>2, <3>3 DEF BlocksDisjoint
    <3> QED
      BY <1>1, <1>2, <1>5, <3>1, <3>2, <3>3, <3>4, Numbers
  <2>4. Partition' /\ FreeCounted' /\ FreeUnreferenced' /\ BlocksDisjoint'
    BY <1>1, <2>1, <2>2 DEF IInv, Partition, FreeCounted, FreeUnreferenced, BlocksDisjoint
  <2>5. TypeOK'
    BY <1>1, <1>2, <2>1, PmmAssumption DEF TypeOK, Return, Managed, Node
  <2>6. ListSorted' /\ TopFree' /\ NoPanic' /\ CallPosition'
    BY <1>1, <1>2, <1>3, <2>1 DEF ListSorted, TopFree, NoPanic, CallPosition
  <2> QED
    BY <2>3, <2>4, <2>5, <2>6 DEF IInv
<1> QED
  BY <1>4, <1>5

LEMMA NextInv == IInv /\ [Next]_vars => IInv'
<1> SUFFICES ASSUME IInv, [Next]_vars PROVE IInv'
  OBVIOUS
<1>1. ASSUME NEW n \in 1 .. MaxRequest, AllocCall(n) PROVE IInv'
  BY <1>1, AllocCallInv
<1>2. CASE AllocStep
  BY <1>2, AllocReturnInv, AllocScanInv, AllocTakeInv DEF AllocStep
<1>3. ASSUME NEW b \in Managed, NEW n \in 1 .. (NPage - FirstFree), FreeCall(b, n)
      PROVE  IInv'
  BY <1>3, FreeCallInv
<1>4. CASE FreeStep
  BY <1>4, FreeInsertInv, FreeMergePrevInv, FreeMergeNextInv DEF FreeStep
<1>5. ASSUME NEW p \in Managed, NEW v \in 0 .. MaxRef, SetPageRef(p, v) PROVE IInv'
  BY <1>5, SetPageRefInv
<1>6. CASE UNCHANGED vars
  BY <1>6 DEF vars, IInv, TypeOK, ListSorted, Sorted, Linked, OnList, BlocksDisjoint, Coalesced,
              Partition, FreePages, Block, FreeCounted, FreeUnreferenced, NoPanic,
              CallPosition, Affordable, LargeEnough, TopFree
<1> QED
  BY <1>1, <1>2, <1>3, <1>4, <1>5, <1>6 DEF Next

\* TopStaysFree is the assumption on the callers under which the rest holds.
LEMMA Invariance == TopStaysFree => (Spec => []IInv)
<1>1. TopStaysFree /\ Init => IInv
  BY InitInv
<1>2. IInv /\ [Next]_vars => IInv'
  BY NextInv
<1>3. TopStaysFree => TopStaysFree'
  OBVIOUS
<1> QED
  BY <1>1, <1>2, <1>3, PTL DEF Spec

\* Whatever the callers do, short of taking the last page, the free list of
\* default_pmm.c is the sorted, coalesced, complete list of the pages nobody owns,
\* and no assertion of free_pages fails.
THEOREM FreeListCorrect ==
    ASSUME TopStaysFree
    PROVE  Spec => []MemoryAccounted
<1>1. IInv => MemoryAccounted
  BY DEF IInv, MemoryAccounted
<1> QED
  BY Invariance, <1>1, PTL

\* Under the same callers, in the middle of a call too: every free block is a run of
\* managed pages disjoint from the others, nr_free is the number of free pages, a free
\* page has no references, the loops of default_alloc_pages and default_free_pages have
\* passed only blocks that are too small, or below base, and the last page is in a
\* block that is linked, so that the insertion loop never takes its branch that has no
\* break (default_pmm.c:148).
THEOREM CountsAndPlaces ==
    ASSUME TopStaysFree
    PROVE  Spec => []InductiveRest
<1>1. IInv => InductiveRest
  BY DEF IInv, InductiveRest
<1> QED
  BY Invariance, <1>1, PTL

-----------------------------------------------------------------------------
(* Refinement of ContigAlloc *)

\* The free pages are the managed pages nobody owns, so held says how they change.
LEMMA FreeIsNotHeld ==
    ASSUME IInv
    PROVE  FreePages = Managed \ held
BY FreeFinite DEF IInv, Partition

LEMMA StepRefines ==
    ASSUME IInv, IInv', [Next]_vars
    PROVE  [Alloc!Next]_(Alloc!absvars)
<1> DEFINE req == IF op = "alloc" THEN sz ELSE 0
<1>0. /\ FreePages = Managed \ held /\ FreePages' = Managed \ held'
      /\ TypeOK /\ BlocksDisjoint /\ Coalesced
  <2>1. FreePages = Managed \ held
    BY FreeIsNotHeld
  <2>2. FreePages' = Managed \ held'
    <3>1. TypeOK' /\ BlocksDisjoint' /\ held' = Managed \ FreePages'
      BY DEF IInv, Partition
    <3>2. FreePages' \subseteq Managed
      <4>1. \A x \in PG_property' : x \in Int /\ property'[x] \in Int
        BY <3>1, PmmAssumption DEF TypeOK, Page
      <4>2. \A q \in Page : q \in Int
        BY PmmAssumption DEF Page
      <4> QED
        BY <3>1, <4>1, <4>2, PmmAssumption
           DEF FreePages, Block, Run, BlocksDisjoint, Managed, Page
    <3> QED
      BY <3>1, <3>2
  <2> QED
    BY <2>1, <2>2 DEF IInv
<1>1. ASSUME held' = held, req' = req, ret' = ret PROVE UNCHANGED Alloc!absvars
  BY <1>0, <1>1 DEF Alloc!absvars
<1>2. ASSUME NEW n \in 1 .. MaxRequest, AllocCall(n) PROVE Alloc!Request(n)
  BY <1>0, <1>2, PmmAssumption DEF AllocCall, Alloc!Request
<1>3. ASSUME op = "alloc", \A p \in FreePages : ~ (Run(p, sz) \subseteq FreePages),
             Return, ret' = NULL, held' = held
      PROVE  Alloc!Refuse
  <2>1. sz > 0
    BY <1>3, PmmAssumption DEF IInv, CallPosition
  <2> QED
    BY <1>0, <1>3, <2>1 DEF Return, Alloc!Refuse, Alloc!Run, Run
<1>4. CASE AllocTooMany
  <2>1. /\ op = "alloc" /\ sz > nr_free /\ Return /\ ret' = NULL /\ held' = held
    BY <1>4 DEF AllocTooMany
  <2>2. ASSUME NEW p \in FreePages, Run(p, sz) \subseteq FreePages PROVE FALSE
    <3>1. p \in Int /\ sz \in Nat /\ nr_free \in Nat
      BY <1>0, Numbers DEF FreePages
    <3>2. Cardinality(Run(p, sz)) = sz
      BY <3>1, RunCardinality
    <3>3. IsFiniteSet(FreePages) /\ Cardinality(FreePages) = nr_free
      BY <1>0, FreeFinite DEF IInv, FreeCounted
    <3>4. Cardinality(Run(p, sz)) <= Cardinality(FreePages)
      BY <2>2, <3>3, FS_Subset
    <3> QED
      BY <2>1, <3>1, <3>2, <3>3, <3>4
  <2> QED
    BY <1>3, <2>1, <2>2 DEF Alloc!Next
<1>5. CASE AllocNone
  <2>1. /\ op = "alloc" /\ links.next[le] = HEAD /\ Return /\ ret' = NULL /\ held' = held
    BY <1>5 DEF AllocNone
  <2>2. /\ Linked = PG_property /\ le \in PG_property \union {HEAD} /\ sz \in Nat \ {0}
        /\ \A x \in PG_property : x <= le => ~ LargeEnough(x)
    BY <2>1, PmmAssumption DEF IInv, CallPosition, OnList, Linked
  <2>3. \A x \in PG_property : property[x] < sz
    BY <1>0, <2>1, <2>2, Numbers DEF IInv, ListSorted, Sorted, LargeEnough
  <2>4. ASSUME NEW p \in FreePages, Run(p, sz) \subseteq FreePages PROVE FALSE
    <3>1. p \in Page
      BY DEF FreePages
    <3>2. PICK y \in PG_property : y <= p /\ p + sz <= y + property[y]
      BY <1>0, <2>1, <2>2, <2>4, <3>1, RunInBlock
    <3> QED
      BY <1>0, <2>2, <2>3, <3>1, <3>2, Numbers
  <2> QED
    BY <1>3, <2>1, <2>4 DEF Alloc!Next
<1>6. CASE AllocScan
  BY <1>1, <1>6 DEF AllocScan
<1>7. CASE AllocTake
  <2> DEFINE page == links.next[le]
  <2>1. /\ op = "alloc" /\ page # HEAD /\ LargeEnough(page)
        /\ held' = held \union Run(page, sz) /\ ret' = page /\ Return
    BY <1>7 DEF AllocTake
  <2>2. /\ page \in PG_property /\ sz \in Nat \ {0} /\ Run(page, sz) \subseteq FreePages
        /\ \A y \in PG_property : property[y] >= sz => page <= y
    BY <2>1, FirstFit
  <2>3. page \in Managed
    <3>1. page \in Run(page, sz)
      BY <1>0, <2>2, Numbers DEF Run
    <3> QED
      BY <1>0, <2>2, <3>1
  <2>4. ASSUME NEW q \in FreePages, Run(q, sz) \subseteq FreePages PROVE page <= q
    <3>1. q \in Page
      BY DEF FreePages
    <3>2. PICK y \in PG_property : y <= q /\ q + sz <= y + property[y]
      BY <1>0, <2>1, <2>2, <2>4, <3>1, RunInBlock
    <3>3. page <= y
      BY <1>0, <2>2, <3>1, <3>2, Numbers
    <3> QED
      BY <1>0, <2>2, <3>1, <3>2, <3>3, Numbers
  <2>5. FreePages' = FreePages \ Run(page, sz)
    BY <1>0, <2>1
  <2>6. Alloc!Grant(page)
    BY <2>1, <2>2, <2>4, <2>5 DEF Alloc!Grant, Alloc!LowestRun, Alloc!Run, Run, Return
  <2> QED
    BY <2>3, <2>6 DEF Alloc!Next
<1>8. ASSUME NEW b \in Managed, NEW n \in 1 .. (NPage - FirstFree), FreeCall(b, n)
      PROVE  Alloc!Next
  <2>1. /\ op = "idle" /\ op' # "alloc" /\ Run(b, n) \subseteq held
        /\ held' = held \ Run(b, n) /\ ret' = ret
    BY <1>8, FreePanicNever DEF FreeCall, FreeStart
  <2> DEFINE q == b + n - 1
  <2>2. b \in Int /\ q \in Int /\ b <= q
    BY PmmAssumption DEF Managed
  <2>3. q \in Managed /\ held \subseteq Managed
    <3>1. q \in Run(b, n)
      BY <2>2 DEF Run
    <3> QED
      BY <1>0, <2>1, <3>1 DEF TypeOK
  <2>4. b .. q \subseteq Managed \ FreePages /\ FreePages' = FreePages \union (b .. q)
    BY <1>0, <2>1, <2>3 DEF Run
  <2>5. Alloc!Release(b, q)
    BY <2>1, <2>2, <2>4 DEF Alloc!Release
  <2> QED
    BY <2>3, <2>5 DEF Alloc!Next
<1>9. CASE FreeStep
  BY <1>1, <1>9 DEF FreeStep, FreeInsert, FreeMergePrev, FreeMergeNext, Return
<1>10. ASSUME NEW p \in Managed, NEW v \in 0 .. MaxRef, SetPageRef(p, v)
       PROVE  UNCHANGED Alloc!absvars
  BY <1>1, <1>10 DEF SetPageRef
<1>11. CASE UNCHANGED vars
  BY <1>1, <1>11 DEF vars
<1> QED
  BY <1>2, <1>4, <1>5, <1>6, <1>7, <1>8, <1>9, <1>10, <1>11
     DEF Next, AllocStep, Alloc!Next

\* Seen from its callers the allocator is a set of pages: a request gets the lowest
\* run of free pages that fits and is refused only if there is none.
THEOREM AllocatorIsContigAlloc ==
    ASSUME TopStaysFree
    PROVE  Spec => AllocatorRefined
<1>1. Init => IInv /\ Alloc!Init
  <2> SUFFICES ASSUME Init PROVE IInv /\ Alloc!Init
    OBVIOUS
  <2>1. IInv
    BY InitInv
  <2>2. FreePages = Managed
    BY <2>1, FreeIsNotHeld DEF Init
  <2> QED
    BY <2>1, <2>2 DEF Init, Alloc!Init
<1>2. IInv /\ [Next]_vars => IInv'
  BY NextInv
<1>3. IInv /\ IInv' /\ [Next]_vars => [Alloc!Next]_(Alloc!absvars)
  BY StepRefines
<1> QED
  BY <1>1, <1>2, <1>3, PTL DEF Spec, AllocatorRefined, Alloc!Safe

-----------------------------------------------------------------------------
(***************************************************************************)
(* Whatever the callers do.  When they may take the last page, the branch  *)
(* of the insertion loop that has no break is reached, and the list loses  *)
(* blocks or shows them twice.  What still holds does not depend on the    *)
(* list being sorted, or on a block being free.                            *)
(***************************************************************************)

\* The inductive invariant: the links lead to managed pages or to the head, the sizes
\* of the pages stay within memory, and a scan goes on only for what nr_free allows.
WithinMemory ==
    /\ TypeOK
    /\ links \in [next : [Node -> Managed \union {HEAD}], prev : [Node -> Managed \union {HEAD}]]
    /\ \A p \in Page : p + property[p] <= NPage
    /\ le \in Managed \union {HEAD}
    /\ op = "alloc" => sz \in 1 .. MaxRequest /\ (le # HEAD => sz <= nr_free)
    /\ NeverOverReports

\* list.h's operations keep the links among S when they are given entries of S.
LEMMA LinksWithin ==
    ASSUME NEW l \in [next : [Node -> Managed \union {HEAD}], prev : [Node -> Managed \union {HEAD}]],
           NEW e \in Managed \union {HEAD}, NEW f \in Managed \union {HEAD}
    PROVE  \A m \in {list_add(l, e, f), list_add_before(l, e, f), list_del(l, e)} :
             m \in [next : [Node -> Managed \union {HEAD}], prev : [Node -> Managed \union {HEAD}]]
<1>1. /\ l.next \in [Node -> Managed \union {HEAD}] /\ l.prev \in [Node -> Managed \union {HEAD}]
      /\ e \in Node /\ f \in Node
  BY PmmAssumption DEF Managed, Node, Page
<1>2. /\ l.next[e] \in Managed \union {HEAD} /\ l.prev[e] \in Managed \union {HEAD}
  BY <1>1
<1> QED
  BY <1>1, <1>2 DEF list_add, list_add_before, list_del, __list_add, __list_del

\* Taking pages away from nr_free that go to a caller, or the other way round.
LEMMA HeldFinite ==
    ASSUME TypeOK
    PROVE  IsFiniteSet(held) /\ Cardinality(held) \in Nat
<1>1. IsFiniteSet(Managed) /\ held \subseteq Managed
  BY FS_Interval, PmmAssumption DEF Managed, TypeOK
<1> QED
  BY <1>1, FS_Subset, FS_CardinalityType

LEMMA WithinInit == Init => WithinMemory
<1> SUFFICES ASSUME Init PROVE WithinMemory
  OBVIOUS
<1> DEFINE n == NPage - FirstFree
<1>1. /\ n \in Nat \ {0} /\ FirstFree \in Managed /\ FirstFree \in Page /\ HEAD \in Node
      /\ Managed \subseteq Node /\ 0 \in Page
  BY PmmAssumption DEF Managed, Page, Node
<1>2. default_init \in [next : [Node -> Managed \union {HEAD}], prev : [Node -> Managed \union {HEAD}]]
  BY DEF default_init
<1>3. links \in [next : [Node -> Managed \union {HEAD}], prev : [Node -> Managed \union {HEAD}]]
  BY <1>1, <1>2, LinksWithin DEF Init, default_init_memmap
<1>4. links \in [next : [Node -> Node], prev : [Node -> Node]]
  BY <1>1, <1>3
<1>5. /\ property \in [Page -> 0 .. n] /\ nr_free = n /\ PG_property \in SUBSET Page
      /\ PG_reserved \in SUBSET Page /\ ref \in [Page -> 0 .. MaxRef]
      /\ \A p \in Page : p + property[p] <= NPage
  BY <1>1, PmmAssumption DEF Init, default_init_memmap, Page
<1>6. TypeOK
  BY <1>1, <1>4, <1>5 DEF Init, TypeOK
<1>7. NeverOverReports
  BY <1>1, <1>5, FS_EmptySet DEF Init, NeverOverReports
<1> QED
  BY <1>3, <1>5, <1>6, <1>7 DEF Init, WithinMemory

\* A call returns, or goes on with another le.
LEMMA WithinQuiet ==
    ASSUME WithinMemory, UNCHANGED <<listvars, ref, held>>,
           ret' \in {ret, NULL},
           \/ Return
           \/ /\ op = "alloc" /\ UNCHANGED <<op, sz, base>> /\ sz <= nr_free
              /\ le' \in Managed \union {HEAD}
    PROVE  WithinMemory'
<1>1. FirstFree \in Managed /\ HEAD \in Node /\ Managed \subseteq Node
  BY PmmAssumption DEF Managed, Node, Page
<1> QED
  BY <1>1 DEF WithinMemory, TypeOK, listvars, Return, NeverOverReports

LEMMA WithinAlloc ==
    ASSUME WithinMemory, AllocStep
    PROVE  WithinMemory'
<1>1. CASE AllocTooMany
  BY <1>1, WithinQuiet DEF AllocTooMany
<1>2. CASE AllocNone
  BY <1>2, WithinQuiet DEF AllocNone
<1>3. /\ le \in Node /\ links.next[le] \in Managed \union {HEAD}
      /\ links.prev[links.next[le]] \in Managed \union {HEAD}
      /\ Managed \subseteq Page /\ Managed \subseteq Node
  BY PmmAssumption DEF WithinMemory, Managed, Node, Page
<1>4. CASE AllocScan
  BY <1>3, <1>4, WithinQuiet DEF AllocScan, WithinMemory
<1>5. CASE AllocTake
  <2> DEFINE page == links.next[le]
             p == page + sz
             cut == list_del(links, page)
             W == [next : [Node -> Managed \union {HEAD}], prev : [Node -> Managed \union {HEAD}]]
  <2>1. /\ op = "alloc" /\ page # HEAD /\ LargeEnough(page) /\ Return
        /\ (le = HEAD => sz <= nr_free)
        /\ nr_free' = nr_free - sz /\ held' = held \union Run(page, sz) /\ ret' = page
        /\ UNCHANGED <<PG_reserved, ref>>
    BY <1>5 DEF AllocTake, CountAlloc
  <2>2. /\ page \in Managed /\ page \in Page /\ sz \in Nat \ {0} /\ property[page] >= sz
        /\ property[page] \in Nat /\ page + property[page] <= NPage /\ page \in Nat
        /\ sz <= nr_free /\ nr_free \in Nat /\ TypeOK /\ links \in W
    BY <1>3, <2>1, Numbers, PmmAssumption DEF WithinMemory, LargeEnough
  <2>3. Run(page, sz) \subseteq Managed
    BY <2>2, PmmAssumption DEF Run, Managed
  <2>4. /\ links' \in W
        /\ property' \in [Page -> 0 .. NPage - FirstFree]
        /\ \A q \in Page : q + property'[q] <= NPage
        /\ PG_property' \in SUBSET Page
    <3>1. CASE /\ property[page] > sz
               /\ property' = [property EXCEPT ![p] = Remainder(page)]
               /\ PG_property' = ClearPageProperty(SetPageProperty(PG_property, p), page)
               /\ links' = list_add(cut, links.prev[page], p)
      <4>1. p \in Managed /\ p \in Page /\ p + (property[page] - sz) <= NPage
            /\ property[page] - sz \in 0 .. NPage - FirstFree
        BY <2>2, <3>1, PmmAssumption DEF Managed, Page
      <4>2. cut \in W
        BY <2>2, LinksWithin
      <4> HIDE DEF cut, W, p, page
      <4>3. links' \in W
        BY <1>3, <3>1, <4>1, <4>2, LinksWithin DEF W, page
      <4>4. property' \in [Page -> 0 .. NPage - FirstFree]
            /\ \A q \in Page : q + property'[q] <= NPage
        BY <2>2, <3>1, <4>1 DEF Remainder, TypeOK, WithinMemory
      <4>5. PG_property' \in SUBSET Page
        BY <2>2, <3>1, <4>1 DEF TypeOK, SetPageProperty, ClearPageProperty
      <4> QED
        BY <4>3, <4>4, <4>5
    <3>2. CASE /\ PG_property' = ClearPageProperty(PG_property, page)
               /\ links' = cut /\ property' = property
      <4>1. links' \in W
        BY <2>2, <3>2, LinksWithin
      <4> QED
        BY <2>2, <3>2, <4>1 DEF TypeOK, ClearPageProperty, WithinMemory
    <3> QED
      BY <1>5, <3>1, <3>2 DEF AllocTake
  <2>5. NeverOverReports' /\ nr_free' \in 0 .. NPage - FirstFree /\ held' \in SUBSET Managed
    <3>1. IsFiniteSet(held) /\ Cardinality(held) \in Nat /\ held \subseteq Managed
      BY <2>2, HeldFinite DEF TypeOK
    <3>2. IsFiniteSet(Run(page, sz)) /\ Cardinality(Run(page, sz)) = sz
      BY <2>2, RunCardinality
    <3>3. Cardinality(held') <= Cardinality(held) + sz /\ Cardinality(held') \in Nat
      <4>1. held \intersect Run(page, sz) \subseteq held
        OBVIOUS
      <4>2. Cardinality(held \intersect Run(page, sz)) \in Nat
        BY <3>1, <4>1, FS_Subset, FS_CardinalityType
      <4>3. /\ IsFiniteSet(held \union Run(page, sz))
            /\ Cardinality(held \union Run(page, sz))
                 = Cardinality(held) + Cardinality(Run(page, sz)) - Cardinality(held \intersect Run(page, sz))
        BY <3>1, <3>2, FS_Union
      <4> QED
        BY <2>1, <2>2, <3>1, <3>2, <4>2, <4>3, FS_CardinalityType
    <3>4. nr_free + Cardinality(held) <= NPage - FirstFree
      BY DEF WithinMemory, NeverOverReports
    <3>5. NeverOverReports' /\ nr_free' \in 0 .. NPage - FirstFree
      BY <2>1, <2>2, <3>1, <3>3, <3>4, PmmAssumption DEF NeverOverReports
    <3> QED
      BY <2>1, <2>3, <3>1, <3>5
  <2>6. links' \in [next : [Node -> Node], prev : [Node -> Node]]
    BY <1>3, <2>4 DEF Node
  <2>7. FirstFree \in Managed /\ HEAD \in Node
    BY PmmAssumption DEF Managed, Node
  <2>8. TypeOK'
    BY <2>1, <2>2, <2>4, <2>5, <2>6, <2>7 DEF TypeOK, Return
  <2> QED
    BY <2>1, <2>4, <2>5, <2>7, <2>8 DEF WithinMemory, Return
<1> QED
  BY <1>1, <1>2, <1>4, <1>5 DEF AllocStep

LEMMA WithinFreeCall ==
    ASSUME WithinMemory, NEW b \in Managed, NEW n \in 1 .. (NPage - FirstFree), FreeCall(b, n)
    PROVE  WithinMemory'
<1> DEFINE W == [next : [Node -> Managed \union {HEAD}], prev : [Node -> Managed \union {HEAD}]]
<1>1. /\ op = "idle" /\ Run(b, n) \subseteq held /\ sz' = n /\ base' = b /\ TypeOK /\ links \in W
      /\ b \in Page /\ b \in Nat /\ n \in Nat /\ HEAD \in Node /\ Managed \subseteq Node
      /\ le \in Managed \union {HEAD}
  BY PmmAssumption DEF FreeCall, WithinMemory, Managed, Page, Node
<1>2. CASE FreePanic(b, n)
  BY <1>1, <1>2 DEF FreePanic, listvars, WithinMemory, TypeOK, NeverOverReports
<1>3. CASE FreeStart(b, n)
  <2>1. b + n <= NPage
    <3>1. b + n - 1 \in Run(b, n) /\ held \subseteq Managed
      BY <1>1 DEF Run, TypeOK
    <3>2. b + n - 1 \in Managed
      BY <1>1, <3>1
    <3> QED
      BY <1>1, <3>2, PmmAssumption DEF Managed
  <2>2. /\ le' = HEAD /\ held' = held \ Run(b, n) /\ ref' = RefReset(b, n)
        /\ property' = [property EXCEPT ![b] = n] /\ PG_property' = SetPageProperty(PG_property, b)
        /\ nr_free' = nr_free + n /\ op' \in {"merge_prev", "insert"}
        /\ UNCHANGED <<PG_reserved, ret>>
    BY <1>3 DEF FreeStart
  <2>3. links' \in W
    <3>1. CASE links' = list_add(links, HEAD, b)
      BY <1>1, <3>1, LinksWithin
    <3>2. CASE links' = links
      BY <1>1, <3>2
    <3> QED
      BY <1>3, <3>1, <3>2 DEF FreeStart
  <2>4. links' \in [next : [Node -> Node], prev : [Node -> Node]]
    BY <1>1, <2>3
  <2>5. /\ property' \in [Page -> 0 .. NPage - FirstFree]
        /\ \A p \in Page : p + property'[p] <= NPage
    BY <1>1, <2>1, <2>2, PmmAssumption DEF TypeOK, WithinMemory
  <2>6. /\ held' \in SUBSET Managed /\ NeverOverReports'
        /\ nr_free' \in 0 .. NPage - FirstFree
    <3>1. IsFiniteSet(held) /\ Cardinality(held) \in Nat
      BY <1>1, HeldFinite
    <3>2. IsFiniteSet(Run(b, n)) /\ Cardinality(Run(b, n)) = n
      BY <1>1, RunCardinality
    <3>3. /\ Cardinality(held \ Run(b, n)) = Cardinality(held) - Cardinality(held \intersect Run(b, n))
          /\ IsFiniteSet(held \ Run(b, n))
      BY <3>1, FS_Difference
    <3>4. held \intersect Run(b, n) = Run(b, n)
      BY <1>1
    <3>5. Cardinality(held') = Cardinality(held) - n /\ Cardinality(held') \in Nat
      BY <2>2, <3>2, <3>3, <3>4, FS_CardinalityType
    <3>6. nr_free + Cardinality(held) <= NPage - FirstFree /\ nr_free \in Nat
      BY <1>1 DEF WithinMemory, NeverOverReports, TypeOK
    <3>7. NeverOverReports' /\ nr_free' \in 0 .. NPage - FirstFree
      BY <1>1, <2>2, <3>1, <3>5, <3>6, PmmAssumption DEF NeverOverReports
    <3> QED
      BY <1>1, <2>2, <3>7 DEF TypeOK
  <2>7. ref' \in [Page -> 0 .. MaxRef]
    BY <1>1, <2>2, PmmAssumption DEF RefReset, TypeOK
  <2>8. TypeOK'
    BY <1>1, <2>2, <2>4, <2>5, <2>6, <2>7 DEF TypeOK, SetPageProperty
  <2> QED
    BY <2>2, <2>3, <2>5, <2>6, <2>8 DEF WithinMemory
<1> QED
  BY <1>2, <1>3 DEF FreeCall

LEMMA WithinFacts ==
    ASSUME WithinMemory
    PROVE  /\ TypeOK /\ base \in Managed /\ le \in Managed \union {HEAD}
           /\ HEAD \in Node /\ Managed \subseteq Node /\ Managed \subseteq Page /\ FirstFree \in Managed
           /\ links \in [next : [Node -> Managed \union {HEAD}], prev : [Node -> Managed \union {HEAD}]]
           /\ \A x \in Node : /\ links.next[x] \in Managed \union {HEAD}
                            /\ links.prev[x] \in Managed \union {HEAD}
<1>1. HEAD \in Node /\ Managed \subseteq Node /\ Managed \subseteq Page /\ FirstFree \in Managed
  BY PmmAssumption DEF Managed, Page, Node
<1>2. links \in [next : [Node -> Managed \union {HEAD}], prev : [Node -> Managed \union {HEAD}]]
  BY DEF WithinMemory
<1>3. TypeOK /\ base \in Managed /\ le \in Managed \union {HEAD}
  BY DEF WithinMemory, TypeOK
<1> QED
  BY <1>1, <1>2, <1>3

\* The insertion only rewrites links, among entries.
LEMMA WithinInsert ==
    ASSUME WithinMemory, FreeInsert
    PROVE  WithinMemory'
<1> DEFINE W == [next : [Node -> Managed \union {HEAD}], prev : [Node -> Managed \union {HEAD}]]
<1>1. /\ TypeOK /\ links \in W /\ base \in Managed /\ links.next[le] \in Managed \union {HEAD}
      /\ HEAD \in Node /\ Managed \subseteq Node /\ le \in Managed \union {HEAD}
  BY WithinFacts
<1>2. links' \in W
  <2>1. list_add_before(links, links.next[le], base) \in W /\ list_add(links, links.next[le], base) \in W
    BY <1>1, LinksWithin
  <2> QED
    BY <1>1, <2>1 DEF FreeInsert
<1>3. links' \in [next : [Node -> Node], prev : [Node -> Node]]
  BY <1>1, <1>2
<1>4. /\ le' \in Managed \union {HEAD} /\ op' \in {"insert", "merge_prev"}
      /\ UNCHANGED <<nr_free, PG_reserved, PG_property, property, ref, held, sz, base, ret>>
  BY <1>1 DEF FreeInsert
<1> QED
  BY <1>1, <1>2, <1>3, <1>4 DEF WithinMemory, TypeOK, NeverOverReports

\* Two blocks that become one reach as far as the second did.
LEMMA WithinJoin ==
    ASSUME WithinMemory, NEW p \in Managed, NEW q \in Managed, p + property[p] = q
    PROVE  /\ Joined(p, q) \in [Page -> 0 .. NPage - FirstFree]
           /\ \A x \in Page : x + Joined(p, q)[x] <= NPage
<1>0. /\ p \in Page /\ q \in Page /\ p \in Nat /\ FirstFree <= p
  BY PmmAssumption DEF Managed, Page
<1>1. /\ q + property[q] <= NPage /\ property[p] \in Nat /\ property[q] \in Nat
      /\ property \in [Page -> 0 .. NPage - FirstFree]
  BY <1>0, WithinFacts, Numbers DEF WithinMemory, TypeOK
<1>2. property[p] + property[q] \in 0 .. NPage - FirstFree /\ p + (property[p] + property[q]) <= NPage
  BY <1>0, <1>1, PmmAssumption
<1> QED
  BY <1>0, <1>1, <1>2 DEF Joined, WithinMemory

LEMMA WithinMergePrev ==
    ASSUME WithinMemory, FreeMergePrev
    PROVE  WithinMemory'
<1> DEFINE W == [next : [Node -> Managed \union {HEAD}], prev : [Node -> Managed \union {HEAD}]]
           p == links.prev[base]
<1>1. /\ TypeOK /\ links \in W /\ base \in Managed /\ p \in Managed \union {HEAD}
      /\ HEAD \in Node /\ Managed \subseteq Node
  BY WithinFacts
<1>2. /\ op' = "merge_next"
      /\ UNCHANGED <<nr_free, PG_reserved, ref, held, sz, le, ret>>
  BY DEF FreeMergePrev
<1>3. CASE UNCHANGED <<property, PG_property, links, base>>
  BY <1>2, <1>3 DEF WithinMemory, TypeOK, NeverOverReports
<1>4. CASE /\ p # HEAD /\ p + property[p] = base /\ property' = Joined(p, base)
           /\ PG_property' = ClearPageProperty(PG_property, base)
           /\ links' = list_del(links, base) /\ base' = p
  <2>1. links' \in W
    BY <1>1, <1>4, LinksWithin
  <2>2. links' \in [next : [Node -> Node], prev : [Node -> Node]]
    BY <1>1, <2>1
  <2>3. /\ property' \in [Page -> 0 .. NPage - FirstFree]
        /\ \A x \in Page : x + property'[x] <= NPage
    BY <1>1, <1>4, WithinJoin
  <2> QED
    BY <1>1, <1>2, <1>4, <2>1, <2>2, <2>3
       DEF WithinMemory, TypeOK, NeverOverReports, ClearPageProperty
<1> QED
  BY <1>3, <1>4 DEF FreeMergePrev

LEMMA WithinMergeNext ==
    ASSUME WithinMemory, FreeMergeNext
    PROVE  WithinMemory'
<1> DEFINE W == [next : [Node -> Managed \union {HEAD}], prev : [Node -> Managed \union {HEAD}]]
           p == links.next[base]
<1>1. /\ TypeOK /\ links \in W /\ base \in Managed /\ p \in Managed \union {HEAD}
      /\ HEAD \in Node /\ Managed \subseteq Node /\ FirstFree \in Managed
  BY WithinFacts
<1>2. Return /\ UNCHANGED <<nr_free, PG_reserved, ref, held, ret>>
  BY DEF FreeMergeNext
<1>3. CASE UNCHANGED <<property, PG_property, links>>
  BY <1>1, <1>2, <1>3 DEF WithinMemory, TypeOK, NeverOverReports, Return
<1>4. CASE /\ p # HEAD /\ base + property[base] = p /\ property' = Joined(base, p)
           /\ PG_property' = ClearPageProperty(PG_property, p) /\ links' = list_del(links, p)
  <2>1. links' \in W
    BY <1>1, <1>4, LinksWithin
  <2>2. links' \in [next : [Node -> Node], prev : [Node -> Node]]
    BY <1>1, <2>1
  <2>3. /\ property' \in [Page -> 0 .. NPage - FirstFree]
        /\ \A x \in Page : x + property'[x] <= NPage
    BY <1>1, <1>4, WithinJoin
  <2> QED
    BY <1>1, <1>2, <1>4, <2>1, <2>2, <2>3
       DEF WithinMemory, TypeOK, NeverOverReports, ClearPageProperty, Return
<1> QED
  BY <1>3, <1>4 DEF FreeMergeNext

LEMMA WithinNext == WithinMemory /\ [Next]_vars => WithinMemory'
<1> SUFFICES ASSUME WithinMemory, [Next]_vars PROVE WithinMemory'
  OBVIOUS
<1>1. ASSUME NEW n \in 1 .. MaxRequest, AllocCall(n) PROVE WithinMemory'
  BY <1>1, PmmAssumption DEF AllocCall, listvars, WithinMemory, TypeOK, Node, NeverOverReports
<1>2. CASE AllocStep
  BY <1>2, WithinAlloc
<1>3. ASSUME NEW b \in Managed, NEW n \in 1 .. (NPage - FirstFree), FreeCall(b, n)
      PROVE  WithinMemory'
  BY <1>3, WithinFreeCall
<1>4. CASE FreeStep
  BY <1>4, WithinInsert, WithinMergePrev, WithinMergeNext DEF FreeStep
<1>5. ASSUME NEW p \in Managed, NEW v \in 0 .. MaxRef, SetPageRef(p, v) PROVE WithinMemory'
  BY <1>5 DEF SetPageRef, listvars, WithinMemory, TypeOK, NeverOverReports
<1>6. CASE UNCHANGED vars
  BY <1>6 DEF vars, WithinMemory, TypeOK, NeverOverReports
<1> QED
  BY <1>1, <1>2, <1>3, <1>4, <1>5, <1>6 DEF Next

\* Whatever the callers do, also once the list has lost blocks or shows them twice: the
\* allocator never promises more pages than nobody owns.
THEOREM NeverPromisesTooMuch == Spec => []NeverOverReports
<1>1. WithinMemory => NeverOverReports
  BY DEF WithinMemory
<1> QED
  BY WithinInit, WithinNext, <1>1, PTL DEF Spec

\* Whatever the callers do, no step of default_pmm.c reaches beyond pages[] or outside
\* managed memory, and the unsigned nr_free never wraps round.
THEOREM NeverLeavesMemory == Spec => [](TypeOK /\ \A p \in Page : p + property[p] <= NPage)
<1>1. WithinMemory => TypeOK /\ \A p \in Page : p + property[p] <= NPage
  BY DEF WithinMemory
<1> QED
  BY WithinInit, WithinNext, <1>1, PTL DEF Spec

==============================================================================
