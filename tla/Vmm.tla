--------------------------------- MODULE Vmm ----------------------------------
(***************************************************************************)
(* The areas of an address space: mm_create, vma_create,                   *)
(* insert_vma_struct, find_vma with its one-entry cache, and mm_destroy of *)
(* kern/mm/vmm.c, for one mm_struct at a time.                             *)
(*                                                                         *)
(* Vma are the places kmalloc can put a vma_struct at; a place is reused   *)
(* once it is freed.  mmap_list is the sequence of the areas on the list.  *)
(* The fields of the mm_struct keep their contents when it is freed, so    *)
(* that a new one starts with whatever the last one left.                  *)
(***************************************************************************)
EXTENDS Integers, Sequences, FiniteSets

CONSTANTS
    Vma,
    MaxAddr,        \* bound: addresses are 0 .. MaxAddr
    NULL

ASSUME VmmAssumption ==
    /\ MaxAddr \in Nat \ {0}
    /\ IsFiniteSet(Vma) /\ NULL \notin Vma

Addr == 0 .. MaxAddr

VARIABLES
    exists,         \* mm_create has returned an mm_struct that is not destroyed
    kmem,           \* the vma_structs that kmalloc has given out
    range,          \* vm_start and vm_end of every vma_struct
    mmap_list,
    mmap_cache,
    map_count,
    panic,          \* an assertion has failed
    found           \* the last find_vma: its argument and its result

vars == <<exists, kmem, range, mmap_list, mmap_cache, map_count, panic, found>>

Empty == [vm_start |-> 0, vm_end |-> 0]
NoAnswer == [addr |-> 0, vma |-> NULL]
Listed == {mmap_list[i] : i \in 1 .. Len(mmap_list)}
Holds(v, a) == range[v].vm_start <= a /\ a < range[v].vm_end

-----------------------------------------------------------------------------
(* An operator that is defined and not used stands for a mistake in the    *)
(* code of the definition that follows it; PROJECT.json ("mutants") names  *)
(* the property that catches it.                                           *)

Init ==
    /\ exists = FALSE
    /\ kmem = {} /\ range = [v \in Vma |-> Empty]
    /\ mmap_list = <<>> /\ mmap_cache = NULL /\ map_count = 0
    /\ panic = FALSE /\ found = NoAnswer

\* (If kmalloc fails, mm_create and vma_create change nothing.)
NotInitialised ==
    /\ ~ panic /\ ~ exists
    /\ exists' = TRUE
    /\ mmap_list' = <<>>
    /\ UNCHANGED <<kmem, range, mmap_cache, map_count, panic, found>>
mm_create ==
    /\ ~ panic /\ ~ exists
    /\ exists' = TRUE
    /\ mmap_list' = <<>> /\ mmap_cache' = NULL /\ map_count' = 0
    /\ UNCHANGED <<kmem, range, panic, found>>

vma_create(v, vm_start, vm_end) ==
    /\ ~ panic /\ v \notin kmem
    /\ kmem' = kmem \union {v}
    /\ range' = [range EXCEPT ![v] = [vm_start |-> vm_start, vm_end |-> vm_end]]
    /\ found' = NoAnswer
    /\ UNCHANGED <<exists, mmap_list, mmap_cache, map_count, panic>>

\* The number of areas that stay before v: the leading ones that do not start above it.
NoBreak(v) == Len(mmap_list)
InsertAt(v) ==
    CHOOSE i \in 0 .. Len(mmap_list) :
        /\ \A j \in 1 .. i : range[mmap_list[j]].vm_start <= range[v].vm_start
        /\ i < Len(mmap_list) => range[mmap_list[i + 1]].vm_start > range[v].vm_start

OnlyNotEmpty(prev, next) ==
    range[prev].vm_start < range[prev].vm_end /\ range[next].vm_start < range[next].vm_end
check_vma_overlap(prev, next) ==
    /\ range[prev].vm_start < range[prev].vm_end
    /\ range[prev].vm_end <= range[next].vm_start
    /\ range[next].vm_start < range[next].vm_end

\* The assertions of insert_vma_struct.
AssertsHold(v, i) ==
    /\ range[v].vm_start < range[v].vm_end
    /\ i > 0 => check_vma_overlap(mmap_list[i], v)
    /\ i < Len(mmap_list) => check_vma_overlap(v, mmap_list[i + 1])

insert_vma_struct(v) ==
    /\ ~ panic /\ exists /\ v \in kmem \ Listed
    /\ LET i == InsertAt(v) IN
        \/ /\ AssertsHold(v, i)
           /\ mmap_list' = SubSeq(mmap_list, 1, i) \o <<v>>
                                \o SubSeq(mmap_list, i + 1, Len(mmap_list))
           /\ map_count' = map_count + 1
           /\ UNCHANGED panic
        \/ /\ ~ AssertsHold(v, i)
           /\ panic' = TRUE
           /\ UNCHANGED <<mmap_list, map_count>>
    /\ found' = NoAnswer
    /\ UNCHANGED <<exists, kmem, range, mmap_cache>>

\* The cached area answers if it holds the address.
CacheTrusted(a) == mmap_cache # NULL
CacheHit(a) == mmap_cache # NULL /\ Holds(mmap_cache, a)

\* Otherwise the first area on the list that holds it.
Search(a) ==
    LET hits == {i \in 1 .. Len(mmap_list) : Holds(mmap_list[i], a)}
    IN IF hits = {} THEN NULL
       ELSE mmap_list[CHOOSE i \in hits : \A j \in hits : i <= j]

find_vma(a) ==
    /\ ~ panic /\ exists
    /\ LET v == IF CacheHit(a) THEN mmap_cache ELSE Search(a) IN
        /\ found' = [addr |-> a, vma |-> v]
        /\ mmap_cache' = IF v # NULL THEN v ELSE mmap_cache
    /\ UNCHANGED <<exists, kmem, range, mmap_list, map_count, panic>>

\* The areas on the list are freed, then the mm_struct.
mm_destroy ==
    /\ ~ panic /\ exists
    /\ kmem' = kmem \ Listed
    /\ range' = [v \in Vma |-> IF v \in Listed THEN Empty ELSE range[v]]
    /\ mmap_list' = <<>>
    /\ exists' = FALSE
    /\ found' = NoAnswer
    /\ UNCHANGED <<mmap_cache, map_count, panic>>

\* The kernel monitor, for ever.
Panicked == panic /\ UNCHANGED vars

Next ==
    \/ mm_create
    \/ \E v \in Vma, s, e \in Addr : vma_create(v, s, e)
    \/ \E v \in Vma : insert_vma_struct(v)
    \/ \E a \in Addr : find_vma(a)
    \/ mm_destroy
    \/ Panicked

Spec == Init /\ [][Next]_vars

-----------------------------------------------------------------------------

\* Every field of vmm.c's structures has its type, and map_count never exceeds the
\* vma_structs there are.
TypeOK ==
    /\ exists \in BOOLEAN /\ panic \in BOOLEAN
    /\ kmem \subseteq Vma
    /\ range \in [Vma -> [vm_start : Addr, vm_end : Addr]]
    /\ mmap_list \in Seq(Vma) /\ mmap_cache \in Vma \union {NULL}
    /\ map_count \in 0 .. Cardinality(Vma)
    /\ found \in [addr : Addr, vma : Vma \union {NULL}]

\* The areas on the list are in order and disjoint, whatever was inserted:
\* insert_vma_struct looks for an overlap only next to the place of insertion.
AreasDisjoint ==
    \A i, j \in 1 .. Len(mmap_list) :
        i < j => range[mmap_list[i]].vm_end <= range[mmap_list[j]].vm_start

\* insert_vma_struct panics only over an area that is empty or overlaps one on the
\* list.
PanicJustified ==
    [][panic' /\ ~ panic =>
         \E v \in kmem \ Listed :
            \/ range[v].vm_start >= range[v].vm_end
            \/ \E w \in Listed : /\ range[v].vm_start < range[w].vm_end
                                 /\ range[w].vm_start < range[v].vm_end]_vars

\* find_vma returns an area that holds the address whenever there is one on the list,
\* and NULL otherwise, whatever earlier calls left in the cache.
FindsTheArea ==
    [][found' # found /\ found' # NoAnswer =>
         IF \E v \in Listed : Holds(v, found'.addr)
         THEN found'.vma \in Listed /\ Holds(found'.vma, found'.addr)
         ELSE found'.vma = NULL]_vars

\* The list and the cache of an mm_struct point only to areas it owns that are not
\* freed, and map_count counts them, also when the memory of an earlier mm_struct and
\* of its areas is used again.
AreasLive ==
    /\ TypeOK
    /\ exists =>
        /\ Listed \subseteq kmem
        /\ mmap_cache # NULL => mmap_cache \in Listed
        /\ map_count = Len(mmap_list) /\ map_count = Cardinality(Listed)

==============================================================================
