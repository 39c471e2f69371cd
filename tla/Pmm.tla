--------------------------------- MODULE Pmm ---------------------------------
(***************************************************************************)
(* The first-fit physical page allocator, kern/mm/default_pmm.c, on the    *)
(* circular doubly linked list of libs/list.h, as called through           *)
(* alloc_pages and free_pages of kern/mm/pmm.c.                            *)
(*                                                                         *)
(* A page is its index in pages[]; the list head &free_list is the node    *)
(* HEAD.  Calls run with interrupts disabled (pmm.c:57, 69), so a call     *)
(* never overlaps another; its loops are modelled one iteration a step,    *)
(* because whether they end is one of the questions.  The insertion loop   *)
(* of default_free_pages is the code's, the branch with no `break' (148)   *)
(* included.                                                               *)
(***************************************************************************)
EXTENDS Integers, FiniteSets

CONSTANTS
    NPage,          \* pages[] has NPage entries (npage - nbase in pmm.c)
    FirstFree,      \* the first page after the kernel and after pages[] itself
    MaxRequest,     \* bound: the largest n a caller asks for
    MaxRef,         \* bound: the largest reference count a caller sets
    TopStaysFree    \* TRUE: callers never ask for what would take the last page

ASSUME PmmAssumption ==
    /\ NPage \in Nat /\ FirstFree \in Nat /\ FirstFree < NPage
    /\ MaxRequest \in Nat \ {0}
    /\ MaxRef \in Nat
    /\ TopStaysFree \in BOOLEAN

Page == 0 .. NPage - 1
Managed == FirstFree .. NPage - 1
HEAD == -1
NULL == -2
Node == Page \union {HEAD}
Run(p, n) == p .. (p + n - 1)

VARIABLES
    links,          \* [next, prev]: the list_entry_t of every page and of the head
    nr_free,
    PG_reserved,    \* the pages with the flag set
    PG_property,    \* the pages with the flag set: the heads of free blocks
    property,
    ref,
    held,           \* the pages callers own (not in the code)
    op,             \* where the call being executed stands; "idle" between calls
    sz,             \* its argument n
    base,           \* its argument base (default_free_pages)
    le,             \* its local le
    ret             \* what the last alloc_pages returned

listvars == <<links, nr_free, PG_reserved, PG_property, property>>
vars == <<links, nr_free, PG_reserved, PG_property, property, ref, held,
          op, sz, base, le, ret>>

-----------------------------------------------------------------------------
(* An operator that is defined and not used stands for a mistake in the     *)
(* code of the definition that follows it; PROJECT.json ("mutants") names   *)
(* the property that catches it.                                           *)

(* libs/list.h.  An operation maps a [next, prev] record to the one after. *)

__list_add(l, elm, prev, next) ==
    [next |-> [l.next EXCEPT ![prev] = elm, ![elm] = next],
     prev |-> [l.prev EXCEPT ![next] = elm, ![elm] = prev]]

__list_del(l, prev, next) ==
    [next |-> [l.next EXCEPT ![prev] = next],
     prev |-> [l.prev EXCEPT ![next] = prev]]

list_add(l, listelm, elm) == __list_add(l, elm, listelm, l.next[listelm])
list_add_before(l, listelm, elm) == __list_add(l, elm, l.prev[listelm], listelm)
list_del(l, listelm) == __list_del(l, l.prev[listelm], l.next[listelm])
list_empty(l) == l.next[HEAD] = HEAD

-----------------------------------------------------------------------------
(* The pages of the blocks whose head carries PG_property, and requests.   *)

Block(x) == Run(x, property[x])
FreePages == {p \in Page : \E x \in PG_property : p \in Block(x)}
Fits(S, n) == \E p \in S : Run(p, n) \subseteq S

\* The callers this kernel has: memory is far larger than what they take, so no
\* request ever reaches the last page.  FALSE allows every request.
Affordable(n) ==
    TopStaysFree /\ Fits(FreePages, n) => Fits(FreePages \ {NPage - 1}, n)

SetPageProperty(S, p) == S \union {p}
ClearPageProperty(S, p) == S \ {p}

\* The loop test of default_alloc_pages, what a split leaves, and the count.
LargerThan(p) == property[p] > sz
LargeEnough(p) == property[p] >= sz
Remainder(p) == property[p] - sz
CountUnchanged(n) == nr_free
CountAlloc(n) == nr_free - n

\* default_free_pages: the references of the freed pages, the size of two blocks
\* that become one.
RefKept(b, n) == ref
RefReset(b, n) == [p \in Page |-> IF p \in Run(b, n) THEN 0 ELSE ref[p]]
Joined(p, q) == [property EXCEPT ![p] = @ + property[q]]

\* A call returns: its locals are gone.
Return == op' = "idle" /\ sz' = 0 /\ base' = FirstFree /\ le' = HEAD

-----------------------------------------------------------------------------

\* default_init, then page_init's only call of default_init_memmap, on every
\* page from FirstFree: the list is empty, so the block becomes its only entry.
\* The links of the other pages are never read before they are written.
default_init == [next |-> [x \in Node |-> HEAD], prev |-> [x \in Node |-> HEAD]]

default_init_memmap(b, n) ==
    /\ links = list_add(default_init, HEAD, b)
    /\ nr_free = n
    /\ PG_reserved = Page \ Run(b, n)
    /\ PG_property = {b}
    /\ property = [p \in Page |-> IF p = b THEN n ELSE 0]
    /\ ref = [p \in Page |-> 0]

Init ==
    /\ default_init_memmap(FirstFree, NPage - FirstFree)
    /\ held = {}
    /\ op = "idle" /\ sz = 0 /\ base = FirstFree /\ le = HEAD
    /\ ret = NULL

(* default_alloc_pages *)

\* The entry: `n > nr_free' returns NULL at once, otherwise the loop starts.
AllocCall(n) ==
    /\ op = "idle"
    /\ Affordable(n)
    /\ sz' = n
    /\ op' = "alloc"
    /\ le' = HEAD
    /\ UNCHANGED <<listvars, ref, held, base, ret>>

AllocTooMany ==
    /\ op = "alloc" /\ le = HEAD
    /\ sz > nr_free
    /\ ret' = NULL
    /\ Return
    /\ UNCHANGED <<listvars, ref, held>>

AllocScanStuck ==
    /\ op = "alloc"
    /\ le = HEAD => sz <= nr_free
    /\ LET p == links.next[le] IN p # HEAD /\ ~ LargeEnough(p)
    /\ UNCHANGED vars

\* The loop goes on: the entry reached is a page whose block is too small.
AllocScan ==
    /\ op = "alloc"
    /\ le = HEAD => sz <= nr_free
    /\ LET p == links.next[le] IN
        /\ p # HEAD
        /\ ~ LargeEnough(p)
        /\ le' = p
    /\ UNCHANGED <<listvars, ref, held, op, sz, base, ret>>

\* The loop comes back to the head: no block is large enough.
AllocNone ==
    /\ op = "alloc"
    /\ le = HEAD => sz <= nr_free
    /\ links.next[le] = HEAD
    /\ ret' = NULL
    /\ Return
    /\ UNCHANGED <<listvars, ref, held>>

\* The loop reaches a block that fits: unlink it, put back what is left of it.
AllocTake ==
    /\ op = "alloc"
    /\ le = HEAD => sz <= nr_free
    /\ LET page == links.next[le]
           p    == page + sz
           cut  == list_del(links, page)
       IN  /\ page # HEAD
           /\ LargeEnough(page)
           /\ \/ /\ property[page] > sz
                 /\ property' = [property EXCEPT ![p] = Remainder(page)]
                 /\ PG_property' = ClearPageProperty(SetPageProperty(PG_property, p), page)
                 /\ links' = list_add(cut, links.prev[page], p)
              \/ /\ property[page] = sz
                 /\ PG_property' = ClearPageProperty(PG_property, page)
                 /\ links' = cut
                 /\ UNCHANGED property
           /\ nr_free' = CountAlloc(sz)
           /\ held' = held \union Run(page, sz)
           /\ ret' = page
    /\ Return
    /\ UNCHANGED <<PG_reserved, ref>>

(* default_free_pages *)

\* The loop of asserts has passed: the pages get flags 0 and ref 0, and an empty
\* list gets base as its only entry; otherwise the insertion loop starts.
FreeStart(b, n) ==
    /\ Run(b, n) \intersect (PG_reserved \union PG_property) = {}
    /\ le' = HEAD
    /\ held' = held \ Run(b, n)
    /\ ref' = RefReset(b, n)
    /\ property' = [property EXCEPT ![b] = n]
    /\ PG_property' = SetPageProperty(PG_property, b)
    /\ nr_free' = nr_free + n
    /\ \/ /\ list_empty(links)
          /\ links' = list_add(links, HEAD, b)
          /\ op' = "merge_prev"
       \/ /\ ~ list_empty(links)
          /\ op' = "insert"
          /\ UNCHANGED links
    /\ UNCHANGED <<PG_reserved, ret>>

\* assert(!PageReserved(p) && !PageProperty(p)) fails.
FreePanic(b, n) ==
    /\ Run(b, n) \intersect (PG_reserved \union PG_property) # {}
    /\ op' = "panic"
    /\ UNCHANGED <<listvars, ref, held, le, ret>>

\* The entry: a caller frees any run of pages it owns.
FreeCall(b, n) ==
    /\ op = "idle"
    /\ Run(b, n) \subseteq held
    /\ sz' = n /\ base' = b
    /\ FreeStart(b, n) \/ FreePanic(b, n)

\* One iteration of the insertion loop.  After list_add(le, base) there is no
\* break: the next iteration meets base itself, whose next is the head, and
\* list_add(base, base) makes base its own predecessor.
FreeInsert ==
    /\ op = "insert"
    /\ LET e == links.next[le] IN
        \/ /\ e = HEAD
           /\ op' = "merge_prev"
           /\ UNCHANGED <<links, le>>
        \/ /\ e # HEAD /\ base < e
           /\ links' = list_add_before(links, e, base)
           /\ op' = "merge_prev"
           /\ UNCHANGED le
        \/ /\ e # HEAD /\ ~ (base < e)
           /\ links' = IF links.next[e] = HEAD THEN list_add(links, e, base) ELSE links
           /\ le' = e
           /\ UNCHANGED op
    /\ UNCHANGED <<nr_free, PG_reserved, PG_property, property, ref, held, sz, base, ret>>

\* The merge with the block before base, which then becomes base.
FreeMergePrev ==
    /\ op = "merge_prev"
    /\ LET p == links.prev[base] IN
        \/ /\ p # HEAD
           /\ p + property[p] = base
           /\ property' = Joined(p, base)
           /\ PG_property' = ClearPageProperty(PG_property, base)
           /\ links' = list_del(links, base)
           /\ base' = p
        \/ /\ p # HEAD => p + property[p] # base
           /\ UNCHANGED <<property, PG_property, links, base>>
    /\ op' = "merge_next"
    /\ UNCHANGED <<nr_free, PG_reserved, ref, held, sz, le, ret>>

FreeMergeNextNever ==
    /\ op = "merge_next"
    /\ Return
    /\ UNCHANGED <<listvars, ref, held, ret>>

\* The merge with the block after base, and the return.
FreeMergeNext ==
    /\ op = "merge_next"
    /\ LET p == links.next[base] IN
        \/ /\ p # HEAD
           /\ base + property[base] = p
           /\ property' = Joined(base, p)
           /\ PG_property' = ClearPageProperty(PG_property, p)
           /\ links' = list_del(links, p)
        \/ /\ p # HEAD => base + property[base] # p
           /\ UNCHANGED <<property, PG_property, links>>
    /\ Return
    /\ UNCHANGED <<nr_free, PG_reserved, ref, held, ret>>

(* The owner of a page counts its references: set_page_ref, page_ref_inc,   *)
(* page_ref_dec of pmm.h.                                                   *)

SetPageRef(p, v) ==
    /\ op = "idle"
    /\ p \in held
    /\ ref' = [ref EXCEPT ![p] = v]
    /\ UNCHANGED <<listvars, held, op, sz, base, le, ret>>

FreeStep == FreeInsert \/ FreeMergePrev \/ FreeMergeNext
AllocStep == AllocTooMany \/ AllocScan \/ AllocNone \/ AllocTake

Next ==
    \/ \E n \in 1 .. MaxRequest : AllocCall(n)
    \/ AllocStep
    \/ \E b \in Managed, n \in 1 .. (NPage - FirstFree) : FreeCall(b, n)
    \/ FreeStep
    \/ \E p \in Managed, v \in 0 .. MaxRef : SetPageRef(p, v)

Spec == Init /\ [][Next]_vars

\* A call runs with interrupts off on the only CPU: nothing can stop it.
FairSpec == Spec /\ WF_vars(AllocStep \/ FreeStep)

-----------------------------------------------------------------------------
(* Type invariant *)

TypeOK ==
    /\ links \in [next : [Node -> Node], prev : [Node -> Node]]
    /\ nr_free \in 0 .. NPage - FirstFree
    /\ PG_reserved \in SUBSET Page
    /\ PG_property \in SUBSET Page
    /\ property \in [Page -> 0 .. NPage - FirstFree]
    /\ ref \in [Page -> 0 .. MaxRef]
    /\ held \in SUBSET Managed
    /\ op \in {"idle", "alloc", "insert", "merge_prev", "merge_next", "panic"}
    /\ sz \in Nat
    /\ base \in Managed
    /\ le \in Node
    /\ ret \in Managed \union {NULL}

(***************************************************************************)
(* Invariants of every step, each holding inside a call too.  They are     *)
(* stated on the heads of free blocks, so that together they are           *)
(* inductive (PmmProofs).                                                  *)
(***************************************************************************)

\* The entries on the list: base is flagged before it is linked.
Linked == IF op = "insert" THEN PG_property \ {base} ELSE PG_property
OnList == Linked \union {HEAD}

\* On S and the head, next is the successor in address order, prev its inverse.
Sorted(l, S) ==
    \A x \in S \union {HEAD} :
        /\ l.next[x] \in S \union {HEAD} /\ l.prev[l.next[x]] = x
        /\ l.prev[x] \in S \union {HEAD} /\ l.next[l.prev[x]] = x
        /\ l.next[x] = HEAD => \A z \in S : z <= x
        /\ l.next[x] # HEAD => /\ x < l.next[x]
                              /\ \A z \in S : z <= x \/ l.next[x] <= z

\* The list holds every free block exactly once, in address order
\* (default_pmm.c:143-151), and can be walked in both directions.
ListSorted == Sorted(links, Linked)

\* Free blocks are not empty, lie in managed memory and do not overlap.
BlocksDisjoint ==
    /\ \A x \in PG_property : /\ FirstFree <= x /\ property[x] > 0
                             /\ x + property[x] <= NPage
    /\ \A x, y \in PG_property : x < y => x + property[x] <= y

\* No two free blocks touch, except at the block a call is still merging.
Coalesced ==
    \A x, y \in PG_property :
        x + property[x] = y =>
            \/ op \in {"insert", "merge_prev"} /\ base \in {x, y}
            \/ op = "merge_next" /\ base = x

\* A managed page is free or owned, never both and never neither, and the
\* reserved pages are the others.
Partition ==
    /\ held = Managed \ FreePages
    /\ PG_reserved = Page \ Managed

\* nr_free counts the free pages.
FreeCounted == nr_free = Cardinality(FreePages)

\* A page that alloc_pages may hand out has reference count 0.
FreeUnreferenced == \A p \in FreePages : ref[p] = 0

\* No assertion of default_free_pages fails (default_pmm.c:131).
NoPanic == op # "panic"

\* Together: between the calls of default_pmm.c, and in the middle of one, the list
\* is sorted and linked both ways, memory is never lost, shared or left in pieces,
\* and no free panics.
MemoryAccounted == ListSorted /\ Coalesced /\ Partition /\ NoPanic

\* What a call knows where it stands: alloc_pages has passed only blocks that are
\* too small, free_pages has passed only blocks below base.
CallPosition ==
    /\ op = "alloc" => /\ sz \in 1 .. MaxRequest /\ Affordable(sz)
                       /\ le \in OnList
                       /\ \A x \in PG_property : x <= le => ~ LargeEnough(x)
    /\ op = "insert" => base \in PG_property /\ le \in OnList /\ le < base
    /\ op \in {"merge_prev", "merge_next"} => base \in PG_property

\* The last page stays in a block that is on the list, so the insertion loop
\* always finds a block above base and its branch without break is not taken.
TopFree == TopStaysFree => \E x \in Linked : x + property[x] = NPage

\* The rest of the inductive invariant, which the proof needs besides
\* MemoryAccounted.
InductiveRest ==
    TypeOK /\ BlocksDisjoint /\ FreeCounted /\ FreeUnreferenced /\ CallPosition /\ TopFree

\* However many blocks the list has lost or shows twice, the allocator never
\* promises more pages than nobody owns (nr_free is what :99 and :120 go by).
NeverOverReports == nr_free + Cardinality(held) <= NPage - FirstFree

\* Seen from the callers, the block list is a set of free pages: a request gets
\* the lowest run that fits and is refused only when no run fits.
Alloc == INSTANCE ContigAlloc
            WITH free <- FreePages, req <- IF op = "alloc" THEN sz ELSE 0
AllocatorRefined == Alloc!Safe

\* A call to alloc_pages or free_pages returns: the loops of default_pmm.c end.
EveryCallReturns == op # "idle" ~> op \in {"idle", "panic"}

\* assert(PageProperty(p)) of default_check (default_pmm.c:240), of every page
\* the walk of its loop meets.
ListedAreFree ==
    LET walk[k \in 0 .. NPage] ==
            IF k = 0 THEN links.next[HEAD]
            ELSE IF walk[k - 1] = HEAD THEN HEAD
            ELSE links.next[walk[k - 1]]
    IN  op = "idle" => \A k \in 0 .. NPage : walk[k] \in PG_property \union {HEAD}

==============================================================================
