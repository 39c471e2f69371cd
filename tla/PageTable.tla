------------------------------ MODULE PageTable -------------------------------
(***************************************************************************)
(* The three-level page tables of kern/mm/pmm.c: get_pte, get_page,        *)
(* page_insert, page_remove, page_remove_pte and tlb_invalidate, on the    *)
(* boot page directory, with the reference counts of the mapped pages and  *)
(* the TLB.                                                                *)
(*                                                                         *)
(* A linear address is its three indices.  mem is what is written in each  *)
(* page, read as a table: an entry is NULL (PTE_V clear) or a page and a   *)
(* permission.  One call is in progress at a time; the TLB, which is       *)
(* hardware and walks the tables when it likes, may come between any two   *)
(* of its writes.  The page allocator gives any free page.                 *)
(***************************************************************************)
EXTENDS Integers, FiniteSets

CONSTANTS
    Page,           \* the pages the allocator manages
    Root,           \* boot_pgdir, which is not one of them
    Index,          \* the indices of a table (0 .. 511 in the code)
    LA,             \* the linear addresses in use, <<PDX1, PDX0, PTX>>
    Perm,           \* the permissions callers ask for
    Table,          \* PTE_U | PTE_V, the permission of an entry that is a table
    NULL

ASSUME PageTableAssumption ==
    /\ IsFiniteSet(Page) /\ Root \notin Page
    /\ 0 \in Index /\ LA \subseteq Index \X Index \X Index /\ IsFiniteSet(LA)
    /\ Table \notin Perm /\ NULL \notin Page
    /\ NULL \notin [page : Page, perm : Perm \union {Table}]    \* pte_create sets PTE_V

VARIABLES
    free,           \* the pages the allocator has
    held,           \* pages a caller has allocated and not mapped yet
    ref,            \* page->ref
    mem,            \* the entries in every page
    tlb,            \* the translation cached for each address
    op,             \* where the call is; "idle" between calls
    la, page, perm, \* its arguments
    ret             \* what the last page_insert returned

args == <<la, page, perm>>
vars == <<free, held, ref, mem, tlb, op, la, page, perm, ret>>

Pte(p, x) == [page |-> p, perm |-> x]
Zero == [i \in Index |-> NULL]
Valid(e) == e # NULL

\* What is in a page that is not a table: it may look like entries.
Data(p) == [i \in Index |-> Pte(p, Table)]

-----------------------------------------------------------------------------
(* Walking the tables.                                                     *)
(* An operator that is defined and not used stands for a mistake in the    *)
(* code of the definition that follows it; PROJECT.json ("mutants") names  *)
(* the property that catches it.                                           *)

\* The level-1 and level-0 table of address a, and the page of its pte.
Pdep1(a) == mem[Root][a[1]]
Pdep0(a) == IF Valid(Pdep1(a)) THEN mem[Pdep1(a).page][a[2]] ELSE NULL
HasPte(a) == Valid(Pdep0(a))
PteOf(a) == mem[Pdep0(a).page][a[3]]

\* get_page, with the permission: the translation of a, or NULL.
get_page(a) == IF HasPte(a) THEN PteOf(a) ELSE NULL

\* *ptep = e, for the address of the call.
SetPte(e) == mem' = [mem EXCEPT ![Pdep0(la).page][la[3]] = e]

Init ==
    /\ free = Page /\ held = {}
    /\ ref = [p \in Page |-> 0]
    /\ mem = [p \in Page \union {Root} |-> IF p = Root THEN Zero ELSE Data(p)]
    /\ tlb = [a \in LA |-> NULL]
    /\ op = "idle"
    /\ la = NULL /\ page = NULL /\ perm = NULL /\ ret = 0

E_NO_MEM == 4

Return(r) ==
    /\ op' = "idle"
    /\ la' = NULL /\ page' = NULL /\ perm' = NULL /\ ret' = r

-----------------------------------------------------------------------------
(* page_insert                                                             *)

Mapped == {p \in Page : \E a \in LA : Valid(get_page(a)) /\ get_page(a).page = p}

\* The caller maps a page that it has just allocated, or one that is mapped already.
page_insert(p, a, x) ==
    /\ op = "idle" /\ p \in held \union Mapped
    /\ op' = "pdep1"
    /\ la' = a /\ page' = p /\ perm' = x
    /\ UNCHANGED <<free, held, ref, mem, tlb, ret>>

\* One level of get_pte: the table that entry i of t refers to is there, or it is
\* allocated and cleared, or there is no memory for it.
NoMemset(q) == mem[q]
ClearedTable(q) == Zero

get_pte_level(t, i, nextlevel) ==
    /\ \/ /\ Valid(mem[t][i])
          /\ op' = nextlevel
          /\ UNCHANGED <<free, ref, mem, args, ret>>
       \/ /\ ~ Valid(mem[t][i])
          /\ \E q \in free :
              /\ free' = free \ {q}
              /\ ref' = [ref EXCEPT ![q] = 1]
              /\ mem' = [mem EXCEPT ![q] = ClearedTable(q), ![t][i] = Pte(q, Table)]
          /\ op' = nextlevel
          /\ UNCHANGED <<args, ret>>
       \/ /\ ~ Valid(mem[t][i])
          /\ free = {}
          /\ Return(-E_NO_MEM)
          /\ UNCHANGED <<free, ref, mem>>
    /\ UNCHANGED <<held, tlb>>

get_pte1 == op = "pdep1" /\ get_pte_level(Root, la[1], "pdep0")
get_pte0 == op = "pdep0" /\ get_pte_level(Pdep1(la).page, la[2], "found")

\* Whether the pte has to be removed before it is set.  It is not if it already
\* refers to the page: then only the count is taken back.
Replaces == Valid(PteOf(la)) /\ PteOf(la).page # page
SamePage == Valid(PteOf(la)) /\ PteOf(la).page = page

page_ref_inc(p) == [ref EXCEPT ![p] = @ + 1]

InsertFound ==
    /\ op = "found"
    /\ ref' = IF SamePage THEN ref ELSE page_ref_inc(page)
    /\ op' = IF Replaces THEN "remove" ELSE "set"
    /\ UNCHANGED <<free, held, mem, tlb, args, ret>>

\* Where a call that has set the pte goes on.
NoFlush == "done"
AfterSet == "flush"

InsertSet ==
    /\ op = "set"
    /\ SetPte(Pte(page, perm))
    /\ held' = held \ {page}
    /\ op' = AfterSet
    /\ UNCHANGED <<free, ref, tlb, args, ret>>

InsertFlush ==
    /\ op = "flush"
    /\ tlb' = [tlb EXCEPT ![la] = NULL]
    /\ op' = "done"
    /\ UNCHANGED <<free, held, ref, mem, args, ret>>

InsertDone ==
    /\ op = "done"
    /\ Return(0)
    /\ UNCHANGED <<free, held, ref, mem, tlb>>

-----------------------------------------------------------------------------
(* page_remove, and page_remove_pte for both                               *)

\* page_remove finds nothing to do, or goes to page_remove_pte (with no page to set).
page_remove(a) ==
    /\ op = "idle" /\ Valid(get_page(a))
    /\ op' = "remove"
    /\ la' = a
    /\ UNCHANGED <<free, held, ref, mem, tlb, page, perm, ret>>

\* The reference is given up, and the page with the last one.
KeepsThePage(p) == free
AlwaysFreed(p) == free \union {p}
FreedWith(p) == IF ref[p] = 1 THEN free \union {p} ELSE free

RemoveUnref ==
    /\ op = "remove"
    /\ LET p == PteOf(la).page IN
        /\ ref' = [ref EXCEPT ![p] = @ - 1]
        /\ free' = FreedWith(p)
    /\ op' = "clear"
    /\ UNCHANGED <<held, mem, tlb, args, ret>>

RemoveClear ==
    /\ op = "clear"
    /\ SetPte(NULL)
    /\ op' = "invalidate"
    /\ UNCHANGED <<free, held, ref, tlb, args, ret>>

RemoveFlush ==
    /\ op = "invalidate"
    /\ tlb' = [tlb EXCEPT ![la] = NULL]
    /\ \/ /\ page # NULL
          /\ op' = "set"
          /\ UNCHANGED <<args, ret>>
       \/ /\ page = NULL
          /\ Return(ret)
    /\ UNCHANGED <<free, held, ref, mem>>

-----------------------------------------------------------------------------
(* The end of check_pgdir and of check_boot_pgdir gives the tables below   *)
(* boot_pgdir[0] back, and the page that is mapped through them, if there  *)
(* is one.  They are reached through the root until it is cleared, and     *)
(* through the TLB until it is flushed.                                    *)

Freeing == {"free_p", "free_pd0", "free_pd1", "clear_pd1", "flush_tlb"}

\* pde2page(pd1[0]) and pde2page(pd0[0]).
UpperTable == mem[Root][0].page
LowerTable == mem[UpperTable][0].page

\* The tests get here with one table of each level below boot_pgdir[0] and nothing but p
\* (nothing at all if p is NULL) mapped through it, and at no other address.  Any other
\* caller has to see to that.
CanFreeTables(p) ==
    /\ Valid(mem[Root][0]) /\ Valid(mem[UpperTable][0])
    /\ \A i \in Index \ {0} : ~ Valid(mem[UpperTable][i])
    /\ \A a \in LA : Valid(get_page(a)) => (a[1] = 0 <=> get_page(a).page = p)
    /\ p # NULL => p \in Mapped

FreeTables(p) ==
    /\ op = "idle"
    /\ op' = IF p = NULL THEN "free_pd0" ELSE "free_p"
    /\ page' = p
    /\ UNCHANGED <<free, held, ref, mem, tlb, la, perm, ret>>

\* The allocator resets the count of a page, whatever it is.
free_page(p) ==
    /\ free' = free \union {p}
    /\ ref' = [ref EXCEPT ![p] = 0]

FreeMapped ==
    /\ op = "free_p" /\ op' = "free_pd0"
    /\ free_page(page)
    /\ UNCHANGED <<held, mem, tlb, args, ret>>

FreeLower ==
    /\ op = "free_pd0" /\ op' = "free_pd1"
    /\ free_page(LowerTable)
    /\ UNCHANGED <<held, mem, tlb, args, ret>>

FreeUpper ==
    /\ op = "free_pd1" /\ op' = "clear_pd1"
    /\ free_page(UpperTable)
    /\ UNCHANGED <<held, mem, tlb, args, ret>>

ClearRoot ==
    /\ op = "clear_pd1" /\ op' = "flush_tlb"
    /\ mem' = [mem EXCEPT ![Root][0] = NULL]
    /\ UNCHANGED <<free, held, ref, tlb, args, ret>>

\* flush_tlb.
KeptTlb == tlb
FlushedTlb == [a \in LA |-> NULL]

FlushAll ==
    /\ op = "flush_tlb"
    /\ tlb' = FlushedTlb
    /\ Return(ret)
    /\ UNCHANGED <<free, held, ref, mem>>

FreeTablesStep == FreeMapped \/ FreeLower \/ FreeUpper \/ ClearRoot \/ FlushAll

-----------------------------------------------------------------------------
(* The callers and the hardware.                                           *)

\* External: a page is allocated and filled with data.
AllocPage(p) ==
    /\ op = "idle" /\ p \in free
    /\ free' = free \ {p} /\ held' = held \union {p}
    /\ mem' = [mem EXCEPT ![p] = Data(p)]
    /\ UNCHANGED <<ref, tlb, op, args, ret>>

\* External: it is freed without having been mapped.
FreePage(p) ==
    /\ op = "idle" /\ p \in held
    /\ held' = held \ {p} /\ free' = free \union {p}
    /\ UNCHANGED <<ref, mem, tlb, op, args, ret>>

\* The hardware reads the tables.
TlbFill(a) ==
    /\ Valid(get_page(a))
    /\ tlb' = [tlb EXCEPT ![a] = get_page(a)]
    /\ UNCHANGED <<free, held, ref, mem, op, args, ret>>

Next ==
    \/ \E p \in Page, a \in LA, x \in Perm : page_insert(p, a, x)
    \/ get_pte1 \/ get_pte0
    \/ InsertFound \/ InsertSet \/ InsertFlush \/ InsertDone
    \/ \E a \in LA : page_remove(a)
    \/ RemoveUnref \/ RemoveClear \/ RemoveFlush
    \/ \E p \in Page : AllocPage(p) \/ FreePage(p)
    \/ \E p \in Page \union {NULL} : CanFreeTables(p) /\ FreeTables(p)
    \/ FreeTablesStep
    \/ \E a \in LA : TlbFill(a)

Spec == Init /\ [][Next]_vars

-----------------------------------------------------------------------------

Entry == {NULL} \union [page : Page, perm : Perm \union {Table}]

\* Every variable of a call and every entry, count and cached translation is of its
\* type; a reference count is never negative.
TypeOK ==
    /\ free \subseteq Page /\ held \subseteq Page
    /\ ref \in [Page -> 0 .. Cardinality(LA) + 1]
    /\ mem \in [Page \union {Root} -> [Index -> Entry]]
    /\ tlb \in [LA -> Entry]
    /\ op \in {"idle", "pdep1", "pdep0", "found", "remove", "clear", "invalidate", "set",
               "flush", "done"} \union Freeing
    /\ la \in LA \union {NULL} /\ page \in Page \union {NULL}
    /\ perm \in Perm \union {NULL} /\ ret \in {0, -E_NO_MEM}

\* The tables that the entries of Root and of its tables refer to.
Tables1 == {<<Root, i>> : i \in {j \in Index : Valid(mem[Root][j])}}
Table1Pages == {mem[e[1]][e[2]].page : e \in Tables1}
Tables0 == {e \in Table1Pages \X Index : Valid(mem[e[1]][e[2]])}
TablePages == Table1Pages \union {mem[e[1]][e[2]].page : e \in Tables0}
Mappings(p) == {a \in LA : Valid(get_page(a)) /\ get_page(a).page = p}

\* The tables that the end of a test has freed while boot_pgdir[0] leads to them.
FreedTables ==
    CASE op = "free_pd1" -> {LowerTable}
      [] op = "clear_pd1" -> {LowerTable, UpperTable}
      [] OTHER -> {}

\* The tables are a tree: no table is referred to twice, mapped or held, and each one has
\* the reference count 1 that get_pte gave it and is not free, until the end of a test
\* frees the lower and then the upper table below boot_pgdir[0], just before it clears that.
TablesAreTree ==
    /\ TypeOK
    /\ Cardinality(TablePages) = Cardinality(Tables1 \union Tables0)
    /\ \A t \in TablePages : ref[t] = IF t \in FreedTables THEN 0 ELSE 1
    /\ TablePages \intersect (held \union Mapped) = {}
    /\ TablePages \intersect free = FreedTables

\* Between calls the reference count of a page is the number of addresses it is
\* mapped at, and every page is free, held, mapped or a table: none is lost, also
\* when page_insert fails for want of memory.
RefsCountMappings ==
    op = "idle" =>
        /\ \A p \in Page \ TablePages : ref[p] = Cardinality(Mappings(p))
        /\ Page = free \union held \union Mapped \union TablePages
        /\ free \intersect (held \union Mapped) = {}

\* A free page can be reached, through the tables or the TLB, at most at the address
\* whose pte is being removed, until it is cleared and the TLB flushed; and at the end of
\* a test, which frees the page of the test first and flushes the TLB last, by no more
\* than the addresses below boot_pgdir[0], and it is that page.
FreePageUnreachable ==
    \A a \in LA : \A e \in {get_page(a), tlb[a]} :
        Valid(e) /\ e.page \in free =>
            \/ a = la /\ op \in {"clear", "invalidate"}
            \/ a[1] = 0 /\ e.page = page /\ op \in Freeing \ {"free_p"}

\* Once a call has returned, the TLB holds nothing but what the tables say, whenever
\* the hardware read them.
NoStaleTranslation ==
    op = "idle" => \A a \in LA : Valid(tlb[a]) => tlb[a] = get_page(a)

\* The addresses whose translation a call may change.
Own ==
    CASE op = "idle" -> {}
      [] op \in Freeing -> {a \in LA : a[1] = 0}
      [] OTHER -> {la}

\* A call changes the translation of its own address only, whatever tables it adds, and
\* what a new owner writes to a page changes none; page_insert that returns 0 has made
\* it what was asked, and one that fails has changed none, and finds the allocator empty.
OwnAddressOnly ==
    [][/\ \A a \in LA \ Own : get_page(a)' = get_page(a)
       /\ op = "done" => get_page(la) = Pte(page, perm)
       /\ op \in {"pdep1", "pdep0"} /\ op' = "idle" =>
             free = {} /\ \A a \in LA : get_page(a)' = get_page(a)]_vars

==============================================================================
