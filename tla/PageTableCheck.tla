---------------------------- MODULE PageTableCheck -----------------------------
(***************************************************************************)
(* The self-tests of the page tables at boot, check_pgdir and              *)
(* check_boot_pgdir of kern/mm/pmm.c, in front of the arbitrary callers of *)
(* PageTable.  A test is a script; a line of it is a call of PageTable or  *)
(* a group of assertions.  The hardware may read the tables in between.    *)
(***************************************************************************)
EXTENDS PageTable, Sequences

CONSTANTS Kernel, User      \* permissions without and with PTE_U

A0 == <<0, 0, 0>>           \* 0x0 and 0x100
A1 == <<0, 0, 1>>           \* PGSIZE and 0x100 + PGSIZE

\* The two tables and two pages of check_pgdir fit in the memory.
ASSUME CheckAssumption ==
    /\ Kernel \in Perm /\ User \in Perm /\ Kernel # User
    /\ {A0, A1} \subseteq LA /\ Cardinality(Page) >= 4

VARIABLES
    at,             \* the line of the script that is next
    p1, p2,         \* the pages of the test (check_boot_pgdir's p is p1)
    nr_free_store,
    failed          \* an assertion has failed: the kernel has panicked

testvars == <<at, p1, p2, nr_free_store, failed>>

-----------------------------------------------------------------------------

Line(do, p, a, x) == [do |-> do, p |-> p, a |-> a, perm |-> x]
AllocLine(p) == Line("alloc", p, NULL, NULL)
InsertLine(p, a, x) == Line("insert", p, a, x)
RemoveLine(a) == Line("remove", 0, a, NULL)
StoreLine == Line("store", 0, NULL, NULL)
FreeLine(p) == Line("free", p, NULL, NULL)
AssertLine(which) == Line(which, 0, NULL, NULL)

check_pgdir ==
    << StoreLine, AssertLine("nothing mapped"),
       AllocLine(1), InsertLine(1, A0, Kernel), AssertLine("p1 at 0"),
       AllocLine(2), InsertLine(2, A1, User), AssertLine("p2 at PGSIZE"),
       InsertLine(1, A1, Kernel), AssertLine("p1 at both"),
       RemoveLine(A0), AssertLine("p1 at PGSIZE"),
       RemoveLine(A1), AssertLine("tables left"),
       FreeLine(0), AssertLine("all free") >>

check_boot_pgdir ==
    << StoreLine, AssertLine("root empty"),
       AllocLine(1), InsertLine(1, A0, Kernel), AssertLine("p at one"),
       InsertLine(1, A1, Kernel), AssertLine("p at two"),
       FreeLine(1), AssertLine("all free") >>

Script == check_pgdir \o check_boot_pgdir
Testing == at <= Len(Script)

\* What a load or a store at address a goes to.
Translated(a) == IF Valid(tlb[a]) THEN tlb[a] ELSE get_page(a)
Refs(k1, k2) == ref[p1] = k1 /\ ref[p2] = k2
At(a, p, x) == Valid(get_page(a)) /\ get_page(a) = Pte(p, x)

\* The assertions on the tables; the two on constants, npage and the place of
\* boot_pgdir, are left out, and so is the first loop of check_boot_pgdir, which counts
\* from a negative int compared as unsigned and is never entered.  The strings of
\* check_boot_pgdir are there to see that the two addresses and the kernel's own address
\* of p are the same memory.
Holds(which) ==
    CASE which = "nothing mapped" -> get_page(A0) = NULL
      [] which = "p1 at 0" ->
            /\ ret = 0 /\ At(A0, p1, Kernel) /\ ref[p1] = 1
            /\ HasPte(A1) /\ Pdep0(A1) = mem[mem[Root][0].page][0]
      [] which = "p2 at PGSIZE" ->
            ret = 0 /\ At(A1, p2, User) /\ mem[Root][0].perm = Table /\ ref[p2] = 1
      [] which = "p1 at both" -> ret = 0 /\ Refs(2, 0) /\ At(A1, p1, Kernel)
      [] which = "p1 at PGSIZE" -> Refs(1, 0)
      [] which = "tables left" -> Refs(0, 0) /\ ref[mem[Root][0].page] = 1
      [] which = "all free" -> nr_free_store = Cardinality(free)
      [] which = "root empty" -> ~ Valid(mem[Root][0])
      [] which = "p at one" -> ret = 0 /\ ref[p1] = 1
      [] which = "p at two" ->
            /\ ret = 0 /\ ref[p1] = 2
            /\ \A a \in {A0, A1} : Translated(a).page = p1

-----------------------------------------------------------------------------

CheckInit ==
    /\ Init
    /\ at = 1 /\ p1 = NULL /\ p2 = NULL /\ nr_free_store = 0 /\ failed = FALSE

PageNo(k) == CASE k = 0 -> NULL [] k = 1 -> p1 [] k = 2 -> p2
Now(do) == Testing /\ op = "idle" /\ ~ failed /\ Script[at].do = do
Then == at' = at + 1

TestStore ==
    /\ Now("store")
    /\ nr_free_store' = Cardinality(free)
    /\ Then /\ UNCHANGED <<vars, p1, p2, failed>>

TestAlloc ==
    /\ Now("alloc")
    /\ \E p \in Page :
        /\ AllocPage(p)
        /\ IF Script[at].p = 1 THEN p1' = p /\ UNCHANGED p2 ELSE p2' = p /\ UNCHANGED p1
    /\ Then /\ UNCHANGED <<nr_free_store, failed>>

TestCall ==
    /\ \/ Now("insert") /\ page_insert(PageNo(Script[at].p), Script[at].a, Script[at].perm)
       \/ Now("remove") /\ page_remove(Script[at].a)
       \/ Now("free") /\ FreeTables(PageNo(Script[at].p))
    /\ Then /\ UNCHANGED <<p1, p2, nr_free_store, failed>>

Calls == {"store", "alloc", "insert", "remove", "free"}
TestAssert ==
    /\ Testing /\ op = "idle" /\ ~ failed /\ Script[at].do \notin Calls
    /\ failed' = ~ Holds(Script[at].do)
    /\ Then
    \* The pages are named no more at the end of a test.
    /\ IF Script[at].do = "all free" THEN p1' = NULL /\ p2' = NULL /\ nr_free_store' = 0
       ELSE UNCHANGED <<p1, p2, nr_free_store>>
    /\ UNCHANGED vars

\* A call goes on, and the hardware.
CallStep ==
    \/ get_pte1 \/ get_pte0
    \/ InsertFound \/ InsertSet \/ InsertFlush \/ InsertDone
    \/ RemoveUnref \/ RemoveClear \/ RemoveFlush
    \/ FreeTablesStep
    \/ \E a \in LA : TlbFill(a)

CheckNext ==
    \/ TestStore \/ TestAlloc \/ TestCall \/ TestAssert
    \/ Testing /\ CallStep /\ UNCHANGED testvars
    \/ ~ Testing /\ Next /\ UNCHANGED testvars

CheckSpec == CheckInit /\ [][CheckNext]_<<vars, testvars>>

-----------------------------------------------------------------------------

\* No assertion of check_pgdir or check_boot_pgdir (pmm.c:366-455) fails, whatever
\* pages the allocator gives and whenever the hardware caches a translation.
PgdirChecksPass == ~ failed

==============================================================================
