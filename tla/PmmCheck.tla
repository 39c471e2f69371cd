------------------------------- MODULE PmmCheck -------------------------------
(***************************************************************************)
(* The self-tests of kern/mm/default_pmm.c, which check_alloc_page runs    *)
(* once at boot, and the callers that come after them.  basic_check and    *)
(* default_check are a script of calls and assertions; a call runs through *)
(* the steps of module Pmm.  They replace the free list by an empty one    *)
(* for a while, and free pages upwards into it: this is where the kernel   *)
(* takes the insertion loop's branch without break.                        *)
(***************************************************************************)
EXTENDS Pmm, Sequences

CONSTANT MaxCalls       \* bound: the calls made after the self-tests

ASSUME CallsAssumption == MaxCalls \in Nat

VARIABLES
    pc,             \* the entry of the script being executed
    called,         \* its call has been made
    loc,            \* the locals p0, p1, p2, p, le; r is a result only compared with NULL
    store,          \* free_list_store and nr_free_store
    count, total,
    calls           \* made after the self-tests (not in the code)

checkvars == <<pc, called, loc, store, count, total, calls>>
allvars == <<vars, checkvars>>

-----------------------------------------------------------------------------
(* The script.  An assertion is named by its line; it stands for the ones   *)
(* just before it too.                                                      *)

Alloc_pages(n, v) == <<"alloc", n, v>>
Free_pages(v, off, n) == <<"free", v, off, n>>
Free_page(v) == Free_pages(v, 0, 1)
Assert(line) == <<"assert", line>>

basic_check ==
    << Alloc_pages(1, "p0"), Alloc_pages(1, "p1"), Alloc_pages(1, "p2"), Assert(194),
       <<"save_list">>, <<"save_nr">>, Alloc_pages(1, "r"), Assert(203),
       Free_page("p0"), Free_page("p1"), Free_page("p2"), Assert(208),
       Alloc_pages(1, "p0"), Alloc_pages(1, "p1"), Alloc_pages(1, "p2"), Assert(212),
       Alloc_pages(1, "r"), Assert(214),
       Free_page("p0"), Assert(217),
       Alloc_pages(1, "p"), Assert(220), Alloc_pages(1, "r"), Assert(223),
       <<"restore">>,
       Free_page("p"), Free_page("p1"), Free_page("p2") >>

default_check ==
    << <<"walk", 1>>, Assert(243) >> \o basic_check \o
    << Alloc_pages(5, "p0"), Assert(249),
       <<"save_list">>, Alloc_pages(1, "r"), Assert(254), <<"save_nr">>,
       Free_pages("p0", 2, 3), Alloc_pages(4, "r"), Assert(261),
       Alloc_pages(3, "p1"), Alloc_pages(1, "r"), Assert(264),
       <<"point", "p2", "p0", 1>>,
       Free_page("p0"), Free_pages("p1", 0, 3), Assert(270),
       Alloc_pages(1, "p0"), Assert(272),
       Free_page("p0"), Alloc_pages(2, "p0"), Assert(274),
       Free_pages("p0", 0, 2), Free_page("p2"),
       Alloc_pages(5, "p0"), Assert(279), Alloc_pages(1, "r"), Assert(282),
       <<"restore">>,
       Free_pages("p0", 0, 5),
       <<"walk", -1>>, Assert(294) >>

Three == {loc.p0, loc.p1, loc.p2}
Heads(p, n) == p \in PG_property /\ property[p] = n

Holds(line) ==
    CASE line = 194 -> /\ NULL \notin Three /\ Cardinality(Three) = 3
                       /\ \A p \in Three : ref[p] = 0 /\ p < NPage
      [] line = 203 -> loc.r = NULL
      [] line = 208 -> nr_free = 3
      [] line = 212 -> NULL \notin Three
      [] line = 214 -> loc.r = NULL
      [] line = 217 -> ~ list_empty(links)
      [] line = 220 -> loc.p = loc.p0
      [] line = 223 -> loc.r = NULL /\ nr_free = 0
      [] line = 243 -> total = nr_free
      [] line = 249 -> loc.p0 # NULL /\ loc.p0 \notin PG_property
      [] line = 254 -> loc.r = NULL
      [] line = 261 -> loc.r = NULL /\ Heads(loc.p0 + 2, 3)
      [] line = 264 -> loc.p1 # NULL /\ loc.r = NULL /\ loc.p0 + 2 = loc.p1
      [] line = 270 -> Heads(loc.p0, 1) /\ Heads(loc.p1, 3)
      [] line = 272 -> loc.p0 = loc.p2 - 1
      [] line = 274 -> loc.p0 = loc.p2 + 1
      [] line = 279 -> loc.p0 # NULL
      [] line = 282 -> loc.r = NULL /\ nr_free = 0
      [] line = 294 -> count = 0 /\ total = 0

-----------------------------------------------------------------------------

CheckInit ==
    /\ Init
    /\ pc = 1 /\ called = FALSE
    /\ loc = [p0 |-> NULL, p1 |-> NULL, p2 |-> NULL, p |-> NULL, r |-> NULL, le |-> HEAD]
    /\ store = [next |-> HEAD, prev |-> HEAD, nr |-> 0]
    /\ count = 0 /\ total = 0 /\ calls = 0

Done == pc > Len(default_check)
Entry == default_check[pc]
At(kind) == ~ Done /\ op = "idle" /\ Entry[1] = kind

\* An assertion is a guard: if it failed, here or in default_free_pages, no step
\* would be left and the tests would not end.

\* A call through the front end: made, executed by Pmm's steps, and returned.
MakeCall ==
    /\ ~ called
    /\ \/ At("alloc") /\ AllocCall(Entry[2])
       \/ At("free") /\ FreeCall(loc[Entry[2]] + Entry[3], Entry[4])
    /\ called' = TRUE
    /\ UNCHANGED <<pc, loc, store, count, total, calls>>

RunCall ==
    /\ called
    /\ AllocStep \/ FreeStep
    /\ UNCHANGED checkvars

EndCall ==
    /\ called
    /\ \/ At("alloc") /\ loc' = [loc EXCEPT ![Entry[3]] = ret]
       \/ At("free") /\ UNCHANGED loc
    /\ called' = FALSE
    /\ pc' = pc + 1
    /\ UNCHANGED <<vars, store, count, total, calls>>

\* One iteration of the first and the last loop of default_check; only the first
\* asserts PageProperty(p).
CheckWalk ==
    /\ At("walk")
    /\ LET p == links.next[loc.le] IN
        \/ /\ p # HEAD
           /\ Entry[2] = 1 => p \in PG_property
           /\ loc' = [loc EXCEPT !.le = p]
           /\ count' = count + Entry[2] /\ total' = total + Entry[2] * property[p]
           /\ UNCHANGED <<vars, pc>>
        \/ /\ p = HEAD
           /\ loc' = [loc EXCEPT !.le = HEAD]
           /\ pc' = pc + 1
           /\ UNCHANGED <<vars, count, total>>
    /\ UNCHANGED <<called, store, calls>>

\* free_list_store = free_list, list_init(&free_list); then the same for nr_free.
SaveList ==
    /\ At("save_list")
    /\ store' = [store EXCEPT !.next = links.next[HEAD], !.prev = links.prev[HEAD]]
    /\ links' = [next |-> [links.next EXCEPT ![HEAD] = HEAD],
                 prev |-> [links.prev EXCEPT ![HEAD] = HEAD]]
    /\ pc' = pc + 1
    /\ UNCHANGED <<nr_free, PG_reserved, PG_property, property, ref, held, op, sz, base, le, ret,
                   called, loc, count, total, calls>>

SaveCount ==
    /\ At("save_nr")
    /\ store' = [store EXCEPT !.nr = nr_free]
    /\ nr_free' = 0
    /\ pc' = pc + 1
    /\ UNCHANGED <<links, PG_reserved, PG_property, property, ref, held, op, sz, base, le, ret,
                   called, loc, count, total, calls>>

\* Only the head is put back: that its neighbours still point to it is what the
\* tests rely on.
RestoredList == [next |-> [links.next EXCEPT ![HEAD] = store.next],
                 prev |-> [links.prev EXCEPT ![HEAD] = store.prev]]
StillEmpty == 0
RestoredCount == store.nr
Restore ==
    /\ At("restore")
    /\ links' = RestoredList
    /\ nr_free' = RestoredCount
    /\ pc' = pc + 1
    /\ UNCHANGED <<PG_reserved, PG_property, property, ref, held, op, sz, base, le, ret,
                   called, loc, store, count, total, calls>>

Point ==
    /\ At("point")
    /\ loc' = [loc EXCEPT ![Entry[2]] = loc[Entry[3]] + Entry[4]]
    /\ pc' = pc + 1
    /\ UNCHANGED <<vars, called, store, count, total, calls>>

CheckAssert ==
    /\ At("assert")
    /\ Holds(Entry[2])
    /\ pc' = pc + 1
    /\ UNCHANGED <<vars, called, loc, store, count, total, calls>>

SelfTest == MakeCall \/ RunCall \/ EndCall \/ CheckWalk \/ SaveList \/ SaveCount \/ Restore
                \/ Point \/ CheckAssert

\* The callers of Pmm, for a bounded number of calls.
Callers ==
    /\ Done /\ Next
    /\ calls' = IF op = "idle" /\ op' # "idle" THEN calls + 1 ELSE calls
    /\ calls' <= MaxCalls
    /\ UNCHANGED <<pc, called, loc, store, count, total>>

CheckNext == SelfTest \/ Callers

\* Interrupts are still off: nothing can stop the self-tests.
CheckSpec == CheckInit /\ [][CheckNext]_allvars /\ WF_allvars(SelfTest)

-----------------------------------------------------------------------------

\* What page_init left: one block of all managed pages, counted, linked both ways.
AsBooted ==
    /\ PG_property = {FirstFree} /\ property[FirstFree] = NPage - FirstFree
    /\ nr_free = NPage - FirstFree
    /\ links.next[HEAD] = FirstFree /\ links.prev[HEAD] = FirstFree
    /\ links.next[FirstFree] = HEAD /\ links.prev[FirstFree] = HEAD
    /\ held = {} /\ \A p \in Page : ref[p] = 0

\* The self-tests come to their end, past every assertion, and leave the allocator
\* as they found it, although they free into a list whose insertion is broken.
SelfTestsPass == <>(Done /\ AsBooted)

==============================================================================
