--------------------------------- MODULE Slob ---------------------------------
(***************************************************************************)
(* kmalloc and kfree of kern/mm/kmalloc.c: the SLOB heap, a circular list  *)
(* of free chunks in address order that is entered at slobfree, and the    *)
(* list of big blocks that are whole pages.                                *)
(*                                                                         *)
(* An address is a unit number; PAGE_SIZE and SLOB_UNIT are in bytes, as   *)
(* are the sizes asked for.  Page p is the units from p * UPP on.  The     *)
(* static arena lies below all pages.  A call runs to its end before the   *)
(* next one starts (the locks only disable interrupts, and no interrupt    *)
(* handler allocates); its loops take one step an iteration.  The page     *)
(* allocator is what PmmProofs shows it to be: the lowest run that fits.   *)
(* slob_alloc's align is 0 in every call of this file and is left out.     *)
(***************************************************************************)
EXTENDS Integers, Sequences, FiniteSets

CONSTANTS
    PAGE_SIZE,
    SLOB_UNIT,      \* sizeof(slob_t)
    BIGBLOCK,       \* sizeof(bigblock_t)
    NPage,          \* the pages are 1 .. NPage
    Sizes,          \* the sizes callers ask for
    MaxLive         \* bound: the blocks callers hold at a time

ASSUME SlobAssumption ==
    /\ SLOB_UNIT \in Nat \ {0} /\ PAGE_SIZE \in Nat /\ PAGE_SIZE % SLOB_UNIT = 0
    /\ PAGE_SIZE > 2 * SLOB_UNIT
    /\ BIGBLOCK \in Nat /\ BIGBLOCK + SLOB_UNIT < PAGE_SIZE /\ BIGBLOCK > SLOB_UNIT
    /\ NPage \in Nat \ {0} /\ MaxLive \in Nat
    /\ Sizes \subseteq Nat \ {0}

UPP == PAGE_SIZE \div SLOB_UNIT
arena == 0
Unit == {arena} \union UPP .. (NPage + 1) * UPP - 1
Page == 1 .. NPage
Span(a, n) == a .. (a + n - 1)

VARIABLES
    units, next,    \* the headers
    slobfree,
    bigblocks,      \* <<[bb, order, pages]>>, the newest first
    freepages,      \* the pages the page allocator has
    live,           \* [addr, size] of what callers hold (not in the code)
    op,             \* "idle", the loop of "alloc" or "free", or "panic"
    size,           \* the argument of kmalloc
    want,           \* slob_alloc's units
    prev, cur,      \* the loop's
    b,              \* slob_free's
    then            \* what follows slob_free: "grow" the heap, or "return"

heap == <<units, next, slobfree>>
locals == <<size, want, prev, b, then>>
vars == <<units, next, slobfree, bigblocks, freepages, live, op, size, want, prev, cur,
          b, then>>

-----------------------------------------------------------------------------
(* Sizes.                                                                  *)
(* An operator that is defined and not used stands for a mistake in the     *)
(* code of the definition that follows it; PROJECT.json ("mutants") names   *)
(* the property that catches it.                                           *)

SLOB_UNITS(n) == (n + SLOB_UNIT - 1) \div SLOB_UNIT

IsSmall(n) == n < PAGE_SIZE - SLOB_UNIT

\* The loop halves the size, rounding down, until a page is enough.
HasOrder(n, k) ==
    /\ n \div 2^k <= PAGE_SIZE
    /\ \A j \in 0 .. k - 1 : n \div 2^j > PAGE_SIZE
find_order(n) == CHOOSE k \in 0 .. NPage : HasOrder(n, k)

\* Bound: no size asked for takes more than NPage halvings; an order above NPage is
\* more pages than there are.  (That a power of 2 is a number, provers have to be told.)
ASSUME OrderAssumption ==
    /\ \A k \in 0 .. NPage : 2^k \in Nat \ {0}
    /\ \A n \in Sizes : \E k \in 0 .. NPage : HasOrder(n, k)

IsLowestRun(p, n) ==
    /\ Span(p, n) \subseteq freepages
    /\ \A q \in freepages : Span(q, n) \subseteq freepages => p <= q

\* The units the caller of kmalloc(n) holds, with the header before them.
Need(n) == SLOB_UNITS(n + SLOB_UNIT)

Return ==
    /\ op' = "idle"
    /\ size' = 0 /\ want' = 0 /\ prev' = arena /\ cur' = arena /\ b' = arena /\ then' = "return"

-----------------------------------------------------------------------------

Init ==
    /\ units = [a \in Unit |-> IF a = arena THEN 1 ELSE 0]
    /\ next = [a \in Unit |-> arena]
    /\ slobfree = arena
    /\ bigblocks = <<>>
    /\ freepages = Page
    /\ live = {}
    /\ op = "idle" /\ size = 0 /\ want = 0 /\ prev = arena /\ cur = arena
    /\ b = arena /\ then = "return"

\* __kmalloc(n): slob_alloc for the block and its header, or for the descriptor of
\* a big block; slob_alloc begins with its assertion.
kmalloc(n) ==
    /\ op = "idle" /\ Cardinality(live) < MaxLive
    /\ LET bytes == IF IsSmall(n) THEN n + SLOB_UNIT ELSE BIGBLOCK IN
        \/ /\ bytes + SLOB_UNIT < PAGE_SIZE
           /\ op' = "alloc"
           /\ size' = n
           /\ want' = SLOB_UNITS(bytes)
           /\ prev' = slobfree
           /\ cur' = next[slobfree]
           /\ UNCHANGED <<b, then>>
        \/ /\ ~ (bytes + SLOB_UNIT < PAGE_SIZE)
           /\ op' = "panic"
           /\ size' = n
           /\ UNCHANGED <<want, prev, cur, b, then>>
    /\ UNCHANGED <<heap, bigblocks, freepages, live>>

MoreThanEnough(a) == units[a] > want
RoomEnough(a) == units[a] >= want

AllocNext ==
    /\ op = "alloc"
    /\ ~ RoomEnough(cur) /\ cur # slobfree
    /\ prev' = cur
    /\ cur' = next[cur]
    /\ UNCHANGED <<heap, bigblocks, freepages, live, op, size, want, b, then>>

\* Once around: a new page is freed into the heap and the search goes on.
AllocGrow ==
    /\ op = "alloc"
    /\ ~ RoomEnough(cur) /\ cur = slobfree
    /\ \E p \in Page :
        /\ IsLowestRun(p, 1)
        /\ freepages' = freepages \ {p}
        /\ b' = p * UPP
    /\ units' = [units EXCEPT ![b'] = SLOB_UNITS(PAGE_SIZE)]
    /\ then' = "grow"
    /\ op' = "free"
    /\ cur' = slobfree
    /\ UNCHANGED <<next, slobfree, bigblocks, live, size, want, prev>>

AllocFail ==
    /\ op = "alloc"
    /\ ~ RoomEnough(cur) /\ cur = slobfree
    /\ freepages = {}
    /\ Return
    /\ UNCHANGED <<heap, bigblocks, freepages, live>>

\* Exact fit: the chunk is unlinked.  Otherwise its tail stays on the list.  (A
\* header that is no longer read is 0, so that equal heaps are equal states.)
TailLost == units
UnitsLeft ==
    IF units[cur] = want THEN units
    ELSE [units EXCEPT ![cur] = want, ![cur + want] = units[cur] - want]
NextLeft ==
    IF units[cur] = want THEN [next EXCEPT ![prev] = next[cur], ![cur] = arena]
    ELSE [next EXCEPT ![prev] = cur + want, ![cur + want] = next[cur], ![cur] = arena]

\* The next search starts at the chunk before the one taken.
StaysWhereItWas == slobfree
StartNext == prev

\* The chunk is found, and it is the block.
AllocSmall ==
    /\ op = "alloc" /\ RoomEnough(cur) /\ IsSmall(size)
    /\ units' = UnitsLeft /\ next' = NextLeft
    /\ slobfree' = StartNext
    /\ live' = live \union {[addr |-> cur + 1, size |-> size]}
    /\ Return
    /\ UNCHANGED <<bigblocks, freepages>>

\* The chunk becomes the descriptor of a big block, which overwrites the header;
\* then the pages are allocated, or slob_free(bb, sizeof(bigblock_t)) is called.
AllocBig ==
    /\ op = "alloc" /\ RoomEnough(cur) /\ ~ IsSmall(size)
    /\ next' = NextLeft
    /\ slobfree' = StartNext
    /\ LET order == find_order(size) IN
        \/ \E p \in Page :
            /\ IsLowestRun(p, 2^order)
            /\ freepages' = freepages \ Span(p, 2^order)
            /\ bigblocks' = <<[bb |-> cur, order |-> order, pages |-> p]>> \o bigblocks
            /\ units' = [UnitsLeft EXCEPT ![cur] = 0]
            /\ live' = live \union {[addr |-> p * UPP, size |-> size]}
            /\ Return
        \/ /\ \A p \in Page : ~ IsLowestRun(p, 2^order)
           /\ units' = UnitsLeft
           /\ op' = "free"
           /\ b' = cur
           /\ cur' = slobfree'
           /\ then' = "return"
           /\ UNCHANGED <<bigblocks, freepages, live, size, want, prev>>

-----------------------------------------------------------------------------

\* slob_free's loop ends at the chunk cur that b belongs behind: between cur and
\* its next, or at the end of the list, where the addresses start again.
Between == b > cur /\ b < next[cur]
Placed == Between \/ (cur >= next[cur] /\ (b > cur \/ b < next[cur]))

FreeNext ==
    /\ op = "free" /\ ~ Placed
    /\ cur' = next[cur]
    /\ UNCHANGED <<heap, bigblocks, freepages, live, op, locals>>

\* b joined with the chunk behind it, and that with the chunk before it.
Touches(x, y) == x + units[x] = y

FreeLink ==
    /\ op = "free" /\ Placed
    /\ LET n == next[cur]
           bunits == IF Touches(b, n) THEN units[b] + units[n] ELSE units[b]
           bnext == IF Touches(b, n) THEN next[n] ELSE n
           gone == IF Touches(b, n) THEN {n} ELSE {}
           u1 == [x \in Unit |-> IF x \in gone THEN 0 ELSE units[x]]
           n1 == [x \in Unit |-> IF x \in gone THEN arena ELSE next[x]]
       IN IF Touches(cur, b)
          THEN /\ units' = [u1 EXCEPT ![cur] = @ + bunits, ![b] = 0]
               /\ next' = [n1 EXCEPT ![cur] = bnext, ![b] = arena]
          ELSE /\ units' = [u1 EXCEPT ![b] = bunits]
               /\ next' = [n1 EXCEPT ![cur] = b, ![b] = bnext]
    /\ slobfree' = cur
    /\ \/ /\ then = "grow"
          /\ op' = "alloc"
          /\ prev' = cur
          /\ cur' = next'[cur]
          /\ b' = arena /\ then' = "return"
          /\ UNCHANGED <<size, want>>
       \/ /\ then = "return"
          /\ Return
    /\ UNCHANGED <<bigblocks, freepages, live>>

\* A block that starts on a page boundary may be a big one.
PageAligned(a) == a % UPP = 0
BigAt(a) == {i \in 1 .. Len(bigblocks) : bigblocks[i].pages * UPP = a}

IsBig(a) == PageAligned(a) /\ BigAt(a) # {}

kfree(blk) ==
    /\ op = "idle"
    /\ live' = live \ {blk}
    /\ \/ /\ IsBig(blk.addr)
          /\ \E i \in BigAt(blk.addr) :
              /\ bigblocks' = SubSeq(bigblocks, 1, i - 1) \o SubSeq(bigblocks, i + 1, Len(bigblocks))
              /\ freepages' = freepages \union Span(bigblocks[i].pages, 2^(bigblocks[i].order))
              /\ units' = [units EXCEPT ![bigblocks[i].bb] = SLOB_UNITS(BIGBLOCK)]
              /\ b' = bigblocks[i].bb
       \/ /\ ~ IsBig(blk.addr)
          /\ b' = blk.addr - 1
          /\ UNCHANGED <<bigblocks, freepages, units>>
    /\ op' = "free"
    /\ cur' = slobfree
    /\ then' = "return"
    /\ UNCHANGED <<next, slobfree, size, want, prev>>

\* The bytes of a block, the header of a small one included.
ksize(a) ==
    IF IsBig(a) THEN PAGE_SIZE * 2^(bigblocks[CHOOSE i \in BigAt(a) : TRUE].order)
    ELSE units[a - 1] * SLOB_UNIT

Loop == AllocNext \/ AllocGrow \/ AllocFail \/ AllocSmall \/ AllocBig \/ FreeNext \/ FreeLink

\* The kernel monitor, for ever.
Panicked == op = "panic" /\ UNCHANGED vars

Next ==
    \/ \E n \in Sizes : kmalloc(n)
    \/ Loop
    \/ \E blk \in live : kfree(blk)
    \/ Panicked

Spec == Init /\ [][Next]_vars

\* Nothing waits inside a call.
FairSpec == Spec /\ WF_vars(Loop)

-----------------------------------------------------------------------------

\* Headers, pointers and sizes stay in range: slob_alloc never takes more from a
\* chunk than it has.
TypeOK ==
    /\ units \in [Unit -> 0 .. (NPage + 1) * UPP] /\ next \in [Unit -> Unit]
    /\ slobfree \in Unit
    /\ bigblocks \in Seq([bb : Unit, order : 0 .. NPage, pages : Page])
    /\ freepages \subseteq Page
    /\ live \subseteq [addr : Unit, size : Sizes]
    /\ op \in {"idle", "alloc", "free", "panic"}
    /\ size \in Sizes \union {0} /\ want \in 0 .. UPP
    /\ prev \in Unit /\ cur \in Unit /\ b \in Unit
    /\ then \in {"grow", "return"}

\* The list: the arena, and what a next refers to.  (A unit that is not on the list has
\* no next, which is written as arena.)
Chunks == {arena} \union {next[x] : x \in Unit}

\* The list is one cycle in address order through the arena and every other chunk,
\* slobfree and the loop's cur are on it, and prev is the chunk before cur, wherever earlier calls
\* left slobfree; two chunks on it never touch, since every free joins on both sides.
FreeListSorted ==
    /\ TypeOK
    /\ \A x, y \in Chunks : x + units[x] # y
    /\ \A x \in Chunks : \/ next[x] = arena /\ \A y \in Chunks : y <= x
                         \/ x < next[x] /\ \A y \in Chunks : y <= x \/ next[x] <= y
    /\ slobfree \in Chunks /\ cur \in Chunks
    /\ op = "alloc" => prev \in Chunks /\ next[prev] = cur

\* Every unit of every page of the heap belongs to exactly one owner: a free chunk,
\* a block with its header, the descriptor of a big block, or the block being freed.
\* The header of a block says what kmalloc put there until kfree reads it, and behind
\* the header, which ksize counts, there is room for what was asked.
Owners ==
    {<<"chunk", x, units[x]>> : x \in Chunks}
        \union {<<"block", x.addr - 1, Need(x.size)>> : x \in {y \in live : ~ IsBig(y.addr)}}
        \union {<<"desc", bigblocks[i].bb, SLOB_UNITS(BIGBLOCK)>> : i \in 1 .. Len(bigblocks)}
        \union (IF op = "free" THEN {<<"freed", b, units[b]>>} ELSE {})
BigPages == UNION {Span(bigblocks[i].pages, 2^(bigblocks[i].order)) : i \in 1 .. Len(bigblocks)}
HeapUnits == {arena} \union {a \in Unit : a \div UPP \in Page \ (freepages \union BigPages)}

UnitsConserved ==
    /\ \A o, p \in Owners : o # p => Span(o[2], o[3]) \intersect Span(p[2], p[3]) = {}
    /\ UNION {Span(o[2], o[3]) : o \in Owners} = HeapUnits
    /\ BigPages \intersect freepages = {}
    /\ \A x \in live : ~ IsBig(x.addr) =>
            units[x.addr - 1] = Need(x.size) /\ ksize(x.addr) - SLOB_UNIT >= x.size

\* kmalloc of a small block fails only if no free chunk has room, wherever the
\* search started, and no page is left.
FailsOnlyIfFull ==
    [][op = "alloc" /\ op' = "idle" /\ live' = live =>
           freepages = {} /\ \A x \in Chunks : units[x] < want]_vars

\* kmalloc and kfree return.
EveryCallReturns == op # "idle" ~> op \in {"idle", "panic"}

\* slob_alloc's assertion (kmalloc.c:99) holds for every request.
AssertionHolds == op # "panic"

\* A big block, which stands for an "object of PAGE_SIZE or larger" (kmalloc.c:26),
\* has room for the object it was asked for.
BigBlocksLargeEnough ==
    \A x \in live : IsBig(x.addr) => ksize(x.addr) >= x.size

==============================================================================
