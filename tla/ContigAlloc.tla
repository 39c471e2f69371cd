----------------------------- MODULE ContigAlloc -----------------------------
(***************************************************************************)
(* What the physical page allocator promises its callers, with no list,    *)
(* flag or block: a set of free page numbers, from which a request takes   *)
(* the lowest run of n consecutive pages, and is refused only when there   *)
(* is no such run.  Pmm is shown to implement this specification.          *)
(***************************************************************************)
EXTENDS Integers

CONSTANTS
    Managed,        \* the pages the allocator manages
    MaxRequest,     \* the largest request
    NULL            \* what a refused request returns

VARIABLES
    free,           \* the pages nobody owns
    req,            \* the size of the request being served, 0 when there is none
    ret             \* what the last request returned

absvars == <<free, req, ret>>

Run(p, n) == p .. (p + n - 1)

\* p is the lowest page at which n consecutive pages of S start.
LowestRun(S, p, n) ==
    /\ Run(p, n) \subseteq S
    /\ \A q \in S : Run(q, n) \subseteq S => p <= q

Init ==
    /\ free = Managed
    /\ req = 0
    /\ ret = NULL

Request(n) ==
    /\ req = 0
    /\ req' = n
    /\ UNCHANGED <<free, ret>>

Grant(p) ==
    /\ req > 0
    /\ LowestRun(free, p, req)
    /\ free' = free \ Run(p, req)
    /\ ret' = p
    /\ req' = 0

Refuse ==
    /\ req > 0
    /\ \A p \in free : ~ (Run(p, req) \subseteq free)
    /\ ret' = NULL
    /\ req' = 0
    /\ UNCHANGED free

Release(p, q) ==
    /\ req = 0
    /\ p <= q
    /\ p .. q \subseteq Managed \ free
    /\ free' = free \union (p .. q)
    /\ UNCHANGED <<req, ret>>

Next ==
    \/ \E n \in 1 .. MaxRequest : Request(n)
    \/ \E p \in Managed : Grant(p)
    \/ Refuse
    \/ \E p, q \in Managed : Release(p, q)

Safe == Init /\ [][Next]_absvars

==============================================================================
