-------------------------------- MODULE MCPmm --------------------------------
(***************************************************************************)
(* The instance of Pmm that TLC checks.                                    *)
(***************************************************************************)
EXTENDS Pmm

\* The state without the data no step reads: the links of the nodes that are not
\* on the list and the property of the pages that head no free block.  A step
\* reads them only after it has written them, as long as ListSorted holds.
LiveLinks == [x \in OnList |-> <<links.next[x], links.prev[x]>>]
LiveProperty == [x \in PG_property |-> property[x]]
LiveView == <<LiveLinks, LiveProperty, nr_free, PG_reserved, PG_property, ref, held,
              op, sz, base, le, ret>>
==============================================================================
