----------------------------- MODULE MCPageTable ------------------------------
(* The instance of PageTable that TLC checks. *)
EXTENDS PageTableCheck, TLC

\* Two addresses in one table, one in another table of the same level-1 table, and
\* one under another entry of the root.
Addresses == {<<0, 0, 0>>, <<0, 0, 1>>, <<0, 1, 0>>, <<1, 0, 0>>}

\* No page is special.
Symmetry == Permutations(Page)
==============================================================================
