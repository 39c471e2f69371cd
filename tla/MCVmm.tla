-------------------------------- MODULE MCVmm ---------------------------------
(* The instance of Vmm that TLC checks. *)
EXTENDS Vmm, TLC

\* No vma_struct is special.
Symmetry == Permutations(Vma)
==============================================================================
