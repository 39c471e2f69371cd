------------------------------- MODULE MCSlob --------------------------------
(* The instances of Slob that TLC checks. *)
EXTENDS Slob
==============================================================================
