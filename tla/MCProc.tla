------------------------------- MODULE MCProc --------------------------------
(* The instance of Proc that TLC checks. *)
EXTENDS Proc

\* Two buckets, so that pids collide in one.
MCBucket == {0, 1}
MCHash(p) == p % 2
==============================================================================
