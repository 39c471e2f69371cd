------------------------------ MODULE MCGetPid -------------------------------
(* The instance of GetPid that TLC checks. *)
EXTENDS GetPid
==============================================================================
