--------------------------------- MODULE Pids ---------------------------------
(***************************************************************************)
(* The pids of kern/process/proc.h and what get_pid has to find among the  *)
(* ones that are not taken.                                                *)
(***************************************************************************)
EXTENDS Integers

CONSTANTS
    MAX_PID,        \* pids are 1 .. MAX_PID - 1 (0 is idleproc)
    MAX_PROCESS     \* processes, idleproc included

\* static_assert(MAX_PID > MAX_PROCESS), and room for a process besides idleproc.
ASSUME GetPidAssumption ==
    /\ MAX_PID \in Nat /\ MAX_PROCESS \in Nat
    /\ MAX_PROCESS > 1 /\ MAX_PID > MAX_PROCESS

Pid == 1 .. MAX_PID - 1

-----------------------------------------------------------------------------
(* What a walk of the whole list should find: the first pid that is not    *)
(* taken, from p upwards and around from MAX_PID - 1 to 1, and the next    *)
(* pid above it that is.                                                   *)

\* q comes before r when counting from p upwards and around.
Before(q, r, p) ==
    \/ p <= q /\ q < r
    \/ r < p /\ (q < r \/ p <= q)

IsFirstFree(r, p, S) == r \in Pid \ S /\ \A q \in Pid : Before(q, r, p) => q \in S
IsNextTaken(n, r, S) == /\ r < n /\ n \in S \union {MAX_PID}
                        /\ \A q \in S : q <= r \/ n <= q

==============================================================================
