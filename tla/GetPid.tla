------------------------------- MODULE GetPid --------------------------------
(***************************************************************************)
(* get_pid of kern/process/proc.c: a pid for a new process, found by       *)
(* walking proc_list only when the window of pids known to be free,        *)
(* last_pid + 1 .. next_safe - 1, is used up.                              *)
(*                                                                         *)
(* proc_list is the sequence of the pids on it, newest first (do_fork adds *)
(* at the head).  Nothing in this kernel takes a process off the list yet  *)
(* (do_exit panics): Reap stands for the reclaiming that the comment of    *)
(* do_exit describes, because get_pid is written for a list with holes and *)
(* is correct only if it copes with them.                                  *)
(***************************************************************************)
EXTENDS Pids, Sequences

VARIABLES
    proc_list,      \* the pids on the list
    last_pid,
    next_safe,
    pc,             \* "idle" outside get_pid, "scan" in its loop, "return"
    le,             \* the entry of proc_list the loop is at
    start           \* the pid the call looked at first (not in the code)

pidvars == <<last_pid, next_safe, le, start>>
vars == <<proc_list, last_pid, next_safe, pc, le, start>>

Listed == {proc_list[i] : i \in 1 .. Len(proc_list)}

-----------------------------------------------------------------------------
(* An operator that is defined and not used stands for a mistake in the     *)
(* code of the definition that follows it; PROJECT.json ("mutants") names   *)
(* the property that catches it.                                           *)

Init ==
    /\ proc_list = <<>>
    /\ last_pid = MAX_PID
    /\ next_safe = MAX_PID
    /\ pc = "idle"
    /\ le = 0
    /\ start = 1

Wrap(p) == IF p >= MAX_PID THEN 1 ELSE p

\* ++last_pid and the two tests; do_fork has checked nr_process < MAX_PROCESS,
\* which counts idleproc too.
WindowOpenLate(p) == p < next_safe + 1
WindowOpen(p) == p < next_safe

Call ==
    /\ pc = "idle"
    /\ Len(proc_list) + 1 < MAX_PROCESS
    /\ LET p == last_pid + 1 IN
        \/ /\ p < MAX_PID /\ WindowOpen(p)
           /\ last_pid' = p /\ start' = p
           /\ pc' = "return"
           /\ UNCHANGED <<next_safe, le>>
        \/ /\ ~ (p < MAX_PID /\ WindowOpen(p))
           /\ last_pid' = Wrap(p)
           /\ start' = last_pid'
           /\ next_safe' = MAX_PID
           /\ le' = 1
           /\ pc' = "scan"
    /\ UNCHANGED proc_list

ScanTakenNoRestart ==
    /\ pc = "scan" /\ le <= Len(proc_list)
    /\ proc_list[le] = last_pid
    /\ last_pid' = Wrap(last_pid + 1)
    /\ le' = le + 1
    /\ UNCHANGED <<proc_list, next_safe, pc, start>>

ScanTakenSamePid ==
    /\ pc = "scan" /\ le <= Len(proc_list)
    /\ proc_list[le] = last_pid
    /\ next_safe' = MAX_PID
    /\ le' = 1
    /\ UNCHANGED <<proc_list, last_pid, pc, start>>

\* The listed process has this very pid: try the next one, in the same walk as
\* long as it is below every larger pid seen so far, else in a new walk.
ScanTaken ==
    /\ pc = "scan" /\ le <= Len(proc_list)
    /\ proc_list[le] = last_pid
    /\ LET p == last_pid + 1 IN
        \/ /\ p < next_safe
           /\ last_pid' = p
           /\ le' = le + 1
           /\ UNCHANGED next_safe
        \/ /\ p >= next_safe
           /\ last_pid' = Wrap(p)
           /\ next_safe' = MAX_PID
           /\ le' = 1
    /\ UNCHANGED <<proc_list, pc, start>>

ScanOtherKeep ==
    /\ pc = "scan" /\ le <= Len(proc_list)
    /\ proc_list[le] # last_pid
    /\ le' = le + 1
    /\ UNCHANGED <<proc_list, last_pid, next_safe, pc, start>>

\* The listed process has another pid: it may lower next_safe.
ScanOther ==
    /\ pc = "scan" /\ le <= Len(proc_list)
    /\ LET q == proc_list[le] IN
        /\ q # last_pid
        /\ next_safe' = IF q > last_pid /\ next_safe > q THEN q ELSE next_safe
    /\ le' = le + 1
    /\ UNCHANGED <<proc_list, last_pid, pc, start>>

ScanEnd ==
    /\ pc = "scan" /\ le > Len(proc_list)
    /\ pc' = "return"
    /\ UNCHANGED <<proc_list, pidvars>>

\* do_fork: proc->pid = get_pid(); list_add(&proc_list, &(proc->list_link)).
Add ==
    /\ pc = "return"
    /\ proc_list' = <<last_pid>> \o proc_list
    /\ pc' = "idle"
    /\ UNCHANGED pidvars

\* External: a process is taken off the list.
Reap(i) ==
    /\ pc = "idle"
    /\ proc_list' = SubSeq(proc_list, 1, i - 1) \o SubSeq(proc_list, i + 1, Len(proc_list))
    /\ UNCHANGED <<pc, pidvars>>

Scan == ScanTaken \/ ScanOther \/ ScanEnd

Next ==
    \/ Call
    \/ Scan
    \/ Add
    \/ \E i \in 1 .. Len(proc_list) : Reap(i)

Spec == Init /\ [][Next]_vars

\* Nothing waits in get_pid: its loop runs until it is done.
FairSpec == Spec /\ WF_vars(Scan \/ Add)

-----------------------------------------------------------------------------

TypeOK ==
    /\ proc_list \in Seq(Pid)
    /\ last_pid \in 1 .. MAX_PID
    /\ next_safe \in 1 .. MAX_PID
    /\ pc \in {"idle", "scan", "return"}
    /\ le \in Nat
    /\ start \in Pid

\* No two processes on the list have the same pid ("alloc a unique pid for
\* process", proc.c:127).
PidsUnique == \A i, j \in 1 .. Len(proc_list) : i # j => proc_list[i] # proc_list[j]

\* The cached window is really free when the next call relies on it, however many
\* processes came and went since the walk that computed it.
WindowFree ==
    pc # "scan" => \A q \in Listed : q <= last_pid \/ next_safe <= q

\* What the loop knows: every pid it skipped is taken, and, of the entries it has
\* walked past, none has last_pid and none lies between last_pid and next_safe.
WalkKnows ==
    pc = "scan" =>
        /\ last_pid \in Pid /\ last_pid < next_safe
        /\ next_safe \in Listed \union {MAX_PID}
        /\ \A q \in Pid : Before(q, last_pid, start) => q \in Listed
        /\ le \in 1 .. Len(proc_list) + 1
        /\ \A i \in 1 .. le - 1 : proc_list[i] < last_pid \/ next_safe <= proc_list[i]

\* get_pid returns the first free pid from where it started, and it is not taken.
ReturnsFirstFree ==
    pc = "return" => IsFirstFree(last_pid, start, Listed)

\* After a walk, next_safe is exactly the next pid taken, so the window is the
\* largest one there is.
WindowMaximal ==
    (pc = "scan" /\ le > Len(proc_list)) => IsNextTaken(next_safe, last_pid, Listed)

\* What get_pid's two statics mean, between its calls and at every point of its loop.
LoopInv == TypeOK /\ WindowFree /\ WalkKnows /\ WindowMaximal

\* get_pid returns: there is a free pid, and the loop's restarts reach it.
Returns == pc = "scan" ~> pc = "return"

==============================================================================
