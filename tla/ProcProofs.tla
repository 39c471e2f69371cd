------------------------------ MODULE ProcProofs ------------------------------
(***************************************************************************)
(* Proofs about Proc, for every set of thread functions, every number of   *)
(* processes and pids, and every hash function.                            *)
(*                                                                         *)
(* The inductive invariant says what is on every stack.  The process on    *)
(* the CPU executes code at a label, or will when the trap it is in        *)
(* returns; the label says which frames are on its stack, whether          *)
(* interrupts are enabled and how far a do_fork has come.  Every other     *)
(* thread waits at one of the two labels that switch_to returns to.        *)
(***************************************************************************)
EXTENDS Proc, FiniteSetTheorems, SequenceTheorems, WellFoundedInduction, TLAPS

ForkMid == {"setup_kstack", "copy_thread", "get_pid"}
ForkLabel == ForkMid \union {"do_fork"}
ThreadLabel == {"kernel_thread_entry", "body", "ebreak", "fault"}
SchedLabel == {"schedule", "pick", "schedule_ret"}
SwitchLabel == {"proc_run", "switch_to", "proc_run_ret"}
TrapLabel == {"__alltraps", "trap", "__trapret", "restore", "sret"}
CallLabel ==
    ForkLabel \union ThreadLabel \union SchedLabel \union SwitchLabel
        \union {"forkret", "cpu_idle", "proc_init_ret"}

\* The code that process c executes: idleproc boots and idles, the others run threads.
Own(c, r) ==
    /\ r \in CallLabel
    /\ c = idleproc => r \notin ThreadLabel \union {"forkret"}
    /\ c # idleproc => r \notin {"cpu_idle", "proc_init_ret"}
Interruptible(c, r) ==
    r \in ThreadLabel \union {"cpu_idle", "schedule"} \/ (r \in ForkLabel /\ c # idleproc)

\* The frames below, and how many they are.
Home(c) == IF c = idleproc THEN "cpu_idle" ELSE "body"
ForkHome(c) == IF c = idleproc THEN "proc_init_ret" ELSE "body"
Birth(c) == TrapFrame("kernel_thread_entry", "none", job[c], thread_status, 1)
Base(c) == IF c = idleproc THEN 0 ELSE 1
Level(r) ==
    IF r \in SwitchLabel THEN 2
    ELSE IF r \in SchedLabel \union ForkLabel THEN 1 ELSE 0
Height(c, r) == Base(c) + Level(r)

Born(c, fs) == Len(fs) >= Base(c) /\ (c # idleproc => fs[1] = Birth(c))
SchedAt(c, r) == SchedFrame(Home(c), r # "schedule")
RunTo(c, n) == RunFrame(c, n, FALSE)
ForkAt(c, fn, p) == ForkFrame(ForkHome(c), fn, p)

\* The frame of schedule, of proc_run and of do_fork, where they execute.
InSched(c, r, fs) ==
    r \in SchedLabel \union SwitchLabel => Len(fs) >= Base(c) + 1 /\ fs[Base(c) + 1] = SchedAt(c, r)
InRun(c, r, fs) ==
    r \in SwitchLabel =>
       /\ Len(fs) >= Base(c) + 2
       /\ \E n \in Threads : /\ fs[Base(c) + 2] = RunTo(c, n)
                             /\ r = "switch_to" => n = current
                             /\ r # "proc_run_ret" => n # c
InFork(c, r, fs) ==
    r \in ForkLabel =>
       /\ Len(fs) >= Base(c) + 1
       /\ \E fn \in Fn, p \in Proc \union {NONE} : fs[Base(c) + 1] = ForkAt(c, fn, p)
Calls(c, r, fs) == Born(c, fs) /\ InSched(c, r, fs) /\ InRun(c, r, fs) /\ InFork(c, r, fs)

\* What do_fork has allocated, and filled in, at r.
Stacks == {kstack[p] : p \in Threads}
Allocated(r, f) ==
    IF r \in ForkMid
    THEN /\ f.proc \in Proc \ Threads /\ kmem = Threads \union {f.proc}
         /\ nr_process < MAX_PROCESS
         /\ r = "setup_kstack" => kpages = Stacks
         /\ r # "setup_kstack" => /\ kstack[f.proc] \in Stack \ Stacks
                                  /\ kpages = Stacks \union {kstack[f.proc]}
         /\ r = "get_pid" =>
              /\ frames[kstack[f.proc]]
                    = <<TrapFrame("kernel_thread_entry", "none", f.fn, thread_status, 1)>>
              /\ context[f.proc].ra = "forkret" /\ context[f.proc].sp = kstack[f.proc]
    ELSE kmem = Threads /\ kpages = Stacks

\* Where the CPU is: at r, halted, or in a trap that returns to r.
Target == IF from.cause = "breakpoint" THEN "body" ELSE from.at
Traps(r, cause) ==
    cause \in {"timer", "breakpoint", "fault"} /\ (cause = "breakpoint" => r = "ebreak")
At(c, r) ==
    /\ pc = r
    /\ Depth = Height(c, r)
    /\ r # "forkret" => s0 = job[c]
    /\ sstatus.sie = Interruptible(c, r)
InTrap(c, r) ==
    /\ pc \in TrapLabel /\ Interruptible(c, r) /\ ~ sstatus.sie
    /\ pc = "__alltraps" => /\ Depth = Height(c, r) /\ s0 = job[c] /\ sstatus.spie
                            /\ sepc = r /\ from.at = r /\ from.cause = scause /\ Traps(r, scause)
    /\ pc = "trap" => /\ Depth = Height(c, r) + 1
                      /\ Top = TrapFrame(r, from.cause, job[c], thread_status, Height(c, r))
                      /\ from.at = r /\ Traps(r, from.cause)
    /\ pc \in {"__trapret", "restore"} =>
         /\ Top.kind = "trap" /\ Top.epc = r /\ r = Target
         /\ Top.s0 = job[c] /\ Top.status = thread_status /\ Top.depth = Height(c, r)
    /\ pc = "restore" => sstatus.spie
    /\ pc = "sret" => /\ Depth = Height(c, r) /\ s0 = job[c] /\ sstatus.spie
                      /\ sepc = r /\ r = Target

Running(c, r) ==
    /\ c \in Threads /\ sp = kstack[c] /\ Own(c, r)
    /\ r # "switch_to" => c = current
    /\ Calls(c, r, frames[sp])
    /\ Allocated(r, frames[sp][Base(c) + 1])
    /\ \/ At(c, r)
       \/ pc = "halt" /\ ~ sstatus.sie
       \/ InTrap(c, r)

\* A thread that waits for the CPU.
Waits(p) ==
    LET r == context[p].ra
        fs == frames[kstack[p]]
    IN /\ r \in {"forkret", "proc_run_ret"} /\ Own(p, r)
       /\ context[p].sp = kstack[p]
       /\ r = "proc_run_ret" => context[p].s0 = job[p]
       /\ Calls(p, r, fs) /\ Len(fs) = Height(p, r)

OthersWait(c) == \A p \in Threads : p # c => Waits(p)

\* The lists and the hash table.
TablesInv ==
    /\ idleproc \notin Listed
    /\ \A p \in Listed : pid[p] \in Pid
    /\ \A p, q \in Listed : pid[p] = pid[q] => p = q
    /\ \A h \in Bucket : \A i \in 1 .. Len(hash_list[h]) : hash_list[h][i] \in Listed
    /\ \A p \in Listed : LET l == hash_list[pid_hashfn(pid[p])]
                         IN \E i \in 1 .. Len(l) : l[i] = p
    /\ nr_process = Len(proc_list) + 1

StacksInv ==
    /\ current \in Threads
    /\ \A p \in Threads : kstack[p] \in Stack
    /\ \A p, q \in Threads : kstack[p] = kstack[q] => p = q

RunInv ==
    \E c \in Threads, r \in CallLabel :
        Running(c, r) /\ OthersWait(c)

\* Before proc_init has made idleproc.
BootInv ==
    /\ pc \in {"proc_init", "halt"} /\ ~ sstatus.sie
    /\ pc = "proc_init" =>
         /\ sp = bootstack /\ frames[bootstack] = <<>> /\ kpages = {bootstack} /\ kmem = {}
         /\ s0 = job[idleproc] /\ proc_list = <<>> /\ nr_process = 0
         /\ \A h \in Bucket : hash_list[h] = <<>>

\* The inductive invariant.
IInv ==
    /\ TypeOK
    /\ IF Booted THEN TablesInv /\ StacksInv /\ RunInv ELSE BootInv

-----------------------------------------------------------------------------
(* Frames *)

LEMMA FrameTypes ==
    /\ \A e \in Label, c \in Cause, g \in Reg, s \in Status, d \in Nat : TrapFrame(e, c, g, s, d) \in Frame
    /\ \A l \in Label, f \in BOOLEAN : SchedFrame(l, f) \in Frame
    /\ \A p, n \in Proc, f \in BOOLEAN : RunFrame(p, n, f) \in Frame
    /\ \A l \in Label, fn \in Fn, p \in Proc \union {NONE} : ForkFrame(l, fn, p) \in Frame
BY DEF Frame, TrapFrame, SchedFrame, RunFrame, ForkFrame

\* The first n of a sequence are the same.
SameUpTo(n, s, t) == \A i \in 1 .. n : s[i] = t[i]

LEMMA Appended ==
    ASSUME NEW S, NEW s \in Seq(S), NEW e \in S
    PROVE  /\ Append(s, e) \in Seq(S) /\ Len(Append(s, e)) = Len(s) + 1
           /\ Append(s, e)[Len(s) + 1] = e /\ SameUpTo(Len(s), Append(s, e), s)
BY AppendProperties DEF SameUpTo

LEMMA Shortened ==
    ASSUME NEW S, NEW s \in Seq(S), NEW n \in 0 .. Len(s)
    PROVE  /\ SubSeq(s, 1, n) \in Seq(S) /\ Len(SubSeq(s, 1, n)) = n
           /\ SameUpTo(n, SubSeq(s, 1, n), s)
BY SubSeqProperties DEF SameUpTo

\* Only the stack of the CPU changes.
OthersKeep == \A k \in Stack \ {sp} : frames'[k] = frames[k]

LEMMA PushFacts ==
    ASSUME TypeOK, NEW f \in Frame, Push(f)
    PROVE  /\ frames' \in [Stack -> Seq(Frame)] /\ OthersKeep
           /\ Len(frames'[sp]) = Depth + 1 /\ frames'[sp][Depth + 1] = f
           /\ SameUpTo(Depth, frames'[sp], frames[sp])
<1>1. frames \in [Stack -> Seq(Frame)] /\ sp \in Stack /\ frames[sp] \in Seq(Frame)
  BY DEF TypeOK
<1>2. frames' = [frames EXCEPT ![sp] = Append(frames[sp], f)]
  BY DEF Push
<1> DEFINE g == Append(frames[sp], f)
<1>3. /\ g \in Seq(Frame) /\ Len(g) = Len(frames[sp]) + 1
      /\ g[Len(frames[sp]) + 1] = f /\ SameUpTo(Len(frames[sp]), g, frames[sp])
  BY <1>1, Appended
<1> HIDE DEF g
<1>4. frames' \in [Stack -> Seq(Frame)] /\ frames'[sp] = g /\ OthersKeep
  BY <1>1, <1>2, <1>3 DEF g, OthersKeep
<1> QED
  BY <1>3, <1>4 DEF Depth

LEMMA CutFacts ==
    ASSUME TypeOK, NEW n \in 0 .. Depth, frames' = [frames EXCEPT ![sp] = SubSeq(@, 1, n)]
    PROVE  /\ frames' \in [Stack -> Seq(Frame)] /\ OthersKeep
           /\ Len(frames'[sp]) = n
           /\ SameUpTo(n, frames'[sp], frames[sp])
<1>1. frames \in [Stack -> Seq(Frame)] /\ sp \in Stack /\ frames[sp] \in Seq(Frame)
  BY DEF TypeOK
<1> DEFINE g == SubSeq(frames[sp], 1, n)
<1>2. frames' = [frames EXCEPT ![sp] = g]
  OBVIOUS
<1>3. g \in Seq(Frame) /\ Len(g) = n /\ SameUpTo(n, g, frames[sp])
  BY <1>1, Shortened DEF Depth
<1> HIDE DEF g
<1>4. frames' \in [Stack -> Seq(Frame)] /\ frames'[sp] = g /\ OthersKeep
  BY <1>1, <1>2, <1>3 DEF OthersKeep
<1> QED
  BY <1>3, <1>4

LEMMA PopFacts ==
    ASSUME TypeOK, Pop, Depth >= 1
    PROVE  /\ frames' \in [Stack -> Seq(Frame)] /\ OthersKeep
           /\ Len(frames'[sp]) = Depth - 1
           /\ SameUpTo(Depth - 1, frames'[sp], frames[sp])
<1>1. Depth \in Nat /\ Depth - 1 \in 0 .. Depth
  BY DEF TypeOK, Depth
<1>2. frames' = [frames EXCEPT ![sp] = SubSeq(@, 1, Depth - 1)]
  BY DEF Pop, Depth
<1> HIDE DEF Pop
<1> QED
  BY <1>1, <1>2, CutFacts

LEMMA ReplaceFacts ==
    ASSUME TypeOK, NEW f \in Frame, Replace(f), Depth >= 1
    PROVE  /\ frames' \in [Stack -> Seq(Frame)] /\ OthersKeep
           /\ Len(frames'[sp]) = Depth /\ frames'[sp][Depth] = f
           /\ SameUpTo(Depth - 1, frames'[sp], frames[sp])
<1>1. frames \in [Stack -> Seq(Frame)] /\ sp \in Stack /\ frames[sp] \in Seq(Frame) /\ Depth \in Nat
  BY DEF TypeOK, Depth
<1> DEFINE h == SubSeq(frames[sp], 1, Depth - 1)
           g == Append(h, f)
<1>2. frames' = [frames EXCEPT ![sp] = g]
  BY DEF Replace, Depth
<1>3. h \in Seq(Frame) /\ Len(h) = Depth - 1 /\ SameUpTo(Depth - 1, h, frames[sp])
  <2>1. Depth - 1 \in 0 .. Len(frames[sp])
    BY <1>1 DEF Depth
  <2> HIDE DEF h
  <2> QED
    BY <1>1, <2>1, Shortened DEF h
<1> HIDE DEF h
<1>4. g \in Seq(Frame) /\ Len(g) = Len(h) + 1 /\ g[Len(h) + 1] = f /\ SameUpTo(Len(h), g, h)
  BY <1>3, Appended
<1> HIDE DEF g
<1>5. Len(g) = Depth /\ g[Depth] = f /\ SameUpTo(Depth - 1, g, frames[sp])
  BY <1>1, <1>3, <1>4 DEF SameUpTo
<1>6. frames' \in [Stack -> Seq(Frame)] /\ frames'[sp] = g /\ OthersKeep
  BY <1>1, <1>2, <1>4 DEF OthersKeep
<1> QED
  BY <1>5, <1>6

-----------------------------------------------------------------------------
(* Where the CPU is *)

\* Code at a label is executed by its process, and the others wait.
LEMMA Executing ==
    ASSUME IInv, Booted, pc \in CallLabel
    PROVE  \E c \in Threads : Running(c, pc) /\ At(c, pc) /\ OthersWait(c)
<1>1. PICK c \in Threads, r \in CallLabel : Running(c, r) /\ OthersWait(c)
  BY DEF IInv, RunInv
<1>2. pc # "halt" /\ pc \notin TrapLabel
  BY DEF CallLabel, ForkLabel, ForkMid, ThreadLabel, SchedLabel, SwitchLabel, TrapLabel
<1>3. At(c, r)
  BY <1>1, <1>2 DEF Running, InTrap
<1>4. pc = r
  BY <1>3 DEF At
<1> QED
  BY <1>1, <1>3, <1>4

LEMMA Trapping ==
    ASSUME IInv, Booted, pc \in TrapLabel
    PROVE  \E c \in Threads, r \in CallLabel :
             Running(c, r) /\ InTrap(c, r) /\ OthersWait(c)
<1>1. PICK c \in Threads, r \in CallLabel : Running(c, r) /\ OthersWait(c)
  BY DEF IInv, RunInv
<1>2. pc # "halt" /\ pc \notin CallLabel
  BY DEF CallLabel, ForkLabel, ForkMid, ThreadLabel, SchedLabel, SwitchLabel, TrapLabel
<1>3. InTrap(c, r)
  BY <1>1, <1>2 DEF Running, At
<1> QED
  BY <1>1, <1>3

\* The processes are numbers, and so are the stacks.
LEMMA ThreadsFacts ==
    ASSUME TypeOK
    PROVE  /\ Listed \subseteq Proc /\ Threads \subseteq Proc
           /\ idleproc \in Threads /\ idleproc \in Proc
           /\ NONE \notin Proc /\ NONE \notin Threads
           /\ Stack = Proc /\ Proc \subseteq Nat
<1>1. Listed \subseteq Proc
  BY ElementOfSeq DEF TypeOK, Listed
<1>2. idleproc \in Proc /\ NONE \notin Proc /\ Proc \subseteq Nat
  BY GetPidAssumption DEF Proc, idleproc, NONE
<1> QED
  BY <1>1, <1>2 DEF Threads, Stack

\* Each process has a stack of its own.
LEMMA StackFacts ==
    ASSUME IInv, Booted, NEW c \in Threads, sp = kstack[c]
    PROVE  /\ sp \in Stack /\ \A p \in Threads : p # c => kstack[p] \in Stack \ {sp}
           /\ c \in Proc
BY ThreadsFacts DEF IInv, StacksInv

\* A step that leaves the processes what they are.
ProcsKeep == UNCHANGED <<kmem, kpages, pid, kstack, proc_list, hash_list, nr_process, job>>

LEMMA KeepFacts ==
    ASSUME ProcsKeep
    PROVE  /\ Listed' = Listed /\ Threads' = Threads /\ Stacks' = Stacks
           /\ TablesInv => TablesInv'
           /\ current' \in Threads /\ StacksInv => StacksInv'
<1>1. Listed' = Listed
  BY DEF ProcsKeep, Listed
<1>2. Threads' = Threads
  BY <1>1 DEF Threads
<1>3. Stacks' = Stacks
  BY <1>2 DEF Stacks, ProcsKeep
<1>4. TablesInv => TablesInv'
  BY <1>1 DEF TablesInv, ProcsKeep
<1>5. current' \in Threads /\ StacksInv => StacksInv'
  BY <1>2 DEF StacksInv, ProcsKeep
<1> QED
  BY <1>1, <1>2, <1>3, <1>4, <1>5

\* A thread that waits goes on waiting.
LEMMA WaitsKept ==
    ASSUME Threads \subseteq Threads', NEW p, Waits(p), job'[p] = job[p], kstack'[p] = kstack[p],
           frames'[kstack[p]] = frames[kstack[p]], context'[p] = context[p]
    PROVE  Waits(p)'
<1>1. Birth(p)' = Birth(p)
  BY DEF Birth
<1> QED
  BY <1>1 DEF Waits, Calls, Born, InSched, InRun, InFork, SwitchLabel, SchedLabel, ForkLabel, ForkMid

\* The running process takes a step.
LEMMA MoveInv ==
    ASSUME IInv, Booted, NEW c \in Threads, sp = kstack[c], OthersWait(c),
           ProcsKeep, UNCHANGED <<context>>, OthersKeep, current' \in Threads, TypeOK',
           NEW r \in CallLabel, Running(c, r)'
    PROVE  IInv'
<1>1. /\ Threads' = Threads /\ TablesInv' /\ StacksInv'
  BY KeepFacts DEF IInv
<1>2. ASSUME NEW p \in Threads, p # c PROVE Waits(p)'
  <2>1. kstack[p] \in Stack \ {sp}
    BY <1>2, StackFacts
  <2> QED
    BY <1>1, <1>2, <2>1, WaitsKept DEF ProcsKeep, OthersKeep, OthersWait
<1>3. RunInv'
  BY <1>1, <1>2 DEF RunInv, OthersWait
<1>4. Booted'
  <2>1. NONE \notin Threads
    BY ThreadsFacts DEF IInv
  <2> QED
    BY <2>1 DEF Booted
<1> QED
  BY <1>1, <1>3, <1>4 DEF IInv

-----------------------------------------------------------------------------
(* The frame that the code at a label works with.  *)

Ready(c, r) == /\ IInv /\ Booted /\ c \in Threads /\ Running(c, r) /\ At(c, r)
               /\ OthersWait(c)

LEMMA ReadyFacts ==
    ASSUME NEW c, NEW r \in CallLabel, Ready(c, r)
    PROVE  /\ TypeOK /\ c \in Proc /\ c \in Threads /\ sp = kstack[c] /\ sp \in Stack
           /\ pc = r /\ Depth \in Nat /\ Depth = Height(c, r)
           /\ r # "switch_to" => c = current
           /\ r # "forkret" => s0 = job[c]
           /\ sstatus.sie = Interruptible(c, r) /\ Own(c, r)
           /\ Calls(c, r, frames[sp]) /\ Allocated(r, frames[sp][Base(c) + 1])
<1>1. TypeOK /\ c \in Threads /\ sp = kstack[c] /\ Booted
  BY DEF Ready, IInv, Running
<1>2. c \in Proc /\ sp \in Stack
  BY <1>1, StackFacts DEF Ready
<1>3. Depth \in Nat
  BY <1>1, <1>2 DEF TypeOK, Depth
<1> QED
  BY <1>1, <1>2, <1>3 DEF Ready, Running, At

LEMMA SchedTop ==
    ASSUME NEW c, NEW r \in SchedLabel, Ready(c, r)
    PROVE  /\ Depth = Base(c) + 1 /\ Top = SchedAt(c, r)
           /\ r \in CallLabel
<1>1. r \in CallLabel
  BY DEF CallLabel
<1>2. Depth = Base(c) + 1
  BY <1>1, ReadyFacts DEF Height, Level, SchedLabel, SwitchLabel
<1> QED
  BY <1>1, <1>2, ReadyFacts DEF Calls, InSched, InRun, InFork, Top

LEMMA RunTop ==
    ASSUME NEW c, NEW r \in SwitchLabel, Ready(c, r)
    PROVE  /\ Depth = Base(c) + 2 /\ r \in CallLabel
           /\ frames[sp][Base(c) + 1] = SchedAt(c, r)
           /\ \E n \in Threads : /\ Top = RunTo(c, n)
                                 /\ r = "switch_to" => n = current
                                 /\ r # "proc_run_ret" => n # c
<1>1. r \in CallLabel
  BY DEF CallLabel
<1>2. Depth = Base(c) + 2
  BY <1>1, ReadyFacts DEF Height, Level
<1> QED
  BY <1>1, <1>2, ReadyFacts DEF Calls, InSched, InRun, InFork, Top, SwitchLabel, SchedLabel

LEMMA ForkTop ==
    ASSUME NEW c, NEW r \in ForkLabel, Ready(c, r)
    PROVE  /\ Depth = Base(c) + 1 /\ r \in CallLabel /\ c = current
           /\ Allocated(r, Top)
           /\ \E fn \in Fn, p \in Proc \union {NONE} : Top = ForkAt(c, fn, p)
<1>1. r \in CallLabel /\ r # "switch_to"
  BY DEF CallLabel, ForkLabel, ForkMid
<1>2. Depth = Base(c) + 1
  BY <1>1, ReadyFacts DEF Height, Level, ForkLabel, ForkMid, SwitchLabel
<1> QED
  BY <1>1, <1>2, ReadyFacts DEF Calls, InSched, InRun, InFork, Top

\* The process that runs, after a step that leaves the processes what they are.
LEMMA RunningMove ==
    ASSUME NEW c \in Threads, NEW r \in CallLabel, ProcsKeep,
           sp' = kstack[c], Own(c, r), r # "switch_to" => c = current',
           Calls(c, r, frames[sp])', Allocated(r, frames[sp][Base(c) + 1])',
           At(c, r)' \/ (pc' = "halt" /\ ~ sstatus'.sie) \/ InTrap(c, r)'
    PROVE  Running(c, r)'
BY KeepFacts DEF Running, ProcsKeep, Own

\* Code outside schedule, proc_run and do_fork.
Plain == CallLabel \ (SchedLabel \union SwitchLabel \union ForkLabel)

LEMMA HeightFacts ==
    ASSUME NEW c, NEW r
    PROVE  /\ Base(c) \in {0, 1} /\ (c = idleproc <=> Base(c) = 0)
           /\ r \in SchedLabel \union ForkLabel => Height(c, r) = Base(c) + 1
           /\ r \in SwitchLabel => Height(c, r) = Base(c) + 2
           /\ r \in Plain => Height(c, r) = Base(c)
<1>1. r \in SchedLabel \union ForkLabel => r \notin SwitchLabel
  BY DEF SchedLabel, ForkLabel, SwitchLabel, ForkMid
<1>2. Base(c) \in {0, 1} /\ (c = idleproc <=> Base(c) = 0)
  BY DEF Base
<1>3. r \in SwitchLabel => Height(c, r) = Base(c) + 2
  BY DEF Height, Level
<1>4. r \in SchedLabel \union ForkLabel => Height(c, r) = Base(c) + 1
  BY <1>1 DEF Height, Level
<1>5. r \in Plain => Height(c, r) = Base(c)
  BY <1>2 DEF Height, Level, Plain
<1> QED
  BY <1>2, <1>3, <1>4, <1>5

LEMMA OwnFacts ==
    ASSUME NEW c, NEW r
    PROVE  /\ r \in SchedLabel \union SwitchLabel \union ForkLabel => Own(c, r) /\ r \in CallLabel
           /\ c # idleproc /\ r \in ThreadLabel \union {"forkret"} => Own(c, r) /\ r \in CallLabel
           /\ c = idleproc /\ r \in {"cpu_idle", "proc_init_ret"} => Own(c, r) /\ r \in CallLabel
<1>1. /\ r \in SchedLabel => r \notin ThreadLabel \union {"forkret", "cpu_idle", "proc_init_ret"}
      /\ r \in SwitchLabel => r \notin ThreadLabel \union {"forkret", "cpu_idle", "proc_init_ret"}
      /\ r \in ForkLabel => r \notin ThreadLabel \union {"forkret", "cpu_idle", "proc_init_ret"}
      /\ r \in ThreadLabel \union {"forkret"} => r \notin {"cpu_idle", "proc_init_ret"}
  <2>1. r \in SchedLabel => r \notin ThreadLabel \union {"forkret", "cpu_idle", "proc_init_ret"}
    BY DEF SchedLabel, ThreadLabel
  <2>2. r \in SwitchLabel => r \notin ThreadLabel \union {"forkret", "cpu_idle", "proc_init_ret"}
    BY DEF SwitchLabel, ThreadLabel
  <2>3. r \in ForkLabel => r \notin ThreadLabel \union {"forkret", "cpu_idle", "proc_init_ret"}
    BY DEF ForkLabel, ForkMid, ThreadLabel
  <2>4. r \in ThreadLabel \union {"forkret"} => r \notin {"cpu_idle", "proc_init_ret"}
    BY DEF ThreadLabel
  <2> QED
    BY <2>1, <2>2, <2>3, <2>4
<1> QED
  BY <1>1 DEF Own, CallLabel

LEMMA InterruptibleFacts ==
    ASSUME NEW c, NEW r
    PROVE  /\ r \in ThreadLabel \union {"cpu_idle", "schedule"} => Interruptible(c, r)
           /\ r \in ForkLabel => (Interruptible(c, r) <=> c # idleproc)
           /\ r \in SwitchLabel \union {"pick", "schedule_ret", "forkret", "proc_init_ret"} =>
                ~ Interruptible(c, r)
<1>1. r \in ForkLabel => r \notin ThreadLabel \union {"cpu_idle", "schedule"}
  BY DEF ForkLabel, ForkMid, ThreadLabel
<1>2. r \in SwitchLabel => r \notin ThreadLabel \union ForkLabel \union {"cpu_idle", "schedule"}
  BY DEF SwitchLabel, ForkLabel, ForkMid, ThreadLabel
<1>3. r \in {"pick", "schedule_ret", "forkret", "proc_init_ret"} =>
        r \notin ThreadLabel \union ForkLabel \union {"cpu_idle", "schedule"}
  BY DEF ForkLabel, ForkMid, ThreadLabel
<1> QED
  BY <1>1, <1>2, <1>3 DEF Interruptible

LEMMA GetReady ==
    ASSUME IInv, Booted, pc \in CallLabel
    PROVE  \E c \in Threads : Ready(c, pc)
<1>1. PICK c \in Threads : Running(c, pc) /\ At(c, pc) /\ OthersWait(c)
  BY Executing
<1>2. Ready(c, pc)
  BY <1>1 DEF Ready
<1> QED
  BY <1>2

\* What the frames hold.
LEMMA SchedFacts ==
    ASSUME NEW c, NEW r
    PROVE  /\ SchedAt(c, r) \in Frame /\ SchedAt(c, r).ra = Home(c)
           /\ SchedAt(c, r).flag \in BOOLEAN /\ (SchedAt(c, r).flag <=> r # "schedule")
BY DEF SchedAt, SchedFrame, Frame, Home, Label

LEMMA RunFacts ==
    ASSUME NEW c \in Proc, NEW n \in Proc
    PROVE  /\ RunTo(c, n) \in Frame /\ RunTo(c, n).prev = c
           /\ RunTo(c, n).next = n /\ RunTo(c, n).flag = FALSE
BY DEF RunTo, RunFrame, Frame

LEMMA ForkFacts ==
    ASSUME NEW c, NEW fn \in Fn, NEW p \in Proc \union {NONE}
    PROVE  /\ ForkAt(c, fn, p) \in Frame /\ ForkAt(c, fn, p).ra = ForkHome(c)
           /\ ForkAt(c, fn, p).fn = fn /\ ForkAt(c, fn, p).proc = p
BY DEF ForkAt, ForkFrame, Frame, ForkHome, Label

LEMMA SieFacts ==
    ASSUME sstatus \in Status, NEW b \in BOOLEAN, sstatus' = [sstatus EXCEPT !.sie = b]
    PROVE  sstatus' \in Status /\ (sstatus'.sie <=> b) /\ sstatus'.spie = sstatus.spie
BY DEF Status

\* Calls, put together.
LEMMA CallsIntro ==
    ASSUME NEW c, NEW r, NEW CONSTANT fs, Born(c, fs)',
           \/ r \in Plain
           \/ /\ r \in SchedLabel
              /\ Len(fs) >= Base(c) + 1 /\ fs[Base(c) + 1] = SchedAt(c, r)
           \/ /\ r \in SwitchLabel
              /\ Len(fs) >= Base(c) + 2 /\ fs[Base(c) + 1] = SchedAt(c, r)
              /\ \E n \in Threads' : /\ fs[Base(c) + 2] = RunTo(c, n)
                                     /\ r = "switch_to" => n = current'
                                     /\ r # "proc_run_ret" => n # c
           \/ /\ r \in ForkLabel
              /\ Len(fs) >= Base(c) + 1
              /\ \E fn \in Fn, p \in Proc \union {NONE} : fs[Base(c) + 1] = ForkAt(c, fn, p)
    PROVE  Calls(c, r, fs)'
<1>1. CASE r \in Plain
  BY <1>1 DEF Calls, InSched, InRun, InFork, Plain
<1>2. CASE /\ r \in SchedLabel
           /\ Len(fs) >= Base(c) + 1 /\ fs[Base(c) + 1] = SchedAt(c, r)
  <2>1. r \notin SwitchLabel /\ r \notin ForkLabel
    BY <1>2 DEF SchedLabel, SwitchLabel, ForkLabel, ForkMid
  <2> QED
    BY <1>2, <2>1 DEF Calls, InSched, InRun, InFork
<1>3. CASE /\ r \in SwitchLabel
           /\ Len(fs) >= Base(c) + 2 /\ fs[Base(c) + 1] = SchedAt(c, r)
           /\ \E n \in Threads' : /\ fs[Base(c) + 2] = RunTo(c, n)
                                  /\ r = "switch_to" => n = current'
                                  /\ r # "proc_run_ret" => n # c
  <2>1. r \notin SchedLabel /\ r \notin ForkLabel
    BY <1>3 DEF SchedLabel, SwitchLabel, ForkLabel, ForkMid
  <2>2. Len(fs) >= Base(c) + 1
    BY <1>3 DEF Base
  <2>3. InRun(c, r, fs)'
    <3>1. PICK n \in Threads' : /\ fs[Base(c) + 2] = RunTo(c, n)
                                /\ r = "switch_to" => n = current'
                                /\ r # "proc_run_ret" => n # c
      BY <1>3
    <3> QED
      BY <1>3, <3>1 DEF InRun
  <2>4. InSched(c, r, fs)' /\ InFork(c, r, fs)'
    BY <1>3, <2>1, <2>2 DEF InSched, InFork
  <2> QED
    BY <2>3, <2>4 DEF Calls
<1>4. CASE /\ r \in ForkLabel
           /\ Len(fs) >= Base(c) + 1
           /\ \E fn \in Fn, p \in Proc \union {NONE} : fs[Base(c) + 1] = ForkAt(c, fn, p)
  <2>1. r \notin SchedLabel /\ r \notin SwitchLabel
    BY <1>4 DEF SchedLabel, SwitchLabel, ForkLabel, ForkMid
  <2> QED
    BY <1>4, <2>1 DEF Calls, InSched, InRun, InFork
<1> QED
  BY <1>1, <1>2, <1>3, <1>4

\* The first frame of a thread stays.
LEMMA BornMove ==
    ASSUME NEW c, ProcsKeep, sp' = sp, Born(c, frames[sp]), NEW n \in Nat, n >= Base(c),
           Len(frames'[sp]) >= n, Len(frames'[sp]) \in Nat, SameUpTo(n, frames'[sp], frames[sp])
    PROVE  Born(c, frames[sp])'
<1>1. Birth(c)' = Birth(c)
  BY DEF Birth, ProcsKeep
<1>2. Len(frames'[sp]) >= Base(c)
  BY DEF Base
<1>3. c # idleproc => frames'[sp][1] = frames[sp][1]
  BY DEF Base, SameUpTo
<1> QED
  BY <1>1, <1>2, <1>3 DEF Born

\* The labels outside do_fork's allocations, and after a thread's first return.
Settled == CallLabel \ (ForkMid \union {"forkret"})

\* A call or a return within a process, outside do_fork's allocations.
LEMMA StepInv ==
    ASSUME NEW c, NEW q \in Settled, Ready(c, q),
           NEW r \in Settled,
           ProcsKeep, UNCHANGED <<context, sp, s0>>, OthersKeep, TypeOK', Own(c, r),
           r # "switch_to" => c = current', current' \in Threads, Calls(c, r, frames[sp])',
           pc' = r, Len(frames'[sp]) = Height(c, r), sstatus'.sie = Interruptible(c, r)
    PROVE  IInv'
<1>1. IInv /\ Booted /\ c \in Threads /\ sp = kstack[c] /\ OthersWait(c)
  BY DEF Ready, Running
<1>2. s0 = job[c] /\ Allocated(q, frames[sp][Base(c) + 1])
  BY ReadyFacts DEF Settled
<1>3. At(c, r)'
  <2>1. Height(c, r)' = Height(c, r) /\ Interruptible(c, r)' = Interruptible(c, r)
    BY DEF Height, Interruptible, Base, Level
  <2> QED
    BY <1>2, <2>1 DEF At, Depth, ProcsKeep
<1>4. Allocated(r, frames[sp][Base(c) + 1])'
  BY <1>2, KeepFacts DEF Allocated, ProcsKeep, Settled
<1>5. Running(c, r)'
  BY <1>1, <1>3, <1>4, RunningMove DEF Settled
<1> QED
  BY <1>1, <1>5, MoveInv DEF Settled

-----------------------------------------------------------------------------
(* One lemma per action *)

LEMMA CpuIdleInv ==
    ASSUME IInv, Booted, cpu_idle
    PROVE  IInv'
<1>1. /\ pc = "cpu_idle" /\ "cpu_idle" \in Settled /\ "schedule" \in Settled
      /\ "cpu_idle" \in CallLabel /\ "schedule" \in SchedLabel
  BY DEF cpu_idle, CallLabel, Settled, SchedLabel, ForkMid
<1>2. PICK c \in Threads : Ready(c, "cpu_idle")
  BY <1>1, GetReady
<1>3. TypeOK /\ c = current /\ c \in Proc /\ sp \in Stack /\ Depth = Height(c, "cpu_idle")
  BY <1>1, <1>2, ReadyFacts
<1>4. c = idleproc /\ Born(c, frames[sp]) /\ sstatus.sie
  BY <1>1, <1>2, ReadyFacts DEF Own, Calls, Interruptible
<1>5. Depth = 0 /\ Base(c) = 0 /\ Height(c, "schedule") = 1
  BY <1>3, <1>4 DEF Height, Base, Level, SwitchLabel, SchedLabel, ForkLabel, ForkMid
<1> DEFINE f == SchedAt(c, "schedule")
<1>6. f \in Frame /\ Push(f)
  BY <1>4, <1>3, SchedFacts DEF cpu_idle, SchedAt, Home
<1> HIDE DEF f
<1>7. /\ frames' \in [Stack -> Seq(Frame)] /\ OthersKeep /\ Len(frames'[sp]) = Depth + 1
      /\ frames'[sp][Depth + 1] = f /\ SameUpTo(Depth, frames'[sp], frames[sp])
  BY <1>3, <1>6, PushFacts
<1>8. ProcsKeep /\ UNCHANGED <<context, sp, s0>> /\ current' = current /\ sstatus' = sstatus /\ pc' = "schedule"
  BY DEF cpu_idle, ProcsKeep, memory, fields, tables, ghosts
<1>9. TypeOK'
  BY <1>3, <1>7 DEF TypeOK, cpu_idle, csrs, memory, fields, tables, ghosts, Label
<1>10. Calls(c, "schedule", frames[sp])'
  <2>1. Len(frames'[sp]) = 1 /\ frames'[sp][1] = f
    BY <1>5, <1>7
  <2>2. Born(c, frames[sp])'
    BY <2>1, <1>4, <1>5, <1>8 DEF Born, Base
  <2>3. Len(frames'[sp]) >= Base(c) + 1 /\ frames'[sp][Base(c) + 1] = SchedAt(c, "schedule")
    BY <2>1, <1>5 DEF f
  <2> QED
    BY <2>2, <2>3, <1>1, <1>8, CallsIntro
<1>11. Own(c, "schedule") /\ sstatus'.sie = Interruptible(c, "schedule")
  BY <1>1, <1>4, <1>8 DEF Own, Interruptible, ThreadLabel, SchedLabel, CallLabel
<1> QED
  BY <1>2, <1>1, <1>4, <1>3, <1>5, <1>7, <1>8, <1>9, <1>10, <1>11, StepInv 

\* A thread's own code.
LEMMA BodyFacts ==
    ASSUME IInv, Booted, pc \in ThreadLabel
    PROVE  \E c \in Threads : /\ Ready(c, pc) /\ c = current /\ c \in Proc /\ c # idleproc
                              /\ TypeOK /\ sp \in Stack /\ Depth = 1 /\ Base(c) = 1 /\ sstatus.sie
                              /\ Born(c, frames[sp]) /\ Home(c) = "body" /\ ForkHome(c) = "body"
<1>1. pc \in CallLabel /\ pc # "switch_to" /\ pc \notin SwitchLabel \union SchedLabel \union ForkLabel
  BY DEF CallLabel, ThreadLabel, SwitchLabel, SchedLabel, ForkLabel, ForkMid
<1>2. PICK c \in Threads : Ready(c, pc)
  BY <1>1, GetReady
<1>3. \A r \in CallLabel : r = pc =>
        /\ TypeOK /\ c = current /\ c \in Proc /\ sp \in Stack /\ Depth = Height(c, r)
        /\ sstatus.sie = Interruptible(c, r) /\ Own(c, r) /\ Born(c, frames[sp])
  BY <1>1, <1>2, ReadyFacts DEF Calls
<1>4. c # idleproc
  BY <1>1, <1>3 DEF Own
<1>5. Depth = 1 /\ Base(c) = 1
  BY <1>1, <1>3, <1>4 DEF Height, Base, Level
<1>6. sstatus.sie
  BY <1>1, <1>3 DEF Interruptible
<1> QED
  BY <1>1, <1>2, <1>3, <1>4, <1>5, <1>6 DEF Home, ForkHome

LEMMA YieldInv ==
    ASSUME IInv, Booted, NEW s \in {"RUNNABLE", "SLEEPING"}, Yield(s)
    PROVE  IInv'
<1>1. pc = "body" /\ "body" \in Settled /\ "schedule" \in Settled /\ "schedule" \in SchedLabel /\ "body" \in ThreadLabel
  BY DEF Yield, CallLabel, Settled, SchedLabel, ForkMid, ThreadLabel
<1>2. PICK c \in Threads : /\ Ready(c, "body") /\ c = current /\ c \in Proc /\ c # idleproc
                           /\ TypeOK /\ sp \in Stack /\ Depth = 1 /\ Base(c) = 1 /\ sstatus.sie
                           /\ Born(c, frames[sp]) /\ Home(c) = "body"
  BY <1>1, BodyFacts
<1> DEFINE f == SchedAt(c, "schedule")
<1>3. f \in Frame /\ Push(f)
  BY <1>2, SchedFacts DEF Yield, SchedAt
<1> HIDE DEF f
<1>4. /\ frames' \in [Stack -> Seq(Frame)] /\ OthersKeep /\ Len(frames'[sp]) = Depth + 1
      /\ frames'[sp][Depth + 1] = f /\ SameUpTo(Depth, frames'[sp], frames[sp])
  BY <1>2, <1>3, PushFacts
<1>5. ProcsKeep /\ UNCHANGED <<context, sp, s0>> /\ current' = current /\ sstatus' = sstatus /\ pc' = "schedule"
  BY DEF Yield, ProcsKeep, memory, fields, tables, ghosts
<1>6. TypeOK'
  BY <1>2, <1>4 DEF TypeOK, Yield, csrs, memory, fields, tables, ghosts, Label
<1>7. Calls(c, "schedule", frames[sp])'
  <2>1. Len(frames'[sp]) = 2 /\ frames'[sp][2] = f
    BY <1>2, <1>4
  <2>2. Born(c, frames[sp])'
    BY <2>1, <1>2, <1>4, <1>5, BornMove
  <2>3. Len(frames'[sp]) >= Base(c) + 1 /\ frames'[sp][Base(c) + 1] = SchedAt(c, "schedule")
    BY <2>1, <1>2 DEF f
  <2> QED
    BY <2>2, <2>3, <1>1, <1>5, CallsIntro
<1>8. Own(c, "schedule") /\ sstatus'.sie = Interruptible(c, "schedule") /\ Height(c, "schedule") = 2
  <2>1. sstatus'.sie = Interruptible(c, "schedule")
    BY <1>1, <1>2, <1>5 DEF Interruptible
  <2> QED
    BY <1>1, <1>2, <2>1, HeightFacts, OwnFacts
<1>9. Len(frames'[sp]) = 2
  BY <1>2, <1>4
<1> QED
  BY <1>1, <1>2, <1>4, <1>5, <1>6, <1>7, <1>8, <1>9, StepInv

LEMMA KernelThreadInv ==
    ASSUME IInv, Booted, NEW fn \in Fn, kernel_thread(fn)
    PROVE  IInv'
<1>1. pc = "body" /\ "body" \in Settled /\ "do_fork" \in Settled /\ "do_fork" \in ForkLabel /\ "body" \in ThreadLabel
  BY DEF kernel_thread, CallLabel, Settled, ForkLabel, ForkMid, ThreadLabel
<1>2. PICK c \in Threads : /\ Ready(c, "body") /\ c = current /\ c \in Proc /\ c # idleproc
                           /\ TypeOK /\ sp \in Stack /\ Depth = 1 /\ Base(c) = 1 /\ sstatus.sie
                           /\ Born(c, frames[sp]) /\ ForkHome(c) = "body"
  BY <1>1, BodyFacts
<1> DEFINE f == ForkAt(c, fn, NONE)
<1>3. f \in Frame /\ Push(f)
  BY <1>2, ForkFacts DEF kernel_thread, ForkAt
<1> HIDE DEF f
<1>4. /\ frames' \in [Stack -> Seq(Frame)] /\ OthersKeep /\ Len(frames'[sp]) = Depth + 1
      /\ frames'[sp][Depth + 1] = f /\ SameUpTo(Depth, frames'[sp], frames[sp])
  BY <1>2, <1>3, PushFacts
<1>5. ProcsKeep /\ UNCHANGED <<context, sp, s0>> /\ current' = current /\ sstatus' = sstatus /\ pc' = "do_fork"
  BY DEF kernel_thread, ProcsKeep, memory, fields, tables, ghosts
<1>6. TypeOK'
  BY <1>2, <1>4 DEF TypeOK, kernel_thread, csrs, memory, fields, tables, ghosts, Label
<1>7. Calls(c, "do_fork", frames[sp])'
  <2>1. Len(frames'[sp]) = 2 /\ frames'[sp][2] = f
    BY <1>2, <1>4
  <2>2. Born(c, frames[sp])'
    BY <2>1, <1>2, <1>4, <1>5, BornMove
  <2>3. /\ Len(frames'[sp]) >= Base(c) + 1
        /\ \E p \in Proc \union {NONE} : frames'[sp][Base(c) + 1] = ForkAt(c, fn, p)
    BY <2>1, <1>2 DEF f
  <2> QED
    BY <2>2, <2>3, <1>1, <1>5, CallsIntro
<1>8. Own(c, "do_fork") /\ sstatus'.sie = Interruptible(c, "do_fork") /\ Height(c, "do_fork") = 2
  <2>1. sstatus'.sie = Interruptible(c, "do_fork")
    BY <1>1, <1>2, <1>5 DEF Interruptible
  <2> QED
    BY <1>1, <1>2, <2>1, HeightFacts, OwnFacts
<1>9. Len(frames'[sp]) = 2
  BY <1>2, <1>4
<1> QED
  BY <1>1, <1>2, <1>4, <1>5, <1>6, <1>7, <1>8, <1>9, StepInv

\* schedule disables interrupts, and keeps on its stack whether they were enabled.
LEMMA ScheduleSaveInv ==
    ASSUME IInv, Booted, ScheduleSave
    PROVE  IInv'
<1>1. /\ pc = "schedule" /\ "schedule" \in Settled /\ "pick" \in Settled /\ pc \in CallLabel
      /\ "schedule" \in SchedLabel /\ "pick" \in SchedLabel
  BY DEF ScheduleSave, CallLabel, Settled, SchedLabel, ForkMid
<1>2. PICK c \in Threads : Ready(c, "schedule")
  BY <1>1, GetReady
<1>3. Depth = Base(c) + 1 /\ Top = SchedAt(c, "schedule")
  BY <1>1, <1>2, SchedTop
<1>4. /\ TypeOK /\ c = current /\ c \in Proc /\ sp \in Stack /\ sstatus.sie /\ sstatus \in Status
      /\ Born(c, frames[sp])
  BY <1>1, <1>2, ReadyFacts, InterruptibleFacts DEF TypeOK, Calls
<1>5. Base(c) \in {0, 1} /\ Height(c, "pick") = Base(c) + 1 /\ Own(c, "pick") /\ ~ Interruptible(c, "pick")
  BY <1>1, HeightFacts, OwnFacts, InterruptibleFacts
<1> DEFINE f == SchedAt(c, "pick")
<1>6. f \in Frame /\ Replace(f)
  <2>1. Top.ra = Home(c)
    <3>1. SchedAt(c, "schedule").ra = Home(c)
      BY <1>4, SchedFacts
    <3> QED
      BY <1>3, <3>1
  <2>2. SchedFrame(Top.ra, sstatus.sie) = f
    BY <2>1, <1>4 DEF SchedAt, SchedFrame, Status
  <2>3. Replace(SchedFrame(Top.ra, sstatus.sie))
    BY DEF ScheduleSave
  <2>4. f \in Frame
    BY <1>4, SchedFacts
  <2> HIDE DEF f
  <2> QED
    BY <2>2, <2>3, <2>4
<1> HIDE DEF f
<1>7. /\ frames' \in [Stack -> Seq(Frame)] /\ OthersKeep /\ Len(frames'[sp]) = Depth
      /\ frames'[sp][Depth] = f /\ SameUpTo(Depth - 1, frames'[sp], frames[sp])
  BY <1>3, <1>4, <1>5, <1>6, ReplaceFacts
<1>8. ProcsKeep /\ UNCHANGED <<context, sp, s0>> /\ current' = current /\ ~ sstatus'.sie /\ pc' = "pick"
  BY <1>4 DEF ScheduleSave, __intr_save, ProcsKeep, memory, fields, tables, ghosts, Status
<1>9. TypeOK'
  <2>1. sstatus' \in Status
    BY <1>4, SieFacts DEF ScheduleSave, __intr_save
  <2> QED
    BY <1>4, <1>7, <2>1 DEF TypeOK, ScheduleSave, csrs, memory, fields, tables, ghosts, Label
<1>10. Calls(c, "pick", frames[sp])'
  <2>1. Born(c, frames[sp])'
    BY <1>3, <1>4, <1>5, <1>7, <1>8, BornMove
  <2>2. Len(frames'[sp]) >= Base(c) + 1 /\ frames'[sp][Base(c) + 1] = SchedAt(c, "pick")
    BY <1>3, <1>5, <1>7 DEF f
  <2> QED
    BY <2>1, <2>2, <1>1, <1>8, CallsIntro
<1>11. sstatus'.sie = Interruptible(c, "pick")
  BY <1>4, <1>5, <1>9 DEF TypeOK, ScheduleSave, __intr_save, Interruptible, Status, ThreadLabel, ForkLabel, ForkMid
<1> QED
  BY <1>1, <1>2, <1>3, <1>4, <1>5, <1>7, <1>8, <1>9, <1>10, <1>11, StepInv

LEMMA LowestFacts ==
    ASSUME NEW T, T \subseteq Nat, T # {}
    PROVE  Lowest(T) \in T /\ \A y \in T : Lowest(T) <= y
<1> DEFINE R == OpToRel(<, Nat)
<1>1. IsWellFoundedOn(R, Nat)
  BY NatLessThanWellFounded
<1>2. \A y, z \in Nat : y < z => <<y, z>> \in R
  BY DEF OpToRel
<1> HIDE DEF R
<1>3. PICK x \in T : \A y \in T : ~ (<<y, x>> \in R)
  BY <1>1, WFMin
<1>4. ASSUME NEW y \in T PROVE x <= y
  <2>1. x \in Nat /\ y \in Nat
    OBVIOUS
  <2>2. ~ (y < x)
    BY <1>2, <1>3, <2>1
  <2> QED
    BY <2>1, <2>2
<1> QED
  BY <1>4 DEF Lowest

\* schedule finds a thread.
LEMMA NextProcFacts ==
    ASSUME TypeOK, current \in Threads
    PROVE  next_proc \in Threads
<1> DEFINE n == Len(proc_list)
           c == circle(current)
           runnable == {i \in 1 .. Len(c) : state[c[i]] = "RUNNABLE"}
<1>1. n \in Nat /\ proc_list \in Seq(Proc) /\ \A i \in 1 .. n : proc_list[i] \in Listed
  BY DEF TypeOK, Listed
<1>2. c \in Seq(Listed)
  <2>1. CASE current = idleproc
    BY <1>1, <2>1 DEF circle
  <2>2. CASE current # idleproc
    <3> DEFINE k == CHOOSE i \in 1 .. n : proc_list[i] = current
    <3>1. \E i \in 1 .. n : proc_list[i] = current
      BY <2>2 DEF Threads, Listed
    <3>2. k \in 1 .. n
      BY <3>1
    <3>3. c = SubSeq(proc_list, k + 1, n) \o SubSeq(proc_list, 1, k)
      BY <2>2 DEF circle
    <3> HIDE DEF k
    <3>4. SubSeq(proc_list, k + 1, n) \in Seq(Listed)
      BY <1>1, <3>2, SubSeqProperties
    <3>5. SubSeq(proc_list, 1, k) \in Seq(Listed)
      BY <1>1, <3>2, SubSeqProperties
    <3> QED
      BY <3>3, <3>4, <3>5, ConcatProperties
  <2> QED
    BY <2>1, <2>2
<1>3. next_proc = IF runnable = {} THEN idleproc ELSE c[Lowest(runnable)]
  BY DEF next_proc
<1> HIDE DEF c
<1>4. runnable \subseteq 1 .. Len(c) /\ runnable \subseteq Nat
  BY <1>2
<1> HIDE DEF runnable
<1>5. runnable # {} => Lowest(runnable) \in 1 .. Len(c)
  BY <1>4, LowestFacts
<1>6. runnable # {} => c[Lowest(runnable)] \in Listed
  BY <1>2, <1>5, ElementOfSeq
<1> QED
  BY <1>3, <1>6 DEF Threads

LEMMA SchedulePickInv ==
    ASSUME IInv, Booted, SchedulePick
    PROVE  IInv'
<1>1. /\ pc = "pick" /\ "pick" \in Settled /\ pc \in CallLabel /\ "pick" \in SchedLabel
      /\ "proc_run" \in Settled /\ "proc_run" \in SwitchLabel
      /\ "schedule_ret" \in Settled /\ "schedule_ret" \in SchedLabel
  BY DEF SchedulePick, CallLabel, Settled, SchedLabel, SwitchLabel, ForkMid
<1>2. PICK c \in Threads : Ready(c, "pick")
  BY <1>1, GetReady
<1>3. Depth = Base(c) + 1 /\ Top = SchedAt(c, "pick")
  BY <1>1, <1>2, SchedTop
<1>4. /\ TypeOK /\ c = current /\ c \in Proc /\ sp \in Stack /\ Born(c, frames[sp])
      /\ sstatus.sie = Interruptible(c, "pick") /\ ~ Interruptible(c, "pick")
  BY <1>1, <1>2, ReadyFacts, InterruptibleFacts DEF Calls
<1>5. Base(c) \in {0, 1} /\ Height(c, "proc_run") = Base(c) + 2 /\ Height(c, "schedule_ret") = Base(c) + 1
  BY <1>1, HeightFacts
<1>6. ProcsKeep /\ UNCHANGED <<context, sp, s0>> /\ current' = current /\ sstatus' = sstatus
  BY DEF SchedulePick, ProcsKeep, memory, tables, ghosts
<1>7. SchedAt(c, "proc_run") = SchedAt(c, "pick") /\ SchedAt(c, "schedule_ret") = SchedAt(c, "pick")
  BY DEF SchedAt, SchedFrame
<1>8. CASE next_proc # current /\ Push(RunFrame(current, next_proc, FALSE)) /\ pc' = "proc_run"
  <2> DEFINE n == next_proc
             f == RunTo(c, n)
  <2>1. n \in Threads /\ n \in Proc
    BY <1>4, NextProcFacts, ThreadsFacts
  <2>2. f \in Frame /\ Push(f)
    BY <1>4, <1>8, <2>1, RunFacts DEF RunTo
  <2> HIDE DEF f, n
  <2>3. /\ frames' \in [Stack -> Seq(Frame)] /\ OthersKeep /\ Len(frames'[sp]) = Depth + 1
        /\ frames'[sp][Depth + 1] = f /\ SameUpTo(Depth, frames'[sp], frames[sp])
    BY <1>4, <2>2, PushFacts
  <2>4. TypeOK'
    BY <1>1, <1>4, <1>8, <2>3 DEF TypeOK, SchedulePick, csrs, memory, fields, tables, ghosts, Label
  <2>5. Calls(c, "proc_run", frames[sp])'
    <3>1. Born(c, frames[sp])'
      BY <1>3, <1>4, <1>5, <2>3, <1>6, BornMove
    <3>2. frames'[sp][Base(c) + 1] = SchedAt(c, "proc_run")
      BY <1>3, <1>5, <2>3, <1>7 DEF SameUpTo, Top
    <3>3. Len(frames'[sp]) >= Base(c) + 2 /\ frames'[sp][Base(c) + 2] = RunTo(c, n)
      BY <1>3, <1>5, <2>3 DEF f
    <3>4. n \in Threads' /\ n # c
      BY <2>1, <1>4, <1>6, <1>8, KeepFacts DEF n
    <3> QED
      BY <3>1, <3>2, <3>3, <3>4, <1>1, <1>6, CallsIntro
  <2>6. Own(c, "proc_run") /\ sstatus'.sie = Interruptible(c, "proc_run")
    BY <1>1, <1>4, <1>6, OwnFacts DEF Interruptible, ThreadLabel, ForkLabel, ForkMid
  <2> QED
    BY <1>1, <1>2, <1>3, <1>4, <1>5, <1>6, <1>8, <2>3, <2>4, <2>5, <2>6, StepInv
<1>9. CASE next_proc = current /\ pc' = "schedule_ret" /\ UNCHANGED frames
  <2>1. frames' \in [Stack -> Seq(Frame)] /\ OthersKeep /\ Len(frames'[sp]) = Depth
    BY <1>4, <1>9 DEF TypeOK, OthersKeep, Depth
  <2>2. TypeOK'
    BY <1>1, <1>4, <1>9 DEF TypeOK, SchedulePick, csrs, memory, fields, tables, ghosts, Label
  <2>3. Calls(c, "schedule_ret", frames[sp])'
    <3>1. Born(c, frames[sp])'
      BY <1>4, <1>6, <1>9 DEF Born, Birth, ProcsKeep
    <3>2. Len(frames'[sp]) >= Base(c) + 1 /\ frames'[sp][Base(c) + 1] = SchedAt(c, "schedule_ret")
      BY <1>3, <1>5, <1>7, <2>1, <1>9 DEF Top
    <3> QED
      BY <3>1, <3>2, <1>1, <1>6, CallsIntro
  <2>4. Own(c, "schedule_ret") /\ sstatus'.sie = Interruptible(c, "schedule_ret")
    BY <1>1, <1>4, <1>6, OwnFacts DEF Interruptible, ThreadLabel, ForkLabel, ForkMid
  <2> QED
    BY <1>1, <1>2, <1>3, <1>4, <1>5, <1>6, <1>9, <2>1, <2>2, <2>3, <2>4, StepInv
<1> QED
  BY <1>8, <1>9 DEF SchedulePick

LEMMA ProcRunInv ==
    ASSUME IInv, Booted, proc_run
    PROVE  IInv'
<1>1. /\ pc = "proc_run" /\ "proc_run" \in Settled /\ pc \in CallLabel /\ "proc_run" \in SwitchLabel
      /\ "switch_to" \in Settled /\ "switch_to" \in SwitchLabel
  BY DEF proc_run, CallLabel, Settled, SwitchLabel, ForkMid
<1>2. PICK c \in Threads : Ready(c, "proc_run")
  BY <1>1, GetReady
<1>3. /\ Depth = Base(c) + 2 /\ frames[sp][Base(c) + 1] = SchedAt(c, "proc_run")
      /\ \E n \in Threads : Top = RunTo(c, n) /\ n # c
  BY <1>1, <1>2, RunTop
<1>4. PICK n \in Threads : Top = RunTo(c, n) /\ n # c
  BY <1>3
<1>5. /\ TypeOK /\ c = current /\ c \in Proc /\ sp \in Stack /\ Born(c, frames[sp])
      /\ sstatus.sie = Interruptible(c, "proc_run") /\ ~ Interruptible(c, "proc_run")
  BY <1>1, <1>2, ReadyFacts, InterruptibleFacts DEF Calls
<1>6. n \in Proc /\ Top.next = n
  BY <1>4, <1>5, ThreadsFacts, RunFacts
<1>7. sstatus \in Status /\ sstatus.sie = FALSE
  BY <1>5 DEF TypeOK, Status
<1>8. Base(c) \in {0, 1} /\ Height(c, "switch_to") = Base(c) + 2
  BY <1>1, HeightFacts
<1> DEFINE f == RunTo(c, n)
<1>9. f \in Frame /\ Replace(f)
  <2>1. Replace(RunFrame(current, Top.next, sstatus.sie))
    BY DEF proc_run
  <2>2. RunFrame(current, Top.next, sstatus.sie) = f
    BY <1>5, <1>6, <1>7 DEF RunTo
  <2>3. f \in Frame
    BY <1>5, <1>6, RunFacts
  <2> HIDE DEF f
  <2> QED
    BY <2>1, <2>2, <2>3
<1> HIDE DEF f
<1>10. /\ frames' \in [Stack -> Seq(Frame)] /\ OthersKeep /\ Len(frames'[sp]) = Depth
       /\ frames'[sp][Depth] = f /\ SameUpTo(Depth - 1, frames'[sp], frames[sp])
  BY <1>3, <1>5, <1>8, <1>9, ReplaceFacts
<1>11. ProcsKeep /\ UNCHANGED <<context, sp, s0>> /\ current' = n /\ pc' = "switch_to"
  BY <1>6 DEF proc_run, ProcsKeep, memory, fields, tables, ghosts
<1>12. sstatus' \in Status /\ sstatus'.sie = FALSE
  BY <1>7, SieFacts DEF proc_run, __intr_save
<1>13. TypeOK'
  <2>1. passed' \in [Proc -> SUBSET Proc]
    BY <1>5, <1>6, <1>11 DEF TypeOK, proc_run
  <2> QED
    BY <1>5, <1>6, <1>10, <1>11, <1>12, <2>1 DEF TypeOK, proc_run, csrs, memory, fields, tables, ghosts, Label
<1>14. Calls(c, "switch_to", frames[sp])'
  <2>1. Born(c, frames[sp])'
    BY <1>3, <1>5, <1>8, <1>10, <1>11, BornMove
  <2>2. SchedAt(c, "switch_to") = SchedAt(c, "proc_run")
    BY DEF SchedAt, SchedFrame
  <2>3. frames'[sp][Base(c) + 1] = SchedAt(c, "switch_to")
    <3>1. Base(c) + 1 \in 1 .. Depth - 1
      BY <1>3, <1>8
    <3>2. frames'[sp][Base(c) + 1] = frames[sp][Base(c) + 1]
      BY <1>10, <3>1 DEF SameUpTo
    <3> QED
      BY <1>3, <2>2, <3>2
  <2>4. Len(frames'[sp]) >= Base(c) + 2 /\ frames'[sp][Base(c) + 2] = RunTo(c, n)
    BY <1>3, <1>8, <1>10 DEF f
  <2>5. n \in Threads'
    BY <1>11, KeepFacts
  <2> QED
    BY <2>1, <2>3, <2>4, <2>5, <1>1, <1>4, <1>11, CallsIntro
<1>15. Own(c, "switch_to") /\ sstatus'.sie = Interruptible(c, "switch_to")
  BY <1>1, <1>5, <1>12, OwnFacts DEF Interruptible, ThreadLabel, ForkLabel, ForkMid
<1> QED
  BY <1>1, <1>2, <1>3, <1>5, <1>8, <1>10, <1>11, <1>13, <1>14, <1>15, StepInv

LEMMA ProcRunReturnInv ==
    ASSUME IInv, Booted, ProcRunReturn
    PROVE  IInv'
<1>1. /\ pc = "proc_run_ret" /\ "proc_run_ret" \in Settled /\ pc \in CallLabel
      /\ "proc_run_ret" \in SwitchLabel
      /\ "schedule_ret" \in Settled /\ "schedule_ret" \in SchedLabel
  BY DEF ProcRunReturn, CallLabel, Settled, SchedLabel, SwitchLabel, ForkMid
<1>2. PICK c \in Threads : Ready(c, "proc_run_ret")
  BY <1>1, GetReady
<1>3. /\ Depth = Base(c) + 2 /\ frames[sp][Base(c) + 1] = SchedAt(c, "proc_run_ret")
      /\ \E n \in Threads : Top = RunTo(c, n)
  BY <1>1, <1>2, RunTop
<1>4. PICK n \in Threads : Top = RunTo(c, n)
  BY <1>3
<1>5. /\ TypeOK /\ c = current /\ c \in Proc /\ sp \in Stack /\ Born(c, frames[sp])
      /\ sstatus.sie = Interruptible(c, "proc_run_ret") /\ ~ Interruptible(c, "proc_run_ret")
  BY <1>1, <1>2, ReadyFacts, InterruptibleFacts DEF Calls
<1>6. Top.flag = FALSE
  BY <1>4, <1>5, ThreadsFacts, RunFacts
<1>7. sstatus' \in Status /\ sstatus'.sie = FALSE
  <2>1. sstatus \in Status /\ sstatus.sie = FALSE
    BY <1>5 DEF TypeOK, Status
  <2>2. sstatus' = [sstatus EXCEPT !.sie = sstatus.sie \/ Top.flag]
    BY DEF ProcRunReturn, __intr_restore
  <2>3. (sstatus.sie \/ Top.flag) = FALSE
    BY <1>6, <2>1
  <2>4. sstatus' = [sstatus EXCEPT !.sie = FALSE]
    BY <2>2, <2>3
  <2> QED
    BY <2>1, <2>4, SieFacts
<1>8. Base(c) \in {0, 1} /\ Height(c, "schedule_ret") = Base(c) + 1
  BY <1>1, HeightFacts
<1>9. /\ frames' \in [Stack -> Seq(Frame)] /\ OthersKeep /\ Len(frames'[sp]) = Depth - 1
      /\ SameUpTo(Depth - 1, frames'[sp], frames[sp])
  BY <1>3, <1>5, <1>8, PopFacts DEF ProcRunReturn
<1>10. ProcsKeep /\ UNCHANGED <<context, sp, s0>> /\ current' = current /\ pc' = "schedule_ret"
  BY DEF ProcRunReturn, ProcsKeep, memory, fields, tables, ghosts
<1>11. TypeOK'
  BY <1>5, <1>7, <1>9, <1>10 DEF TypeOK, ProcRunReturn, csrs, memory, fields, tables, ghosts, Label
<1>12. Calls(c, "schedule_ret", frames[sp])'
  <2>1. Born(c, frames[sp])'
    BY <1>3, <1>5, <1>8, <1>9, <1>10, BornMove
  <2>2. SchedAt(c, "schedule_ret") = SchedAt(c, "proc_run_ret")
    BY DEF SchedAt, SchedFrame
  <2>3. frames'[sp][Base(c) + 1] = SchedAt(c, "schedule_ret")
    <3>1. Base(c) + 1 \in 1 .. Depth - 1
      BY <1>3, <1>8
    <3>2. frames'[sp][Base(c) + 1] = frames[sp][Base(c) + 1]
      BY <1>9, <3>1 DEF SameUpTo
    <3> QED
      BY <1>3, <2>2, <3>2
  <2>4. Len(frames'[sp]) >= Base(c) + 1
    BY <1>3, <1>8, <1>9
  <2> QED
    BY <2>1, <2>3, <2>4, <1>1, <1>10, CallsIntro
<1>13. Own(c, "schedule_ret") /\ sstatus'.sie = Interruptible(c, "schedule_ret")
  BY <1>1, <1>5, <1>7, OwnFacts DEF Interruptible, ThreadLabel, ForkLabel, ForkMid
<1> QED
  BY <1>1, <1>2, <1>3, <1>5, <1>8, <1>9, <1>10, <1>11, <1>12, <1>13, StepInv

\* The code that a call returns to.
LEMMA HomeFacts ==
    ASSUME NEW c
    PROVE  /\ Home(c) \in Settled /\ Home(c) \in Plain /\ Home(c) \in Label /\ Own(c, Home(c))
           /\ Interruptible(c, Home(c)) = TRUE /\ Height(c, Home(c)) = Base(c)
           /\ ForkHome(c) \in Settled /\ ForkHome(c) \in Plain /\ ForkHome(c) \in Label
           /\ Own(c, ForkHome(c))
           /\ Interruptible(c, ForkHome(c)) = (c # idleproc) /\ Height(c, ForkHome(c)) = Base(c)
<1>1. ASSUME NEW r \in {"cpu_idle", "proc_init_ret", "body"}
      PROVE  /\ r \in Settled /\ r \in Plain /\ r \in Label
             /\ r = "body" => r \in ThreadLabel
  BY DEF Settled, Plain, CallLabel, ThreadLabel, SchedLabel, SwitchLabel, ForkLabel, ForkMid, Label
<1>2. CASE c = idleproc
  <2>1. Home(c) = "cpu_idle" /\ ForkHome(c) = "proc_init_ret"
    BY <1>2 DEF Home, ForkHome
  <2>2. Interruptible(c, "cpu_idle") = TRUE /\ Interruptible(c, "proc_init_ret") = (c # idleproc)
    BY <1>2 DEF Interruptible, ThreadLabel, ForkLabel, ForkMid
  <2> QED
    BY <1>1, <1>2, <2>1, <2>2, OwnFacts, HeightFacts
<1>3. CASE c # idleproc
  <2>1. Home(c) = "body" /\ ForkHome(c) = "body"
    BY <1>3 DEF Home, ForkHome
  <2>2. Interruptible(c, "body") = TRUE /\ (c # idleproc) = TRUE
    BY <1>3 DEF Interruptible, ThreadLabel
  <2> QED
    BY <1>1, <1>3, <2>1, <2>2, OwnFacts, HeightFacts
<1> QED
  BY <1>2, <1>3

LEMMA ScheduleReturnInv ==
    ASSUME IInv, Booted, ScheduleReturn
    PROVE  IInv'
<1>1. /\ pc = "schedule_ret" /\ "schedule_ret" \in Settled /\ pc \in CallLabel
      /\ "schedule_ret" \in SchedLabel
  BY DEF ScheduleReturn, CallLabel, Settled, SchedLabel, ForkMid
<1>2. PICK c \in Threads : Ready(c, "schedule_ret")
  BY <1>1, GetReady
<1>3. Depth = Base(c) + 1 /\ Top = SchedAt(c, "schedule_ret")
  BY <1>1, <1>2, SchedTop
<1>4. /\ TypeOK /\ c = current /\ c \in Proc /\ sp \in Stack /\ Born(c, frames[sp])
  BY <1>1, <1>2, ReadyFacts DEF Calls
<1>5. Top.flag = TRUE /\ Top.ra = Home(c)
  <2>1. SchedAt(c, "schedule_ret").flag = TRUE /\ SchedAt(c, "schedule_ret").ra = Home(c)
    BY SchedFacts
  <2> QED
    BY <1>3, <2>1
<1>6. sstatus' \in Status /\ sstatus'.sie = TRUE
  <2>1. sstatus \in Status
    BY <1>4 DEF TypeOK
  <2>2. sstatus' = [sstatus EXCEPT !.sie = sstatus.sie \/ Top.flag]
    BY DEF ScheduleReturn, __intr_restore
  <2>3. (sstatus.sie \/ Top.flag) = TRUE
    BY <1>5
  <2>4. sstatus' = [sstatus EXCEPT !.sie = TRUE]
    BY <2>2, <2>3
  <2> QED
    BY <2>1, <2>4, SieFacts
<1>7. Base(c) \in {0, 1}
  BY HeightFacts
<1>8. /\ frames' \in [Stack -> Seq(Frame)] /\ OthersKeep /\ Len(frames'[sp]) = Depth - 1
      /\ SameUpTo(Depth - 1, frames'[sp], frames[sp])
  BY <1>3, <1>4, <1>7, PopFacts DEF ScheduleReturn
<1>9. ProcsKeep /\ UNCHANGED <<context, sp, s0>> /\ current' = current /\ pc' = Home(c)
  BY <1>5 DEF ScheduleReturn, ProcsKeep, memory, fields, tables, ghosts
<1>10. TypeOK'
  <2>1. pc' \in Label
    BY <1>9, HomeFacts
  <2> QED
    BY <1>4, <1>6, <1>8, <2>1 DEF TypeOK, ScheduleReturn, csrs, memory, fields, tables, ghosts
<1>11. Calls(c, Home(c), frames[sp])'
  <2>1. Born(c, frames[sp])'
    BY <1>3, <1>4, <1>7, <1>8, <1>9, BornMove
  <2> QED
    BY <2>1, <1>9, HomeFacts, CallsIntro
<1>12. Home(c) \in Settled /\ Own(c, Home(c)) /\ sstatus'.sie = Interruptible(c, Home(c))
  BY <1>6, HomeFacts
<1>13. Home(c) # "switch_to" /\ Len(frames'[sp]) = Height(c, Home(c))
  <2>1. Home(c) # "switch_to"
    BY DEF Home
  <2>2. Height(c, Home(c)) = Base(c)
    BY HomeFacts
  <2> QED
    BY <1>3, <1>7, <1>8, <2>1, <2>2
<1> QED
  BY <1>1, <1>2, <1>4, <1>8, <1>9, <1>10, <1>11, <1>12, <1>13, StepInv

\* A step within the code of a process that calls nothing.
LEMMA PlainInv ==
    ASSUME NEW c, NEW q \in Settled, q \in Plain, Ready(c, q),
           NEW r \in Settled, r \in Plain, Own(c, r), Interruptible(c, r) = sstatus'.sie,
           ProcsKeep, UNCHANGED <<context, sp, s0, frames, current>>, TypeOK', pc' = r
    PROVE  IInv'
<1>1. /\ TypeOK /\ c = current /\ c \in Threads /\ sp \in Stack /\ Born(c, frames[sp])
      /\ Depth = Base(c)
  <2>1. q \in CallLabel /\ q # "switch_to"
    BY DEF Plain, SwitchLabel
  <2> QED
    BY <2>1, ReadyFacts, HeightFacts DEF Calls
<1>2. OthersKeep /\ Len(frames'[sp]) = Height(c, r)
  BY <1>1, HeightFacts DEF OthersKeep, Depth
<1>3. Calls(c, r, frames[sp])'
  <2>1. Born(c, frames[sp])'
    BY <1>1 DEF Born, Birth, ProcsKeep
  <2> QED
    BY <2>1, CallsIntro
<1>4. r # "switch_to"
  BY DEF Plain, SwitchLabel
<1> QED
  BY <1>1, <1>2, <1>3, <1>4, StepInv

\* The machine stops: what is on the stacks stays.
LEMMA HaltInv ==
    ASSUME IInv, Booted, ProcsKeep, UNCHANGED <<context, sp, frames, current>>, TypeOK',
           pc' = "halt", ~ sstatus'.sie
    PROVE  IInv'
<1>1. PICK c \in Threads, r \in CallLabel : Running(c, r) /\ OthersWait(c)
  BY DEF IInv, RunInv
<1>2. Running(c, r)'
  <2>1. Calls(c, r, frames[sp])'
    BY <1>1, KeepFacts DEF Running, Calls, Born, InSched, InRun, InFork, Birth, ProcsKeep
  <2>2. Allocated(r, frames[sp][Base(c) + 1])'
    BY <1>1, KeepFacts DEF Running, Allocated, ProcsKeep
  <2> QED
    BY <1>1, <2>1, <2>2, RunningMove DEF Running
<1>3. OthersKeep /\ current' \in Threads /\ sp = kstack[c]
  BY <1>1 DEF OthersKeep, IInv, StacksInv, Running
<1> QED
  BY <1>1, <1>2, <1>3, MoveInv

LEMMA KernInitInv ==
    ASSUME IInv, Booted, KernInit
    PROVE  IInv'
<1>1. ProcsKeep /\ UNCHANGED <<context, sp, s0, frames, current>> /\ TypeOK
  BY DEF KernInit, ProcsKeep, memory, fields, tables, ghosts, IInv
<1>2. /\ pc = "proc_init_ret" /\ "proc_init_ret" \in Settled /\ "proc_init_ret" \in Plain
      /\ "cpu_idle" \in Settled /\ "cpu_idle" \in Plain /\ pc \in CallLabel
  BY DEF KernInit, Settled, Plain, CallLabel, SchedLabel, SwitchLabel, ForkLabel, ForkMid
<1>3. ASSUME NEW b \in BOOLEAN, sstatus' = [sstatus EXCEPT !.sie = b], pc' \in Label
      PROVE  TypeOK' /\ (sstatus'.sie <=> b)
  <2>1. sstatus' \in Status /\ (sstatus'.sie <=> b)
    BY <1>1, <1>3, SieFacts DEF TypeOK
  <2> QED
    BY <1>1, <1>3, <2>1 DEF TypeOK, KernInit, csrs, memory, fields, tables, ghosts
<1>4. CASE panic
  BY <1>1, <1>3, <1>4, HaltInv DEF panic, Label
<1>5. CASE sstatus' = [sstatus EXCEPT !.sie = TRUE] /\ pc' = "cpu_idle"
  <2>1. PICK c \in Threads : Ready(c, "proc_init_ret")
    BY <1>2, GetReady
  <2>2. c = idleproc
    BY <1>2, <2>1, ReadyFacts DEF Own
  <2>3. TypeOK' /\ sstatus'.sie
    BY <1>3, <1>5 DEF Label
  <2>4. Own(c, "cpu_idle") /\ Interruptible(c, "cpu_idle") = sstatus'.sie
    BY <2>2, <2>3, OwnFacts DEF Interruptible, TypeOK, Status
  <2> QED
    BY <1>1, <1>2, <1>5, <2>1, <2>3, <2>4, PlainInv
<1> QED
  BY <1>4, <1>5 DEF KernInit

LEMMA DoExitInv ==
    ASSUME IInv, Booted, do_exit
    PROVE  IInv'
<1>1. ProcsKeep /\ UNCHANGED <<context, sp, frames, current>> /\ TypeOK
  BY DEF do_exit, ProcsKeep, memory, fields, tables, ghosts, IInv
<1>2. sstatus' \in Status /\ ~ sstatus'.sie /\ pc' = "halt"
  BY <1>1, SieFacts DEF do_exit, panic, TypeOK
<1>3. TypeOK'
  BY <1>1, <1>2 DEF TypeOK, do_exit, csrs, memory, fields, tables, ghosts, Label
<1> QED
  BY <1>1, <1>2, <1>3, HaltInv

\* A thread goes from one of its labels to another.
LEMMA ThreadStepInv ==
    ASSUME IInv, Booted, pc \in ThreadLabel, pc' \in ThreadLabel, ProcsKeep, TypeOK',
           UNCHANGED <<context, sp, s0, frames, current, sstatus>>
    PROVE  IInv'
<1>1. PICK c \in Threads : Ready(c, pc) /\ c # idleproc /\ sstatus.sie
  BY BodyFacts
<1>2. ASSUME NEW r \in ThreadLabel
      PROVE  r \in Settled /\ r \in Plain /\ Own(c, r) /\ Interruptible(c, r) = TRUE
  <2>1. r \in Settled /\ r \in Plain
    BY DEF Settled, Plain, CallLabel, ThreadLabel, SchedLabel, SwitchLabel, ForkLabel, ForkMid
  <2> QED
    BY <1>1, <2>1, OwnFacts DEF Interruptible
<1>3. sstatus'.sie = TRUE
  BY <1>1 DEF IInv, TypeOK, Status
<1>4. ASSUME NEW q \in ThreadLabel, NEW r \in ThreadLabel, q = pc, r = pc' PROVE IInv'
  BY <1>1, <1>2, <1>3, <1>4, PlainInv
<1> QED
  BY <1>4

LEMMA KernelThreadEntryInv ==
    ASSUME IInv, Booted, kernel_thread_entry
    PROVE  IInv'
<1>1. pc \in ThreadLabel /\ pc' \in ThreadLabel
  BY DEF kernel_thread_entry, ThreadLabel
<1>2. TypeOK'
  BY DEF IInv, TypeOK, kernel_thread_entry, csrs, memory, fields, tables, ghosts, Label
<1> QED
  BY <1>1, <1>2, ThreadStepInv DEF kernel_thread_entry, ProcsKeep, memory, fields, tables, ghosts

LEMMA ReachTrappingInv ==
    ASSUME IInv, Booted, NEW l \in {"ebreak", "fault"}, ReachTrapping(l)
    PROVE  IInv'
<1>1. pc \in ThreadLabel /\ pc' \in ThreadLabel
  BY DEF ReachTrapping, ThreadLabel
<1>2. TypeOK'
  BY DEF IInv, TypeOK, ReachTrapping, csrs, memory, fields, tables, ghosts, Label
<1> QED
  BY <1>1, <1>2, ThreadStepInv DEF ReachTrapping, ProcsKeep, memory, fields, tables, ghosts

LEMMA WakeupProcInv ==
    ASSUME IInv, Booted, NEW p \in Proc, wakeup_proc(p)
    PROVE  IInv'
<1>1. pc \in ThreadLabel /\ pc' \in ThreadLabel
  BY DEF wakeup_proc, cpu, ThreadLabel
<1>2. TypeOK'
  BY DEF IInv, TypeOK, wakeup_proc, cpu, csrs, memory, fields, tables, ghosts
<1> QED
  BY <1>1, <1>2, ThreadStepInv DEF wakeup_proc, cpu, ProcsKeep, memory, fields, tables, ghosts

-----------------------------------------------------------------------------
(* The trap path.  *)

LEMMA InterruptibleIs ==
    ASSUME NEW c, NEW r \in CallLabel, Interruptible(c, r)
    PROVE  /\ r # "switch_to" /\ r # "forkret" /\ r \notin SwitchLabel
           /\ r \in SchedLabel => r = "schedule"
           /\ Height(c, r) \in {0, 1, 2} /\ Height(c, r) >= Base(c)
           /\ r \in SchedLabel \union ForkLabel => Height(c, r) = Base(c) + 1
           /\ r \in Label
<1>1. r # "switch_to" /\ r # "forkret" /\ r \notin SwitchLabel /\ (r \in SchedLabel => r = "schedule")
  BY InterruptibleFacts DEF SwitchLabel, SchedLabel
<1>2. r \in SchedLabel \union ForkLabel \/ r \in Plain
  BY <1>1 DEF Plain
<1>3. r \in Label
  BY DEF CallLabel, SchedLabel, SwitchLabel, ForkLabel, ForkMid, ThreadLabel, Label
<1> QED
  BY <1>1, <1>2, <1>3, HeightFacts

\* A step of the trap path does not touch what the code it interrupted has on the stack.
LEMMA TrapMove ==
    ASSUME IInv, Booted, NEW c \in Threads, NEW q \in CallLabel, Running(c, q), OthersWait(c),
           Interruptible(c, q),
           NEW r \in CallLabel, r = q \/ (q \in ThreadLabel /\ r \in ThreadLabel),
           ProcsKeep, UNCHANGED <<context, sp, current>>, OthersKeep, TypeOK',
           SameUpTo(Height(c, q), frames'[sp], frames[sp]),
           Len(frames'[sp]) \in Nat, Len(frames'[sp]) >= Height(c, q),
           At(c, r)' \/ (pc' = "halt" /\ ~ sstatus'.sie) \/ InTrap(c, r)'
    PROVE  IInv'
<1>1. /\ c = current /\ sp = kstack[c] /\ Own(c, q) /\ Calls(c, q, frames[sp])
      /\ Allocated(q, frames[sp][Base(c) + 1]) /\ current' \in Threads
  BY InterruptibleIs DEF Running
<1>2. Base(c) \in {0, 1} /\ Base(c) \in Nat
  BY HeightFacts
<1>3. Born(c, frames[sp])'
  BY <1>1, <1>2, InterruptibleIs, BornMove DEF Calls
<1>4. q \in SchedLabel \union ForkLabel =>
        /\ frames'[sp][Base(c) + 1] = frames[sp][Base(c) + 1] /\ Len(frames'[sp]) >= Base(c) + 1
  <2>1. SUFFICES ASSUME q \in SchedLabel \union ForkLabel
                 PROVE  frames'[sp][Base(c) + 1] = frames[sp][Base(c) + 1] /\ Len(frames'[sp]) >= Base(c) + 1
    OBVIOUS
  <2>2. Height(c, q) = Base(c) + 1
    BY <2>1, InterruptibleIs
  <2> QED
    BY <1>2, <2>2 DEF SameUpTo
<1>5. q \in ThreadLabel => r \in Plain /\ q \in Plain /\ Own(c, r) /\ r # "switch_to"
  <2>1. ASSUME NEW l \in ThreadLabel PROVE l \in Plain /\ l # "switch_to"
    BY DEF Plain, CallLabel, ThreadLabel, SchedLabel, SwitchLabel, ForkLabel, ForkMid
  <2>2. q \in ThreadLabel => c # idleproc
    BY <1>1 DEF Own
  <2> QED
    BY <1>1, <2>1, <2>2, OwnFacts
<1>6. Own(c, r) /\ r # "switch_to"
  BY <1>1, <1>5, InterruptibleIs
<1>7. Calls(c, r, frames[sp])'
  <2>1. CASE r \in Plain
    BY <1>3, <2>1, CallsIntro
  <2>2. CASE r \in SchedLabel
    <3>1. r = q /\ q \in SchedLabel
      BY <1>5, <2>2 DEF Plain
    <3>2. frames[sp][Base(c) + 1] = SchedAt(c, q)
      BY <1>1, <3>1 DEF Calls, InSched
    <3> QED
      BY <1>3, <1>4, <2>2, <3>1, <3>2, CallsIntro
  <2>3. CASE r \in ForkLabel
    <3>1. r = q /\ q \in ForkLabel
      BY <1>5, <2>3 DEF Plain
    <3>2. \E fn \in Fn, p \in Proc \union {NONE} : frames[sp][Base(c) + 1] = ForkAt(c, fn, p)
      BY <1>1, <3>1 DEF Calls, InFork
    <3> QED
      BY <1>3, <1>4, <2>3, <3>1, <3>2, CallsIntro
  <2>4. r \notin SwitchLabel
    BY <1>5, InterruptibleIs DEF Plain
  <2> QED
    BY <2>1, <2>2, <2>3, <2>4 DEF Plain
<1>8. Allocated(r, frames[sp][Base(c) + 1])'
  <2>1. CASE r \notin ForkMid
    <3>1. q \notin ForkMid
      BY <2>1, <1>5 DEF Plain, ForkLabel
    <3> QED
      BY <1>1, <2>1, <3>1, KeepFacts DEF Allocated, ProcsKeep
  <2>2. CASE r \in ForkMid
    <3>1. r = q /\ q \in ForkLabel
      BY <1>5, <2>2 DEF Plain, ForkLabel
    <3> DEFINE f == frames[sp][Base(c) + 1]
    <3>2. (frames[sp][Base(c) + 1])' = f
      BY <1>4, <3>1
    <3>3. Allocated(r, f)
      BY <1>1, <3>1
    <3> HIDE DEF f
    <3>4. r = "get_pid" => frames'[kstack[f.proc]] = frames[kstack[f.proc]]
      <4>1. r = "get_pid" => kstack[f.proc] \in Stack \ Stacks
        BY <2>2, <3>3 DEF Allocated
      <4>2. sp \in Stacks
        BY <1>1 DEF Stacks
      <4> QED
        BY <4>1, <4>2 DEF OthersKeep
    <3>5. Allocated(r, f)'
      <4>1. f' = f
        BY <3>2 DEF f
      <4> QED
        BY <2>2, <3>3, <3>4, <4>1, KeepFacts DEF Allocated, ProcsKeep
    <3> QED
      BY <3>5 DEF f
  <2> QED
    BY <2>1, <2>2
<1>9. Running(c, r)'
  BY <1>1, <1>6, <1>7, <1>8, RunningMove
<1> QED
  BY <1>1, <1>9, MoveInv

\* Where the code that is interrupted stands.
LEMMA TakeTrapInv ==
    ASSUME IInv, Booted, pc \in CallLabel, NEW cause, TakeTrap(cause), sstatus.sie, Traps(pc, cause)
    PROVE  IInv'
<1>1. PICK c \in Threads : Ready(c, pc)
  BY GetReady
<1>2. ASSUME NEW r \in CallLabel, pc = r PROVE IInv'
  <2>1. /\ TypeOK /\ c = current /\ c \in Proc /\ sp \in Stack /\ Depth = Height(c, r)
        /\ Interruptible(c, r) /\ s0 = job[c] /\ Running(c, r) /\ OthersWait(c)
    <3>1. Ready(c, r)
      BY <1>1, <1>2
    <3>2. Interruptible(c, r)
      BY <3>1, ReadyFacts
    <3> QED
      BY <3>1, <3>2, InterruptibleIs, ReadyFacts DEF Ready
  <2>2. ProcsKeep /\ UNCHANGED <<context, sp, s0, frames, current>>
    BY DEF TakeTrap, ProcsKeep, memory, fields, tables
  <2>3. sstatus' \in Status /\ sstatus'.sie = FALSE /\ sstatus'.spie = TRUE
    BY <2>1 DEF TakeTrap, TypeOK, Status
  <2>4. /\ OthersKeep /\ SameUpTo(Height(c, r), frames'[sp], frames[sp]) /\ Depth \in Nat
        /\ Len(frames'[sp]) = Depth
    BY <2>1, <2>2 DEF OthersKeep, SameUpTo, Depth, TypeOK
  <2>5. TypeOK'
    <3>1. r \in Label /\ cause \in Cause
      BY <2>1, InterruptibleIs DEF Traps, Cause
    <3> QED
      BY <2>1, <2>3, <3>1, <1>2 DEF TypeOK, TakeTrap, memory, fields, tables, Label
  <2>6. InTrap(c, r)'
    <3>1. pc' = "__alltraps" /\ pc' \in TrapLabel /\ sepc' = r /\ from'.at = r /\ from'.cause = cause /\ scause' = cause
      BY <1>2 DEF TakeTrap, TrapLabel
    <3>2. Depth' = Height(c, r) /\ s0' = job'[c]
      BY <2>1, <2>2 DEF Depth, ProcsKeep
    <3> QED
      BY <1>2, <2>1, <2>3, <3>1, <3>2 DEF InTrap, Interruptible, Height, Base, Level, Traps
  <2> QED
    BY <2>1, <2>2, <2>4, <2>5, <2>6, TrapMove
<1> QED
  BY <1>2

\* The trap path knows the code it returns to.
InPath(c, r) == /\ IInv /\ Booted /\ c \in Threads /\ r \in CallLabel
                /\ Running(c, r) /\ InTrap(c, r) /\ OthersWait(c)

LEMMA PathFacts ==
    ASSUME NEW c, NEW r, InPath(c, r)
    PROVE  /\ TypeOK /\ c = current /\ c \in Threads /\ c \in Proc /\ sp \in Stack
           /\ frames \in [Stack -> Seq(Frame)] /\ sstatus \in Status /\ ~ sstatus.sie
           /\ Depth \in Nat /\ Len(frames[sp]) = Depth /\ Depth >= Height(c, r)
           /\ Height(c, r) \in Nat /\ Interruptible(c, r) /\ r \in Label /\ r \in CallLabel
           /\ job[c] \in Reg
<1>1. TypeOK /\ c \in Threads /\ sp = kstack[c] /\ Interruptible(c, r) /\ ~ sstatus.sie /\ r \in CallLabel
  BY DEF InPath, IInv, Running, InTrap
<1>2. c = current /\ Calls(c, r, frames[sp])
  BY <1>1, InterruptibleIs DEF InPath, Running
<1>3. c \in Proc /\ sp \in Stack
  BY <1>1, StackFacts DEF InPath
<1>4. /\ frames \in [Stack -> Seq(Frame)] /\ sstatus \in Status
      /\ Depth \in Nat /\ Len(frames[sp]) = Depth /\ job[c] \in Reg
  BY <1>1, <1>3 DEF TypeOK, Depth
<1>5. Depth >= Height(c, r) /\ Height(c, r) \in Nat
  <2>1. Height(c, r) \in {0, 1, 2} /\ r \notin SwitchLabel
    BY <1>1, InterruptibleIs
  <2>2. CASE r \in SchedLabel \union ForkLabel
    BY <1>2, <1>4, <2>1, <2>2, HeightFacts DEF Calls, InSched, InFork
  <2>3. CASE r \in Plain
    BY <1>2, <1>4, <2>1, <2>3, HeightFacts DEF Calls, Born
  <2> QED
    BY <1>1, <2>1, <2>2, <2>3 DEF Plain
<1> QED
  BY <1>1, <1>2, <1>3, <1>4, <1>5, InterruptibleIs

LEMMA GetPath ==
    ASSUME IInv, Booted, pc \in TrapLabel
    PROVE  \E c, r : InPath(c, r)
<1>1. PICK c \in Threads, r \in CallLabel : Running(c, r) /\ InTrap(c, r) /\ OthersWait(c)
  BY Trapping
<1>2. InPath(c, r)
  BY <1>1 DEF InPath
<1> QED
  BY <1>2

\* The parts of InTrap that a step of the trap path has to show.
LEMMA PathMove ==
    ASSUME NEW c, NEW q, InPath(c, q),
           NEW r \in CallLabel, r = q \/ (q \in ThreadLabel /\ r \in ThreadLabel),
           ProcsKeep, UNCHANGED <<context, sp, current>>, OthersKeep, TypeOK',
           SameUpTo(Height(c, q), frames'[sp], frames[sp]),
           Len(frames'[sp]) \in Nat, Len(frames'[sp]) >= Height(c, q),
           At(c, r)' \/ (pc' = "halt" /\ ~ sstatus'.sie) \/ InTrap(c, r)'
    PROVE  IInv'
BY PathFacts, TrapMove DEF InPath

LEMMA SaveAllInv ==
    ASSUME IInv, Booted, SAVE_ALL
    PROVE  IInv'
<1>1. pc = "__alltraps" /\ pc \in TrapLabel
  BY DEF SAVE_ALL, TrapLabel
<1>2. PICK c, r : InPath(c, r)
  BY <1>1, GetPath
<1>3. /\ Depth = Height(c, r) /\ s0 = job[c] /\ sstatus.spie
      /\ sepc = r /\ from.at = r /\ from.cause = scause /\ Traps(r, scause)
  BY <1>1, <1>2 DEF InPath, InTrap
<1>4. /\ TypeOK /\ c \in Proc /\ sp \in Stack /\ sstatus \in Status /\ ~ sstatus.sie
      /\ Depth \in Nat /\ r \in Label /\ Interruptible(c, r) /\ job[c] \in Reg /\ r \in CallLabel
  BY <1>2, PathFacts
<1> DEFINE f == TrapFrame(r, scause, job[c], thread_status, Height(c, r))
<1>5. f \in Frame /\ Push(f)
  <2>1. sstatus = thread_status
    BY <1>3, <1>4 DEF Status, thread_status
  <2>2. thread_status \in Status /\ scause \in Cause
    BY <1>3 DEF Status, thread_status, Traps, Cause
  <2>3. f \in Frame
    BY <1>3, <1>4, <2>2, FrameTypes
  <2>4. Push(TrapFrame(sepc, scause, s0, sstatus, Depth))
    BY DEF SAVE_ALL
  <2> QED
    BY <1>3, <2>1, <2>3, <2>4
<1> HIDE DEF f
<1>6. /\ frames' \in [Stack -> Seq(Frame)] /\ OthersKeep /\ Len(frames'[sp]) = Depth + 1
      /\ frames'[sp][Depth + 1] = f /\ SameUpTo(Depth, frames'[sp], frames[sp])
  BY <1>4, <1>5, PushFacts
<1>7. /\ ProcsKeep /\ UNCHANGED <<context, sp, current, from, sstatus, sepc>>
      /\ pc' = "trap" /\ scause' = "none" /\ s0' = NOFN
  BY DEF SAVE_ALL, ProcsKeep, memory, fields, tables, ghosts
<1>8. TypeOK'
  BY <1>4, <1>6, <1>7 DEF TypeOK, SAVE_ALL, memory, fields, tables, ghosts, Label, Cause, Reg
<1>9. InTrap(c, r)'
  <2>1. Depth' = Height(c, r) + 1 /\ Top' = f
    BY <1>3, <1>6, <1>7 DEF Depth, Top
  <2>2. f = TrapFrame(r, from.cause, job[c], thread_status, Height(c, r))
    BY <1>3 DEF f
  <2> QED
    BY <1>3, <1>4, <1>7, <2>1, <2>2
    DEF InTrap, TrapLabel, ProcsKeep, Interruptible, Height, Base, Level, Traps, thread_status
<1> QED
  BY <1>2, <1>3, <1>4, <1>6, <1>7, <1>8, <1>9, PathMove

\* What trap finds on the stack.
LEMMA TrapTop ==
    ASSUME NEW c, NEW r, InPath(c, r), pc = "trap"
    PROVE  /\ Depth = Height(c, r) + 1 /\ Depth >= 1 /\ Depth - 1 = Height(c, r)
           /\ Top = TrapFrame(r, from.cause, job[c], thread_status, Height(c, r))
           /\ Top.kind = "trap" /\ Top.epc = r /\ Top.cause = from.cause /\ Top.s0 = job[c]
           /\ Top.status = thread_status /\ Top.depth = Height(c, r)
           /\ from.at = r /\ Traps(r, from.cause)
<1>1. /\ Depth = Height(c, r) + 1
      /\ Top = TrapFrame(r, from.cause, job[c], thread_status, Height(c, r))
      /\ from.at = r /\ Traps(r, from.cause)
  BY DEF InPath, InTrap
<1>2. Height(c, r) \in Nat
  BY PathFacts
<1> QED
  BY <1>1, <1>2 DEF TrapFrame

LEMMA InterruptHandlerInv ==
    ASSUME IInv, Booted, interrupt_handler, ticks < TICK_NUM * MaxPrints
    PROVE  IInv'
<1>1. pc = "trap" /\ pc \in TrapLabel
  BY DEF interrupt_handler, TrapLabel
<1>2. PICK c, r : InPath(c, r)
  BY <1>1, GetPath
<1>3. /\ Depth = Height(c, r) + 1
      /\ Top.kind = "trap" /\ Top.epc = r /\ Top.cause = from.cause /\ Top.s0 = job[c]
      /\ Top.status = thread_status /\ Top.depth = Height(c, r)
      /\ from.at = r
  BY <1>1, <1>2, TrapTop
<1>4. /\ TypeOK /\ sp \in Stack /\ ~ sstatus.sie
      /\ Depth \in Nat /\ Height(c, r) \in Nat /\ Interruptible(c, r) /\ r \in CallLabel
  BY <1>2, PathFacts
<1>5. ProcsKeep /\ UNCHANGED <<context, sp, current, frames, from, sstatus>>
  BY DEF interrupt_handler, ProcsKeep, memory, fields, tables, ghosts
<1>6. Top.cause = "timer" /\ pc' \in {"halt", "__trapret"} /\ ticks' = ticks + 1
  BY DEF interrupt_handler
<1>7. TypeOK'
  <2> DEFINE n == TICK_NUM * MaxPrints
  <2>1. ticks' \in 0 .. n
    <3>1. ticks \in 0 .. n /\ ticks < n /\ n \in Nat
      BY <1>4, ProcAssumption DEF TypeOK
    <3> HIDE DEF n
    <3> QED
      BY <1>6, <3>1
  <2> HIDE DEF n
  <2> QED
    BY <1>4, <1>6, <2>1 DEF TypeOK, interrupt_handler, csrs, memory, fields, tables, ghosts, Label, n
<1>8. /\ OthersKeep /\ SameUpTo(Height(c, r), frames'[sp], frames[sp]) /\ Len(frames'[sp]) = Depth
  BY <1>5 DEF OthersKeep, SameUpTo, Depth
<1>9. pc' = "__trapret" => InTrap(c, r)'
  <2>1. Target' = r
    BY <1>3, <1>5, <1>6 DEF Target
  <2>2. Top' = Top
    BY <1>5 DEF Top, Depth
  <2> QED
    BY <1>3, <1>4, <1>5, <2>1, <2>2
    DEF InTrap, TrapLabel, ProcsKeep, Interruptible, Height, Base, Level, thread_status
<1> QED
  BY <1>2, <1>3, <1>4, <1>5, <1>6, <1>7, <1>8, <1>9, PathMove

LEMMA ExceptionHandlerInv ==
    ASSUME IInv, Booted, exception_handler
    PROVE  IInv'
<1>1. pc = "trap" /\ pc \in TrapLabel
  BY DEF exception_handler, TrapLabel
<1>2. PICK c, r : InPath(c, r)
  BY <1>1, GetPath
<1>3. /\ Depth = Height(c, r) + 1 /\ Depth >= 1 /\ Depth - 1 = Height(c, r)
      /\ Top = TrapFrame(r, from.cause, job[c], thread_status, Height(c, r))
      /\ Top.kind = "trap" /\ Top.epc = r /\ Top.cause = from.cause /\ Top.s0 = job[c]
      /\ Top.status = thread_status /\ Top.depth = Height(c, r)
      /\ from.at = r /\ Traps(r, from.cause)
  BY <1>1, <1>2, TrapTop
<1>4. /\ TypeOK /\ sp \in Stack /\ ~ sstatus.sie /\ job[c] \in Reg
      /\ Depth \in Nat /\ Height(c, r) \in Nat /\ Interruptible(c, r) /\ r \in CallLabel
  BY <1>2, PathFacts
<1>5. ProcsKeep /\ UNCHANGED <<context, sp, current, from, sstatus>> /\ pc' = "__trapret"
  BY DEF exception_handler, ProcsKeep, memory, fields, tables, ghosts
<1>6. ASSUME frames' \in [Stack -> Seq(Frame)] PROVE TypeOK'
  BY <1>4, <1>6, SMTT(20) DEF TypeOK, exception_handler, csrs, memory, fields, tables, ghosts, Label
<1>7. CASE Top.cause = "breakpoint" /\ Replace([Top EXCEPT !.epc = advance_pc(@)])
  <2> DEFINE f == TrapFrame("body", "breakpoint", job[c], thread_status, Height(c, r))
  <2>1. r = "ebreak" /\ from.cause = "breakpoint"
    BY <1>3, <1>7 DEF Traps
  <2>2. f \in Frame /\ Replace(f)
    <3>1. advance_pc("ebreak") = "body"
      BY DEF advance_pc
    <3>2. [Top EXCEPT !.epc = advance_pc(@)] = f
      BY <1>3, <2>1, <3>1 DEF TrapFrame
    <3>3. thread_status \in Status /\ "body" \in Label /\ "breakpoint" \in Cause
      BY DEF thread_status, Status, Label, Cause
    <3>4. f \in Frame
      BY <1>4, <3>3, FrameTypes
    <3> HIDE DEF f
    <3> QED
      BY <1>7, <3>2, <3>4
  <2>3. f.kind = "trap" /\ f.epc = "body" /\ f.s0 = job[c] /\ f.status = thread_status /\ f.depth = Height(c, r)
    BY DEF TrapFrame
  <2> HIDE DEF f
  <2>4. /\ frames' \in [Stack -> Seq(Frame)] /\ OthersKeep /\ Len(frames'[sp]) = Depth
        /\ frames'[sp][Depth] = f /\ SameUpTo(Depth - 1, frames'[sp], frames[sp])
    BY <1>3, <1>4, <2>2, ReplaceFacts
  <2>5. r \in ThreadLabel /\ "body" \in ThreadLabel /\ "body" \in CallLabel
    BY <2>1 DEF ThreadLabel, CallLabel
  <2>6. Height(c, "body") = Height(c, r)
    BY <2>1 DEF Height, Level, SwitchLabel, SchedLabel, ForkLabel, ForkMid
  <2>7. InTrap(c, "body")'
    <3>1. Target' = "body"
      BY <1>5, <2>1 DEF Target
    <3>2. Top' = f
      BY <1>5, <2>4 DEF Top, Depth
    <3>3. Height(c, "body")' = Height(c, "body")
      BY DEF Height, Base, Level
    <3>4. Interruptible(c, "body")
      BY DEF Interruptible, ThreadLabel
    <3> QED
      BY <1>4, <1>5, <2>3, <2>6, <3>1, <3>2, <3>3, <3>4
      DEF InTrap, TrapLabel, ProcsKeep, Interruptible, thread_status
  <2> QED
    BY <1>2, <1>3, <1>4, <1>5, <1>6, <2>4, <2>5, <2>7, PathMove
<1>8. CASE Top.cause = "fault" /\ UNCHANGED frames
  <2>1. /\ OthersKeep /\ SameUpTo(Height(c, r), frames'[sp], frames[sp]) /\ Len(frames'[sp]) = Depth
    BY <1>5, <1>8 DEF OthersKeep, SameUpTo, Depth
  <2>2. InTrap(c, r)'
    <3>1. Target' = r
      BY <1>3, <1>5, <1>8 DEF Target
    <3>2. Top' = Top
      BY <1>5, <1>8 DEF Top, Depth
    <3> QED
      BY <1>3, <1>4, <1>5, <3>1, <3>2
      DEF InTrap, TrapLabel, ProcsKeep, Interruptible, Height, Base, Level, thread_status
  <2>3. TypeOK'
    BY <1>4, <1>6, <1>8 DEF TypeOK
  <2> QED
    BY <1>2, <1>3, <1>4, <1>5, <2>1, <2>2, <2>3, PathMove
<1> QED
  BY <1>7, <1>8 DEF exception_handler

LEMMA RestoreStatusInv ==
    ASSUME IInv, Booted, RestoreStatus
    PROVE  IInv'
<1>1. pc = "__trapret" /\ pc \in TrapLabel
  BY DEF RestoreStatus, TrapLabel
<1>2. PICK c, r : InPath(c, r)
  BY <1>1, GetPath
<1>3. /\ Top.kind = "trap" /\ Top.epc = r /\ r = Target
      /\ Top.s0 = job[c] /\ Top.status = thread_status /\ Top.depth = Height(c, r)
  BY <1>1, <1>2 DEF InPath, InTrap
<1>4. /\ TypeOK /\ sp \in Stack /\ Depth \in Nat /\ Depth >= Height(c, r)
      /\ Height(c, r) \in Nat /\ Interruptible(c, r) /\ r \in CallLabel
  BY <1>2, PathFacts
<1>5. /\ ProcsKeep /\ UNCHANGED <<context, sp, current, frames, from>>
      /\ sstatus' = thread_status /\ pc' = "restore"
  BY <1>3 DEF RestoreStatus, ProcsKeep, memory, fields, tables, ghosts
<1>6. sstatus' \in Status /\ ~ sstatus'.sie /\ sstatus'.spie
  BY <1>5 DEF thread_status, Status
<1>7. TypeOK'
  BY <1>4, <1>6 DEF TypeOK, RestoreStatus, csrs, memory, fields, tables, ghosts, Label
<1>8. /\ OthersKeep /\ SameUpTo(Height(c, r), frames'[sp], frames[sp]) /\ Len(frames'[sp]) = Depth
  BY <1>5 DEF OthersKeep, SameUpTo, Depth
<1>9. InTrap(c, r)'
  <2>1. Target' = r /\ Top' = Top
    BY <1>3, <1>5 DEF Target, Top, Depth
  <2> QED
    BY <1>3, <1>4, <1>5, <1>6, <2>1
    DEF InTrap, TrapLabel, ProcsKeep, Interruptible, Height, Base, Level, thread_status
<1> QED
  BY <1>2, <1>4, <1>5, <1>7, <1>8, <1>9, PathMove

LEMMA RestoreAllInv ==
    ASSUME IInv, Booted, RESTORE_ALL
    PROVE  IInv'
<1>1. pc = "restore" /\ pc \in TrapLabel
  BY DEF RESTORE_ALL, TrapLabel
<1>2. PICK c, r : InPath(c, r)
  BY <1>1, GetPath
<1>3. /\ Top.epc = r /\ r = Target /\ Top.s0 = job[c] /\ Top.depth = Height(c, r) /\ sstatus.spie
  BY <1>1, <1>2 DEF InPath, InTrap
<1>4. /\ TypeOK /\ sp \in Stack /\ Depth \in Nat /\ Depth >= Height(c, r) /\ ~ sstatus.sie
      /\ Height(c, r) \in Nat /\ Interruptible(c, r) /\ r \in CallLabel /\ r \in Label /\ job[c] \in Reg
  BY <1>2, PathFacts
<1>5. /\ ProcsKeep /\ UNCHANGED <<context, sp, current, from, sstatus>>
      /\ sepc' = r /\ s0' = job[c] /\ pc' = "sret"
  BY <1>3 DEF RESTORE_ALL, restore_gprs, ProcsKeep, memory, fields, tables, ghosts
<1> DEFINE n == Height(c, r)
<1>6. n \in 0 .. Depth /\ frames' = [frames EXCEPT ![sp] = SubSeq(@, 1, n)]
  BY <1>3, <1>4 DEF RESTORE_ALL
<1>7. n \in Nat
  BY <1>4
<1> HIDE DEF n
<1>8. /\ frames' \in [Stack -> Seq(Frame)] /\ OthersKeep /\ Len(frames'[sp]) = n
      /\ SameUpTo(n, frames'[sp], frames[sp])
  BY <1>4, <1>6, CutFacts
<1>9. TypeOK'
  BY <1>4, <1>5, <1>8, SMTT(20) DEF TypeOK, RESTORE_ALL, memory, fields, tables, ghosts, Label
<1>10. InTrap(c, r)'
  <2>1. Target' = r /\ Depth' = n
    BY <1>3, <1>5, <1>8 DEF Target, Depth
  <2> QED
    BY <1>3, <1>4, <1>5, <2>1
    DEF InTrap, TrapLabel, ProcsKeep, Interruptible, Height, Base, Level, n
<1>11. SameUpTo(Height(c, r), frames'[sp], frames[sp]) /\ Len(frames'[sp]) = Height(c, r)
  BY <1>8 DEF n
<1> QED
  BY <1>2, <1>4, <1>5, <1>8, <1>9, <1>10, <1>11, PathMove

LEMMA SretInv ==
    ASSUME IInv, Booted, Sret
    PROVE  IInv'
<1>1. pc = "sret" /\ pc \in TrapLabel
  BY DEF Sret, TrapLabel
<1>2. PICK c, r : InPath(c, r)
  BY <1>1, GetPath
<1>3. Depth = Height(c, r) /\ s0 = job[c] /\ sstatus.spie /\ sepc = r
  BY <1>1, <1>2 DEF InPath, InTrap
<1>4. /\ TypeOK /\ sp \in Stack /\ Depth \in Nat /\ sstatus \in Status
      /\ Height(c, r) \in Nat /\ Interruptible(c, r) /\ r \in CallLabel /\ r \in Label
  BY <1>2, PathFacts
<1>5. ProcsKeep /\ UNCHANGED <<context, sp, current, frames, s0>> /\ pc' = r /\ from' = NoTrap
  BY <1>3 DEF Sret, ProcsKeep, memory, fields, tables
<1>6. sstatus' \in Status /\ sstatus'.sie = TRUE
  BY <1>3, <1>4 DEF Sret, Status
<1>7. TypeOK'
  BY <1>4, <1>5, <1>6 DEF TypeOK, Sret, csrs, memory, fields, tables, NoTrap, Cause
<1>8. /\ OthersKeep /\ SameUpTo(Height(c, r), frames'[sp], frames[sp]) /\ Len(frames'[sp]) = Depth
  BY <1>5 DEF OthersKeep, SameUpTo, Depth
<1>9. At(c, r)'
  <2>1. Depth' = Height(c, r)
    BY <1>3, <1>5 DEF Depth
  <2>2. Interruptible(c, r) = TRUE
    BY <1>4 DEF Interruptible
  <2> QED
    BY <1>3, <1>5, <1>6, <2>1, <2>2 DEF At, ProcsKeep, Interruptible, Height, Base, Level
<1> QED
  BY <1>2, <1>3, <1>4, <1>5, <1>7, <1>8, <1>9, PathMove

LEMMA ForkretInv ==
    ASSUME IInv, Booted, forkret
    PROVE  IInv'
<1> DEFINE r == "kernel_thread_entry"
<1>1. /\ pc = "forkret" /\ pc \in CallLabel /\ "forkret" \in CallLabel /\ "forkret" \in Plain
      /\ r \in ThreadLabel /\ r \in CallLabel /\ r \in Plain
  BY DEF forkret, CallLabel, Plain, ThreadLabel, SchedLabel, SwitchLabel, ForkLabel, ForkMid
<1>2. PICK c \in Threads : Ready(c, "forkret")
  BY <1>1, GetReady
<1>3. /\ TypeOK /\ c = current /\ c \in Proc /\ sp \in Stack /\ Born(c, frames[sp]) /\ sp = kstack[c]
      /\ ~ sstatus.sie /\ Own(c, "forkret") /\ Depth = Height(c, "forkret")
      /\ Allocated("forkret", frames[sp][Base(c) + 1])
  BY <1>1, <1>2, ReadyFacts, InterruptibleFacts DEF Calls
<1>4. c # idleproc /\ Base(c) = 1 /\ Depth = 1
  <2>1. c # idleproc
    BY <1>3 DEF Own
  <2> QED
    BY <2>1, <1>1, <1>3, HeightFacts
<1>5. /\ ProcsKeep /\ UNCHANGED <<context, sp, current, sstatus, s0>> /\ pc' = "__trapret"
      /\ from' = [at |-> r, cause |-> "none"]
  BY <1>3 DEF forkret, ProcsKeep, memory, fields, tables
<1>6. frames' = [frames EXCEPT ![sp] = SubSeq(@, 1, 1)]
  BY <1>3 DEF forkret
<1>7. /\ frames' \in [Stack -> Seq(Frame)] /\ OthersKeep /\ Len(frames'[sp]) = 1
      /\ SameUpTo(1, frames'[sp], frames[sp])
  <2>1. 1 \in 0 .. Depth
    BY <1>4
  <2> QED
    BY <1>3, <1>6, <2>1, CutFacts
<1>8. TypeOK'
  BY <1>3, <1>5, <1>7 DEF TypeOK, forkret, csrs, memory, fields, tables, Label, Cause
<1>9. Born(c, frames[sp])'
  <2>1. 1 \in Nat
    OBVIOUS
  <2> QED
    BY <1>3, <1>4, <1>5, <1>7, <2>1, BornMove
<1>10. Calls(c, r, frames[sp])'
  BY <1>9, <1>1, CallsIntro
<1>11. Own(c, r) /\ r # "switch_to" /\ Interruptible(c, r) /\ Height(c, r) = 1
  BY <1>1, <1>4, OwnFacts, InterruptibleFacts, HeightFacts
<1>12. Allocated(r, frames[sp][Base(c) + 1])'
  <2>1. "forkret" \notin ForkMid /\ r \notin ForkMid
    BY DEF ForkMid
  <2>2. kmem = Threads /\ kpages = Stacks
    BY <1>3, <2>1 DEF Allocated
  <2>3. kmem' = Threads' /\ kpages' = Stacks'
    BY <1>5, <2>2, KeepFacts DEF ProcsKeep
  <2> QED
    BY <2>1, <2>3 DEF Allocated
<1>13. InTrap(c, r)'
  <2>1. Top' = Birth(c)
    <3>1. frames'[sp][1] = frames[sp][1]
      BY <1>7 DEF SameUpTo
    <3>2. frames[sp][1] = Birth(c)
      BY <1>3, <1>4 DEF Born
    <3> QED
      BY <1>5, <1>7, <3>1, <3>2 DEF Top, Depth
  <2>2. Target' = r
    BY <1>5 DEF Target
  <2>3. Birth(c).kind = "trap" /\ Birth(c).epc = r /\ Birth(c).s0 = job[c] /\ Birth(c).status = thread_status /\ Birth(c).depth = 1
    BY DEF Birth, TrapFrame
  <2> QED
    BY <1>3, <1>5, <1>11, <2>1, <2>2, <2>3
    DEF InTrap, TrapLabel, ProcsKeep, Interruptible, Height, Base, Level, thread_status
<1>14. Running(c, r)'
  BY <1>1, <1>3, <1>5, <1>10, <1>11, <1>12, <1>13, RunningMove
<1> QED
  BY <1>1, <1>2, <1>3, <1>5, <1>7, <1>8, <1>14, MoveInv DEF Ready

-----------------------------------------------------------------------------
(* switch_to: the one process's context is saved, the other's loaded.  *)

LEMMA SwitchToInv ==
    ASSUME IInv, Booted, SwitchTo
    PROVE  IInv'
<1>1. /\ pc = "switch_to" /\ "switch_to" \in CallLabel /\ "switch_to" \in SwitchLabel
      /\ "proc_run_ret" \in SwitchLabel /\ pc \in CallLabel
  BY DEF SwitchTo, CallLabel, SwitchLabel
<1>2. PICK c \in Threads : Ready(c, "switch_to")
  BY <1>1, GetReady
<1>3. Depth = Base(c) + 2 /\ \E n \in Threads : Top = RunTo(c, n) /\ n = current /\ n # c
  BY <1>1, <1>2, RunTop
<1>4. PICK n \in Threads : Top = RunTo(c, n) /\ n = current /\ n # c
  BY <1>3
<1>5. /\ TypeOK /\ c \in Proc /\ sp = kstack[c] /\ Depth = Height(c, "switch_to")
      /\ Len(frames[sp]) = Depth
      /\ ~ sstatus.sie /\ s0 = job[c] /\ Calls(c, "switch_to", frames[sp])
      /\ Allocated("switch_to", frames[sp][Base(c) + 1]) /\ OthersWait(c)
  BY <1>1, <1>2, ReadyFacts, InterruptibleFacts DEF Depth, Ready
<1>6. n \in Proc /\ Top.prev = c /\ Top.next = n
  BY <1>4, <1>5, ThreadsFacts, RunFacts
<1>7. /\ context' = [context EXCEPT ![c] = [ra |-> "proc_run_ret", sp |-> sp, s0 |-> s0]]
      /\ pc' = context[n].ra /\ sp' = context[n].sp /\ s0' = context[n].s0
      /\ ProcsKeep /\ UNCHANGED <<frames, current, sstatus>>
  BY <1>6 DEF SwitchTo, switch_to, ProcsKeep, memory, fields, tables, ghosts
<1> PICK r : r = context[n].ra
  OBVIOUS
<1>8. /\ r \in {"forkret", "proc_run_ret"} /\ Own(n, r) /\ context[n].sp = kstack[n]
      /\ r = "proc_run_ret" => context[n].s0 = job[n]
      /\ Calls(n, r, frames[kstack[n]]) /\ Len(frames[kstack[n]]) = Height(n, r)
  BY <1>4, <1>5 DEF OthersWait, Waits
<1>9. r \in CallLabel /\ r # "switch_to" /\ r \notin ForkMid /\ r \in Label /\ ~ Interruptible(n, r)
  BY <1>8, InterruptibleFacts DEF Own, ForkMid, Label, SwitchLabel
<1>10. kstack[n] \in Stack
  BY DEF IInv, StacksInv
<1>11. TypeOK'
  <2>1. context \in [Proc -> [ra : Label \union {"none"}, sp : Stack \union {NONE}, s0 : Reg]]
    BY <1>5 DEF TypeOK
  <2>2. "proc_run_ret" \in Label /\ sp \in Stack /\ s0 \in Reg
    BY <1>5 DEF TypeOK, Label
  <2>3. context' \in [Proc -> [ra : Label \union {"none"}, sp : Stack \union {NONE}, s0 : Reg]]
    BY <1>7, <2>1, <2>2
  <2>4. s0' \in Reg /\ sp' \in Stack /\ pc' \in Label
    BY <1>6, <1>7, <1>8, <1>9, <1>10, <2>1
  <2> QED
    BY <1>5, <2>3, <2>4 DEF TypeOK, SwitchTo, csrs, memory, fields, tables, ghosts
<1>12. Threads' = Threads /\ TablesInv' /\ StacksInv'
  BY <1>7, KeepFacts DEF IInv, StacksInv
<1>13. Running(n, r)'
  <2>1. sp' = kstack[n]
    BY <1>7, <1>8
  <2>2. Calls(n, r, frames[sp])'
    BY <1>7, <1>8, <1>12, <2>1 DEF Calls, Born, InSched, InRun, InFork, Birth, ProcsKeep
  <2>3. Allocated(r, frames[sp][Base(n) + 1])'
    <3>1. kmem = Threads /\ kpages = Stacks
      BY <1>5 DEF Allocated, ForkMid
    <3> QED
      BY <1>7, <1>9, <3>1, KeepFacts DEF Allocated, ProcsKeep
  <2>4. At(n, r)'
    <3>1. Depth' = Height(n, r)
      BY <1>7, <1>8, <2>1 DEF Depth
    <3>2. r # "forkret" => s0' = job'[n]
      BY <1>7, <1>8 DEF ProcsKeep
    <3>3. sstatus'.sie = FALSE /\ Interruptible(n, r) = FALSE
      BY <1>5, <1>7, <1>9 DEF TypeOK, Status, Interruptible
    <3>4. pc' = r
      BY <1>7
    <3> QED
      BY <3>1, <3>2, <3>3, <3>4 DEF At, Height, Base, Level, Interruptible
  <2> QED
    BY <1>4, <1>7, <1>8, <1>9, <2>1, <2>2, <2>3, <2>4, RunningMove
<1>14. Waits(c)'
  <2>1. context'[c] = [ra |-> "proc_run_ret", sp |-> kstack[c], s0 |-> job[c]]
    BY <1>5, <1>7 DEF TypeOK
  <2>2. /\ context'[c].ra = "proc_run_ret" /\ context'[c].sp = kstack'[c] /\ context'[c].s0 = job'[c]
    BY <1>7, <2>1 DEF ProcsKeep
  <2>3. Own(c, "proc_run_ret") /\ Len(frames'[kstack'[c]]) = Height(c, "proc_run_ret")
    BY <1>1, <1>5, <1>7, OwnFacts, HeightFacts DEF ProcsKeep
  <2>4. frames'[kstack'[c]] = frames[sp]
    BY <1>5, <1>7 DEF ProcsKeep
  <2>5. Calls(c, "proc_run_ret", frames[kstack[c]])'
    <3>1. Born(c, frames[kstack[c]])'
      BY <1>5, <2>4, <1>7 DEF Calls, Born, Birth, ProcsKeep
    <3>2. SchedAt(c, "proc_run_ret") = SchedAt(c, "switch_to")
      BY DEF SchedAt, SchedFrame
    <3>3. /\ Len(frames[sp]) >= Base(c) + 2 /\ frames[sp][Base(c) + 1] = SchedAt(c, "proc_run_ret")
          /\ \E k \in Threads : frames[sp][Base(c) + 2] = RunTo(c, k)
      BY <1>1, <1>5, <3>2 DEF Calls, InSched, InRun
    <3> QED
      BY <1>1, <1>12, <2>4, <3>1, <3>3, CallsIntro
  <2> QED
    BY <2>2, <2>3, <2>5 DEF Waits, Own, Height, Base, Level
<1>15. ASSUME NEW p \in Threads, p # n, p # c PROVE Waits(p)'
  <2>1. p \in Proc /\ context'[p] = context[p]
    BY <1>5, <1>7, <1>15, ThreadsFacts DEF TypeOK
  <2>2. Waits(p)
    BY <1>5, <1>15 DEF OthersWait
  <2> QED
    BY <1>7, <1>12, <2>1, <2>2, WaitsKept DEF ProcsKeep
<1>16. RunInv'
  <2>1. OthersWait(n)'
    BY <1>12, <1>14, <1>15 DEF OthersWait
  <2> QED
    BY <1>9, <1>12, <1>13, <2>1 DEF RunInv
<1>17. Booted'
  BY <1>7 DEF Booted
<1> QED
  BY <1>11, <1>12, <1>16, <1>17 DEF IInv

-----------------------------------------------------------------------------
(* There is always a free proc_struct and a free stack below the limit.  *)

LEMMA ImageSize ==
    ASSUME NEW S, NEW T, IsFiniteSet(S), NEW f \in [S -> T], \A t \in T : \E x \in S : f[x] = t
    PROVE  IsFiniteSet(T) /\ Cardinality(T) <= Cardinality(S)
<1>1. f \in Surjection(S, T)
  BY DEF Surjection
<1> QED
  BY <1>1, FS_Surjection

LEMMA RoomFacts ==
    ASSUME TypeOK, TablesInv, StacksInv, nr_process < MAX_PROCESS
    PROVE  /\ Lowest(Proc \ Threads) \in Proc \ Threads
           /\ Lowest(Stack \ Stacks) \in Stack \ Stacks
<1> DEFINE n == Len(proc_list)
<1>1. /\ n \in Nat /\ proc_list \in [1 .. n -> Proc] /\ nr_process = n + 1
      /\ Stack = Proc /\ Proc \subseteq Nat /\ Threads \subseteq Proc
  BY ThreadsFacts, SMTT(20) DEF TypeOK, TablesInv
<1>2. IsFiniteSet(Proc) /\ Cardinality(Proc) = MAX_PROCESS + 1
  BY FS_Interval, GetPidAssumption DEF Proc
<1>3. IsFiniteSet(1 .. n) /\ Cardinality(1 .. n) = n
  <2>1. n \in Int /\ n \in Nat
    BY <1>1
  <2> HIDE DEF n
  <2> QED
    BY <2>1, FS_Interval
<1>4. IsFiniteSet(Listed) /\ Cardinality(Listed) <= n
  <2>1. proc_list \in [1 .. n -> Listed] /\ \A t \in Listed : \E x \in 1 .. n : proc_list[x] = t
    BY <1>1 DEF Listed
  <2> QED
    BY <1>3, <2>1, ImageSize
<1>5. IsFiniteSet(Threads) /\ Cardinality(Threads) <= n + 1 /\ Cardinality(Threads) \in Nat
  <2>1. IsFiniteSet(Listed \union {idleproc})
    BY <1>4, FS_AddElement
  <2>2. Cardinality(Listed \union {idleproc}) <= Cardinality(Listed) + 1
    BY <1>4, FS_AddElement, FS_CardinalityType
  <2>3. Cardinality(Listed) \in Nat /\ Cardinality(Listed \union {idleproc}) \in Nat
    BY <1>4, <2>1, FS_CardinalityType
  <2> HIDE DEF n
  <2> QED
    BY <1>1, <1>4, <2>1, <2>2, <2>3 DEF Threads
<1>6. IsFiniteSet(Stacks) /\ Cardinality(Stacks) <= Cardinality(Threads) /\ Stacks \subseteq Stack
  <2> DEFINE f == [p \in Threads |-> kstack[p]]
  <2>1. f \in [Threads -> Stacks] /\ \A t \in Stacks : \E x \in Threads : f[x] = t
    BY DEF Stacks
  <2>2. Stacks \subseteq Stack
    BY DEF Stacks, StacksInv
  <2> HIDE DEF f
  <2> QED
    BY <1>5, <2>1, <2>2, ImageSize
<1>7. Cardinality(Threads) < Cardinality(Proc)
  BY <1>1, <1>2, <1>5, GetPidAssumption DEF TypeOK
<1>8. Cardinality(Stacks) < Cardinality(Proc)
  BY <1>2, <1>5, <1>6, <1>7, FS_CardinalityType
<1>9. Proc \ Threads # {} /\ Stack \ Stacks # {}
  <2>1. Cardinality(Proc) \in Nat /\ Cardinality(Threads) \in Nat /\ Cardinality(Stacks) \in Nat
    BY <1>2, <1>5, <1>6, FS_CardinalityType
  <2>2. Cardinality(Threads) # Cardinality(Proc) /\ Cardinality(Stacks) # Cardinality(Proc)
    BY <1>7, <1>8, <2>1
  <2>3. Threads # Proc /\ Stacks # Proc
    BY <2>2
  <2> QED
    BY <1>1, <1>6, <2>3
<1>10. Proc \ Threads \subseteq Nat /\ Stack \ Stacks \subseteq Nat
  BY <1>1
<1> QED
  BY <1>9, <1>10, LowestFacts

-----------------------------------------------------------------------------
(* do_fork.  *)

\* What a step of do_fork before the last leaves alone.
ThreadsKept ==
    /\ UNCHANGED <<proc_list, hash_list, nr_process, job>>
    /\ \A q \in Threads : pid'[q] = pid[q] /\ kstack'[q] = kstack[q] /\ context'[q] = context[q]
    /\ \A k \in Stacks \ {sp} : frames'[k] = frames[k]

LEMMA KeptFacts ==
    ASSUME ThreadsKept
    PROVE  /\ Listed' = Listed /\ Threads' = Threads /\ Stacks' = Stacks
           /\ TablesInv => TablesInv'
           /\ current' \in Threads /\ StacksInv => StacksInv'
<1>1. Listed' = Listed
  BY DEF ThreadsKept, Listed
<1>2. Threads' = Threads /\ Listed \subseteq Threads
  BY <1>1 DEF Threads
<1>3. Stacks' = Stacks
  BY <1>2 DEF Stacks, ThreadsKept
<1>4. TablesInv => TablesInv'
  <2>1. \A p \in Listed : pid'[p] = pid[p]
    BY <1>2 DEF ThreadsKept
  <2> QED
    BY <1>1, <2>1 DEF TablesInv, ThreadsKept
<1>5. current' \in Threads /\ StacksInv => StacksInv'
  BY <1>2 DEF StacksInv, ThreadsKept
<1> QED
  BY <1>1, <1>2, <1>3, <1>4, <1>5

LEMMA ForkMove ==
    ASSUME NEW c, NEW q \in ForkLabel, Ready(c, q), ThreadsKept, TypeOK',
           UNCHANGED <<sp, s0, sstatus, current>>,
           NEW r \in CallLabel, Own(c, r), Interruptible(c, r) = Interruptible(c, q),
           r # "switch_to", pc' = r, Len(frames'[sp]) = Height(c, r),
           Calls(c, r, frames[sp])', Allocated(r, frames[sp][Base(c) + 1])'
    PROVE  IInv'
<1>1. /\ q \in CallLabel /\ c = current /\ c \in Threads /\ sp = kstack[c] /\ s0 = job[c]
      /\ sstatus.sie = Interruptible(c, q)
  <2>1. q \in CallLabel /\ q # "switch_to" /\ q # "forkret"
    BY DEF CallLabel, ForkLabel, ForkMid
  <2> QED
    BY <2>1, ReadyFacts
<1>2. Threads' = Threads /\ TablesInv' /\ StacksInv'
  BY <1>1, KeptFacts DEF Ready, IInv
<1>3. At(c, r)'
  BY <1>1 DEF At, ThreadsKept, Depth, Height, Base, Level, Interruptible
<1>4. Running(c, r)'
  BY <1>1, <1>2, <1>3 DEF Running, ThreadsKept, Own
<1>5. OthersWait(c)'
  <2>1. ASSUME NEW p \in Threads, p # c PROVE Waits(p)'
    <3>1. kstack[p] \in Stacks \ {sp}
      BY <2>1, <1>1 DEF Ready, IInv, StacksInv, Stacks
    <3>2. frames'[kstack[p]] = frames[kstack[p]] /\ kstack'[p] = kstack[p] /\ context'[p] = context[p]
      BY <3>1 DEF ThreadsKept
    <3> QED
      BY <2>1, <1>2, <3>2, WaitsKept DEF ThreadsKept, Ready, OthersWait
  <2> QED
    BY <1>2, <2>1 DEF OthersWait
<1>6. Booted'
  BY DEF Booted, Ready
<1> QED
  BY <1>1, <1>2, <1>4, <1>5, <1>6 DEF IInv, RunInv

\* do_fork goes on.
LEMMA ForkStay ==
    ASSUME NEW c, NEW q \in ForkLabel, Ready(c, q), ThreadsKept, TypeOK',
           UNCHANGED <<sp, s0, sstatus, current>>,
           NEW r \in ForkLabel, pc' = r, Len(frames'[sp]) = Depth,
           SameUpTo(Depth - 1, frames'[sp], frames[sp]),
           NEW fn \in Fn, NEW p \in Proc \union {NONE}, frames'[sp][Depth] = ForkAt(c, fn, p),
           Allocated(r, ForkAt(c, fn, p))'
    PROVE  IInv'
<1>1. q \in CallLabel /\ Depth = Base(c) + 1 /\ Base(c) \in {0, 1} /\ Born(c, frames[sp])
  BY ForkTop, HeightFacts, ReadyFacts DEF Calls
<1>2. r \in CallLabel /\ Own(c, r) /\ Height(c, r) = Base(c) + 1 /\ r # "switch_to"
  BY OwnFacts, HeightFacts DEF ForkLabel, ForkMid
<1>3. Interruptible(c, r) = Interruptible(c, q)
  BY DEF Interruptible, ForkLabel, ForkMid, ThreadLabel
<1>4. Born(c, frames[sp])'
  <2>1. Birth(c)' = Birth(c)
    BY DEF Birth, ThreadsKept
  <2>2. Base(c) = 1 => frames'[sp][1] = frames[sp][1]
    BY <1>1 DEF SameUpTo
  <2>3. c # idleproc => Base(c) = 1
    BY <1>1, HeightFacts
  <2>4. Len(frames'[sp]) >= Base(c)
    BY <1>1
  <2> QED
    BY <1>1, <2>1, <2>2, <2>3, <2>4 DEF Born
<1>5. frames'[sp][Base(c) + 1] = ForkAt(c, fn, p) /\ Len(frames'[sp]) >= Base(c) + 1
  BY <1>1
<1>6. Calls(c, r, frames[sp])'
  BY <1>4, <1>5, CallsIntro
<1>7. Allocated(r, frames[sp][Base(c) + 1])'
  <2>1. (frames[sp][Base(c) + 1])' = ForkAt(c, fn, p)
    BY <1>5
  <2> QED
    BY <2>1 DEF Allocated
<1> QED
  BY <1>1, <1>2, <1>3, <1>6, <1>7, ForkMove

\* do_fork gives up: nothing it has allocated is left.
LEMMA ForkLeave ==
    ASSUME NEW c, NEW q \in ForkLabel, Ready(c, q), ThreadsKept, TypeOK',
           UNCHANGED <<sp, s0, sstatus, current>>, fork_out(-1),
           kmem' = Threads, kpages' = Stacks
    PROVE  IInv'
<1> PICK r : r = ForkHome(c)
  OBVIOUS
<1>1. /\ q \in CallLabel /\ Depth = Base(c) + 1 /\ Base(c) \in {0, 1} /\ Born(c, frames[sp])
      /\ TypeOK /\ Depth \in Nat /\ Len(frames[sp]) = Depth /\ frames[sp] \in Seq(Frame)
  BY ForkTop, HeightFacts, ReadyFacts DEF Calls, Depth, TypeOK
<1>2. Top.ra = r
  BY ForkTop, ForkFacts
<1>3. r \in CallLabel /\ r \in Plain /\ Own(c, r) /\ Height(c, r) = Base(c) /\ r # "switch_to" /\ r \notin ForkMid
  BY HomeFacts DEF Plain, SwitchLabel, ForkLabel
<1>4. Interruptible(c, r) = Interruptible(c, q)
  <2>1. Interruptible(c, r) = (c # idleproc)
    BY HomeFacts
  <2>2. Interruptible(c, q) = (c # idleproc)
    BY DEF Interruptible, ForkLabel, ForkMid, ThreadLabel
  <2> QED
    BY <2>1, <2>2
<1>5. Len(frames'[sp]) = Depth - 1 /\ SameUpTo(Depth - 1, frames'[sp], frames[sp])
  BY <1>1, PopFacts DEF fork_out
<1>6. Born(c, frames[sp])'
  <2>1. Birth(c)' = Birth(c)
    BY DEF Birth, ThreadsKept
  <2>2. Base(c) = 1 => frames'[sp][1] = frames[sp][1]
    BY <1>1, <1>5 DEF SameUpTo
  <2>3. c # idleproc => Base(c) = 1
    BY <1>1, HeightFacts
  <2>4. Len(frames'[sp]) >= Base(c)
    BY <1>1, <1>5
  <2> QED
    BY <1>1, <2>1, <2>2, <2>3, <2>4 DEF Born
<1>7. Calls(c, r, frames[sp])'
  BY <1>3, <1>6, CallsIntro
<1>8. Allocated(r, frames[sp][Base(c) + 1])'
  BY <1>3, KeptFacts DEF Allocated
<1>9. pc' = r /\ Len(frames'[sp]) = Height(c, r)
  BY <1>1, <1>2, <1>3, <1>5 DEF fork_out
<1> QED
  BY <1>1, <1>3, <1>4, <1>7, <1>8, <1>9, ForkMove

LEMMA ForkReady ==
    ASSUME NEW q \in ForkLabel, IInv, Booted, pc = q
    PROVE  \E c \in Threads, fn \in Fn, p \in Proc \union {NONE} :
             /\ Ready(c, q) /\ Top = ForkAt(c, fn, p) /\ Allocated(q, ForkAt(c, fn, p))
             /\ Top.ra = ForkHome(c) /\ Top.fn = fn /\ Top.proc = p
<1>1. pc \in CallLabel
  BY DEF CallLabel
<1>2. PICK c \in Threads : Ready(c, q)
  BY <1>1, GetReady
<1>3. PICK fn \in Fn, p \in Proc \union {NONE} : Top = ForkAt(c, fn, p)
  BY <1>2, ForkTop
<1>4. Allocated(q, Top) /\ Top.ra = ForkHome(c) /\ Top.fn = fn /\ Top.proc = p
  BY <1>2, <1>3, ForkTop, ForkFacts
<1>5. Allocated(q, ForkAt(c, fn, p))
  BY <1>3, <1>4
<1> QED
  BY <1>2, <1>3, <1>4, <1>5

LEMMA ForkTypes ==
    ASSUME NEW c, NEW q \in ForkLabel, Ready(c, q)
    PROVE  /\ TypeOK /\ TablesInv /\ StacksInv /\ sp \in Stack /\ sp \in Stacks /\ c \in Threads /\ c \in Proc
           /\ Depth \in Nat /\ Depth >= 1 /\ Len(frames[sp]) = Depth
           /\ frames \in [Stack -> Seq(Frame)]
<1>1. q \in CallLabel /\ Depth = Base(c) + 1
  BY ForkTop
<1>2. TypeOK /\ c \in Threads /\ c \in Proc /\ sp \in Stack /\ sp = kstack[c] /\ Depth \in Nat
  BY <1>1, ReadyFacts
<1>3. TablesInv /\ StacksInv
  BY DEF Ready, IInv
<1>4. Len(frames[sp]) = Depth /\ frames \in [Stack -> Seq(Frame)] /\ sp \in Stacks
  BY <1>2 DEF Depth, TypeOK, Stacks
<1>5. Depth >= 1
  BY <1>1, HeightFacts
<1> QED
  BY <1>2, <1>3, <1>4, <1>5

LEMMA ForkAllocProcInv ==
    ASSUME IInv, Booted, ForkAllocProc
    PROVE  IInv'
<1>1. pc = "do_fork" /\ "do_fork" \in ForkLabel /\ "setup_kstack" \in ForkLabel
  BY DEF ForkAllocProc, ForkLabel, ForkMid
<1>2. PICK c \in Threads, fn \in Fn, p0 \in Proc \union {NONE} :
         /\ Ready(c, "do_fork") /\ Top = ForkAt(c, fn, p0) /\ Allocated("do_fork", ForkAt(c, fn, p0))
         /\ Top.ra = ForkHome(c) /\ Top.fn = fn /\ Top.proc = p0
  BY <1>1, ForkReady
<1>3. /\ TypeOK /\ TablesInv /\ StacksInv /\ sp \in Stack /\ sp \in Stacks /\ c \in Threads /\ c \in Proc
      /\ Depth \in Nat /\ Depth >= 1 /\ Len(frames[sp]) = Depth
      /\ frames \in [Stack -> Seq(Frame)]
  BY <1>1, <1>2, ForkTypes
<1>4. kmem = Threads /\ kpages = Stacks
  BY <1>2 DEF Allocated, ForkMid
<1>5. /\ UNCHANGED <<sp, s0, sstatus, current, kpages, proc_list, hash_list, nr_process, job>>
  BY DEF ForkAllocProc, tables, ghosts
<1>6. CASE fork_out(-1) /\ UNCHANGED <<kmem, state, pid, kstack, need_resched, context>>
  <2>1. frames' \in [Stack -> Seq(Frame)] /\ OthersKeep
    BY <1>3, <1>6, PopFacts DEF fork_out
  <2>2. ThreadsKept
    BY <1>3, <1>5, <1>6, <2>1 DEF ThreadsKept, OthersKeep, StacksInv, Stacks
  <2>3. TypeOK'
    <3>1. ret' = -1 /\ -1 \in -1 .. MAX_PID - 1
      BY <1>6, GetPidAssumption DEF fork_out
    <3>2. pc' \in Label
      BY <1>2, <1>6, HomeFacts DEF fork_out
    <3> QED
      BY <1>3, <1>6, <2>1, <3>1, <3>2 DEF TypeOK, ForkAllocProc, csrs, ghosts
  <2> QED
    BY <1>1, <1>2, <1>4, <1>5, <1>6, <2>2, <2>3, ForkLeave
<1>7. ASSUME ~ ForkLimit, NEW p, p = Lowest(Proc \ kmem),
             kmem' = kmem \union {p},
             state' = [state EXCEPT ![p] = "UNINIT"],
             pid' = [pid EXCEPT ![p] = -1],
             kstack' = [kstack EXCEPT ![p] = NONE],
             need_resched' = [need_resched EXCEPT ![p] = FALSE],
             context' = [context EXCEPT ![p] = [ra |-> "none", sp |-> NONE, s0 |-> NOFN]],
             Replace(ForkFrame(Top.ra, Top.fn, p)), pc' = "setup_kstack", UNCHANGED ret
      PROVE  IInv'
  <2>1. nr_process < MAX_PROCESS /\ p \in Proc /\ p \notin Threads
    <3>1. nr_process < MAX_PROCESS
      BY <1>3, <1>7, GetPidAssumption DEF ForkLimit, TypeOK
    <3>2. Lowest(Proc \ Threads) \in Proc \ Threads
      BY <1>3, <3>1, RoomFacts
    <3> QED
      BY <1>4, <1>7, <3>1, <3>2
  <2> DEFINE f == ForkAt(c, fn, p)
  <2>2. f \in Frame /\ Replace(f)
    <3>1. ForkFrame(Top.ra, Top.fn, p) = f
      BY <1>2 DEF ForkAt
    <3>2. f \in Frame
      BY <2>1, ForkFacts
    <3> HIDE DEF f
    <3> QED
      BY <1>7, <3>1, <3>2
  <2>3. f.proc = p
    BY <2>1, ForkFacts
  <2> HIDE DEF f
  <2>4. /\ frames' \in [Stack -> Seq(Frame)] /\ OthersKeep /\ Len(frames'[sp]) = Depth
        /\ frames'[sp][Depth] = f /\ SameUpTo(Depth - 1, frames'[sp], frames[sp])
    BY <1>3, <2>2, ReplaceFacts
  <2>5. ThreadsKept
    <3>1. \A q \in Threads : pid'[q] = pid[q] /\ kstack'[q] = kstack[q] /\ context'[q] = context[q]
      BY <1>3, <1>7, <2>1, ThreadsFacts DEF TypeOK
    <3>2. \A k \in Stacks \ {sp} : frames'[k] = frames[k]
      BY <1>3, <2>4 DEF OthersKeep, StacksInv, Stacks
    <3> QED
      BY <1>5, <3>1, <3>2 DEF ThreadsKept
  <2>6. TypeOK'
    <3>1. pid' \in [Proc -> -1 .. MAX_PID - 1] /\ kstack' \in [Proc -> Stack \union {NONE}]
      <4>1. -1 \in -1 .. MAX_PID - 1
        BY GetPidAssumption
      <4> QED
        BY <1>3, <1>7, <4>1 DEF TypeOK
    <3>2. context' \in [Proc -> [ra : Label \union {"none"}, sp : Stack \union {NONE}, s0 : Reg]]
      BY <1>3, <1>7 DEF TypeOK, Reg
    <3>3. /\ state' \in [Proc -> {"UNINIT", "SLEEPING", "RUNNABLE"}]
          /\ need_resched' \in [Proc -> BOOLEAN] /\ kmem' \subseteq Proc
      BY <1>3, <1>7, <2>1 DEF TypeOK
    <3> QED
      BY <1>3, <1>7, <2>4, <3>1, <3>2, <3>3 DEF TypeOK, ForkAllocProc, csrs, ghosts, Label
  <2>7. Allocated("setup_kstack", f)'
    <3>1. Threads' = Threads /\ Stacks' = Stacks
      BY <2>5, KeptFacts
    <3> QED
      BY <1>4, <1>5, <1>7, <2>1, <2>3, <3>1 DEF Allocated, ForkMid
  <2> QED
    BY <1>1, <1>2, <1>5, <1>7, <2>1, <2>4, <2>5, <2>6, <2>7, ForkStay DEF f
<1>8. CASE /\ ~ ForkLimit
           /\ LET p == Lowest(Proc \ kmem) IN
              /\ kmem' = kmem \union {p}
              /\ state' = [state EXCEPT ![p] = "UNINIT"]
              /\ pid' = [pid EXCEPT ![p] = -1]
              /\ kstack' = [kstack EXCEPT ![p] = NONE]
              /\ need_resched' = [need_resched EXCEPT ![p] = FALSE]
              /\ context' = [context EXCEPT ![p] = [ra |-> "none", sp |-> NONE, s0 |-> NOFN]]
              /\ Replace(ForkFrame(Top.ra, Top.fn, p))
           /\ pc' = "setup_kstack"
           /\ UNCHANGED ret
  BY <1>7, <1>8
<1> QED
  BY <1>6, <1>8 DEF ForkAllocProc

LEMMA ForkSetupKstackInv ==
    ASSUME IInv, Booted, ForkSetupKstack
    PROVE  IInv'
<1>1. pc = "setup_kstack" /\ "setup_kstack" \in ForkLabel /\ "copy_thread" \in ForkLabel
  BY DEF ForkSetupKstack, ForkLabel, ForkMid
<1>2. PICK c \in Threads, fn \in Fn, p \in Proc \union {NONE} :
         /\ Ready(c, "setup_kstack") /\ Top = ForkAt(c, fn, p) /\ Allocated("setup_kstack", ForkAt(c, fn, p))
         /\ Top.ra = ForkHome(c) /\ Top.fn = fn /\ Top.proc = p
  BY <1>1, ForkReady
<1> DEFINE f == ForkAt(c, fn, p)
<1>3. f.proc = p
  BY DEF ForkAt, ForkFrame
<1> HIDE DEF f
<1>4. /\ TypeOK /\ TablesInv /\ StacksInv /\ sp \in Stack /\ sp \in Stacks /\ c \in Threads /\ c \in Proc
      /\ Depth \in Nat /\ Depth >= 1 /\ Len(frames[sp]) = Depth
      /\ frames \in [Stack -> Seq(Frame)]
  BY <1>1, <1>2, ForkTypes
<1>5. p \in Proc \ Threads /\ kmem = Threads \union {p} /\ nr_process < MAX_PROCESS /\ kpages = Stacks
  BY <1>2, <1>3 DEF Allocated, ForkMid, f
<1>6. UNCHANGED <<sp, s0, sstatus, current, proc_list, hash_list, nr_process, job, pid, context>>
  BY DEF ForkSetupKstack, ghosts
<1>7. CASE bad_fork_cleanup_proc /\ fork_out(-1) /\ UNCHANGED <<kpages, kstack>>
  <2>1. frames' \in [Stack -> Seq(Frame)] /\ OthersKeep
    BY <1>4, <1>7, PopFacts DEF fork_out
  <2>2. ThreadsKept
    BY <1>4, <1>6, <1>7, <2>1 DEF ThreadsKept, OthersKeep, StacksInv, Stacks
  <2>3. kmem' = Threads
    BY <1>2, <1>5, <1>7 DEF bad_fork_cleanup_proc
  <2>4. TypeOK'
    <3>1. ret' = -1 /\ -1 \in -1 .. MAX_PID - 1
      BY <1>7, GetPidAssumption DEF fork_out
    <3>2. pc' \in Label
      BY <1>2, <1>7, HomeFacts DEF fork_out
    <3>3. kmem' \subseteq Proc
      BY <1>4, <2>3, ThreadsFacts
    <3> QED
      BY <1>4, <1>7, <2>1, <3>1, <3>2, <3>3 DEF TypeOK, ForkSetupKstack, csrs, ghosts
  <2> QED
    BY <1>1, <1>2, <1>5, <1>6, <1>7, <2>2, <2>3, <2>4, ForkLeave
<1>8. ASSUME NEW k, k = Lowest(Stack \ kpages), kpages' = kpages \union {k},
             kstack' = [kstack EXCEPT ![Top.proc] = k],
             pc' = "copy_thread", UNCHANGED <<frames, ret, kmem>>
      PROVE  IInv'
  <2>1. k \in Stack \ Stacks
    BY <1>4, <1>5, <1>8, RoomFacts
  <2>2. kstack' = [kstack EXCEPT ![p] = k] /\ kstack \in [Proc -> Stack \union {NONE}]
    BY <1>2, <1>4, <1>8 DEF TypeOK
  <2>3. ThreadsKept
    <3>1. \A q \in Threads : kstack'[q] = kstack[q]
      BY <1>4, <1>5, <2>2, ThreadsFacts
    <3> QED
      BY <1>6, <1>8, <3>1 DEF ThreadsKept
  <2>4. TypeOK'
    <3>1. kstack' \in [Proc -> Stack \union {NONE}]
      BY <2>1, <2>2
    <3>2. kpages \subseteq Stack
      BY <1>4 DEF TypeOK
    <3>3. kpages' \subseteq Stack
      BY <1>8, <2>1, <3>2
    <3>4. pc' \in Label
      BY <1>8 DEF Label
    <3> QED
      BY <1>4, <1>8, <3>1, <3>3, <3>4 DEF TypeOK, ForkSetupKstack, csrs, ghosts
  <2>5. Allocated("copy_thread", f)'
    <3>1. Threads' = Threads /\ Stacks' = Stacks
      BY <2>3, KeptFacts
    <3>2. kstack'[p] = k
      BY <1>5, <2>2
    <3> QED
      BY <1>3, <1>5, <1>6, <1>8, <2>1, <3>1, <3>2 DEF Allocated, ForkMid
  <2>6. Len(frames'[sp]) = Depth /\ SameUpTo(Depth - 1, frames'[sp], frames[sp]) /\ frames'[sp][Depth] = f
    BY <1>2, <1>4, <1>8 DEF SameUpTo, Top, f
  <2> QED
    BY <1>1, <1>2, <1>5, <1>6, <1>8, <2>3, <2>4, <2>5, <2>6, ForkStay DEF f
<1>9. CASE /\ LET k == Lowest(Stack \ kpages) IN
              /\ kpages' = kpages \union {k}
              /\ kstack' = [kstack EXCEPT ![Top.proc] = k]
           /\ pc' = "copy_thread"
           /\ UNCHANGED <<frames, ret, kmem>>
  BY <1>8, <1>9
<1> QED
  BY <1>7, <1>9 DEF ForkSetupKstack

LEMMA CopyThreadInv ==
    ASSUME IInv, Booted, copy_thread
    PROVE  IInv'
<1>1. pc = "copy_thread" /\ "copy_thread" \in ForkLabel /\ "get_pid" \in ForkLabel
  BY DEF copy_thread, ForkLabel, ForkMid
<1>2. PICK c \in Threads, fn \in Fn, p \in Proc \union {NONE} :
         /\ Ready(c, "copy_thread") /\ Top = ForkAt(c, fn, p) /\ Allocated("copy_thread", ForkAt(c, fn, p))
         /\ Top.ra = ForkHome(c) /\ Top.fn = fn /\ Top.proc = p
  BY <1>1, ForkReady
<1> DEFINE f == ForkAt(c, fn, p)
           b == TrapFrame("kernel_thread_entry", "none", fn, thread_status, 1)
<1>3. f.proc = p /\ f.fn = fn
  BY DEF ForkAt, ForkFrame
<1>4. b \in Frame /\ <<b>> \in Seq(Frame)
  <2>1. b \in Frame
    <3>1. thread_status \in Status /\ "kernel_thread_entry" \in Label /\ "none" \in Cause /\ fn \in Reg /\ 1 \in Nat
      BY DEF thread_status, Status, Label, Cause, Reg
    <3> QED
      BY <3>1, FrameTypes
  <2> HIDE DEF b
  <2> QED
    BY <2>1
<1> HIDE DEF f, b
<1> PICK k : k = kstack[p]
  OBVIOUS
<1>5. /\ TypeOK /\ TablesInv /\ StacksInv /\ sp \in Stack /\ sp \in Stacks /\ c \in Threads /\ c \in Proc
      /\ Depth \in Nat /\ Depth >= 1 /\ Len(frames[sp]) = Depth
      /\ frames \in [Stack -> Seq(Frame)]
  BY <1>1, <1>2, ForkTypes
<1>6. /\ p \in Proc \ Threads /\ kmem = Threads \union {p} /\ nr_process < MAX_PROCESS
      /\ k \in Stack \ Stacks /\ kpages = Stacks \union {k}
  BY <1>2, <1>3 DEF Allocated, ForkMid, f
<1>7. /\ UNCHANGED <<sp, s0, sstatus, current, proc_list, hash_list, nr_process, job, pid, kmem, kpages, kstack>>
      /\ pc' = "get_pid"
  BY DEF copy_thread, ghosts, tables, memory, fields
<1>8. /\ frames' = [frames EXCEPT ![k] = <<b>>]
      /\ context' = [context EXCEPT ![p].ra = "forkret", ![p].sp = k]
  BY <1>2 DEF copy_thread, b
<1>9. /\ frames' \in [Stack -> Seq(Frame)] /\ frames'[k] = <<b>>
      /\ \A i \in Stacks : frames'[i] = frames[i]
  BY <1>4, <1>5, <1>6, <1>8 DEF StacksInv, Stacks
<1>10. /\ context' \in [Proc -> [ra : Label \union {"none"}, sp : Stack \union {NONE}, s0 : Reg]]
       /\ context'[p].ra = "forkret" /\ context'[p].sp = k /\ \A q \in Threads : context'[q] = context[q]
  <2>1. context \in [Proc -> [ra : Label \union {"none"}, sp : Stack \union {NONE}, s0 : Reg]]
    BY <1>5 DEF TypeOK
  <2>2. "forkret" \in Label
    BY DEF Label
  <2> DEFINE e == [context[p] EXCEPT !.ra = "forkret", !.sp = k]
  <2>3. context' = [context EXCEPT ![p] = e]
    BY <1>6, <1>8, <2>1
  <2>4. /\ e \in [ra : Label \union {"none"}, sp : Stack \union {NONE}, s0 : Reg]
        /\ e.ra = "forkret" /\ e.sp = k
    BY <1>6, <2>1, <2>2
  <2> HIDE DEF e
  <2>5. p \in Proc /\ \A q \in Threads : q \in Proc /\ q # p
    BY <1>5, <1>6, ThreadsFacts
  <2> QED
    BY <2>1, <2>3, <2>4, <2>5
<1>11. ThreadsKept
  BY <1>7, <1>9, <1>10 DEF ThreadsKept
<1>12. TypeOK'
  BY <1>5, <1>9, <1>10, SMTT(20) DEF TypeOK, copy_thread, csrs, memory, fields, tables, ghosts, Label
<1>13. Allocated("get_pid", f)'
  <2>1. Threads' = Threads /\ Stacks' = Stacks
    BY <1>11, KeptFacts
  <2>2. frames'[kstack'[p]] = <<TrapFrame("kernel_thread_entry", "none", fn, thread_status, 1)>>
    BY <1>7, <1>9 DEF b
  <2>3. context'[p].ra = "forkret" /\ context'[p].sp = kstack'[p]
    BY <1>7, <1>10
  <2> QED
    BY <1>3, <1>6, <1>7, <2>1, <2>2, <2>3 DEF Allocated, ForkMid, thread_status
<1>14. Len(frames'[sp]) = Depth /\ SameUpTo(Depth - 1, frames'[sp], frames[sp]) /\ frames'[sp][Depth] = f
  BY <1>2, <1>5, <1>9 DEF SameUpTo, Top, f
<1> QED
  BY <1>1, <1>2, <1>6, <1>7, <1>11, <1>12, <1>13, <1>14, ForkStay DEF f

\* A process put at the head of a list.
Holds(s, x) == \E i \in 1 .. Len(s) : s[i] = x

LEMMA ConsFacts ==
    ASSUME NEW S, NEW s \in Seq(S), NEW e \in S
    PROVE  /\ <<e>> \o s \in Seq(S) /\ Len(<<e>> \o s) = Len(s) + 1
           /\ \A x : Holds(<<e>> \o s, x) <=> x = e \/ Holds(s, x)
<1> DEFINE t == <<e>> \o s
<1>1. <<e>> \in Seq(S) /\ Len(<<e>>) = 1 /\ <<e>>[1] = e /\ Len(s) \in Nat
  OBVIOUS
<1>2. /\ t \in Seq(S) /\ Len(t) = 1 + Len(s)
      /\ \A i \in 1 .. 1 + Len(s) : t[i] = IF i <= 1 THEN <<e>>[i] ELSE s[i - 1]
  BY <1>1, ConcatProperties
<1> HIDE DEF t
<1>3. t[1] = e
  BY <1>1, <1>2
<1>4. \A i \in 1 .. Len(s) : t[i + 1] = s[i]
  <2>1. TAKE i \in 1 .. Len(s)
  <2>2. i + 1 \in 1 .. 1 + Len(s) /\ ~ (i + 1 <= 1) /\ (i + 1) - 1 = i
    BY <1>1
  <2> QED
    BY <1>2, <2>2
<1>5. ASSUME NEW x, x = e \/ Holds(s, x) PROVE Holds(t, x)
  <2>1. CASE x = e
    BY <1>1, <1>2, <1>3, <2>1 DEF Holds
  <2>2. CASE Holds(s, x)
    <3>1. PICK i \in 1 .. Len(s) : s[i] = x
      BY <2>2 DEF Holds
    <3>2. i + 1 \in 1 .. Len(t) /\ t[i + 1] = x
      BY <1>1, <1>2, <1>4, <3>1
    <3> QED
      BY <3>2 DEF Holds
  <2> QED
    BY <1>5, <2>1, <2>2
<1>6. ASSUME NEW x, Holds(t, x) PROVE x = e \/ Holds(s, x)
  <2>1. PICK i \in 1 .. Len(t) : t[i] = x
    BY <1>6 DEF Holds
  <2>2. CASE i = 1
    BY <1>3, <2>1, <2>2
  <2>3. CASE i # 1
    <3>1. i - 1 \in 1 .. Len(s) /\ (i - 1) + 1 = i
      BY <1>1, <1>2, <2>1, <2>3
    <3>2. s[i - 1] = x
      BY <1>4, <2>1, <3>1
    <3> QED
      BY <3>1, <3>2 DEF Holds
  <2> QED
    BY <2>2, <2>3
<1> QED
  BY <1>1, <1>2, <1>5, <1>6 DEF t

\* The lists and the hash table after a process is linked.
LEMMA LinkTables ==
    ASSUME TypeOK, TablesInv, NEW p \in Proc \ Threads, NEW r \in Pid \ PidsTaken,
           pid' = [pid EXCEPT ![p] = r],
           hash_list' = [hash_list EXCEPT ![pid_hashfn(r)] = <<p>> \o @],
           proc_list' = <<p>> \o proc_list, nr_process' = nr_process + 1
    PROVE  /\ TablesInv' /\ Listed' = Listed \union {p} /\ Threads' = Threads \union {p}
           /\ hash_list' \in [Bucket -> Seq(Proc)] /\ proc_list' \in Seq(Proc)
           /\ pid' \in [Proc -> -1 .. MAX_PID - 1]
<1>1. /\ proc_list \in Seq(Proc) /\ hash_list \in [Bucket -> Seq(Proc)] /\ pid \in [Proc -> -1 .. MAX_PID - 1]
      /\ Listed \subseteq Proc /\ p # idleproc /\ p \notin Listed
  BY ThreadsFacts DEF TypeOK, Threads
<1>2. Listed = {x \in Proc : Holds(proc_list, x)}
  BY <1>1 DEF Listed, Holds
<1>3. /\ proc_list' \in Seq(Proc) /\ Len(proc_list') = Len(proc_list) + 1
      /\ \A x : Holds(proc_list', x) <=> x = p \/ Holds(proc_list, x)
  BY <1>1, ConsFacts
<1>4. Listed' = {proc_list'[i] : i \in 1 .. Len(proc_list')}
  BY DEF Listed
<1>5. Listed' = {x \in Proc : Holds(proc_list', x)}
  <2> PICK t : t = proc_list'
    OBVIOUS
  <2>1. \A i \in 1 .. Len(t) : t[i] \in Proc
    BY <1>3, ElementOfSeq
  <2> QED
    BY <1>4, <2>1 DEF Holds
<1>6. Listed' = Listed \union {p} /\ Threads' = Threads \union {p}
  BY <1>2, <1>3, <1>5 DEF Threads
<1> PICK b : b = pid_hashfn(r)
  OBVIOUS
<1>7. b \in Bucket
  BY ProcAssumption
<1>8. /\ hash_list'[b] = <<p>> \o hash_list[b] /\ \A h \in Bucket \ {b} : hash_list'[h] = hash_list[h]
      /\ hash_list[b] \in Seq(Proc)
  BY <1>1, <1>7
<1>9. hash_list'[b] \in Seq(Proc) /\ \A x : Holds(hash_list'[b], x) <=> x = p \/ Holds(hash_list[b], x)
  BY <1>8, ConsFacts
<1>10. hash_list' \in [Bucket -> Seq(Proc)]
  BY <1>1, <1>7, <1>8, <1>9
<1>11. /\ pid' \in [Proc -> -1 .. MAX_PID - 1] /\ pid'[p] = r /\ \A q \in Listed : pid'[q] = pid[q]
  <2>1. r \in -1 .. MAX_PID - 1
    BY GetPidAssumption DEF Pid
  <2> QED
    BY <1>1, <2>1
<1>12. TablesInv'
  <2>1. idleproc \notin Listed'
    BY <1>1, <1>6 DEF TablesInv
  <2>2. \A q \in Listed' : pid'[q] \in Pid
    BY <1>6, <1>11 DEF TablesInv
  <2>3. \A q1, q2 \in Listed' : pid'[q1] = pid'[q2] => q1 = q2
    <3>1. \A q \in Listed : pid'[q] # r
      BY <1>11 DEF PidsTaken
    <3>2. \A q1, q2 \in Listed : pid'[q1] = pid'[q2] => q1 = q2
      BY <1>11 DEF TablesInv
    <3> QED
      BY <1>6, <1>11, <3>1, <3>2
  <2>4. ASSUME NEW h \in Bucket, NEW i \in 1 .. Len(hash_list'[h]) PROVE hash_list'[h][i] \in Listed'
    <3>1. \A x : Holds(hash_list[h], x) => x \in Listed
      BY DEF TablesInv, Holds
    <3>2. Holds(hash_list'[h], hash_list'[h][i])
      BY <2>4 DEF Holds
    <3>3. hash_list'[h][i] = p \/ Holds(hash_list[h], hash_list'[h][i])
      BY <1>8, <1>9, <3>2
    <3> QED
      BY <1>6, <3>1, <3>3
  <2>5. ASSUME NEW q \in Listed' PROVE Holds(hash_list'[pid_hashfn(pid'[q])], q)
    <3>1. CASE q = p
      BY <1>9, <1>11, <3>1
    <3>2. CASE q \in Listed
      <4>1. Holds(hash_list[pid_hashfn(pid[q])], q) /\ pid[q] \in Pid
        BY <3>2 DEF TablesInv, Holds
      <4>2. pid_hashfn(pid[q]) \in Bucket /\ pid'[q] = pid[q]
        BY <4>1, <1>11, <3>2, ProcAssumption
      <4> QED
        BY <1>8, <1>9, <4>1, <4>2
    <3> QED
      BY <1>6, <3>1, <3>2
  <2>6. nr_process' = Len(proc_list') + 1
    BY <1>1, <1>3 DEF TablesInv
  <2> QED
    BY <2>1, <2>2, <2>3, <2>4, <2>5, <2>6 DEF TablesInv, Holds
<1> QED
  BY <1>3, <1>6, <1>10, <1>11, <1>12

LEMMA ForkLinkInv ==
    ASSUME IInv, Booted, ForkLink
    PROVE  IInv'
<1>1. pc = "get_pid" /\ "get_pid" \in ForkLabel
  BY DEF ForkLink, ForkLabel, ForkMid
<1>2. PICK c \in Threads, fn \in Fn, p \in Proc \union {NONE} :
         /\ Ready(c, "get_pid") /\ Top = ForkAt(c, fn, p) /\ Allocated("get_pid", ForkAt(c, fn, p))
         /\ Top.ra = ForkHome(c) /\ Top.fn = fn /\ Top.proc = p
  BY <1>1, ForkReady
<1> DEFINE f == ForkAt(c, fn, p)
           b == TrapFrame("kernel_thread_entry", "none", fn, thread_status, 1)
<1>3. f.proc = p /\ f.fn = fn
  BY DEF ForkAt, ForkFrame
<1> HIDE DEF f
<1> PICK k : k = kstack[p]
  OBVIOUS
<1> PICK h : h = ForkHome(c)
  OBVIOUS
<1>4. /\ TypeOK /\ TablesInv /\ StacksInv /\ sp \in Stack /\ sp \in Stacks /\ c \in Threads /\ c \in Proc
      /\ Depth \in Nat /\ Depth >= 1 /\ Len(frames[sp]) = Depth
      /\ frames \in [Stack -> Seq(Frame)]
  BY <1>1, <1>2, ForkTypes
<1>5. /\ p \in Proc \ Threads /\ kmem = Threads \union {p} /\ nr_process < MAX_PROCESS
      /\ k \in Stack \ Stacks /\ kpages = Stacks \union {k}
      /\ frames[k] = <<b>> /\ context[p].ra = "forkret" /\ context[p].sp = k
  BY <1>2, <1>3 DEF Allocated, ForkMid, f
<1> HIDE DEF b
<1>6. /\ UNCHANGED <<sp, s0, sstatus, current, kmem, kpages, kstack, context>>
      /\ nr_process' = nr_process + 1 /\ job' = [job EXCEPT ![p] = fn]
      /\ proc_list' = <<p>> \o proc_list
  BY <1>2 DEF ForkLink, memory
<1>7. PICK r \in Pid : /\ get_pid(r) /\ pid' = [pid EXCEPT ![p] = r] /\ last_pid' = r
                       /\ hash_proc(p, r) /\ fork_out(r)
  BY <1>2 DEF ForkLink
<1>8. r \in Pid \ PidsTaken
  BY <1>7 DEF get_pid, IsFirstFree
<1>9. /\ TablesInv' /\ Listed' = Listed \union {p} /\ Threads' = Threads \union {p}
      /\ hash_list' \in [Bucket -> Seq(Proc)] /\ proc_list' \in Seq(Proc)
      /\ pid' \in [Proc -> -1 .. MAX_PID - 1]
  BY <1>4, <1>5, <1>6, <1>7, <1>8, LinkTables DEF hash_proc
<1>10. /\ frames' \in [Stack -> Seq(Frame)] /\ OthersKeep
       /\ Len(frames'[sp]) = Depth - 1 /\ SameUpTo(Depth - 1, frames'[sp], frames[sp])
  BY <1>4, <1>7, PopFacts DEF fork_out
<1>11. /\ pc' = h /\ h \in CallLabel /\ h \in Plain /\ h \in Label /\ Own(c, h) /\ Height(c, h) = Base(c)
       /\ h \notin ForkMid /\ h # "switch_to" /\ h # "forkret"
       /\ Interruptible(c, h) = (c # idleproc)
  BY <1>2, <1>7, HomeFacts DEF fork_out, Plain, SwitchLabel, ForkLabel, Settled
<1>12. job' \in [Proc -> Reg] /\ job'[p] = fn /\ \A q \in Threads : job'[q] = job[q]
  BY <1>4, <1>5, <1>6, ThreadsFacts DEF TypeOK, Reg
<1>13. TypeOK'
  <2>1. nr_process' \in 0 .. MAX_PROCESS
    BY <1>4, <1>5, <1>6, GetPidAssumption DEF TypeOK
  <2>2. last_pid' \in 1 .. MAX_PID /\ ret' \in -1 .. MAX_PID - 1
    BY <1>7, GetPidAssumption DEF Pid, fork_out
  <2>3. state' \in [Proc -> {"UNINIT", "SLEEPING", "RUNNABLE"}] /\ passed' \in [Proc -> SUBSET Proc]
    BY <1>4 DEF TypeOK, ForkLink
  <2> QED
    BY <1>4, <1>9, <1>10, <1>11, <1>12, <2>1, <2>2, <2>3 DEF TypeOK, ForkLink, csrs, memory
<1>14. Stacks' = Stacks \union {k} /\ StacksInv'
  <2>1. Stacks' = Stacks \union {k}
    BY <1>6, <1>9 DEF Stacks
  <2>2. current' \in Threads' /\ \A q \in Threads' : kstack'[q] \in Stack
    BY <1>4, <1>5, <1>6, <1>9 DEF StacksInv
  <2>3. \A q \in Threads : kstack[q] # k
    BY <1>5 DEF Stacks
  <2>4. \A q1, q2 \in Threads' : kstack'[q1] = kstack'[q2] => q1 = q2
    BY <1>4, <1>6, <1>9, <2>3 DEF StacksInv
  <2> QED
    BY <2>1, <2>2, <2>4 DEF StacksInv
<1>15. /\ "get_pid" \in CallLabel /\ Depth = Base(c) + 1 /\ Base(c) \in {0, 1} /\ Born(c, frames[sp])
       /\ c = current /\ sp = kstack[c] /\ s0 = job[c] /\ sstatus.sie = Interruptible(c, "get_pid")
  <2>1. "get_pid" \in CallLabel /\ Depth = Base(c) + 1 /\ Base(c) \in {0, 1} /\ c = current
    BY <1>1, <1>2, ForkTop, HeightFacts
  <2> QED
    BY <1>2, <2>1, ReadyFacts DEF Calls
<1>16. Born(c, frames[sp])'
  <2>1. Birth(c)' = Birth(c)
    BY <1>4, <1>12 DEF Birth
  <2>2. Base(c) = 1 => frames'[sp][1] = frames[sp][1]
    BY <1>10, <1>15 DEF SameUpTo
  <2>3. c # idleproc => Base(c) = 1
    BY HeightFacts
  <2>4. Len(frames'[sp]) >= Base(c)
    BY <1>10, <1>15
  <2> QED
    BY <1>6, <1>15, <2>1, <2>2, <2>3, <2>4 DEF Born
<1>17. Calls(c, h, frames[sp])'
  BY <1>6, <1>11, <1>16, CallsIntro
<1>18. Allocated(h, frames[sp][Base(c) + 1])'
  BY <1>5, <1>6, <1>9, <1>11, <1>14 DEF Allocated
<1>19. At(c, h)'
  <2>1. Interruptible(c, "get_pid") = (c # idleproc)
    BY DEF Interruptible, ForkLabel, ForkMid, ThreadLabel
  <2>2. sstatus'.sie = Interruptible(c, h)
    BY <1>6, <1>11, <1>15, <2>1
  <2>3. Len(frames'[sp]) = Height(c, h)
    BY <1>10, <1>11, <1>15
  <2>4. s0' = job'[c]
    BY <1>4, <1>6, <1>12, <1>15
  <2>5. Depth' = Len(frames'[sp])
    BY <1>6 DEF Depth
  <2> QED
    BY <1>11, <2>2, <2>3, <2>4, <2>5 DEF At, Height, Base, Level, Interruptible
<1>20. Running(c, h)'
  <2>1. c \in Threads' /\ sp' = kstack'[c] /\ c = current'
    BY <1>4, <1>6, <1>9, <1>15
  <2> QED
    BY <1>11, <1>17, <1>18, <1>19, <2>1 DEF Running
<1>21. Waits(p)'
  <2>1. p # idleproc
    BY <1>4, <1>5, ThreadsFacts
  <2>2. Own(p, "forkret") /\ "forkret" \in Plain
    BY <2>1, OwnFacts DEF Plain, CallLabel, SchedLabel, SwitchLabel, ForkLabel, ForkMid
  <2>3. Height(p, "forkret") = 1 /\ Base(p) = 1
    BY <2>1, <2>2, HeightFacts DEF Base
  <2>4. frames'[k] = <<b>>
    BY <1>4, <1>5, <1>10 DEF OthersKeep
  <2>5. b = Birth(p)'
    BY <1>12 DEF Birth, b, thread_status
  <2> PICK fs : fs = frames'[k]
    OBVIOUS
  <2>6. Len(fs) = 1 /\ fs[1] = b
    BY <2>4
  <2>7. Born(p, fs)'
    BY <2>3, <2>5, <2>6 DEF Born
  <2>8. Calls(p, "forkret", fs)'
    BY <2>2, <2>7, CallsIntro
  <2>9. context'[p].ra = "forkret" /\ context'[p].sp = kstack'[p] /\ kstack'[p] = k
    BY <1>5, <1>6
  <2> QED
    BY <2>2, <2>3, <2>6, <2>8, <2>9 DEF Waits
<1>22. OthersWait(c)'
  <2>1. ASSUME NEW q \in Threads, q # c PROVE Waits(q)'
    <3>1. Waits(q)
      BY <1>2, <2>1 DEF Ready, OthersWait
    <3>2. kstack[q] \in Stack \ {sp}
      BY <1>4, <1>15, <2>1 DEF StacksInv
    <3>3. frames'[kstack[q]] = frames[kstack[q]]
      BY <1>10, <3>2 DEF OthersKeep
    <3> QED
      BY <1>6, <1>9, <1>12, <2>1, <3>1, <3>3, WaitsKept
  <2> QED
    BY <1>9, <1>21, <2>1 DEF OthersWait
<1>23. RunInv'
  BY <1>4, <1>9, <1>11, <1>20, <1>22 DEF RunInv
<1>24. Booted'
  BY <1>6 DEF Booted
<1> QED
  BY <1>9, <1>13, <1>14, <1>23, <1>24 DEF IInv

-----------------------------------------------------------------------------
(* Boot *)

LEMMA InitInv ==
    ASSUME Init
    PROVE  IInv
<1>1. /\ idleproc \in Proc /\ bootstack \in Stack /\ init_main \in Fn
      /\ MAX_PID \in Nat /\ MAX_PID > 1 /\ MAX_PROCESS \in Nat
  BY GetPidAssumption, ProcAssumption DEF Proc, Stack, idleproc, bootstack
<1>2. 0 \in 0 .. TICK_NUM * MaxPrints
  <2>1. TICK_NUM * MaxPrints \in Nat
    BY ProcAssumption
  <2> QED
    BY <2>1
<1>3. TypeOK
  <2>1. <<>> \in Seq(Frame) /\ <<>> \in Seq(Proc)
    OBVIOUS
  <2>2. frames \in [Stack -> Seq(Frame)] /\ hash_list \in [Bucket -> Seq(Proc)] /\ proc_list \in Seq(Proc)
    BY <2>1 DEF Init
  <2>3. /\ pid \in [Proc -> -1 .. MAX_PID - 1] /\ ret \in -1 .. MAX_PID - 1
        /\ last_pid \in 1 .. MAX_PID /\ nr_process \in 0 .. MAX_PROCESS
    BY <1>1 DEF Init
  <2>4. ticks \in 0 .. TICK_NUM * MaxPrints
    BY <1>2 DEF Init
  <2>5. /\ pc \in Label /\ sp \in Stack /\ s0 \in Reg /\ sstatus \in Status
        /\ sepc \in Label \union {"none"} /\ scause \in Cause
        /\ from \in [at : Label \union {"none"}, cause : Cause]
    BY <1>1 DEF Init, Label, Reg, Status, Cause, NoTrap
  <2>6. /\ kmem \subseteq Proc /\ kpages \subseteq Stack /\ current \in Proc \union {NONE}
        /\ state \in [Proc -> {"UNINIT", "SLEEPING", "RUNNABLE"}]
        /\ kstack \in [Proc -> Stack \union {NONE}] /\ need_resched \in [Proc -> BOOLEAN]
        /\ context \in [Proc -> [ra : Label \union {"none"}, sp : Stack \union {NONE}, s0 : Reg]]
        /\ job \in [Proc -> Reg] /\ passed \in [Proc -> SUBSET Proc]
    BY <1>1 DEF Init, Reg
  <2> QED
    BY <2>2, <2>3, <2>4, <2>5, <2>6 DEF TypeOK
<1>4. BootInv
  BY <1>1 DEF Init, BootInv
<1> QED
  BY <1>3, <1>4 DEF IInv, Booted, Init

LEMMA ProcInitInv ==
    ASSUME IInv, ~ Booted, proc_init
    PROVE  IInv'
<1>1. /\ pc = "proc_init" /\ sp = bootstack /\ frames[bootstack] = <<>> /\ kpages = {bootstack}
      /\ s0 = job[idleproc] /\ proc_list = <<>> /\ nr_process = 0 /\ ~ sstatus.sie
      /\ TypeOK /\ current = NONE
  BY DEF proc_init, IInv, BootInv, Booted
<1>2. /\ idleproc \in Proc /\ bootstack \in Stack /\ idleproc # NONE
      /\ MAX_PID \in Nat /\ MAX_PID > 1 /\ MAX_PROCESS \in Nat /\ MAX_PROCESS > 1
  BY GetPidAssumption DEF Proc, Stack, idleproc, bootstack, NONE
<1>3. UNCHANGED <<sp, s0, csrs, kpages, context, proc_list, hash_list, last_pid, ret, ticks, ghosts>>
  BY DEF proc_init
<1>4. CASE /\ panic
           /\ UNCHANGED <<frames, kmem, current, state, pid, kstack, need_resched, nr_process>>
  <2>1. sstatus' \in Status /\ ~ sstatus'.sie /\ pc' = "halt"
    BY <1>1, <1>4, SieFacts DEF panic, TypeOK
  <2>2. TypeOK'
    BY <1>1, <1>3, <1>4, <2>1 DEF TypeOK, csrs, ghosts, Label
  <2>3. BootInv' /\ ~ Booted'
    BY <1>1, <1>4, <2>1 DEF BootInv, Booted
  <2> QED
    BY <2>2, <2>3 DEF IInv
<1>5. CASE /\ kmem' = {idleproc}
           /\ pid' = [pid EXCEPT ![idleproc] = 0]
           /\ state' = [state EXCEPT ![idleproc] = "RUNNABLE"]
           /\ kstack' = [kstack EXCEPT ![idleproc] = bootstack]
           /\ need_resched' = [need_resched EXCEPT ![idleproc] = TRUE]
           /\ nr_process' = nr_process + 1
           /\ current' = idleproc
           /\ Push(ForkFrame("proc_init_ret", init_main, NONE))
           /\ pc' = "do_fork"
           /\ UNCHANGED sstatus
  <2> DEFINE f == ForkAt(idleproc, init_main, NONE)
  <2>1. f \in Frame /\ Push(f)
    BY <1>5, ForkFacts, ProcAssumption DEF ForkAt, ForkHome
  <2> HIDE DEF f
  <2>2. /\ frames' \in [Stack -> Seq(Frame)]
        /\ Len(frames'[sp]) = Depth + 1 /\ frames'[sp][Depth + 1] = f
    BY <1>1, <2>1, PushFacts
  <2>3. Depth = 0
    BY <1>1 DEF Depth
  <2>4. TypeOK'
    <3>1. pid' \in [Proc -> -1 .. MAX_PID - 1]
      <4>1. 0 \in -1 .. MAX_PID - 1
        BY <1>2
      <4> QED
        BY <1>1, <1>5, <4>1 DEF TypeOK
    <3>2. nr_process' \in 0 .. MAX_PROCESS
      BY <1>1, <1>2, <1>5
    <3>3. /\ state' \in [Proc -> {"UNINIT", "SLEEPING", "RUNNABLE"}]
          /\ kstack' \in [Proc -> Stack \union {NONE}] /\ need_resched' \in [Proc -> BOOLEAN]
          /\ kmem' \subseteq Proc /\ current' \in Proc \union {NONE}
      BY <1>1, <1>2, <1>5 DEF TypeOK
    <3>4. pc' \in Label
      BY <1>5 DEF Label
    <3> QED
      BY <1>1, <1>3, <1>5, <2>2, <3>1, <3>2, <3>3, <3>4 DEF TypeOK, csrs, ghosts
  <2>5. Listed' = {} /\ Threads' = {idleproc}
    <3>1. Listed' = {}
      BY <1>1, <1>3 DEF Listed
    <3> QED
      BY <3>1 DEF Threads
  <2>6. kstack'[idleproc] = bootstack
    BY <1>1, <1>2, <1>5 DEF TypeOK
  <2>7. TablesInv'
    <3>1. \A h \in Bucket : hash_list'[h] = <<>>
      BY <1>1, <1>3 DEF IInv, BootInv, Booted
    <3>2. \A h \in Bucket : \A i \in 1 .. Len(hash_list'[h]) : hash_list'[h][i] \in Listed'
      BY <3>1
    <3>3. nr_process' = Len(proc_list') + 1
      BY <1>1, <1>3, <1>5
    <3> QED
      BY <2>5, <3>2, <3>3 DEF TablesInv
  <2>8. StacksInv' /\ Stacks' = {bootstack}
    BY <1>2, <1>5, <2>5, <2>6 DEF StacksInv, Stacks
  <2>9. "do_fork" \in ForkLabel /\ "do_fork" \notin ForkMid
    BY DEF ForkLabel, ForkMid
  <2>10. Base(idleproc) = 0 /\ Height(idleproc, "do_fork") = 1
    BY <2>9, HeightFacts DEF Base
  <2> PICK fs : fs = frames'[sp]
    OBVIOUS
  <2>11. Len(fs) = 1 /\ fs[1] = f
    BY <2>2, <2>3
  <2>12. Calls(idleproc, "do_fork", fs)'
    <3>1. Born(idleproc, fs)'
      BY <2>10, <2>11 DEF Born
    <3>2. Len(fs) >= Base(idleproc) + 1
      BY <2>10, <2>11
    <3>3. \E fn \in Fn, p \in Proc \union {NONE} : fs[Base(idleproc) + 1] = ForkAt(idleproc, fn, p)
      BY <2>10, <2>11, ProcAssumption DEF f
    <3> QED
      BY <2>9, <3>1, <3>2, <3>3, CallsIntro
  <2>13. Allocated("do_fork", frames[sp][Base(idleproc) + 1])'
    BY <1>1, <1>3, <1>5, <2>5, <2>8, <2>9 DEF Allocated
  <2>14. At(idleproc, "do_fork")'
    <3>1. ~ Interruptible(idleproc, "do_fork")
      BY <2>9, InterruptibleFacts
    <3>2. sstatus'.sie = Interruptible(idleproc, "do_fork")
      <4>1. sstatus'.sie \in BOOLEAN /\ sstatus'.sie = FALSE
        BY <1>1, <1>5 DEF TypeOK, Status
      <4> QED
        BY <3>1, <4>1 DEF Interruptible
    <3>3. s0' = job'[idleproc]
      BY <1>1, <1>3 DEF ghosts
    <3>4. Depth' = 1
      BY <1>3, <2>11 DEF Depth
    <3> QED
      BY <1>5, <2>10, <3>2, <3>3, <3>4 DEF At, Height, Base, Level, Interruptible
  <2>15. Running(idleproc, "do_fork")'
    <3>1. idleproc \in Threads' /\ sp' = kstack'[idleproc] /\ idleproc = current'
      BY <1>1, <1>3, <1>5, <2>5, <2>6
    <3>2. Own(idleproc, "do_fork") /\ "do_fork" \in CallLabel
      BY <2>9, OwnFacts
    <3> QED
      BY <1>3, <2>12, <2>13, <2>14, <3>1, <3>2 DEF Running
  <2>16. RunInv'
    <3>1. OthersWait(idleproc)'
      BY <2>5 DEF OthersWait
    <3>2. "do_fork" \in CallLabel
      BY <2>9, OwnFacts
    <3> QED
      BY <2>5, <2>15, <3>1, <3>2 DEF RunInv
  <2> QED
    BY <1>2, <1>5, <2>4, <2>7, <2>8, <2>16 DEF IInv, Booted
<1> QED
  BY <1>4, <1>5 DEF proc_init

-----------------------------------------------------------------------------
(* Traps *)

LEMMA InterruptInv ==
    ASSUME IInv, Booted, Interrupt
    PROVE  IInv'
<1>1. sstatus.sie /\ pc # "halt" /\ TakeTrap("timer")
  BY DEF Interrupt
<1>2. PICK c \in Threads, r \in CallLabel : Running(c, r)
  BY DEF IInv, RunInv
<1>3. pc \in CallLabel
  BY <1>1, <1>2 DEF Running, InTrap, At
<1>4. Traps(pc, "timer")
  BY DEF Traps
<1> QED
  BY <1>1, <1>3, <1>4, TakeTrapInv

LEMMA ExceptionInv ==
    ASSUME IInv, Booted, Exception
    PROVE  IInv'
<1>1. pc \in ThreadLabel /\ pc \in CallLabel
  BY DEF Exception, ThreadLabel, CallLabel
<1>2. sstatus.sie
  BY <1>1, BodyFacts
<1>3. CASE pc = "ebreak" /\ TakeTrap("breakpoint")
  <2>1. Traps(pc, "breakpoint")
    BY <1>3 DEF Traps
  <2> QED
    BY <1>1, <1>2, <1>3, <2>1, TakeTrapInv
<1>4. CASE pc = "fault" /\ TakeTrap("fault")
  <2>1. Traps(pc, "fault")
    BY <1>4 DEF Traps
  <2> QED
    BY <1>1, <1>2, <1>4, <2>1, TakeTrapInv
<1> QED
  BY <1>3, <1>4 DEF Exception

-----------------------------------------------------------------------------
(* The ticks.  The machine is shut down with the last one.                 *)

Clock == ticks \in Nat /\ (pc # "halt" => ticks < TICK_NUM * MaxPrints)

LEMMA ClockInit ==
    ASSUME Init
    PROVE  Clock
<1>1. TICK_NUM * MaxPrints > 0
  BY ProcAssumption
<1> QED
  BY <1>1 DEF Init, Clock

LEMMA ClockNext ==
    ASSUME Clock, [Next]_vars
    PROVE  Clock'
<1> PICK n : n = TICK_NUM * MaxPrints
  OBVIOUS
<1>1. n \in Nat /\ ticks \in Nat /\ (pc # "halt" => ticks < n)
  BY ProcAssumption DEF Clock
<1>2. CASE interrupt_handler
  <2>1. pc # "halt" /\ ticks' = ticks + 1 /\ (pc' # "halt" => ticks' # n)
    BY <1>2 DEF interrupt_handler
  <2> QED
    BY <1>1, <2>1 DEF Clock
<1>3. CASE ticks' = ticks /\ (pc = "halt" => pc' = "halt")
  BY <1>1, <1>3 DEF Clock
<1>4. CASE Body
  <2>1. ticks' = ticks /\ pc # "halt"
    BY <1>4 DEF Body, kernel_thread, Yield, wakeup_proc, ReachTrapping, do_exit
  <2> QED
    BY <1>3, <2>1
<1>5. CASE Interrupt \/ Halted \/ UNCHANGED vars
  <2>1. ticks' = ticks /\ (pc = "halt" => pc' = "halt")
    BY <1>5 DEF Interrupt, TakeTrap, Halted, vars
  <2> QED
    BY <1>3, <2>1
<1>6. CASE proc_init \/ KernInit \/ cpu_idle \/ forkret \/ kernel_thread_entry
  <2>1. ticks' = ticks /\ pc # "halt"
    BY <1>6 DEF proc_init, KernInit, cpu_idle, forkret, kernel_thread_entry
  <2> QED
    BY <1>3, <2>1
<1>7. CASE Fork
  <2>1. ticks' = ticks /\ pc # "halt"
    BY <1>7 DEF Fork, ForkAllocProc, ForkSetupKstack, copy_thread, ForkLink
  <2> QED
    BY <1>3, <2>1
<1>8. CASE Switch
  <2>1. ticks' = ticks /\ pc # "halt"
    BY <1>8 DEF Switch, ScheduleSave, SchedulePick, proc_run, SwitchTo, ProcRunReturn, ScheduleReturn
  <2> QED
    BY <1>3, <2>1
<1>9. CASE TrapPath
  <2>1. \/ interrupt_handler
        \/ ticks' = ticks /\ pc # "halt"
    BY <1>9 DEF TrapPath, Exception, TakeTrap, SAVE_ALL, exception_handler, RestoreStatus, RESTORE_ALL, Sret
  <2> QED
    BY <1>2, <1>3, <2>1
<1> QED
  BY <1>4, <1>5, <1>6, <1>7, <1>8, <1>9 DEF Next, Kernel

-----------------------------------------------------------------------------
(* Every step *)

LEMMA StutterInv ==
    ASSUME IInv, UNCHANGED vars
    PROVE  IInv'
<1>1. TypeOK'
  BY DEF IInv, vars, TypeOK
<1>2. Booted' = Booted
  BY DEF vars, Booted
<1>3. CASE ~ Booted
  BY <1>1, <1>2, <1>3 DEF IInv, vars, BootInv
<1>4. CASE Booted
  <2>1. ProcsKeep /\ UNCHANGED <<current, context, frames, pc, sp, s0, sstatus, sepc, scause, from>>
    BY DEF vars, ProcsKeep
  <2>2. Threads' = Threads /\ TablesInv' /\ StacksInv'
    BY <1>4, <2>1, KeepFacts DEF IInv, StacksInv
  <2>3. PICK c \in Threads, r \in CallLabel : Running(c, r) /\ OthersWait(c)
    BY <1>4 DEF IInv, RunInv
  <2>4. \A p \in Threads : Waits(p) => Waits(p)'
    BY <2>1, <2>2, WaitsKept DEF ProcsKeep
  <2>5. Running(c, r)'
    <3>1. Calls(c, r, frames[sp])'
      BY <2>1, <2>2, <2>3 DEF Running, Calls, Born, InSched, InRun, InFork, Birth, ProcsKeep
    <3>2. Allocated(r, frames[sp][Base(c) + 1])'
      BY <2>1, <2>2, <2>3, KeepFacts DEF Running, Allocated, ProcsKeep
    <3>3. \/ At(c, r)'
          \/ pc' = "halt" /\ ~ sstatus'.sie
          \/ InTrap(c, r)'
      BY <2>1, <2>3 DEF Running, At, InTrap, Depth, Top, Target, ProcsKeep
    <3> QED
      BY <2>1, <2>2, <2>3, <3>1, <3>2, <3>3 DEF Running, ProcsKeep
  <2>6. RunInv'
    BY <2>2, <2>3, <2>4, <2>5 DEF RunInv, OthersWait
  <2> QED
    BY <1>1, <1>2, <1>4, <2>2, <2>6 DEF IInv
<1> QED
  BY <1>3, <1>4

\* Before idleproc is there, only proc_init can take a step.
LEMMA BootStep ==
    ASSUME IInv, ~ Booted, Next
    PROVE  proc_init \/ UNCHANGED vars
<1>1. pc \in {"proc_init", "halt"} /\ ~ sstatus.sie
  BY DEF IInv, BootInv
<1>2. ~ Interrupt /\ (Halted => UNCHANGED vars)
  BY <1>1 DEF Interrupt, Halted
<1>3. ~ Body
  BY <1>1 DEF Body, kernel_thread, Yield, wakeup_proc, ReachTrapping, do_exit
<1>4. ~ Fork
  BY <1>1 DEF Fork, ForkAllocProc, ForkSetupKstack, copy_thread, ForkLink
<1>5. ~ Switch
  BY <1>1 DEF Switch, ScheduleSave, SchedulePick, proc_run, SwitchTo, ProcRunReturn, ScheduleReturn
<1>6. ~ TrapPath
  BY <1>1 DEF TrapPath, Exception, SAVE_ALL, exception_handler, interrupt_handler,
              RestoreStatus, RESTORE_ALL, Sret
<1>7. ~ (KernInit \/ cpu_idle \/ forkret \/ kernel_thread_entry)
  BY <1>1 DEF KernInit, cpu_idle, forkret, kernel_thread_entry
<1> QED
  BY <1>2, <1>3, <1>4, <1>5, <1>6, <1>7 DEF Next, Kernel

LEMMA NextInv ==
    ASSUME IInv, Clock, [Next]_vars
    PROVE  IInv'
<1>1. CASE UNCHANGED vars
  BY <1>1, StutterInv
<1>2. CASE Next /\ ~ Booted
  BY <1>2, BootStep, ProcInitInv, StutterInv
<1>3. CASE Next /\ Booted
  <2>1. CASE Body
    BY <1>3, <2>1, KernelThreadInv, YieldInv, WakeupProcInv, ReachTrappingInv, DoExitInv DEF Body
  <2>2. CASE Interrupt
    BY <1>3, <2>2, InterruptInv
  <2>3. CASE Halted
    BY <2>3, StutterInv DEF Halted
  <2>4. CASE proc_init
    <3>1. pc = "proc_init"
      BY <2>4 DEF proc_init
    <3>2. PICK c \in Threads, r \in CallLabel : Running(c, r)
      BY <1>3 DEF IInv, RunInv
    <3>3. pc \in CallLabel \union TrapLabel \union {"halt"}
      BY <3>2 DEF Running, At, InTrap
    <3> QED
      BY <3>1, <3>3 DEF CallLabel, ForkLabel, ForkMid, ThreadLabel, SchedLabel, SwitchLabel, TrapLabel
  <2>5. CASE KernInit \/ cpu_idle \/ forkret \/ kernel_thread_entry
    BY <1>3, <2>5, KernInitInv, CpuIdleInv, ForkretInv, KernelThreadEntryInv
  <2>6. CASE Fork
    BY <1>3, <2>6, ForkAllocProcInv, ForkSetupKstackInv, CopyThreadInv, ForkLinkInv DEF Fork
  <2>7. CASE Switch
    BY <1>3, <2>7, ScheduleSaveInv, SchedulePickInv, ProcRunInv, SwitchToInv, ProcRunReturnInv,
       ScheduleReturnInv DEF Switch
  <2>8. CASE TrapPath
    <3>1. CASE interrupt_handler
      <4>1. pc # "halt"
        BY <3>1 DEF interrupt_handler
      <4> QED
        BY <1>3, <3>1, <4>1, InterruptHandlerInv DEF Clock
    <3>2. CASE TrapPath /\ ~ interrupt_handler
      BY <1>3, <3>2, ExceptionInv, SaveAllInv, ExceptionHandlerInv, RestoreStatusInv, RestoreAllInv,
         SretInv DEF TrapPath
    <3> QED
      BY <2>8, <3>1, <3>2
  <2> QED
    BY <1>3, <2>1, <2>2, <2>3, <2>4, <2>5, <2>6, <2>7, <2>8 DEF Next, Kernel
<1> QED
  BY <1>1, <1>2, <1>3

\* The inductive invariant holds.
THEOREM Invariance == Spec => []IInv
<1>1. Init => IInv /\ Clock
  BY InitInv, ClockInit
<1>2. (IInv /\ Clock) /\ [Next]_vars => (IInv /\ Clock)'
  BY NextInv, ClockNext
<1> QED
  BY <1>1, <1>2, PTL DEF Spec

-----------------------------------------------------------------------------
(* The properties *)

\* Every variable has its type, and ticks stops at the shutdown.
THEOREM TypeCorrect == Spec => []TypeOK
<1>1. IInv => TypeOK
  BY DEF IInv
<1> QED
  BY <1>1, Invariance, PTL

LEMMA OnOwnStack == IInv => InterruptsFindCurrent
<1> SUFFICES ASSUME IInv, sstatus.sie
             PROVE  Booted /\ sp = kstack[current]
  BY DEF InterruptsFindCurrent
<1>1. Booted
  BY DEF IInv, BootInv
<1>2. PICK c \in Threads, r \in CallLabel : Running(c, r)
  BY <1>1 DEF IInv, RunInv
<1>3. Interruptible(c, r)
  BY <1>2 DEF Running, At, InTrap
<1>4. c = current
  BY <1>2, <1>3, InterruptibleIs DEF Running
<1> QED
  BY <1>1, <1>2, <1>4 DEF Running

\* trap and the handlers run on the stack of current: proc_run changes current and
\* switch_to the stack with interrupts disabled.
THEOREM TrapsOnOwnStack == Spec => []InterruptsFindCurrent
BY OnOwnStack, Invariance, PTL

LEMMA BodyUndisturbed == IInv => ThreadsUndisturbed
<1>1. ASSUME IInv, pc \in ThreadLabel
      PROVE  sstatus.sie /\ s0 = job[current] /\ sp = kstack[current] /\ Depth = 1
  <2>1. Booted
    BY <1>1 DEF IInv, BootInv, ThreadLabel
  <2>2. PICK c \in Threads : Ready(c, pc) /\ c = current /\ Depth = 1 /\ sstatus.sie
    BY <1>1, <2>1, BodyFacts
  <2>3. pc \in CallLabel /\ pc # "forkret"
    BY <1>1 DEF CallLabel, ThreadLabel
  <2>4. s0 = job[c] /\ sp = kstack[c]
    BY <2>2, <2>3, ReadyFacts
  <2> QED
    BY <2>2, <2>4
<1>2. ASSUME IInv, pc = "cpu_idle"
      PROVE  sstatus.sie
  <2>1. Booted /\ pc \in CallLabel
    BY <1>2 DEF IInv, BootInv, CallLabel
  <2>2. PICK c \in Threads : Ready(c, pc)
    BY <1>2, <2>1, GetReady
  <2>3. sstatus.sie = Interruptible(c, pc)
    BY <2>1, <2>2, ReadyFacts
  <2> QED
    BY <1>2, <2>3 DEF Interruptible
<1> QED
  BY <1>1, <1>2 DEF ThreadsUndisturbed, ThreadLabel

\* forkret, SAVE_ALL, RESTORE_ALL, switch_to and the saved interrupt flags give a thread
\* back the registers, the stack and the interrupts it had.
THEOREM ThreadsKeepTheirState == Spec => []ThreadsUndisturbed
BY BodyUndisturbed, Invariance, PTL

LEMMA ReturnsToTarget == IInv => SretReturns
<1> SUFFICES ASSUME IInv, pc = "sret"
             PROVE  /\ sepc \notin {"__alltraps", "trap", "__trapret", "restore", "sret"}
                    /\ sepc = IF from.cause = "breakpoint" THEN "body" ELSE from.at
  BY DEF SretReturns
<1>1. Booted /\ pc \in TrapLabel
  BY DEF IInv, BootInv, TrapLabel
<1>2. PICK c \in Threads, r \in CallLabel : InTrap(c, r)
  BY <1>1, Trapping
<1>3. sepc = r /\ r = Target
  BY <1>2 DEF InTrap
<1>4. r \notin {"__alltraps", "trap", "__trapret", "restore", "sret"}
  BY DEF CallLabel, ForkLabel, ForkMid, ThreadLabel, SchedLabel, SwitchLabel
<1> QED
  BY <1>3, <1>4 DEF Target

\* RESTORE_ALL writes the saved sstatus, SIE clear in it, before sepc: no trap comes in
\* between, and sret returns to the instruction that was interrupted or stepped over.
THEOREM SretGoesBack == Spec => []SretReturns
BY ReturnsToTarget, Invariance, PTL

\* p's context and the frames on its stack: Resumable, for one thread.
Resumes(p) ==
    LET k == kstack[p]
        n == Len(frames[k])
    IN /\ context[p].sp = k
       /\ \/ /\ context[p].ra = "forkret"
             /\ frames[k] = <<TrapFrame("kernel_thread_entry", "none", job[p],
                                        [sie |-> FALSE, spie |-> TRUE], 1)>>
          \/ /\ context[p].ra = "proc_run_ret" /\ context[p].s0 = job[p]
             /\ n >= 2
             /\ frames[k][n].kind = "run" /\ frames[k][n].prev = p
             /\ ~ frames[k][n].flag
             /\ frames[k][n - 1] = SchedFrame(IF p = idleproc THEN "cpu_idle" ELSE "body", TRUE)

LEMMA OneFrame ==
    ASSUME NEW S, NEW s \in Seq(S), Len(s) = 1, NEW b, s[1] = b
    PROVE  s = <<b>>
OBVIOUS

LEMMA WaitingResumable ==
    ASSUME IInv, Booted, NEW p \in Threads, Waits(p)
    PROVE  Resumes(p)
<1> PICK k : k = kstack[p]
  OBVIOUS
<1> PICK fs : fs = frames[k]
  OBVIOUS
<1> PICK r : r = context[p].ra
  OBVIOUS
<1> PICK n : n = Len(fs)
  OBVIOUS
<1>1. /\ r \in {"forkret", "proc_run_ret"} /\ Own(p, r) /\ context[p].sp = k
      /\ r = "proc_run_ret" => context[p].s0 = job[p]
      /\ Calls(p, r, fs) /\ n = Height(p, r)
  BY DEF Waits
<1>2. fs \in Seq(Frame) /\ n = Len(fs)
  <2>1. k \in Stack /\ frames \in [Stack -> Seq(Frame)]
    BY DEF IInv, StacksInv, TypeOK
  <2> QED
    BY <2>1
<1>3. CASE r = "forkret"
  <2>1. p # idleproc
    BY <1>1, <1>3 DEF Own
  <2>2. "forkret" \in Plain
    BY DEF Plain, CallLabel, SchedLabel, SwitchLabel, ForkLabel, ForkMid
  <2>3. n = 1 /\ fs[1] = Birth(p)
    BY <1>1, <1>3, <2>1, <2>2, HeightFacts DEF Calls, Born, Base
  <2>4. fs = <<Birth(p)>>
    BY <1>2, <2>3, OneFrame
  <2> QED
    BY <1>1, <1>3, <2>4 DEF Resumes, Birth, thread_status
<1>4. CASE r = "proc_run_ret"
  <2>1. r \in SwitchLabel
    BY <1>4 DEF SwitchLabel
  <2>2. Base(p) \in {0, 1} /\ n = Base(p) + 2
    BY <1>1, <2>1, HeightFacts
  <2>3. fs[Base(p) + 1] = SchedAt(p, r) /\ \E m \in Threads : fs[Base(p) + 2] = RunTo(p, m)
    BY <1>1, <2>1 DEF Calls, InSched, InRun
  <2>4. fs[n - 1] = SchedAt(p, r) /\ n >= 2
    BY <2>2, <2>3
  <2>5. fs[n].kind = "run" /\ fs[n].prev = p /\ ~ fs[n].flag
    BY <2>2, <2>3 DEF RunTo, RunFrame
  <2>6. SchedAt(p, r) = SchedFrame(IF p = idleproc THEN "cpu_idle" ELSE "body", TRUE)
    BY <1>4 DEF SchedAt, Home, SchedFrame
  <2> QED
    BY <1>1, <1>4, <2>4, <2>5, <2>6 DEF Resumes
<1> QED
  BY <1>1, <1>3, <1>4

LEMMA OthersResumable == IInv => Resumable
<1>1. ASSUME IInv, Booted, NEW p \in Threads, kstack[p] # sp
      PROVE  Resumes(p)
  <2>1. PICK c \in Threads, r \in CallLabel : Running(c, r) /\ OthersWait(c)
    BY <1>1 DEF IInv, RunInv
  <2>2. Waits(p)
    BY <1>1, <2>1 DEF Running, OthersWait
  <2> QED
    BY <1>1, <2>2, WaitingResumable
<1> QED
  BY <1>1 DEF Resumable, Resumes

\* copy_thread and switch_to leave every other thread a context, and on the stack it
\* points to the frames, with which it goes on.
THEOREM EveryThreadResumable == Spec => []Resumable
BY OthersResumable, Invariance, PTL

LEMMA AllAccounted == IInv => NothingLeaked
<1> SUFFICES ASSUME IInv, Booted, ~ Forking
             PROVE  /\ kmem = Threads
                    /\ kpages = {kstack[p] : p \in Threads}
                    /\ \A p, q \in Threads : p # q => kstack[p] # kstack[q]
  BY DEF NothingLeaked
<1>1. PICK c \in Threads, r \in CallLabel : Running(c, r)
  BY DEF IInv, RunInv
<1>2. sp \in Stack
  BY <1>1 DEF Running, IInv, StacksInv
<1>3. r \notin ForkLabel
  <2> SUFFICES ASSUME r \in ForkLabel PROVE FALSE
    OBVIOUS
  <2>1. Base(c) \in {0, 1}
    BY HeightFacts
  <2>2. /\ Len(frames[sp]) >= Base(c) + 1
        /\ \E fn \in Fn, p \in Proc \union {NONE} : frames[sp][Base(c) + 1] = ForkAt(c, fn, p)
    BY <1>1 DEF Running, Calls, InFork
  <2>3. frames[sp][Base(c) + 1].kind = "fork"
    BY <2>2 DEF ForkAt, ForkFrame
  <2>4. Len(frames[sp]) \in Nat
    BY <1>2 DEF IInv, TypeOK
  <2>5. Base(c) + 1 \in 1 .. Len(frames[sp])
    BY <2>1, <2>2, <2>4
  <2> QED
    BY <1>2, <2>3, <2>5 DEF Forking
<1>4. kmem = Threads /\ kpages = Stacks
  BY <1>1, <1>3 DEF Running, Allocated, ForkLabel
<1>5. \A p, q \in Threads : p # q => kstack[p] # kstack[q]
  BY DEF IInv, StacksInv
<1> QED
  BY <1>4, <1>5 DEF Stacks

\* do_fork's error paths give back the proc_struct, and no two threads share a stack.
THEOREM ForkFailsClean == Spec => []NothingLeaked
BY AllAccounted, Invariance, PTL

\* find_proc finds a listed process by its pid, and nothing under any other pid.
LEMMA FindProc ==
    ASSUME TypeOK, TablesInv
    PROVE  /\ \A p \in Listed : find_proc(pid[p]) = p
           /\ \A r \in Pid \ PidsTaken : find_proc(r) = NONE
<1> DEFINE L(r) == hash_list[pid_hashfn(r)]
           At0(r) == {i \in 1 .. Len(L(r)) : pid[L(r)[i]] = r}
<1>1. ASSUME NEW r \in Pid, NEW i \in At0(r)
      PROVE  L(r)[i] \in Listed /\ pid[L(r)[i]] = r
  <2>1. pid_hashfn(r) \in Bucket
    BY ProcAssumption
  <2> QED
    BY <1>1, <2>1 DEF TablesInv
<1>2. ASSUME NEW p \in Listed PROVE find_proc(pid[p]) = p
  <2> PICK r : r = pid[p]
    OBVIOUS
  <2>1. r \in Pid
    BY DEF TablesInv
  <2>2. PICK i \in 1 .. Len(L(r)) : L(r)[i] = p
    BY DEF TablesInv
  <2>3. i \in At0(r)
    BY <2>2
  <2>4. At0(r) \subseteq Nat /\ At0(r) # {}
    BY <2>3
  <2> HIDE DEF At0
  <2>5. Lowest(At0(r)) \in At0(r)
    BY <2>4, LowestFacts
  <2>6. L(r)[Lowest(At0(r))] \in Listed /\ pid[L(r)[Lowest(At0(r))]] = r
    BY <1>1, <2>1, <2>5
  <2>7. L(r)[Lowest(At0(r))] = p
    BY <2>6 DEF TablesInv
  <2> QED
    BY <2>1, <2>4, <2>7 DEF find_proc, At0
<1>3. ASSUME NEW r \in Pid \ PidsTaken PROVE find_proc(r) = NONE
  <2>1. At0(r) = {}
    <3> SUFFICES ASSUME NEW i \in At0(r) PROVE FALSE
      OBVIOUS
    <3> QED
      BY <1>1 DEF PidsTaken
  <2> QED
    BY <2>1 DEF find_proc
<1> QED
  BY <1>2, <1>3

\* proc_list, hash_list and nr_process, which do_fork updates one after the other, agree.
THEOREM TablesTellTheSame == Spec => []TablesAgree
<1>1. IInv => TablesAgree
  <2> SUFFICES ASSUME IInv PROVE TablesAgree
    OBVIOUS
  <2>1. TypeOK /\ (Booted => TablesInv)
    BY DEF IInv
  <2>2. nr_process <= MAX_PROCESS
    BY <2>1, GetPidAssumption DEF TypeOK
  <2>3. Booted => nr_process = Len(proc_list) + 1
    BY <2>1 DEF TablesInv
  <2> QED
    BY <2>1, <2>2, <2>3, FindProc DEF TablesAgree
<1> QED
  BY <1>1, Invariance, PTL

-----------------------------------------------------------------------------
(* schedule is round robin.  Seen from a thread that waits, the threads    *)
(* that had the CPU since it began to wait lie between it and current, in  *)
(* the order in which schedule visits proc_list, and the next one comes    *)
(* after current: so it is none of them.  do_fork's entries at the head of *)
(* the list, and threads that fall asleep or wake, do not change that      *)
(* order.                                                                  *)

\* Round the list from i (exclusive) to j (inclusive), k is passed.
Between(i, k, j) ==
    \/ i < k /\ k <= j
    \/ j < i /\ (i < k \/ k <= j)

Places == 1 .. Len(proc_list)
Injective == \A i, j \in Places : proc_list[i] = proc_list[j] => i = j

\* q had its turn after p: it is on the way from p to current.
Served(p, q) ==
    \E i, j, k \in Places :
        proc_list[i] = p /\ proc_list[j] = current /\ proc_list[k] = q /\ Between(i, k, j)

\* A thread that has seen others pass still waits for the CPU.
PassedInv ==
    \A p \in Proc :
        passed[p] # {} => /\ p \in Listed /\ state[p] = "RUNNABLE"
                          /\ \A q \in passed[p] : Served(p, q)

\* What schedule picked is what it would pick: nothing happens before proc_run.
PickedInv == pc = "proc_run" => Top.next = next_proc

RoundInv == Injective /\ PassedInv /\ PickedInv

-----------------------------------------------------------------------------
(* The order of the visits *)

LEMMA BetweenFacts ==
    ASSUME NEW i \in Nat, NEW j \in Nat, NEW k \in Nat, NEW m \in Nat
    PROVE  /\ ~ Between(i, k, i)
           /\ i # j => Between(i, j, j)
           /\ Between(i, k, j) => ~ Between(j, k, i)
           /\ Between(i, k, j) /\ Between(j, m, i) /\ m # i => Between(i, k, m)
           /\ Between(i, k, j) => Between(i + 1, k + 1, j + 1)
BY DEF Between

Rotation(c, l, j) ==
    /\ Len(c) = Len(l)
    /\ \A x \in 1 .. Len(l) : c[x] = IF x <= Len(l) - j THEN l[j + x] ELSE l[x - (Len(l) - j)]
Rotate(l, j) == SubSeq(l, j + 1, Len(l)) \o SubSeq(l, 1, j)

LEMMA Rotated ==
    ASSUME NEW S, NEW l \in Seq(S), NEW j \in 1 .. Len(l)
    PROVE  Rotate(l, j) \in Seq(S) /\ Rotation(Rotate(l, j), l, j)
<1> PICK c : c = Rotate(l, j)
  OBVIOUS
<1> DEFINE n == Len(l)
           a == SubSeq(l, j + 1, n)
           b == SubSeq(l, 1, j)
<1>1. n \in Nat /\ \A i \in 1 .. n : l[i] \in S
  BY ElementOfSeq
<1>2. a \in Seq(S) /\ Len(a) = n - j /\ \A i \in 1 .. n - j : a[i] = l[j + i]
  <2>1. /\ a \in Seq(S) /\ Len(a) = IF j + 1 <= n THEN n - (j + 1) + 1 ELSE 0
        /\ \A i \in 1 .. n - (j + 1) + 1 : a[i] = l[(j + 1) + i - 1]
    <3>1. j + 1 \in Int /\ n \in Int /\ \A i \in j + 1 .. n : l[i] \in S
      BY <1>1
    <3> HIDE DEF n
    <3> QED
      BY <3>1, SubSeqProperties
  <2>2. n - (j + 1) + 1 = n - j /\ (~ (j + 1 <= n) => n - j = 0)
    BY <1>1
  <2>3. \A i \in 1 .. n - j : (j + 1) + i - 1 = j + i
    BY <1>1
  <2> HIDE DEF a, n
  <2> QED
    BY <2>1, <2>2, <2>3
<1>3. b \in Seq(S) /\ Len(b) = j /\ \A i \in 1 .. j : b[i] = l[i]
  <2>1. 1 \in Int /\ j \in Int /\ \A i \in 1 .. j : l[i] \in S
    BY <1>1
  <2>2. /\ b \in Seq(S) /\ Len(b) = IF 1 <= j THEN j - 1 + 1 ELSE 0
        /\ \A i \in 1 .. j - 1 + 1 : b[i] = l[1 + i - 1]
    BY <2>1, SubSeqProperties
  <2>3. j - 1 + 1 = j /\ 1 <= j /\ \A i \in 1 .. j : 1 + i - 1 = i
    OBVIOUS
  <2> HIDE DEF b
  <2> QED
    BY <2>2, <2>3
<1> HIDE DEF a, b
<1>4. /\ c \in Seq(S) /\ Len(c) = (n - j) + j
      /\ \A i \in 1 .. (n - j) + j : c[i] = IF i <= n - j THEN a[i] ELSE b[i - (n - j)]
  <2>1. c = a \o b
    BY DEF a, b, Rotate
  <2>2. a \in Seq(S) /\ b \in Seq(S)
    BY <1>2, <1>3
  <2> DEFINE d == a \o b
  <2>3. /\ d \in Seq(S) /\ Len(d) = Len(a) + Len(b)
        /\ \A i \in 1 .. Len(a) + Len(b) : d[i] = IF i <= Len(a) THEN a[i] ELSE b[i - Len(a)]
    BY <2>2, ConcatProperties
  <2>4. Len(a) = n - j /\ Len(b) = j
    BY <1>2, <1>3
  <2>5. c = d
    BY <2>1
  <2> HIDE DEF d, n
  <2> QED
    BY <2>3, <2>4, <2>5
<1>5. (n - j) + j = n
  BY <1>1
<1>6. ASSUME NEW x \in 1 .. n PROVE c[x] = IF x <= n - j THEN l[j + x] ELSE l[x - (n - j)]
  <2>1. CASE x <= n - j
    <3>1. x \in 1 .. n - j
      BY <1>1, <2>1
    <3> QED
      BY <1>2, <1>4, <1>5, <2>1, <3>1
  <2>2. CASE ~ (x <= n - j)
    <3>1. x - (n - j) \in 1 .. j
      BY <1>1, <2>2
    <3> QED
      BY <1>3, <1>4, <1>5, <2>2, <3>1
  <2> QED
    BY <2>1, <2>2
<1> QED
  BY <1>4, <1>5, <1>6 DEF Rotation

\* The thread that schedule picks comes after current, and before or at any thread
\* that is runnable.
LEMMA NextIs ==
    ASSUME TypeOK, Injective, NEW j \in Places, proc_list[j] = current, current # idleproc,
           NEW i \in Places, state[proc_list[i]] = "RUNNABLE"
    PROVE  \E m \in Places : next_proc = proc_list[m] /\ (i # j => Between(j, m, i))
<1> DEFINE n == Len(proc_list)
           c == circle(current)
           runnable == {x \in 1 .. Len(c) : state[c[x]] = "RUNNABLE"}
<1>1. n \in Nat /\ proc_list \in Seq(Proc) /\ Places = 1 .. n
  BY DEF TypeOK, Places
<1>2. /\ c \in Seq(Proc) /\ Len(c) = n
      /\ \A x \in 1 .. n : c[x] = IF x <= n - j THEN proc_list[j + x] ELSE proc_list[x - (n - j)]
  <2> DEFINE k == CHOOSE y \in 1 .. n : proc_list[y] = current
  <2>1. k = j
    BY DEF Places, Injective
  <2>2. c = SubSeq(proc_list, k + 1, n) \o SubSeq(proc_list, 1, k)
    BY DEF circle
  <2> HIDE DEF k
  <2>3. c = Rotate(proc_list, j) /\ j \in 1 .. Len(proc_list)
    BY <2>1, <2>2 DEF Rotate, Places
  <2>4. c \in Seq(Proc) /\ Rotation(c, proc_list, j)
    BY <1>1, <2>3, Rotated
  <2> HIDE DEF c
  <2> QED
    BY <2>4 DEF Rotation
<1>3. next_proc = IF runnable = {} THEN idleproc ELSE c[Lowest(runnable)]
  BY DEF next_proc
<1> HIDE DEF c
<1> DEFINE x == IF j < i THEN i - j ELSE i + (n - j)
<1>4. x \in 1 .. n /\ c[x] = proc_list[i]
  <2>1. CASE j < i
    <3>1. x \in 1 .. n /\ x <= n - j /\ j + x = i
      BY <1>1, <2>1
    <3> HIDE DEF x
    <3> QED
      BY <1>2, <3>1
  <2>2. CASE ~ (j < i)
    <3>1. x \in 1 .. n /\ ~ (x <= n - j) /\ x - (n - j) = i
      BY <1>1, <2>2
    <3> HIDE DEF x
    <3> QED
      BY <1>2, <3>1
  <2> QED
    BY <2>1, <2>2
<1>5. x \in runnable /\ runnable \subseteq Nat
  BY <1>2, <1>4
<1> DEFINE y == Lowest(runnable)
<1>6. y \in runnable /\ y <= x
  <2> HIDE DEF runnable
  <2> QED
    BY <1>5, LowestFacts
<1>7. y \in 1 .. n /\ next_proc = c[y]
  <2>1. runnable # {}
    BY <1>5
  <2> QED
    BY <1>2, <1>3, <1>6, <2>1
<1> HIDE DEF y
<1> DEFINE m == IF y <= n - j THEN j + y ELSE y - (n - j)
<1>8. m \in 1 .. n /\ c[y] = proc_list[m]
  BY <1>1, <1>2, <1>7
<1>9. i # j => Between(j, m, i)
  BY <1>1, <1>6, <1>7 DEF Between
<1> QED
  BY <1>1, <1>7, <1>8, <1>9

LEMMA NextFromIdle ==
    ASSUME TypeOK, current = idleproc, NEW i \in Places, state[proc_list[i]] = "RUNNABLE"
    PROVE  \E m \in Places : next_proc = proc_list[m]
<1> DEFINE runnable == {x \in 1 .. Len(proc_list) : state[proc_list[x]] = "RUNNABLE"}
<1>1. next_proc = IF runnable = {} THEN idleproc ELSE proc_list[Lowest(runnable)]
  BY DEF next_proc, circle
<1>2. i \in runnable /\ runnable \subseteq Nat
  BY DEF Places, TypeOK
<1>3. Lowest(runnable) \in runnable
  <2> HIDE DEF runnable
  <2> QED
    BY <1>2, LowestFacts
<1> QED
  BY <1>1, <1>2, <1>3 DEF Places

-----------------------------------------------------------------------------
(* proc_run *)

\* Nobody is chosen who had the CPU since another began to wait.
LEMMA NextNotPassed ==
    ASSUME IInv, Booted, RoundInv, NEW p \in Proc
    PROVE  next_proc \notin passed[p]
<1> SUFFICES ASSUME next_proc \in passed[p] PROVE FALSE
  OBVIOUS
<1>1. TypeOK /\ TablesInv /\ Injective
  BY DEF IInv, RoundInv
<1>2. Served(p, next_proc) /\ state[p] = "RUNNABLE"
  BY DEF RoundInv, PassedInv
<1>3. PICK i, j, k \in Places :
        /\ proc_list[i] = p /\ proc_list[j] = current /\ proc_list[k] = next_proc
        /\ Between(i, k, j)
  BY <1>2 DEF Served
<1>4. current # idleproc
  BY <1>1, <1>3 DEF TablesInv, Listed, Places
<1>5. PICK m \in Places : next_proc = proc_list[m] /\ (i # j => Between(j, m, i))
  BY <1>1, <1>2, <1>3, <1>4, NextIs
<1>6. m = k
  BY <1>1, <1>3, <1>5 DEF Injective
<1>7. i \in Nat /\ j \in Nat /\ k \in Nat
  BY DEF Places
<1> QED
  BY <1>3, <1>5, <1>6, <1>7, BetweenFacts

LEMMA ProcRunRound ==
    ASSUME IInv, Booted, RoundInv, proc_run
    PROVE  RoundInv'
<1>1. TypeOK /\ TablesInv /\ StacksInv /\ Injective /\ Top.next = next_proc
  BY DEF IInv, RoundInv, PickedInv, proc_run
<1> PICK n : n = next_proc
  OBVIOUS
<1>2. /\ UNCHANGED <<proc_list, state>> /\ current' = n /\ pc' = "switch_to"
      /\ passed' = [p \in Proc |-> IF p # n /\ state[p] = "RUNNABLE" /\ p \in Listed
                                   THEN passed[p] \union {n} ELSE {}]
  BY <1>1 DEF proc_run, fields, tables
<1>3. Listed' = Listed /\ Places' = Places
  BY <1>2 DEF Listed, Places
<1>4. ASSUME NEW p \in Proc, p # n, state[p] = "RUNNABLE", p \in Listed,
             NEW q \in passed[p] \union {n}
      PROVE  Served(p, q)'
  <2>1. PICK i \in Places : proc_list[i] = p
    BY <1>4 DEF Listed, Places
  <2>2. ASSUME NEW m \in Places, n = proc_list[m]
        PROVE  m # i /\ Between(i, m, m)
    <3>1. m # i /\ m \in Nat /\ i \in Nat
      BY <1>4, <2>1, <2>2 DEF Places
    <3> QED
      BY <3>1, BetweenFacts
  <2>3. CASE current = idleproc
    <3>1. PICK m \in Places : n = proc_list[m]
      BY <1>1, <1>4, <2>1, <2>3, NextFromIdle
    <3>2. passed[p] = {}
      <4>1. idleproc \notin Listed
        BY <1>1 DEF TablesInv
      <4>2. \A j \in Places : proc_list[j] # current
        BY <2>3, <4>1 DEF Listed, Places
      <4> QED
        BY <4>2 DEF RoundInv, PassedInv, Served
    <3>3. q = n /\ Between(i, m, m)
      BY <1>4, <2>2, <3>1, <3>2
    <3> QED
      BY <1>2, <1>3, <2>1, <3>1, <3>3 DEF Served
  <2>4. CASE current # idleproc
    <3>1. PICK j \in Places : proc_list[j] = current
      BY <1>1, <2>4 DEF StacksInv, Threads, Listed, Places
    <3>2. PICK m \in Places : n = proc_list[m] /\ (i # j => Between(j, m, i))
      BY <1>1, <1>4, <2>1, <2>4, <3>1, NextIs
    <3>3. m # i /\ Between(i, m, m)
      BY <2>2, <3>2
    <3>4. CASE q = n
      BY <1>2, <1>3, <2>1, <3>2, <3>3, <3>4 DEF Served
    <3>5. CASE q \in passed[p]
      <4>1. PICK i1, j1, k \in Places :
              /\ proc_list[i1] = p /\ proc_list[j1] = current /\ proc_list[k] = q
              /\ Between(i1, k, j1)
        BY <3>5 DEF RoundInv, PassedInv, Served
      <4>2. i1 = i /\ j1 = j
        BY <1>1, <2>1, <3>1, <4>1 DEF Injective
      <4>3. i \in Nat /\ j \in Nat /\ k \in Nat /\ m \in Nat
        BY DEF Places
      <4>4. Between(i, k, j)
        BY <4>1, <4>2
      <4>5. i # j
        BY <4>3, <4>4, BetweenFacts
      <4>6. Between(i, k, m)
        BY <3>2, <3>3, <4>3, <4>4, <4>5, BetweenFacts
      <4> QED
        BY <1>2, <1>3, <2>1, <3>2, <4>1, <4>6 DEF Served
    <3> QED
      BY <1>4, <3>4, <3>5
  <2> QED
    BY <2>3, <2>4
<1>5. PassedInv'
  BY <1>2, <1>3, <1>4 DEF PassedInv
<1>6. Injective' /\ PickedInv'
  BY <1>1, <1>2, <1>3 DEF Injective, PickedInv
<1> QED
  BY <1>5, <1>6 DEF RoundInv

-----------------------------------------------------------------------------
(* The other steps *)

\* A step that leaves the list, and the threads that have been passed.
LEMMA RoundKept ==
    ASSUME RoundInv, UNCHANGED <<proc_list, current, passed>>, PickedInv',
           \A p \in Proc : passed[p] # {} => state'[p] = state[p]
    PROVE  RoundInv'
<1>1. Places' = Places /\ Listed' = Listed
  BY DEF Places, Listed
<1>2. Injective'
  BY <1>1 DEF RoundInv, Injective
<1>3. \A p, q : Served(p, q) => Served(p, q)'
  BY <1>1 DEF Served
<1>4. PassedInv'
  BY <1>1, <1>3 DEF RoundInv, PassedInv
<1> QED
  BY <1>2, <1>4 DEF RoundInv

LEMMA PickRound ==
    ASSUME IInv, Booted, RoundInv, SchedulePick
    PROVE  RoundInv'
<1>1. TypeOK /\ current \in Threads
  BY DEF IInv, StacksInv
<1>2. UNCHANGED <<sp, proc_list, current, passed, state>>
  BY DEF SchedulePick, tables, ghosts
<1>3. next_proc' = next_proc
  BY <1>2 DEF next_proc, circle
<1>4. CASE pc' = "schedule_ret"
  BY <1>2, <1>4, RoundKept DEF PickedInv
<1>5. CASE Push(RunFrame(current, next_proc, FALSE))
  <2> DEFINE f == RunTo(current, next_proc)
  <2>1. current \in Proc /\ next_proc \in Proc
    BY <1>1, NextProcFacts, ThreadsFacts
  <2>2. f \in Frame /\ f.next = next_proc
    BY <2>1, RunFacts
  <2>3. Push(f)
    BY <1>5 DEF RunTo
  <2> HIDE DEF f
  <2>4. Len(frames'[sp]) = Depth + 1 /\ frames'[sp][Depth + 1] = f
    BY <1>1, <2>2, <2>3, PushFacts
  <2>5. Top' = f
    BY <1>2, <2>4 DEF Top, Depth
  <2>6. PickedInv'
    BY <1>3, <2>2, <2>5 DEF PickedInv
  <2> QED
    BY <1>2, <2>6, RoundKept
<1> QED
  BY <1>4, <1>5 DEF SchedulePick

\* Entering the list at its head, a thread comes between its last entry and its first.
LEMMA ForkLinkRound ==
    ASSUME IInv, Booted, RoundInv, ForkLink
    PROVE  RoundInv'
<1>1. pc = "get_pid" /\ "get_pid" \in ForkLabel
  BY DEF ForkLink, ForkLabel, ForkMid
<1>2. PICK c \in Threads, fn \in Fn, p \in Proc \union {NONE} :
         /\ Ready(c, "get_pid") /\ Allocated("get_pid", ForkAt(c, fn, p))
         /\ Top.ra = ForkHome(c) /\ Top.proc = p
  BY <1>1, ForkReady
<1>3. TypeOK /\ p \in Proc \ Threads
  BY <1>2, ForkTypes DEF Allocated, ForkMid, ForkAt, ForkFrame, Ready, IInv
<1>4. /\ current' = current /\ proc_list' = <<p>> \o proc_list
      /\ state' = [state EXCEPT ![p] = "RUNNABLE"] /\ passed' = [passed EXCEPT ![p] = {}]
      /\ pc' = ForkHome(c)
  BY <1>2 DEF ForkLink, fork_out
<1> DEFINE l == proc_list
           t == proc_list'
           n == Len(proc_list)
<1>5. l \in Seq(Proc) /\ n \in Nat /\ p \in Proc /\ \A i \in 1 .. n : l[i] # p
  BY <1>3 DEF TypeOK, Threads, Listed
<1>6. Len(t) = n + 1 /\ t[1] = p /\ \A i \in 1 .. n : t[i + 1] = l[i]
  <2>1. <<p>> \in Seq(Proc) /\ Len(<<p>>) = 1 /\ <<p>>[1] = p
    BY <1>5
  <2>2. /\ Len(t) = 1 + n
        /\ \A i \in 1 .. 1 + n : t[i] = IF i <= 1 THEN <<p>>[i] ELSE l[i - 1]
    BY <1>4, <1>5, <2>1, ConcatProperties
  <2> HIDE DEF t, l, n
  <2>3. t[1] = p
    BY <1>5, <2>1, <2>2
  <2>4. ASSUME NEW i \in 1 .. n PROVE t[i + 1] = l[i]
    <3>1. i + 1 \in 1 .. 1 + n /\ ~ (i + 1 <= 1) /\ (i + 1) - 1 = i
      BY <1>5
    <3> QED
      BY <2>2, <3>1
  <2> QED
    BY <1>5, <2>2, <2>3, <2>4
<1>7. Places' = 1 .. n + 1 /\ Places = 1 .. n
  BY <1>6 DEF Places
<1>8. Injective'
  <2>1. \A i, j \in 1 .. n : l[i] = l[j] => i = j
    BY <1>7 DEF RoundInv, Injective
  <2>2. ASSUME NEW i \in 1 .. n + 1, NEW j \in 1 .. n + 1, t[i] = t[j] PROVE i = j
    <3> HIDE DEF t, l, n
    <3>1. \A x \in 1 .. n + 1 : x = 1 \/ (x - 1 \in 1 .. n /\ t[x] = l[x - 1])
      <4> TAKE x \in 1 .. n + 1
      <4>1. x = 1 \/ (x - 1 \in 1 .. n /\ (x - 1) + 1 = x)
        BY <1>5
      <4> QED
        BY <1>6, <4>1
    <3>2. CASE i = 1 /\ j = 1
      BY <3>2
    <3>3. CASE i = 1 /\ j # 1
      BY <1>5, <1>6, <2>2, <3>1, <3>3
    <3>4. CASE i # 1 /\ j = 1
      BY <1>5, <1>6, <2>2, <3>1, <3>4
    <3>5. CASE i # 1 /\ j # 1
      <4>1. i - 1 \in 1 .. n /\ j - 1 \in 1 .. n /\ l[i - 1] = l[j - 1]
        BY <2>2, <3>1, <3>5
      <4>2. i - 1 = j - 1
        BY <2>1, <4>1
      <4> QED
        BY <1>5, <4>2
    <3> QED
      BY <3>2, <3>3, <3>4, <3>5
  <2> QED
    BY <1>7, <2>2 DEF Injective
<1>9. ASSUME NEW x, NEW y, Served(x, y) PROVE Served(x, y)'
  <2>1. PICK i, j, k \in Places :
          proc_list[i] = x /\ proc_list[j] = current /\ proc_list[k] = y /\ Between(i, k, j)
    BY <1>9 DEF Served
  <2>2. i \in 1 .. n /\ j \in 1 .. n /\ k \in 1 .. n
    BY <1>7
  <2>3. t[i + 1] = x /\ t[j + 1] = current' /\ t[k + 1] = y
    BY <1>4, <1>6, <2>1, <2>2
  <2>4. i + 1 \in Places' /\ j + 1 \in Places' /\ k + 1 \in Places'
    <3> HIDE DEF n
    <3> QED
      BY <1>5, <1>7, <2>2
  <2>5. Between(i + 1, k + 1, j + 1)
    BY <2>1, <2>2, BetweenFacts
  <2> QED
    BY <2>3, <2>4, <2>5 DEF Served
<1>10. PassedInv'
  <2>1. ASSUME NEW q \in Proc, passed'[q] # {}
        PROVE  q \in Listed' /\ state'[q] = "RUNNABLE" /\ \A y \in passed'[q] : Served(q, y)'
    <3>1. q # p /\ passed'[q] = passed[q] /\ state'[q] = state[q]
      BY <1>3, <1>4, <2>1 DEF TypeOK
    <3>2. q \in Listed /\ state[q] = "RUNNABLE" /\ \A y \in passed[q] : Served(q, y)
      BY <2>1, <3>1 DEF RoundInv, PassedInv
    <3>3. q \in Listed'
      <4>1. PICK i \in 1 .. n : l[i] = q
        BY <3>2 DEF Listed
      <4>2. i + 1 \in 1 .. Len(proc_list') /\ proc_list'[i + 1] = q
        <5> HIDE DEF n
        <5> QED
          BY <1>5, <1>6, <4>1
      <4> QED
        BY <4>2 DEF Listed
    <3> QED
      BY <1>9, <3>1, <3>2, <3>3
  <2> QED
    BY <2>1 DEF PassedInv
<1>11. PickedInv'
  BY <1>4 DEF PickedInv, ForkHome
<1> QED
  BY <1>8, <1>10, <1>11 DEF RoundInv

\* The thread on the CPU is not waiting.
LEMMA CurrentNotPassed ==
    ASSUME IInv, RoundInv, current \in Proc
    PROVE  passed[current] = {}
<1> SUFFICES ASSUME NEW q \in passed[current] PROVE FALSE
  OBVIOUS
<1>1. PICK i, j, k \in Places :
        proc_list[i] = current /\ proc_list[j] = current /\ Between(i, k, j)
  BY DEF RoundInv, PassedInv, Served
<1>2. i = j /\ i \in Nat /\ k \in Nat
  BY <1>1 DEF RoundInv, Injective, Places
<1> QED
  BY <1>1, <1>2, BetweenFacts

LEMMA BodyRound ==
    ASSUME IInv, Booted, RoundInv, Body
    PROVE  RoundInv'
<1>1. TypeOK /\ current \in Proc
  BY ThreadsFacts DEF IInv, StacksInv
<1>2. UNCHANGED <<proc_list, current, passed>> /\ pc' # "proc_run"
  BY DEF Body, kernel_thread, Yield, wakeup_proc, ReachTrapping, do_exit, panic, tables, ghosts, cpu
<1>3. ASSUME NEW q \in Proc, passed[q] # {} PROVE state'[q] = state[q]
  <2>1. q # current /\ state[q] = "RUNNABLE"
    BY <1>1, <1>3, CurrentNotPassed DEF RoundInv, PassedInv
  <2>2. CASE \E s \in {"RUNNABLE", "SLEEPING"} : Yield(s)
    BY <1>1, <2>1, <2>2 DEF Yield, TypeOK
  <2>3. CASE \E p \in Proc : wakeup_proc(p)
    BY <1>1, <2>1, <2>3 DEF wakeup_proc, TypeOK
  <2>4. CASE state' = state
    BY <2>4
  <2> QED
    BY <2>2, <2>3, <2>4 DEF Body, kernel_thread, ReachTrapping, do_exit, fields
<1> QED
  BY <1>2, <1>3, RoundKept DEF PickedInv

LEMMA ForkAllocRound ==
    ASSUME IInv, Booted, RoundInv, ForkAllocProc
    PROVE  RoundInv'
<1>1. pc = "do_fork" /\ "do_fork" \in ForkLabel
  BY DEF ForkAllocProc, ForkLabel, ForkMid
<1>2. PICK c \in Threads, fn \in Fn, p0 \in Proc \union {NONE} :
         Ready(c, "do_fork") /\ Allocated("do_fork", ForkAt(c, fn, p0)) /\ Top.ra = ForkHome(c)
  BY <1>1, ForkReady
<1>3. TypeOK /\ TablesInv /\ StacksInv /\ kmem = Threads
  BY <1>2 DEF IInv, Allocated, ForkMid
<1>4. UNCHANGED <<proc_list, current, passed>>
  BY DEF ForkAllocProc, ghosts
<1>5. pc' # "proc_run"
  BY <1>2 DEF ForkAllocProc, fork_out, ForkHome
<1>6. ASSUME NEW q \in Proc, passed[q] # {} PROVE state'[q] = state[q]
  <2>1. q \in Threads
    BY <1>6 DEF RoundInv, PassedInv, Threads
  <2>2. CASE UNCHANGED state
    BY <2>2
  <2>3. CASE ~ ForkLimit /\ state' = [state EXCEPT ![Lowest(Proc \ kmem)] = "UNINIT"]
    <3>1. nr_process < MAX_PROCESS
      BY <1>3, <2>3, GetPidAssumption DEF ForkLimit, TypeOK
    <3>2. Lowest(Proc \ Threads) \in Proc \ Threads
      BY <1>3, <3>1, RoomFacts
    <3> QED
      BY <1>3, <2>1, <2>3, <3>2 DEF TypeOK
  <2> QED
    BY <2>2, <2>3 DEF ForkAllocProc
<1> QED
  BY <1>4, <1>5, <1>6, RoundKept DEF PickedInv

\* Steps that leave the states of the threads, and do not lead to proc_run.
Calm == UNCHANGED <<proc_list, current, passed, state>> /\ pc' # "proc_run"

LEMMA CalmRound ==
    ASSUME RoundInv, Calm
    PROVE  RoundInv'
BY RoundKept DEF Calm, PickedInv

LEMMA CalmSteps ==
    ASSUME IInv, Booted,
           \/ ForkSetupKstack \/ copy_thread \/ ScheduleSave \/ SwitchTo \/ ProcRunReturn
           \/ ScheduleReturn \/ TrapPath \/ Interrupt \/ KernInit \/ cpu_idle \/ forkret
           \/ kernel_thread_entry
    PROVE  Calm
<1>1. CASE copy_thread \/ ScheduleSave \/ ProcRunReturn \/ KernInit \/ cpu_idle \/ forkret
           \/ kernel_thread_entry
  BY <1>1 DEF Calm, copy_thread, ScheduleSave, ProcRunReturn, KernInit, panic, cpu_idle, forkret,
              kernel_thread_entry, fields, tables, ghosts
<1>2. CASE ForkSetupKstack
  <2>1. pc = "setup_kstack" /\ "setup_kstack" \in ForkLabel
    BY <1>2 DEF ForkSetupKstack, ForkLabel, ForkMid
  <2>2. \E c : Top.ra = ForkHome(c)
    BY <2>1, ForkReady
  <2> QED
    BY <1>2, <2>2 DEF Calm, ForkSetupKstack, fork_out, ForkHome, ghosts
<1>3. CASE SwitchTo
  <2>1. pc = "switch_to" /\ "switch_to" \in SwitchLabel /\ pc \in CallLabel
    BY <1>3 DEF SwitchTo, CallLabel, SwitchLabel
  <2>2. PICK c \in Threads : Ready(c, "switch_to")
    BY <2>1, GetReady
  <2>3. PICK n \in Threads : Top = RunTo(c, n) /\ n # c
    BY <2>1, <2>2, RunTop
  <2>4. Top.next = n
    BY <2>3 DEF RunTo, RunFrame
  <2>5. context[n].ra \in {"forkret", "proc_run_ret"}
    BY <2>2, <2>3 DEF Ready, OthersWait, Waits
  <2> QED
    BY <1>3, <2>4, <2>5 DEF Calm, SwitchTo, switch_to, fields, tables, ghosts
<1>4. CASE ScheduleReturn
  <2>1. pc = "schedule_ret" /\ "schedule_ret" \in SchedLabel /\ pc \in CallLabel
    BY <1>4 DEF ScheduleReturn, CallLabel, SchedLabel
  <2>2. \E c : Top.ra = Home(c)
    BY <2>1, GetReady, SchedTop, SchedFacts
  <2> QED
    BY <1>4, <2>2 DEF Calm, ScheduleReturn, Home, fields, tables, ghosts
<1>5. CASE Interrupt \/ Exception \/ SAVE_ALL \/ exception_handler \/ interrupt_handler
           \/ RestoreStatus \/ RESTORE_ALL
  BY <1>5 DEF Calm, Interrupt, Exception, TakeTrap, SAVE_ALL, exception_handler, interrupt_handler,
              RestoreStatus, RESTORE_ALL, fields, tables, ghosts
<1>6. CASE Sret
  <2>1. pc = "sret" /\ pc \in TrapLabel
    BY <1>6 DEF Sret, TrapLabel
  <2>2. PICK c \in Threads, r \in CallLabel : InTrap(c, r)
    BY <2>1, Trapping
  <2>3. sepc = r /\ r \notin SwitchLabel
    BY <2>1, <2>2, InterruptibleIs DEF InTrap
  <2> QED
    BY <1>6, <2>3 DEF Calm, Sret, SwitchLabel, fields, tables
<1> QED
  BY <1>1, <1>2, <1>3, <1>4, <1>5, <1>6 DEF TrapPath

-----------------------------------------------------------------------------
(* The property *)

\* Booting, and the steps that change nothing.
LEMMA StillRound ==
    ASSUME IInv, RoundInv, UNCHANGED vars
    PROVE  RoundInv'
<1>1. UNCHANGED <<proc_list, current, passed, state>>
  BY DEF vars
<1>2. PickedInv'
  <2>1. Top' = Top /\ next_proc' = next_proc /\ pc' = pc
    BY DEF vars, Top, Depth, next_proc, circle
  <2> QED
    BY <2>1 DEF RoundInv, PickedInv
<1> QED
  BY <1>1, <1>2, RoundKept

LEMMA BootRound ==
    ASSUME IInv, ~ Booted, RoundInv, proc_init
    PROVE  RoundInv' /\ \A p \in Proc : passed[p] = {}
<1>1. proc_list = <<>> /\ pc' # "proc_run" /\ UNCHANGED <<proc_list, passed>>
  BY DEF IInv, BootInv, proc_init, panic, ghosts
<1>2. \A p \in Proc : passed[p] = {}
  BY <1>1 DEF RoundInv, PassedInv, Listed
<1>3. Injective' /\ PassedInv' /\ PickedInv'
  <2>1. Places' = {}
    BY <1>1 DEF Places
  <2> QED
    BY <1>1, <1>2, <2>1 DEF Injective, PassedInv, PickedInv
<1> QED
  BY <1>2, <1>3 DEF RoundInv

LEMMA BootedSteps ==
    ASSUME IInv, Booted, Next
    PROVE  \/ proc_run \/ SchedulePick \/ ForkLink \/ ForkAllocProc \/ Body
           \/ Calm \/ UNCHANGED vars
<1>1. ~ proc_init
  <2>1. PICK c \in Threads, r \in CallLabel : Running(c, r)
    BY DEF IInv, RunInv
  <2>2. pc \in CallLabel \union TrapLabel \union {"halt"}
    BY <2>1 DEF Running, At, InTrap
  <2>3. pc # "proc_init"
    BY <2>2 DEF CallLabel, ForkLabel, ForkMid, ThreadLabel, SchedLabel, SwitchLabel, TrapLabel
  <2> QED
    BY <2>3 DEF proc_init
<1>2. Halted => UNCHANGED vars
  BY DEF Halted
<1> QED
  BY <1>1, <1>2, CalmSteps DEF Next, Kernel, Fork, Switch

LEMMA RoundNext ==
    ASSUME IInv, RoundInv, [Next]_vars
    PROVE  RoundInv'
<1>1. CASE UNCHANGED vars
  BY <1>1, StillRound
<1>2. CASE Next /\ ~ Booted
  BY <1>2, BootStep, BootRound, StillRound
<1>3. CASE Next /\ Booted
  BY <1>3, BootedSteps, ProcRunRound, PickRound, ForkLinkRound, ForkAllocRound, BodyRound,
     CalmRound, StillRound
<1> QED
  BY <1>1, <1>2, <1>3

LEMMA RoundInit ==
    ASSUME Init
    PROVE  RoundInv
<1>1. Places = {} /\ pc # "proc_run" /\ \A p \in Proc : passed[p] = {}
  BY DEF Init, Places
<1> QED
  BY <1>1 DEF RoundInv, Injective, PassedInv, PickedInv

\* The order of the visits is an invariant.
THEOREM RoundInvariance == Spec => []RoundInv
<1>1. Init => RoundInv
  BY RoundInit
<1>2. IInv /\ RoundInv /\ [Next]_vars => RoundInv'
  BY RoundNext
<1> QED
  BY <1>1, <1>2, Invariance, PTL DEF Spec

LEMMA StepOvertakesNobody ==
    ASSUME IInv, RoundInv, [Next]_vars, current' # current
    PROVE  \A p \in Proc : current' \notin passed[p]
<1>1. Next
  BY DEF vars
<1>2. CASE ~ Booted
  BY <1>1, <1>2, BootStep, BootRound DEF vars
<1>3. CASE Booted
  <2>1. CASE proc_run
    <3>1. current' = next_proc
      BY <2>1 DEF proc_run, RoundInv, PickedInv
    <3> QED
      BY <1>3, <3>1, NextNotPassed
  <2>2. CASE SchedulePick \/ ForkLink \/ ForkAllocProc \/ Body \/ Calm \/ UNCHANGED vars
    BY <2>2 DEF SchedulePick, ForkLink, ForkAllocProc, Body, kernel_thread, Yield, wakeup_proc,
                ReachTrapping, do_exit, Calm, vars
  <2> QED
    BY <1>1, <1>3, <2>1, <2>2, BootedSteps
<1> QED
  BY <1>2, <1>3

\* schedule starts its search after the caller in proc_list, so a thread that waits sees
\* no other thread get the CPU twice, though do_fork adds entries at the head meanwhile.
THEOREM RoundRobin == Spec => NoOvertaking
<1>1. IInv /\ RoundInv /\ [Next]_vars
        => [current' # current => \A p \in Proc : current' \notin passed[p]]_vars
  BY StepOvertakesNobody
<1> QED
  BY <1>1, Invariance, RoundInvariance, PTL DEF Spec, NoOvertaking

===============================================================================
