--------------------------------- MODULE Proc ---------------------------------
(***************************************************************************)
(* Kernel threads: kern/process/proc.c, switch.S and entry.S, schedule of  *)
(* kern/schedule/sched.c, the interrupt flag of kern/sync/sync.h and the   *)
(* trap path of kern/trap, on one CPU.                                     *)
(*                                                                         *)
(* One step is a stretch of code between two places where an interrupt or  *)
(* a switch can tell the difference.  A timer interrupt may come before    *)
(* any step while sstatus.SIE is set.  A stack is the sequence of the      *)
(* frames on it, so a local that is read after a switch is read from the   *)
(* stack the CPU is then on.  The callee-saved registers are one register, *)
(* s0; kernel_thread starts it with the thread's function, and the thread  *)
(* must find its own value in it ever after.                               *)
(*                                                                         *)
(* Thread functions are external code.  init_main returns at once; a       *)
(* function in general may create threads, call schedule, sleep, wake      *)
(* another thread, execute an instruction that traps, and return, which    *)
(* ends in do_exit's panic.                                                *)
(***************************************************************************)
EXTENDS Pids, Sequences

CONSTANTS
    Fn,                 \* thread functions, each with its argument
    init_main,
    Bucket,             \* the indexes of hash_list
    pid_hashfn(_),
    TICK_NUM,           \* ticks between two prints (100 in the code)
    MaxPrints           \* prints before the machine is shut down (10 in the code)

ASSUME ProcAssumption ==
    /\ init_main \in Fn
    /\ \A p \in Pid : pid_hashfn(p) \in Bucket
    /\ TICK_NUM \in Nat \ {0} /\ MaxPrints \in Nat \ {0}

\* proc_structs and stacks are numbered; 0 is idleproc and bootstack.  There is
\* always one more of each than do_fork may use.
Proc == 0 .. MAX_PROCESS
Stack == Proc
idleproc == 0
bootstack == 0
NONE == -1
NOFN == "none"

VARIABLES
    (* the CPU *)
    pc,             \* where it executes
    sp,             \* the stack it is on
    s0,
    sstatus,        \* [sie, spie]
    sepc, scause,
    (* memory *)
    frames,         \* of every stack
    kmem,           \* the proc_structs kmalloc has given out
    kpages,         \* the stacks alloc_pages has given out
    (* proc.c *)
    current,
    state, pid, kstack, need_resched,   \* fields of the proc_structs
    context,                            \* [ra, sp, s0]
    proc_list,      \* newest first
    hash_list,
    nr_process,
    last_pid,       \* get_pid's static
    ret,            \* what the last do_fork returned
    ticks,          \* trap.c
    (* not in the code *)
    job,            \* the function each thread was created for
    passed,         \* for each waiting thread, who was switched to meanwhile
    from            \* the trap being handled: where it was taken, and its cause

csrs == <<sepc, scause>>
cpu == <<pc, sp, s0, sstatus, sepc, scause>>
memory == <<kmem, kpages>>
fields == <<state, pid, kstack, need_resched>>
tables == <<proc_list, hash_list, nr_process, last_pid, ret>>
ghosts == <<job, passed, from>>
vars == <<pc, sp, s0, sstatus, sepc, scause, frames, kmem, kpages, current, state, pid, kstack,
          need_resched, context, proc_list, hash_list, nr_process, last_pid, ret,
          ticks, job, passed, from>>

-----------------------------------------------------------------------------
(* Frames.  ra is the label a call returns to; depth is how much of the    *)
(* stack is left when x2 is restored from a trapframe.                     *)

TrapFrame(epc, cause, reg, status, depth) ==
    [kind |-> "trap", epc |-> epc, cause |-> cause, s0 |-> reg, status |-> status, depth |-> depth]
SchedFrame(ra, flag) == [kind |-> "sched", ra |-> ra, flag |-> flag]
RunFrame(prev, next, flag) == [kind |-> "run", prev |-> prev, next |-> next, flag |-> flag]
ForkFrame(ra, fn, proc) == [kind |-> "fork", ra |-> ra, fn |-> fn, proc |-> proc]
NoTrap == [at |-> "none", cause |-> "none"]

Depth == Len(frames[sp])
Top == frames[sp][Depth]
Push(f) == frames' = [frames EXCEPT ![sp] = Append(@, f)]
Pop == frames' = [frames EXCEPT ![sp] = SubSeq(@, 1, Len(@) - 1)]
Replace(f) == frames' = [frames EXCEPT ![sp] = Append(SubSeq(@, 1, Len(@) - 1), f)]

Lowest(S) == CHOOSE x \in S : \A y \in S : x <= y
Listed == {proc_list[i] : i \in 1 .. Len(proc_list)}
PidsTaken == {pid[p] : p \in Listed}

\* panic: interrupts off, and the monitor for ever.
panic ==
    /\ sstatus' = [sstatus EXCEPT !.sie = FALSE]
    /\ pc' = "halt"

-----------------------------------------------------------------------------
(* An operator that is defined and not used stands for a mistake in the     *)
(* code of the definition that follows it; PROJECT.json ("mutants") names   *)
(* the property that catches it.                                           *)

(* kern/sync/sync.h *)

intr_save_only == sstatus' = sstatus
__intr_save == sstatus' = [sstatus EXCEPT !.sie = FALSE]
__intr_restore(flag) == sstatus' = [sstatus EXCEPT !.sie = @ \/ flag]

(* Boot.  The variables before proc_init: everything zero or undefined.    *)

Init ==
    /\ pc = "proc_init" /\ sp = bootstack /\ s0 = NOFN /\ sepc = "none" /\ scause = "none"
    /\ sstatus = [sie |-> FALSE, spie |-> FALSE]
    /\ frames = [k \in Stack |-> <<>>]
    /\ kmem = {} /\ kpages = {bootstack}
    /\ current = NONE
    /\ state = [p \in Proc |-> "UNINIT"]
    /\ pid = [p \in Proc |-> -1]
    /\ kstack = [p \in Proc |-> NONE]
    /\ need_resched = [p \in Proc |-> FALSE]
    /\ context = [p \in Proc |-> [ra |-> "none", sp |-> NONE, s0 |-> NOFN]]
    /\ proc_list = <<>>
    /\ hash_list = [b \in Bucket |-> <<>>]
    /\ nr_process = 0 /\ last_pid = MAX_PID /\ ret = 0 /\ ticks = 0
    /\ job = [p \in Proc |-> NOFN]
    /\ passed = [p \in Proc |-> {}] /\ from = NoTrap

\* proc_init up to its call of kernel_thread.
proc_init ==
    /\ pc = "proc_init"
    /\ \/ /\ panic                      \* alloc_proc() == NULL
          /\ UNCHANGED <<frames, kmem, current, state, pid, kstack, need_resched, nr_process>>
       \/ /\ kmem' = {idleproc}
          /\ pid' = [pid EXCEPT ![idleproc] = 0]
          /\ state' = [state EXCEPT ![idleproc] = "RUNNABLE"]
          /\ kstack' = [kstack EXCEPT ![idleproc] = bootstack]
          /\ need_resched' = [need_resched EXCEPT ![idleproc] = TRUE]
          /\ nr_process' = nr_process + 1
          /\ current' = idleproc
          /\ Push(ForkFrame("proc_init_ret", init_main, NONE))
          /\ pc' = "do_fork"
          /\ UNCHANGED sstatus
    /\ UNCHANGED <<sp, s0, csrs, kpages, context, proc_list, hash_list, last_pid, ret, ticks, ghosts>>

-----------------------------------------------------------------------------
(* do_fork, called by kernel_thread: frame Top holds its local proc.       *)

ForkLimit == nr_process >= MAX_PROCESS

fork_out(r) ==
    /\ Pop
    /\ pc' = Top.ra
    /\ ret' = r

\* The limit, then alloc_proc; E_NO_FREE_PROC and E_NO_MEM are both -1.
ForkAllocProc ==
    /\ pc = "do_fork"
    /\ \/ /\ ForkLimit
          /\ fork_out(-1)
          /\ UNCHANGED <<kmem, state, pid, kstack, need_resched, context>>
       \/ /\ ~ ForkLimit /\ fork_out(-1)        \* kmalloc returns NULL
          /\ UNCHANGED <<kmem, state, pid, kstack, need_resched, context>>
       \/ /\ ~ ForkLimit
          /\ LET p == Lowest(Proc \ kmem) IN
              /\ kmem' = kmem \union {p}
              /\ state' = [state EXCEPT ![p] = "UNINIT"]
              /\ pid' = [pid EXCEPT ![p] = -1]
              /\ kstack' = [kstack EXCEPT ![p] = NONE]
              /\ need_resched' = [need_resched EXCEPT ![p] = FALSE]
              /\ context' = [context EXCEPT ![p] = [ra |-> "none", sp |-> NONE, s0 |-> NOFN]]
              /\ Replace(ForkFrame(Top.ra, Top.fn, p))
          /\ pc' = "setup_kstack"
          /\ UNCHANGED ret
    /\ UNCHANGED <<sp, s0, sstatus, csrs, kpages, current, proc_list, hash_list, nr_process,
                   last_pid, ticks, ghosts>>

cleanup_nothing == kmem' = kmem
bad_fork_cleanup_proc == kmem' = kmem \ {Top.proc}

ForkSetupKstack ==
    /\ pc = "setup_kstack"
    /\ \/ /\ bad_fork_cleanup_proc              \* alloc_pages returns NULL
          /\ fork_out(-1)
          /\ UNCHANGED <<kpages, kstack>>
       \/ /\ LET k == Lowest(Stack \ kpages) IN
              /\ kpages' = kpages \union {k}
              /\ kstack' = [kstack EXCEPT ![Top.proc] = k]
          /\ pc' = "copy_thread"
          /\ UNCHANGED <<frames, ret, kmem>>
    /\ UNCHANGED <<sp, s0, sstatus, csrs, current, state, pid, need_resched, context,
                   proc_list, hash_list, nr_process, last_pid, ticks, ghosts>>

\* The status kernel_thread puts into the trapframe: SPIE set, SIE clear.
status_sie_set == [sie |-> TRUE, spie |-> TRUE]
thread_status == [sie |-> FALSE, spie |-> TRUE]

\* copy_mm does nothing.  The trapframe goes to the end of the new stack, and x2
\* restored from it points at the trapframe itself, which so stays where it is.
copy_thread ==
    /\ pc = "copy_thread"
    /\ LET p == Top.proc
           k == kstack[p]
       IN /\ frames' = [frames EXCEPT ![k] =
                            <<TrapFrame("kernel_thread_entry", "none", Top.fn, thread_status, 1)>>]
          /\ context' = [context EXCEPT ![p].ra = "forkret", ![p].sp = k]
    /\ pc' = "get_pid"
    /\ UNCHANGED <<sp, s0, sstatus, csrs, memory, current, fields, tables, ticks, ghosts>>

\* get_pid finds the first free pid from the one after the last (module GetPid).
get_pid(r) == IsFirstFree(r, IF last_pid + 1 >= MAX_PID THEN 1 ELSE last_pid + 1, PidsTaken)

hash_before_pid(p, r) == LET b == pid_hashfn(IF pid[p] \in Pid THEN pid[p] ELSE 1) IN
    hash_list' = [hash_list EXCEPT ![b] = <<p>> \o @]
hash_proc(p, r) == hash_list' = [hash_list EXCEPT ![pid_hashfn(r)] = <<p>> \o @]

\* get_pid, hash_proc, list_add, nr_process++, and wakeup_proc with its assertion.
\* An assertion is a guard: if it failed, no step would be left.
ForkLink ==
    /\ pc = "get_pid"
    /\ LET p == Top.proc IN
        /\ state[p] \notin {"ZOMBIE", "RUNNABLE"}
        /\ \E r \in Pid :
            /\ get_pid(r)
            /\ pid' = [pid EXCEPT ![p] = r]
            /\ last_pid' = r
            /\ hash_proc(p, r)
            /\ fork_out(r)
        /\ proc_list' = <<p>> \o proc_list
        /\ nr_process' = nr_process + 1
        /\ state' = [state EXCEPT ![p] = "RUNNABLE"]
        /\ job' = [job EXCEPT ![p] = Top.fn]
        /\ passed' = [passed EXCEPT ![p] = {}]
    /\ UNCHANGED <<sp, s0, sstatus, csrs, memory, current, kstack, need_resched, context,
                   ticks, from>>

-----------------------------------------------------------------------------

find_proc(r) ==
    LET l == hash_list[pid_hashfn(r)]
        at == {i \in 1 .. Len(l) : pid[l[i]] = r}
    IN IF r \in Pid /\ at # {} THEN l[Lowest(at)] ELSE NONE

\* initproc = find_proc(pid), and the two assertions.
ProcInitAsserts ==
    LET initproc == find_proc(ret)
    IN initproc # NONE /\ pid[initproc] = 1 /\ pid[idleproc] = 0

\* The rest of proc_init, and of kern_init: the timer starts, interrupts are
\* enabled, and idleproc goes into cpu_idle.
KernInit ==
    /\ pc = "proc_init_ret"
    /\ \/ /\ ret <= 0
          /\ panic
       \/ /\ ret > 0
          /\ ProcInitAsserts
          /\ sstatus' = [sstatus EXCEPT !.sie = TRUE]
          /\ pc' = "cpu_idle"
    /\ UNCHANGED <<sp, s0, csrs, frames, memory, current, fields, context, tables, ticks, ghosts>>

cpu_idle ==
    /\ pc = "cpu_idle" /\ need_resched[current]
    /\ Push(SchedFrame("cpu_idle", FALSE))
    /\ pc' = "schedule"
    /\ UNCHANGED <<sp, s0, sstatus, csrs, memory, current, fields, context, tables, ticks, ghosts>>

-----------------------------------------------------------------------------
(* schedule, proc_run, switch_to, forkret.                                 *)

ScheduleSave ==
    /\ pc = "schedule"
    /\ Replace(SchedFrame(Top.ra, sstatus.sie))
    /\ __intr_save
    /\ pc' = "pick"
    /\ UNCHANGED <<sp, s0, csrs, memory, current, fields, context, tables, ticks, ghosts>>

\* The order in which the loop visits the list: from the head for idleproc, else
\* from the entry after the caller's round to the caller's.
always_from_head(p) == proc_list
circle(p) ==
    IF p = idleproc THEN proc_list
    ELSE LET i == CHOOSE i \in 1 .. Len(proc_list) : proc_list[i] = p
         IN SubSeq(proc_list, i + 1, Len(proc_list)) \o SubSeq(proc_list, 1, i)

next_proc ==
    LET c == circle(current)
        runnable == {i \in 1 .. Len(c) : state[c[i]] = "RUNNABLE"}
    IN IF runnable = {} THEN idleproc ELSE c[Lowest(runnable)]

SchedulePick ==
    /\ pc = "pick"
    /\ need_resched' = [need_resched EXCEPT ![current] = FALSE]
    /\ \/ /\ next_proc # current
          /\ Push(RunFrame(current, next_proc, FALSE))
          /\ pc' = "proc_run"
       \/ /\ next_proc = current
          /\ pc' = "schedule_ret"
          /\ UNCHANGED frames
    /\ UNCHANGED <<sp, s0, sstatus, csrs, memory, current, state, pid, kstack, context,
                   tables, ticks, ghosts>>

\* proc_run up to its call of switch_to.  lsatp is left out: every pgdir is
\* boot_pgdir_pa.
proc_run ==
    /\ pc = "proc_run"
    /\ Replace(RunFrame(current, Top.next, sstatus.sie))
    /\ __intr_save
    /\ current' = Top.next
    /\ passed' = [p \in Proc |-> IF p # current' /\ state[p] = "RUNNABLE" /\ p \in Listed
                                 THEN passed[p] \union {current'} ELSE {}]
    /\ pc' = "switch_to"
    /\ UNCHANGED <<sp, s0, csrs, memory, fields, context, tables, ticks, job, from>>

switch_keeps_s0(prev, next) ==
    /\ context' = [context EXCEPT ![prev] = [ra |-> "proc_run_ret", sp |-> sp, s0 |-> s0]]
    /\ pc' = context[next].ra
    /\ sp' = context[next].sp
    /\ UNCHANGED s0

switch_to(prev, next) ==
    /\ context' = [context EXCEPT ![prev] = [ra |-> "proc_run_ret", sp |-> sp, s0 |-> s0]]
    /\ pc' = context[next].ra
    /\ sp' = context[next].sp
    /\ s0' = context[next].s0

SwitchTo ==
    /\ pc = "switch_to"
    /\ switch_to(Top.prev, Top.next)
    /\ UNCHANGED <<sstatus, csrs, frames, memory, current, fields, tables, ticks, ghosts>>

ProcRunReturn ==
    /\ pc = "proc_run_ret"
    /\ __intr_restore(Top.flag)
    /\ Pop
    /\ pc' = "schedule_ret"
    /\ UNCHANGED <<sp, s0, csrs, memory, current, fields, context, tables, ticks, ghosts>>

ScheduleReturn ==
    /\ pc = "schedule_ret"
    /\ __intr_restore(Top.flag)
    /\ Pop
    /\ pc' = Top.ra
    /\ UNCHANGED <<sp, s0, csrs, memory, current, fields, context, tables, ticks, ghosts>>

\* forkret and forkrets: sp = current->tf, the first frame of its stack.
forkret ==
    /\ pc = "forkret"
    /\ sp' = kstack[current]
    /\ frames' = [frames EXCEPT ![sp'] = SubSeq(@, 1, 1)]
    /\ pc' = "__trapret"
    /\ from' = [at |-> "kernel_thread_entry", cause |-> "none"]
    /\ UNCHANGED <<s0, sstatus, csrs, memory, current, fields, context, tables, ticks,
                   job, passed>>

-----------------------------------------------------------------------------
(* Traps: the hardware, SAVE_ALL, trap, RESTORE_ALL, sret.                 *)

TakeTrap(cause) ==
    /\ sepc' = pc /\ scause' = cause /\ from' = [at |-> pc, cause |-> cause]
    /\ sstatus' = [sie |-> FALSE, spie |-> sstatus.sie]
    /\ pc' = "__alltraps"
    /\ UNCHANGED <<sp, s0, frames, memory, current, fields, context, tables, ticks, job, passed>>

\* External: the hart takes a timer interrupt.
Interrupt ==
    /\ sstatus.sie /\ pc # "halt"
    /\ TakeTrap("timer")

\* External: the hart executes an instruction that traps.  "ebreak" stands for a
\* breakpoint or an illegal instruction, "fault" for every other cause.
Exception ==
    \/ pc = "ebreak" /\ TakeTrap("breakpoint")
    \/ pc = "fault" /\ TakeTrap("fault")

\* (scause is not read again and is cleared, so that equal states are equal.)
SAVE_ALL ==
    /\ pc = "__alltraps"
    /\ Push(TrapFrame(sepc, scause, s0, sstatus, Depth))
    /\ scause' = "none"
    /\ s0' = NOFN                       \* the macro and trap use the register
    /\ pc' = "trap"
    /\ UNCHANGED <<sp, sstatus, sepc, memory, current, fields, context, tables, ticks, ghosts>>

\* Only a breakpoint or an illegal instruction is stepped over; after any other
\* exception the instruction is executed again.
advance_pc(epc) == IF epc = "ebreak" THEN "body" ELSE epc

exception_handler ==
    /\ pc = "trap" /\ Top.cause # "timer"
    /\ \/ Top.cause = "breakpoint" /\ Replace([Top EXCEPT !.epc = advance_pc(@)])
       \/ Top.cause = "fault" /\ UNCHANGED frames
    /\ pc' = "__trapret"
    /\ UNCHANGED <<sp, s0, sstatus, csrs, memory, current, fields, context, tables,
                   ticks, ghosts>>

\* trap, interrupt_handler: ticks, and the shutdown after MaxPrints prints.
interrupt_handler ==
    /\ pc = "trap" /\ Top.cause = "timer"
    /\ ticks' = ticks + 1
    /\ \/ /\ ticks' = TICK_NUM * MaxPrints
          /\ pc' = "halt"
       \/ /\ ticks' # TICK_NUM * MaxPrints
          /\ pc' = "__trapret"
    /\ UNCHANGED <<sp, s0, sstatus, csrs, frames, memory, current, fields, context, tables, ghosts>>

\* csrw sstatus comes before csrw sepc: from here on an interrupt could come, and
\* would overwrite sepc, if the saved status had SIE set.
RestoreStatus ==
    /\ pc = "__trapret"
    /\ sstatus' = Top.status
    /\ pc' = "restore"
    /\ UNCHANGED <<sp, s0, csrs, frames, memory, current, fields, context, tables, ticks, ghosts>>

restore_sp_only == s0' = s0
restore_gprs == s0' = Top.s0

RESTORE_ALL ==
    /\ pc = "restore"
    /\ sepc' = Top.epc
    /\ restore_gprs
    /\ frames' = [frames EXCEPT ![sp] = SubSeq(@, 1, Top.depth)]
    /\ pc' = "sret"
    /\ UNCHANGED <<sp, sstatus, scause, memory, current, fields, context, tables, ticks, ghosts>>

\* External: the instruction sret.
Sret ==
    /\ pc = "sret"
    /\ sstatus' = [sie |-> sstatus.spie, spie |-> TRUE]
    /\ pc' = sepc
    /\ from' = NoTrap
    /\ UNCHANGED <<sp, s0, csrs, frames, memory, current, fields, context, tables, ticks,
                   job, passed>>

-----------------------------------------------------------------------------
(* Threads.                                                                *)

kernel_thread_entry ==
    /\ pc = "kernel_thread_entry"
    /\ pc' = "body"
    /\ UNCHANGED <<sp, s0, sstatus, csrs, frames, memory, current, fields, context, tables,
                   ticks, ghosts>>

kernel_thread(fn) ==
    /\ pc = "body"
    /\ Push(ForkFrame("body", fn, NONE))
    /\ pc' = "do_fork"
    /\ UNCHANGED <<sp, s0, sstatus, csrs, memory, current, fields, context, tables, ticks, ghosts>>

\* External: the thread calls schedule; before that it may mark itself sleeping,
\* to be woken by another thread.
Yield(s) ==
    /\ pc = "body"
    /\ state' = [state EXCEPT ![current] = s]
    /\ Push(SchedFrame("body", FALSE))
    /\ pc' = "schedule"
    /\ UNCHANGED <<sp, s0, sstatus, csrs, memory, current, pid, kstack, need_resched, context,
                   tables, ticks, ghosts>>

wakeup_proc(p) ==
    /\ pc = "body"
    /\ p \in Listed /\ state[p] \notin {"ZOMBIE", "RUNNABLE"}
    /\ state' = [state EXCEPT ![p] = "RUNNABLE"]
    /\ UNCHANGED <<cpu, frames, memory, current, pid, kstack, need_resched, context,
                   tables, ticks, ghosts>>

\* External: the thread comes to an instruction that traps.
ReachTrapping(l) ==
    /\ pc = "body"
    /\ pc' = l
    /\ UNCHANGED <<sp, s0, sstatus, csrs, frames, memory, current, fields, context, tables, ticks,
                   ghosts>>

\* The thread function returns to kernel_thread_entry, which calls do_exit.
do_exit ==
    /\ pc = "body"
    /\ panic
    /\ UNCHANGED <<sp, s0, csrs, frames, memory, current, fields, context, tables, ticks, ghosts>>

Halted == pc = "halt" /\ UNCHANGED vars

-----------------------------------------------------------------------------

Fork == ForkAllocProc \/ ForkSetupKstack \/ copy_thread \/ ForkLink
Switch == ScheduleSave \/ SchedulePick \/ proc_run \/ SwitchTo \/ ProcRunReturn \/ ScheduleReturn
TrapPath == Exception \/ SAVE_ALL \/ exception_handler \/ interrupt_handler
                \/ RestoreStatus \/ RESTORE_ALL \/ Sret

\* What the CPU does by itself.
Kernel == proc_init \/ KernInit \/ cpu_idle \/ Fork \/ Switch \/ forkret \/ TrapPath \/ kernel_thread_entry

Body ==
    \/ \E fn \in Fn : kernel_thread(fn)
    \/ \E s \in {"RUNNABLE", "SLEEPING"} : Yield(s)
    \/ \E p \in Proc : wakeup_proc(p)
    \/ \E l \in {"ebreak", "fault"} : ReachTrapping(l)
    \/ do_exit

Next == Kernel \/ Body \/ Interrupt \/ Halted

Spec == Init /\ [][Next]_vars

\* The CPU goes on executing, and thread functions are cooperative: one that runs
\* again and again calls schedule some time.
FairSpec ==
    /\ Spec
    /\ WF_vars(Kernel)
    /\ SF_vars(\E s \in {"RUNNABLE", "SLEEPING"} : Yield(s))

-----------------------------------------------------------------------------

Label == {"proc_init", "do_fork", "setup_kstack", "copy_thread", "get_pid", "proc_init_ret",
          "cpu_idle", "schedule", "pick", "proc_run", "switch_to", "proc_run_ret",
          "schedule_ret", "forkret", "__alltraps", "trap", "__trapret", "restore", "sret",
          "kernel_thread_entry", "body", "ebreak", "fault", "halt"}
Cause == {"none", "timer", "breakpoint", "fault"}
Status == [sie : BOOLEAN, spie : BOOLEAN]
Reg == Fn \union {NOFN}
Frame ==
    [kind : {"trap"}, epc : Label, cause : Cause, s0 : Reg, status : Status, depth : Nat]
        \union [kind : {"sched"}, ra : Label, flag : BOOLEAN]
        \union [kind : {"run"}, prev : Proc, next : Proc, flag : BOOLEAN]
        \union [kind : {"fork"}, ra : Label, fn : Fn, proc : Proc \union {NONE}]

TypeOK ==
    /\ pc \in Label /\ sp \in Stack /\ s0 \in Reg
    /\ sstatus \in Status /\ sepc \in Label \union {"none"} /\ scause \in Cause
    /\ frames \in [Stack -> Seq(Frame)]
    /\ kmem \subseteq Proc /\ kpages \subseteq Stack
    /\ current \in Proc \union {NONE}
    /\ state \in [Proc -> {"UNINIT", "SLEEPING", "RUNNABLE"}]
    /\ pid \in [Proc -> -1 .. MAX_PID - 1]
    /\ kstack \in [Proc -> Stack \union {NONE}]
    /\ need_resched \in [Proc -> BOOLEAN]
    /\ context \in [Proc -> [ra : Label \union {"none"}, sp : Stack \union {NONE}, s0 : Reg]]
    /\ proc_list \in Seq(Proc)
    /\ hash_list \in [Bucket -> Seq(Proc)]
    /\ nr_process \in 0 .. MAX_PROCESS
    /\ last_pid \in 1 .. MAX_PID /\ ret \in -1 .. MAX_PID - 1
    /\ ticks \in 0 .. TICK_NUM * MaxPrints
    /\ job \in [Proc -> Reg]
    /\ passed \in [Proc -> SUBSET Proc] /\ from \in [at : Label \union {"none"}, cause : Cause]

Threads == Listed \union {idleproc}
Booted == current # NONE
Forking == \E k \in Stack : \E i \in 1 .. Len(frames[k]) : frames[k][i].kind = "fork"

\* Whenever an interrupt can come, the CPU is on the stack of the process that
\* current points to: the window in proc_run and switch_to in which they differ is
\* never open to the trap handler.
InterruptsFindCurrent == sstatus.sie => Booted /\ sp = kstack[current]

\* A thread's own code always runs with interrupts enabled, however it got the CPU:
\* for the first time through forkret and sret, or by returning from a switch that
\* another thread's call of schedule made.  It finds its own registers and its own
\* stack, empty but for the trapframe of its creation.
ThreadsUndisturbed ==
    /\ pc \in {"cpu_idle", "kernel_thread_entry", "body", "ebreak", "fault"} => sstatus.sie
    /\ pc \in {"kernel_thread_entry", "body", "ebreak", "fault"} =>
            s0 = job[current] /\ sp = kstack[current] /\ Depth = 1

\* sret returns to where the trap was taken, and only a breakpoint is stepped over:
\* a timer interrupt that comes just before it is not taken for it.  sret never
\* returns into the trap path: no second interrupt came between the writes of
\* sstatus and sepc and the sret.
SretReturns ==
    pc = "sret" =>
        /\ sepc \notin {"__alltraps", "trap", "__trapret", "restore", "sret"}
        /\ sepc = IF from.cause = "breakpoint" THEN "body" ELSE from.at

\* Every thread that is not on the CPU can be resumed: its context points to its
\* own stack, on which either its first trapframe waits, or the frames of its
\* schedule and proc_run, whose flags give it back its interrupts.
Resumable ==
    Booted => \A p \in Threads :
        LET k == kstack[p]
            n == Len(frames[k])
        IN k # sp =>
            /\ context[p].sp = k
            /\ \/ /\ context[p].ra = "forkret"
                  /\ frames[k] = <<TrapFrame("kernel_thread_entry", "none", job[p],
                                             [sie |-> FALSE, spie |-> TRUE], 1)>>
               \/ /\ context[p].ra = "proc_run_ret" /\ context[p].s0 = job[p]
                  /\ n >= 2
                  /\ frames[k][n].kind = "run" /\ frames[k][n].prev = p
                  /\ ~ frames[k][n].flag
                  /\ frames[k][n - 1] = SchedFrame(IF p = idleproc THEN "cpu_idle" ELSE "body", TRUE)

\* Between two calls of do_fork nothing is left of the calls that failed: the
\* proc_structs and stacks given out are those of the threads, one stack each.
NothingLeaked ==
    Booted /\ ~ Forking =>
        /\ kmem = Threads
        /\ kpages = {kstack[p] : p \in Threads}
        /\ \A p, q \in Threads : p # q => kstack[p] # kstack[q]

\* proc_list, hash_list and nr_process tell the same story: every listed process
\* is found by its pid, and only it, and the limit holds.
TablesAgree ==
    /\ TypeOK
    /\ Booted =>
        /\ \A p \in Listed : find_proc(pid[p]) = p
        /\ \A r \in Pid \ PidsTaken : find_proc(r) = NONE
        /\ nr_process = Len(proc_list) + 1 /\ nr_process <= MAX_PROCESS

\* Round robin: while a thread waits for the CPU no other gets it twice, though
\* the list grows at its head and threads fall asleep and wake meanwhile.
NoOvertaking == [][current' # current => \A p \in Proc : current' \notin passed[p]]_vars

\* With cooperative threads, a runnable thread gets the CPU, unless the machine
\* stops or the thread that has it comes to an instruction that faults: the handler
\* returns to it for ever.  A breakpoint does not stop anybody.
EveryThreadRuns ==
    \A p \in Proc \ {idleproc} :
        (p \in Listed /\ state[p] = "RUNNABLE") ~> (current = p \/ pc \in {"halt", "fault"})

==============================================================================
