# A TLA+ verification of the ucore Lab 4 kernel

This directory specifies and verifies a small RISC-V teaching kernel: the discovery of
physical memory at boot, the page allocator, the kernel heap, page tables, memory
areas, kernel threads, the scheduler, the trap path, and the string, formatting and
monitor code the kernel carries with it. The modules are translated from the C and assembly sources under `src/`; `PROJECT.json` maps every
definition to the lines it stands for.

## The system

One hart, kernel mode only. `kern_init` initialises memory, the process tables and
the timer, then becomes the idle thread. There is one real thread, `initproc`,
whose function returns at once into `do_exit`, which panics. The code is written
for more: any number of kernel threads, rescheduling, reclaimed pids.

| Component | State | Operations | Interacts with | What makes it correct |
|---|---|---|---|---|
| page allocator `default_pmm.c`, `list.h` | `free_list`, `nr_free`, flags, `property`, `ref` of every page | init, init_memmap, alloc_pages, free_pages | called by everything that needs memory, with interrupts off | free blocks sorted, disjoint, coalesced; every page is free or owned, never both; a request is refused only if no run fits; calls return |
| front end and page tables `pmm.c` | page tables, TLB | alloc/free, get_pte, page_insert, page_remove | page allocator | reference counts equal the number of mappings; no stale translation |
| SLOB `kmalloc.c` | circular list of free units, list of big blocks | kmalloc, kfree, ksize | page allocator | blocks disjoint and as large as asked; nothing lost |
| areas `vmm.c` | sorted list of areas, cache | find_vma, insert_vma_struct, mm_destroy | kmalloc | sorted, disjoint; the cache never changes an answer |
| pids `proc.c:get_pid` | `last_pid`, `next_safe` | get_pid | reads `proc_list` | unique, always found |
| threads `proc.c` | `proc_struct`s, `proc_list`, `hash_list`, `current` | proc_init, do_fork, kernel_thread, proc_run, do_exit, cpu_idle | allocators, scheduler, trap return | a thread always finds its own stack, registers, interrupt flag; failed forks leave nothing |
| scheduler `sched.c` | `state`, `need_resched` | schedule, wakeup_proc | proc_run | nobody is overtaken or starved |
| traps `trapentry.S`, `trap.c`, `clock.c` | trapframes, `ticks` | save, dispatch, restore, sret | interrupts any thread | returns exactly where it interrupted |
| interrupt flag `sync.h` | `sstatus.SIE`, a flag in each caller's frame | save, restore | used by all of the above | nests; restored on the right stack |
| device tree `dtb.c`, `page_init` | `memory_base`, `memory_size`, `npage`, `pages` | dtb_init, page_init | reads what the firmware left; feeds the page allocator | the memory node is found whatever precedes it; exactly the free whole frames are handed over |
| strings and output `string.c`, `printfmt.c`, `stdio.c` | the caller's buffers | str*, mem*, snprintf, cprintf | used by all, `dtb.c` and the monitor in particular | copies exact, buffers respected, numbers faithful |
| monitor `kmonitor.c`, `readline.c` | the global line buffer | readline, parse, runcmd | entered by panic | runs the line as edited |

Hard to test here: interrupts between any two instructions; locals that are read
after a context switch; a first run of a thread that takes a different way out of
`switch_to` than all later ones; values cached across calls (`next_safe`,
`mmap_cache`, the TLB); allocation failing half-way; long sequences of legal calls
that corrupt a list; padding and rounding that is wrong for some lengths only.
`PROJECT.json` lists each hazard at its line.

## Modules

| Module | Models | Checked by | Proofs |
|---|---|---|---|
| `ContigAlloc` | abstract: a set of free pages; a request is granted the lowest run that fits | through `Pmm` | |
| `Pmm` | `default_pmm.c` on `list.h`, pointers and flags | `MCPmm` | `PmmProofs` |
| `PmmCheck` | its self-tests `basic_check` and `default_check`, then arbitrary callers; extends `Pmm` | itself | |
| `Pids` | pid constants; what "the first free pid" means | through the next two | |
| `GetPid` | `get_pid`, one loop iteration a step | `MCGetPid` | `GetPidProofs` |
| `Proc` | `proc.c`, `sched.c`, `sync.h`, `switch.S`, `entry.S`, traps, exceptions and the timer | `MCProc` | `ProcProofs` |
| `Slob` | `kmalloc.c` | `MCSlob` | `SlobProofs` |
| `PageTable` | `get_pte`, `page_insert`, `page_remove` and the TLB of `pmm.c` | through the next | `PageTableProofs` |
| `PageTableCheck` | the self-tests `check_pgdir` and `check_boot_pgdir`, then arbitrary callers; extends `PageTable` | `MCPageTable` | `PageTableProofs` |
| `Vmm` | the areas of `vmm.c` | `MCVmm` | `VmmProofs` |
| `Boot` | `dtb.c` and `page_init` of `pmm.c` | `MCBoot` | `BootProofs` |
| `Strings` | `string.c` | `MCLibs` | `LibsProofs` |
| `Format` | `printfmt.c`, `vcprintf` and `cprintf` of `stdio.c`; extends `Strings` | `MCLibs` | `LibsProofs` |
| `Monitor` | `kmonitor.c`, `readline.c`, `getchar`; extends `Strings` | `MCLibs` | `LibsProofs` |

The modules meet at what one shows of the other: `Slob` and `PageTable` use the page
allocator as a set of free pages (`Slob` takes the lowest run, as `ContigAlloc` says;
`PageTable` any page), `Proc` uses `get_pid` as the first free pid, `Vmm` uses
`kmalloc` as places that are reused once freed. `Pmm` begins where `Boot` ends: a
reserved part at the bottom and one block of free frames above it. `Format` reads
widths and `Monitor` looks for blanks with the operators of `Strings`.

In each module an operator that is defined but not used is a plausible mistake in
the code of the definition that follows it; `PROJECT.json` says which property
notices the mistake. They are not part of the model.

### Pmm

A page is its index in `pages[]`; `HEAD` is `&free_list`. `links` holds the next and
prev pointers, `PG_property` and `PG_reserved` the pages with the flag, `held` what
callers own (not in the code). Because `alloc_pages` and `free_pages` run with
interrupts off, one call is in progress at a time; its loops take one step per
iteration so that termination is a question the model can answer. Callers ask for
any size up to `MaxRequest` and free any run of pages they own, as `kfree`,
`put_kstack` and the self-tests do, and set reference counts in between.

`default_free_pages` has no `break` after it appends a block behind the last entry
(148-150): the next iteration appends the block to itself. Whether that matters
depends on the callers, so the model has a parameter. With `TopStaysFree` true no
request takes the last page of memory, which is the situation of this kernel: it
allocates a few dozen pages of many thousands, first fit from below, so some block
always lies above the one being freed, and the branch is never taken. With
`TopStaysFree` false every request is allowed.

### PmmCheck

`check_alloc_page` runs the self-tests once, before anybody else allocates. They are a
sequence of calls, assertions and the copies of the list head; a call goes through the
steps of `Pmm`. The tests are the one place where this kernel does take the branch
without `break`: they put an empty list in place of the real one and free upwards into
it. That the damage stays in the temporary list, that no assertion notices it, and that
the real list is whole after the head has been copied back, is what the run shows. An
assertion is a guard, so that a failing one would keep the tests from ending. Then any
callers follow, for at most `MaxCalls` calls, the last page included.

### GetPid

`proc_list` is the sequence of pids, newest first. No code in this kernel removes a
process yet; `Reap` (external) removes any one between two calls, because the window
`last_pid + 1 .. next_safe - 1` only has to be right if the list can have holes.

### Proc

The CPU is `pc`, `sp`, `s0`, `sstatus` (SIE and SPIE), `sepc` and `scause`. A stack is a
sequence of frames: trapframes, and the locals of `schedule`, `proc_run` and
`do_fork` that live across a switch or an interrupt. `s0` stands for the
callee-saved registers; `kernel_thread` starts it with the thread's function. One
action is a stretch of code between two points where an interrupt or a switch can
tell the difference, and `Interrupt` can come before any of them while SIE is set.
`csrw sstatus` and `csrw sepc` in `RESTORE_ALL` are separate steps.

- `do_fork` is four steps (alloc_proc, setup_kstack, copy_thread, linking); both
  allocations can fail. `copy_mm` always returns 0, so `bad_fork_cleanup_kstack` is
  dead code and has no action.
- `get_pid` is replaced by what `GetPid` shows of it: the first free pid.
- An `assert` is a guard. If it failed the machine would have no step, and TLC
  would report a deadlock; `Halted` keeps the states after panic and shutdown from
  looking like one.
- Thread functions are external: any function may create threads, yield, sleep
  (set its state and call `schedule`), wake a sleeping thread, or return. `init_main`
  is the special case that returns at once. The kernel itself never makes a thread
  sleep, but `schedule` and `wakeup_proc` are written for it.
- A thread may execute an `ebreak`, which `exception_handler` steps over as it does
  illegal instructions (`advance_pc`), or an instruction that faults: for every other
  cause the handler only prints, `sret` goes back to the instruction, and it traps
  again. Interrupts may come before, between and after, and nest in nothing: a trap
  handler runs with SIE clear.
- Left out: `parent`, `name`, `runs`, `mm`, `flags` (stored, never used in a
  decision), and `lsatp` (every `pgdir` is the boot page table). The hash function
  is a parameter. `__intr_save` reads and clears SIE in one step: an interrupt in
  between restores the status it found.
- Not in the code: `job` (the function a thread was created for), `passed` (for
  every waiting thread, who got the CPU meanwhile) and `from` (where the trap being
  handled was taken, and why), which properties need.

### Slob

Addresses are counted in units of `sizeof(slob_t)`; `units` and `next` are the headers,
`slobfree` where the circular list is entered, `bigblocks` the list of page blocks. The
calls do not overlap (the locks disable interrupts and no handler allocates), and
their loops take one step per iteration, since whether they end depends on where
earlier calls left `slobfree`. A big block's descriptor overwrites the header it was
allocated with, as `bigblock_t` does in the code. Callers hold up to `MaxLive` blocks of
the sizes in `Sizes` and free them in any order; `live` (not in the code) records what
they asked for. `kmalloc(0)`, which no caller uses, is outside the model. The
`align` argument of `slob_alloc` is always 0 and has no counterpart.

### PageTable

`mem` is the content of every page, read as a table of entries; a linear address is
its three indices. A page that is not a table holds data that looks like valid
entries, so a table that is not cleared would show. `page_insert` is a step for each
level of `get_pte`, then the counts, the pte and the `sfence.vma` one by one, and
`page_remove_pte` frees, clears and flushes in separate steps. The TLB (external) may
read a valid translation at any time, in particular between those steps. Callers map pages
they have allocated or that are mapped already. There is one page directory.

`FreeTables` begins what `check_pgdir` (408-411) and `check_boot_pgdir` (449-453) end with,
which is a step for each of its writes: `FreeMapped` frees the page of the test, whose count is
still 2, `FreeLower` and `FreeUpper` the two tables, `ClearRoot` clears `boot_pgdir[0]`, and
`FlushAll` flushes the TLB. The code frees first and cuts off last, so for these few lines
free pages are tables, are mapped and may get into the TLB. Nothing goes wrong because the test
allocates nothing in between; the properties do not hide it. `TablesAreTree` says which
tables are free in which of these states (`FreedTables`) and that no other is, and
`FreePageUnreachable` that only the page of the test is, only below `boot_pgdir[0]`, and only
until the flush. The two self-tests call `FreeTables` where the script says, without a guard;
that `CanFreeTables` holds there (two tables, nothing else mapped below them) is proved.
Arbitrary callers call it when `CanFreeTables` holds.

`PageTableCheck` puts the two self-tests in front, as a script of calls and assertions
on whatever pages the allocator gives, with the hardware reading the tables in between.
What the strings in `check_boot_pgdir` test is modelled by what they are there for: both
addresses lead to the page, through the TLB if it has the translation. Permissions are
reduced to whether they include `PTE_U`. The first loop of `check_boot_pgdir` is left
out: it compares a negative `int` with a `size_t` and never runs.

### Vmm

One `mm_struct` at a time with its list, cache and count, and a few places for
`vma_struct`s. `mm_destroy` frees both and leaves the contents of the `mm_struct` as
they were, so a new one that was not initialised would show it. Callers create areas with
any bounds, also empty ones, and insert them in any order. `find_vma` and the other calls
are one step each: they are sequential and their loops run over a finite list.

### Boot

The structure block of the device tree is a sequence of bytes, encoded from a tree the
way the firmware does (external): big-endian words, names with their terminator and
property data padded to words. `extract_memory_info` takes one token a step, with its
loads, byte swaps and roundings on those bytes. A byte has 8 values instead of 256, so
that eight of them are still an integer of TLC, and letters are bytes. The header is
reduced to whether there is a tree and its magic number is right; the name of a property
is the number of a string. `page_init` is one step with its three ends: the panic over a
missing memory node, nothing to hand over, and `init_memmap`; `pa2page` panics when the
array ends in the last page of memory. The property of the parser is stated on the tree,
with nesting, and the one of `page_init` on the frames themselves.

Which trees there are is an assumption about the firmware, `WellFormed`, from what a
device tree is: every property belongs to a node and comes before the nodes in it, and a
token that ends the tree comes once, at the end. Two of its conditions the parser needs
and does not check. A node whose name begins with `memory` is a memory node: the code
compares the first six letters (`dtb.c:59`) and would take a `reg` of 16 bytes in a
`memory-controller` for the memory. And a memory node contains no nodes:
`in_memory_node` stays set in one (`dtb.c:60`), and the end of that node clears it (69).

### Strings, Format, Monitor

Characters are one-letter strings in the order of their codes. In `Strings` the functions
that only read are operators on sequences, checked against one another and against what
they mean; the ones that write are loops over the cells of a small memory, one iteration
a step, called with every source, destination, count and content that is legal for
them. The contents are gone when the call returns, so every call starts afresh.

In `Format` one action takes one character of the format, as the `switch` of `vprintfmt`
does; a conversion puts its characters at once, cut off where the buffer ends. The
texts of messages are a letter or two. An `int` has `IntBits` and a `long` `LongBits`
bits. The smallest `int` is not an argument of `%e` (its negation is undefined in C).

`Monitor` is the loop behind `sbi_shutdown`, reached when the firmware returns from it:
`readline` takes a character a step (or 0, or a negative number, after which what was
typed is lost), `parse` overwrites blanks and saves arguments one by one in the global
buffer, which keeps what earlier lines left. A line with more than `MAXARGS` words is
undefined in C; the model stops there. The commands only print.

## Runs

| Run | Instance | Result |
|---|---|---|
| `pmm` | 8 pages, requests up to 3, `TopStaysFree` | The list is sorted and well linked, blocks are disjoint and coalesced, pages are partitioned into free and owned, counts agree, no assertion fails, every call returns, and `ContigAlloc` is implemented. |
| `pmm_boot` | 7 pages, then any 7 calls, of up to 3 pages | The self-tests come to their end and leave the allocator as it was; whatever happens to the list afterwards, `nr_free` never counts a page that somebody owns. |
| `pmm_assert` | 5 pages, any caller | violation: an entry of the list is not marked free, which `default_check` asserts of every entry (240) |
| `get_pid` | 6 pids, 5 listed processes | Pids unique, first free pid returned, window free and maximal, the loop ends. |
| `proc` | 3 threads besides idle, 2 functions, 2 ticks | All the thread properties below. |
| `slob` | pages of 16 bytes, units of 2, 3 pages, 6 sizes, 3 blocks | The free list is one sorted cycle of joined chunks through the arena, every unit has one owner, headers are right, a small request fails only if nothing has room; every call returns. |
| `slob_assert` | sizes around the limit | violation: a size the caller may ask for fails the assertion of `slob_alloc` |
| `slob_big` | sizes around two pages | violation: a big block smaller than what was asked |
| `page_table` | 4 pages, 2 permissions, 4 addresses in 3 tables under 2 root entries | The self-tests pass. Tables form a tree, counts equal mappings, no page is lost, a free page is reached only at an address that is being cleared and flushed, no stale translation survives a call, only the addresses of the call are affected. The tables are also given back under the TLB's eyes, by the tests and by arbitrary callers. |
| `vmm` | 3 areas, addresses 0 to 4 | Areas sorted and disjoint, panics justified, `find_vma` right whatever is cached, nothing freed is referred to. |
| `libs` | 5 cells; strings up to 3; all formats of `%` and up to 3 of 18 characters; lines of up to 7 keys in a buffer of 6 | Copies exact, reads consistent, output cut off right, numbers read back by `strtol`, every format ends, commands are what was typed. |
| `boot` | pages of 4 bytes, memories of 0 to 36 bytes, some 1,400 trees | The memory node is found or its absence reported; exactly the usable frames are handed over. |

The thread properties: whenever an interrupt can come, `sp` is the stack of
`current`; a thread's own code always runs with interrupts enabled, on its own stack
and with its own registers; `sret` returns exactly to where the trap was taken, or
behind the instruction that the handler steps over; every thread
not on the CPU is resumable; failed forks leave nothing allocated; `proc_list`,
`hash_list` and `nr_process` agree and `find_proc` is right; no waiting thread is
overtaken twice by the same thread; and every runnable thread gets the CPU, unless the
machine stops or a thread is caught in an instruction that faults for ever.

Bounds. Eight pages allow three separated free blocks with owned pages between them
and both merges at once, the largest case the code distinguishes; smaller instances
suffice for the runs about the branch without `break`. Six pids for five processes
let a walk wrap around and restart with the list in every order. Three threads are
enough for one to be between two others in the list while a fourth cannot be
created (the limit is hit); two buckets make pids collide. Two ticks let
one interrupt come after another has returned, at any place; the shutdown after
`TICK_NUM * MaxPrints` ticks (1000 in the code) bounds them, as it does in the code.
For the heap, a page of eight units and three pages let chunks of one page join with the next
page, a block start on a page boundary without being a big one, a big block take two
pages out of the middle, and memory run out at each allocation; the sizes lie on both
sides of every limit in the code. Four pages are two tables and two mapped pages, or three
tables and one, so that sharing, replacing and failing at either level all occur.
Three areas are an area between two others, which is all `insert_vma_struct` looks at;
five addresses allow three disjoint areas with gaps, touching and overlapping ones.
Seven pages are the five that `default_check` takes at once, one below them that is
reserved and one that stays on the real list. Formats of three characters behind the `%`
reach every flag before every conversion, two widths or a width and a precision, and an
unknown character after any of them; buffers are smaller and larger than the output. Seven
keys are one more character than a line has room for, and the key that ends the line. The
device trees have names and property data of every length modulo 4 in front of the memory
node, data that reads as a token, nested nodes and a foreign `reg`; the memory sizes run
from nothing over "less than a page behind the array" to several pages.
Run `pmm` uses a `VIEW`: it leaves out the links of pages that are not on the list and
the size of pages that head no block. A step reads these only after writing them, so two
states with the same view have the same steps up to the view, and safety and liveness
are both preserved by the quotient.
Pages in `page_table` and areas in `vmm` are interchangeable, which `SYMMETRY` uses.

Fairness. `Pmm`, `PmmCheck`, `GetPid`, `Slob`, `Format` and `Boot`: weak fairness of the
steps of a call in progress; the code never waits there. `Proc`: weak fairness of the CPU's own steps, and strong
fairness of a thread calling `schedule`: the kernel has no preemption (the timer
never sets `need_resched`), so without cooperative threads nothing would be true.
Nothing is assumed of the timer, of allocations, or of threads waking each other.

## Proofs

`PmmProofs`, for every `NPage`, `FirstFree`, `MaxRequest`, `MaxRef`, the first three
assuming `TopStaysFree`:

- `FreeListCorrect`: `Spec => []MemoryAccounted`. The inductive invariant describes the
  list as a sorted chain: `next` and `prev` are inverse, and `next` is the next larger
  listed page. It needs
  `CallPosition` (what a half-finished call knows: the walk has passed only blocks
  that are too small, or below `base`) and `TopFree` (a block reaches the end of
  memory, so the insertion loop stops in time). Lemmas say what `list_add`,
  `list_add_before` and `list_del` do to a sorted chain, that a run of free pages
  lies in one block (by `Coalesced`), and that the first block that fits holds the
  lowest run.
- `CountsAndPlaces`: the parts of that invariant which hold in the middle of a call too.
- `AllocatorIsContigAlloc`: `Spec => AllocatorRefined`, the refinement, step by step.
- `NeverPromisesTooMuch`, `NeverLeavesMemory`: without `TopStaysFree`, and so after the
  defect under Findings has struck, `nr_free` is never more than what nobody owns, and no
  block reaches beyond memory.

`GetPidProofs`, for every `MAX_PID > MAX_PROCESS > 1`:

- `PidsAreUnique`, `FirstFreeReturned`, `StaticsMeanAWindow`: all invariants of run
  `get_pid`. `WalkKnows` is the loop invariant (every skipped pid is taken; every entry
  passed is below `last_pid` or not below `next_safe`); with `WindowFree` between calls
  it is inductive.

`PageTableProofs`, for every size of the tables, set of addresses and set of pages:

- `TablesAreATree`, `RefsAreMappings`, `FreeUnreachable`, `NoneStale`, and the action
  property `OwnAddressOnly` (`CallsKeepApart`). The inductive invariant says whose every
  page is in each state of a call: a table has one parent, a mapped page as many
  references as mappings, and a call that has raised or lowered a count has not yet, or
  has already, changed the entry. Reference counts are cardinalities of sets of
  addresses, so most of the lemmas say how one changes when one entry does. The invariant
  `Inv` has two parts: `IInv` between calls and in `page_insert` and `page_remove`, and
  `FreeingInv` while tables are given back, where the facts of `IInv` hold for all pages but
  those in `GivenBack`. `FreeingInv` keeps that nothing but these lies below `boot_pgdir[0]`,
  so that clearing it makes all of them unreachable at once, and the flush leads back to
  `IInv`. Both theorems about free pages hold in every state, this window included.
- `TestsArePageTableClients`: `CheckSpec => Spec`, so that all of the above holds of the
  self-tests and of what follows them.
- `ChecksPass`: `CheckSpec => []PgdirChecksPass`, for every set of at least four pages
  (two tables and two pages; with fewer the tests fail for want of memory). `ScriptInv`
  says for each line of the script which pages the tests hold, how many are free, what both
  addresses are mapped to and which tables there are; while a call is under way, what it
  leads to. The tables' shape comes from `TablesAreATree`, so the script only
  has to count them. `ScriptFreeing` takes its place while a test gives its tables back, and
  `TestCanFree` shows that it may.

`VmmProofs`, for every address space and number of `vma_struct`s:

- `Disjoint`, `Live`, `Justified`, `Finds`. What makes them inductive is that no area on
  the list is empty (`AreasNotEmpty`): without it, sorted neighbours do not make a
  sorted list. `find_vma`'s walk finds the least index, by the well-foundedness of the
  numbers; the cache holds an area of the list.

`SlobProofs`, for every number of pages and every size of a page, a header and a
descriptor with `SlobAssumption` (a page is a number of headers, and more than two) and
`OrderAssumption` (a bound: no size takes `find_order` more than `NPage` halvings, and
a power of 2 is a positive number, which the provers do not know):

- `HeapIsSorted`, `NoUnitLost`, `FailsHonestly`. The inductive invariant sees the
  circular list as the function from each chunk to the next higher one, `Tiled` says that
  chunks, blocks, descriptors and the block being freed cover every unit of the heap's
  pages exactly once, and the loop invariants say which chunks the walk has passed since
  it began at `slobfree`: those are the ones `FailsOnlyIfFull` must know to be too small.

`ProcProofs`, for every number of processes and pids, every set of thread functions
and every hash function (`ProcAssumption`, `GetPidAssumption`):

- `TrapsOnOwnStack`, `ThreadsKeepTheirState`, `SretGoesBack`, `EveryThreadResumable`,
  `ForkFailsClean`, `TablesTellTheSame`: the invariants of run `proc`. None is inductive.
  `IInv` adds what is on every stack. One thread runs: the CPU is at a label of its path
  (`At`), inside a trap that will return to one (`InTrap`), or halted; the frames on its
  stack are those of the calls that lead to the label (`Calls`); what a `do_fork` that has
  not finished owns is out of reach for all others (`Allocated`); and every other thread
  `Waits`, with the context `switch_to` saved, at `forkret` for the first time or in
  `proc_run` for any later one. Before `cpu_idle` there is only the boot thread
  (`BootInv`). An interrupt can come at every label of a path where the flag is set, so
  each lemma about a trap is about every one of those labels. `Clock`, that `ticks` stays
  below the number at which the kernel shuts down, is kept apart: nothing else needs it.
- `RoundRobin`: `Spec => NoOvertaking`, the action property. `RoundInv` says that
  `proc_list` has no duplicates, that the threads which had the CPU since `p` began to
  wait lie after `p` and up to `current` in the order `schedule` visits them, and that the
  `next` a `proc_run` holds while interrupted is still the one `schedule` would pick.

`LibsProofs`, about `Strings`, for memory of every size, all contents, strings, counts and pointers that
`Callable` allows (`MemSpec`; run `libs` makes some of these calls):

- `MemoryCopiedExactly`: a call has written a prefix of its destination, or a suffix when
  `memmove` goes backwards, and what it reads next is not among the cells written.
- `ReadingAgrees`: `ReadsAgree`. A comparison stops at one place, which is the same for
  both orders of the strings and for their first `len` characters.

and about `Format`, for every format, all arguments of the types it reads, every buffer
and both widths of integers (`FmtSpec`; run `libs` makes some of these calls):

- `OutputTruncated`: `FmtSpec => []Truncates`. `Output` says that in the middle of a call
  the buffer holds as much of the characters put so far as fits, that nothing else is
  touched, and that `cnt` counts them all. A conversion only puts text, which needs that
  there is an argument to convert: callers give one for every character of the format, and
  `Position` says that this is enough although `vprintfmt` goes back behind a `%` over
  characters that have taken arguments: what follows is literal text the second time. That
  numbers are text is shown for the recursive functions `digits` by
  the least number for which it would not be so.

and about `Monitor`, for every size of the line buffer, number of arguments, set of keys and
list of commands (`MonSpec`, the monitor on its own):

- `TypedIsRun`: `MonSpec => []RunsWhatWasTyped`. While a line is read, the buffer up to `i`
  is the line on the screen, `Edited` of the keys; `Edited` is a recursive function,
  and what a key does to its value is shown for it by the least index at which two of its
  functions differ. While it is parsed (`Parsing`), the blanks below `i` are
  terminators, `argv` lists where the words below `i` begin, and `i` is never inside a
  word. That the `x`-th argument is the `x`-th word is a bijection between the two, since
  words are ordered as their beginnings are. What earlier lines left behind the terminator
  is never read: `runcmd` and `StringAt` stop in front of it.

`BootProofs`, for every set of well-formed trees (`TreesAssumption`) and every number of
values of a byte from 8 up (`BootAssumption`):

- `MemoryFound`: `Spec => []FindsMemory`. Between two tokens the parser is behind the
  bytes of the first `k` pieces of the tree, for some `k` (`Behind`): what it knows of
  being in a memory node is what the tree says of those pieces, and none of them is the
  one it looks for. The lemmas say where in the block the bytes of a piece are, whatever
  comes before and after them, that the roundings lead from each piece to the next, that
  a big-endian number read little-endian and swapped is the number written, and that the
  node a property belongs to by nesting is the last that began before it.

Only model-checked: liveness (`EveryCallReturns`, `Returns`, `EveryThreadRuns`,
`SelfTestsPass`, `FormatEnds`, `HandsOverMemory`), which is beyond TLAPS, and
`NumbersReadBack` of `Format`, whose digits are built by recursion on data and read back
by another. Every other safety property that a run checks, but for those the code violates,
is a theorem.

## Findings

- `default_pmm.c:148`: freeing a block above all others makes it its own
  predecessor. Afterwards owned pages appear on the free list (`pmm_assert`), and
  after a few more calls of the same kind a walk need not come back to the head. After
  boot this kernel's callers do not get there (`pmm` and the proofs). Its self-tests do,
  on their temporary list, and pass all the same (`pmm_boot`).

- `kmalloc.c:234`: sizes from 4064 to 4079 bytes count as small and fail the assertion
  at line 99 (`slob_assert`). No caller in this kernel asks for one.
- `kmalloc.c:223`: `find_order` rounds down; 8193 bytes get two pages (`slob_big`). No
  caller in this kernel asks for more than a page.
- Without a run: `page_insert` can fail (`pmm.c:321`), its comment says `always 0` (313);
  the comment above `find_vma` (`vmm.c:96`) includes `vm_end` in an area,
  the code and `vmm.h:13` do not; the heading of `kmalloc.c` (22) calls the heap
  first-fit, the code starts at `slobfree` and is next-fit; the comment on the flag `-`
  (`printfmt.c:139`) says that it pads on the right, for numbers it pads on the left with
  minus signs; `cons_getc` promises 0 when nothing waits (`console.c:27`), and `readline`
  gives a line up if the firmware answers with a negative number; the loop at
  `pmm.c:426` that is to check the kernel mapping never runs.

## Plan

1. Abstract specifications and refinements, with their step proofs: `Slob` to a heap of
   disjoint blocks, `PageTable` to a partial function from addresses to pages, `Vmm` to a
   set of intervals.
2. Proofs: `NumbersReadBack`, from what a numeral is worth; the three refinements.
3. `check_vma_struct` as a caller of `Vmm`.

## Not modelled

- `riscv.h`, `elf.h`, `stab.h`, `error.h` and the other headers of constants and inline
  assembly: nothing in them decides anything.
- The firmware calls (`sbi.h`), and `picirq.c`, whose functions are empty; the entry code of `entry.S` and the linker script.
- `kdebug.c` and the commands of the monitor, which print; `print_trapframe`.
- `hash.c`: a parameter of `Proc`; the product needs more than 32 bits.
- Functions nobody calls: `boot_map_segment`, `boot_alloc_page`, `enable_paging`,
  `get_pgtable_items`, `perm2str`.
